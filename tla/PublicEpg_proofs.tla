-------------------------- MODULE PublicEpg_proofs --------------------------
(***************************************************************************)
(* What holds of the public EPG for every number of writers, readers,      *)
(* schedules and channels.  The composition implements ScheduleService, so *)
(* the theorems about the table hold here too, and those about the cache   *)
(* rest on them.                                                           *)
(***************************************************************************)
EXTENDS PublicEpg, ScheduleService_proofs

\* A step that leaves the schedule service alone.
LEMMA CacheStepsLeaveTheService ==
    ASSUME \/ \E r \in Readers : Request(r)
           \/ Work
           \/ \E k \in Keys : Expire(k)
           \/ \E h \in Handlers, c \in Channels : Purge(h, c)
    PROVE  UNCHANGED vars
  BY DEF Request, Miss, ReadTable, Fill, Abandon, Work, Process, Retry, Expire, Purge

LEMMA EpgStepImplementsService == [EpgNext]_epgVars => [Next]_vars
<1> SUFFICES ASSUME [EpgNext]_epgVars PROVE [Next]_vars
  OBVIOUS
<1>1. CASE UNCHANGED epgVars
  BY <1>1 DEF epgVars
<1>2. ASSUME NEW h \in Handlers, Handle(h)
      PROVE  [Next]_vars
  <2>1. CASE \E c \in Channels : Purge(h, c)
    BY <2>1, CacheStepsLeaveTheService
  <2>2. CASE ~\E c \in Channels : Purge(h, c)
    <3>1. Begin(h) \/ Proceed(h) \/ Fail(h)
      BY <1>2, <2>2 DEF Handle, Serve, Purged, EnqueueJobs, Die, Proceed
    <3> QED
      BY <3>1 DEF Next
  <2> QED
    BY <2>1, <2>2
<1> QED
  BY <1>1, <1>2, CacheStepsLeaveTheService DEF EpgNext

\* The cache, its readers and the worker change nothing about the service:
\* what is proved of ScheduleService holds of the composition.
THEOREM EpgImplementsService == EpgSpec => Spec
<1>1. EpgInit => Init
  BY DEF EpgInit
<1>2. [EpgNext]_epgVars => [Next]_vars
  BY EpgStepImplementsService
<1> QED
  BY <1>1, <1>2, PTL DEF EpgSpec, Spec

-----------------------------------------------------------------------------

LEMMA PublicSlotsType ==
    ASSUME TypeOK, NEW k
    PROVE  PublicSlots(k) \in SUBSET PublicSlot
  BY DEF TypeOK, PublicSlots, PublicSlotOf, PublicSlot, Exists, Row

LEMMA EpgTypeStep == TypeOK /\ EpgTypeOK /\ [EpgNext]_epgVars => EpgTypeOK'
<1> SUFFICES ASSUME TypeOK, EpgTypeOK, [EpgNext]_epgVars PROVE EpgTypeOK'
  OBVIOUS
<1>1. CASE UNCHANGED epgVars
  BY <1>1 DEF EpgTypeOK, epgVars, cacheVars
<1>2. ASSUME NEW h \in Handlers, Handle(h)
      PROVE  EpgTypeOK'
  <2>1. CASE Serve(h) \/ Purged(h)
    BY <2>1 DEF EpgTypeOK, Serve, Purged, cacheVars
  <2>2. CASE EnqueueJobs(h)
    BY <2>2 DEF EpgTypeOK, EnqueueJobs
  <2>3. CASE Die(h)
    BY <2>3 DEF EpgTypeOK, Die
  <2>4. ASSUME NEW c \in Channels, Purge(h, c)
        PROVE  EpgTypeOK'
    BY <2>4 DEF EpgTypeOK, Purge, Keys
  <2> QED
    BY <1>2, <2>1, <2>2, <2>3, <2>4 DEF Handle
<1>3. ASSUME NEW r \in Readers, Request(r)
      PROVE  EpgTypeOK'
  <2>1. CASE Miss(r)
    BY <2>1 DEF EpgTypeOK, Miss, Reader
  <2>2. CASE ReadTable(r)
    <3>1. reader[r] \in Reader /\ PublicSlots(reader[r].key) \in SUBSET PublicSlot
      BY <2>2, PublicSlotsType DEF EpgTypeOK, ReadTable
    <3> QED
      BY <2>2, <3>1 DEF EpgTypeOK, ReadTable, Reader
  <2>3. CASE Fill(r)
    <3> DEFINE k == reader[r].key
               e == [slots |-> reader[r].slots, late |-> reader[r].slots # PublicSlots(k)]
    <3>1. reader[r] \in Reader
      BY <2>3 DEF EpgTypeOK, Fill
    <3>2. k \in Keys /\ e \in Response
      BY <3>1 DEF Reader, Response
    <3>3. /\ cache' = [cache EXCEPT ![k] = e] \/ cache' = cache
          /\ reader' = [reader EXCEPT ![r] = Null]
          /\ jobs' = jobs /\ purged' = purged
      BY <2>3 DEF Fill
    <3> HIDE DEF k, e
    <3> QED
      BY <3>2, <3>3 DEF EpgTypeOK
  <2>4. CASE Abandon(r)
    BY <2>4 DEF EpgTypeOK, Abandon
  <2> QED
    BY <1>3, <2>1, <2>2, <2>3, <2>4 DEF Request
<1>4. ASSUME NEW c \in Channels, NEW n \in 1 .. Attempts, Process(c, n) \/ Retry(c, n)
      PROVE  EpgTypeOK'
  <2>1. jobs[<<c, n>>] \in Nat
    BY DEF EpgTypeOK
  <2>2. CASE Process(c, n)
    BY <2>1, <2>2 DEF EpgTypeOK, Process, Keys
  <2>3. CASE Retry(c, n)
    BY <2>1, <2>3 DEF EpgTypeOK, Retry
  <2> QED
    BY <1>4, <2>2, <2>3
<1>5. ASSUME NEW k \in Keys, Expire(k)
      PROVE  EpgTypeOK'
  BY <1>5 DEF EpgTypeOK, Expire
<1> QED
  BY <1>1, <1>2, <1>3, <1>4, <1>5 DEF EpgNext, Work

\* The cache holds responses, the queue holds jobs, a handler has seen to
\* channels.
THEOREM EpgTypeCorrect == EpgSpec => []EpgTypeOK
<1>1. EpgInit => EpgTypeOK
  BY DEF EpgInit, EpgTypeOK
<1>2. TypeOK /\ EpgTypeOK /\ [EpgNext]_epgVars => EpgTypeOK'
  BY EpgTypeStep
<1> QED
  BY <1>1, <1>2, EpgImplementsService, TypeCorrect, PTL DEF EpgSpec

-----------------------------------------------------------------------------
(* Nothing unpublished is served.                                          *)

\* The inductive form: it holds of a response between the read and the store.
ReadersHoldPublished ==
    \A r \in Readers : reader[r] # Null =>
        \A a \in reader[r].slots : Exists(a.id) /\ schedules[a.id].stamped

ServedInv == OnlyPublishedIsServed /\ ReadersHoldPublished

\* A row is never deleted and never loses its stamp.
LEMMA StampsStay ==
    ASSUME CoreInv, [Next]_vars, NEW s \in ScheduleIds, Exists(s), schedules[s].stamped
    PROVE  Exists(s)' /\ schedules'[s].stamped
<1>1. ASSUME NEW h \in Handlers, Write(h)
      PROVE  Exists(s)' /\ schedules'[s].stamped
  <2>1. /\ call[h] \in Call /\ RowAfter(call[h]) # Null
        /\ schedules'[call[h].id] = RowAfter(call[h])
        /\ \A t \in ScheduleIds \ {call[h].id} : schedules'[t] = schedules[t]
        /\ Pending(h)
    BY <1>1, WriteReplacesOneRow
  <2>2. CASE s = call[h].id
    <3>1. call[h].op # "create"
      BY <2>1, <2>2 DEF CoreInv, CallsTargetRows
    <3>2. RowAfter(call[h]).stamped
      BY <2>2, <3>1 DEF RowAfter, UpdatedRow
    <3> QED
      BY <2>1, <2>2, <3>2 DEF Exists
  <2>3. CASE s # call[h].id
    BY <2>1, <2>3 DEF Exists
  <2> QED
    BY <2>2, <2>3
<1>2. ASSUME NEW h \in Handlers, Begin(h) \/ Proceed(h) \/ Fail(h), ~Write(h)
      PROVE  UNCHANGED schedules
  <2>1. CASE Begin(h)
    BY <2>1, BeginAccepts DEF CoreInv, Accept
  <2> QED
    BY <1>2, <2>1 DEF Proceed, Check, Refuse, Audit, Invalidate, Enqueue, Fail
<1>3. UNCHANGED schedules => Exists(s)' /\ schedules'[s].stamped
  BY DEF Exists
<1>4. CASE UNCHANGED vars
  BY <1>3, <1>4 DEF vars
<1>5. CASE Next
  BY <1>1, <1>2, <1>3, <1>5 DEF Next
<1> QED
  BY <1>4, <1>5

LEMMA PublicSlotsAreStamped ==
    ASSUME PublishedIsStamped, NEW k
    PROVE  \A a \in PublicSlots(k) :
             a.id \in ScheduleIds /\ Exists(a.id) /\ schedules[a.id].stamped
  BY DEF PublishedIsStamped, PublicSlots, PublicSlotOf, Exists

LEMMA ServedStep ==
    CoreInv /\ PublishedIsStamped /\ EpgTypeOK /\ ServedInv /\ [EpgNext]_epgVars => ServedInv'
<1> SUFFICES ASSUME CoreInv, PublishedIsStamped, EpgTypeOK, ServedInv, [EpgNext]_epgVars
             PROVE  ServedInv'
  OBVIOUS
<1>1. \A s \in ScheduleIds : Exists(s) /\ schedules[s].stamped
        => schedules'[s] # Null /\ schedules'[s].stamped
  BY EpgStepImplementsService, StampsStay DEF Exists
<1>2. /\ \A k \in Keys : cache[k] # Null =>
           \A a \in cache[k].slots : schedules'[a.id] # Null /\ schedules'[a.id].stamped
      /\ \A r \in Readers : reader[r] # Null =>
           \A a \in reader[r].slots : schedules'[a.id] # Null /\ schedules'[a.id].stamped
  BY <1>1 DEF ServedInv, OnlyPublishedIsServed, ReadersHoldPublished, EpgTypeOK, Response,
              Reader, PublicSlot
<1>3. ASSUME \A k \in Keys : cache'[k] = cache[k] \/ cache'[k] = Null,
             \A r \in Readers : reader'[r] = reader[r] \/ reader'[r] = Null
      PROVE  ServedInv'
  BY <1>2, <1>3 DEF ServedInv, OnlyPublishedIsServed, ReadersHoldPublished, Exists
<1>4. CASE UNCHANGED epgVars
  BY <1>3, <1>4 DEF epgVars, cacheVars
<1>5. ASSUME NEW h \in Handlers, Handle(h)
      PROVE  ServedInv'
  BY <1>3, <1>5 DEF Handle, Serve, Purged, EnqueueJobs, Die, Purge, cacheVars, EpgTypeOK
<1>6. ASSUME NEW r \in Readers, Request(r)
      PROVE  ServedInv'
  <2>1. CASE Miss(r)
    BY <1>2, <2>1 DEF Miss, ServedInv, OnlyPublishedIsServed, ReadersHoldPublished, Exists, EpgTypeOK
  <2>2. CASE ReadTable(r)
    <3>1. \A a \in PublicSlots(reader[r].key) :
            schedules'[a.id] # Null /\ schedules'[a.id].stamped
      BY <1>1, PublicSlotsAreStamped
    <3>2. /\ cache' = cache
          /\ \A q \in Readers \ {r} : reader'[q] = reader[q]
          /\ reader'[r].slots = PublicSlots(reader[r].key)
      <4>1. reader[r] \in Reader
        BY <2>2 DEF ReadTable, EpgTypeOK
      <4> QED
        BY <2>2, <4>1 DEF ReadTable, EpgTypeOK, Reader
    <3> QED
      BY <1>2, <3>1, <3>2 DEF ServedInv, OnlyPublishedIsServed, ReadersHoldPublished, Exists
  <2>3. CASE Fill(r)
    <3>1. /\ \A k \in Keys : \/ cache'[k] = cache[k]
                             \/ cache'[k].slots = reader[r].slots
          /\ \A q \in Readers : reader'[q] = reader[q] \/ reader'[q] = Null
          /\ reader[r] # Null
      BY <2>3 DEF Fill, EpgTypeOK
    <3> QED
      BY <1>2, <3>1 DEF ServedInv, OnlyPublishedIsServed, ReadersHoldPublished, Exists
  <2>4. CASE Abandon(r)
    BY <1>3, <2>4 DEF Abandon, EpgTypeOK
  <2> QED
    BY <1>6, <2>1, <2>2, <2>3, <2>4 DEF Request
<1>7. CASE Work
  BY <1>3, <1>7 DEF Work, Process, Retry, EpgTypeOK
<1>8. ASSUME NEW k \in Keys, Expire(k)
      PROVE  ServedInv'
  BY <1>3, <1>8 DEF Expire, EpgTypeOK
<1> QED
  BY <1>4, <1>5, <1>6, <1>7, <1>8 DEF EpgNext

\* No cached response shows a schedule that no publish call ever let through,
\* whatever dies, fails or races.
THEOREM NothingUnpublishedServed == EpgSpec => []OnlyPublishedIsServed
<1>1. EpgInit => ServedInv
  BY DEF EpgInit, ServedInv, OnlyPublishedIsServed, ReadersHoldPublished
<1>2. CoreInv /\ PublishedIsStamped /\ EpgTypeOK /\ ServedInv /\ [EpgNext]_epgVars => ServedInv'
  BY ServedStep
<1>3. ServedInv => OnlyPublishedIsServed
  BY DEF ServedInv
<1> QED
  BY <1>1, <1>2, <1>3, EpgImplementsService, EpgTypeCorrect, CoreHolds, PublishedStamped, PTL
     DEF EpgSpec

-----------------------------------------------------------------------------
(* Answered writes are visible, with Redis answering.                      *)

\* A call that changes a row knows the channel the row is on.
KnowsChannel(h) == call[h].op # "create" => schedules[call[h].id].channel = call[h].from

\* It does when it writes.
WritesKnowChannels == \A h \in Handlers : Write(h) => KnowsChannel(h)

\* It does all the time between its first read and its write.
ChannelsAreKnown == \A h \in Handlers : Pending(h) => KnowsChannel(h)

\* A handler starts its invalidation with nothing done, and is through with
\* it when it enqueues.
PurgesAreInStep ==
    \A h \in Handlers :
        /\ pc[h] \notin {"invalidate", "enqueue"} => purged[h] = {}
        /\ pc[h] = "enqueue" => ToPurge(h) = {}

SeenInv == PurgesAreInStep /\ WritesAreSeen

\* A call that knows the channel of its row changes what the public sees of a
\* channel only if it announces that it will delete the keys of that channel.
LEMMA WriteAnnouncesItsChannels ==
    ASSUME CoreInv, StampInv, NEW h \in Handlers, Write(h), KnowsChannel(h),
           NEW k \in Channels, k \notin InvalidatedBy(call[h], RowAfter(call[h]))
    PROVE  PublicSlots(k)' = PublicSlots(k)
<1> DEFINE c == call[h]
           row == RowAfter(c)
<1>1. /\ c \in Call /\ row \in Row /\ row # Null
      /\ schedules'[c.id] = row
      /\ \A s \in ScheduleIds \ {c.id} : schedules'[s] = schedules[s]
      /\ Pending(h)
  BY WriteReplacesOneRow
<1>2. Shape(c) /\ (c.op # "create" => schedules[c.id].channel = c.from)
  BY <1>1 DEF StampInv, CallsKeepShape, KnowsChannel
<1>3. c.op = "create" => ~Exists(c.id)
  BY <1>1 DEF CoreInv, CallsTargetRows
<1>4. row.channel \in InvalidatedBy(c, row) /\ c.from \in InvalidatedBy(c, row)
  BY <1>1, <1>2 DEF InvalidatedBy, RowAfter, NewRow, UpdatedRow, Call, Operations, Shape
<1>5. row.channel # k /\ (Exists(c.id) => schedules[c.id].channel # k)
  BY <1>2, <1>3, <1>4
<1>6. AllChannels # k
  BY KeyAssumption
<1> DEFINE Seen(rows, s) == rows[s] # Null /\ rows[s].status = "PUBLISHED"
                              /\ (k = AllChannels \/ rows[s].channel = k)
<1>7. \A s \in ScheduleIds : Seen(schedules', s) => Seen(schedules, s)
  BY <1>1, <1>5, <1>6
<1>8. \A s \in ScheduleIds : Seen(schedules, s) => Seen(schedules', s)
  BY <1>1, <1>5, <1>6 DEF Exists
<1>9. \A s \in ScheduleIds : Seen(schedules, s) => s # c.id /\ schedules'[s] = schedules[s]
  BY <1>1, <1>5, <1>6 DEF Exists
<1> QED
  BY <1>7, <1>8, <1>9 DEF PublicSlots, PublicSlotOf, Exists

\* The steps of a call that leave the table and the announcement alone.
LEMMA QuietStepKeepsSeen ==
    ASSUME CoreInv, EpgTypeOK, SeenInv, NEW h \in Handlers, Serve(h), ~Write(h)
    PROVE  SeenInv'
<1>1. /\ schedules' = schedules /\ written' = written
      /\ UNCHANGED cacheVars
      /\ \A g \in Handlers \ {h} : pc'[g] = pc[g]
      /\ pc[h] \notin {"invalidate", "enqueue"} /\ pc'[h] # "enqueue"
  <2>1. CASE Begin(h)
    <3>1. PICK c \in Call, next \in {"check", "write"} : pc[h] = "idle" /\ Accept(h, c, next)
      BY <2>1, BeginAccepts DEF CoreInv
    <3> QED
      BY <3>1 DEF Accept, Serve, CoreInv, TypeOK
  <2>2. CASE Check(h) \/ Refuse(h) \/ Audit(h)
    BY <2>2 DEF Serve, Check, Refuse, Audit, CoreInv, TypeOK
  <2> QED
    BY <2>1, <2>2 DEF Serve
<1>2. \A g \in Handlers : ToPurge(g)' = ToPurge(g)
  BY <1>1 DEF ToPurge, cacheVars
<1>3. \A k \in Keys : PublicSlots(k)' = PublicSlots(k)
  BY <1>1 DEF PublicSlots, PublicSlotOf, Exists
<1>4. PurgesAreInStep'
  BY <1>1, <1>2 DEF SeenInv, PurgesAreInStep, cacheVars
<1>5. WritesAreSeen'
  BY <1>1, <1>2, <1>3 DEF SeenInv, WritesAreSeen, Outdated, cacheVars, Keys
<1> QED
  BY <1>4, <1>5 DEF SeenInv

LEMMA WriteKeepsSeen ==
    ASSUME CoreInv, StampInv, EpgTypeOK, SeenInv,
           NEW h \in Handlers, Write(h), KnowsChannel(h), UNCHANGED cacheVars
    PROVE  SeenInv'
<1>1. /\ pc[h] = "write" /\ pc'[h] = "audit"
      /\ written'[h].invalidates = InvalidatedBy(call[h], RowAfter(call[h]))
      /\ written[h] = Null /\ written'[h] # Null
      /\ \A g \in Handlers \ {h} : pc'[g] = pc[g] /\ written'[g] = written[g]
  <2>1. /\ pc[h] = "write" /\ pc'[h] = "audit" /\ written[h] = Null
        /\ \A g \in Handlers \ {h} : pc'[g] = pc[g] /\ written'[g] = written[g]
    BY DEF Write, CoreInv, TypeOK
  <2>2. CoreInv'
    BY WriteKeepsCore
  <2>3. written'[h] # Null
    BY <2>1, <2>2 DEF CoreInv, TypeOK
  <2> QED
    BY <2>1, <2>3 DEF Write, CoreInv, TypeOK
<1>2. purged[h] = {} /\ purged' = purged /\ cache' = cache
  BY <1>1 DEF SeenInv, PurgesAreInStep, cacheVars
<1>3. /\ ToPurge(h) = {} /\ ToPurge(h)' = InvalidatedBy(call[h], RowAfter(call[h]))
      /\ \A g \in Handlers \ {h} : ToPurge(g)' = ToPurge(g)
  BY <1>1, <1>2 DEF ToPurge
<1>4. PurgesAreInStep'
  BY <1>1, <1>2, <1>3 DEF SeenInv, PurgesAreInStep
<1>5. ASSUME NEW k \in Channels, Outdated(k)', ~cache'[k].late
      PROVE  \E g \in Handlers : k \in ToPurge(g)'
  <2>1. CASE k \in InvalidatedBy(call[h], RowAfter(call[h]))
    BY <1>3, <2>1
  <2>2. CASE k \notin InvalidatedBy(call[h], RowAfter(call[h]))
    <3>1. PublicSlots(k)' = PublicSlots(k)
      BY <2>2, WriteAnnouncesItsChannels
    <3>2. Outdated(k) /\ ~cache[k].late
      BY <1>2, <1>5, <3>1 DEF Outdated
    <3>3. PICK g \in Handlers : k \in ToPurge(g)
      BY <3>2 DEF SeenInv, WritesAreSeen
    <3> QED
      BY <1>3, <3>3
  <2> QED
    BY <2>1, <2>2
<1> QED
  BY <1>4, <1>5 DEF SeenInv, WritesAreSeen

\* Deleting, expiring and storing responses.
LEMMA CacheStepKeepsSeen ==
    ASSUME ~RedisFaults, EpgTypeOK, SeenInv,
           \/ \E r \in Readers : Request(r)
           \/ Work
           \/ \E k \in Keys : Expire(k)
    PROVE  SeenInv'
<1>1. UNCHANGED vars /\ purged' = purged
  BY CacheStepsLeaveTheService
     DEF Request, Miss, ReadTable, Fill, Abandon, Work, Process, Retry, Expire
<1>2. \A g \in Handlers : ToPurge(g)' = ToPurge(g)
  BY <1>1 DEF ToPurge, vars
<1>3. \A k \in Keys : PublicSlots(k)' = PublicSlots(k)
  BY <1>1 DEF PublicSlots, PublicSlotOf, Exists, vars
<1>4. PurgesAreInStep'
  BY <1>1, <1>2 DEF SeenInv, PurgesAreInStep, vars
<1>5. \A k \in Keys : \/ cache'[k] = cache[k]
                      \/ cache'[k] = Null
                      \/ ~cache'[k].late => cache'[k].slots = PublicSlots(k)
  <2>1. ASSUME NEW r \in Readers, Request(r)
        PROVE  \A k \in Keys : \/ cache'[k] = cache[k]
                               \/ ~cache'[k].late => cache'[k].slots = PublicSlots(k)
    <3>1. CASE Fill(r)
      <4> DEFINE late == reader[r].slots # PublicSlots(reader[r].key)
      <4>1. \/ cache' = cache
            \/ cache' = [cache EXCEPT ![reader[r].key] =
                            [slots |-> reader[r].slots, late |-> late]]
        BY <3>1 DEF Fill
      <4>2. ~late => reader[r].slots = PublicSlots(reader[r].key)
        OBVIOUS
      <4> HIDE DEF late
      <4> QED
        BY <4>1, <4>2 DEF EpgTypeOK
    <3> QED
      BY <2>1, <3>1 DEF Request, Miss, ReadTable, Abandon
  <2>2. ASSUME Work \/ \E k \in Keys : Expire(k)
        PROVE  \A k \in Keys : cache'[k] = cache[k] \/ cache'[k] = Null
    BY <2>2 DEF Work, Process, Retry, Expire, EpgTypeOK
  <2> QED
    BY <2>1, <2>2
<1>6. WritesAreSeen'
  BY <1>2, <1>3, <1>5 DEF SeenInv, WritesAreSeen, Outdated, Keys
<1> QED
  BY <1>4, <1>6 DEF SeenInv

LEMMA PurgeKeepsSeen ==
    ASSUME ~RedisFaults, CoreInv, EpgTypeOK, SeenInv, NEW h \in Handlers,
           Purged(h) \/ EnqueueJobs(h) \/ \E c \in Channels : Purge(h, c)
    PROVE  SeenInv'
<1>1. schedules' = schedules
  BY DEF Purged, Invalidate, EnqueueJobs, Enqueue, Purge, vars
<1>2. \A k \in Keys : PublicSlots(k)' = PublicSlots(k)
  BY <1>1 DEF PublicSlots, PublicSlotOf, Exists
<1>3. CASE Purged(h)
  <2>1. /\ written' = written /\ UNCHANGED cacheVars /\ ToPurge(h) = {}
        /\ \A g \in Handlers \ {h} : pc'[g] = pc[g]
        /\ pc'[h] = "enqueue"
    BY <1>3 DEF Purged, Invalidate, CoreInv, TypeOK
  <2>2. \A g \in Handlers : ToPurge(g)' = ToPurge(g)
    BY <2>1 DEF ToPurge, cacheVars
  <2>3. PurgesAreInStep'
    BY <2>1, <2>2 DEF SeenInv, PurgesAreInStep, cacheVars
  <2>4. WritesAreSeen'
    BY <1>2, <2>1, <2>2 DEF SeenInv, WritesAreSeen, Outdated, cacheVars, Keys
  <2> QED
    BY <2>3, <2>4 DEF SeenInv
<1>4. CASE EnqueueJobs(h)
  <2>1. /\ cache' = cache
        /\ pc[h] = "enqueue" /\ pc'[h] = "idle" /\ written'[h] = Null /\ purged'[h] = {}
        /\ \A g \in Handlers \ {h} :
             pc'[g] = pc[g] /\ written'[g] = written[g] /\ purged'[g] = purged[g]
    BY <1>4 DEF EnqueueJobs, Enqueue, CoreInv, TypeOK, EpgTypeOK
  <2>2. \A g \in Handlers : ToPurge(g)' = ToPurge(g)
    BY <2>1 DEF ToPurge, SeenInv, PurgesAreInStep
  <2>3. PurgesAreInStep'
    BY <2>1, <2>2 DEF SeenInv, PurgesAreInStep
  <2>4. WritesAreSeen'
    BY <1>2, <2>1, <2>2 DEF SeenInv, WritesAreSeen, Outdated, Keys
  <2> QED
    BY <2>3, <2>4 DEF SeenInv
<1>5. ASSUME NEW c \in Channels, Purge(h, c)
      PROVE  SeenInv'
  <2>1. /\ cache' = [cache EXCEPT ![c] = Null]
        /\ pc[h] = "invalidate" /\ pc' = pc /\ written' = written
        /\ purged' = [purged EXCEPT ![h] = @ \cup {c}]
    BY <1>5 DEF Purge, vars
  <2>2. \A k \in Channels \ {c} : \A g \in Handlers : k \in ToPurge(g) => k \in ToPurge(g)'
    BY <2>1 DEF ToPurge, EpgTypeOK
  <2>3. \A g \in Handlers \ {h} : ToPurge(g)' = ToPurge(g)
    BY <2>1 DEF ToPurge, EpgTypeOK
  <2>4. PurgesAreInStep'
    BY <2>1, <2>3 DEF SeenInv, PurgesAreInStep, EpgTypeOK
  <2>5. WritesAreSeen'
    BY <1>2, <2>1, <2>2 DEF SeenInv, WritesAreSeen, Outdated, Keys, EpgTypeOK
  <2> QED
    BY <2>4, <2>5 DEF SeenInv
<1> QED
  BY <1>3, <1>4, <1>5

LEMMA SeenStep ==
    ASSUME ~Faults, ~RedisFaults
    PROVE  CoreInv /\ StampInv /\ EpgTypeOK /\ SeenInv /\ [EpgNext]_epgVars
             /\ [WritesKnowChannels]_vars => SeenInv'
<1> SUFFICES ASSUME CoreInv, StampInv, EpgTypeOK, SeenInv, [EpgNext]_epgVars,
                    [WritesKnowChannels]_vars
             PROVE  SeenInv'
  OBVIOUS
<1>1. CASE UNCHANGED epgVars
  BY <1>1 DEF epgVars, cacheVars, vars, SeenInv, PurgesAreInStep, WritesAreSeen, Outdated,
              ToPurge, PublicSlots, PublicSlotOf, Exists
<1>2. ASSUME NEW h \in Handlers, Handle(h)
      PROVE  SeenInv'
  <2>1. ~Die(h)
    BY DEF Die, Fail
  <2>2. CASE Serve(h) /\ ~Write(h)
    BY <2>2, QuietStepKeepsSeen
  <2>3. CASE Serve(h) /\ Write(h)
    <3>1. KnowsChannel(h)
      BY <2>3, WriteAnnounces DEF WritesKnowChannels, Write, vars
    <3> QED
      BY <2>3, <3>1, WriteKeepsSeen DEF Serve
  <2> QED
    BY <1>2, <2>1, <2>2, <2>3, PurgeKeepsSeen DEF Handle
<1> QED
  BY <1>1, <1>2, CacheStepKeepsSeen DEF EpgNext

LEMMA SeenHolds ==
    ASSUME ~Faults, ~RedisFaults
    PROVE  EpgSpec /\ [][WritesKnowChannels]_vars => []WritesAreSeen
<1>1. EpgInit => SeenInv
  BY DEF EpgInit, Init, SeenInv, PurgesAreInStep, WritesAreSeen, Outdated, Keys
<1>2. CoreInv /\ StampInv /\ EpgTypeOK /\ SeenInv /\ [EpgNext]_epgVars
        /\ [WritesKnowChannels]_vars => SeenInv'
  BY SeenStep
<1>3. SeenInv => WritesAreSeen
  BY DEF SeenInv
<1> QED
  BY <1>1, <1>2, <1>3, EpgImplementsService, EpgTypeCorrect, CoreHolds, StampHolds, PTL
     DEF EpgSpec

LEMMA KnownWhenPending == CoreInv /\ ChannelsAreKnown => [WritesKnowChannels]_vars
  BY WriteReplacesOneRow DEF ChannelsAreKnown, WritesKnowChannels

\* With calls for one row kept apart, a write that has been answered is served
\* by its channels, but for a response that was already late when it was
\* stored.  Writers and readers of a channel may overlap as they like.
THEOREM WritesAreSeenWhenApart ==
    ASSUME ~Faults, ~RedisFaults
    PROVE  EpgSpec /\ []RowsApart => []WritesAreSeen
<1>1. SerialInv => ChannelsAreKnown
  BY DEF SerialInv, CallsAreCurrent, TrueOfRow, ChannelsAreKnown, KnowsChannel
<1> QED
  BY <1>1, SeenHolds, KnownWhenPending, EpgImplementsService, SerialHolds, CoreHolds, PTL

\* With UPDATEs that match the version, too: a call that would leave a channel
\* it does not know of fails instead.
THEOREM WritesAreSeenWithVersionsChecked ==
    ASSUME ~Faults, ~RedisFaults
    PROVE  EpgSpec /\ VersionsChecked => []WritesAreSeen
<1>1. CoreInv /\ VersionsTellSlots /\ [\A h \in Handlers : Write(h) => VersionMatches(h)]_vars
        => [WritesKnowChannels]_vars
  <2> SUFFICES ASSUME CoreInv, VersionsTellSlots, NEW h \in Handlers, Write(h), VersionMatches(h)
               PROVE  KnowsChannel(h)
    BY DEF WritesKnowChannels
  <2>1. VersionTellsSlot(call[h])
    BY WriteReplacesOneRow DEF VersionsTellSlots
  <2> QED
    BY <2>1 DEF VersionTellsSlot, VersionMatches, SlotAsRead, KnowsChannel
<1> QED
  BY <1>1, SeenHolds, EpgImplementsService, VersionsTellHolds, CoreHolds, PTL DEF VersionsChecked

\* No body moves a schedule to another channel.
NoMoves == \A dto \in UpdateDtos : dto.channel = Null

\* Then no call does.
CallsStay ==
    \A h \in Handlers : Pending(h) /\ call[h].op # "create" => "channel" \notin call[h].sets

LEMMA BeginsStaying ==
    ASSUME TypeOK, NoMoves, NEW h \in Handlers, Begin(h), NEW c \in Call,
           NEW next \in {"check", "write"}, Accept(h, c, next), c.op # "create"
    PROVE  "channel" \notin c.sets
<1>1. call'[h] = c
  BY DEF Accept, TypeOK
<1>2. CASE BeginCreate(h)
  <2>1. call'[h].op = "create"
    BY <1>2 DEF BeginCreate, Accept, TypeOK
  <2> QED
    BY <1>1, <2>1
<1>3. CASE BeginUpdate(h)
  <2>1. PICK dto \in UpdateDtos : call'[h].sets = UpdateSets(dto)
    BY <1>3 DEF BeginUpdate, Accept, TypeOK
  <2>2. dto.channel = Null
    BY DEF NoMoves
  <2> QED
    BY <1>1, <2>1, <2>2 DEF UpdateSets
<1>4. CASE BeginPublish(h)
  BY <1>1, <1>4 DEF BeginPublish, Accept, TypeOK
<1>5. CASE BeginCancel(h)
  BY <1>1, <1>5 DEF BeginCancel, Accept, TypeOK
<1> QED
  BY <1>2, <1>3, <1>4, <1>5 DEF Begin

LEMMA StayingStep ==
    ASSUME NoMoves
    PROVE  CoreInv /\ CallsStay /\ ChannelsAreKnown /\ [Next]_vars => (CallsStay /\ ChannelsAreKnown)'
<1> SUFFICES ASSUME CoreInv, CallsStay, ChannelsAreKnown, [Next]_vars
             PROVE  CallsStay' /\ ChannelsAreKnown'
  OBVIOUS
<1>1. CASE UNCHANGED vars
  BY <1>1 DEF CallsStay, ChannelsAreKnown, KnowsChannel, Pending, vars
<1>2. ASSUME NEW h \in Handlers, Begin(h) PROVE CallsStay' /\ ChannelsAreKnown'
  <2>1. PICK c \in Call, next \in {"check", "write"} : Accept(h, c, next) /\ TrueOfRow(c)
    BY <1>2, BeginAccepts DEF CoreInv
  <2>2. /\ schedules' = schedules /\ call'[h] = c
        /\ \A g \in Handlers \ {h} : (Pending(g)' <=> Pending(g)) /\ call'[g] = call[g]
    BY <2>1, AcceptLeavesOthers
  <2>3. c.op # "create" => "channel" \notin c.sets /\ schedules[c.id].channel = c.from
    BY <1>2, <2>1, BeginsStaying DEF CoreInv, TrueOfRow
  <2> QED
    BY <2>2, <2>3 DEF CallsStay, ChannelsAreKnown, KnowsChannel
<1>3. ASSUME NEW h \in Handlers, Write(h) PROVE CallsStay' /\ ChannelsAreKnown'
  <2>1. /\ Pending(h) /\ schedules'[call[h].id] = RowAfter(call[h])
        /\ \A s \in ScheduleIds \ {call[h].id} : schedules'[s] = schedules[s]
        /\ \A g \in Handlers :
             Pending(g)' => g # h /\ Pending(g) /\ call'[g] = call[g] /\ call[g] \in Call
    BY <1>3, WriteReplacesOneRow
  <2>2. CallsStay'
    BY <2>1 DEF CallsStay
  <2>3. ASSUME NEW g \in Handlers, Pending(g)', call'[g].op # "create"
        PROVE  schedules'[call'[g].id].channel = call'[g].from
    <3>1. /\ Pending(g) /\ call'[g] = call[g] /\ call[g].id \in ScheduleIds
          /\ Exists(call[g].id) /\ schedules[call[g].id].channel = call[g].from
      BY <2>1, <2>3 DEF Call, CoreInv, CallsTargetRows, ChannelsAreKnown, KnowsChannel
    <3>2. CASE call[g].id = call[h].id
      <4>1. call[h].op # "create" /\ "channel" \notin call[h].sets
        BY <2>1, <3>1, <3>2 DEF CoreInv, CallsTargetRows, CallsStay
      <4>2. RowAfter(call[h]).channel = schedules[call[h].id].channel
        BY <4>1 DEF RowAfter, UpdatedRow
      <4> QED
        BY <2>1, <3>1, <3>2, <4>2
    <3>3. CASE call[g].id # call[h].id
      BY <2>1, <3>1, <3>3
    <3> QED
      BY <3>2, <3>3
  <2> QED
    BY <2>2, <2>3 DEF ChannelsAreKnown, KnowsChannel
<1>4. ASSUME NEW h \in Handlers, Proceed(h) \/ Fail(h), ~Write(h)
      PROVE  CallsStay' /\ ChannelsAreKnown'
  <2>1. /\ schedules' = schedules
        /\ \A g \in Handlers : Pending(g)' => Pending(g) /\ call'[g] = call[g]
    BY <1>4, QuietStepKeepsCalls DEF Proceed
  <2> QED
    BY <2>1 DEF CallsStay, ChannelsAreKnown, KnowsChannel
<1> QED
  BY <1>1, <1>2, <1>3, <1>4 DEF Next

\* Only a schedule that changes its channel can be missed: without such updates
\* an answered write is served by its channel with any number of requests
\* running into each other, those for one row included.
THEOREM WritesAreSeenWithoutMoves ==
    ASSUME NoMoves, ~Faults, ~RedisFaults
    PROVE  EpgSpec => []WritesAreSeen
<1>1. Init => CallsStay /\ ChannelsAreKnown
  BY DEF Init, CallsStay, ChannelsAreKnown, KnowsChannel, Pending
<1>2. CoreInv /\ CallsStay /\ ChannelsAreKnown /\ [Next]_vars => (CallsStay /\ ChannelsAreKnown)'
  BY StayingStep
<1>3. Spec => []ChannelsAreKnown
  BY <1>1, <1>2, CoreHolds, PTL DEF Spec
<1> QED
  BY <1>3, SeenHolds, KnownWhenPending, EpgImplementsService, CoreHolds, PTL

-----------------------------------------------------------------------------
(* No response shows a double booking.                                     *)

\* A request holds what it read until it stores it.
ReadersHoldApart == \A r \in Readers : reader[r] # Null => Apart(reader[r].slots)

ApartInv == ServedWithoutOverlap /\ ReadersHoldApart

LEMMA PublicSlotsAreApart ==
    ASSUME NoDoubleBooking, NEW k
    PROVE  Apart(PublicSlots(k))
<1> SUFFICES ASSUME NEW s \in ScheduleIds, NEW t \in ScheduleIds, s # t,
                    Exists(s), schedules[s].status = "PUBLISHED",
                    Exists(t), schedules[t].status = "PUBLISHED",
                    schedules[s].channel = schedules[t].channel
             PROVE  ~Overlaps(PublicSlotOf(s), PublicSlotOf(t))
  BY DEF Apart, PublicSlots, PublicSlotOf
<1>1. ~Overlaps(schedules[s], schedules[t])
  BY DEF NoDoubleBooking, IsLive
<1> QED
  BY <1>1 DEF Overlaps, PublicSlotOf

LEMMA ApartStep == NoDoubleBooking /\ EpgTypeOK /\ ApartInv /\ [EpgNext]_epgVars => ApartInv'
<1> SUFFICES ASSUME NoDoubleBooking, EpgTypeOK, ApartInv, [EpgNext]_epgVars
             PROVE  ApartInv'
  OBVIOUS
<1>1. ASSUME \A k \in Keys : cache'[k] = cache[k] \/ cache'[k] = Null,
             \A r \in Readers : reader'[r] = reader[r] \/ reader'[r] = Null
      PROVE  ApartInv'
  BY <1>1 DEF ApartInv, ServedWithoutOverlap, ReadersHoldApart
<1>2. CASE UNCHANGED epgVars
  BY <1>1, <1>2 DEF epgVars, cacheVars
<1>3. ASSUME NEW h \in Handlers, Handle(h)
      PROVE  ApartInv'
  BY <1>1, <1>3 DEF Handle, Serve, Purged, EnqueueJobs, Die, Purge, cacheVars, EpgTypeOK
<1>4. ASSUME NEW r \in Readers, Request(r)
      PROVE  ApartInv'
  <2>1. CASE Miss(r)
    <3>1. Apart({})
      BY DEF Apart
    <3> QED
      BY <2>1, <3>1 DEF Miss, ApartInv, ServedWithoutOverlap, ReadersHoldApart, EpgTypeOK
  <2>2. CASE ReadTable(r)
    <3>1. Apart(PublicSlots(reader[r].key))
      BY PublicSlotsAreApart
    <3>2. /\ cache' = cache
          /\ \A q \in Readers \ {r} : reader'[q] = reader[q]
          /\ reader'[r].slots = PublicSlots(reader[r].key)
      <4>1. reader[r] \in Reader
        BY <2>2 DEF ReadTable, EpgTypeOK
      <4> QED
        BY <2>2, <4>1 DEF ReadTable, EpgTypeOK, Reader
    <3> QED
      BY <3>1, <3>2 DEF ApartInv, ServedWithoutOverlap, ReadersHoldApart
  <2>3. CASE Fill(r)
    <3>1. /\ \A k \in Keys : cache'[k] = cache[k] \/ cache'[k].slots = reader[r].slots
          /\ \A q \in Readers : reader'[q] = reader[q] \/ reader'[q] = Null
          /\ reader[r] # Null
      BY <2>3 DEF Fill, EpgTypeOK
    <3> QED
      BY <3>1 DEF ApartInv, ServedWithoutOverlap, ReadersHoldApart
  <2>4. CASE Abandon(r)
    BY <1>1, <2>4 DEF Abandon, EpgTypeOK
  <2> QED
    BY <1>4, <2>1, <2>2, <2>3, <2>4 DEF Request
<1>5. CASE Work
  BY <1>1, <1>5 DEF Work, Process, Retry, EpgTypeOK
<1>6. ASSUME NEW k \in Keys, Expire(k)
      PROVE  ApartInv'
  BY <1>1, <1>6 DEF Expire, EpgTypeOK
<1> QED
  BY <1>2, <1>3, <1>4, <1>5, <1>6 DEF EpgNext

\* With calls kept apart by row and by channel, no response ever shows two
\* programmes of a channel at the same time, late and outdated ones included.
THEOREM ServedWithoutOverlapWhenApart ==
    EpgSpec /\ []RowsApart /\ []ChannelsApart => []ServedWithoutOverlap
<1>1. EpgInit => ApartInv
  BY DEF EpgInit, ApartInv, ServedWithoutOverlap, ReadersHoldApart
<1>2. NoDoubleBooking /\ EpgTypeOK /\ ApartInv /\ [EpgNext]_epgVars => ApartInv'
  BY ApartStep
<1>3. ApartInv => ServedWithoutOverlap
  BY DEF ApartInv
<1> QED
  BY <1>1, <1>2, <1>3, NoDoubleBookingWhenApart, EpgImplementsService, EpgTypeCorrect, PTL
     DEF EpgSpec
=============================================================================
