----------------------------- MODULE PublicEpg -----------------------------
(***************************************************************************)
(* The public EPG: the schedule service together with the Redis cache in   *)
(* front of GET /public/schedules, the requests that fill it and the       *)
(* worker that deletes from it.                                            *)
(*                                                                         *)
(* A request looks its key up, on a miss reads the table and then stores   *)
(* what it read: three awaits, between which writes and invalidations may  *)
(* happen.  A write deletes the keys of its channels one by one, and       *)
(* enqueues a job for each that makes the worker delete them again.  The   *)
(* pattern it deletes by names a channel, so a response cached under a key *)
(* without one is only ever removed by its TTL.                            *)
(*                                                                         *)
(* The window of a query is left out: a key stands for all keys with its   *)
(* channel, and a response holds every schedule of it (up to the limit of  *)
(* 200 rows, which is not modelled).                                       *)
(***************************************************************************)
EXTENDS ScheduleService

CONSTANTS
    Readers,        \* requests to the public API in flight
    AllChannels,    \* the key of a query without a channelId
    RedisFaults,    \* whether a Redis command may fail
    MaxJobs         \* bound: waiting jobs of a channel

VARIABLES
    cache,          \* what Redis holds for a key: a response or Null
    reader,         \* a request that missed: its key and what it read
    jobs,           \* jobs waiting for a channel, by attempts they have left
    purged          \* channels whose keys a handler has seen to already

cacheVars == <<cache, reader, jobs, purged>>
epgVars == <<vars, cacheVars>>

Keys == Channels \cup {AllChannels}

\* QUEUE_JOB_OPTIONS.attempts
Attempts == 3

\* What a response shows of a schedule.
PublicSlot == [id : ScheduleIds, channel : Channels, start : Times,
               stop : Times, duration : Durations]

\* A cached response.  late is history: the table had changed since it was
\* read when it was stored.
Response == [slots : SUBSET PublicSlot, late : BOOLEAN]

\* A request that missed; slots is {} until it has read the table.
Reader == [key : Keys, read : BOOLEAN, slots : SUBSET PublicSlot]

ASSUME KeyAssumption == AllChannels \notin Channels
ASSUME RedisAssumption == RedisFaults \in BOOLEAN
ASSUME JobsAssumption == MaxJobs \in Nat
ASSUME NullResponseAssumption == Null \notin Response /\ Null \notin Reader

EpgTypeOK ==
    /\ cache \in [Keys -> Response \cup {Null}]
    /\ reader \in [Readers -> Reader \cup {Null}]
    /\ jobs \in [Channels \X (1 .. Attempts) -> Nat]
    /\ purged \in [Handlers -> SUBSET Channels]

-----------------------------------------------------------------------------

PublicSlotOf(s) ==
    [id |-> s, channel |-> schedules[s].channel, start |-> schedules[s].start,
     stop |-> schedules[s].stop, duration |-> schedules[s].duration]

\* Mutant: the query forgets the status.
SlotsOfAnyStatus(k) ==
    {PublicSlotOf(s) : s \in {t \in ScheduleIds :
        Exists(t) /\ (k = AllChannels \/ schedules[t].channel = k)}}

\* buildScheduleWhere: the published schedules, of the channel if one is named.
PublicSlots(k) ==
    {PublicSlotOf(s) : s \in {t \in ScheduleIds :
        /\ Exists(t) /\ schedules[t].status = "PUBLISHED"
        /\ k = AllChannels \/ schedules[t].channel = k}}

EpgInit ==
    /\ Init
    /\ cache = [k \in Keys |-> Null]
    /\ reader = [r \in Readers |-> Null]
    /\ jobs = [j \in Channels \X (1 .. Attempts) |-> 0]
    /\ purged = [h \in Handlers |-> {}]

-----------------------------------------------------------------------------
(* A request to the public API.                                            *)

\* getCachedResponse finds nothing, or Redis fails, which looks the same.  A
\* hit is answered at once and changes nothing.
Miss(r) ==
    /\ reader[r] = Null
    /\ \E k \in Keys :
         /\ cache[k] # Null => RedisFaults
         /\ reader' = [reader EXCEPT ![r] = [key |-> k, read |-> FALSE, slots |-> {}]]
    /\ UNCHANGED <<vars, cache, jobs, purged>>

\* prisma.schedule.findMany
ReadTable(r) ==
    /\ reader[r] # Null
    /\ ~reader[r].read
    /\ reader' = [reader EXCEPT ![r].read = TRUE, ![r].slots = PublicSlots(reader[r].key)]
    /\ UNCHANGED <<vars, cache, jobs, purged>>

\* setCachedResponse, unless Redis fails; either way the request is answered.
Fill(r) ==
    /\ reader[r] # Null
    /\ reader[r].read
    /\ LET k == reader[r].key IN
         \/ cache' = [cache EXCEPT ![k] =
              [slots |-> reader[r].slots,
               late  |-> reader[r].slots # PublicSlots(k)]]
         \/ RedisFaults /\ UNCHANGED cache
    /\ reader' = [reader EXCEPT ![r] = Null]
    /\ UNCHANGED <<vars, jobs, purged>>

\* The process dies or the database refuses the query.
Abandon(r) ==
    /\ Faults
    /\ reader[r] # Null
    /\ reader' = [reader EXCEPT ![r] = Null]
    /\ UNCHANGED <<vars, cache, jobs, purged>>

\* Mutant: only the keys of a channel are stored with a TTL.
ExpiresWithChannel(k) == k # AllChannels

\* setCachedResponse gives every key the TTL PUBLIC_SCHEDULES.
Expires(k) == TRUE

\* Redis drops a key whose time is up.
Expire(k) ==
    /\ cache[k] # Null
    /\ Expires(k)
    /\ cache' = [cache EXCEPT ![k] = Null]
    /\ UNCHANGED <<vars, reader, jobs, purged>>

-----------------------------------------------------------------------------
(* The end of a call that has written.                                     *)

\* The channels a call that has written has still to see to.
ToPurge(h) == IF written[h] = Null THEN {} ELSE written[h].invalidates \ purged[h]

\* deleteByPattern for one channel: the keys go, unless Redis fails, which is
\* logged and no more.
Purge(h, c) ==
    /\ pc[h] = "invalidate"
    /\ c \in ToPurge(h)
    /\ \/ cache' = [cache EXCEPT ![c] = Null]
       \/ RedisFaults /\ UNCHANGED cache
    /\ purged' = [purged EXCEPT ![h] = @ \cup {c}]
    /\ UNCHANGED <<vars, reader, jobs>>

\* All of invalidateScheduleCache is done.
Purged(h) ==
    /\ ToPurge(h) = {}
    /\ Invalidate(h)
    /\ UNCHANGED cacheVars

\* Jobs waiting for a channel.
Backlog(c) == jobs[<<c, 1>>] + jobs[<<c, 2>>] + jobs[<<c, 3>>]

\* enqueueScheduleJobs: the jobs that Redis does not take are dropped, and the
\* request is answered all the same.  The jobs one call adds for a channel
\* delete the same keys and count as one.
EnqueueJobs(h) ==
    /\ Enqueue(h)
    /\ \E added \in SUBSET written[h].enqueues :
         /\ added # written[h].enqueues => RedisFaults
         /\ \A c \in added : Backlog(c) < MaxJobs
         /\ jobs' = [j \in DOMAIN jobs |->
                       IF j[1] \in added /\ j[2] = Attempts THEN jobs[j] + 1
                       ELSE jobs[j]]
    /\ purged' = [purged EXCEPT ![h] = {}]
    /\ UNCHANGED <<cache, reader>>

\* The worker processes a job: it deletes the keys of the channel.  If it dies
\* before it has reported the job done, BullMQ hands the job out again.
Process(c, n) ==
    /\ jobs[<<c, n>>] > 0
    /\ cache' = [cache EXCEPT ![c] = Null]
    /\ \/ jobs' = [jobs EXCEPT ![<<c, n>>] = @ - 1]
       \/ Faults /\ UNCHANGED jobs
    /\ UNCHANGED <<vars, reader, purged>>

\* Its Redis fails: deleteByPattern throws, and BullMQ delays the job for the
\* next attempt or keeps it among the failed ones, where nothing reads it.
Retry(c, n) ==
    /\ RedisFaults
    /\ jobs[<<c, n>>] > 0
    /\ jobs' = [j \in DOMAIN jobs |->
                  CASE j = <<c, n>>     -> jobs[j] - 1
                    [] j = <<c, n - 1>> -> jobs[j] + 1
                    [] OTHER            -> jobs[j]]
    /\ UNCHANGED <<vars, cache, reader, purged>>

\* The call dies.
Die(h) ==
    /\ Fail(h)
    /\ purged' = [purged EXCEPT ![h] = {}]
    /\ UNCHANGED <<cache, reader, jobs>>

\* The steps of a call that do not touch the cache.
Serve(h) ==
    /\ Begin(h) \/ Check(h) \/ Refuse(h) \/ Write(h) \/ Audit(h)
    /\ UNCHANGED cacheVars

Handle(h) ==
    Serve(h) \/ Purged(h) \/ EnqueueJobs(h) \/ Die(h) \/ \E c \in Channels : Purge(h, c)
Request(r) == Miss(r) \/ ReadTable(r) \/ Fill(r) \/ Abandon(r)
Work == \E c \in Channels, n \in 1 .. Attempts : Process(c, n) \/ Retry(c, n)

EpgNext ==
    \/ \E h \in Handlers : Handle(h)
    \/ \E r \in Readers : Request(r)
    \/ Work
    \/ \E k \in Keys : Expire(k)

EpgSpec == EpgInit /\ [][EpgNext]_epgVars

\* Redis counts the TTL of a key down whatever else happens: no request, write
\* or worker has to be fair.
FairEpgSpec == EpgSpec /\ \A k \in Keys : WF_epgVars(Expire(k))

-----------------------------------------------------------------------------
(* Properties.                                                             *)

Outdated(k) == cache[k] # Null /\ cache[k].slots # PublicSlots(k)

\* Nothing that was never published reaches the public: every schedule in a
\* cached response has been stamped by publish, however old the response is
\* and whatever became of the schedule since.
OnlyPublishedIsServed ==
    \A k \in Keys : cache[k] # Null =>
        \A a \in cache[k].slots : Exists(a.id) /\ schedules[a.id].stamped

Apart(slots) ==
    \A a, b \in slots : a.id # b.id /\ a.channel = b.channel => ~Overlaps(a, b)

\* No double booking on air: a response shows one moment of the table, so two
\* of its slots on a channel never overlap.  While calls do not run into each
\* other.
ServedWithoutOverlap == \A k \in Keys : cache[k] # Null => Apart(cache[k].slots)

\* When a write has been answered, its channels serve it: a response of a
\* channel that is outdated and was up to date when it was stored is one that
\* the call behind the change is about to delete.  It covers the channel an
\* update takes a schedule away from, and holds while Redis answers and calls
\* do not run into each other; a late response escapes it.
WritesAreSeen ==
    \A k \in Channels :
        Outdated(k) /\ ~cache[k].late => \E h \in Handlers : k \in ToPurge(h)

\* No outdated response is served for ever, under any key, through lost
\* invalidations, exhausted retries and late responses: the TTL ends it.
StaleResponsesEnd == \A k \in Keys : Outdated(k) ~> ~Outdated(k)
=============================================================================
