-------------------------- MODULE ScheduleService --------------------------
(***************************************************************************)
(* The write side of the schedules module (schedules.service.ts and        *)
(* publish/schedule-publish.service.ts) over the schedules and             *)
(* schedule_audit_logs tables.  Every await of a handler is a point where  *)
(* the handlers of other requests run: a call reads what it starts from,   *)
(* asks for conflicts, writes, records the audit row, invalidates the      *)
(* public cache and enqueues the worker's jobs in separate steps, and no   *)
(* transaction or lock spans two of them.                                  *)
(*                                                                         *)
(* A call that is refused changes nothing, so refusals are not steps of    *)
(* the model except the one by the conflict check, whose outcome depends   *)
(* on what the other calls did meanwhile.                                  *)
(***************************************************************************)
EXTENDS ScheduleRules, FiniteSets

CONSTANTS
    Handlers,       \* requests being served at the same time
    ScheduleIds,    \* the uuids the database may hand out
    Channels,       \* rows of the channels table; they are never deleted
    Horizon,        \* bound: no slot ends after this second
    MaxVersion,     \* bound: no edit of a row that reached this version
    CreateDtos,     \* bodies of POST /schedules
    UpdateDtos,     \* bodies of PUT /schedules/:id
    Faults,         \* whether a handler may die between two awaits
    Null            \* an absent row, or a field absent from a body

VARIABLES
    schedules,      \* the schedules table: a row or Null for every uuid
    audit,          \* the schedule_audit_logs table
    pc,             \* what the handler will do next
    call,           \* what a handler decided on before its write
    written         \* what a handler still has to announce after its write

vars == <<schedules, audit, pc, call, written>>

Times == 0 .. Horizon
Durations == 1 .. Horizon
Statuses == {"DRAFT", "PUBLISHED", "CANCELLED"}
Fields == {"channel", "start", "stop", "duration", "status"}
Operations == {"create", "update", "publish", "cancel"}

\* A row of the schedules table.  stamped says whether publishedAt is set.
Row == [channel : Channels, start : Times, stop : Times,
        duration : Durations, status : Statuses,
        version : Nat \ {0}, stamped : BOOLEAN]

\* The parts of a CreateScheduleDto that decide anything.  An asset counts by
\* its duration, which stands in for an absent duration of the body.
CreateDto == [channel : Channels, start : Times,
              stop : Times \cup {Null}, duration : Durations \cup {Null},
              autoSnap : BOOLEAN]

\* UpdateScheduleDto: every field is optional.
UpdateDto == [channel : Channels \cup {Null}, start : Times \cup {Null},
              stop : Times \cup {Null}, duration : Durations \cup {Null},
              status : Statuses \cup {Null}]

\* A call between its first read and its write: the row it will write, the
\* fields of it the write will set, and what it saw when it read the row.
Call == [op : Operations, id : ScheduleIds,
         channel : Channels, start : Times, stop : Times,
         duration : Durations, status : Statuses,
         sets : SUBSET Fields, from : Channels, before : Nat]

\* A call after its write: the audit row to insert and the channels whose
\* caches it invalidates itself and has the worker invalidate.
Written == [op : Operations, id : ScheduleIds, before : Nat,
            version : Nat \ {0},
            invalidates : SUBSET Channels, enqueues : SUBSET Channels]

\* An audit row: the version of beforeData (0 for none) and of afterData.  The
\* importer adds rows too, see Importer.
AuditRow == [op : Operations \cup {"import"}, id : ScheduleIds, before : Nat,
             version : Nat \ {0}]

ASSUME BoundsAssumption == Horizon \in Nat /\ MaxVersion \in Nat
ASSUME FaultsAssumption == Faults \in BOOLEAN
ASSUME DtosAssumption == CreateDtos \subseteq CreateDto /\ UpdateDtos \subseteq UpdateDto
ASSUME NullAssumption == Null \notin Row /\ Null \notin Call /\ Null \notin Written

TypeOK ==
    /\ schedules \in [ScheduleIds -> Row \cup {Null}]
    /\ audit \in SUBSET AuditRow
    /\ pc \in [Handlers -> {"idle", "check", "write", "audit", "invalidate", "enqueue"}]
    /\ call \in [Handlers -> Call \cup {Null}]
    /\ written \in [Handlers -> Written \cup {Null}]
    /\ \A h \in Handlers :
         /\ (call[h] # Null) <=> (pc[h] \in {"check", "write"})
         /\ (written[h] # Null) <=> (pc[h] \in {"audit", "invalidate", "enqueue"})

-----------------------------------------------------------------------------

Exists(s) == schedules[s] # Null
IsLive(s) == Exists(s) /\ schedules[s].status # "CANCELLED"

\* The schedules of a channel that the overlap, snap and gap queries look at.
LiveOn(c) == {schedules[s] : s \in {t \in ScheduleIds : IsLive(t) /\ schedules[t].channel = c}}

\* Mutant: only published schedules stand in the way.
NoConflictWithPublished(c) ==
    \A s \in ScheduleIds \ {c.id} :
        Exists(s) /\ schedules[s].status = "PUBLISHED" /\ schedules[s].channel = c.channel
          => ~Overlaps(schedules[s], c)

\* assertNoOverlap: no other schedule of the channel stands in the way.
NoConflict(c) ==
    \A s \in ScheduleIds \ {c.id} :
        IsLive(s) /\ schedules[s].channel = c.channel => ~Overlaps(schedules[s], c)

OrElse(value, default) == IF value # Null THEN value ELSE default

\* buildCreateInput: the duration comes from the body, from the asset or from
\* the explicit stop; auto-snap moves the start and drops the explicit stop.
CreateInput(dto) ==
    LET duration == OrElse(dto.duration, dto.stop - dto.start)
        start    == IF dto.autoSnap THEN SnapStart(LiveOn(dto.channel), dto.start)
                    ELSE dto.start
    IN [start |-> start, duration |-> duration,
        stop |-> IF dto.autoSnap THEN start + duration
                 ELSE OrElse(dto.stop, start + duration)]

\* resolveUpdateDuration and buildUpdateInput: what the body leaves out comes
\* from the row as it was read.
UpdateInput(dto, row) ==
    LET start    == OrElse(dto.start, row.start)
        duration == IF dto.duration # Null THEN dto.duration
                    ELSE IF dto.stop # Null THEN dto.stop - start
                    ELSE row.duration
    IN [start |-> start, duration |-> duration,
        stop |-> IF dto.stop # Null THEN dto.stop
                 ELSE IF dto.start # Null \/ dto.duration # Null THEN start + duration
                 ELSE row.stop]

\* Mutant: the UPDATE names exactly the fields of the body.
UpdateSetsAsGiven(dto) == {f \in Fields : dto[f] # Null}

\* persistStartTime, persistStopTime, persistDuration and the plain fields:
\* the columns the UPDATE statement names.  The others keep what is stored.
UpdateSets(dto) ==
    {f \in Fields :
        \/ f \in {"channel", "start", "status"} /\ dto[f] # Null
        \/ f = "stop" /\ (dto.stop # Null \/ dto.start # Null \/ dto.duration # Null)
        \/ f = "duration" /\ (dto.duration # Null \/ dto.stop # Null)}

\* Mutant: a cancelled row may be changed.
TransitionFromCancelled(row, dto) == dto.status = "PUBLISHED" => row.status = "PUBLISHED"

\* Mutant: an update may publish.
TransitionToPublished(row, dto) == row.status # "CANCELLED"

\* validateStatusTransition
StatusTransitionAllowed(row, dto) ==
    /\ row.status # "CANCELLED"
    /\ dto.status = "PUBLISHED" => row.status = "PUBLISHED"

\* The uuid of a row that nobody has: drawn when the call begins, which no
\* other call can tell from its being drawn by the INSERT.
FreshId(s) == ~Exists(s) /\ \A h \in Handlers : call[h] # Null => call[h].id # s

\* A slot of the modelled day.
WithinHorizon(a) == a.start \in Times /\ a.stop \in Times /\ a.duration \in Durations

-----------------------------------------------------------------------------

Init ==
    /\ schedules = [s \in ScheduleIds |-> Null]
    /\ audit = {}
    /\ pc = [h \in Handlers |-> "idle"]
    /\ call = [h \in Handlers |-> Null]
    /\ written = [h \in Handlers |-> Null]

\* The handler has read and validated, and goes on with call c at step next.
Accept(h, c, next) ==
    /\ call' = [call EXCEPT ![h] = c]
    /\ pc' = [pc EXCEPT ![h] = next]
    /\ UNCHANGED <<schedules, audit, written>>

\* POST /schedules up to the conflict check.
BeginCreate(h) ==
    /\ pc[h] = "idle"
    /\ \E dto \in CreateDtos, s \in ScheduleIds :
         LET input == CreateInput(dto) IN
         /\ FreshId(s)
         /\ dto.duration # Null \/ dto.stop # Null
         /\ WithinHorizon(input)
         /\ WellFormed(input)
         /\ Accept(h,
                   [op |-> "create", id |-> s, channel |-> dto.channel,
                    start |-> input.start, stop |-> input.stop,
                    duration |-> input.duration, status |-> "DRAFT",
                    sets |-> Fields, from |-> dto.channel, before |-> 0],
                   "check")

\* PUT /schedules/:id up to the conflict check.
BeginUpdate(h) ==
    /\ pc[h] = "idle"
    /\ \E s \in ScheduleIds, dto \in UpdateDtos :
         LET row   == schedules[s]
             input == UpdateInput(dto, row)
         IN
         /\ Exists(s)
         /\ row.version < MaxVersion
         /\ StatusTransitionAllowed(row, dto)
         /\ WithinHorizon(input)
         /\ WellFormed(input)
         /\ Accept(h,
                   [op |-> "update", id |-> s,
                    channel |-> OrElse(dto.channel, row.channel),
                    start |-> input.start, stop |-> input.stop,
                    duration |-> input.duration,
                    status |-> OrElse(dto.status, row.status),
                    sets |-> UpdateSets(dto),
                    from |-> row.channel, before |-> row.version],
                   "check")

\* POST /schedules/:id/publish up to the conflict check.  A schedule that is
\* published already may be published again.
BeginPublish(h) ==
    /\ pc[h] = "idle"
    /\ \E s \in ScheduleIds :
         LET row == schedules[s] IN
         /\ IsLive(s)
         /\ row.version < MaxVersion
         /\ WellFormed(row)
         /\ Accept(h,
                   [op |-> "publish", id |-> s, channel |-> row.channel,
                    start |-> row.start, stop |-> row.stop,
                    duration |-> row.duration, status |-> "PUBLISHED",
                    sets |-> {"status"}, from |-> row.channel,
                    before |-> row.version],
                   "check")

\* DELETE /schedules/:id up to its write: nothing is checked.
BeginCancel(h) ==
    /\ pc[h] = "idle"
    /\ \E s \in ScheduleIds :
         LET row == schedules[s] IN
         /\ Exists(s)
         /\ Accept(h,
                   [op |-> "cancel", id |-> s, channel |-> row.channel,
                    start |-> row.start, stop |-> row.stop,
                    duration |-> row.duration, status |-> "CANCELLED",
                    sets |-> {"status"}, from |-> row.channel,
                    before |-> row.version],
                   "write")

\* validateNoBlockingConflicts lets the call through.
Check(h) ==
    /\ pc[h] = "check"
    /\ NoConflict(call[h])
    /\ pc' = [pc EXCEPT ![h] = "write"]
    /\ UNCHANGED <<schedules, audit, call, written>>

\* It throws: the request ends with 409.
Refuse(h) ==
    /\ pc[h] = "check"
    /\ ~NoConflict(call[h])
    /\ pc' = [pc EXCEPT ![h] = "idle"]
    /\ call' = [call EXCEPT ![h] = Null]
    /\ UNCHANGED <<schedules, audit, written>>

\* The row the INSERT leaves.
NewRow(c) ==
    [channel |-> c.channel, start |-> c.start, stop |-> c.stop,
     duration |-> c.duration, status |-> "DRAFT", version |-> 1, stamped |-> FALSE]

\* The row the UPDATE leaves: named columns are set, the others keep what is
\* stored now; the statement increments the version, remove's does not.
UpdatedRow(c) ==
    LET row == schedules[c.id] IN
    [channel |-> IF "channel" \in c.sets THEN c.channel ELSE row.channel,
     start |-> IF "start" \in c.sets THEN c.start ELSE row.start,
     stop |-> IF "stop" \in c.sets THEN c.stop ELSE row.stop,
     duration |-> IF "duration" \in c.sets THEN c.duration ELSE row.duration,
     status |-> IF "status" \in c.sets THEN c.status ELSE row.status,
     version |-> IF c.op = "cancel" THEN row.version ELSE row.version + 1,
     stamped |-> row.stamped \/ c.op = "publish"]

\* Mutants: the version starts at zero; the handler computes the next version
\* from what it read; a cancellation counts as a version; the channel of an
\* edit is forgotten.
RowAfterFromZero(c) ==
    IF c.op = "create" THEN [NewRow(c) EXCEPT !.version = 0] ELSE UpdatedRow(c)
RowAfterReadVersion(c) ==
    IF c.op = "create" THEN NewRow(c) ELSE [UpdatedRow(c) EXCEPT !.version = c.before + 1]
RowAfterCountingCancel(c) ==
    IF c.op = "create" THEN NewRow(c)
    ELSE [UpdatedRow(c) EXCEPT !.version = schedules[c.id].version + 1]
RowAfterKeepingChannel(c) ==
    IF c.op = "create" THEN NewRow(c)
    ELSE [UpdatedRow(c) EXCEPT !.channel = schedules[c.id].channel]

RowAfter(c) == IF c.op = "create" THEN NewRow(c) ELSE UpdatedRow(c)

\* Mutant: an update forgets the channel it takes the schedule away from.
InvalidatedByNewChannel(c, row) == {row.channel}

\* The channels whose keys the handler deletes from Redis: update takes them
\* from what it read, publish from what it wrote.
InvalidatedBy(c, row) ==
    IF c.op = "update" THEN {c.channel, c.from}
    ELSE IF c.op = "publish" THEN {row.channel}
    ELSE {c.from}

\* The channels it enqueues invalidation jobs for.
EnqueuedBy(c, row) ==
    IF c.op = "update" THEN {row.channel, c.from} ELSE {row.channel}

\* prisma.schedule.create or update
Write(h) ==
    /\ pc[h] = "write"
    /\ LET c   == call[h]
           row == RowAfter(c)
       IN /\ schedules' = [schedules EXCEPT ![c.id] = row]
          /\ written' = [written EXCEPT ![h] =
               [op |-> c.op, id |-> c.id, before |-> c.before,
                version |-> row.version,
                invalidates |-> InvalidatedBy(c, row),
                enqueues |-> EnqueuedBy(c, row)]]
    /\ call' = [call EXCEPT ![h] = Null]
    /\ pc' = [pc EXCEPT ![h] = "audit"]
    /\ UNCHANGED audit

\* createScheduleAuditLog
Audit(h) ==
    /\ pc[h] = "audit"
    /\ audit' = audit \cup {[op |-> written[h].op, id |-> written[h].id,
                             before |-> written[h].before,
                             version |-> written[h].version]}
    /\ pc' = [pc EXCEPT ![h] = "invalidate"]
    /\ UNCHANGED <<schedules, call, written>>

\* invalidateScheduleCache; its effect is on the cache, see PublicEpg.
Invalidate(h) ==
    /\ pc[h] = "invalidate"
    /\ pc' = [pc EXCEPT ![h] = "enqueue"]
    /\ UNCHANGED <<schedules, audit, call, written>>

\* enqueueScheduleJobs, then the response.
Enqueue(h) ==
    /\ pc[h] = "enqueue"
    /\ pc' = [pc EXCEPT ![h] = "idle"]
    /\ written' = [written EXCEPT ![h] = Null]
    /\ UNCHANGED <<schedules, audit, call>>

\* The process dies, or the database refuses a statement: what the handler
\* did stays, what it still had to do is lost.
Fail(h) ==
    /\ Faults
    /\ pc[h] # "idle"
    /\ pc' = [pc EXCEPT ![h] = "idle"]
    /\ call' = [call EXCEPT ![h] = Null]
    /\ written' = [written EXCEPT ![h] = Null]
    /\ UNCHANGED <<schedules, audit>>

Begin(h) == BeginCreate(h) \/ BeginUpdate(h) \/ BeginPublish(h) \/ BeginCancel(h)

\* What a handler does once its request has been accepted.
Proceed(h) ==
    Check(h) \/ Refuse(h) \/ Write(h) \/ Audit(h) \/ Invalidate(h) \/ Enqueue(h)

Next == \E h \in Handlers : Begin(h) \/ Proceed(h) \/ Fail(h)

Spec == Init /\ [][Next]_vars

-----------------------------------------------------------------------------
(* Properties.                                                             *)

\* The promise of the overlap check: two schedules of a channel that are not
\* cancelled never overlap.  It holds while calls do not run into each other
\* and is lost to the gap between findOverlaps and the write when they do.
NoDoubleBooking ==
    \A s, t \in ScheduleIds :
        /\ s # t
        /\ IsLive(s) /\ IsLive(t)
        /\ schedules[s].channel = schedules[t].channel
        => ~Overlaps(schedules[s], schedules[t])

\* Every stored row satisfies what validateTimeRange, validateDuration and
\* validateDurationMatchesRange checked of the row the handler computed, even
\* though update writes only some of the columns it computed.
RowsWellFormed == \A s \in ScheduleIds : Exists(s) => WellFormed(schedules[s])

\* A schedule that is cancelled stays cancelled: update and publish refuse it.
CancelledIsFinal ==
    [][\A s \in ScheduleIds :
         Exists(s) /\ schedules[s].status = "CANCELLED"
           => schedules'[s].status = "CANCELLED"]_vars

\* A schedule becomes PUBLISHED only by the write of a publish call: update
\* sends callers who ask for that status to the publish endpoint.
PublishedByPublishOnly ==
    [][\A s \in ScheduleIds :
         /\ ~(Exists(s) /\ schedules[s].status = "PUBLISHED")
         /\ schedules'[s] # Null /\ schedules'[s].status = "PUBLISHED"
         => \E h \in Handlers :
              pc[h] = "write" /\ call[h].op = "publish" /\ call[h].id = s
                /\ call'[h] = Null]_vars

\* A schedule on air carries its publication time, whatever order the writes
\* of concurrent publishes, edits and cancellations take effect in.
PublishedIsStamped ==
    \A s \in ScheduleIds :
        Exists(s) /\ schedules[s].status = "PUBLISHED" => schedules[s].stamped

\* The audit trail has one entry per version and no more: the row CREATE,
\* UPDATE or PUBLISH wrote for a version tells which call produced it, because
\* the database increments the version, not the handlers that read it.
OneAuditRowPerVersion ==
    \A a, b \in audit :
        a.id = b.id /\ a.version = b.version /\ a.op # "cancel" /\ b.op # "cancel"
          => a = b

\* No audit row runs ahead of the table: it names a version that was written.
AuditedWritesHappened ==
    \A a \in audit : Exists(a.id) /\ a.version <= schedules[a.id].version

\* Unless a handler died, every version of every row has its audit row or a
\* handler that is about to insert it.
AuditTrailComplete ==
    \A s \in ScheduleIds : Exists(s) =>
        \A v \in 1 .. schedules[s].version :
            \/ \E a \in audit : a.id = s /\ a.version = v /\ a.op # "cancel"
            \/ \E h \in Handlers :
                 /\ pc[h] = "audit"
                 /\ written[h].id = s /\ written[h].version = v
                 /\ written[h].op # "cancel"

\* The trail reads as a history: beforeData is the version just before the
\* one the call wrote.  It holds while calls do not run into each other.
AuditTrailIsAHistory ==
    \A a \in audit :
        a.before = CASE a.op = "create" -> 0
                     [] a.op = "cancel" -> a.version
                     [] OTHER           -> a.version - 1

\* Auto-snap and the gap warning agree: whatever the table holds, the slot
\* that a snapped create works with follows the one before it without a gap,
\* although each service looks that one up with a query of its own.
SnappedFollowsOn ==
    \A dto \in CreateDtos :
        dto.autoSnap => ~GapBefore(LiveOn(dto.channel), CreateInput(dto))

\* Refinement: what the table shows of a slot, without version and stamp.
SlotOf(s) ==
    IF ~Exists(s) THEN Null
    ELSE [channel |-> schedules[s].channel, start |-> schedules[s].start,
          stop |-> schedules[s].stop, duration |-> schedules[s].duration,
          status |-> schedules[s].status]

TimelineSpec == INSTANCE Timeline WITH slots <- [s \in ScheduleIds |-> SlotOf(s)]

ASSUME NullIsNoSlot == Null \notin TimelineSpec!Slot

\* With one call at a time the service implements the timeline: its checks,
\* made steps earlier, still hold when it writes, and the columns it does not
\* write are still the ones it computed with.
ImplementsTimeline == TimelineSpec!Spec
=============================================================================
