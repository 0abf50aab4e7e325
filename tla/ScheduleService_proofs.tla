----------------------- MODULE ScheduleService_proofs -----------------------
(***************************************************************************)
(* What holds of ScheduleService for every set of handlers, schedules,     *)
(* channels and bodies; and what holds when the calls on one row, or on    *)
(* one channel, are kept apart.                                            *)
(***************************************************************************)
EXTENDS ScheduleService, ScheduleRules_proofs, TLAPS

Pending(h) == pc[h] \in {"check", "write"}

\* A call that is not a create works on a row of the table; the uuid of a
\* create is in nobody else's hands.
CallsTargetRows ==
    \A h \in Handlers : Pending(h) =>
        /\ call[h].op # "create" => Exists(call[h].id)
        /\ call[h].op = "create" => ~Exists(call[h].id)

CreatesAreApart ==
    \A g, h \in Handlers :
        Pending(g) /\ Pending(h) /\ call[g].op = "create" /\ call[g].id = call[h].id
          => g = h

\* The inductive core of every other invariant: the types, and which row a
\* pending call is about.
CoreInv == TypeOK /\ CallsTargetRows /\ CreatesAreApart

-----------------------------------------------------------------------------

\* Accepting a call from the idle state keeps the types.
LEMMA AcceptKeepsTypes ==
    ASSUME TypeOK, NEW h \in Handlers, pc[h] = "idle",
           NEW c \in Call, NEW next \in {"check", "write"}, Accept(h, c, next)
    PROVE  TypeOK'
  BY NullAssumption DEF TypeOK, Accept

\* A call that a handler accepts is made for a row of the table, or for a
\* uuid that no row and no other call has.
LEMMA AcceptKeepsTargets ==
    ASSUME CoreInv, NEW h \in Handlers, pc[h] = "idle",
           NEW c \in Call, NEW next \in {"check", "write"}, Accept(h, c, next),
           IF c.op = "create" THEN FreshId(c.id) ELSE Exists(c.id)
    PROVE  CallsTargetRows' /\ CreatesAreApart'
<1>1. schedules' = schedules
  BY DEF Accept
<1>2. /\ pc'[h] = next /\ call'[h] = c
      /\ \A g \in Handlers \ {h} : pc'[g] = pc[g] /\ call'[g] = call[g]
  BY DEF Accept, CoreInv, TypeOK
<1>3. \A g \in Handlers : Pending(g) => call[g] # Null
  BY DEF CoreInv, TypeOK, Pending
<1>4. CallsTargetRows'
  BY <1>1, <1>2 DEF CoreInv, CallsTargetRows, Pending, Exists, FreshId
<1>5. ASSUME NEW f \in Handlers, NEW g \in Handlers,
             Pending(f)', Pending(g)', call'[f].op = "create", call'[f].id = call'[g].id
      PROVE  f = g
  <2>1. CASE f # h /\ g # h
    BY <1>2, <1>5, <2>1 DEF CoreInv, CreatesAreApart, Pending
  <2>2. CASE f = h /\ g # h
    BY <1>2, <1>3, <1>5, <2>2 DEF Pending, FreshId
  <2>3. CASE f # h /\ g = h
    <3>1. Pending(f) /\ call[f].op = "create" /\ call[f].id = c.id /\ call[f] # Null
      BY <1>2, <1>3, <1>5, <2>3 DEF Pending
    <3>2. ~Exists(c.id)
      BY <3>1 DEF CoreInv, CallsTargetRows
    <3>3. c.op = "create" /\ FreshId(c.id)
      BY <3>2
    <3> QED
      BY <2>3, <3>1, <3>3 DEF FreshId
  <2> QED
    BY <2>1, <2>2, <2>3
<1> QED
  BY <1>4, <1>5 DEF CreatesAreApart

-----------------------------------------------------------------------------
(* What a handler knows when it accepts a call.                            *)

\* Columns the write will not name hold what the call computed with.
Agrees(c, row) ==
    /\ "channel" \notin c.sets => row.channel = c.channel
    /\ "start" \notin c.sets => row.start = c.start
    /\ "stop" \notin c.sets => row.stop = c.stop
    /\ "duration" \notin c.sets => row.duration = c.duration
    /\ "status" \notin c.sets => row.status = c.status

\* The part that no other call can change.
Shape(c) ==
    /\ c.op # "cancel" => WellFormed(c)
    /\ c.op = "create" => c.status = "DRAFT" /\ c.from = c.channel
    /\ c.op = "publish" => c.sets = {"status"} /\ c.status = "PUBLISHED"
    /\ c.op = "cancel" => c.sets = {"status"} /\ c.status = "CANCELLED"

\* The part about the row, true when it is read.
TrueOfRow(c) ==
    IF c.op = "create" THEN ~Exists(c.id) /\ c.before = 0
    ELSE /\ Exists(c.id)
         /\ Agrees(c, schedules[c.id])
         /\ c.before = schedules[c.id].version
         /\ c.from = schedules[c.id].channel
         /\ c.op # "cancel" => schedules[c.id].status # "CANCELLED"
         /\ c.op = "update" /\ c.status = "PUBLISHED"
              => schedules[c.id].status = "PUBLISHED"

\* Whatever a handler begins, it accepts one well typed call about a row it
\* has just read, or about a fresh uuid.
LEMMA BeginAccepts ==
    ASSUME TypeOK, NEW h \in Handlers, Begin(h)
    PROVE  /\ pc[h] = "idle"
           /\ \E c \in Call, next \in {"check", "write"} :
                /\ Accept(h, c, next)
                /\ c.op = "create" => FreshId(c.id)
                /\ Shape(c)
                /\ TrueOfRow(c)
                /\ next = "write" => c.op = "cancel"
<1>1. CASE BeginCreate(h)
  <2>1. PICK dto \in CreateDtos, s \in ScheduleIds :
          /\ FreshId(s)
          /\ WithinHorizon(CreateInput(dto))
          /\ WellFormed(CreateInput(dto))
          /\ Accept(h, [op |-> "create", id |-> s, channel |-> dto.channel,
                        start |-> CreateInput(dto).start, stop |-> CreateInput(dto).stop,
                        duration |-> CreateInput(dto).duration, status |-> "DRAFT",
                        sets |-> Fields, from |-> dto.channel, before |-> 0], "check")
    BY <1>1 DEF BeginCreate
  <2> DEFINE c == [op |-> "create", id |-> s, channel |-> dto.channel,
                   start |-> CreateInput(dto).start, stop |-> CreateInput(dto).stop,
                   duration |-> CreateInput(dto).duration, status |-> "DRAFT",
                   sets |-> Fields, from |-> dto.channel, before |-> 0]
  <2>2. dto.channel \in Channels
    BY DtosAssumption DEF CreateDto
  <2>3. c \in Call
    BY <2>1, <2>2 DEF Call, WithinHorizon, Operations, Statuses
  <2>4. Shape(c)
    BY <2>1 DEF Shape, WellFormed, ValidRange, ValidDuration, DurationMatchesRange
  <2>5. TrueOfRow(c)
    BY <2>1 DEF TrueOfRow, FreshId
  <2> QED
    BY <1>1, <2>1, <2>3, <2>4, <2>5 DEF BeginCreate
<1>2. CASE BeginUpdate(h)
  <2>1. PICK s \in ScheduleIds, dto \in UpdateDtos :
          LET input == UpdateInput(dto, schedules[s]) IN
          /\ Exists(s)
          /\ StatusTransitionAllowed(schedules[s], dto)
          /\ WithinHorizon(input)
          /\ WellFormed(input)
          /\ Accept(h, [op |-> "update", id |-> s,
                        channel |-> OrElse(dto.channel, schedules[s].channel),
                        start |-> input.start, stop |-> input.stop,
                        duration |-> input.duration,
                        status |-> OrElse(dto.status, schedules[s].status),
                        sets |-> UpdateSets(dto), from |-> schedules[s].channel,
                        before |-> schedules[s].version], "check")
    BY <1>2 DEF BeginUpdate
  <2> DEFINE input == UpdateInput(dto, schedules[s])
             c == [op |-> "update", id |-> s,
                   channel |-> OrElse(dto.channel, schedules[s].channel),
                   start |-> input.start, stop |-> input.stop,
                   duration |-> input.duration,
                   status |-> OrElse(dto.status, schedules[s].status),
                   sets |-> UpdateSets(dto), from |-> schedules[s].channel,
                   before |-> schedules[s].version]
  <2>2. dto \in UpdateDto /\ schedules[s] \in Row
    BY <2>1, DtosAssumption DEF TypeOK, Exists
  <2>3. c \in Call
    BY <2>1, <2>2 DEF Call, Row, UpdateDto, OrElse, UpdateSets, WithinHorizon, Operations
  <2>4. Shape(c)
    BY <2>1 DEF Shape, WellFormed, ValidRange, ValidDuration, DurationMatchesRange
  <2>5. Agrees(c, schedules[s])
    BY <2>2 DEF Agrees, UpdateSets, UpdateInput, OrElse, Fields
  <2>6. TrueOfRow(c)
    BY <2>1, <2>2, <2>5 DEF TrueOfRow, StatusTransitionAllowed, OrElse
  <2> QED
    BY <1>2, <2>1, <2>3, <2>4, <2>6 DEF BeginUpdate
<1>3. CASE BeginPublish(h)
  <2>1. PICK s \in ScheduleIds :
          /\ IsLive(s)
          /\ WellFormed(schedules[s])
          /\ Accept(h, [op |-> "publish", id |-> s, channel |-> schedules[s].channel,
                        start |-> schedules[s].start, stop |-> schedules[s].stop,
                        duration |-> schedules[s].duration, status |-> "PUBLISHED",
                        sets |-> {"status"}, from |-> schedules[s].channel,
                        before |-> schedules[s].version], "check")
    BY <1>3 DEF BeginPublish
  <2>2. schedules[s] \in Row
    BY <2>1 DEF TypeOK, Exists, IsLive
  <2> QED
    BY <1>3, <2>1, <2>2 DEF BeginPublish, Call, Row, Operations, Statuses, Fields,
       IsLive, Shape, TrueOfRow, Agrees, WellFormed, ValidRange, ValidDuration, DurationMatchesRange
<1>4. CASE BeginCancel(h)
  <2>1. PICK s \in ScheduleIds :
          /\ Exists(s)
          /\ Accept(h, [op |-> "cancel", id |-> s, channel |-> schedules[s].channel,
                        start |-> schedules[s].start, stop |-> schedules[s].stop,
                        duration |-> schedules[s].duration, status |-> "CANCELLED",
                        sets |-> {"status"}, from |-> schedules[s].channel,
                        before |-> schedules[s].version], "write")
    BY <1>4 DEF BeginCancel
  <2>2. schedules[s] \in Row
    BY <2>1 DEF TypeOK, Exists
  <2> QED
    BY <1>4, <2>1, <2>2 DEF BeginCancel, Call, Row, Operations, Statuses, Fields,
       Shape, TrueOfRow, Agrees
<1> QED
  BY <1>1, <1>2, <1>3, <1>4 DEF Begin

-----------------------------------------------------------------------------
(* Types and targets.                                                      *)

\* What a write stores is a row, for the version of a row only grows.
LEMMA WrittenRowIsARow ==
    ASSUME CoreInv, NEW h \in Handlers, pc[h] = "write"
    PROVE  /\ call[h] \in Call
           /\ RowAfter(call[h]) \in Row
           /\ call[h].op # "create" => schedules[call[h].id] \in Row
<1>1. call[h] \in Call
  BY DEF CoreInv, TypeOK
<1>2. call[h].op # "create" => schedules[call[h].id] \in Row
  BY <1>1 DEF CoreInv, TypeOK, CallsTargetRows, Pending, Exists, Call
<1> QED
  BY <1>1, <1>2 DEF RowAfter, NewRow, UpdatedRow, Row, Call, Statuses

LEMMA WriteKeepsCore ==
    ASSUME CoreInv, NEW h \in Handlers, Write(h)
    PROVE  CoreInv'
<1> DEFINE c == call[h]
           row == RowAfter(c)
<1>1. pc[h] = "write"
  BY DEF Write
<1>2. c \in Call /\ row \in Row /\ (c.op # "create" => schedules[c.id] \in Row)
  BY <1>1, WrittenRowIsARow
<1>3. InvalidatedBy(c, row) \in SUBSET Channels /\ EnqueuedBy(c, row) \in SUBSET Channels
  BY <1>2 DEF InvalidatedBy, EnqueuedBy, Call, Row
<1> DEFINE w == [op |-> c.op, id |-> c.id, before |-> c.before, version |-> row.version,
                 invalidates |-> InvalidatedBy(c, row), enqueues |-> EnqueuedBy(c, row)]
<1>4. w \in Written
  BY <1>2, <1>3 DEF Written, Call, Row
<1>5. /\ schedules' = [schedules EXCEPT ![c.id] = row]
      /\ written' = [written EXCEPT ![h] = w]
      /\ call' = [call EXCEPT ![h] = Null]
      /\ pc' = [pc EXCEPT ![h] = "audit"]
      /\ audit' = audit
  BY DEF Write
<1>6. TypeOK'
  <2>1. schedules' \in [ScheduleIds -> Row \cup {Null}]
    BY <1>2, <1>5 DEF CoreInv, TypeOK
  <2>2. /\ audit' \in SUBSET AuditRow
        /\ pc' \in [Handlers -> {"idle", "check", "write", "audit", "invalidate", "enqueue"}]
        /\ call' \in [Handlers -> Call \cup {Null}]
        /\ written' \in [Handlers -> Written \cup {Null}]
    BY <1>4, <1>5 DEF CoreInv, TypeOK
  <2>3. \A g \in Handlers :
          /\ (call'[g] # Null) <=> (pc'[g] \in {"check", "write"})
          /\ (written'[g] # Null) <=> (pc'[g] \in {"audit", "invalidate", "enqueue"})
    BY <1>4, <1>5, NullAssumption DEF CoreInv, TypeOK
  <2> QED
    BY <2>1, <2>2, <2>3 DEF TypeOK
<1>7. \A g \in Handlers : Pending(g)' => g # h /\ Pending(g) /\ call'[g] = call[g]
  BY <1>5 DEF CoreInv, TypeOK, Pending
<1>8. \A s \in ScheduleIds : schedules'[s] # Null <=> schedules[s] # Null \/ s = c.id
  BY <1>2, <1>5, NullAssumption DEF CoreInv, TypeOK
<1>9. CallsTargetRows'
  <2> SUFFICES ASSUME NEW g \in Handlers, Pending(g)'
               PROVE  /\ call'[g].op # "create" => schedules'[call'[g].id] # Null
                      /\ call'[g].op = "create" => schedules'[call'[g].id] = Null
    BY DEF CallsTargetRows, Exists
  <2>1. g # h /\ Pending(g) /\ call'[g] = call[g] /\ call[g] \in Call
    BY <1>7 DEF CoreInv, TypeOK, Pending
  <2>2. call[g].id \in ScheduleIds
    BY <2>1 DEF Call
  <2>3. Pending(h)
    BY <1>1 DEF Pending
  <2>4. call[g].op = "create" => call[g].id # c.id
    BY <2>1, <2>3 DEF CoreInv, CreatesAreApart
  <2> QED
    BY <1>8, <2>1, <2>2, <2>4 DEF CoreInv, CallsTargetRows, Exists
<1>10. CreatesAreApart'
  BY <1>7 DEF CoreInv, CreatesAreApart
<1> QED
  BY <1>6, <1>9, <1>10 DEF CoreInv

\* The other steps of a handler leave the table alone and start no call.
LEMMA QuietStepKeepsCore ==
    ASSUME CoreInv, NEW h \in Handlers,
           Check(h) \/ Refuse(h) \/ Audit(h) \/ Invalidate(h) \/ Enqueue(h) \/ Fail(h)
    PROVE  CoreInv'
<1>1. schedules' = schedules
  BY DEF Check, Refuse, Audit, Invalidate, Enqueue, Fail
<1>2. TypeOK'
  <2>1. CASE Check(h)
    BY <2>1 DEF CoreInv, TypeOK, Check
  <2>2. CASE Refuse(h)
    BY <2>2 DEF CoreInv, TypeOK, Refuse
  <2>3. CASE Audit(h)
    <3>1. written[h] \in Written
      BY <2>3 DEF CoreInv, TypeOK, Audit
    <3>2. [op |-> written[h].op, id |-> written[h].id, before |-> written[h].before,
           version |-> written[h].version] \in AuditRow
      BY <3>1 DEF Written, AuditRow
    <3> QED
      BY <2>3, <3>2 DEF CoreInv, TypeOK, Audit
  <2>4. CASE Invalidate(h)
    BY <2>4 DEF CoreInv, TypeOK, Invalidate
  <2>5. CASE Enqueue(h)
    BY <2>5 DEF CoreInv, TypeOK, Enqueue
  <2>6. CASE Fail(h)
    BY <2>6 DEF CoreInv, TypeOK, Fail
  <2> QED
    BY <2>1, <2>2, <2>3, <2>4, <2>5, <2>6
<1>3. \A g \in Handlers : Pending(g)' => Pending(g) /\ call'[g] = call[g]
  BY DEF CoreInv, TypeOK, Pending, Check, Refuse, Audit, Invalidate, Enqueue, Fail
<1> QED
  BY <1>1, <1>2, <1>3 DEF CoreInv, CallsTargetRows, CreatesAreApart, Exists

LEMMA BeginKeepsCore ==
    ASSUME CoreInv, NEW h \in Handlers, Begin(h)
    PROVE  CoreInv'
<1>1. PICK c \in Call, next \in {"check", "write"} :
        /\ pc[h] = "idle"
        /\ Accept(h, c, next)
        /\ c.op = "create" => FreshId(c.id)
        /\ TrueOfRow(c)
  BY BeginAccepts DEF CoreInv
<1>2. c.op # "create" => Exists(c.id)
  BY <1>1 DEF TrueOfRow
<1> QED
  BY <1>1, <1>2, AcceptKeepsTypes, AcceptKeepsTargets DEF CoreInv

LEMMA CoreInit == Init => CoreInv
  BY NullAssumption DEF Init, CoreInv, TypeOK, CallsTargetRows, CreatesAreApart, Pending

LEMMA CoreStep == CoreInv /\ [Next]_vars => CoreInv'
<1> SUFFICES ASSUME CoreInv, [Next]_vars PROVE CoreInv'
  OBVIOUS
<1>1. CASE UNCHANGED vars
  BY <1>1 DEF CoreInv, TypeOK, CallsTargetRows, CreatesAreApart, Pending, Exists, vars
<1>2. ASSUME NEW h \in Handlers, Begin(h) \/ Proceed(h) \/ Fail(h)
      PROVE  CoreInv'
  BY <1>2, BeginKeepsCore, WriteKeepsCore, QuietStepKeepsCore DEF Proceed
<1> QED
  BY <1>1, <1>2 DEF Next

LEMMA CoreHolds == Spec => []CoreInv
  BY CoreInit, CoreStep, PTL DEF Spec

\* Every row, audit row and call is what its type says, whatever the handlers
\* interleave and wherever they die.
THEOREM TypeCorrect == Spec => []TypeOK
  BY CoreHolds, PTL DEF CoreInv

-----------------------------------------------------------------------------
(* The publication stamp.                                                  *)

\* An edit that keeps a schedule PUBLISHED found it published, and nothing
\* takes a stamp back before the edit writes.
KeepersFoundAStamp ==
    \A h \in Handlers :
        Pending(h) /\ call[h].op = "update" /\ call[h].status = "PUBLISHED"
          => schedules[call[h].id].stamped

\* Calls keep the shape they were accepted with.
CallsKeepShape == \A h \in Handlers : Pending(h) => Shape(call[h])

StampInv == PublishedIsStamped /\ KeepersFoundAStamp /\ CallsKeepShape

LEMMA StampInit == Init => StampInv
  BY DEF Init, StampInv, PublishedIsStamped, KeepersFoundAStamp, CallsKeepShape, Pending, Exists

\* Steps other than a write and the acceptance of a call keep the rows and
\* the calls.
LEMMA QuietStepKeepsCalls ==
    ASSUME CoreInv, NEW h \in Handlers,
           Check(h) \/ Refuse(h) \/ Audit(h) \/ Invalidate(h) \/ Enqueue(h) \/ Fail(h)
    PROVE  /\ schedules' = schedules
           /\ \A g \in Handlers : Pending(g)' => Pending(g) /\ call'[g] = call[g]
  BY DEF CoreInv, TypeOK, Pending, Check, Refuse, Audit, Invalidate, Enqueue, Fail

LEMMA AcceptLeavesOthers ==
    ASSUME CoreInv, NEW h \in Handlers, NEW c \in Call, NEW next \in {"check", "write"},
           Accept(h, c, next)
    PROVE  /\ schedules' = schedules
           /\ pc'[h] = next /\ call'[h] = c
           /\ \A g \in Handlers \ {h} : (Pending(g)' <=> Pending(g)) /\ call'[g] = call[g]
  BY DEF CoreInv, TypeOK, Accept, Pending

\* A write replaces one row and ends the call.
LEMMA WriteReplacesOneRow ==
    ASSUME CoreInv, NEW h \in Handlers, Write(h)
    PROVE  /\ call[h] \in Call
           /\ schedules' = [schedules EXCEPT ![call[h].id] = RowAfter(call[h])]
           /\ schedules'[call[h].id] = RowAfter(call[h])
           /\ \A s \in ScheduleIds \ {call[h].id} : schedules'[s] = schedules[s]
           /\ RowAfter(call[h]) \in Row /\ RowAfter(call[h]) # Null
           /\ \A g \in Handlers :
                Pending(g)' => g # h /\ Pending(g) /\ call'[g] = call[g] /\ call[g] \in Call
           /\ Pending(h)
<1>1. pc[h] = "write"
  BY DEF Write
<1>2. call[h] \in Call /\ RowAfter(call[h]) \in Row
  BY <1>1, WrittenRowIsARow
<1>3. call[h].id \in ScheduleIds
  BY <1>2 DEF Call
<1> QED
  BY <1>1, <1>2, <1>3, NullAssumption DEF Write, CoreInv, TypeOK, Pending

LEMMA WriteKeepsStamp ==
    ASSUME CoreInv, StampInv, NEW h \in Handlers, Write(h)
    PROVE  StampInv'
<1> DEFINE c == call[h]
           old == schedules[c.id]
           row == RowAfter(c)
<1>1. /\ c \in Call /\ row \in Row
      /\ schedules'[c.id] = row
      /\ \A s \in ScheduleIds \ {c.id} : schedules'[s] = schedules[s]
      /\ \A g \in Handlers :
           Pending(g)' => g # h /\ Pending(g) /\ call'[g] = call[g] /\ call[g] \in Call
      /\ Pending(h)
  BY WriteReplacesOneRow
<1>2. c.id \in ScheduleIds
  BY <1>1 DEF Call
<1>3. c.op # "create" => Exists(c.id) /\ old \in Row
  BY <1>1, <1>2 DEF CoreInv, CallsTargetRows, TypeOK, Exists
<1>4. c.op # "create" /\ old.stamped => row.stamped
  BY DEF RowAfter, NewRow, UpdatedRow
<1>5. row.status = "PUBLISHED" => row.stamped
  <2>1. CASE c.op = "create"
    BY <2>1 DEF RowAfter, NewRow, UpdatedRow
  <2>2. CASE c.op = "publish"
    BY <2>2 DEF RowAfter, NewRow, UpdatedRow
  <2>3. CASE c.op = "cancel"
    BY <1>1, <2>3 DEF StampInv, CallsKeepShape, Shape, RowAfter, NewRow, UpdatedRow
  <2>4. CASE c.op = "update" /\ "status" \in c.sets
    BY <1>1, <1>4, <2>4 DEF StampInv, KeepersFoundAStamp, RowAfter, NewRow, UpdatedRow
  <2>5. CASE c.op = "update" /\ "status" \notin c.sets
    BY <1>2, <1>3, <1>4, <2>5 DEF StampInv, PublishedIsStamped, RowAfter, NewRow, UpdatedRow
  <2> QED
    BY <1>1, <2>1, <2>2, <2>3, <2>4, <2>5 DEF Call, Operations
<1>6. PublishedIsStamped'
  BY <1>1, <1>5 DEF StampInv, PublishedIsStamped, Exists
<1>7. KeepersFoundAStamp'
  <2> SUFFICES ASSUME NEW g \in Handlers, Pending(g)', call'[g].op = "update",
                      call'[g].status = "PUBLISHED"
               PROVE  schedules'[call'[g].id].stamped
    BY DEF KeepersFoundAStamp
  <2>1. /\ g # h /\ Pending(g) /\ call'[g] = call[g]
        /\ call[g].id \in ScheduleIds /\ schedules[call[g].id].stamped
    BY <1>1 DEF StampInv, KeepersFoundAStamp, Call
  <2>2. CASE call[g].id # c.id
    BY <1>1, <2>1, <2>2
  <2>3. CASE call[g].id = c.id
    <3>1. c.op # "create"
      BY <1>1, <2>1, <2>3 DEF CoreInv, CreatesAreApart
    <3> QED
      BY <1>1, <1>4, <2>1, <2>3, <3>1
  <2> QED
    BY <2>2, <2>3
<1>8. CallsKeepShape'
  BY <1>1 DEF StampInv, CallsKeepShape, Shape
<1> QED
  BY <1>6, <1>7, <1>8 DEF StampInv

LEMMA BeginKeepsStamp ==
    ASSUME CoreInv, StampInv, NEW h \in Handlers, Begin(h)
    PROVE  StampInv'
<1>1. PICK c \in Call, next \in {"check", "write"} :
        Accept(h, c, next) /\ Shape(c) /\ TrueOfRow(c)
  BY BeginAccepts DEF CoreInv
<1>2. /\ schedules' = schedules /\ call'[h] = c
      /\ \A g \in Handlers \ {h} : (Pending(g)' <=> Pending(g)) /\ call'[g] = call[g]
  BY <1>1, AcceptLeavesOthers
<1>3. c.op = "update" /\ c.status = "PUBLISHED" => schedules[c.id].stamped
  BY <1>1 DEF TrueOfRow, StampInv, PublishedIsStamped, Call
<1>4. PublishedIsStamped'
  BY <1>2 DEF StampInv, PublishedIsStamped, Exists
<1>5. KeepersFoundAStamp'
  BY <1>2, <1>3 DEF StampInv, KeepersFoundAStamp
<1>6. CallsKeepShape'
  BY <1>1, <1>2 DEF StampInv, CallsKeepShape, Shape
<1> QED
  BY <1>4, <1>5, <1>6 DEF StampInv

LEMMA StampStep == CoreInv /\ StampInv /\ [Next]_vars => StampInv'
<1> SUFFICES ASSUME CoreInv, StampInv, [Next]_vars PROVE StampInv'
  OBVIOUS
<1>1. CASE UNCHANGED vars
  BY <1>1 DEF StampInv, PublishedIsStamped, KeepersFoundAStamp, CallsKeepShape,
              Shape, Pending, Exists, vars
<1>2. ASSUME NEW h \in Handlers,
             Check(h) \/ Refuse(h) \/ Audit(h) \/ Invalidate(h) \/ Enqueue(h) \/ Fail(h)
      PROVE  StampInv'
  <2>1. /\ schedules' = schedules
        /\ \A g \in Handlers : Pending(g)' => Pending(g) /\ call'[g] = call[g]
    BY <1>2, QuietStepKeepsCalls
  <2> QED
    BY <2>1 DEF StampInv, PublishedIsStamped, KeepersFoundAStamp, CallsKeepShape, Shape, Exists
<1>3. ASSUME NEW h \in Handlers, Begin(h) \/ Proceed(h) \/ Fail(h)
      PROVE  StampInv'
  BY <1>2, <1>3, BeginKeepsStamp, WriteKeepsStamp DEF Proceed
<1> QED
  BY <1>1, <1>3 DEF Next

LEMMA StampHolds == Spec => []StampInv
  BY StampInit, StampStep, CoreHolds, PTL DEF Spec

\* A published schedule carries its publication time, however publishes,
\* edits and cancellations of it interleave and die.
THEOREM PublishedStamped == Spec => []PublishedIsStamped
  BY StampHolds, PTL DEF StampInv

-----------------------------------------------------------------------------
(* The audit trail.                                                        *)

Announcing(h) == pc[h] \in {"audit", "invalidate", "enqueue"}

\* A write that is being announced is in the table.
AnnouncedWritesHappened ==
    \A h \in Handlers : Announcing(h) =>
        /\ Exists(written[h].id)
        /\ written[h].version <= schedules[written[h].id].version

Unaudited(h) == pc[h] = "audit" /\ written[h].op # "cancel"

\* The audit row a handler is about to insert is the first of its version, and
\* no other handler is about to insert one for it.
UnauditedVersionsAreNew ==
    \A h \in Handlers : Unaudited(h) =>
        /\ \A a \in audit :
             a.id = written[h].id /\ a.version = written[h].version => a.op = "cancel"
        /\ \A g \in Handlers :
             /\ Unaudited(g)
             /\ written[g].id = written[h].id
             /\ written[g].version = written[h].version
             => g = h

TrailInv ==
    /\ OneAuditRowPerVersion
    /\ AuditedWritesHappened
    /\ AnnouncedWritesHappened
    /\ UnauditedVersionsAreNew

LEMMA TrailInit == Init => TrailInv
  BY DEF Init, TrailInv, OneAuditRowPerVersion, AuditedWritesHappened,
         AnnouncedWritesHappened, UnauditedVersionsAreNew, Announcing, Unaudited

\* The version a write leaves: 1 for a new row, the next one for an update or
\* a publication, the same one for a cancellation.
LEMMA VersionOfWrite ==
    ASSUME CoreInv, NEW h \in Handlers, Write(h)
    PROVE  LET c == call[h] IN
           /\ c.op = "create" => RowAfter(c).version = 1 /\ ~Exists(c.id)
           /\ c.op = "cancel" => RowAfter(c).version = schedules[c.id].version
           /\ c.op \notin {"create", "cancel"}
                => RowAfter(c).version = schedules[c.id].version + 1
           /\ c.op # "create" => Exists(c.id) /\ schedules[c.id].version \in Nat \ {0}
<1>1. call[h] \in Call /\ Pending(h)
  BY WriteReplacesOneRow
<1>2. call[h].op # "create" => Exists(call[h].id) /\ schedules[call[h].id] \in Row
  BY <1>1 DEF CoreInv, CallsTargetRows, TypeOK, Exists, Call
<1>3. call[h].op = "create" => ~Exists(call[h].id)
  BY <1>1 DEF CoreInv, CallsTargetRows
<1> QED
  BY <1>2, <1>3 DEF RowAfter, NewRow, UpdatedRow, Row

\* What a write hands on to the audit step.
LEMMA WriteAnnounces ==
    ASSUME CoreInv, NEW h \in Handlers, Write(h)
    PROVE  /\ audit' = audit
           /\ pc'[h] = "audit"
           /\ written'[h].op = call[h].op
           /\ written'[h].id = call[h].id
           /\ written'[h].version = RowAfter(call[h]).version
           /\ written'[h].before = call[h].before
           /\ \A g \in Handlers \ {h} : pc'[g] = pc[g] /\ written'[g] = written[g]
  BY DEF Write, CoreInv, TypeOK

LEMMA WriteKeepsTrail ==
    ASSUME CoreInv, TrailInv, NEW h \in Handlers, Write(h)
    PROVE  TrailInv'
<1> DEFINE c == call[h]
           row == RowAfter(c)
<1>1. /\ c \in Call /\ row \in Row /\ row # Null
      /\ schedules'[c.id] = row
      /\ \A s \in ScheduleIds \ {c.id} : schedules'[s] = schedules[s]
  BY WriteReplacesOneRow
<1>2. /\ audit' = audit
      /\ pc'[h] = "audit" /\ written'[h].op = c.op /\ written'[h].id = c.id
      /\ written'[h].version = row.version
      /\ \A g \in Handlers \ {h} : pc'[g] = pc[g] /\ written'[g] = written[g]
  BY WriteAnnounces
<1>3. c.id \in ScheduleIds
  BY <1>1 DEF Call
<1>4. Exists(c.id) => schedules[c.id].version <= row.version /\ schedules[c.id].version \in Nat
  BY VersionOfWrite
<1>5. c.op # "cancel" /\ Exists(c.id) => schedules[c.id].version < row.version
  BY VersionOfWrite
<1>6. audit \subseteq AuditRow
  BY DEF CoreInv, TypeOK
<1>7. \A g \in Handlers : Announcing(g) => written[g] \in Written
  BY DEF CoreInv, TypeOK, Announcing
<1>8. \A g \in Handlers \ {h} : (Announcing(g)' <=> Announcing(g)) /\ (Unaudited(g)' <=> Unaudited(g))
  BY <1>2 DEF Announcing, Unaudited
<1>9. row.version \in Nat
  BY <1>1 DEF Row
<1>10. AuditedWritesHappened'
  <2> SUFFICES ASSUME NEW a \in audit
               PROVE  schedules'[a.id] # Null /\ a.version <= schedules'[a.id].version
    BY <1>2 DEF AuditedWritesHappened, Exists
  <2>1. Exists(a.id) /\ a.version <= schedules[a.id].version
        /\ a.id \in ScheduleIds /\ a.version \in Nat
    BY <1>6 DEF TrailInv, AuditedWritesHappened, AuditRow
  <2> QED
    BY <1>1, <1>4, <1>9, <2>1 DEF Exists
<1>11. AnnouncedWritesHappened'
  <2> SUFFICES ASSUME NEW g \in Handlers, Announcing(g)'
               PROVE  /\ schedules'[written'[g].id] # Null
                      /\ written'[g].version <= schedules'[written'[g].id].version
    BY DEF AnnouncedWritesHappened, Exists
  <2>1. CASE g = h
    BY <1>1, <1>2, <1>9, <2>1
  <2>2. CASE g # h
    <3>1. /\ Announcing(g) /\ written'[g] = written[g]
          /\ written[g].id \in ScheduleIds /\ written[g].version \in Nat
      BY <1>2, <1>7, <1>8, <2>2 DEF Written
    <3>2. Exists(written[g].id) /\ written[g].version <= schedules[written[g].id].version
      BY <3>1 DEF TrailInv, AnnouncedWritesHappened
    <3> QED
      BY <1>1, <1>4, <1>9, <3>1, <3>2 DEF Exists
  <2> QED
    BY <2>1, <2>2
<1>12. UnauditedVersionsAreNew'
  <2>1. ASSUME c.op # "cancel", NEW a \in audit, a.id = c.id PROVE a.version # row.version
    BY <1>4, <1>5, <1>6, <1>9, <2>1 DEF TrailInv, AuditedWritesHappened, AuditRow
  <2>2. ASSUME c.op # "cancel", NEW g \in Handlers, Announcing(g), written[g].id = c.id
        PROVE  written[g].version # row.version
    BY <1>4, <1>5, <1>7, <1>9, <2>2 DEF TrailInv, AnnouncedWritesHappened, Written
  <2>3. \A g \in Handlers : Unaudited(g) => Announcing(g)
    BY DEF Unaudited, Announcing
  <2>4. ASSUME NEW f \in Handlers, Unaudited(f)'
        PROVE  \A a \in audit' :
                 a.id = written'[f].id /\ a.version = written'[f].version => a.op = "cancel"
    <3>1. CASE f = h
      BY <1>2, <2>1, <2>4, <3>1 DEF Unaudited
    <3>2. CASE f # h
      BY <1>2, <1>8, <2>4, <3>2 DEF TrailInv, UnauditedVersionsAreNew
    <3> QED
      BY <3>1, <3>2
  <2>5. ASSUME NEW f \in Handlers, Unaudited(f)', NEW g \in Handlers, Unaudited(g)',
               written'[g].id = written'[f].id, written'[g].version = written'[f].version
        PROVE  g = f
    <3>1. CASE f = h /\ g # h
      BY <1>2, <1>8, <2>2, <2>3, <2>5, <3>1 DEF Unaudited
    <3>2. CASE g = h /\ f # h
      BY <1>2, <1>8, <2>2, <2>3, <2>5, <3>2 DEF Unaudited
    <3>3. CASE f # h /\ g # h
      BY <1>2, <1>8, <2>5, <3>3 DEF TrailInv, UnauditedVersionsAreNew
    <3> QED
      BY <3>1, <3>2, <3>3
  <2> QED
    BY <2>4, <2>5 DEF UnauditedVersionsAreNew
<1>13. OneAuditRowPerVersion'
  BY <1>2 DEF TrailInv, OneAuditRowPerVersion
<1> QED
  BY <1>10, <1>11, <1>12, <1>13 DEF TrailInv

LEMMA AuditKeepsTrail ==
    ASSUME CoreInv, TrailInv, NEW h \in Handlers, Audit(h)
    PROVE  TrailInv'
<1> DEFINE w == written[h]
           r == [op |-> w.op, id |-> w.id, before |-> w.before, version |-> w.version]
<1>1. /\ pc[h] = "audit" /\ pc' = [pc EXCEPT ![h] = "invalidate"]
      /\ audit' = audit \cup {r}
      /\ schedules' = schedules /\ written' = written
  BY DEF Audit
<1>2. Announcing(h)
  BY <1>1 DEF Announcing
<1>3. \A g \in Handlers : /\ Announcing(g)' <=> Announcing(g)
                          /\ Unaudited(g)' <=> Unaudited(g) /\ g # h
  BY <1>1 DEF Announcing, Unaudited, CoreInv, TypeOK
<1>4. AuditedWritesHappened'
  BY <1>1, <1>2 DEF TrailInv, AuditedWritesHappened, AnnouncedWritesHappened, Exists
<1>5. AnnouncedWritesHappened'
  BY <1>1, <1>3 DEF TrailInv, AnnouncedWritesHappened, Exists
<1>6. UnauditedVersionsAreNew'
  <2>1. ASSUME NEW f \in Handlers, Unaudited(f)', NEW a \in audit',
               a.id = written'[f].id, a.version = written'[f].version
        PROVE  a.op = "cancel"
    <3>1. f # h /\ Unaudited(f) /\ written'[f] = written[f]
      BY <1>1, <1>3, <2>1
    <3>2. CASE a \in audit
      BY <2>1, <3>1, <3>2 DEF TrailInv, UnauditedVersionsAreNew
    <3>3. CASE a = r /\ w.op # "cancel"
      BY <1>1, <2>1, <3>1, <3>3 DEF TrailInv, UnauditedVersionsAreNew, Unaudited
    <3>4. CASE a = r /\ w.op = "cancel"
      BY <3>4
    <3> QED
      BY <1>1, <2>1, <3>2, <3>3, <3>4
  <2>2. ASSUME NEW f \in Handlers, Unaudited(f)', NEW g \in Handlers, Unaudited(g)',
               written'[g].id = written'[f].id, written'[g].version = written'[f].version
        PROVE  g = f
    BY <1>1, <1>3, <2>2 DEF TrailInv, UnauditedVersionsAreNew
  <2> QED
    BY <2>1, <2>2 DEF UnauditedVersionsAreNew
<1>7. OneAuditRowPerVersion'
  <2> SUFFICES ASSUME NEW a \in audit', NEW b \in audit', a.id = b.id,
                      a.version = b.version, a.op # "cancel", b.op # "cancel"
               PROVE  a = b
    BY DEF OneAuditRowPerVersion
  <2>1. CASE a \in audit /\ b \in audit
    BY <2>1 DEF TrailInv, OneAuditRowPerVersion
  <2>2. CASE a = r /\ b \in audit
    BY <1>1, <2>2 DEF TrailInv, UnauditedVersionsAreNew, Unaudited
  <2>3. CASE a \in audit /\ b = r
    BY <1>1, <2>3 DEF TrailInv, UnauditedVersionsAreNew, Unaudited
  <2> QED
    BY <1>1, <2>1, <2>2, <2>3
<1> QED
  BY <1>4, <1>5, <1>6, <1>7 DEF TrailInv

LEMMA OtherStepKeepsTrail ==
    ASSUME CoreInv, TrailInv, NEW h \in Handlers,
           Begin(h) \/ Check(h) \/ Refuse(h) \/ Invalidate(h) \/ Enqueue(h) \/ Fail(h)
    PROVE  TrailInv'
<1>1. /\ schedules' = schedules /\ audit' = audit
      /\ \A g \in Handlers : /\ Announcing(g)' => Announcing(g)
                             /\ Announcing(g)' => written'[g] = written[g]
                             /\ Unaudited(g)' => Unaudited(g) /\ written'[g] = written[g]
  <2>1. CASE Begin(h)
    <3>1. PICK c \in Call, next \in {"check", "write"} : Accept(h, c, next)
      BY <2>1, BeginAccepts DEF CoreInv
    <3> QED
      BY <3>1 DEF Accept, Announcing, Unaudited, CoreInv, TypeOK
  <2>2. CASE Check(h)
    BY <2>2 DEF Check, Announcing, Unaudited, CoreInv, TypeOK
  <2>3. CASE Refuse(h)
    BY <2>3 DEF Refuse, Announcing, Unaudited, CoreInv, TypeOK
  <2>4. CASE Invalidate(h)
    BY <2>4 DEF Invalidate, Announcing, Unaudited, CoreInv, TypeOK
  <2>5. CASE Enqueue(h)
    BY <2>5 DEF Enqueue, Announcing, Unaudited, CoreInv, TypeOK
  <2>6. CASE Fail(h)
    BY <2>6 DEF Fail, Announcing, Unaudited, CoreInv, TypeOK
  <2> QED
    BY <2>1, <2>2, <2>3, <2>4, <2>5, <2>6
<1> QED
  BY <1>1 DEF TrailInv, OneAuditRowPerVersion, AuditedWritesHappened,
              AnnouncedWritesHappened, UnauditedVersionsAreNew, Exists

LEMMA TrailStep == CoreInv /\ TrailInv /\ [Next]_vars => TrailInv'
<1> SUFFICES ASSUME CoreInv, TrailInv, [Next]_vars PROVE TrailInv'
  OBVIOUS
<1>1. CASE UNCHANGED vars
  BY <1>1 DEF TrailInv, OneAuditRowPerVersion, AuditedWritesHappened,
              AnnouncedWritesHappened, UnauditedVersionsAreNew, Exists, Announcing, Unaudited, vars
<1>2. ASSUME NEW h \in Handlers, Begin(h) \/ Proceed(h) \/ Fail(h)
      PROVE  TrailInv'
  BY <1>2, WriteKeepsTrail, AuditKeepsTrail, OtherStepKeepsTrail DEF Proceed
<1> QED
  BY <1>1, <1>2 DEF Next

LEMMA TrailHolds == Spec => []TrailInv
  BY TrailInit, TrailStep, CoreHolds, PTL DEF Spec

\* No two calls, however they race and fail, leave audit rows for the same
\* version of a schedule (the UPDATE increments the version itself).
THEOREM AuditTrailUnambiguous == Spec => []OneAuditRowPerVersion
  BY TrailHolds, PTL DEF TrailInv

\* No audit row names a version that the table has not had: the row is written
\* before createScheduleAuditLog, and versions never go back.
THEOREM AuditTrailBehindTable == Spec => []AuditedWritesHappened
  BY TrailHolds, PTL DEF TrailInv

\* Only a write changes a row.
LEMMA OtherStepsStutter ==
    ASSUME CoreInv, NEW h \in Handlers, Begin(h) \/ Proceed(h) \/ Fail(h), ~Write(h)
    PROVE  schedules' = schedules
  BY BeginAccepts DEF CoreInv, Accept, Proceed, Check, Refuse, Audit, Invalidate, Enqueue, Fail

\* A version has its audit row, or a handler that is about to insert it.
Accounted(s, v) ==
    \/ \E a \in audit : a.id = s /\ a.version = v /\ a.op # "cancel"
    \/ \E h \in Handlers : /\ pc[h] = "audit"
                           /\ written[h].id = s /\ written[h].version = v
                           /\ written[h].op # "cancel"

\* A step that is not the death of a handler keeps what is accounted for.
LEMMA AccountedStays ==
    ASSUME ~Faults, CoreInv, [Next]_vars, NEW s, NEW v, Accounted(s, v)
    PROVE  Accounted(s, v)'
<1>1. ASSUME NEW a \in audit, a.id = s, a.version = v, a.op # "cancel"
      PROVE  Accounted(s, v)'
  <2>1. ASSUME NEW h \in Handlers, Begin(h) PROVE audit' = audit
    BY <2>1, BeginAccepts DEF CoreInv, Accept
  <2>2. audit \subseteq audit'
    BY <2>1 DEF Next, vars, Proceed, Check, Refuse, Write, Audit, Invalidate, Enqueue, Fail
  <2> QED
    BY <1>1, <2>2 DEF Accounted
<1>2. ASSUME NEW g \in Handlers, pc[g] = "audit", written[g].id = s, written[g].version = v,
             written[g].op # "cancel"
      PROVE  Accounted(s, v)'
  <2>1. CASE pc'[g] = "audit" /\ written'[g] = written[g]
    BY <1>2, <2>1 DEF Accounted
  <2>2. CASE Audit(g)
    <3> DEFINE r == [op |-> written[g].op, id |-> written[g].id,
                     before |-> written[g].before, version |-> written[g].version]
    <3>1. r \in audit' /\ r.id = s /\ r.version = v /\ r.op # "cancel"
      BY <1>2, <2>2 DEF Audit
    <3> QED
      BY <3>1 DEF Accounted
  <2>3. ASSUME NEW h \in Handlers, Begin(h) \/ Proceed(h) \/ Fail(h), ~Audit(g)
        PROVE  pc'[g] = "audit" /\ written'[g] = written[g]
    <3>1. CASE Begin(h)
      <4>1. PICK c \in Call, next \in {"check", "write"} : Accept(h, c, next)
        BY <3>1, BeginAccepts DEF CoreInv
      <4>2. pc[h] = "idle"
        BY <3>1, BeginAccepts DEF CoreInv
      <4> QED
        BY <1>2, <4>1, <4>2 DEF Accept, CoreInv, TypeOK
    <3>2. CASE Write(h)
      BY <1>2, <3>2, WriteAnnounces DEF Write
    <3>3. CASE Audit(h)
      BY <1>2, <2>3, <3>3 DEF Audit, CoreInv, TypeOK
    <3>4. CASE Check(h) \/ Refuse(h) \/ Invalidate(h) \/ Enqueue(h)
      BY <1>2, <3>4 DEF Check, Refuse, Invalidate, Enqueue, CoreInv, TypeOK
    <3> QED
      BY <2>3, <3>1, <3>2, <3>3, <3>4 DEF Proceed, Fail
  <2> QED
    BY <1>2, <2>1, <2>2, <2>3 DEF Next, vars
<1> QED
  BY <1>1, <1>2 DEF Accounted

\* Every version is either as old as the step before, or accounted for by the
\* handler that wrote it.
LEMMA VersionsAreAccounted ==
    ASSUME CoreInv, [Next]_vars, NEW s \in ScheduleIds, schedules'[s] # Null,
           NEW v \in 1 .. schedules'[s].version
    PROVE  \/ Exists(s) /\ v \in 1 .. schedules[s].version
           \/ Accounted(s, v)'
<1>1. CASE schedules' = schedules
  BY <1>1 DEF Exists
<1>2. ASSUME NEW h \in Handlers, Write(h)
      PROVE  \/ Exists(s) /\ v \in 1 .. schedules[s].version
             \/ Accounted(s, v)'
  <2> DEFINE c == call[h]
             row == RowAfter(c)
  <2>1. /\ c \in Call /\ schedules'[c.id] = row /\ row \in Row
        /\ \A t \in ScheduleIds \ {c.id} : schedules'[t] = schedules[t]
    BY <1>2, WriteReplacesOneRow
  <2>2. /\ pc'[h] = "audit" /\ written'[h].op = c.op /\ written'[h].id = c.id
        /\ written'[h].version = row.version
    BY <1>2, WriteAnnounces
  <2>3. CASE s # c.id
    BY <2>1, <2>3 DEF Exists
  <2>4. CASE s = c.id /\ c.op # "cancel" /\ v = row.version
    BY <2>2, <2>4 DEF Accounted
  <2>5. CASE s = c.id /\ c.op = "cancel"
    <3>1. Exists(s) /\ row.version = schedules[s].version
      BY <1>2, <2>5, VersionOfWrite
    <3> QED
      BY <2>1, <2>5, <3>1
  <2>6. CASE s = c.id /\ c.op # "cancel" /\ v # row.version
    <3>1. v \in Nat /\ v < row.version /\ 1 <= v
      BY <2>1, <2>6 DEF Row
    <3>2. /\ c.op = "create" => row.version = 1
          /\ c.op # "create" => /\ Exists(s) /\ schedules[s].version \in Nat
                                /\ row.version = schedules[s].version + 1
      BY <1>2, <2>6, VersionOfWrite
    <3> QED
      BY <3>1, <3>2
  <2> QED
    BY <2>3, <2>4, <2>5, <2>6
<1> QED
  BY <1>1, <1>2, OtherStepsStutter DEF Next, vars

\* While no handler dies, every version of every schedule is audited or about
\* to be: racing calls never lose each other's audit rows.
THEOREM AuditTrailKept ==
    ASSUME ~Faults
    PROVE  Spec => []AuditTrailComplete
<1>1. Init => AuditTrailComplete
  BY DEF Init, AuditTrailComplete, Exists
<1>2. AuditTrailComplete <=>
        \A s \in ScheduleIds : Exists(s) => \A v \in 1 .. schedules[s].version : Accounted(s, v)
  BY DEF AuditTrailComplete, Accounted
<1>3. CoreInv /\ AuditTrailComplete /\ [Next]_vars => AuditTrailComplete'
  <2> SUFFICES ASSUME CoreInv, AuditTrailComplete, [Next]_vars,
                      NEW s \in ScheduleIds, schedules'[s] # Null,
                      NEW v \in 1 .. schedules'[s].version
               PROVE  Accounted(s, v)'
    BY DEF AuditTrailComplete, Accounted, Exists
  <2> QED
    BY <1>2, VersionsAreAccounted, AccountedStays
<1> QED
  BY <1>1, <1>3, CoreHolds, PTL DEF Spec

-----------------------------------------------------------------------------
(* Auto-snap.                                                              *)

\* Whatever the table holds and whoever writes it, the slot that a snapped
\* create works with leaves no gap that detectGaps would warn about: the two
\* queries for the previous schedule agree at every boundary.
THEOREM SnapsFollowOn == Spec => []SnappedFollowsOn
<1>1. ASSUME TypeOK, NEW dto \in CreateDtos, dto.autoSnap
      PROVE  ~GapBefore(LiveOn(dto.channel), CreateInput(dto))
  <2> DEFINE slots == LiveOn(dto.channel)
             before == {a.stop : a \in EndedBy(slots, dto.start)}
             place == SnapStart(slots, dto.start)
             sooner == {a.stop : a \in EndedBy(slots, place)}
  <2>1. CreateInput(dto).start = place
    BY <1>1 DEF CreateInput
  <2>2. Horizon \in Nat /\ dto.start \in 0 .. Horizon
    BY BoundsAssumption, DtosAssumption DEF CreateDto, Times
  <2>3. \A a \in slots : a.stop \in 0 .. Horizon
    BY <1>1 DEF LiveOn, IsLive, Exists, TypeOK, Row, Times
  <2> HIDE DEF slots
  <2>4. before \subseteq 0 .. Horizon /\ sooner \subseteq 0 .. Horizon
    BY <2>3 DEF EndedBy
  <2>5. CASE EndedBy(slots, dto.start) = {}
    <3>1. place = dto.start
      BY <2>5 DEF SnapStart
    <3> QED BY <2>1, <2>5, <3>1 DEF GapBefore, slots
  <2>6. CASE EndedBy(slots, dto.start) # {}
    <3>1. Latest(before) \in before /\ \A u \in before : u <= Latest(before)
      <4>1. before # {}
        BY <2>6
      <4> QED BY <2>2, <2>4, <4>1, LatestIsMaximum
    <3>2. place = Latest(before)
      BY <2>6 DEF SnapStart
    <3>3. place \in sooner
      BY <2>2, <2>3, <2>4, <3>1, <3>2 DEF EndedBy
    <3>4. Latest(sooner) \in sooner /\ \A u \in sooner : u <= Latest(sooner)
      BY <2>2, <2>4, <3>3, LatestIsMaximum
    <3>5. ~(Latest(sooner) < place)
      BY <2>4, <3>3, <3>4
    <3> QED BY <2>1, <3>5 DEF GapBefore, slots
  <2> QED BY <2>5, <2>6
<1>2. TypeOK => SnappedFollowsOn
  BY <1>1 DEF SnappedFollowsOn
<1> QED
  BY <1>2, TypeCorrect, PTL

-----------------------------------------------------------------------------
(* Calls that are kept apart.                                              *)

\* No two calls work on one row between their first read and their write: what
\* a lock on the row would ensure.
RowsApart ==
    \A g, h \in Handlers : g # h /\ Pending(g) /\ Pending(h) => call[g].id # call[h].id

\* No two calls look for a place on one channel at the same time: what a lock
\* on the channel would ensure.
ChannelsApart ==
    \A g, h \in Handlers : g # h /\ Pending(g) /\ Pending(h) => call[g].channel # call[h].channel

\* The strictest way to keep calls apart.
OneAtATime == \A g, h \in Handlers : g = h

LEMMA OneIsApart ==
    ASSUME OneAtATime
    PROVE  RowsApart /\ ChannelsApart
  BY DEF OneAtATime, RowsApart, ChannelsApart

\* What a pending call read is still what the table holds.
CallsAreCurrent == \A h \in Handlers : Pending(h) => TrueOfRow(call[h])

\* What the conflict check found is still so when the call writes.
CheckedCallsAreFree ==
    \A h \in Handlers : pc[h] = "write" /\ call[h].op # "cancel" => NoConflict(call[h])

\* The version a call is about to audit follows the one it read.
FollowsIn(op, before, version) ==
    before = CASE op = "create" -> 0
               [] op = "cancel" -> version
               [] OTHER         -> version - 1

AnnouncementsFollow ==
    \A h \in Handlers : Announcing(h) =>
        FollowsIn(written[h].op, written[h].before, written[h].version)

\* What calls know, and what they leave in the audit trail.
SerialInv == CallsAreCurrent /\ AnnouncementsFollow /\ AuditTrailIsAHistory

\* Slots that are taken, and slots that were found free.
BookedInv == NoDoubleBooking /\ CheckedCallsAreFree

LEMMA SerialInit == Init => SerialInv /\ BookedInv /\ RowsWellFormed
  BY DEF Init, SerialInv, BookedInv, NoDoubleBooking, RowsWellFormed, CallsAreCurrent,
         CheckedCallsAreFree, AnnouncementsFollow, AuditTrailIsAHistory, Pending, Announcing,
         Exists, IsLive

\* All that is needed of a call is that what it knows is still so when it
\* writes.
WritesAreTrue == \A h \in Handlers : Write(h) => TrueOfRow(call[h])

WritesAreFree ==
    \A h \in Handlers : Write(h) /\ call[h].op # "cancel" => NoConflict(call[h])

LEMMA CurrentWritesAreTrue == CoreInv /\ SerialInv => WritesAreTrue
  BY WriteReplacesOneRow DEF SerialInv, CallsAreCurrent, WritesAreTrue

LEMMA CheckedWritesAreFree == BookedInv => WritesAreFree
  BY DEF BookedInv, CheckedCallsAreFree, WritesAreFree, Write

\* A write that is not a cancellation stores exactly the slot its call
\* computed, for the columns it leaves alone still hold it.
LEMMA WriteStoresItsSlot ==
    ASSUME CoreInv, StampInv, WritesAreTrue, NEW h \in Handlers, Write(h)
    PROVE  LET c == call[h]
               row == RowAfter(c)
           IN /\ row.status = c.status
              /\ c.op # "cancel" =>
                   /\ row.channel = c.channel /\ row.start = c.start
                   /\ row.stop = c.stop /\ row.duration = c.duration
                   /\ WellFormed(row)
              /\ c.op = "cancel" =>
                   /\ Exists(c.id)
                   /\ row.status = "CANCELLED"
                   /\ row.channel = schedules[c.id].channel
                   /\ row.start = schedules[c.id].start
                   /\ row.stop = schedules[c.id].stop
                   /\ row.duration = schedules[c.id].duration
<1>1. Pending(h) /\ call[h] \in Call
  BY WriteReplacesOneRow
<1>2. Shape(call[h]) /\ TrueOfRow(call[h])
  BY <1>1 DEF StampInv, CallsKeepShape, WritesAreTrue
<1> QED
  BY <1>1, <1>2 DEF Shape, TrueOfRow, Agrees, RowAfter, NewRow, UpdatedRow, WellFormed, ValidRange,
                    ValidDuration, DurationMatchesRange

\* What another call read of its row is not touched by a write to a different
\* one.
LEMMA OthersStayCurrent ==
    ASSUME CoreInv, CallsAreCurrent, RowsApart, NEW h \in Handlers, Write(h)
    PROVE  CallsAreCurrent'
<1> SUFFICES ASSUME NEW g \in Handlers, Pending(g)' PROVE TrueOfRow(call[g])'
  BY DEF CallsAreCurrent
<1>1. /\ g # h /\ Pending(g) /\ Pending(h) /\ call'[g] = call[g] /\ call[g] \in Call
      /\ \A s \in ScheduleIds \ {call[h].id} : schedules'[s] = schedules[s]
  BY WriteReplacesOneRow
<1>2. call[g].id \in ScheduleIds \ {call[h].id}
  BY <1>1 DEF RowsApart, Call
<1>3. TrueOfRow(call[g])
  BY <1>1 DEF CallsAreCurrent
<1> QED
  BY <1>1, <1>2, <1>3 DEF TrueOfRow, Agrees, Exists

LEMMA WriteKeepsSerial ==
    ASSUME RowsApart, CoreInv, SerialInv, NEW h \in Handlers, Write(h)
    PROVE  SerialInv'
<1> DEFINE c == call[h]
           row == RowAfter(c)
<1>1. Pending(h)
  BY WriteReplacesOneRow
<1>2. CallsAreCurrent'
  BY OthersStayCurrent DEF SerialInv
<1>3. FollowsIn(c.op, c.before, row.version)
  <2>1. TrueOfRow(c)
    BY <1>1 DEF SerialInv, CallsAreCurrent
  <2>2. /\ c.op = "cancel" => row.version = schedules[c.id].version
        /\ c.op \notin {"create", "cancel"} => row.version = schedules[c.id].version + 1
        /\ c.op # "create" => schedules[c.id].version \in Nat
    BY VersionOfWrite
  <2>3. CASE c.op = "create"
    BY <2>1, <2>3 DEF FollowsIn, TrueOfRow
  <2>4. CASE c.op = "cancel"
    BY <2>1, <2>2, <2>4 DEF FollowsIn, TrueOfRow
  <2>5. CASE c.op \notin {"create", "cancel"}
    BY <2>1, <2>2, <2>5 DEF FollowsIn, TrueOfRow
  <2> QED
    BY <2>3, <2>4, <2>5
<1>4. AnnouncementsFollow'
  <2>1. /\ written'[h].op = c.op /\ written'[h].before = c.before
        /\ written'[h].version = row.version
        /\ \A g \in Handlers \ {h} :
             written'[g] = written[g] /\ (Announcing(g)' <=> Announcing(g))
    BY WriteAnnounces DEF Announcing
  <2> QED
    BY <1>3, <2>1 DEF SerialInv, AnnouncementsFollow
<1>5. AuditTrailIsAHistory'
  BY WriteAnnounces DEF SerialInv, AuditTrailIsAHistory
<1> QED
  BY <1>2, <1>4, <1>5 DEF SerialInv

\* What a write stores was found free, so nothing is double booked by it.
LEMMA WriteKeepsBooked ==
    ASSUME ChannelsApart, CoreInv, StampInv, SerialInv, BookedInv, NEW h \in Handlers, Write(h)
    PROVE  BookedInv'
<1> DEFINE c == call[h]
           row == RowAfter(c)
<1>1. /\ c \in Call /\ row \in Row /\ row # Null
      /\ schedules'[c.id] = row
      /\ \A s \in ScheduleIds \ {c.id} : schedules'[s] = schedules[s]
      /\ \A g \in Handlers : Pending(g)' => g # h
  BY WriteReplacesOneRow
<1>2. /\ c.op # "cancel" => /\ row.channel = c.channel /\ row.start = c.start
                            /\ row.stop = c.stop
      /\ c.op = "cancel" => row.status = "CANCELLED"
  BY WriteStoresItsSlot, CurrentWritesAreTrue
<1>3. c.op # "cancel" => NoConflict(c)
  BY DEF BookedInv, CheckedCallsAreFree, Write
<1>4. NoDoubleBooking'
  <2> SUFFICES ASSUME NEW s \in ScheduleIds, NEW t \in ScheduleIds, s # t,
                      schedules'[s] # Null, schedules'[s].status # "CANCELLED",
                      schedules'[t] # Null, schedules'[t].status # "CANCELLED",
                      schedules'[s].channel = schedules'[t].channel
               PROVE  ~Overlaps(schedules'[s], schedules'[t])
    BY DEF NoDoubleBooking, IsLive, Exists
  <2>1. CASE s # c.id /\ t # c.id
    BY <1>1, <2>1 DEF BookedInv, NoDoubleBooking, IsLive, Exists
  <2>2. CASE s = c.id
    <3>1. c.op # "cancel" /\ schedules'[t] = schedules[t] /\ schedules[t] \in Row
      BY <1>1, <1>2, <2>2 DEF CoreInv, TypeOK
    <3>2. ~Overlaps(schedules[t], c)
      BY <1>1, <1>2, <1>3, <2>2, <3>1 DEF NoConflict, IsLive, Exists
    <3> QED
      BY <1>1, <1>2, <2>2, <3>1, <3>2 DEF Overlaps, Row
  <2>3. CASE t = c.id
    <3>1. c.op # "cancel" /\ schedules'[s] = schedules[s] /\ schedules[s] \in Row
      BY <1>1, <1>2, <2>3 DEF CoreInv, TypeOK
    <3>2. ~Overlaps(schedules[s], c)
      BY <1>1, <1>2, <1>3, <2>3, <3>1 DEF NoConflict, IsLive, Exists
    <3> QED
      BY <1>1, <1>2, <2>3, <3>1, <3>2 DEF Overlaps, Row
  <2> QED
    BY <2>1, <2>2, <2>3
<1>5. CheckedCallsAreFree'
  <2> SUFFICES ASSUME NEW g \in Handlers, pc'[g] = "write", call'[g].op # "cancel",
                      NEW s \in ScheduleIds \ {call'[g].id},
                      schedules'[s] # Null, schedules'[s].status # "CANCELLED",
                      schedules'[s].channel = call'[g].channel
               PROVE  ~Overlaps(schedules'[s], call'[g])
    BY DEF CheckedCallsAreFree, NoConflict, IsLive, Exists
  <2>1. /\ g # h /\ pc[g] = "write" /\ call'[g] = call[g]
        /\ Pending(g) /\ Pending(h)
    BY DEF Write, CoreInv, TypeOK, Pending
  <2>2. NoConflict(call[g])
    BY <2>1 DEF BookedInv, CheckedCallsAreFree
  <2>3. s # c.id
    BY <1>1, <1>2, <2>1 DEF ChannelsApart
  <2> QED
    BY <1>1, <2>1, <2>2, <2>3 DEF NoConflict, IsLive, Exists
<1> QED
  BY <1>4, <1>5 DEF BookedInv

\* A write stores the slot that was validated, a cancellation the old one.
LEMMA WriteKeepsRows ==
    ASSUME CoreInv, StampInv, WritesAreTrue, RowsWellFormed, NEW h \in Handlers, Write(h)
    PROVE  RowsWellFormed'
<1> DEFINE c == call[h]
           row == RowAfter(c)
<1>1. /\ c \in Call /\ schedules'[c.id] = row
      /\ \A s \in ScheduleIds \ {c.id} : schedules'[s] = schedules[s]
  BY WriteReplacesOneRow
<1>2. c.id \in ScheduleIds
  BY <1>1 DEF Call
<1>3. /\ c.op # "cancel" => WellFormed(row)
      /\ c.op = "cancel" =>
           /\ Exists(c.id)
           /\ row.start = schedules[c.id].start /\ row.stop = schedules[c.id].stop
           /\ row.duration = schedules[c.id].duration
  BY WriteStoresItsSlot
<1>4. WellFormed(row)
  BY <1>2, <1>3 DEF RowsWellFormed, WellFormed, ValidRange, ValidDuration, DurationMatchesRange
<1> QED
  BY <1>1, <1>4 DEF RowsWellFormed, Exists

LEMMA BeginKeepsSerial ==
    ASSUME CoreInv, SerialInv, NEW h \in Handlers, Begin(h)
    PROVE  SerialInv' /\ (CheckedCallsAreFree => CheckedCallsAreFree')
<1>1. PICK c \in Call, next \in {"check", "write"} :
        /\ pc[h] = "idle"
        /\ Accept(h, c, next) /\ TrueOfRow(c) /\ (next = "write" => c.op = "cancel")
  BY BeginAccepts DEF CoreInv
<1>2. /\ schedules' = schedules /\ written' = written /\ audit' = audit
      /\ pc'[h] = next /\ call'[h] = c
      /\ \A g \in Handlers \ {h} : pc'[g] = pc[g] /\ call'[g] = call[g]
  BY <1>1 DEF Accept, CoreInv, TypeOK
<1>3. AuditTrailIsAHistory'
  BY <1>2 DEF SerialInv, AuditTrailIsAHistory
<1>4. CallsAreCurrent'
  BY <1>1, <1>2 DEF SerialInv, CallsAreCurrent, Pending, TrueOfRow, Exists, Agrees
<1>5. CheckedCallsAreFree => CheckedCallsAreFree'
  BY <1>1, <1>2 DEF CheckedCallsAreFree, NoConflict, IsLive, Exists
<1>6. AnnouncementsFollow'
  BY <1>2 DEF SerialInv, AnnouncementsFollow, Announcing
<1> QED
  BY <1>3, <1>4, <1>5, <1>6 DEF SerialInv

LEMMA AuditKeepsSerial ==
    ASSUME CoreInv, SerialInv, NEW h \in Handlers, Audit(h)
    PROVE  SerialInv' /\ (CheckedCallsAreFree => CheckedCallsAreFree')
<1>1. /\ pc[h] = "audit" /\ pc'[h] = "invalidate"
      /\ \A g \in Handlers \ {h} : pc'[g] = pc[g]
      /\ UNCHANGED <<schedules, call, written>>
  BY DEF Audit, CoreInv, TypeOK
<1>2. CallsAreCurrent'
  BY <1>1 DEF SerialInv, CallsAreCurrent, Pending, TrueOfRow, Agrees, Exists
<1>3. CheckedCallsAreFree => CheckedCallsAreFree'
  BY <1>1 DEF CheckedCallsAreFree, NoConflict, IsLive, Exists
<1>4. AnnouncementsFollow'
  BY <1>1 DEF SerialInv, AnnouncementsFollow, Announcing
<1>5. AuditTrailIsAHistory'
  <2>1. FollowsIn(written[h].op, written[h].before, written[h].version)
    BY <1>1 DEF SerialInv, AnnouncementsFollow, Announcing
  <2> QED
    BY <2>1 DEF Audit, SerialInv, AuditTrailIsAHistory, FollowsIn
<1> QED
  BY <1>2, <1>3, <1>4, <1>5 DEF SerialInv

LEMMA OtherStepKeepsSerial ==
    ASSUME CoreInv, SerialInv, NEW h \in Handlers,
           Check(h) \/ Refuse(h) \/ Invalidate(h) \/ Enqueue(h) \/ Fail(h)
    PROVE  SerialInv' /\ (CheckedCallsAreFree => CheckedCallsAreFree')
<1>1. schedules' = schedules /\ audit' = audit
  BY DEF Check, Refuse, Invalidate, Enqueue, Fail
<1>2. AuditTrailIsAHistory'
  BY <1>1 DEF SerialInv, AuditTrailIsAHistory
<1>3. CallsAreCurrent'
  <2>1. \A g \in Handlers : Pending(g)' => Pending(g) /\ call'[g] = call[g]
    BY QuietStepKeepsCalls
  <2> QED
    BY <1>1, <2>1 DEF SerialInv, CallsAreCurrent, TrueOfRow, Agrees, Exists
<1>4. ASSUME CheckedCallsAreFree PROVE CheckedCallsAreFree'
  <2>1. \A g \in Handlers : pc'[g] = "write" =>
          /\ call'[g] = call[g]
          /\ pc[g] = "write" \/ NoConflict(call[g])
    BY DEF Check, Refuse, Invalidate, Enqueue, Fail, CoreInv, TypeOK
  <2> QED
    BY <1>1, <1>4, <2>1 DEF CheckedCallsAreFree, NoConflict, IsLive, Exists
<1>5. AnnouncementsFollow'
  <2>1. \A g \in Handlers : Announcing(g)' => Announcing(g) /\ written'[g] = written[g]
    BY DEF Announcing, Check, Refuse, Invalidate, Enqueue, Fail, CoreInv, TypeOK
  <2> QED
    BY <2>1 DEF SerialInv, AnnouncementsFollow
<1> QED
  BY <1>2, <1>3, <1>4, <1>5 DEF SerialInv

LEMMA SerialStep == CoreInv /\ SerialInv /\ RowsApart /\ [Next]_vars => SerialInv'
<1> SUFFICES ASSUME CoreInv, SerialInv, RowsApart, [Next]_vars PROVE SerialInv'
  OBVIOUS
<1>1. CASE UNCHANGED vars
  BY <1>1 DEF SerialInv, CallsAreCurrent, AnnouncementsFollow, AuditTrailIsAHistory, TrueOfRow,
              Agrees, Pending, Announcing, Exists, vars
<1>2. ASSUME NEW h \in Handlers, Begin(h) \/ Proceed(h) \/ Fail(h)
      PROVE  SerialInv'
  BY <1>2, BeginKeepsSerial, WriteKeepsSerial, AuditKeepsSerial, OtherStepKeepsSerial DEF Proceed
<1> QED
  BY <1>1, <1>2 DEF Next

LEMMA BookedStep ==
    CoreInv /\ StampInv /\ SerialInv /\ BookedInv /\ ChannelsApart /\ [Next]_vars => BookedInv'
<1> SUFFICES ASSUME CoreInv, StampInv, SerialInv, BookedInv, ChannelsApart, [Next]_vars
             PROVE  BookedInv'
  OBVIOUS
<1>1. CASE UNCHANGED vars
  BY <1>1 DEF BookedInv, NoDoubleBooking, CheckedCallsAreFree, NoConflict, Exists, IsLive, vars
<1>2. ASSUME NEW h \in Handlers, Begin(h) \/ Proceed(h) \/ Fail(h), ~Write(h)
      PROVE  BookedInv'
  <2>1. NoDoubleBooking'
    BY <1>2, OtherStepsStutter DEF BookedInv, NoDoubleBooking, Exists, IsLive
  <2>2. CheckedCallsAreFree'
    BY <1>2, BeginKeepsSerial, AuditKeepsSerial, OtherStepKeepsSerial DEF Proceed, BookedInv
  <2> QED
    BY <2>1, <2>2 DEF BookedInv
<1> QED
  BY <1>1, <1>2, WriteKeepsBooked DEF Next

LEMMA RowsStep == CoreInv /\ StampInv /\ SerialInv /\ RowsWellFormed /\ [Next]_vars => RowsWellFormed'
<1> SUFFICES ASSUME CoreInv, StampInv, WritesAreTrue, RowsWellFormed, [Next]_vars
             PROVE  RowsWellFormed'
  BY CurrentWritesAreTrue
<1>1. schedules' = schedules => RowsWellFormed'
  BY DEF RowsWellFormed, Exists
<1> QED
  BY <1>1, WriteKeepsRows, OtherStepsStutter DEF Next, vars

LEMMA SerialHolds == Spec /\ []RowsApart => []SerialInv
  BY SerialStep, SerialInit, CoreHolds, PTL DEF Spec

LEMMA BookedHolds == Spec /\ []RowsApart /\ []ChannelsApart => []BookedInv
  BY BookedStep, SerialInit, SerialHolds, CoreHolds, StampHolds, PTL DEF Spec

\* Calls that are kept apart by row and by channel never double book one: the
\* checks and the write of a call need no transaction beyond that.
THEOREM NoDoubleBookingWhenApart == Spec /\ []RowsApart /\ []ChannelsApart => []NoDoubleBooking
  BY BookedHolds, PTL DEF BookedInv

\* With calls for one row kept apart every stored row is well formed, although
\* update names only some of the columns it validated.
THEOREM RowsWellFormedWhenApart == Spec /\ []RowsApart => []RowsWellFormed
  BY RowsStep, SerialInit, SerialHolds, CoreHolds, StampHolds, PTL DEF Spec

\* With calls for one row kept apart until they have written, and their audit
\* rows inserted in any order, the trail of a schedule reads as a history.
THEOREM AuditTrailIsAHistoryWhenApart == Spec /\ []RowsApart => []AuditTrailIsAHistory
  BY SerialHolds, PTL DEF SerialInv

-----------------------------------------------------------------------------
(* Calls that are kept apart implement the timeline.                       *)

Slots == [s \in ScheduleIds |-> SlotOf(s)]

LEMMA SlotOfRow ==
    ASSUME CoreInv, NEW s \in ScheduleIds
    PROVE  /\ Exists(s) => /\ SlotOf(s) \in TimelineSpec!Slot
                           /\ SlotOf(s).channel = schedules[s].channel
                           /\ SlotOf(s).start = schedules[s].start
                           /\ SlotOf(s).stop = schedules[s].stop
                           /\ SlotOf(s).duration = schedules[s].duration
                           /\ SlotOf(s).status = schedules[s].status
           /\ ~Exists(s) => SlotOf(s) = Null
  BY DEF CoreInv, TypeOK, Exists, SlotOf, Row, TimelineSpec!Slot, TimelineSpec!Times,
         TimelineSpec!Durations, TimelineSpec!Statuses, Times, Durations, Statuses

\* The timeline's copies of the schedule rules are the service's.
LEMMA SameRules ==
    ASSUME NEW a, NEW b
    PROVE  /\ TimelineSpec!Overlaps(a, b) <=> Overlaps(a, b)
           /\ TimelineSpec!WellFormed(a) <=> WellFormed(a)
  BY DEF Overlaps, WellFormed, ValidRange, ValidDuration, DurationMatchesRange,
         TimelineSpec!Overlaps, TimelineSpec!WellFormed, TimelineSpec!ValidRange,
         TimelineSpec!ValidDuration, TimelineSpec!DurationMatchesRange

\* A slot that was found free among the rows is bookable on the timeline.
LEMMA FreeIsBookable ==
    ASSUME CoreInv, NEW s \in ScheduleIds, NEW a, WellFormed(a),
           \A t \in ScheduleIds \ {s} :
             IsLive(t) /\ schedules[t].channel = a.channel => ~Overlaps(schedules[t], a)
    PROVE  TimelineSpec!Bookable(s, a)
<1> SUFFICES ASSUME NEW t \in ScheduleIds \ {s}, TimelineSpec!IsLive(t),
                    Slots[t].channel = a.channel
             PROVE  ~Overlaps(Slots[t], a)
  BY SameRules DEF TimelineSpec!Bookable, Slots
<1>1. Slots[t] = SlotOf(t)
  BY DEF Slots
<1>2. SlotOf(t) # Null /\ SlotOf(t).status # "CANCELLED"
  BY DEF TimelineSpec!IsLive
<1>3. IsLive(t) /\ schedules[t].channel = a.channel
  BY <1>1, <1>2, SlotOfRow DEF IsLive
<1>4. ~Overlaps(schedules[t], a)
  BY <1>3
<1> QED
  BY <1>1, <1>3, <1>4, SlotOfRow DEF Overlaps, IsLive

\* A write changes the slot of its row and no other.
LEMMA WriteChangesOneSlot ==
    ASSUME CoreInv, NEW h \in Handlers, Write(h)
    PROVE  LET c == call[h]
               row == RowAfter(c)
           IN Slots' = [Slots EXCEPT ![c.id] =
                [channel |-> row.channel, start |-> row.start, stop |-> row.stop,
                 duration |-> row.duration, status |-> row.status]]
<1> DEFINE c == call[h]
           row == RowAfter(c)
           a == [channel |-> row.channel, start |-> row.start, stop |-> row.stop,
                 duration |-> row.duration, status |-> row.status]
<1>1. /\ c.id \in ScheduleIds /\ row # Null
      /\ schedules'[c.id] = row
      /\ \A s \in ScheduleIds \ {c.id} : schedules'[s] = schedules[s]
  BY WriteReplacesOneRow DEF Call
<1>2. ASSUME NEW s \in ScheduleIds PROVE SlotOf(s)' = IF s = c.id THEN a ELSE SlotOf(s)
  BY <1>1 DEF SlotOf, Exists
<1>3. Slots' = [s \in ScheduleIds |-> IF s = c.id THEN a ELSE SlotOf(s)]
  BY <1>2 DEF Slots
<1> QED
  BY <1>1, <1>3 DEF Slots

\* The write of each kind of call is the step of the timeline of that name.
LEMMA WriteImplementsStep ==
    ASSUME CoreInv, StampInv, WritesAreTrue, WritesAreFree, NEW h \in Handlers, Write(h)
    PROVE  TimelineSpec!Next
<1> DEFINE c == call[h]
           old == schedules[c.id]
           row == RowAfter(c)
           a == [channel |-> row.channel, start |-> row.start, stop |-> row.stop,
                 duration |-> row.duration, status |-> row.status]
<1>1. c \in Call /\ c.id \in ScheduleIds /\ row \in Row /\ Pending(h)
  BY WriteReplacesOneRow DEF Call
<1>2. Slots' = [Slots EXCEPT ![c.id] = a]
  BY WriteChangesOneSlot
<1>3. Shape(c) /\ TrueOfRow(c)
  BY <1>1 DEF StampInv, CallsKeepShape, WritesAreTrue
<1>4. /\ row.status = c.status
      /\ c.op # "cancel" => /\ row.channel = c.channel /\ row.start = c.start
                            /\ row.stop = c.stop /\ row.duration = c.duration
                            /\ WellFormed(row)
      /\ c.op = "cancel" => /\ Exists(c.id) /\ row.channel = old.channel
                            /\ row.start = old.start /\ row.stop = old.stop
                            /\ row.duration = old.duration
  BY WriteStoresItsSlot
<1>5. a \in TimelineSpec!Slot
  BY <1>1 DEF Row, TimelineSpec!Slot, TimelineSpec!Times, TimelineSpec!Durations,
              TimelineSpec!Statuses, Times, Durations, Statuses
<1>6. c.op # "cancel" => TimelineSpec!Bookable(c.id, a)
  <2> SUFFICES ASSUME c.op # "cancel" PROVE TimelineSpec!Bookable(c.id, a)
    OBVIOUS
  <2>1. NoConflict(c)
    BY DEF WritesAreFree
  <2>2. WellFormed(a)
    BY <1>4 DEF WellFormed, ValidRange, ValidDuration, DurationMatchesRange
  <2>3. \A t \in ScheduleIds \ {c.id} :
          IsLive(t) /\ schedules[t].channel = a.channel => ~Overlaps(schedules[t], a)
    BY <1>4, <2>1 DEF NoConflict, Overlaps
  <2> QED
    BY <1>1, <2>2, <2>3, FreeIsBookable
<1>7. Exists(c.id) => /\ Slots[c.id] # Null
                      /\ Slots[c.id] \in TimelineSpec!Slot
                      /\ Slots[c.id].status = old.status
                      /\ Slots[c.id].channel = old.channel /\ Slots[c.id].start = old.start
                      /\ Slots[c.id].stop = old.stop /\ Slots[c.id].duration = old.duration
  BY <1>1, SlotOfRow, NullIsNoSlot DEF Slots
<1>8. CASE c.op = "create"
  <2>1. Slots[c.id] = Null
    BY <1>1, <1>3, <1>8, SlotOfRow DEF Slots, TrueOfRow
  <2>2. a.status = "DRAFT"
    BY <1>3, <1>4, <1>8 DEF Shape
  <2>3. TimelineSpec!Book(c.id)
    BY <1>2, <1>5, <1>6, <1>8, <2>1, <2>2 DEF TimelineSpec!Book, Slots
  <2> QED
    BY <1>1, <2>3 DEF TimelineSpec!Next
<1>9. CASE c.op = "update"
  <2>1. /\ Exists(c.id) /\ old.status # "CANCELLED"
        /\ c.status = "PUBLISHED" => old.status = "PUBLISHED"
    BY <1>3, <1>9 DEF TrueOfRow
  <2>2. TimelineSpec!Edit(c.id)
    BY <1>2, <1>4, <1>5, <1>6, <1>7, <1>9, <2>1 DEF TimelineSpec!Edit, TimelineSpec!IsLive, Slots
  <2> QED
    BY <1>1, <2>2 DEF TimelineSpec!Next
<1>10. CASE c.op = "publish"
  <2>1. Exists(c.id) /\ old.status # "CANCELLED" /\ Agrees(c, old)
    BY <1>3, <1>10 DEF TrueOfRow
  <2>2. /\ row.status = "PUBLISHED" /\ row.channel = old.channel /\ row.start = old.start
        /\ row.stop = old.stop /\ row.duration = old.duration
    BY <1>3, <1>4, <1>10, <2>1 DEF Shape, Agrees
  <2>3. TimelineSpec!Bookable(c.id, Slots[c.id])
    <3>1. NoConflict(c)
      BY <1>10 DEF WritesAreFree
    <3>2. WellFormed(Slots[c.id])
      BY <1>4, <1>7, <1>10, <2>1, <2>2
      DEF WellFormed, ValidRange, ValidDuration, DurationMatchesRange
    <3>3. \A t \in ScheduleIds \ {c.id} :
            IsLive(t) /\ schedules[t].channel = Slots[c.id].channel
              => ~Overlaps(schedules[t], Slots[c.id])
      BY <1>4, <1>7, <1>10, <2>1, <2>2, <3>1 DEF NoConflict, Overlaps
    <3> QED
      BY <1>1, <3>2, <3>3, FreeIsBookable
  <2>4. a = [Slots[c.id] EXCEPT !.status = "PUBLISHED"]
    BY <1>7, <2>1, <2>2 DEF TimelineSpec!Slot
  <2>5. TimelineSpec!Publish(c.id)
    BY <1>2, <1>7, <2>1, <2>3, <2>4 DEF TimelineSpec!Publish, TimelineSpec!IsLive, Slots
  <2> QED
    BY <1>1, <2>5 DEF TimelineSpec!Next
<1>11. CASE c.op = "cancel"
  <2>1. row.status = "CANCELLED"
    BY <1>3, <1>4, <1>11 DEF Shape
  <2>2. a = [Slots[c.id] EXCEPT !.status = "CANCELLED"]
    BY <1>4, <1>7, <1>11, <2>1 DEF TimelineSpec!Slot
  <2>3. TimelineSpec!Cancel(c.id)
    BY <1>2, <1>4, <1>7, <1>11, <2>2 DEF TimelineSpec!Cancel, Slots
  <2> QED
    BY <1>1, <2>3 DEF TimelineSpec!Next
<1> QED
  BY <1>1, <1>8, <1>9, <1>10, <1>11 DEF Call, Operations

LEMMA StepsImplementTimeline ==
    CoreInv /\ StampInv /\ WritesAreTrue /\ WritesAreFree /\ [Next]_vars => [TimelineSpec!Next]_Slots
<1> SUFFICES ASSUME CoreInv, StampInv, WritesAreTrue, WritesAreFree, [Next]_vars
             PROVE  TimelineSpec!Next \/ Slots' = Slots
  BY DEF Slots
<1>1. schedules' = schedules => Slots' = Slots
  BY DEF Slots, SlotOf, Exists
<1>2. ASSUME NEW h \in Handlers, Begin(h) \/ Proceed(h) \/ Fail(h)
      PROVE  TimelineSpec!Next \/ Slots' = Slots
  BY <1>1, <1>2, WriteImplementsStep, OtherStepsStutter
<1> QED
  BY <1>1, <1>2 DEF Next, vars

\* With calls kept apart by row and by channel the service implements the
\* abstract timeline: each write is the atomic booking, edit, publication or
\* cancellation it stands for, and every other await is invisible.
THEOREM ServiceImplementsTimeline == Spec /\ []RowsApart /\ []ChannelsApart => ImplementsTimeline
<1>1. Init => TimelineSpec!Init
  BY DEF Init, TimelineSpec!Init, SlotOf, Exists
<1>2. CoreInv /\ StampInv /\ SerialInv /\ BookedInv /\ [Next]_vars
        => [TimelineSpec!Next]_[s \in ScheduleIds |-> SlotOf(s)]
  BY StepsImplementTimeline, CurrentWritesAreTrue, CheckedWritesAreFree DEF Slots
<1> QED
  BY <1>1, <1>2, SerialHolds, BookedHolds, CoreHolds, StampHolds, PTL
     DEF Spec, ImplementsTimeline, TimelineSpec!Spec

LEMMA StepKeepsCancelled ==
    ASSUME CoreInv, StampInv, WritesAreTrue, [Next]_vars,
           NEW s \in ScheduleIds, Exists(s), schedules[s].status = "CANCELLED"
    PROVE  schedules'[s].status = "CANCELLED"
<1>1. ASSUME NEW h \in Handlers, Write(h) PROVE schedules'[s].status = "CANCELLED"
  <2> DEFINE c == call[h]
  <2>1. /\ schedules'[c.id] = RowAfter(c) /\ Pending(h) /\ c \in Call
        /\ \A t \in ScheduleIds \ {c.id} : schedules'[t] = schedules[t]
    BY <1>1, WriteReplacesOneRow
  <2>2. Shape(c) /\ TrueOfRow(c) /\ RowAfter(c).status = c.status
    BY <1>1, <2>1, WriteStoresItsSlot DEF StampInv, CallsKeepShape, WritesAreTrue
  <2>3. s = c.id => c.op = "cancel"
    BY <2>2 DEF TrueOfRow
  <2> QED
    BY <2>1, <2>2, <2>3 DEF Shape
<1> QED
  BY <1>1, OtherStepsStutter DEF Next, vars

\* With calls for one row kept apart a cancelled schedule is cancelled for good.
THEOREM CancelledIsFinalWhenApart == Spec /\ []RowsApart => CancelledIsFinal
<1>1. CoreInv /\ StampInv /\ SerialInv /\ [Next]_vars
        => [\A s \in ScheduleIds :
              Exists(s) /\ schedules[s].status = "CANCELLED"
                => schedules'[s].status = "CANCELLED"]_vars
  BY StepKeepsCancelled, CurrentWritesAreTrue
<1> QED
  BY <1>1, SerialHolds, CoreHolds, StampHolds, PTL DEF Spec, CancelledIsFinal

LEMMA StepPublishesByPublish ==
    ASSUME CoreInv, StampInv, WritesAreTrue, [Next]_vars,
           NEW s \in ScheduleIds, ~(Exists(s) /\ schedules[s].status = "PUBLISHED"),
           schedules'[s] # Null, schedules'[s].status = "PUBLISHED"
    PROVE  \E h \in Handlers :
             pc[h] = "write" /\ call[h].op = "publish" /\ call[h].id = s /\ call'[h] = Null
<1>1. ASSUME NEW h \in Handlers, Write(h)
      PROVE  pc[h] = "write" /\ call[h].op = "publish" /\ call[h].id = s /\ call'[h] = Null
  <2> DEFINE c == call[h]
  <2>1. /\ schedules'[c.id] = RowAfter(c) /\ Pending(h) /\ c \in Call
        /\ \A t \in ScheduleIds \ {c.id} : schedules'[t] = schedules[t]
    BY <1>1, WriteReplacesOneRow
  <2>2. Shape(c) /\ TrueOfRow(c) /\ RowAfter(c).status = c.status
    BY <1>1, <2>1, WriteStoresItsSlot DEF StampInv, CallsKeepShape, WritesAreTrue
  <2>3. s = c.id
    BY <2>1 DEF Exists
  <2>4. c.status = "PUBLISHED"
    BY <2>1, <2>2, <2>3
  <2>5. c.op = "publish"
    BY <2>1, <2>2, <2>3, <2>4 DEF Shape, TrueOfRow, Call, Operations
  <2> QED
    BY <1>1, <2>3, <2>5 DEF Write, CoreInv, TypeOK
<1> QED
  BY <1>1, OtherStepsStutter DEF Next, Exists, vars

\* With calls for one row kept apart a schedule is published by the publish
\* endpoint or not at all.
THEOREM PublishedByPublishOnlyWhenApart == Spec /\ []RowsApart => PublishedByPublishOnly
<1>1. CoreInv /\ StampInv /\ SerialInv /\ [Next]_vars
        => [\A s \in ScheduleIds :
              /\ ~(Exists(s) /\ schedules[s].status = "PUBLISHED")
              /\ schedules'[s] # Null /\ schedules'[s].status = "PUBLISHED"
              => \E h \in Handlers :
                   pc[h] = "write" /\ call[h].op = "publish" /\ call[h].id = s
                     /\ call'[h] = Null]_vars
  BY StepPublishesByPublish, CurrentWritesAreTrue
<1> QED
  BY <1>1, SerialHolds, CoreHolds, StampHolds, PTL DEF Spec, PublishedByPublishOnly

-----------------------------------------------------------------------------
(* One call at a time.                                                     *)

\* Everything above holds when the API serves its requests one by one: the
\* whole contract of the service, and its implementation of the timeline.
THEOREM SoundSerially ==
    ASSUME OneAtATime
    PROVE  Spec => /\ [](NoDoubleBooking /\ RowsWellFormed /\ AuditTrailIsAHistory)
                   /\ CancelledIsFinal
                   /\ PublishedByPublishOnly
                   /\ ImplementsTimeline
<1>1. RowsApart /\ ChannelsApart
  BY OneIsApart
<1>2. [](RowsApart /\ ChannelsApart)
  BY <1>1, PTL
<1> QED
  BY <1>2, NoDoubleBookingWhenApart, RowsWellFormedWhenApart, AuditTrailIsAHistoryWhenApart,
     CancelledIsFinalWhenApart, PublishedByPublishOnlyWhenApart, ServiceImplementsTimeline, PTL

-----------------------------------------------------------------------------
(* Calls that run into each other, with bodies that cannot tear a row.      *)

\* A body names a start exactly if it names a stop or a duration: the UPDATE
\* then sets all three columns or none.
WholeBodies ==
    \A dto \in UpdateDtos :
        dto.start # Null <=> dto.stop # Null \/ dto.duration # Null

\* Such a call writes the slot it validated, or leaves the slot alone.
CallsAreWhole ==
    \A h \in Handlers : Pending(h) =>
        \/ {"start", "stop", "duration"} \subseteq call[h].sets
        \/ call[h].op # "create" /\ call[h].sets \cap {"start", "stop", "duration"} = {}

LEMMA BeginsWhole ==
    ASSUME TypeOK, WholeBodies, NEW h \in Handlers, Begin(h), NEW c \in Call,
           NEW next \in {"check", "write"}, Accept(h, c, next)
    PROVE  \/ {"start", "stop", "duration"} \subseteq c.sets
           \/ c.op # "create" /\ c.sets \cap {"start", "stop", "duration"} = {}
<1>1. call'[h] = c
  BY DEF Accept, TypeOK
<1>2. CASE BeginCreate(h)
  <2>1. call'[h].sets = Fields
    BY <1>2 DEF BeginCreate, Accept, TypeOK
  <2> QED
    BY <1>1, <2>1 DEF Fields
<1>3. CASE BeginUpdate(h)
  <2>1. PICK dto \in UpdateDtos : call'[h].sets = UpdateSets(dto) /\ call'[h].op = "update"
    BY <1>3 DEF BeginUpdate, Accept, TypeOK
  <2>2. dto.start # Null <=> dto.stop # Null \/ dto.duration # Null
    BY DEF WholeBodies
  <2> QED
    BY <1>1, <2>1, <2>2 DEF UpdateSets, Fields
<1>4. CASE BeginPublish(h)
  <2>1. call'[h].sets = {"status"} /\ call'[h].op = "publish"
    BY <1>4 DEF BeginPublish, Accept, TypeOK
  <2> QED
    BY <1>1, <2>1
<1>5. CASE BeginCancel(h)
  <2>1. call'[h].sets = {"status"} /\ call'[h].op = "cancel"
    BY <1>5 DEF BeginCancel, Accept, TypeOK
  <2> QED
    BY <1>1, <2>1
<1> QED
  BY <1>2, <1>3, <1>4, <1>5 DEF Begin

LEMMA WholeStep ==
    ASSUME WholeBodies
    PROVE  CoreInv /\ CallsAreWhole /\ [Next]_vars => CallsAreWhole'
<1> SUFFICES ASSUME CoreInv, CallsAreWhole, [Next]_vars PROVE CallsAreWhole'
  OBVIOUS
<1>1. CASE UNCHANGED vars
  BY <1>1 DEF CallsAreWhole, Pending, vars
<1>2. ASSUME NEW h \in Handlers, Begin(h) PROVE CallsAreWhole'
  <2>1. PICK c \in Call, next \in {"check", "write"} : Accept(h, c, next)
    BY <1>2, BeginAccepts DEF CoreInv
  <2>2. /\ call'[h] = c
        /\ \A g \in Handlers \ {h} : (Pending(g)' <=> Pending(g)) /\ call'[g] = call[g]
    BY <2>1, AcceptLeavesOthers
  <2>3. \/ {"start", "stop", "duration"} \subseteq c.sets
        \/ c.op # "create" /\ c.sets \cap {"start", "stop", "duration"} = {}
    BY <1>2, <2>1, BeginsWhole DEF CoreInv
  <2> QED
    BY <2>2, <2>3 DEF CallsAreWhole
<1>3. ASSUME NEW h \in Handlers, Proceed(h) \/ Fail(h) PROVE CallsAreWhole'
  <2>1. \A g \in Handlers : Pending(g)' => Pending(g) /\ call'[g] = call[g]
    BY <1>3, QuietStepKeepsCalls, WriteReplacesOneRow DEF Proceed
  <2> QED
    BY <2>1 DEF CallsAreWhole
<1> QED
  BY <1>1, <1>2, <1>3 DEF Next

LEMMA WholeWriteKeepsRows ==
    ASSUME CoreInv, StampInv, CallsAreWhole, RowsWellFormed, NEW h \in Handlers, Write(h)
    PROVE  RowsWellFormed'
<1> DEFINE c == call[h]
           row == RowAfter(c)
<1>1. /\ c \in Call /\ schedules'[c.id] = row /\ Pending(h)
      /\ \A s \in ScheduleIds \ {c.id} : schedules'[s] = schedules[s]
  BY WriteReplacesOneRow
<1>2. c.id \in ScheduleIds /\ Shape(c) /\ (c.op # "create" => Exists(c.id))
  BY <1>1 DEF Call, StampInv, CallsKeepShape, CoreInv, CallsTargetRows
<1>3. c.op = "cancel" => c.sets = {"status"}
  BY <1>2 DEF Shape
<1>4. CASE {"start", "stop", "duration"} \subseteq c.sets
  <2>1. row.start = c.start /\ row.stop = c.stop /\ row.duration = c.duration
    BY <1>4 DEF RowAfter, NewRow, UpdatedRow
  <2>2. WellFormed(c)
    BY <1>2, <1>3, <1>4 DEF Shape
  <2>3. WellFormed(row)
    BY <2>1, <2>2 DEF WellFormed, ValidRange, ValidDuration, DurationMatchesRange
  <2> QED
    BY <1>1, <2>3 DEF RowsWellFormed, Exists
<1>5. CASE c.op # "create" /\ c.sets \cap {"start", "stop", "duration"} = {}
  <2>1. /\ row.start = schedules[c.id].start /\ row.stop = schedules[c.id].stop
        /\ row.duration = schedules[c.id].duration
    BY <1>5 DEF RowAfter, UpdatedRow
  <2>2. WellFormed(schedules[c.id])
    BY <1>2, <1>5 DEF RowsWellFormed
  <2>3. WellFormed(row)
    BY <2>1, <2>2 DEF WellFormed, ValidRange, ValidDuration, DurationMatchesRange
  <2> QED
    BY <1>1, <2>3 DEF RowsWellFormed, Exists
<1> QED
  BY <1>1, <1>4, <1>5 DEF CallsAreWhole

\* Two updates can tear a row only if one of them sets some of its start, stop
\* and duration without the others: otherwise every row stays well formed, with
\* any number of requests running into each other.
THEOREM RowsWellFormedWithWholeBodies ==
    ASSUME WholeBodies
    PROVE  Spec => []RowsWellFormed
<1>1. Init => CallsAreWhole /\ RowsWellFormed
  BY DEF Init, CallsAreWhole, RowsWellFormed, Pending, Exists
<1>2. CoreInv /\ CallsAreWhole /\ [Next]_vars => CallsAreWhole'
  BY WholeStep
<1>3. CoreInv /\ StampInv /\ CallsAreWhole /\ RowsWellFormed /\ [Next]_vars => RowsWellFormed'
  <2> SUFFICES ASSUME CoreInv, StampInv, CallsAreWhole, RowsWellFormed, [Next]_vars
               PROVE  RowsWellFormed'
    OBVIOUS
  <2>1. schedules' = schedules => RowsWellFormed'
    BY DEF RowsWellFormed, Exists
  <2> QED
    BY <2>1, WholeWriteKeepsRows, OtherStepsStutter DEF Next, vars
<1> QED
  BY <1>1, <1>2, <1>3, CoreHolds, StampHolds, PTL DEF Spec
-----------------------------------------------------------------------------
(* Calls that run into each other, with UPDATEs that match the version.     *)

\* The remedy that the version column suggests: an UPDATE is a success only if
\* the row still has the version that the handler read, and otherwise the call
\* fails.  Nothing is locked.
VersionMatches(h) ==
    call[h].op # "create" => schedules[call[h].id].version = call[h].before

VersionsChecked == [][\A h \in Handlers : Write(h) => VersionMatches(h)]_vars

\* The place and time in a row that a call read.
SlotAsRead(c, row) ==
    /\ "channel" \notin c.sets => row.channel = c.channel
    /\ "start" \notin c.sets => row.start = c.start
    /\ "stop" \notin c.sets => row.stop = c.stop
    /\ "duration" \notin c.sets => row.duration = c.duration
    /\ c.from = row.channel

\* So is its status.
StatusAsRead(c, row) ==
    /\ "status" \notin c.sets => row.status = c.status
    /\ c.op = "update" /\ c.status = "PUBLISHED" => row.status = "PUBLISHED"

\* As long as a row has the version that a call read, it has the slot it read.
\* It may have been cancelled, for remove does not count as a version.
VersionTellsSlot(c) ==
    IF c.op = "create" THEN c.before = 0
    ELSE /\ c.before <= schedules[c.id].version
         /\ c.before = schedules[c.id].version =>
              /\ SlotAsRead(c, schedules[c.id])
              /\ schedules[c.id].status # "CANCELLED" => StatusAsRead(c, schedules[c.id])

VersionsTellSlots == \A h \in Handlers : Pending(h) => VersionTellsSlot(call[h])

LEMMA VersionsTellStep == CoreInv /\ StampInv /\ VersionsTellSlots /\ [Next]_vars => VersionsTellSlots'
<1> SUFFICES ASSUME CoreInv, StampInv, VersionsTellSlots, [Next]_vars PROVE VersionsTellSlots'
  OBVIOUS
<1>1. CASE UNCHANGED vars
  BY <1>1 DEF VersionsTellSlots, VersionTellsSlot, SlotAsRead, StatusAsRead, Pending, vars
<1>2. ASSUME NEW h \in Handlers, Begin(h) PROVE VersionsTellSlots'
  <2>1. PICK c \in Call, next \in {"check", "write"} : Accept(h, c, next) /\ TrueOfRow(c)
    BY <1>2, BeginAccepts DEF CoreInv
  <2>2. /\ schedules' = schedules /\ call'[h] = c
        /\ \A g \in Handlers \ {h} : (Pending(g)' <=> Pending(g)) /\ call'[g] = call[g]
    BY <2>1 DEF Accept, CoreInv, TypeOK, Pending
  <2>3. VersionTellsSlot(c)
    BY <2>1 DEF TrueOfRow, Agrees, VersionTellsSlot, SlotAsRead, StatusAsRead, Call
  <2> QED
    BY <2>2, <2>3 DEF VersionsTellSlots, VersionTellsSlot, SlotAsRead, StatusAsRead
<1>3. ASSUME NEW h \in Handlers, Write(h) PROVE VersionsTellSlots'
  <2> DEFINE c == call[h]
             row == RowAfter(c)
  <2> SUFFICES ASSUME NEW g \in Handlers, Pending(g)' PROVE VersionTellsSlot(call[g])'
    BY DEF VersionsTellSlots
  <2>1. /\ g # h /\ Pending(g) /\ Pending(h) /\ call'[g] = call[g] /\ call[g] \in Call
        /\ c \in Call /\ schedules'[c.id] = row
        /\ \A s \in ScheduleIds \ {c.id} : schedules'[s] = schedules[s]
    BY <1>3, WriteReplacesOneRow
  <2>2. VersionTellsSlot(call[g])
    BY <2>1 DEF VersionsTellSlots
  <2>3. CASE call[g].op = "create" \/ call[g].id # c.id
    BY <2>1, <2>2, <2>3 DEF VersionTellsSlot, SlotAsRead, StatusAsRead, Call
  <2>4. CASE call[g].op # "create" /\ call[g].id = c.id
    <3>1. c.op # "create" /\ schedules[c.id].version \in Nat
      BY <1>3, <2>1, <2>4, VersionOfWrite DEF CoreInv, CallsTargetRows
    <3>2. CASE c.op = "cancel"
      <4>1. c.sets = {"status"}
        BY <2>1, <3>2 DEF StampInv, CallsKeepShape, Shape
      <4>2. /\ row.channel = schedules[c.id].channel /\ row.start = schedules[c.id].start
            /\ row.stop = schedules[c.id].stop /\ row.duration = schedules[c.id].duration
            /\ row.version = schedules[c.id].version /\ row.status = "CANCELLED"
        BY <2>1, <3>2, <4>1 DEF StampInv, CallsKeepShape, Shape, RowAfter, UpdatedRow
      <4> QED
        BY <2>1, <2>2, <2>4, <4>2 DEF VersionTellsSlot, SlotAsRead, StatusAsRead
    <3>3. CASE c.op # "cancel"
      <4>1. row.version = schedules[c.id].version + 1
        BY <1>3, <3>1, <3>3, VersionOfWrite
      <4>2. call[g].before \in Nat
        BY <2>1 DEF Call
      <4> QED
        BY <2>1, <2>2, <2>4, <3>1, <4>1, <4>2 DEF VersionTellsSlot
    <3> QED
      BY <3>2, <3>3
  <2> QED
    BY <2>3, <2>4
<1>4. ASSUME NEW h \in Handlers,
             Check(h) \/ Refuse(h) \/ Audit(h) \/ Invalidate(h) \/ Enqueue(h) \/ Fail(h)
      PROVE  VersionsTellSlots'
  <2>1. /\ schedules' = schedules
        /\ \A g \in Handlers : Pending(g)' => Pending(g) /\ call'[g] = call[g]
    BY <1>4 DEF Check, Refuse, Audit, Invalidate, Enqueue, Fail, CoreInv, TypeOK, Pending
  <2> QED
    BY <2>1 DEF VersionsTellSlots, VersionTellsSlot, SlotAsRead, StatusAsRead
<1> QED
  BY <1>1, <1>2, <1>3, <1>4 DEF Next, Proceed

LEMMA VersionsTellHolds == Spec => []VersionsTellSlots
<1>1. Init => VersionsTellSlots
  BY DEF Init, VersionsTellSlots, Pending
<1> QED
  BY <1>1, VersionsTellStep, CoreHolds, StampHolds, PTL DEF Spec

\* A write that finds the version it read stores the slot it validated.
LEMMA MatchingWriteKeepsRows ==
    ASSUME CoreInv, StampInv, VersionsTellSlots, RowsWellFormed,
           NEW h \in Handlers, Write(h), VersionMatches(h)
    PROVE  RowsWellFormed'
<1> DEFINE c == call[h]
           row == RowAfter(c)
<1>1. /\ c \in Call /\ c.id \in ScheduleIds /\ Pending(h) /\ schedules'[c.id] = row
      /\ \A s \in ScheduleIds \ {c.id} : schedules'[s] = schedules[s]
  BY WriteReplacesOneRow DEF Call
<1>2. Shape(c) /\ VersionTellsSlot(c)
  BY <1>1 DEF StampInv, CallsKeepShape, VersionsTellSlots
<1>3. ASSUME c.op = "create" PROVE WellFormed(row)
  BY <1>2, <1>3 DEF Shape, RowAfter, NewRow, WellFormed, ValidRange, ValidDuration,
                    DurationMatchesRange
<1>4. ASSUME c.op \notin {"create", "cancel"} PROVE WellFormed(row)
  <2>1. row.start = c.start /\ row.stop = c.stop /\ row.duration = c.duration
    BY <1>2, <1>4 DEF VersionMatches, VersionTellsSlot, SlotAsRead, RowAfter, UpdatedRow
  <2> QED
    BY <1>2, <1>4, <2>1 DEF Shape, WellFormed, ValidRange, ValidDuration, DurationMatchesRange
<1>5. ASSUME c.op = "cancel" PROVE WellFormed(row)
  <2>1. /\ row.start = schedules[c.id].start /\ row.stop = schedules[c.id].stop
        /\ row.duration = schedules[c.id].duration /\ Exists(c.id)
    BY <1>1, <1>2, <1>5 DEF Shape, RowAfter, UpdatedRow, CoreInv, CallsTargetRows
  <2> QED
    BY <1>1, <2>1 DEF RowsWellFormed, WellFormed, ValidRange, ValidDuration, DurationMatchesRange
<1>6. WellFormed(row)
  BY <1>3, <1>4, <1>5
<1> QED
  BY <1>1, <1>6 DEF RowsWellFormed, Exists

\* Its audit row follows on the one before it.
LEMMA MatchingWriteFollows ==
    ASSUME CoreInv, VersionsTellSlots, NEW h \in Handlers, Write(h), VersionMatches(h)
    PROVE  FollowsIn(call[h].op, call[h].before, RowAfter(call[h]).version)
<1>1. Pending(h)
  BY WriteReplacesOneRow
<1> QED
  BY <1>1, VersionOfWrite DEF VersionsTellSlots, VersionTellsSlot, VersionMatches, FollowsIn

LEMMA TrailFollowsStep ==
    ASSUME CoreInv, AnnouncementsFollow, AuditTrailIsAHistory, [Next]_vars,
           \A h \in Handlers :
             Write(h) => FollowsIn(call[h].op, call[h].before, RowAfter(call[h]).version)
    PROVE  (AnnouncementsFollow /\ AuditTrailIsAHistory)'
<1>1. CASE UNCHANGED vars
  BY <1>1 DEF AnnouncementsFollow, AuditTrailIsAHistory, Announcing, vars
<1>2. ASSUME NEW h \in Handlers, Write(h) PROVE (AnnouncementsFollow /\ AuditTrailIsAHistory)'
  <2>1. AuditTrailIsAHistory'
    BY <1>2, WriteAnnounces DEF AuditTrailIsAHistory
  <2>2. AnnouncementsFollow'
    BY <1>2, WriteAnnounces DEF AnnouncementsFollow, Announcing
  <2> QED
    BY <2>1, <2>2
<1>3. ASSUME NEW h \in Handlers, Audit(h) PROVE (AnnouncementsFollow /\ AuditTrailIsAHistory)'
  <2> DEFINE w == written[h]
             r == [op |-> w.op, id |-> w.id, before |-> w.before, version |-> w.version]
  <2>1. /\ pc[h] = "audit" /\ pc'[h] = "invalidate" /\ audit' = audit \cup {r}
        /\ \A g \in Handlers \ {h} : pc'[g] = pc[g]
        /\ written' = written
    BY <1>3 DEF Audit, CoreInv, TypeOK
  <2>2. FollowsIn(r.op, r.before, r.version)
    BY <2>1 DEF AnnouncementsFollow, Announcing
  <2>3. AuditTrailIsAHistory'
    BY <2>1, <2>2 DEF AuditTrailIsAHistory, FollowsIn
  <2>4. AnnouncementsFollow'
    BY <2>1 DEF AnnouncementsFollow, Announcing
  <2> QED
    BY <2>3, <2>4
<1>4. ASSUME NEW h \in Handlers,
             Begin(h) \/ Check(h) \/ Refuse(h) \/ Invalidate(h) \/ Enqueue(h) \/ Fail(h)
      PROVE  (AnnouncementsFollow /\ AuditTrailIsAHistory)'
  <2>1. /\ audit' = audit
        /\ \A g \in Handlers : Announcing(g)' => Announcing(g) /\ written'[g] = written[g]
    <3>1. CASE Begin(h)
      <4>1. PICK c \in Call, next \in {"check", "write"} : Accept(h, c, next)
        BY <3>1, BeginAccepts DEF CoreInv
      <4> QED
        BY <4>1 DEF Accept, Announcing, CoreInv, TypeOK
    <3> QED
      BY <1>4, <3>1 DEF Check, Refuse, Invalidate, Enqueue, Fail, Announcing, CoreInv, TypeOK
  <2> QED
    BY <2>1 DEF AnnouncementsFollow, AuditTrailIsAHistory
<1> QED
  BY <1>1, <1>2, <1>3, <1>4 DEF Next, Proceed

\* An UPDATE that matched the version would, without any lock, keep rows from
\* being torn and make the trail a history.  It would not keep a cancellation
\* final, for remove leaves the version as it is.
THEOREM SoundWithVersionsChecked ==
    Spec /\ VersionsChecked => [](RowsWellFormed /\ AuditTrailIsAHistory)
<1>1. Init => RowsWellFormed /\ AnnouncementsFollow /\ AuditTrailIsAHistory
  BY SerialInit DEF SerialInv
<1>2. CoreInv /\ StampInv /\ VersionsTellSlots /\ RowsWellFormed /\ AnnouncementsFollow
        /\ AuditTrailIsAHistory /\ [Next]_vars
        /\ [\A h \in Handlers : Write(h) => VersionMatches(h)]_vars
        => (RowsWellFormed /\ AnnouncementsFollow /\ AuditTrailIsAHistory)'
  <2> SUFFICES ASSUME CoreInv, StampInv, VersionsTellSlots, RowsWellFormed, AnnouncementsFollow,
                      AuditTrailIsAHistory, [Next]_vars,
                      [\A h \in Handlers : Write(h) => VersionMatches(h)]_vars
               PROVE  (RowsWellFormed /\ AnnouncementsFollow /\ AuditTrailIsAHistory)'
    OBVIOUS
  <2>1. \A h \in Handlers : Write(h) => VersionMatches(h)
    <3>1. ASSUME NEW h \in Handlers, Write(h) PROVE ~UNCHANGED vars
      BY <3>1, WriteAnnounces DEF Write, vars
    <3> QED
      BY <3>1
  <2>2. schedules' = schedules => RowsWellFormed'
    BY DEF RowsWellFormed, Exists
  <2>3. RowsWellFormed'
    BY <2>1, <2>2, MatchingWriteKeepsRows, OtherStepsStutter DEF Next, vars
  <2>4. (AnnouncementsFollow /\ AuditTrailIsAHistory)'
    BY <2>1, MatchingWriteFollows, TrailFollowsStep
  <2> QED
    BY <2>3, <2>4
<1> QED
  BY <1>1, <1>2, VersionsTellHolds, CoreHolds, StampHolds, PTL DEF Spec, VersionsChecked

\* The rest of the remedy: an UPDATE of a row that has been cancelled is
\* refused, too.
CancelledLeftAlone ==
    [][\A h \in Handlers :
         Write(h) /\ call[h].op \in {"update", "publish"}
           => schedules[call[h].id].status # "CANCELLED"]_vars

\* A write that finds the version it read, and no cancellation, is true.
LEMMA MatchingWriteIsTrue ==
    ASSUME CoreInv, StampInv, VersionsTellSlots, NEW h \in Handlers, Write(h), VersionMatches(h),
           call[h].op \in {"update", "publish"} => schedules[call[h].id].status # "CANCELLED"
    PROVE  TrueOfRow(call[h])
<1> DEFINE c == call[h]
<1>1. Pending(h) /\ c \in Call
  BY WriteReplacesOneRow
<1>2. Shape(c) /\ VersionTellsSlot(c)
  BY <1>1 DEF StampInv, CallsKeepShape, VersionsTellSlots
<1>3. IF c.op = "create" THEN ~Exists(c.id) ELSE Exists(c.id)
  BY <1>1 DEF CoreInv, CallsTargetRows
<1>4. CASE c.op = "create"
  BY <1>2, <1>3, <1>4 DEF TrueOfRow, VersionTellsSlot
<1>5. CASE c.op = "cancel"
  BY <1>2, <1>3, <1>5
     DEF TrueOfRow, VersionTellsSlot, VersionMatches, SlotAsRead, Agrees, Shape
<1>6. CASE c.op \in {"update", "publish"}
  BY <1>2, <1>3, <1>6
     DEF TrueOfRow, VersionTellsSlot, VersionMatches, SlotAsRead, StatusAsRead, Agrees
<1> QED
  BY <1>1, <1>4, <1>5, <1>6 DEF Call, Operations

LEMMA CheckedInDatabaseIsTrue ==
    Spec /\ VersionsChecked /\ CancelledLeftAlone => [][WritesAreTrue]_vars
<1>1. CoreInv /\ StampInv /\ VersionsTellSlots
        /\ [\A h \in Handlers : Write(h) => VersionMatches(h)]_vars
        /\ [\A h \in Handlers :
              Write(h) /\ call[h].op \in {"update", "publish"}
                => schedules[call[h].id].status # "CANCELLED"]_vars
        => [WritesAreTrue]_vars
  BY MatchingWriteIsTrue DEF WritesAreTrue
<1> QED
  BY <1>1, VersionsTellHolds, CoreHolds, StampHolds, PTL
     DEF VersionsChecked, CancelledLeftAlone

\* A write changes something, so that what is said of it is said of its step.
LEMMA TrueOfTheStep ==
    ASSUME CoreInv, [WritesAreTrue]_vars
    PROVE  WritesAreTrue
<1>1. ASSUME NEW h \in Handlers, Write(h) PROVE ~UNCHANGED vars
  BY <1>1, WriteAnnounces DEF Write, vars
<1> QED
  BY <1>1 DEF WritesAreTrue

\* Together the two conditions in the WHERE of an UPDATE keep a cancellation
\* final and leave publication to the publish endpoint, without any lock.
THEOREM SoundWithRowsChecked ==
    Spec /\ VersionsChecked /\ CancelledLeftAlone => CancelledIsFinal /\ PublishedByPublishOnly
<1>1. CoreInv /\ StampInv /\ [Next]_vars /\ [WritesAreTrue]_vars
        => [\A s \in ScheduleIds :
              Exists(s) /\ schedules[s].status = "CANCELLED"
                => schedules'[s].status = "CANCELLED"]_vars
  BY StepKeepsCancelled, TrueOfTheStep
<1>2. CoreInv /\ StampInv /\ [Next]_vars /\ [WritesAreTrue]_vars
        => [\A s \in ScheduleIds :
              /\ ~(Exists(s) /\ schedules[s].status = "PUBLISHED")
              /\ schedules'[s] # Null /\ schedules'[s].status = "PUBLISHED"
              => \E h \in Handlers :
                   pc[h] = "write" /\ call[h].op = "publish" /\ call[h].id = s
                     /\ call'[h] = Null]_vars
  BY StepPublishesByPublish, TrueOfTheStep
<1> QED
  BY <1>1, <1>2, CheckedInDatabaseIsTrue, CoreHolds, StampHolds, PTL
     DEF Spec, CancelledIsFinal, PublishedByPublishOnly

\* No body cancels: that is left to remove.
NoCancellingBodies == \A dto \in UpdateDtos : dto.status # "CANCELLED"

\* What a call writes, if not a cancellation, then goes on air or may do so.
CallsStayLive ==
    \A h \in Handlers : Pending(h) /\ call[h].op # "cancel" => call[h].status # "CANCELLED"

LEMMA LiveStep ==
    ASSUME NoCancellingBodies
    PROVE  CoreInv /\ CallsStayLive /\ [Next]_vars => CallsStayLive'
<1> SUFFICES ASSUME CoreInv, CallsStayLive, [Next]_vars PROVE CallsStayLive'
  OBVIOUS
<1>1. CASE UNCHANGED vars
  BY <1>1 DEF CallsStayLive, Pending, vars
<1>2. ASSUME NEW h \in Handlers, Begin(h) PROVE CallsStayLive'
  <2>1. PICK c \in Call, next \in {"check", "write"} : Accept(h, c, next) /\ Shape(c)
    BY <1>2, BeginAccepts DEF CoreInv
  <2>2. /\ call'[h] = c
        /\ \A g \in Handlers \ {h} : (Pending(g)' <=> Pending(g)) /\ call'[g] = call[g]
    BY <2>1 DEF Accept, CoreInv, TypeOK, Pending
  <2>3. c.op # "cancel" => c.status # "CANCELLED"
    <3>1. CASE BeginUpdate(h)
      <4>1. PICK s \in ScheduleIds, dto \in UpdateDtos :
              /\ StatusTransitionAllowed(schedules[s], dto)
              /\ call'[h].status = OrElse(dto.status, schedules[s].status)
        BY <3>1 DEF BeginUpdate, Accept, CoreInv, TypeOK
      <4> QED
        BY <2>2, <4>1 DEF NoCancellingBodies, OrElse, StatusTransitionAllowed
    <3>2. CASE BeginCreate(h)
      <4>1. call'[h].status = "DRAFT"
        BY <3>2 DEF BeginCreate, Accept, CoreInv, TypeOK
      <4> QED
        BY <2>2, <4>1
    <3>3. CASE BeginPublish(h)
      <4>1. call'[h].status = "PUBLISHED"
        BY <3>3 DEF BeginPublish, Accept, CoreInv, TypeOK
      <4> QED
        BY <2>2, <4>1
    <3>4. CASE BeginCancel(h)
      <4>1. call'[h].op = "cancel"
        BY <3>4 DEF BeginCancel, Accept, CoreInv, TypeOK
      <4> QED
        BY <2>2, <4>1
    <3> QED
      BY <1>2, <3>1, <3>2, <3>3, <3>4 DEF Begin
  <2> QED
    BY <2>2, <2>3 DEF CallsStayLive
<1>3. ASSUME NEW h \in Handlers, Proceed(h) \/ Fail(h) PROVE CallsStayLive'
  <2>1. \A g \in Handlers : Pending(g)' => Pending(g) /\ call'[g] = call[g]
    BY <1>3 DEF Proceed, Check, Refuse, Write, Audit, Invalidate, Enqueue, Fail, CoreInv,
                TypeOK, Pending
  <2> QED
    BY <2>1 DEF CallsStayLive
<1> QED
  BY <1>1, <1>2, <1>3 DEF Next

\* If the table is free of double bookings after a write, what it stores was
\* free when it was stored.
LEMMA ConstraintMeansFree ==
    ASSUME CoreInv, StampInv, CallsStayLive, WritesAreTrue, NoDoubleBooking'
    PROVE  WritesAreFree
<1> SUFFICES ASSUME NEW h \in Handlers, Write(h), call[h].op # "cancel",
                    NEW s \in ScheduleIds \ {call[h].id}, IsLive(s),
                    schedules[s].channel = call[h].channel
             PROVE  ~Overlaps(schedules[s], call[h])
  BY DEF WritesAreFree, NoConflict
<1> DEFINE c == call[h]
           row == RowAfter(c)
<1>1. /\ c \in Call /\ c.id \in ScheduleIds /\ Pending(h) /\ row # Null
      /\ schedules'[c.id] = row /\ schedules'[s] = schedules[s]
  BY WriteReplacesOneRow DEF Call
<1>2. /\ row.status = c.status /\ row.channel = c.channel
      /\ row.start = c.start /\ row.stop = c.stop
  BY WriteStoresItsSlot
<1>3. c.status # "CANCELLED"
  BY <1>1 DEF CallsStayLive
<1>4. ~Overlaps(schedules'[s], row)
  BY <1>1, <1>2, <1>3 DEF NoDoubleBooking, IsLive, Exists
<1> QED
  BY <1>1, <1>2, <1>4 DEF Overlaps

\* With an exclusion constraint on the range besides, which is what keeps
\* NoDoubleBooking whatever the handlers have checked, the service is the
\* atomic timeline: however many calls run into each other, and without locks.
THEOREM TimelineWithConstraints ==
    ASSUME NoCancellingBodies
    PROVE  Spec /\ VersionsChecked /\ CancelledLeftAlone /\ []NoDoubleBooking
             => ImplementsTimeline
<1>1. Init => TimelineSpec!Init
  BY DEF Init, TimelineSpec!Init, SlotOf, Exists
<1>2. Spec => []CallsStayLive
  <2>1. Init => CallsStayLive
    BY DEF Init, CallsStayLive, Pending
  <2>2. CoreInv /\ CallsStayLive /\ [Next]_vars => CallsStayLive'
    BY LiveStep
  <2> QED
    BY <2>1, <2>2, CoreHolds, PTL DEF Spec
<1>3. CoreInv /\ StampInv /\ CallsStayLive /\ [WritesAreTrue]_vars /\ NoDoubleBooking'
        /\ [Next]_vars
        => [TimelineSpec!Next]_[s \in ScheduleIds |-> SlotOf(s)]
  BY StepsImplementTimeline, ConstraintMeansFree, TrueOfTheStep DEF Slots
<1> QED
  BY <1>1, <1>2, <1>3, CheckedInDatabaseIsTrue, CoreHolds, StampHolds, PTL
     DEF Spec, ImplementsTimeline, TimelineSpec!Spec
=============================================================================
