--------------------------- MODULE Importer_proofs ---------------------------
(***************************************************************************)
(* What holds of imports next to the writing endpoints, for every set of   *)
(* files, handlers, schedules and channels; and what holds of them when    *)
(* the requests of one row or one channel are kept apart.                  *)
(*                                                                         *)
(* Every step of an import but two leaves the table and the audit trail as *)
(* they are, and every step of the schedules controller is one of          *)
(* ScheduleService: for those the step lemmas of ScheduleService_proofs    *)
(* are cited as they stand.  What is left to show is what the INSERT of an *)
(* import and its audit row do to each invariant.                          *)
(***************************************************************************)
EXTENDS Importer, ScheduleService_proofs

-----------------------------------------------------------------------------
(* From a file to candidates.                                              *)

\* Whatever format a programme comes in, what reaches the table has a start
\* before its stop: XmltvParser does not compare the two, but its duration is
\* then not positive, and ScheduleImportCandidateDto refuses it.
LEMMA CandidateIsInRange ==
    ASSUME NEW file \in Files, Previewable(file), NEW c \in Candidates(file),
           Submittable(c), EndsInTime(c)
    PROVE  c \in Candidate /\ ValidRange(c)
<1>1. PICK i \in DOMAIN file.rows :
        ChannelOf[file.rows[i].epgId] # Null /\ c = ToCandidate(file, i)
  BY DEF Candidates
<1> DEFINE row == file.rows[i]
<1>2. file.source \in Formats /\ i \in Nat /\ row \in FileRow
  BY FilesAssumption DEF File
<1>3. /\ row.start \in Nat /\ row.start <= Horizon
      /\ row.stop # Null => row.stop \in Nat /\ row.stop <= Horizon
      /\ row.duration # Null => row.duration \in Nat /\ 1 <= row.duration /\ row.duration <= Horizon
      /\ ChannelOf[row.epgId] \in Channels /\ row.title \in Titles
  BY <1>1, <1>2, ChannelOfAssumption, BoundsAssumption DEF FileRow, Times, Durations
<1>4. /\ c.at = i /\ c.channel = ChannelOf[row.epgId] /\ c.title = row.title
      /\ c.start = row.start
      /\ c.stop = OrElse(row.stop, row.start + row.duration)
      /\ c.duration = OrElse(row.duration, c.stop - row.start)
      /\ c = [at |-> c.at, channel |-> c.channel, title |-> c.title, start |-> c.start,
              stop |-> c.stop, duration |-> c.duration]
  BY <1>1 DEF ToCandidate
<1>5. Accepts(file.source, row)
  BY DEF Previewable
<1>6. /\ row.stop # Null \/ row.duration # Null
      /\ row.stop # Null /\ row.duration # Null => row.start < row.stop
  BY <1>2, <1>5 DEF Accepts, CsvAccepts, ExternalApiAccepts, XmltvAccepts, Formats
<1>7. c.duration > 0 /\ c.stop <= Horizon
  BY DEF Submittable, EndsInTime
<1>8. c.stop \in Nat /\ c.start < c.stop /\ c.duration \in 1 .. Horizon
  <2>1. CASE row.stop # Null /\ row.duration # Null
    BY <1>3, <1>4, <1>6, <2>1, BoundsAssumption DEF OrElse
  <2>2. CASE row.stop # Null /\ row.duration = Null
    BY <1>3, <1>4, <1>7, <2>2, BoundsAssumption DEF OrElse
  <2>3. CASE row.stop = Null /\ row.duration # Null
    BY <1>3, <1>4, <2>3, BoundsAssumption DEF OrElse
  <2> QED
    BY <1>6, <2>1, <2>2, <2>3
<1> QED
  BY <1>2, <1>3, <1>4, <1>7, <1>8, BoundsAssumption DEF Candidate, ValidRange, Times, Durations

-----------------------------------------------------------------------------
(* The steps of an import.                                                 *)

\* What is always so of the imports in progress.
BatchSound(h) ==
    LET b == batch[h] IN b # Null =>
        /\ pc[h] = "idle"
        /\ b.looked \subseteq b.candidates
        /\ b.created \subseteq b.candidates
        /\ b.created # {} => AllLooked(b)
        /\ \A c \in b.candidates : ValidRange(c)
        /\ b.unaudited # Null => Exists(b.unaudited)

BatchesSound == \A h \in Handlers : BatchSound(h)

BatchTypeOK == batch \in [Handlers -> Batch \cup {Null}]

ImportInv == CoreInv /\ BatchTypeOK /\ BatchesSound

\* A new import holds the candidates of one file, and nothing has happened.
LEMMA ImportBegins ==
    ASSUME BatchTypeOK, NEW h \in Handlers, BeginImport(h)
    PROVE  \E file \in Files, b \in Batch :
             /\ Previewable(file)
             /\ b.candidates = Candidates(file)
             /\ b.looked = {} /\ b.conflicts = {} /\ b.created = {} /\ b.unaudited = Null
             /\ \A c \in b.candidates : ValidRange(c)
             /\ pc[h] = "idle" /\ batch'[h] = b
             /\ \A g \in Handlers \ {h} : batch'[g] = batch[g]
             /\ BatchTypeOK'
             /\ UNCHANGED vars
<1>1. PICK file \in Files :
        /\ Previewable(file)
        /\ \A c \in Candidates(file) : Submittable(c) /\ EndsInTime(c)
        /\ batch' = [batch EXCEPT ![h] =
             [candidates |-> Candidates(file), looked |-> {}, conflicts |-> {},
              created |-> {}, unaudited |-> Null]]
  BY DEF BeginImport
<1> DEFINE b == [candidates |-> Candidates(file), looked |-> {}, conflicts |-> {},
                 created |-> {}, unaudited |-> Null]
<1>2. \A c \in Candidates(file) : c \in Candidate /\ ValidRange(c)
  BY <1>1, CandidateIsInRange
<1>3. b \in Batch
  BY <1>2 DEF Batch
<1>4. batch'[h] = b /\ \A g \in Handlers \ {h} : batch'[g] = batch[g]
  BY <1>1 DEF BatchTypeOK
<1>5. BatchTypeOK'
  BY <1>1, <1>3 DEF BatchTypeOK
<1>6. pc[h] = "idle" /\ UNCHANGED vars
  BY DEF BeginImport
<1> QED
  BY <1>1, <1>2, <1>3, <1>4, <1>5, <1>6

\* A lookup adds one candidate, and its key if it is in conflict.
LEMMA LookUpAdds ==
    ASSUME BatchTypeOK, NEW h \in Handlers, LookUp(h)
    PROVE  \E c \in batch[h].candidates \ batch[h].looked :
             /\ batch[h] \in Batch /\ batch'[h] \in Batch /\ c \in Candidate
             /\ batch'[h].candidates = batch[h].candidates
             /\ batch'[h].looked = batch[h].looked \cup {c}
             /\ batch'[h].conflicts =
                  IF ConflictsWithTable(c) THEN batch[h].conflicts \cup {Key(c)}
                  ELSE batch[h].conflicts
             /\ batch'[h].created = batch[h].created
             /\ batch'[h].unaudited = batch[h].unaudited
             /\ \A g \in Handlers \ {h} : batch'[g] = batch[g]
             /\ BatchTypeOK'
             /\ UNCHANGED vars
<1> DEFINE b == batch[h]
<1>1. b \in Batch
  BY DEF LookUp, BatchTypeOK
<1>2. PICK c \in b.candidates \ b.looked :
        batch' = [batch EXCEPT
          ![h].looked = @ \cup {c},
          ![h].conflicts = IF ConflictsWithTable(c) THEN @ \cup {Key(c)} ELSE @]
  BY DEF LookUp
<1>3. c \in Candidate /\ Key(c) \in Keys
  BY <1>1, <1>2 DEF Batch, Candidate, Key, Keys
<1> DEFINE d == [b EXCEPT !.looked = @ \cup {c},
                          !.conflicts = IF ConflictsWithTable(c) THEN @ \cup {Key(c)} ELSE @]
<1>4. batch' = [batch EXCEPT ![h] = d]
  BY <1>2
<1>5. d \in Batch
  BY <1>1, <1>3 DEF Batch
<1>6. /\ d.candidates = b.candidates /\ d.looked = b.looked \cup {c}
      /\ d.conflicts = IF ConflictsWithTable(c) THEN b.conflicts \cup {Key(c)} ELSE b.conflicts
      /\ d.created = b.created /\ d.unaudited = b.unaudited
  BY <1>1 DEF Batch
<1>7. batch'[h] = d /\ \A g \in Handlers \ {h} : batch'[g] = batch[g]
  BY <1>4 DEF BatchTypeOK
<1>8. BatchTypeOK'
  BY <1>4, <1>5 DEF BatchTypeOK
<1>9. UNCHANGED vars
  BY DEF LookUp
<1> HIDE DEF d
<1> QED
  BY <1>1, <1>3, <1>5, <1>6, <1>7, <1>8, <1>9

\* The INSERT puts a draft under a uuid that nobody has.
LEMMA CreateInserts ==
    ASSUME CoreInv, BatchTypeOK, NEW h \in Handlers, CreateImported(h)
    PROVE  \E c \in ToCreate(batch[h]), s \in ScheduleIds :
             /\ batch[h] \in Batch /\ batch'[h] \in Batch /\ c \in Candidate
             /\ AllLooked(batch[h]) /\ batch[h].unaudited = Null
             /\ FreshId(s)
             /\ NewRow(c) \in Row /\ NewRow(c) # Null
             /\ schedules' = [schedules EXCEPT ![s] = NewRow(c)]
             /\ schedules'[s] = NewRow(c)
             /\ \A t \in ScheduleIds \ {s} : schedules'[t] = schedules[t]
             /\ batch'[h].candidates = batch[h].candidates
             /\ batch'[h].looked = batch[h].looked
             /\ batch'[h].conflicts = batch[h].conflicts
             /\ batch'[h].created = batch[h].created \cup {c}
             /\ batch'[h].unaudited = s
             /\ \A g \in Handlers \ {h} : batch'[g] = batch[g]
             /\ BatchTypeOK'
             /\ UNCHANGED <<audit, pc, call, written>>
<1> DEFINE b == batch[h]
<1>1. b \in Batch /\ AllLooked(b) /\ b.unaudited = Null
  BY DEF CreateImported, BatchTypeOK
<1>2. PICK c \in ToCreate(b), s \in ScheduleIds :
        /\ FreshId(s)
        /\ schedules' = [schedules EXCEPT ![s] = NewRow(c)]
        /\ batch' = [batch EXCEPT ![h].created = @ \cup {c}, ![h].unaudited = s]
  BY DEF CreateImported
<1>3. c \in Candidate
  BY <1>1, <1>2 DEF ToCreate, Batch
<1>4. NewRow(c) \in Row
  BY <1>3 DEF NewRow, Row, Candidate, Statuses
<1> DEFINE d == [b EXCEPT !.created = @ \cup {c}, !.unaudited = s]
<1>5. batch' = [batch EXCEPT ![h] = d]
  BY <1>2
<1>6. d \in Batch
  BY <1>1, <1>2, <1>3 DEF Batch
<1>7. /\ d.candidates = b.candidates /\ d.looked = b.looked /\ d.conflicts = b.conflicts
      /\ d.created = b.created \cup {c} /\ d.unaudited = s
  BY <1>1 DEF Batch
<1>8. batch'[h] = d /\ \A g \in Handlers \ {h} : batch'[g] = batch[g]
  BY <1>5 DEF BatchTypeOK
<1>9. BatchTypeOK'
  BY <1>5, <1>6 DEF BatchTypeOK
<1>10. schedules'[s] = NewRow(c) /\ \A t \in ScheduleIds \ {s} : schedules'[t] = schedules[t]
  BY <1>2 DEF CoreInv, TypeOK
<1>11. UNCHANGED <<audit, pc, call, written>>
  BY DEF CreateImported
<1> HIDE DEF d
<1> QED
  BY <1>1, <1>2, <1>3, <1>4, <1>6, <1>7, <1>8, <1>9, <1>10, <1>11, NullAssumption

\* The audit row of an import is that of a first version.
LEMMA AuditInserts ==
    ASSUME BatchTypeOK, NEW h \in Handlers, AuditImported(h)
    PROVE  /\ batch[h] \in Batch /\ batch'[h] \in Batch
           /\ batch[h].unaudited \in ScheduleIds /\ batch[h].unaudited # Null
           /\ audit' = audit \cup
                {[op |-> "import", id |-> batch[h].unaudited, before |-> 0, version |-> 1]}
           /\ batch'[h].candidates = batch[h].candidates
           /\ batch'[h].looked = batch[h].looked
           /\ batch'[h].conflicts = batch[h].conflicts
           /\ batch'[h].created = batch[h].created
           /\ batch'[h].unaudited = Null
           /\ \A g \in Handlers \ {h} : batch'[g] = batch[g]
           /\ BatchTypeOK'
           /\ UNCHANGED <<schedules, pc, call, written>>
<1> DEFINE b == batch[h]
           d == [b EXCEPT !.unaudited = Null]
<1>1. b \in Batch /\ b.unaudited # Null
  BY DEF AuditImported, BatchTypeOK
<1>2. batch' = [batch EXCEPT ![h] = d]
  BY DEF AuditImported
<1>3. d \in Batch
  BY <1>1 DEF Batch
<1>4. /\ d.candidates = b.candidates /\ d.looked = b.looked /\ d.conflicts = b.conflicts
      /\ d.created = b.created /\ d.unaudited = Null /\ b.unaudited \in ScheduleIds
  BY <1>1 DEF Batch
<1>5. batch'[h] = d /\ \A g \in Handlers \ {h} : batch'[g] = batch[g]
  BY <1>2 DEF BatchTypeOK
<1>6. BatchTypeOK'
  BY <1>2, <1>3 DEF BatchTypeOK
<1>7. /\ audit' = audit \cup
           {[op |-> "import", id |-> b.unaudited, before |-> 0, version |-> 1]}
      /\ UNCHANGED <<schedules, pc, call, written>>
  BY DEF AuditImported
<1> HIDE DEF d
<1> QED
  BY <1>1, <1>3, <1>4, <1>5, <1>6, <1>7

\* An import ends, or dies.
LEMMA ImportEnds ==
    ASSUME BatchTypeOK, NEW h \in Handlers, FinishImport(h) \/ FailImport(h)
    PROVE  /\ batch'[h] = Null
           /\ \A g \in Handlers \ {h} : batch'[g] = batch[g]
           /\ BatchTypeOK'
           /\ UNCHANGED vars
  BY DEF FinishImport, FailImport, BatchTypeOK

\* The kinds of steps: those that the lemmas on ScheduleService speak about,
\* and the two that write for an import.
LEMMA KindsOfSteps ==
    ASSUME [ImportNext]_importVars
    PROVE  \/ [Next]_vars
           \/ \E h \in Handlers : CreateImported(h) \/ AuditImported(h)
  BY DEF ImportNext, Import, ServeSchedules, Next, importVars, BeginImport, LookUp,
         FinishImport, FailImport

-----------------------------------------------------------------------------
(* Types.                                                                  *)

\* Nobody is busy with a uuid that an INSERT draws.
LEMMA FreshIsNobodys ==
    ASSUME CoreInv, NEW s \in ScheduleIds, FreshId(s)
    PROVE  ~Exists(s) /\ \A g \in Handlers : Pending(g) => call[g].id # s
  BY DEF CoreInv, TypeOK, Pending, FreshId

\* The step of a handler leaves the other handlers alone.
LEMMA ServedAlone ==
    ASSUME CoreInv, NEW h \in Handlers, Begin(h) \/ Proceed(h) \/ Fail(h)
    PROVE  \A g \in Handlers \ {h} :
             pc'[g] = pc[g] /\ call'[g] = call[g] /\ written'[g] = written[g]
<1>1. CASE Begin(h)
  <2>1. PICK c \in Call, next \in {"check", "write"} : Accept(h, c, next)
    BY <1>1, BeginAccepts DEF CoreInv
  <2> QED
    BY <2>1 DEF Accept, CoreInv, TypeOK
<1>2. CASE Write(h)
  BY <1>2 DEF Write, CoreInv, TypeOK
<1>3. CASE Check(h) \/ Refuse(h) \/ Audit(h) \/ Invalidate(h) \/ Enqueue(h) \/ Fail(h)
  BY <1>3 DEF Check, Refuse, Audit, Invalidate, Enqueue, Fail, CoreInv, TypeOK
<1> QED
  BY <1>1, <1>2, <1>3 DEF Proceed

\* No row is ever deleted.
LEMMA RowsStay ==
    ASSUME CoreInv, [Next]_vars, NEW s \in ScheduleIds, Exists(s)
    PROVE  Exists(s)'
<1>1. ASSUME NEW h \in Handlers, Write(h) PROVE Exists(s)'
  BY <1>1, WriteReplacesOneRow DEF Exists
<1> QED
  BY <1>1, OtherStepsStutter DEF Next, Exists, vars

LEMMA CreateKeepsCore ==
    ASSUME CoreInv, BatchTypeOK, NEW h \in Handlers, CreateImported(h)
    PROVE  CoreInv'
<1>1. PICK c \in ToCreate(batch[h]), s \in ScheduleIds :
        /\ FreshId(s) /\ NewRow(c) \in Row
        /\ schedules' = [schedules EXCEPT ![s] = NewRow(c)]
        /\ \A t \in ScheduleIds \ {s} : schedules'[t] = schedules[t]
        /\ UNCHANGED <<audit, pc, call, written>>
  BY CreateInserts
<1>2. TypeOK'
  BY <1>1 DEF CoreInv, TypeOK
<1>3. \A g \in Handlers : Pending(g) =>
        call[g].id \in ScheduleIds /\ schedules'[call[g].id] = schedules[call[g].id]
  BY <1>1, FreshIsNobodys DEF CoreInv, TypeOK, Pending, Call
<1>4. CallsTargetRows' /\ CreatesAreApart'
  BY <1>1, <1>3 DEF CoreInv, CallsTargetRows, CreatesAreApart, Pending, Exists
<1> QED
  BY <1>2, <1>4 DEF CoreInv

LEMMA AuditImportedKeepsCore ==
    ASSUME CoreInv, BatchTypeOK, NEW h \in Handlers, AuditImported(h)
    PROVE  CoreInv'
<1>1. /\ batch[h].unaudited \in ScheduleIds
      /\ audit' = audit \cup
           {[op |-> "import", id |-> batch[h].unaudited, before |-> 0, version |-> 1]}
      /\ UNCHANGED <<schedules, pc, call, written>>
  BY AuditInserts
<1>2. [op |-> "import", id |-> batch[h].unaudited, before |-> 0, version |-> 1] \in AuditRow
  BY <1>1 DEF AuditRow
<1>3. TypeOK'
  BY <1>1, <1>2 DEF CoreInv, TypeOK
<1> QED
  BY <1>1, <1>3 DEF CoreInv, CallsTargetRows, CreatesAreApart, Pending, Exists

\* A step of an import keeps what is so of the imports.
LEMMA ImportKeepsBatches ==
    ASSUME ImportInv, NEW h \in Handlers, Import(h)
    PROVE  BatchTypeOK' /\ BatchesSound'
<1>1. CASE BeginImport(h)
  <2>1. PICK b \in Batch :
          /\ b.looked = {} /\ b.created = {} /\ b.unaudited = Null
          /\ \A c \in b.candidates : ValidRange(c)
          /\ pc[h] = "idle" /\ batch'[h] = b
          /\ \A g \in Handlers \ {h} : batch'[g] = batch[g]
          /\ BatchTypeOK' /\ UNCHANGED vars
    BY <1>1, ImportBegins DEF ImportInv
  <2> QED
    BY <2>1 DEF ImportInv, BatchesSound, BatchSound, AllLooked, Exists, vars
<1>2. CASE LookUp(h)
  <2>1. PICK c \in batch[h].candidates \ batch[h].looked :
          /\ batch'[h].candidates = batch[h].candidates
          /\ batch'[h].looked = batch[h].looked \cup {c}
          /\ batch'[h].created = batch[h].created
          /\ batch'[h].unaudited = batch[h].unaudited
          /\ \A g \in Handlers \ {h} : batch'[g] = batch[g]
          /\ BatchTypeOK' /\ UNCHANGED vars
    BY <1>2, LookUpAdds DEF ImportInv
  <2>2. batch[h] # Null
    BY <1>2 DEF LookUp
  <2>3. BatchSound(h)'
    BY <2>1, <2>2 DEF ImportInv, BatchesSound, BatchSound, AllLooked, Exists, vars
  <2>4. \A g \in Handlers \ {h} : BatchSound(g)'
    BY <2>1 DEF ImportInv, BatchesSound, BatchSound, AllLooked, Exists, vars
  <2> QED
    BY <2>1, <2>3, <2>4 DEF BatchesSound
<1>3. CASE CreateImported(h)
  <2>1. PICK c \in ToCreate(batch[h]), s \in ScheduleIds :
          /\ AllLooked(batch[h])
          /\ schedules'[s] = NewRow(c) /\ NewRow(c) # Null
          /\ \A t \in ScheduleIds \ {s} : schedules'[t] = schedules[t]
          /\ batch'[h].candidates = batch[h].candidates
          /\ batch'[h].looked = batch[h].looked
          /\ batch'[h].created = batch[h].created \cup {c}
          /\ batch'[h].unaudited = s
          /\ \A g \in Handlers \ {h} : batch'[g] = batch[g]
          /\ BatchTypeOK' /\ UNCHANGED <<audit, pc, call, written>>
    BY <1>3, CreateInserts DEF ImportInv
  <2>2. batch[h] # Null /\ c \in batch[h].candidates
    BY <1>3 DEF CreateImported, ToCreate
  <2>3. BatchSound(h)'
    BY <2>1, <2>2 DEF ImportInv, BatchesSound, BatchSound, AllLooked, Exists
  <2>4. ASSUME NEW g \in Handlers \ {h} PROVE BatchSound(g)'
    <3>1. BatchSound(g) /\ batch'[g] = batch[g] /\ pc' = pc
      BY <2>1 DEF ImportInv, BatchesSound
    <3>2. batch[g] # Null => batch[g].unaudited \in ScheduleIds \cup {Null}
      BY DEF ImportInv, BatchTypeOK, Batch
    <3> QED
      BY <2>1, <3>1, <3>2 DEF BatchSound, AllLooked, Exists
  <2> QED
    BY <2>1, <2>3, <2>4 DEF BatchesSound
<1>4. CASE AuditImported(h)
  <2>1. /\ batch'[h].candidates = batch[h].candidates
        /\ batch'[h].looked = batch[h].looked
        /\ batch'[h].created = batch[h].created
        /\ batch'[h].unaudited = Null
        /\ \A g \in Handlers \ {h} : batch'[g] = batch[g]
        /\ BatchTypeOK' /\ UNCHANGED <<schedules, pc, call, written>>
    BY <1>4, AuditInserts DEF ImportInv
  <2>2. batch[h] # Null
    BY <1>4 DEF AuditImported
  <2>3. BatchSound(h)'
    BY <2>1, <2>2 DEF ImportInv, BatchesSound, BatchSound, AllLooked
  <2>4. \A g \in Handlers \ {h} : BatchSound(g)'
    BY <2>1 DEF ImportInv, BatchesSound, BatchSound, AllLooked, Exists
  <2> QED
    BY <2>1, <2>3, <2>4 DEF BatchesSound
<1>5. CASE FinishImport(h) \/ FailImport(h)
  <2>1. /\ batch'[h] = Null /\ \A g \in Handlers \ {h} : batch'[g] = batch[g]
        /\ BatchTypeOK' /\ UNCHANGED vars
    BY <1>5, ImportEnds DEF ImportInv
  <2> QED
    BY <2>1 DEF ImportInv, BatchesSound, BatchSound, AllLooked, Exists, vars
<1> QED
  BY <1>1, <1>2, <1>3, <1>4, <1>5 DEF Import

\* A step of the schedules controller disturbs no import.
LEMMA ServiceKeepsBatches ==
    ASSUME ImportInv, NEW h \in Handlers, ServeSchedules(h)
    PROVE  BatchTypeOK' /\ BatchesSound'
<1>1. batch[h] = Null /\ batch' = batch /\ (Begin(h) \/ Proceed(h) \/ Fail(h)) /\ [Next]_vars
  BY DEF ServeSchedules, Next
<1>2. BatchTypeOK'
  BY <1>1 DEF ImportInv, BatchTypeOK
<1>3. ASSUME NEW g \in Handlers, batch[g] # Null PROVE BatchSound(g)'
  <2>1. BatchSound(g) /\ pc'[g] = pc[g]
    BY <1>1, <1>3, ServedAlone DEF ImportInv, BatchesSound
  <2>2. batch[g].unaudited \in ScheduleIds \cup {Null}
    BY <1>3 DEF ImportInv, BatchTypeOK, Batch
  <2>3. batch[g].unaudited # Null => Exists(batch[g].unaudited)'
    BY <1>1, <1>3, <2>1, <2>2, RowsStay DEF ImportInv, BatchSound
  <2> QED
    BY <1>1, <1>3, <2>1, <2>3 DEF BatchSound, AllLooked, Exists
<1> QED
  BY <1>1, <1>2, <1>3 DEF BatchesSound, BatchSound

LEMMA ImportInvInit == ImportInit => ImportInv
  BY CoreInit DEF ImportInit, ImportInv, BatchTypeOK, BatchesSound, BatchSound

LEMMA ImportInvStep == ImportInv /\ [ImportNext]_importVars => ImportInv'
<1> SUFFICES ASSUME ImportInv, [ImportNext]_importVars PROVE ImportInv'
  OBVIOUS
<1>1. CoreInv'
  BY KindsOfSteps, CoreStep, CreateKeepsCore, AuditImportedKeepsCore DEF ImportInv
<1>2. CASE UNCHANGED importVars
  BY <1>1, <1>2 DEF ImportInv, BatchTypeOK, BatchesSound, BatchSound, AllLooked, Exists,
                    importVars, vars
<1>3. CASE ImportNext
  BY <1>1, <1>3, ImportKeepsBatches, ServiceKeepsBatches DEF ImportNext, ImportInv
<1> QED
  BY <1>2, <1>3

LEMMA ImportInvHolds == ImportSpec => []ImportInv
  BY ImportInvInit, ImportInvStep, PTL DEF ImportSpec

\* Whatever files are sent, by however many clients at a time and mixed with
\* edits, every row of the table is a row the endpoints could have written: a
\* channel, a slot of the day with a positive duration, a version.
THEOREM ImportTypeCorrect == ImportSpec => []ImportTypeOK
  BY ImportInvHolds, PTL DEF ImportInv, CoreInv, BatchTypeOK, ImportTypeOK

-----------------------------------------------------------------------------
(* The audit trail and the publication stamp.                              *)

\* The row an import has yet to audit has no audit row of its first version,
\* and nobody else is about to insert one.
ImportedIsNew(h) ==
    LET u == batch[h].unaudited IN batch[h] # Null /\ u # Null =>
        /\ \A a \in audit : a.id = u /\ a.version = 1 => a.op = "cancel"
        /\ \A g \in Handlers : Unaudited(g) /\ written[g].id = u => written[g].version # 1
        /\ \A g \in Handlers \ {h} : batch[g] # Null => batch[g].unaudited # u

ImportTrailInv == TrailInv /\ \A h \in Handlers : ImportedIsNew(h)

\* Nothing is known of a uuid before it is drawn.
LEMMA FreshHasNoTrail ==
    ASSUME CoreInv, TrailInv, BatchesSound, NEW s \in ScheduleIds, ~Exists(s)
    PROVE  /\ \A a \in audit : a.id # s
           /\ \A g \in Handlers : Announcing(g) => written[g].id # s
           /\ \A g \in Handlers : batch[g] # Null /\ batch[g].unaudited # Null
                                    => batch[g].unaudited # s
  BY DEF TrailInv, AuditedWritesHappened, AnnouncedWritesHappened, BatchesSound, BatchSound, Exists

LEMMA CreateKeepsTrail ==
    ASSUME ImportInv, ImportTrailInv, NEW h \in Handlers, CreateImported(h)
    PROVE  ImportTrailInv'
<1>1. PICK c \in ToCreate(batch[h]), s \in ScheduleIds :
        /\ batch[h].unaudited = Null /\ FreshId(s) /\ NewRow(c) # Null
        /\ schedules'[s] = NewRow(c)
        /\ \A t \in ScheduleIds \ {s} : schedules'[t] = schedules[t]
        /\ batch'[h].unaudited = s
        /\ \A g \in Handlers \ {h} : batch'[g] = batch[g]
        /\ UNCHANGED <<audit, pc, call, written>>
  BY CreateInserts DEF ImportInv
<1>2. /\ \A a \in audit : a.id # s
      /\ \A g \in Handlers : Announcing(g) => written[g].id # s
      /\ \A g \in Handlers : batch[g] # Null /\ batch[g].unaudited # Null
                               => batch[g].unaudited # s
  BY <1>1, FreshHasNoTrail, FreshIsNobodys DEF ImportInv, ImportTrailInv
<1>3. audit \subseteq AuditRow /\ \A g \in Handlers : Announcing(g) => written[g] \in Written
  BY DEF ImportInv, CoreInv, TypeOK, Announcing
<1>4. \A g \in Handlers : /\ Announcing(g)' <=> Announcing(g)
                          /\ Unaudited(g)' <=> Unaudited(g)
                          /\ Unaudited(g) => Announcing(g)
  BY <1>1 DEF Announcing, Unaudited
<1>5. AuditedWritesHappened'
  BY <1>1, <1>2, <1>3 DEF ImportTrailInv, TrailInv, AuditedWritesHappened, Exists, AuditRow
<1>6. AnnouncedWritesHappened'
  BY <1>1, <1>2, <1>3, <1>4
     DEF ImportTrailInv, TrailInv, AnnouncedWritesHappened, Exists, Written
<1>7. OneAuditRowPerVersion' /\ UnauditedVersionsAreNew'
  BY <1>1, <1>4 DEF ImportTrailInv, TrailInv, OneAuditRowPerVersion, UnauditedVersionsAreNew
<1>8. ImportedIsNew(h)'
  BY <1>1, <1>2, <1>4 DEF ImportedIsNew
<1>9. ASSUME NEW g \in Handlers \ {h} PROVE ImportedIsNew(g)'
  <2>1. ImportedIsNew(g) /\ batch'[g] = batch[g]
    BY <1>1 DEF ImportTrailInv
  <2>2. batch[g] # Null /\ batch[g].unaudited # Null => batch[g].unaudited # s
    BY <1>2
  <2> QED
    BY <1>1, <1>4, <2>1, <2>2 DEF ImportedIsNew
<1> QED
  BY <1>5, <1>6, <1>7, <1>8, <1>9 DEF ImportTrailInv, TrailInv

LEMMA AuditImportedKeepsTrail ==
    ASSUME ImportInv, ImportTrailInv, NEW h \in Handlers, AuditImported(h)
    PROVE  ImportTrailInv'
<1> DEFINE u == batch[h].unaudited
           r == [op |-> "import", id |-> u, before |-> 0, version |-> 1]
<1>1. /\ u \in ScheduleIds /\ u # Null
      /\ audit' = audit \cup {r}
      /\ batch'[h].unaudited = Null
      /\ \A g \in Handlers \ {h} : batch'[g] = batch[g]
      /\ UNCHANGED <<schedules, pc, call, written>>
  BY AuditInserts DEF ImportInv
<1>2. batch[h] # Null /\ ImportedIsNew(h)
  BY DEF AuditImported, ImportTrailInv
<1>3. Exists(u) /\ 1 <= schedules[u].version
  <2>1. Exists(u)
    BY <1>1, <1>2 DEF ImportInv, BatchesSound, BatchSound
  <2>2. schedules[u] \in Row
    BY <1>1, <2>1 DEF ImportInv, CoreInv, TypeOK, Exists
  <2> QED
    BY <2>1, <2>2 DEF Row
<1>4. AuditedWritesHappened'
  BY <1>1, <1>3 DEF ImportTrailInv, TrailInv, AuditedWritesHappened, Exists
<1>5. AnnouncedWritesHappened'
  BY <1>1 DEF ImportTrailInv, TrailInv, AnnouncedWritesHappened, Announcing, Exists
<1>6. UnauditedVersionsAreNew'
  <2>1. \A g \in Handlers : Unaudited(g) => ~(r.id = written[g].id /\ r.version = written[g].version)
    BY <1>1, <1>2 DEF ImportedIsNew
  <2> QED
    BY <1>1, <2>1 DEF ImportTrailInv, TrailInv, UnauditedVersionsAreNew, Unaudited
<1>7. OneAuditRowPerVersion'
  <2>1. \A a \in audit : a.id = r.id /\ a.version = r.version => a.op = "cancel"
    BY <1>1, <1>2 DEF ImportedIsNew
  <2> QED
    BY <1>1, <2>1 DEF ImportTrailInv, TrailInv, OneAuditRowPerVersion
<1>8. ImportedIsNew(h)'
  BY <1>1 DEF ImportedIsNew
<1>9. ASSUME NEW g \in Handlers \ {h} PROVE ImportedIsNew(g)'
  <2>1. ImportedIsNew(g) /\ batch'[g] = batch[g]
    BY <1>1 DEF ImportTrailInv
  <2>2. batch[g] # Null => batch[g].unaudited # u
    BY <1>1, <1>2 DEF ImportedIsNew
  <2>3. \A f \in Handlers : batch'[f] # Null /\ batch'[f].unaudited # Null
          => batch[f] # Null /\ batch'[f].unaudited = batch[f].unaudited
    BY <1>1, <1>2
  <2> QED
    BY <1>1, <2>1, <2>2, <2>3 DEF ImportedIsNew, Unaudited
<1> QED
  BY <1>4, <1>5, <1>6, <1>7, <1>8, <1>9 DEF ImportTrailInv, TrailInv

\* Nobody but the import that created a row audits its first version.
LEMMA ServiceKeepsImportedNew ==
    ASSUME ImportInv, ImportTrailInv, NEW f \in Handlers, ServeSchedules(f), NEW h \in Handlers
    PROVE  ImportedIsNew(h)'
<1> DEFINE u == batch[h].unaudited
<1>1. batch' = batch /\ (Begin(f) \/ Proceed(f) \/ Fail(f))
  BY DEF ServeSchedules
<1> SUFFICES ASSUME batch[h] # Null, u # Null
             PROVE  /\ \A a \in audit' : a.id = u /\ a.version = 1 => a.op = "cancel"
                    /\ \A g \in Handlers : Unaudited(g)' /\ written'[g].id = u
                                             => written'[g].version # 1
  BY <1>1 DEF ImportTrailInv, ImportedIsNew
<1>2. /\ \A a \in audit : a.id = u /\ a.version = 1 => a.op = "cancel"
      /\ \A g \in Handlers : Unaudited(g) /\ written[g].id = u => written[g].version # 1
  BY DEF ImportTrailInv, ImportedIsNew
<1>3. Exists(u)
  BY DEF ImportInv, BatchesSound, BatchSound
<1>4. CASE Write(f)
  <2>1. /\ audit' = audit
        /\ written'[f].op = call[f].op /\ written'[f].id = call[f].id
        /\ written'[f].version = RowAfter(call[f]).version
        /\ \A g \in Handlers \ {f} : pc'[g] = pc[g] /\ written'[g] = written[g]
    BY <1>4, WriteAnnounces DEF ImportInv
  <2>2. call[f].op # "cancel" /\ call[f].id = u => RowAfter(call[f]).version # 1
    BY <1>3, <1>4, VersionOfWrite DEF ImportInv
  <2> QED
    BY <1>2, <2>1, <2>2 DEF Unaudited
<1>5. CASE Audit(f)
  <2>1. /\ audit' = audit \cup {[op |-> written[f].op, id |-> written[f].id,
                                 before |-> written[f].before,
                                 version |-> written[f].version]}
        /\ written' = written /\ pc[f] = "audit" /\ pc' = [pc EXCEPT ![f] = "invalidate"]
    BY <1>5 DEF Audit
  <2>2. \A g \in Handlers : Unaudited(g)' => Unaudited(g)
    BY <2>1 DEF Unaudited, ImportInv, CoreInv, TypeOK
  <2> QED
    BY <1>2, <2>1, <2>2 DEF Unaudited
<1>6. CASE Begin(f) \/ Check(f) \/ Refuse(f) \/ Invalidate(f) \/ Enqueue(f) \/ Fail(f)
  <2>1. /\ audit' = audit
        /\ \A g \in Handlers : Unaudited(g)' => Unaudited(g) /\ written'[g] = written[g]
    <3>1. CASE Begin(f)
      <4>1. PICK c \in Call, next \in {"check", "write"} : Accept(f, c, next)
        BY <3>1, BeginAccepts DEF ImportInv, CoreInv
      <4> QED
        BY <4>1 DEF Accept, Unaudited, ImportInv, CoreInv, TypeOK
    <3> QED
      BY <1>6, <3>1 DEF Check, Refuse, Invalidate, Enqueue, Fail, Unaudited, ImportInv, CoreInv, TypeOK
  <2> QED
    BY <1>2, <2>1
<1> QED
  BY <1>1, <1>4, <1>5, <1>6 DEF Proceed

LEMMA ImportTrailInit == ImportInit => ImportTrailInv
  BY TrailInit DEF ImportInit, ImportTrailInv, ImportedIsNew

LEMMA ImportTrailStep == ImportInv /\ ImportTrailInv /\ [ImportNext]_importVars => ImportTrailInv'
<1> SUFFICES ASSUME ImportInv, ImportTrailInv, [ImportNext]_importVars PROVE ImportTrailInv'
  OBVIOUS
<1>1. [Next]_vars => TrailInv'
  BY TrailStep DEF ImportInv, ImportTrailInv
<1>2. CASE UNCHANGED importVars
  BY <1>1, <1>2 DEF ImportTrailInv, ImportedIsNew, Unaudited, importVars, vars
<1>3. ASSUME NEW h \in Handlers, ServeSchedules(h) PROVE ImportTrailInv'
  BY <1>1, <1>3, ServiceKeepsImportedNew DEF ServeSchedules, Next, ImportTrailInv
<1>4. ASSUME NEW h \in Handlers, BeginImport(h) \/ LookUp(h) \/ FinishImport(h) \/ FailImport(h)
      PROVE  ImportTrailInv'
  <2>1. /\ UNCHANGED vars
        /\ batch'[h] = Null \/ batch'[h].unaudited = Null
             \/ (batch[h] # Null /\ batch'[h].unaudited = batch[h].unaudited)
        /\ \A g \in Handlers \ {h} : batch'[g] = batch[g]
    <3>1. CASE BeginImport(h)
      BY <3>1, ImportBegins DEF ImportInv
    <3>2. CASE LookUp(h)
      <4>1. batch[h] # Null
        BY <3>2 DEF LookUp
      <4> QED
        BY <3>2, <4>1, LookUpAdds DEF ImportInv
    <3>3. CASE FinishImport(h) \/ FailImport(h)
      BY <3>3, ImportEnds DEF ImportInv
    <3> QED
      BY <1>4, <3>1, <3>2, <3>3
  <2>2. \A g \in Handlers : batch'[g] # Null /\ batch'[g].unaudited # Null
          => batch[g] # Null /\ batch'[g].unaudited = batch[g].unaudited
    BY <2>1
  <2>3. TrailInv'
    BY <1>1, <2>1
  <2>4. ASSUME NEW g \in Handlers PROVE ImportedIsNew(g)'
    <3>1. ImportedIsNew(g)
      BY DEF ImportTrailInv
    <3> QED
      BY <2>1, <2>2, <3>1 DEF ImportedIsNew, Unaudited, vars
  <2> QED
    BY <2>3, <2>4 DEF ImportTrailInv
<1> QED
  BY <1>2, <1>3, <1>4, CreateKeepsTrail, AuditImportedKeepsTrail DEF ImportNext, Import

LEMMA ImportTrailHolds == ImportSpec => []ImportTrailInv
  BY ImportTrailInit, ImportTrailStep, ImportInvHolds, PTL DEF ImportSpec

\* An edit of a row that an import has just inserted and not yet audited does
\* not get in its way: IMPORT_CREATE and UPDATE are rows of different versions.
THEOREM ImportTrailUnambiguous == ImportSpec => []OneAuditRowPerVersion
  BY ImportTrailHolds, PTL DEF ImportTrailInv, TrailInv

\* With imports too, no audit row names a version the table has not had.
THEOREM ImportTrailBehindTable == ImportSpec => []AuditedWritesHappened
  BY ImportTrailHolds, PTL DEF ImportTrailInv, TrailInv

\* An import and its audit row concern drafts, which carry no stamp.
\* The row that an import has created and not yet audited.
ImportAudits(s) == \E h \in Handlers : batch[h] # Null /\ batch[h].unaudited = s

\* Unless a handler died or a statement failed, every version of every row has
\* its audit row, or a handler or an import that is about to insert it.
ImportTrailComplete ==
    \A s \in ScheduleIds : Exists(s) =>
        \A v \in 1 .. schedules[s].version : Accounted(s, v) \/ (v = 1 /\ ImportAudits(s))

LEMMA ImportCompleteStep ==
    ASSUME ~Faults, ImportInv, ImportTrailComplete, [ImportNext]_importVars
    PROVE  ImportTrailComplete'
<1> SUFFICES ASSUME NEW s \in ScheduleIds, schedules'[s] # Null,
                    NEW v \in 1 .. schedules'[s].version
             PROVE  Accounted(s, v)' \/ (v = 1 /\ ImportAudits(s)')
  BY DEF ImportTrailComplete, Exists
<1>1. ASSUME NEW h \in Handlers, CreateImported(h)
      PROVE  Accounted(s, v)' \/ (v = 1 /\ ImportAudits(s)')
  <2>1. PICK c \in ToCreate(batch[h]), t \in ScheduleIds :
          /\ batch[h].unaudited = Null /\ batch'[h] \in Batch
          /\ schedules'[t] = NewRow(c)
          /\ \A u \in ScheduleIds \ {t} : schedules'[u] = schedules[u]
          /\ batch'[h].unaudited = t
          /\ \A g \in Handlers \ {h} : batch'[g] = batch[g]
          /\ UNCHANGED <<audit, pc, call, written>>
    BY <1>1, CreateInserts DEF ImportInv
  <2>2. Accounted(s, v) => Accounted(s, v)'
    BY <2>1 DEF Accounted
  <2>3. CASE s = t
    <3>1. v = 1
      BY <2>1, <2>3 DEF NewRow
    <3> QED
      BY <2>1, <2>3, <3>1, NullBatchAssumption DEF ImportAudits
  <2>4. CASE s # t
    <3>1. Exists(s) /\ v \in 1 .. schedules[s].version
      BY <2>1, <2>4 DEF Exists
    <3>2. ImportAudits(s) => ImportAudits(s)'
      BY <2>1, NullBatchAssumption DEF ImportAudits
    <3> QED
      BY <2>2, <3>1, <3>2 DEF ImportTrailComplete
  <2> QED
    BY <2>3, <2>4
<1>2. ASSUME NEW h \in Handlers, AuditImported(h)
      PROVE  Accounted(s, v)' \/ (v = 1 /\ ImportAudits(s)')
  <2> DEFINE r == [op |-> "import", id |-> batch[h].unaudited, before |-> 0, version |-> 1]
  <2>1. /\ audit' = audit \cup {r}
        /\ \A g \in Handlers \ {h} : batch'[g] = batch[g]
        /\ UNCHANGED <<schedules, pc, call, written>>
    BY <1>2, AuditInserts DEF ImportInv
  <2>2. Accounted(s, v) => Accounted(s, v)'
    BY <2>1 DEF Accounted
  <2>3. Accounted(s, v) \/ (v = 1 /\ ImportAudits(s))
    BY <2>1 DEF ImportTrailComplete, Exists
  <2>4. ASSUME v = 1, NEW g \in Handlers, batch[g] # Null, batch[g].unaudited = s
        PROVE  Accounted(s, v)' \/ ImportAudits(s)'
    <3>1. CASE g = h
      <4>1. r \in audit' /\ r.id = s /\ r.version = v /\ r.op # "cancel"
        BY <2>1, <2>4, <3>1
      <4> QED
        BY <4>1 DEF Accounted
    <3>2. CASE g # h
      BY <2>1, <2>4, <3>2 DEF ImportAudits
    <3> QED
      BY <3>1, <3>2
  <2> QED
    BY <2>2, <2>3, <2>4 DEF ImportAudits
<1>3. CASE [Next]_vars /\ \A t \in ScheduleIds : ImportAudits(t) => ImportAudits(t)'
  <2>1. Exists(s) /\ v \in 1 .. schedules[s].version => Accounted(s, v) \/ (v = 1 /\ ImportAudits(s))
    BY DEF ImportTrailComplete
  <2> QED
    BY <1>3, <2>1, VersionsAreAccounted, AccountedStays DEF ImportInv
<1>4. ASSUME NEW h \in Handlers,
             ServeSchedules(h) \/ BeginImport(h) \/ LookUp(h) \/ FinishImport(h) \/ FailImport(h)
      PROVE  [Next]_vars /\ \A t \in ScheduleIds : ImportAudits(t) => ImportAudits(t)'
  <2>1. CASE ServeSchedules(h)
    BY <2>1 DEF ServeSchedules, Next, ImportAudits
  <2>2. CASE BeginImport(h)
    <3>1. batch[h] = Null /\ UNCHANGED vars /\ \A g \in Handlers \ {h} : batch'[g] = batch[g]
      BY <2>2, ImportBegins DEF ImportInv, BeginImport
    <3> QED
      BY <3>1 DEF ImportAudits
  <2>3. CASE LookUp(h)
    <3>1. /\ UNCHANGED vars /\ batch'[h] \in Batch
          /\ batch'[h].unaudited = batch[h].unaudited
          /\ \A g \in Handlers \ {h} : batch'[g] = batch[g]
      BY <2>3, LookUpAdds DEF ImportInv, BatchTypeOK, LookUp
    <3> QED
      BY <3>1, NullBatchAssumption DEF ImportAudits
  <2>4. CASE FinishImport(h)
    <3>1. /\ UNCHANGED vars /\ batch[h].unaudited = Null
          /\ \A g \in Handlers \ {h} : batch'[g] = batch[g]
      BY <2>4, ImportEnds DEF ImportInv, FinishImport, Finished
    <3> QED
      BY <3>1, NullBatchAssumption DEF ImportAudits
  <2> QED
    BY <1>4, <2>1, <2>2, <2>3, <2>4 DEF FailImport
<1>5. CASE UNCHANGED importVars
  BY <1>3, <1>5 DEF importVars, ImportAudits
<1> QED
  BY <1>1, <1>2, <1>3, <1>4, <1>5 DEF ImportNext, Import

\* While nothing dies, imports and calls that run into each other, also on the
\* rows that an import has only just created, lose no audit row.
THEOREM ImportTrailKept ==
    ASSUME ~Faults
    PROVE  ImportSpec => []ImportTrailComplete
<1>1. ImportInit => ImportTrailComplete
  BY DEF ImportInit, Init, ImportTrailComplete, Exists
<1> QED
  BY <1>1, ImportCompleteStep, ImportInvHolds, PTL DEF ImportSpec

LEMMA ImportStampStep == ImportInv /\ StampInv /\ [ImportNext]_importVars => StampInv'
<1> SUFFICES ASSUME ImportInv, StampInv, [ImportNext]_importVars PROVE StampInv'
  OBVIOUS
<1>1. [Next]_vars => StampInv'
  BY StampStep DEF ImportInv
<1>2. ASSUME NEW h \in Handlers, CreateImported(h) PROVE StampInv'
  <2>1. PICK c \in ToCreate(batch[h]), s \in ScheduleIds :
          /\ FreshId(s) /\ schedules'[s] = NewRow(c)
          /\ \A t \in ScheduleIds \ {s} : schedules'[t] = schedules[t]
          /\ UNCHANGED <<audit, pc, call, written>>
    BY <1>2, CreateInserts DEF ImportInv
  <2>2. NewRow(c).status = "DRAFT"
    BY DEF NewRow
  <2>3. \A g \in Handlers : Pending(g) =>
          call[g].id \in ScheduleIds /\ schedules'[call[g].id] = schedules[call[g].id]
    BY <2>1, FreshIsNobodys DEF ImportInv, CoreInv, TypeOK, Pending, Call
  <2>4. PublishedIsStamped'
    BY <2>1, <2>2 DEF StampInv, PublishedIsStamped, Exists
  <2>5. KeepersFoundAStamp'
    BY <2>1, <2>3 DEF StampInv, KeepersFoundAStamp, Pending
  <2>6. CallsKeepShape'
    BY <2>1 DEF StampInv, CallsKeepShape, Shape, Pending
  <2> QED
    BY <2>4, <2>5, <2>6 DEF StampInv
<1>3. ASSUME NEW h \in Handlers, AuditImported(h) PROVE StampInv'
  <2>1. UNCHANGED <<schedules, pc, call, written>>
    BY <1>3, AuditInserts DEF ImportInv
  <2> QED
    BY <2>1 DEF StampInv, PublishedIsStamped, KeepersFoundAStamp, CallsKeepShape, Shape,
                Pending, Exists
<1> QED
  BY <1>1, <1>2, <1>3, KindsOfSteps

LEMMA ImportStampHolds == ImportSpec => []StampInv
<1>1. ImportInit => StampInv
  BY StampInit DEF ImportInit
<1> QED
  BY <1>1, ImportStampStep, ImportInvHolds, PTL DEF ImportSpec

\* What an import brings in goes on air, like every schedule, only with its
\* publication time.
THEOREM ImportPublishedStamped == ImportSpec => []PublishedIsStamped
  BY ImportStampHolds, PTL DEF StampInv

-----------------------------------------------------------------------------
(* Requests that are kept apart.                                           *)

\* While an import is under way no call touches one of its channels, and no
\* other import does: what a lock on its channels would ensure.
ImportsApart ==
    \A g, h \in Handlers : g # h /\ batch[h] # Null =>
        \A c \in batch[h].candidates :
            /\ Pending(g) => c.channel # call[g].channel /\ c.channel # call[g].from
            /\ batch[g] # Null => \A d \in batch[g].candidates : c.channel # d.channel

\* What calls know and leave in the trail is not touched by an import, on
\* whatever channels: it works on rows of its own.
LEMMA ImportSerialStep ==
    ImportInv /\ SerialInv /\ RowsApart /\ [ImportNext]_importVars => SerialInv'
<1> SUFFICES ASSUME ImportInv, SerialInv, RowsApart, [ImportNext]_importVars PROVE SerialInv'
  OBVIOUS
<1>1. [Next]_vars => SerialInv'
  BY SerialStep DEF ImportInv
<1>2. ASSUME NEW h \in Handlers, CreateImported(h) PROVE SerialInv'
  <2>1. PICK s \in ScheduleIds :
          /\ FreshId(s)
          /\ \A t \in ScheduleIds \ {s} : schedules'[t] = schedules[t]
          /\ UNCHANGED <<audit, pc, call, written>>
    BY <1>2, CreateInserts DEF ImportInv
  <2>2. CallsAreCurrent'
    <3> SUFFICES ASSUME NEW g \in Handlers, Pending(g)' PROVE TrueOfRow(call[g])'
      BY DEF CallsAreCurrent
    <3>1. /\ Pending(g) /\ call[g] \in Call /\ TrueOfRow(call[g])
          /\ call[g].id # s
      BY <2>1, FreshIsNobodys DEF ImportInv, CoreInv, TypeOK, Pending, SerialInv, CallsAreCurrent
    <3> QED
      BY <2>1, <3>1 DEF TrueOfRow, Agrees, Exists, Call
  <2> QED
    BY <2>1, <2>2 DEF SerialInv, AnnouncementsFollow, Announcing, AuditTrailIsAHistory
<1>3. ASSUME NEW h \in Handlers, AuditImported(h) PROVE SerialInv'
  <2>1. /\ UNCHANGED <<schedules, pc, call, written>>
        /\ \A a \in audit' : \/ a \in audit
                             \/ a.op = "import" /\ a.before = 0 /\ a.version = 1
    BY <1>3, AuditInserts DEF ImportInv
  <2>2. AuditTrailIsAHistory'
    BY <2>1 DEF SerialInv, AuditTrailIsAHistory
  <2> QED
    BY <2>1, <2>2 DEF SerialInv, CallsAreCurrent, Pending, TrueOfRow, Agrees, Exists,
                      AnnouncementsFollow, Announcing
<1> QED
  BY <1>1, <1>2, <1>3, KindsOfSteps

LEMMA ImportSerialHolds == ImportSpec /\ []RowsApart => []SerialInv
<1>1. ImportInit => SerialInv
  BY SerialInit DEF ImportInit
<1>2. ImportInv /\ SerialInv /\ RowsApart /\ [ImportNext]_importVars => SerialInv'
  BY ImportSerialStep
<1> QED
  BY <1>1, <1>2, ImportInvHolds, PTL DEF ImportSpec

\* IMPORT_CREATE starts a history as CREATE does: nothing before, version 1.
THEOREM ImportTrailIsAHistoryWhenApart == ImportSpec /\ []RowsApart => []AuditTrailIsAHistory
  BY ImportSerialHolds, PTL DEF SerialInv

\* An import never touches a row that is there: with calls for one row kept
\* apart a cancelled schedule stays cancelled, imports or not.
THEOREM ImportCancelledIsFinalWhenApart == ImportSpec /\ []RowsApart => CancelledIsFinal
<1>1. ASSUME ImportInv, StampInv, SerialInv, [ImportNext]_importVars,
             NEW s \in ScheduleIds, Exists(s), schedules[s].status = "CANCELLED"
      PROVE  schedules'[s].status = "CANCELLED"
  <2>1. CASE [Next]_vars
    BY <1>1, <2>1, StepKeepsCancelled, CurrentWritesAreTrue DEF ImportInv
  <2>2. ASSUME NEW h \in Handlers, CreateImported(h) PROVE schedules'[s] = schedules[s]
    BY <1>1, <2>2, CreateInserts, FreshIsNobodys DEF ImportInv
  <2>3. ASSUME NEW h \in Handlers, AuditImported(h) PROVE schedules'[s] = schedules[s]
    BY <1>1, <2>3, AuditInserts DEF ImportInv
  <2> QED
    BY <1>1, <2>1, <2>2, <2>3, KindsOfSteps
<1>2. ImportInv /\ StampInv /\ SerialInv /\ [ImportNext]_importVars
        => [\A s \in ScheduleIds :
              Exists(s) /\ schedules[s].status = "CANCELLED"
                => schedules'[s].status = "CANCELLED"]_vars
  BY <1>1
<1> QED
  BY <1>2, ImportSerialHolds, ImportInvHolds, ImportStampHolds, PTL DEF ImportSpec, CancelledIsFinal

\* What an import brings in is a draft until it is published by the endpoint.
THEOREM ImportPublishedByPublishOnlyWhenApart ==
    ImportSpec /\ []RowsApart => PublishedByPublishOnly
<1>1. ASSUME ImportInv, StampInv, SerialInv, [ImportNext]_importVars,
             NEW s \in ScheduleIds, ~(Exists(s) /\ schedules[s].status = "PUBLISHED"),
             schedules'[s] # Null, schedules'[s].status = "PUBLISHED"
      PROVE  \E h \in Handlers :
               pc[h] = "write" /\ call[h].op = "publish" /\ call[h].id = s /\ call'[h] = Null
  <2>1. CASE [Next]_vars
    BY <1>1, <2>1, StepPublishesByPublish, CurrentWritesAreTrue DEF ImportInv
  <2>2. ASSUME NEW h \in Handlers, CreateImported(h) PROVE FALSE
    <3>1. PICK c \in ToCreate(batch[h]), t \in ScheduleIds :
            /\ schedules'[t] = NewRow(c)
            /\ \A u \in ScheduleIds \ {t} : schedules'[u] = schedules[u]
      BY <1>1, <2>2, CreateInserts DEF ImportInv
    <3> QED
      BY <1>1, <3>1 DEF NewRow, Exists
  <2>3. ASSUME NEW h \in Handlers, AuditImported(h) PROVE FALSE
    BY <1>1, <2>3, AuditInserts DEF ImportInv, Exists
  <2> QED
    BY <1>1, <2>1, <2>2, <2>3, KindsOfSteps
<1>2. ImportInv /\ StampInv /\ SerialInv /\ [ImportNext]_importVars
        => [\A s \in ScheduleIds :
              /\ ~(Exists(s) /\ schedules[s].status = "PUBLISHED")
              /\ schedules'[s] # Null /\ schedules'[s].status = "PUBLISHED"
              => \E h \in Handlers :
                   pc[h] = "write" /\ call[h].op = "publish" /\ call[h].id = s
                     /\ call'[h] = Null]_vars
  BY <1>1
<1> QED
  BY <1>2, ImportSerialHolds, ImportInvHolds, ImportStampHolds, PTL DEF ImportSpec, PublishedByPublishOnly

-----------------------------------------------------------------------------
(* The channels of an import are its own while it is under way.            *)

LEMMA OthersLeaveItsChannels ==
    ASSUME ImportInv, StampInv, SerialInv, ImportsApart,
           NEW h \in Handlers, Import(h) \/ ServeSchedules(h),
           NEW g \in Handlers \ {h}
    PROVE  /\ batch'[g] = batch[g]
           /\ batch[g] # Null =>
                \A d \in batch[g].candidates : ConflictsWithTable(d)' <=> ConflictsWithTable(d)
<1>1. schedules' = schedules => \A d : ConflictsWithTable(d)' <=> ConflictsWithTable(d)
  BY DEF ConflictsWithTable, IsLive, Exists
<1>2. CASE ServeSchedules(h) /\ Write(h)
  <2> DEFINE c == call[h]
             row == RowAfter(c)
  <2>1. /\ c \in Call /\ schedules'[c.id] = row /\ Pending(h)
        /\ \A s \in ScheduleIds \ {c.id} : schedules'[s] = schedules[s]
    BY <1>2, WriteReplacesOneRow DEF ImportInv
  <2>2. Shape(c) /\ TrueOfRow(c)
    BY <2>1 DEF StampInv, CallsKeepShape, SerialInv, CallsAreCurrent
  <2>3. row.channel \in {c.channel, c.from} /\ (Exists(c.id) => schedules[c.id].channel = c.from)
    BY <1>2, <2>2, WriteStoresItsSlot, CurrentWritesAreTrue DEF ImportInv, TrueOfRow
  <2>4. ASSUME batch[g] # Null, NEW d \in batch[g].candidates
        PROVE  ConflictsWithTable(d)' <=> ConflictsWithTable(d)
    <3>1. d.channel # c.channel /\ d.channel # c.from
      BY <2>1, <2>4 DEF ImportsApart
    <3> QED
      BY <2>1, <2>3, <3>1 DEF ConflictsWithTable, IsLive, Exists
  <2> QED
    BY <1>2, <2>4 DEF ServeSchedules
<1>3. CASE ServeSchedules(h) /\ ~Write(h)
  BY <1>1, <1>3, OtherStepsStutter DEF ServeSchedules, ImportInv
<1>4. CASE BeginImport(h)
  BY <1>1, <1>4, ImportBegins DEF ImportInv, vars
<1>5. CASE LookUp(h)
  BY <1>1, <1>5, LookUpAdds DEF ImportInv, vars
<1>6. CASE CreateImported(h)
  <2>1. PICK c \in ToCreate(batch[h]), s \in ScheduleIds :
          /\ FreshId(s) /\ schedules'[s] = NewRow(c)
          /\ \A t \in ScheduleIds \ {s} : schedules'[t] = schedules[t]
          /\ \A f \in Handlers \ {h} : batch'[f] = batch[f]
    BY <1>6, CreateInserts DEF ImportInv
  <2>2. batch[h] # Null /\ c \in batch[h].candidates /\ ~Exists(s)
    BY <1>6, <2>1 DEF CreateImported, ToCreate, FreshId
  <2>3. ASSUME batch[g] # Null, NEW d \in batch[g].candidates
        PROVE  ConflictsWithTable(d)' <=> ConflictsWithTable(d)
    <3>1. d.channel # c.channel
      BY <2>2, <2>3 DEF ImportsApart
    <3> QED
      BY <2>1, <2>2, <3>1 DEF ConflictsWithTable, IsLive, Exists, NewRow
  <2> QED
    BY <2>1, <2>3
<1>7. CASE AuditImported(h)
  BY <1>1, <1>7, AuditInserts DEF ImportInv
<1>8. CASE FinishImport(h) \/ FailImport(h)
  BY <1>1, <1>8, ImportEnds DEF ImportInv, vars
<1> QED
  BY <1>2, <1>3, <1>4, <1>5, <1>6, <1>7, <1>8 DEF Import

-----------------------------------------------------------------------------
(* No programme is dropped.                                                *)

\* What is in conflict stays in conflict, and what was created is.
CoveredBy(h) ==
    batch[h] # Null =>
        \A c \in batch[h].candidates :
            Key(c) \in batch[h].conflicts \/ c \in batch[h].created => ConflictsWithTable(c)

CoveredSoFar == \A h \in Handlers : CoveredBy(h)

\* Candidates with the same key are in conflict with the same rows.
LEMMA SameKeySameConflict ==
    ASSUME NEW c, NEW d, Key(c) = Key(d)
    PROVE  ConflictsWithTable(c) <=> ConflictsWithTable(d)
  BY DEF Key, ConflictsWithTable, Overlaps

LEMMA CoveredStep ==
    ImportInv /\ StampInv /\ SerialInv /\ ImportsApart /\ CoveredSoFar /\ [ImportNext]_importVars
      => CoveredSoFar'
<1> SUFFICES ASSUME ImportInv, StampInv, SerialInv, ImportsApart, CoveredSoFar,
                    [ImportNext]_importVars
             PROVE  CoveredSoFar'
  OBVIOUS
<1>1. CASE UNCHANGED importVars
  BY <1>1 DEF CoveredSoFar, CoveredBy, Key, ConflictsWithTable, IsLive, Exists, importVars, vars
<1> SUFFICES ASSUME NEW h \in Handlers, Import(h) \/ ServeSchedules(h) PROVE CoveredSoFar'
  BY <1>1 DEF ImportNext
<1>2. \A g \in Handlers \ {h} : CoveredBy(g)'
  BY OthersLeaveItsChannels DEF CoveredSoFar, CoveredBy, Key
<1>3. CASE ServeSchedules(h)
  BY <1>2, <1>3 DEF ServeSchedules, CoveredSoFar, CoveredBy
<1>4. CASE BeginImport(h)
  BY <1>2, <1>4, ImportBegins DEF ImportInv, CoveredSoFar, CoveredBy
<1>5. CASE LookUp(h)
  <2>1. PICK c \in batch[h].candidates \ batch[h].looked :
          /\ batch'[h].candidates = batch[h].candidates
          /\ batch'[h].conflicts =
               IF ConflictsWithTable(c) THEN batch[h].conflicts \cup {Key(c)}
               ELSE batch[h].conflicts
          /\ batch'[h].created = batch[h].created
          /\ UNCHANGED vars
    BY <1>5, LookUpAdds DEF ImportInv
  <2>2. \A d : ConflictsWithTable(d)' <=> ConflictsWithTable(d)
    BY <2>1 DEF ConflictsWithTable, IsLive, Exists, vars
  <2>3. batch[h] # Null
    BY <1>5 DEF LookUp
  <2>4. ASSUME NEW d \in batch[h].candidates,
               Key(d) \in batch'[h].conflicts \/ d \in batch[h].created
        PROVE  ConflictsWithTable(d)
    BY <2>1, <2>3, <2>4, SameKeySameConflict DEF CoveredSoFar, CoveredBy
  <2> QED
    BY <1>2, <2>1, <2>2, <2>4 DEF CoveredSoFar, CoveredBy, Key
<1>6. CASE CreateImported(h)
  <2>1. PICK c \in ToCreate(batch[h]), s \in ScheduleIds :
          /\ c \in Candidate /\ FreshId(s) /\ NewRow(c) # Null
          /\ schedules'[s] = NewRow(c)
          /\ \A t \in ScheduleIds \ {s} : schedules'[t] = schedules[t]
          /\ batch'[h].candidates = batch[h].candidates
          /\ batch'[h].conflicts = batch[h].conflicts
          /\ batch'[h].created = batch[h].created \cup {c}
    BY <1>6, CreateInserts DEF ImportInv
  <2>2. batch[h] # Null /\ c \in batch[h].candidates
    BY <1>6 DEF CreateImported, ToCreate
  <2>3. ASSUME NEW d, ConflictsWithTable(d) PROVE ConflictsWithTable(d)'
    BY <2>1, <2>3, FreshIsNobodys DEF ImportInv, ConflictsWithTable, IsLive, Exists
  <2>4. ConflictsWithTable(c)'
    <3>1. c.start < c.stop
      BY <2>2 DEF ImportInv, BatchesSound, BatchSound, ValidRange
    <3> QED
      BY <2>1, <3>1 DEF ConflictsWithTable, IsLive, Exists, NewRow, Overlaps
  <2> QED
    BY <1>2, <2>1, <2>2, <2>3, <2>4 DEF CoveredSoFar, CoveredBy, Key
<1>7. CASE AuditImported(h)
  <2>1. /\ batch'[h].candidates = batch[h].candidates
        /\ batch'[h].conflicts = batch[h].conflicts
        /\ batch'[h].created = batch[h].created
        /\ schedules' = schedules
    BY <1>7, AuditInserts DEF ImportInv
  <2>2. batch[h] # Null
    BY <1>7 DEF AuditImported
  <2> QED
    BY <1>2, <2>1, <2>2 DEF CoveredSoFar, CoveredBy, Key, ConflictsWithTable, IsLive, Exists
<1>8. CASE FinishImport(h) \/ FailImport(h)
  BY <1>2, <1>8, ImportEnds DEF ImportInv, CoveredSoFar, CoveredBy
<1> QED
  BY <1>3, <1>4, <1>5, <1>6, <1>7, <1>8 DEF Import

\* While nobody else touches the channels of an import, and whatever its file
\* says (programmes that overlap each other, durations that do not fit), it has
\* left every programme's time taken on its channel when it ran to its end:
\* getCandidateKey tells apart whatever differs in a conflict.
THEOREM ImportCoversWhenApart == ImportSpec /\ []RowsApart /\ []ImportsApart => []ImportCovers
<1>1. ImportInit => CoveredSoFar
  BY DEF ImportInit, CoveredSoFar, CoveredBy
<1>2. ImportInv /\ StampInv /\ SerialInv /\ ImportsApart /\ CoveredSoFar
        /\ [ImportNext]_importVars => CoveredSoFar'
  BY CoveredStep
<1>3. CoveredSoFar => ImportCovers
  BY DEF CoveredSoFar, CoveredBy, ImportCovers, Finished, ToCreate
<1> QED
  BY <1>1, <1>2, <1>3, ImportSerialHolds, ImportInvHolds, ImportStampHolds, PTL DEF ImportSpec

-----------------------------------------------------------------------------
(* Files that do not contradict themselves.                                *)

\* What was found free is free until it is created.
FreeFor(h) ==
    batch[h] # Null =>
        \A c \in batch[h].looked \ batch[h].created :
            Key(c) \notin batch[h].conflicts => ~ConflictsWithTable(c)

FreeSoFar == \A h \in Handlers : FreeFor(h)

\* The candidates of an import are those of one file.
ApartInBatch ==
    \A h \in Handlers : batch[h] # Null =>
        \A c, d \in batch[h].candidates : c # d /\ c.channel = d.channel => ~Overlaps(c, d)

AgreeInBatch ==
    \A h \in Handlers : batch[h] # Null => \A c \in batch[h].candidates : DurationMatchesRange(c)

\* An import keeps the candidates it began with.
LEMMA CandidatesStay ==
    ASSUME BatchTypeOK, [ImportNext]_importVars, NEW h \in Handlers, batch'[h] # Null
    PROVE  \/ \E file \in Files : Previewable(file) /\ batch'[h].candidates = Candidates(file)
           \/ batch[h] # Null /\ batch'[h].candidates = batch[h].candidates
<1>1. CASE batch' = batch
  BY <1>1
<1>2. ASSUME NEW g \in Handlers, BeginImport(g)
      PROVE  \/ \E file \in Files : Previewable(file) /\ batch'[h].candidates = Candidates(file)
             \/ batch'[h] = batch[h]
  <2>1. PICK file \in Files, b \in Batch :
          /\ Previewable(file) /\ b.candidates = Candidates(file) /\ batch'[g] = b
          /\ \A f \in Handlers \ {g} : batch'[f] = batch[f]
    BY <1>2, ImportBegins
  <2> QED
    BY <2>1
<1>3. ASSUME NEW g \in Handlers, LookUp(g)
      PROVE  batch[h] # Null /\ batch'[h].candidates = batch[h].candidates
  <2>1. /\ batch[g] # Null /\ batch'[g].candidates = batch[g].candidates
        /\ \A f \in Handlers \ {g} : batch'[f] = batch[f]
    BY <1>3, LookUpAdds DEF LookUp
  <2> QED
    BY <2>1
<1>4. ASSUME NEW g \in Handlers, CreateImported(g)
      PROVE  batch[h] # Null /\ batch'[h].candidates = batch[h].candidates
  <2>1. batch[g] \in Batch /\ batch[g] # Null
    BY <1>4 DEF CreateImported, BatchTypeOK
  <2>2. PICK c, s : batch' = [batch EXCEPT ![g].created = @ \cup {c}, ![g].unaudited = s]
    BY <1>4 DEF CreateImported
  <2>3. CASE h = g
    BY <2>1, <2>2, <2>3 DEF BatchTypeOK, Batch
  <2>4. CASE h # g
    BY <2>2, <2>4 DEF BatchTypeOK
  <2> QED
    BY <2>3, <2>4
<1>5. ASSUME NEW g \in Handlers, AuditImported(g)
      PROVE  batch[h] # Null /\ batch'[h].candidates = batch[h].candidates
  <2>1. /\ batch[g] # Null /\ batch'[g].candidates = batch[g].candidates
        /\ \A f \in Handlers \ {g} : batch'[f] = batch[f]
    BY <1>5, AuditInserts DEF AuditImported
  <2> QED
    BY <2>1
<1>6. ASSUME NEW g \in Handlers, FinishImport(g) \/ FailImport(g)
      PROVE  batch'[h] = batch[h]
  BY <1>6, ImportEnds
<1> QED
  BY <1>1, <1>2, <1>3, <1>4, <1>5, <1>6 DEF ImportNext, Import, ServeSchedules, importVars

LEMMA ApartStep ==
    ASSUME ProgrammesApart
    PROVE  ImportInv /\ ApartInBatch /\ [ImportNext]_importVars => ApartInBatch'
<1> SUFFICES ASSUME ImportInv, ApartInBatch, [ImportNext]_importVars,
                    NEW h \in Handlers, batch'[h] # Null,
                    NEW c \in batch'[h].candidates, NEW d \in batch'[h].candidates,
                    c # d, c.channel = d.channel
             PROVE  ~Overlaps(c, d)
  BY DEF ApartInBatch
<1> QED
  BY CandidatesStay DEF ImportInv, ApartInBatch, ProgrammesApart

LEMMA AgreeStep ==
    ASSUME DurationsAgree
    PROVE  ImportInv /\ AgreeInBatch /\ [ImportNext]_importVars => AgreeInBatch'
<1> SUFFICES ASSUME ImportInv, AgreeInBatch, [ImportNext]_importVars,
                    NEW h \in Handlers, batch'[h] # Null, NEW c \in batch'[h].candidates
             PROVE  DurationMatchesRange(c)
  BY DEF AgreeInBatch
<1> QED
  BY CandidatesStay DEF ImportInv, AgreeInBatch, DurationsAgree

\* Nothing gets in the way of what was found free but the import's own rows,
\* and those are of other programmes.
LEMMA FreeStep ==
    ImportInv /\ StampInv /\ SerialInv /\ ImportsApart /\ ApartInBatch /\ FreeSoFar
      /\ [ImportNext]_importVars => FreeSoFar'
<1> SUFFICES ASSUME ImportInv, StampInv, SerialInv, ImportsApart, ApartInBatch, FreeSoFar,
                    [ImportNext]_importVars
             PROVE  FreeSoFar'
  OBVIOUS
<1>1. CASE UNCHANGED importVars
  BY <1>1 DEF FreeSoFar, FreeFor, ConflictsWithTable, IsLive, Exists, importVars, vars
<1> SUFFICES ASSUME NEW h \in Handlers, Import(h) \/ ServeSchedules(h) PROVE FreeSoFar'
  BY <1>1 DEF ImportNext
<1>2. ASSUME NEW g \in Handlers \ {h} PROVE FreeFor(g)'
  <2>1. batch[g] # Null => batch[g].looked \subseteq batch[g].candidates
    BY DEF ImportInv, BatchesSound, BatchSound
  <2> QED
    BY <2>1, OthersLeaveItsChannels DEF FreeSoFar, FreeFor, Key
<1>3. CASE ServeSchedules(h)
  BY <1>2, <1>3 DEF ServeSchedules, FreeSoFar, FreeFor
<1>4. CASE BeginImport(h)
  BY <1>2, <1>4, ImportBegins DEF ImportInv, FreeSoFar, FreeFor
<1>5. CASE LookUp(h)
  <2>1. PICK c \in batch[h].candidates \ batch[h].looked :
          /\ batch'[h].looked = batch[h].looked \cup {c}
          /\ batch'[h].conflicts =
               IF ConflictsWithTable(c) THEN batch[h].conflicts \cup {Key(c)}
               ELSE batch[h].conflicts
          /\ batch'[h].created = batch[h].created
          /\ UNCHANGED vars
    BY <1>5, LookUpAdds DEF ImportInv
  <2>2. \A d : ConflictsWithTable(d)' <=> ConflictsWithTable(d)
    BY <2>1 DEF ConflictsWithTable, IsLive, Exists, vars
  <2>3. batch[h] # Null
    BY <1>5 DEF LookUp
  <2>4. ASSUME NEW d \in batch'[h].looked \ batch'[h].created, Key(d) \notin batch'[h].conflicts
        PROVE  ~ConflictsWithTable(d)
    <3>1. CASE d = c
      BY <2>1, <2>4, <3>1
    <3>2. CASE d # c
      BY <2>1, <2>3, <2>4, <3>2 DEF FreeSoFar, FreeFor
    <3> QED
      BY <3>1, <3>2
  <2> QED
    BY <1>2, <2>2, <2>4 DEF FreeSoFar, FreeFor, Key
<1>6. CASE CreateImported(h)
  <2>1. PICK c \in ToCreate(batch[h]), s \in ScheduleIds :
          /\ schedules'[s] = NewRow(c)
          /\ \A t \in ScheduleIds \ {s} : schedules'[t] = schedules[t]
          /\ batch'[h].looked = batch[h].looked
          /\ batch'[h].conflicts = batch[h].conflicts
          /\ batch'[h].created = batch[h].created \cup {c}
    BY <1>6, CreateInserts DEF ImportInv
  <2>2. batch[h] # Null /\ c \in batch[h].candidates /\ batch[h].looked \subseteq batch[h].candidates
    BY <1>6 DEF CreateImported, ToCreate, ImportInv, BatchesSound, BatchSound
  <2>3. ASSUME NEW d \in batch[h].looked, d # c, ~ConflictsWithTable(d)
        PROVE  ~ConflictsWithTable(d)'
    <3>1. c.channel = d.channel => ~Overlaps(c, d)
      BY <2>2, <2>3 DEF ApartInBatch
    <3>2. ~(schedules'[s].channel = d.channel /\ Overlaps(schedules'[s], d))
      BY <2>1, <3>1 DEF NewRow, Overlaps
    <3> QED
      BY <2>1, <2>3, <3>2 DEF ConflictsWithTable, IsLive, Exists
  <2>4. ASSUME NEW d \in batch'[h].looked \ batch'[h].created, Key(d) \notin batch'[h].conflicts
        PROVE  ~ConflictsWithTable(d)'
    BY <2>1, <2>2, <2>3, <2>4 DEF FreeSoFar, FreeFor
  <2> QED
    BY <1>2, <2>4 DEF FreeSoFar, FreeFor, Key
<1>7. CASE AuditImported(h)
  <2>1. /\ batch'[h].looked = batch[h].looked
        /\ batch'[h].conflicts = batch[h].conflicts
        /\ batch'[h].created = batch[h].created
        /\ schedules' = schedules
    BY <1>7, AuditInserts DEF ImportInv
  <2>2. batch[h] # Null
    BY <1>7 DEF AuditImported
  <2> QED
    BY <1>2, <2>1, <2>2 DEF FreeSoFar, FreeFor, Key, ConflictsWithTable, IsLive, Exists
<1>8. CASE FinishImport(h) \/ FailImport(h)
  BY <1>2, <1>8, ImportEnds DEF ImportInv, FreeSoFar, FreeFor
<1> QED
  BY <1>3, <1>4, <1>5, <1>6, <1>7, <1>8 DEF Import

\* What an import creates is free when it is created.
LEMMA CreatesFree ==
    ASSUME ImportInv, FreeSoFar, NEW h \in Handlers, CreateImported(h),
           NEW c \in ToCreate(batch[h])
    PROVE  ~ConflictsWithTable(c)
  BY DEF CreateImported, ToCreate, AllLooked, FreeSoFar, FreeFor

LEMMA ImportBookedStep ==
    ImportInv /\ StampInv /\ SerialInv /\ ChannelsApart /\ ImportsApart /\ FreeSoFar
      /\ BookedInv /\ [ImportNext]_importVars => BookedInv'
<1> SUFFICES ASSUME ImportInv, StampInv, SerialInv, ChannelsApart, ImportsApart, FreeSoFar,
                    BookedInv, [ImportNext]_importVars
             PROVE  BookedInv'
  OBVIOUS
<1>1. [Next]_vars => BookedInv'
  BY BookedStep DEF ImportInv
<1>2. ASSUME NEW h \in Handlers, CreateImported(h) \/ AuditImported(h) PROVE CheckedCallsAreFree'
  <2>1. CASE CreateImported(h)
    <3>1. PICK c \in ToCreate(batch[h]), s \in ScheduleIds :
            /\ schedules'[s] = NewRow(c)
            /\ \A t \in ScheduleIds \ {s} : schedules'[t] = schedules[t]
            /\ UNCHANGED <<pc, call>>
      BY <2>1, CreateInserts DEF ImportInv
    <3>2. batch[h] # Null /\ c \in batch[h].candidates /\ pc[h] = "idle"
      BY <2>1 DEF CreateImported, ToCreate, ImportInv, BatchesSound, BatchSound
    <3> SUFFICES ASSUME NEW g \in Handlers, pc[g] = "write", NoConflict(call[g])
                 PROVE  NoConflict(call[g])'
      BY <3>1 DEF BookedInv, CheckedCallsAreFree
    <3>3. c.channel # call[g].channel
      BY <3>2 DEF ImportsApart, Pending
    <3> QED
      BY <3>1, <3>3 DEF NoConflict, IsLive, Exists, NewRow
  <2>2. CASE AuditImported(h)
    BY <2>2, AuditInserts DEF ImportInv, BookedInv, CheckedCallsAreFree, NoConflict, IsLive, Exists
  <2> QED
    BY <1>2, <2>1, <2>2
<1>3. ASSUME NEW h \in Handlers, CreateImported(h) PROVE NoDoubleBooking'
  <2>1. PICK c \in ToCreate(batch[h]), s \in ScheduleIds :
          /\ schedules'[s] = NewRow(c)
          /\ \A t \in ScheduleIds \ {s} : schedules'[t] = schedules[t]
    BY <1>3, CreateInserts DEF ImportInv
  <2>2. ~ConflictsWithTable(c)
    BY <1>3, CreatesFree
  <2>3. ASSUME NEW t \in ScheduleIds \ {s}, schedules'[t] # Null,
               schedules'[t].status # "CANCELLED", schedules'[t].channel = schedules'[s].channel
        PROVE  ~Overlaps(schedules'[t], schedules'[s]) /\ ~Overlaps(schedules'[s], schedules'[t])
    <3>1. schedules'[t] = schedules[t] /\ schedules[t] \in Row
      BY <2>1, <2>3 DEF ImportInv, CoreInv, TypeOK
    <3>2. ~Overlaps(schedules[t], c)
      BY <2>1, <2>2, <2>3, <3>1 DEF ConflictsWithTable, IsLive, Exists, NewRow
    <3> QED
      BY <2>1, <3>1, <3>2 DEF Overlaps, NewRow
  <2>4. ASSUME NEW t \in ScheduleIds \ {s}, NEW u \in ScheduleIds \ {s}, t # u,
               schedules'[t] # Null, schedules'[t].status # "CANCELLED",
               schedules'[u] # Null, schedules'[u].status # "CANCELLED",
               schedules'[t].channel = schedules'[u].channel
        PROVE  ~Overlaps(schedules'[t], schedules'[u])
    BY <2>1, <2>4 DEF BookedInv, NoDoubleBooking, IsLive, Exists
  <2> QED
    BY <2>3, <2>4 DEF NoDoubleBooking, IsLive, Exists
<1>4. ASSUME NEW h \in Handlers, AuditImported(h) PROVE NoDoubleBooking'
  BY <1>4, AuditInserts DEF ImportInv, BookedInv, NoDoubleBooking, IsLive, Exists
<1> QED
  BY <1>1, <1>2, <1>3, <1>4, KindsOfSteps DEF BookedInv

LEMMA ImportBookedHolds ==
    ASSUME ProgrammesApart
    PROVE  ImportSpec /\ []RowsApart /\ []ChannelsApart /\ []ImportsApart
             => [](BookedInv /\ FreeSoFar)
<1>1. ImportInit => BookedInv /\ ApartInBatch /\ FreeSoFar
  BY SerialInit DEF ImportInit, ApartInBatch, FreeSoFar, FreeFor
<1>2. ImportInv /\ ApartInBatch /\ [ImportNext]_importVars => ApartInBatch'
  BY ApartStep
<1>3. ImportInv /\ StampInv /\ SerialInv /\ ImportsApart /\ ApartInBatch /\ FreeSoFar
        /\ [ImportNext]_importVars => FreeSoFar'
  BY FreeStep
<1>4. ImportInv /\ StampInv /\ SerialInv /\ ChannelsApart /\ ImportsApart /\ FreeSoFar
        /\ BookedInv /\ [ImportNext]_importVars => BookedInv'
  BY ImportBookedStep
<1> QED
  BY <1>1, <1>2, <1>3, <1>4, ImportSerialHolds, ImportInvHolds, ImportStampHolds, PTL
     DEF ImportSpec

\* With requests kept apart by row and by channel, imports of files whose
\* programmes do not overlap each other never double book a channel, wherever
\* an import breaks off and however often it is sent again: one answer per
\* candidate, asked before the first INSERT, is enough.
THEOREM ImportNoDoubleBookingWhenApart ==
    ASSUME ProgrammesApart
    PROVE  ImportSpec /\ []RowsApart /\ []ChannelsApart /\ []ImportsApart => []NoDoubleBooking
<1>1. ImportSpec /\ []RowsApart /\ []ChannelsApart /\ []ImportsApart => [](BookedInv /\ FreeSoFar)
  BY ImportBookedHolds
<1> QED
  BY <1>1, PTL DEF BookedInv

LEMMA ImportRowsStep ==
    ImportInv /\ StampInv /\ SerialInv /\ AgreeInBatch /\ RowsWellFormed /\ [ImportNext]_importVars
      => RowsWellFormed'
<1> SUFFICES ASSUME ImportInv, StampInv, SerialInv, AgreeInBatch, RowsWellFormed,
                    [ImportNext]_importVars
             PROVE  RowsWellFormed'
  OBVIOUS
<1>1. [Next]_vars => RowsWellFormed'
  BY RowsStep DEF ImportInv
<1>2. ASSUME NEW h \in Handlers, CreateImported(h) PROVE RowsWellFormed'
  <2>1. PICK c \in ToCreate(batch[h]), s \in ScheduleIds :
          /\ c \in Candidate /\ schedules'[s] = NewRow(c)
          /\ \A t \in ScheduleIds \ {s} : schedules'[t] = schedules[t]
    BY <1>2, CreateInserts DEF ImportInv
  <2>2. batch[h] # Null /\ c \in batch[h].candidates
    BY <1>2 DEF CreateImported, ToCreate
  <2>3. ValidRange(c) /\ DurationMatchesRange(c) /\ c.duration \in 1 .. Horizon
    BY <2>1, <2>2 DEF ImportInv, BatchesSound, BatchSound, AgreeInBatch, Candidate, Durations
  <2>4. WellFormed(NewRow(c))
    BY <2>3, BoundsAssumption DEF NewRow, WellFormed, ValidRange, ValidDuration, DurationMatchesRange
  <2> QED
    BY <2>1, <2>4 DEF RowsWellFormed, Exists
<1>3. ASSUME NEW h \in Handlers, AuditImported(h) PROVE RowsWellFormed'
  BY <1>3, AuditInserts DEF ImportInv, RowsWellFormed, Exists
<1> QED
  BY <1>1, <1>2, <1>3, KindsOfSteps

LEMMA ImportRowsHold ==
    ASSUME DurationsAgree
    PROVE  ImportSpec /\ []RowsApart => [](RowsWellFormed /\ AgreeInBatch)
<1>1. ImportInit => RowsWellFormed /\ AgreeInBatch
  BY SerialInit DEF ImportInit, AgreeInBatch
<1>2. ImportInv /\ AgreeInBatch /\ [ImportNext]_importVars => AgreeInBatch'
  BY AgreeStep
<1> QED
  BY <1>1, <1>2, ImportRowsStep, ImportSerialHolds, ImportInvHolds, ImportStampHolds, PTL
     DEF ImportSpec

\* Although applyImport calls none of the validators, what it stores is what
\* create would have accepted, provided that a file does not give a programme
\* both a stop and a duration that disagree: publish then refuses no draft for
\* the shape it was imported with.
THEOREM ImportRowsWellFormedWhenApart ==
    ASSUME DurationsAgree
    PROVE  ImportSpec /\ []RowsApart => []RowsWellFormed
<1>1. ImportSpec /\ []RowsApart => [](RowsWellFormed /\ AgreeInBatch)
  BY ImportRowsHold
<1> QED
  BY <1>1, PTL

-----------------------------------------------------------------------------
(* Requests that are kept apart implement the timeline, imports included.  *)

\* The INSERT of an import is the booking of a slot.
LEMMA CreateBooks ==
    ASSUME ImportInv, FreeSoFar, AgreeInBatch, NEW h \in Handlers, CreateImported(h)
    PROVE  TimelineSpec!Next
<1>1. PICK c \in ToCreate(batch[h]), s \in ScheduleIds :
        /\ c \in Candidate /\ FreshId(s) /\ NewRow(c) \in Row /\ NewRow(c) # Null
        /\ schedules'[s] = NewRow(c)
        /\ \A t \in ScheduleIds \ {s} : schedules'[t] = schedules[t]
  BY CreateInserts DEF ImportInv
<1> DEFINE a == [channel |-> c.channel, start |-> c.start, stop |-> c.stop,
                 duration |-> c.duration, status |-> "DRAFT"]
<1>2. batch[h] # Null /\ c \in batch[h].candidates
  BY <1>1 DEF CreateImported, ToCreate
<1>3. a \in TimelineSpec!Slot
  BY <1>1 DEF Candidate, TimelineSpec!Slot, TimelineSpec!Times, TimelineSpec!Durations,
              TimelineSpec!Statuses, Times, Durations
<1>4. WellFormed(a)
  <2>1. ValidRange(c) /\ DurationMatchesRange(c) /\ c.duration \in 1 .. Horizon
    BY <1>1, <1>2 DEF ImportInv, BatchesSound, BatchSound, AgreeInBatch, Candidate, Durations
  <2> QED
    BY <2>1, BoundsAssumption DEF WellFormed, ValidRange, ValidDuration, DurationMatchesRange
<1>5. TimelineSpec!Bookable(s, a)
  <2>1. ~ConflictsWithTable(c)
    BY <1>1, CreatesFree
  <2>2. \A t \in ScheduleIds \ {s} :
          IsLive(t) /\ schedules[t].channel = a.channel => ~Overlaps(schedules[t], a)
    BY <2>1 DEF ConflictsWithTable, Overlaps
  <2> QED
    BY <1>4, <2>2, FreeIsBookable DEF ImportInv
<1>6. Slots[s] = Null
  BY <1>1, FreshIsNobodys, SlotOfRow DEF ImportInv, Slots
<1>7. Slots' = [Slots EXCEPT ![s] = a]
  <2>1. ASSUME NEW t \in ScheduleIds PROVE SlotOf(t)' = IF t = s THEN a ELSE SlotOf(t)
    BY <1>1 DEF SlotOf, Exists, NewRow
  <2>2. Slots' = [t \in ScheduleIds |-> IF t = s THEN a ELSE SlotOf(t)]
    BY <2>1 DEF Slots
  <2> QED
    BY <2>2 DEF Slots
<1>8. TimelineSpec!Book(s)
  BY <1>3, <1>5, <1>6, <1>7 DEF TimelineSpec!Book, Slots
<1> QED
  BY <1>8 DEF TimelineSpec!Next

\* With requests kept apart by row and by channel, and files that do not
\* contradict themselves, imports and edits together implement the abstract
\* timeline: an import is a run of atomic bookings, and its lookups and audit
\* rows are invisible.
THEOREM ImportImplementsTimeline ==
    ASSUME ProgrammesApart, DurationsAgree
    PROVE  ImportSpec /\ []RowsApart /\ []ChannelsApart /\ []ImportsApart => ImplementsTimeline
<1>1. ImportInit => TimelineSpec!Init
  BY DEF ImportInit, Init, TimelineSpec!Init, SlotOf, Exists
<1>2. ImportSpec /\ []RowsApart /\ []ChannelsApart /\ []ImportsApart => [](BookedInv /\ FreeSoFar)
  BY ImportBookedHolds
<1>3. ImportSpec /\ []RowsApart => [](RowsWellFormed /\ AgreeInBatch)
  BY ImportRowsHold
<1>4. ImportInv /\ StampInv /\ SerialInv /\ BookedInv /\ FreeSoFar /\ AgreeInBatch
        /\ [ImportNext]_importVars
        => [TimelineSpec!Next]_[s \in ScheduleIds |-> SlotOf(s)]
  <2> SUFFICES ASSUME ImportInv, StampInv, SerialInv, BookedInv, FreeSoFar, AgreeInBatch,
                      [ImportNext]_importVars
               PROVE  TimelineSpec!Next \/ Slots' = Slots
    BY DEF Slots
  <2>1. [Next]_vars => TimelineSpec!Next \/ Slots' = Slots
    BY StepsImplementTimeline, CurrentWritesAreTrue, CheckedWritesAreFree DEF ImportInv, Slots
  <2>2. ASSUME NEW h \in Handlers, AuditImported(h) PROVE Slots' = Slots
    BY <2>2, AuditInserts DEF ImportInv, Slots, SlotOf, Exists
  <2> QED
    BY <2>1, <2>2, CreateBooks, KindsOfSteps
<1> QED
  BY <1>1, <1>2, <1>3, <1>4, ImportSerialHolds, ImportInvHolds, ImportStampHolds, PTL
     DEF ImportSpec, ImplementsTimeline, TimelineSpec!Spec

-----------------------------------------------------------------------------
(* One request at a time.                                                  *)

\* Everything above holds when the API serves its requests one by one, an
\* import being one of them.
THEOREM ImportSoundSerially ==
    ASSUME OneAtATime, ProgrammesApart, DurationsAgree
    PROVE  ImportSpec => /\ [](NoDoubleBooking /\ RowsWellFormed /\ ImportCovers)
                         /\ []AuditTrailIsAHistory
                         /\ CancelledIsFinal
                         /\ PublishedByPublishOnly
                         /\ ImplementsTimeline
<1>1. RowsApart /\ ChannelsApart /\ ImportsApart
  BY OneIsApart DEF OneAtATime, ImportsApart
<1>2. [](RowsApart /\ ChannelsApart /\ ImportsApart)
  BY <1>1, PTL
<1>3. ImportSpec /\ []RowsApart /\ []ChannelsApart /\ []ImportsApart => []NoDoubleBooking
  BY ImportNoDoubleBookingWhenApart
<1>4. ImportSpec /\ []RowsApart => []RowsWellFormed
  BY ImportRowsWellFormedWhenApart
<1>5. ImportSpec /\ []RowsApart /\ []ChannelsApart /\ []ImportsApart => ImplementsTimeline
  BY ImportImplementsTimeline
<1> QED
  BY <1>2, <1>3, <1>4, <1>5, ImportCoversWhenApart, ImportTrailIsAHistoryWhenApart,
     ImportCancelledIsFinalWhenApart, ImportPublishedByPublishOnlyWhenApart, PTL
=============================================================================
