------------------------------ MODULE Importer ------------------------------
(***************************************************************************)
(* Bulk import of programmes (apps/api/src/modules/importer) next to the   *)
(* writing endpoints of the schedule service, served by the same handlers. *)
(*                                                                         *)
(* A file is parsed and mapped to candidates by a preview, which writes    *)
(* nothing; the client sends the candidates back whenever it likes.        *)
(* applyImport first looks every candidate up for a conflict, all lookups  *)
(* in flight at once, and only then creates the others one after the       *)
(* other, each with its audit row.  It validates nothing else: what create *)
(* demands of a slot is here left to the parser of the file.               *)
(*                                                                         *)
(* Assets and the placeholder jobs of the worker are left out, and so is   *)
(* the deletion of cached responses at the end: what an import creates are *)
(* drafts, which the public API does not serve.                            *)
(***************************************************************************)
EXTENDS ScheduleService, Sequences

CONSTANTS
    Files,          \* files that may be previewed and submitted
    EpgIds,         \* identifiers of channels in files
    ChannelOf,      \* the channel with an epgId, or Null
    Titles          \* names of programmes

VARIABLE batch      \* the import a handler is busy with, or Null

importVars == <<vars, batch>>

Formats == {"CSV", "EXTERNAL_API", "XMLTV"}

\* One programme of a file.  Only a CSV row may leave out its stop and give a
\* duration; a time that is no date makes the parser refuse the file.
FileRow == [epgId : EpgIds, title : Titles, start : Times,
            stop : Times \cup {Null}, duration : Durations \cup {Null}]

File == [source : Formats, rows : Seq(FileRow)]

\* ScheduleImportCandidate: where in the file it stands, and what it says.
Candidate == [at : Nat, channel : Channels, title : Titles, start : Times,
              stop : Times, duration : Durations]

Keys == Channels \X Times \X Times \X Titles

\* An import in progress: its candidates, those looked up so far, the keys of
\* those in conflict, those created, and the row that was created last and has
\* no audit row yet.
Batch == [candidates : SUBSET Candidate, looked : SUBSET Candidate,
          conflicts : SUBSET Keys, created : SUBSET Candidate,
          unaudited : ScheduleIds \cup {Null}]

ASSUME FilesAssumption == Files \subseteq File
ASSUME ChannelOfAssumption == ChannelOf \in [EpgIds -> Channels \cup {Null}]
ASSUME NullBatchAssumption == Null \notin Batch /\ Null \notin ScheduleIds

-----------------------------------------------------------------------------
(* From a file to candidates.                                              *)

\* CsvParser.parseRow: the stop, or the duration that leads to it, must be
\* given, and the two are not compared with each other.
CsvAccepts(row) ==
    /\ row.stop # Null \/ row.duration # Null
    /\ row.stop # Null => row.start < row.stop

\* ExternalApiParser.parseProgram
ExternalApiAccepts(row) ==
    row.stop # Null /\ row.duration = Null /\ row.start < row.stop

\* XmltvParser.parseProgramme does not compare start and stop.
XmltvAccepts(row) == row.stop # Null /\ row.duration = Null

Accepts(source, row) ==
    CASE source = "CSV"          -> CsvAccepts(row)
      [] source = "EXTERNAL_API" -> ExternalApiAccepts(row)
      [] source = "XMLTV"        -> XmltvAccepts(row)

\* ScheduleMapper.toCandidates, for the programme at one place of the file.
ToCandidate(file, i) ==
    LET row  == file.rows[i]
        stop == OrElse(row.stop, row.start + row.duration)
    IN [at |-> i, channel |-> ChannelOf[row.epgId], title |-> row.title,
        start |-> row.start, stop |-> stop,
        duration |-> OrElse(row.duration, stop - row.start)]

\* What a preview returns: one row that the parser refuses refuses the file,
\* a row without a channel is set aside.
Previewable(file) == \A i \in DOMAIN file.rows : Accepts(file.source, file.rows[i])

Candidates(file) ==
    {ToCandidate(file, i) : i \in {j \in DOMAIN file.rows : ChannelOf[file.rows[j].epgId] # Null}}

\* Mutant: the body of the request is taken as it is.
SubmittableUnchecked(c) == TRUE

\* ScheduleImportCandidateDto asks for a positive duration and no more.
Submittable(c) == c.duration > 0

\* Bound: the modelled day is over with the last programme.
EndsInTime(c) == c.stop <= Horizon

-----------------------------------------------------------------------------
(* applyImport.                                                            *)

\* Mutant: candidates on different channels are taken for one another.
KeyWithoutChannel(c) == <<CHOOSE x \in Channels : TRUE, c.start, c.stop, c.title>>

\* getCandidateKey
Key(c) == <<c.channel, c.start, c.stop, c.title>>

\* Mutant: a draft is nothing to collide with.
ConflictsWithPublished(c) ==
    \E s \in ScheduleIds :
        /\ Exists(s) /\ schedules[s].status = "PUBLISHED"
        /\ schedules[s].channel = c.channel /\ Overlaps(schedules[s], c)

\* detectCandidateConflict
ConflictsWithTable(c) ==
    \E s \in ScheduleIds :
        IsLive(s) /\ schedules[s].channel = c.channel /\ Overlaps(schedules[s], c)

AllLooked(b) == b.looked = b.candidates

\* What the loop still has to create; the candidates with a key in conflict are
\* skipped, no await in between.
ToCreate(b) == {c \in b.candidates \ b.created : Key(c) \notin b.conflicts}

ImportInit == Init /\ batch = [h \in Handlers |-> Null]

\* The candidates of a preview are sent, those without a channel left out.
BeginImport(h) ==
    /\ pc[h] = "idle"
    /\ batch[h] = Null
    /\ \E file \in Files :
         /\ Previewable(file) /\ Candidates(file) # {}
         /\ \A c \in Candidates(file) : Submittable(c) /\ EndsInTime(c)
         /\ batch' = [batch EXCEPT ![h] =
              [candidates |-> Candidates(file), looked |-> {}, conflicts |-> {},
               created |-> {}, unaudited |-> Null]]
    /\ UNCHANGED vars

\* One of the lookups of detectConflicts is answered.
LookUp(h) ==
    /\ batch[h] # Null
    /\ \E c \in batch[h].candidates \ batch[h].looked :
         batch' = [batch EXCEPT
           ![h].looked = @ \cup {c},
           ![h].conflicts = IF ConflictsWithTable(c) THEN @ \cup {Key(c)} ELSE @]
    /\ UNCHANGED vars

\* prisma.schedule.create for the next candidate: an unconditional INSERT.
CreateImported(h) ==
    /\ batch[h] # Null
    /\ AllLooked(batch[h]) /\ batch[h].unaudited = Null
    /\ \E c \in ToCreate(batch[h]), s \in ScheduleIds :
         /\ \A d \in ToCreate(batch[h]) : c.at <= d.at
         /\ FreshId(s)
         /\ schedules' = [schedules EXCEPT ![s] = NewRow(c)]
         /\ batch' = [batch EXCEPT ![h].created = @ \cup {c}, ![h].unaudited = s]
    /\ UNCHANGED <<audit, pc, call, written>>

\* createScheduleAuditLog with IMPORT_CREATE, then on to the next candidate.
AuditImported(h) ==
    /\ batch[h] # Null
    /\ batch[h].unaudited # Null
    /\ audit' = audit \cup
         {[op |-> "import", id |-> batch[h].unaudited, before |-> 0, version |-> 1]}
    /\ batch' = [batch EXCEPT ![h].unaudited = Null]
    /\ UNCHANGED <<schedules, pc, call, written>>

\* The loop is over, and the response goes out.
Finished(h) ==
    /\ batch[h] # Null
    /\ AllLooked(batch[h])
    /\ ToCreate(batch[h]) = {}
    /\ batch[h].unaudited = Null

FinishImport(h) ==
    /\ Finished(h)
    /\ batch' = [batch EXCEPT ![h] = Null]
    /\ UNCHANGED vars

\* A statement fails or the process dies: the rows created so far stay.
FailImport(h) ==
    /\ Faults
    /\ batch[h] # Null
    /\ batch' = [batch EXCEPT ![h] = Null]
    /\ UNCHANGED vars

Import(h) ==
    BeginImport(h) \/ LookUp(h) \/ CreateImported(h) \/ AuditImported(h)
      \/ FinishImport(h) \/ FailImport(h)

\* The handler serves the schedules controller instead.
ServeSchedules(h) ==
    /\ batch[h] = Null
    /\ Begin(h) \/ Proceed(h) \/ Fail(h)
    /\ UNCHANGED batch

ImportNext == \E h \in Handlers : Import(h) \/ ServeSchedules(h)

ImportSpec == ImportInit /\ [][ImportNext]_importVars

-----------------------------------------------------------------------------
(* What the parsers do not ask of a file, and the properties depend on.    *)

\* The programmes of a channel do not overlap each other.
ProgrammesApart ==
    \A file \in Files : Previewable(file) =>
        \A c, d \in Candidates(file) : c # d /\ c.channel = d.channel => ~Overlaps(c, d)

\* A programme with both a stop and a duration lasts as long as it says.
DurationsAgree ==
    \A file \in Files : Previewable(file) =>
        \A c \in Candidates(file) : DurationMatchesRange(c)

-----------------------------------------------------------------------------
(* Properties.                                                             *)

ImportTypeOK == TypeOK /\ batch \in [Handlers -> Batch \cup {Null}]

\* No programme of a file is dropped without a reason: when an import has run
\* to its end, the time of every candidate is taken on its channel, by the row
\* created for it or by the one it was in conflict with.  While calls do not
\* run into each other.
ImportCovers ==
    \A h \in Handlers : Finished(h) =>
        \A c \in batch[h].candidates : ConflictsWithTable(c)
=============================================================================
