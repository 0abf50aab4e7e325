--------------------------- MODULE TimelineEditor ---------------------------
(***************************************************************************)
(* The schedule page of the admin web (features/schedule) in one browser   *)
(* tab: the rows it has fetched, the gestures and forms that turn them     *)
(* into requests, the requests on their way, the loop that publishes a     *)
(* channel, and the refetch after a success.  The API answers a request in *)
(* one step, as Timeline says: how requests run into each other on the     *)
(* server is the subject of ScheduleService.  Other operators write to the *)
(* same table, and an answer may get lost after the API has written.       *)
(*                                                                         *)
(* A fetch is one step, at the moment the API reads: what the operator     *)
(* does while the answer travels is as if done before the fetch, and an    *)
(* answer older than the latest invalidation is thrown away by the query   *)
(* client.                                                                 *)
(***************************************************************************)
EXTENDS Timeline, TimelineSnap, FiniteSets

CONSTANTS
    Calls,          \* the calls of the API client that may be under way
    MaxUnderWay,    \* bound: the calls under way, a resize in hand and the
                    \* loop of Publish Channel counting as one each
    MaxUnseen,      \* bound: the writes between two fetches that the tab does
                    \* not hear of
    Shown,          \* the channel selected in the toolbar, or all channels
    From, To,       \* the window the page fetches: the selected day, and the
                    \* next until six in the morning
    Allowed,        \* what the signed-in user may do to schedules
    PageLimit,      \* the rows the page asks the API for
    Assets,         \* the durations of the assets in the library
    Drops,          \* where a dragged card is let go
    Widths,         \* the durations a resized card is drawn to
    Forms,          \* what the detail panel may hold when it is submitted
    Offers          \* the slots that other operators make of a name

VARIABLES
    view,           \* the rows the page has, or Null
    due,            \* whether the rows are invalidated and refetched
    request,        \* the request that a call carries, or Null
    batch,          \* the loop of Publish Channel, or Null
    grip,           \* a resize between pointer down and pointer up, or Null
    hint,           \* the start the panel offers after an overlap, or Null
    unseen          \* the writes since the last fetch that the tab got no
                    \* answer for

editor == <<view, due, request, batch, grip, hint, unseen>>
editorVars == <<slots, editor>>

Rows == [ScheduleIds -> Slot \cup {Null}]

\* A payload of schedulesApi; a field that is not sent is Null, and autoSnap is
\* snapped, which only a create sends.  Kept for the properties only: from,
\* where the ghost was before the drop or the start that a resized row had, and
\* sure, whether what the operator went by was complete and up to date when the
\* request was made and the table is still the same.
Request ==
    [op : {"create", "move", "resize", "save", "snap", "follow", "publish", "delete"},
     id : ScheduleIds \cup {Null}, channel : Channels \cup {Null},
     start : Times \cup {Null}, stop : Times \cup {Null},
     duration : Nat \cup {Null}, status : Statuses \cup {Null},
     snapped : BOOLEAN, from : Int \cup {Null}, sure : BOOLEAN]

Batch == [left : SUBSET ScheduleIds, published : Nat, failed : Nat, sure : BOOLEAN]
Grip == [id : ScheduleIds, rows : Rows]
Hint == [id : ScheduleIds, start : Times]
Form == [start : Times, duration : Durations, status : Statuses]

ASSUME EditorAssumption ==
    /\ Horizon \in Nat
    /\ IsFiniteSet(ScheduleIds)
    /\ Shown \in SUBSET Channels
    /\ From \in Times /\ To \in Times
    /\ Allowed \in SUBSET {"create", "update", "publish", "delete"}
    /\ {PageLimit, MaxUnderWay, MaxUnseen} \subseteq Nat
    /\ Assets \in SUBSET Durations
    /\ Drops \in SUBSET Times
    /\ Widths \in SUBSET Nat
    /\ Forms \in SUBSET Form
    /\ Offers \in SUBSET Slot
    /\ Null \notin Slot \cup Request \cup Batch \cup Grip \cup Hint
    /\ Null \notin ScheduleIds \cup Channels \cup Int \cup Statuses

EditorTypeOK ==
    /\ TypeOK
    /\ view \in Rows
    /\ due \in BOOLEAN
    /\ request \in [Calls -> Request \cup {Null}]
    /\ batch \in Batch \cup {Null}
    /\ grip \in Grip \cup {Null}
    /\ hint \in Hint \cup {Null}
    /\ unseen \in Nat

-----------------------------------------------------------------------------
(* The page's rows. *)

\* The rows of the table that the page is about, cancelled ones among them:
\* those that reach into the window.
Listed ==
    {s \in ScheduleIds :
        /\ slots[s] # Null /\ slots[s].channel \in Shown
        /\ slots[s].start < To /\ slots[s].stop > From}

RowsOf(page) == [s \in ScheduleIds |-> IF s \in page THEN slots[s] ELSE Null]

UpToDate(rows) == rows = RowsOf(Listed)

\* What the row components and the neighbour searches look at.
OnScreen(rows, s) == rows[s] # Null /\ rows[s].status # "CANCELLED"

\* The programmes of channel c except s.
Others(rows, c, s) ==
    {rows[t] : t \in {u \in ScheduleIds \ {s} : OnScreen(rows, u) /\ rows[u].channel = c}}

\* hasOverlap
HasOverlap(others, a) == \E b \in others : Overlaps(b, a)

\* A bound: the places that the model has.  The window is a part of them, and
\* neither a drop nor the panel's date picker keeps to it.
WithinHorizon(a) == a.start \in Times /\ a.stop \in Times

\* Mutant: a resize that sends no duration.
ResizeBodyStopOnly(s, a, rows) ==
    [op |-> "resize", id |-> s, channel |-> Null, start |-> Null,
     stop |-> a.stop, duration |-> Null, status |-> Null, snapped |-> FALSE,
     from |-> rows[s].start, sure |-> UpToDate(rows)]

\* resizeSchedule
ResizeBody(s, a, rows) ==
    [op |-> "resize", id |-> s, channel |-> Null, start |-> Null,
     stop |-> a.stop, duration |-> a.duration, status |-> Null, snapped |-> FALSE,
     from |-> rows[s].start, sure |-> UpToDate(rows)]

\* createScheduleFromAsset, moveSchedule, attemptSave, handleSnapAfterPrevious
PlaceBody(op, s, c, a, status, snapped, from) ==
    [op |-> op, id |-> s, channel |-> c, start |-> a.start, stop |-> a.stop,
     duration |-> a.duration, status |-> status, snapped |-> snapped,
     from |-> from, sure |-> UpToDate(view)]

\* onSave of attemptSave; ch is the channel that the panel looked at.
SaveBody(s, ch, a, status) ==
    [PlaceBody("save", s, Null, a, status, FALSE, Null)
     EXCEPT !.sure = @ /\ view[s] # Null /\ view[s].channel = ch]

\* publishSchedule, deleteSchedule
PlainBody(op, s) ==
    [op |-> op, id |-> s, channel |-> Null, start |-> Null, stop |-> Null,
     duration |-> Null, status |-> Null, snapped |-> FALSE,
     from |-> Null, sure |-> UpToDate(view)]

Lasting(start, d) == [start |-> start, stop |-> start + d, duration |-> d]

-----------------------------------------------------------------------------
(* The API, in one step. *)

OrElse(value, default) == IF value # Null THEN value ELSE default

\* buildCreateInput for a payload of the page.
Created(r) ==
    LET start == IF r.snapped THEN SnapStart(Others(slots, r.channel, Null), r.start)
                 ELSE r.start
    IN [channel |-> r.channel, start |-> start,
        stop |-> IF r.snapped THEN start + r.duration ELSE r.stop,
        duration |-> r.duration, status |-> "DRAFT"]

\* Mutant: a status that is not sent overwrites the stored one.
UpdatedAsSent(r, row) ==
    LET start == OrElse(r.start, row.start)
    IN [channel |-> OrElse(r.channel, row.channel), start |-> start,
        stop |-> r.stop, duration |-> OrElse(r.duration, r.stop - start),
        status |-> r.status]

\* buildUpdateInput: what the payload leaves out is as stored; a stop without
\* a duration decides the duration.
Updated(r, row) ==
    LET start == OrElse(r.start, row.start)
    IN [channel |-> OrElse(r.channel, row.channel), start |-> start,
        stop |-> r.stop, duration |-> OrElse(r.duration, r.stop - start),
        status |-> OrElse(r.status, row.status)]

\* The slot that request r makes of the one named s.
Result(r, s) ==
    CASE r.op = "create"  -> Created(r)
      [] r.op = "publish" -> [slots[s] EXCEPT !.status = "PUBLISHED"]
      [] r.op = "delete"  -> [slots[s] EXCEPT !.status = "CANCELLED"]
      [] OTHER            -> Updated(r, slots[s])

\* The permission that the endpoint behind an operation demands.
Needed(op) == IF op \in {"create", "publish", "delete"} THEN op ELSE "update"

\* The guard, and what create, update, publish and remove check.
Grants(r, s) ==
    /\ Needed(r.op) \in Allowed
    /\ IF r.op = "create" THEN slots[s] = Null /\ Bookable(s, Created(r))
       ELSE
         /\ s = r.id
         /\ slots[s] # Null
         /\ r.op # "delete" =>
              /\ IsLive(s)
              /\ r.status = "PUBLISHED" => slots[s].status = "PUBLISHED"
              /\ Bookable(s, Result(r, s))

\* After a write nobody is sure of the table any more.
Unsure(requests) ==
    [c \in Calls |-> IF requests[c] = Null THEN Null
                     ELSE [requests[c] EXCEPT !.sure = FALSE]]

UnsureBatch == IF batch = Null THEN Null ELSE [batch EXCEPT !.sure = FALSE]

-----------------------------------------------------------------------------
(* What the operator does. *)

EditorInit ==
    /\ Init
    /\ view = [s \in ScheduleIds |-> Null]
    /\ due = TRUE
    /\ request = [c \in Calls |-> Null]
    /\ batch = Null
    /\ grip = Null
    /\ hint = Null
    /\ unseen = 0

UnderWay ==
    Cardinality({c \in Calls : request[c] # Null})
      + (IF batch = Null THEN 0 ELSE 1) + (IF grip = Null THEN 0 ELSE 1)

\* The operator has one pointer: nothing else is clicked while it holds a card.
Idle == grip = Null /\ UnderWay < MaxUnderWay

Send(c, r) ==
    /\ request[c] = Null
    /\ request' = [request EXCEPT ![c] = r]

\* Mutant: the check is left to the API.
FreeUnchecked(others, slot) == TRUE

\* handleDragEnd sends nothing when the place is taken.
FreeToDrop(others, slot) == ~HasOverlap(others, slot)

\* A card of the asset library is dropped on the row of the selected channel.
DropAsset(c) ==
    /\ Idle
    /\ \E ch \in Channels, at \in Drops, d \in Assets :
         LET others == Others(view, ch, Null)
             ghost  == ScheduleSnap(others, at, d).start
             place  == DropPlace(others, at, d)
             slot   == Lasting(place.start, d)
         IN /\ Shown = {ch}
            /\ WithinHorizon(slot)
            /\ FreeToDrop(others, slot)
            /\ Send(c, PlaceBody("create", Null, ch, slot, "DRAFT", place.snapped, ghost))
    /\ UNCHANGED <<slots, view, due, batch, grip, hint, unseen>>

\* A programme is dragged to another time, or to the row of another channel.
Move(c) ==
    /\ Idle
    /\ \E s \in ScheduleIds, ch \in Shown, at \in Drops :
         LET d      == view[s].duration
             others == Others(view, ch, s)
             ghost  == ScheduleSnap(others, at, d).start
             place  == DropPlace(others, at, d)
             slot   == Lasting(place.start, d)
         IN /\ OnScreen(view, s)
            /\ WithinHorizon(slot)
            /\ FreeToDrop(others, slot)
            /\ Send(c, PlaceBody("move", s, ch, slot, Null, place.snapped, ghost))
    /\ UNCHANGED <<slots, view, due, batch, grip, hint, unseen>>

\* startResize: the handler that will run on pointer up closes over the rows
\* of this moment.
PointerDown(s) ==
    /\ Idle
    /\ OnScreen(view, s)
    /\ grip' = [id |-> s, rows |-> view]
    /\ UNCHANGED <<slots, view, due, request, batch, hint, unseen>>

\* handlePointerUp
PointerUp(c) ==
    /\ grip # Null
    /\ grip' = Null
    /\ \E d \in Widths :
         LET row    == grip.rows[grip.id]
             others == Others(grip.rows, row.channel, grip.id)
             slot   == ResizeSnap(others, row.start, d)
         IN /\ WithinHorizon(slot)
            /\ \/ /\ HasOverlap(others, slot)
                  /\ UNCHANGED request
               \/ /\ ~HasOverlap(others, slot)
                  /\ Send(c, ResizeBody(grip.id, slot, grip.rows))
    /\ UNCHANGED <<slots, view, due, batch, hint, unseen>>

\* attemptSave.  The panel keeps a row from when it was selected, which says
\* the id and the channel, and its form holds anything by now.
Save(c) ==
    /\ Idle
    /\ \E s \in ScheduleIds, ch \in Shown, f \in Forms :
         LET others == Others(view, ch, s)
             slot   == EdgeSnap(others, f.start, f.duration)
             before == {a.stop : a \in EndedBy(others, slot.start)}
         IN /\ slots[s] # Null
            /\ WithinHorizon(slot)
            /\ \/ /\ HasOverlap(others, slot)
                  /\ hint' = IF before = {} THEN Null
                             ELSE [id |-> s, start |-> Latest(before)]
                  /\ UNCHANGED request
               \/ /\ ~HasOverlap(others, slot)
                  /\ hint' = Null
                  /\ Send(c, SaveBody(s, ch, slot, f.status))
    /\ UNCHANGED <<slots, view, due, batch, grip, unseen>>

\* The panel's "Snap after previous": the start it offered, with the form's
\* duration and status, and no second look at the rows.
SaveAtHint(c) ==
    /\ Idle
    /\ hint # Null
    /\ hint' = Null
    /\ \E f \in Forms :
         LET slot == Lasting(hint.start, f.duration)
         IN /\ WithinHorizon(slot)
            /\ Send(c, PlaceBody("snap", hint.id, Null, slot, f.status, FALSE, Null))
    /\ UNCHANGED <<slots, view, due, batch, grip, unseen>>

\* Another row is selected, the alert is closed or the start is changed.
ForgetHint ==
    /\ grip = Null
    /\ hint # Null
    /\ hint' = Null
    /\ UNCHANGED <<slots, view, due, request, batch, grip, unseen>>

\* The warning panel's "Snap to previous", on the rows of now.
Follow(c) ==
    /\ Idle
    /\ \E s \in ScheduleIds :
         LET before == {a.stop : a \in EndedBy(Others(view, view[s].channel, s),
                                               view[s].start)}
             slot   == Lasting(Latest(before), view[s].duration)
         IN /\ view[s] # Null
            /\ before # {}
            /\ Send(c, PlaceBody("follow", s, Null, slot, Null, FALSE, Null))
    /\ UNCHANGED <<slots, view, due, batch, grip, hint, unseen>>

\* The panel's Publish and Remove.
PublishOrRemove(c) ==
    /\ Idle
    /\ \E s \in ScheduleIds, op \in {"publish", "delete"} :
         /\ slots[s] # Null
         /\ Send(c, PlainBody(op, s))
    /\ UNCHANGED <<slots, view, due, batch, grip, hint, unseen>>

\* publishableSchedules
Publishable(ch) ==
    {s \in ScheduleIds : view[s] # Null /\ view[s].channel = ch /\ view[s].status = "DRAFT"}

\* handlePublishChannel: the button is off while the loop runs.
PublishChannel ==
    /\ Idle
    /\ batch = Null
    /\ \E ch \in Channels :
         /\ Shown = {ch}
         /\ Publishable(ch) # {}
         /\ batch' = [left |-> Publishable(ch), published |-> 0, failed |-> 0,
                      sure |-> UpToDate(view)]
    /\ UNCHANGED <<slots, view, due, request, grip, hint, unseen>>

-----------------------------------------------------------------------------
(* What comes of it. *)

Write(s, a) == slots' = [slots EXCEPT ![s] = a]

\* Mutant: a write is not followed by an invalidation.
DueAfterKept == due

\* invalidateTimeline
DueAfter == TRUE

\* The API grants a request and the tab hears of it: the rows are invalidated
\* and the answer, or nothing, is selected, which clears the panel's alert.
Granted(c) ==
    /\ request[c] # Null
    /\ \E s \in ScheduleIds :
         /\ Grants(request[c], s)
         /\ Write(s, Result(request[c], s))
    /\ request' = Unsure([request EXCEPT ![c] = Null])
    /\ batch' = UnsureBatch
    /\ due' = DueAfter
    /\ hint' = Null
    /\ UNCHANGED <<view, grip, unseen>>

\* The API grants a request, but the answer does not arrive: onError.
GrantedUnheard(c) ==
    /\ request[c] # Null
    /\ \E s \in ScheduleIds :
         /\ Grants(request[c], s)
         /\ Write(s, Result(request[c], s))
    /\ request' = Unsure([request EXCEPT ![c] = Null])
    /\ batch' = UnsureBatch
    /\ unseen < MaxUnseen
    /\ unseen' = unseen + 1
    /\ UNCHANGED <<view, due, grip, hint>>

\* The request is refused, or does not arrive: onError.
Failed(c) ==
    /\ request[c] # Null
    /\ request' = [request EXCEPT ![c] = Null]
    /\ UNCHANGED <<slots, view, due, batch, grip, hint, unseen>>

\* The loop publishes one row of its list ...
BatchPublishes(s) ==
    /\ batch # Null
    /\ s \in batch.left
    /\ Grants(PlainBody("publish", s), s)
    /\ Write(s, Result(PlainBody("publish", s), s))
    /\ batch' = [batch EXCEPT !.left = @ \ {s}, !.published = @ + 1]
    /\ request' = Unsure(request)
    /\ UNCHANGED <<view, due, grip, hint, unseen>>

\* ... or is refused.
BatchFails(s) ==
    /\ batch # Null
    /\ s \in batch.left
    /\ ~Grants(PlainBody("publish", s), s)
    /\ batch' = [batch EXCEPT !.left = @ \ {s}, !.failed = @ + 1]
    /\ UNCHANGED <<slots, view, due, request, grip, hint, unseen>>

\* It is published, but the answer does not arrive and is counted as a failure.
BatchUnheard(s) ==
    /\ batch # Null
    /\ s \in batch.left
    /\ Grants(PlainBody("publish", s), s)
    /\ Write(s, Result(PlainBody("publish", s), s))
    /\ batch' = [batch EXCEPT !.left = @ \ {s}, !.failed = @ + 1, !.sure = FALSE]
    /\ request' = Unsure(request)
    /\ unseen < MaxUnseen
    /\ unseen' = unseen + 1
    /\ UNCHANGED <<view, due, grip, hint>>

\* One invalidation after the whole loop, whatever came of it.
BatchEnds ==
    /\ batch # Null
    /\ batch.left = {}
    /\ batch' = Null
    /\ due' = DueAfter
    /\ UNCHANGED <<slots, view, request, grip, hint, unseen>>

\* A page of findAll: the first rows by start time.
Page(page) ==
    /\ page \subseteq Listed
    /\ page = Listed \/ Cardinality(page) = PageLimit
    /\ Cardinality(page) <= PageLimit
    /\ \A s \in page, t \in Listed \ page : slots[s].start <= slots[t].start

\* getSchedules, because rows were invalidated, the window got the focus or
\* Refresh was pressed.
Fetch ==
    /\ \E page \in SUBSET ScheduleIds : Page(page) /\ view' = RowsOf(page)
    /\ due' = FALSE
    /\ unseen' = 0
    /\ UNCHANGED <<slots, request, batch, grip, hint>>

\* Another operator books or edits.
OthersPlace(s) ==
    \E a \in Offers :
        /\ \/ slots[s] = Null /\ a.status = "DRAFT"
           \/ IsLive(s) /\ a.status = slots[s].status /\ a # slots[s]
        /\ Bookable(s, a)
        /\ Write(s, a)

\* Another operator's request is granted.
OthersWrite ==
    /\ \E s \in ScheduleIds :
         \/ OthersPlace(s)
         \/ Publish(s)
         \/ Cancel(s)
    /\ slots' # slots
    /\ request' = Unsure(request)
    /\ batch' = UnsureBatch
    /\ unseen < MaxUnseen
    /\ unseen' = unseen + 1
    /\ UNCHANGED <<view, due, grip, hint>>

Gesture(c) ==
    \/ DropAsset(c) \/ Move(c) \/ PointerUp(c) \/ Save(c) \/ SaveAtHint(c)
    \/ Follow(c) \/ PublishOrRemove(c)

EditorNext ==
    \/ \E c \in Calls : Gesture(c) \/ Granted(c) \/ GrantedUnheard(c) \/ Failed(c)
    \/ \E s \in ScheduleIds : PointerDown(s) \/ BatchPublishes(s) \/ BatchFails(s) \/ BatchUnheard(s)
    \/ ForgetHint \/ PublishChannel \/ BatchEnds \/ Fetch \/ OthersWrite

EditorSpec == EditorInit /\ [][EditorNext]_editorVars

-----------------------------------------------------------------------------
(* Properties. *)

\* The place that r asks for reaches out of the window that the page fetched.
ReachesOut(r) ==
    \/ r.start # Null /\ r.start < From
    \/ r.stop # Null /\ r.stop > To

\* A programme that the page did not fetch is in the way of r.
UnfetchedInTheWay(r) ==
    /\ ReachesOut(r)
    /\ \E t \in ScheduleIds \ (Listed \cup {r.id}) :
         /\ IsLive(t)
         /\ slots[t].channel = Result(r, r.id).channel
         /\ Overlaps(slots[t], Result(r, r.id))

\* What the page sends is refused only if its rows were incomplete or no longer
\* true when it was sent or are no longer true now, or for one of the reasons
\* that the page does not look at: the user may not do it (the page checks no
\* permission), the place reaches out of the fetched window and a programme
\* beyond it is in the way (SchedulesPage.tsx:54-62), the row is cancelled, the
\* duration is zero, or the panel offers a status that the API does not take.
\* Within the window the page's own checks (hasOverlap on the snapped place,
\* useScheduleDrag.ts:160 and :183, useScheduleResize.ts:44,
\* ScheduleDetailPanel.tsx:123, none in the warning panel) are as strict as the
\* conflict check of the API, and auto-snap on the server never spoils a free
\* place.  "Snap after previous" in the panel is no part of this: the form's
\* duration goes unchecked (ScheduleDetailPanel.tsx:159-176).
RefusedOnlyIfOutdated ==
    /\ \A c \in Calls :
         LET r == request[c] IN
         r # Null /\ r.sure /\ r.op # "snap" =>
            \/ \E s \in ScheduleIds : Grants(r, s)
            \/ Needed(r.op) \notin Allowed
            \/ r.op = "create" /\ \A s \in ScheduleIds : slots[s] # Null
            \/ r.op # "create" /\ ~IsLive(r.id)
            \/ r.duration = 0
            \/ r.status = "PUBLISHED" /\ slots[r.id].status # "PUBLISHED"
            \/ UnfetchedInTheWay(r)
    /\ (batch # Null /\ batch.sure /\ "publish" \in Allowed) => batch.failed = 0

\* A resize is granted only if the programme still starts where the operator
\* saw it start when the pointer went down (useScheduleResize.ts:13-57): one
\* that was moved meanwhile is left alone, although nothing else compares the
\* row with what the page showed.
ResizeOnSeenStart ==
    \A c \in Calls :
        LET r == request[c] IN
        r # Null /\ r.op = "resize" /\ Grants(r, r.id) => slots[r.id].start = r.from

\* A card that is dropped away from the edges of other programmes is saved
\* where its ghost was shown, on a line of the grid, although the drop snaps
\* the ghost once more (useScheduleDrag.ts:150-158 and :172-181): what the
\* second rounding moves either lands at an edge or is not sent.
DropsWhereShown ==
    \A c \in Calls :
        LET r == request[c] IN
        r # Null /\ r.op \in {"create", "move"} /\ ~r.snapped =>
            r.start = r.from /\ r.start % Grid = 0

\* When nothing is invalidated and nobody else wrote since the last fetch, the
\* page shows the table, up to the page limit: every success of every gesture,
\* and the loop at its end, is followed by a refetch
\* (useTimelineMutations.ts:15-63 and :90).
OwnWritesAreShown ==
    ~due /\ unseen = 0 /\ batch = Null /\ Cardinality(Listed) <= PageLimit => UpToDate(view)
=============================================================================
