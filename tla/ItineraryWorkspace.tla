------------------------ MODULE ItineraryWorkspace ------------------------
(***************************************************************************)
(* A browser tab that edits a trip (apps/web/components/itinerary-         *)
(* workspace.tsx, itinerary-item-editor.tsx) against the saved itinerary   *)
(* of TripRepository.  It shows a change at once, sends it with the        *)
(* revision it had, and keeps, corrects or undoes it with the answer.      *)
(* Other tabs, the assistant and API clients are the repository's own      *)
(* steps.  The tab may reload at any time; requests and answers get lost.  *)
(***************************************************************************)
EXTENDS TripRepository

CONSTANT MaxSubmits     \* bound on the changes the tab attempts

VARIABLES
  shown,     \* "loading", "ready", "error" or "offline": what the page renders
  view,      \* the trip on the page: revision, rows and contents, and (history) the items
             \* whose saved change it missed to show since it was read; or NoTrip
  loading,   \* loadTrip: its answer on the way, or NoLoad
  editor,    \* the open editor or removal dialog: the item as it was when opened
  call,      \* the change in flight: its request, the page before and after it
  submits    \* the changes attempted

page == <<shown, view, loading, editor, call, submits>>
vars == <<saved, page>>

NoTrip == [rev |-> 0]
Snapshot == [rev |-> revision, place |-> place, text |-> text, missed |-> {}]
NoEditor == [mode |-> "none"]
NoLoad == [trip |-> [rev |-> -1]]
NoCall == [stage |-> "none"]

---------------------------------------------------------------------------
\* The items of a day as the page orders and numbers them.

DayItems(pos, d) == {x \in Items : pos[x].in = d}
Rank(pos, d, x, y) == Cardinality({z \in DayItems(pos, d) \ {x} : pos[z].at < pos[y].at})

\* orderedWithMove: x at k, the others around it, numbered from 0.
OrderedWithMove(pos, d, x, k) == [y \in Rows |->
  IF y = x THEN At(d, k)
  ELSE IF y \in DayItems(pos, d)
  THEN LET r == Rank(pos, d, x, y) IN At(d, IF r < k THEN r ELSE r + 1)
  ELSE pos[y]]

\* Mutant: the items behind the one removed keep their numbers.
WithoutItemGap(pos, d, x) == [pos EXCEPT ![x] = At("deleted", 0)]
WithoutItem(pos, d, x) == [y \in Rows |->
  IF y = x THEN At("deleted", 0)
  ELSE IF y \in DayItems(pos, d) THEN At(d, Rank(pos, d, x, y)) ELSE pos[y]]

\* What the editor submits after it validated the form.
Drafts == Texts

ShownDays == {d \in Days : view.place[d].in = "days"}

---------------------------------------------------------------------------
\* loadTrip: on mount, by Refresh or Try again, and after suggestions were
\* applied; nothing keeps it from running beside a change.  GET /trips/:tripId
\* reads in one repeatable-read transaction; the answer takes its time.
Load ==
  /\ loading = NoLoad
  /\ loading' = [trip |-> IF exists THEN Snapshot ELSE NoTrip]
  /\ shown' = IF view = NoTrip THEN "loading" ELSE shown
  /\ UNCHANGED <<saved, view, editor, call, submits>>

Loaded ==
  /\ loading # NoLoad /\ loading.trip # NoTrip
  /\ loading' = NoLoad /\ view' = loading.trip /\ shown' = "ready"
  /\ UNCHANGED <<saved, editor, call, submits>>

\* Without a trip on the page, a network failure falls back to the package
\* on the device, if there is one.
LoadFails ==
  /\ loading # NoLoad
  /\ loading' = NoLoad
  /\ shown' \in IF view = NoTrip THEN {"error", "offline"} ELSE {shown}
  /\ UNCHANGED <<saved, view, editor, call, submits>>

---------------------------------------------------------------------------
OpenEditor == \E mode \in {"add", "duplicate", "edit", "remove"}, d \in Days :
  /\ shown = "ready" /\ editor = NoEditor /\ call = NoCall /\ d \in ShownDays
  /\ IF mode = "add"
     THEN editor' = [mode |-> "add", day |-> d]
     ELSE \E x \in DayItems(view.place, d) :
       editor' = [mode |-> mode, day |-> d, item |-> x, at |-> view.place[x].at]
  /\ UNCHANGED <<saved, shown, view, loading, call, submits>>

CloseEditor ==
  /\ editor # NoEditor /\ call = NoCall
  /\ editor' = NoEditor
  /\ UNCHANGED <<saved, shown, view, loading, call, submits>>

\* A change: the page shows it, the request goes out with the revision the
\* page had before.
Submit(op, x, d, k, c, after) ==
  /\ call = NoCall /\ submits < MaxSubmits
  /\ submits' = submits + 1
  /\ view' = after
  /\ call' = [stage |-> "sent", op |-> op, item |-> x, day |-> d, at |-> k, text |-> c,
              before |-> view, after |-> after, rev |-> 0]
  /\ UNCHANGED <<saved, shown, loading, editor>>

\* A new item at the end of the selected day, a copy behind the item it copies.
\* When the day is gone, the first day is the selected one.
SubmitAdd == \E x \in Items, d \in Days, c \in Drafts :
  /\ editor.mode \in {"add", "duplicate"} /\ d \in ShownDays
  /\ d = editor.day \/ (editor.mode = "add" /\ editor.day \notin ShownDays /\ view.place[d].at = 0)
  /\ place[x].in = "unsaved" /\ view.place[x].in = "unsaved"
  /\ LET total == Cardinality(DayItems(view.place, d))
         k == IF editor.mode = "add" THEN total ELSE editor.at + 1
         clamped == IF k < total THEN k ELSE total
     IN Submit("create", x, d, k, c,
          [view EXCEPT !.place = OrderedWithMove(@, d, x, clamped), !.text[x] = c])

\* Other contents, or another place: the page changes the item in the day it
\* had when the editor opened.
SubmitEdit == \E c \in Drafts :
  /\ editor.mode = "edit" /\ editor.day \in ShownDays
  /\ LET x == editor.item
     IN Submit("update", x, editor.day, editor.at, c,
          IF x \in DayItems(view.place, editor.day)
          THEN [view EXCEPT !.text[x] = c, !.place[x] = At(editor.day, editor.at)] ELSE view)

ConfirmRemove ==
  /\ editor.mode = "remove" /\ editor.day \in ShownDays
  /\ LET x == editor.item
     IN Submit("delete", x, editor.day, 0, "kept",
          IF x \in DayItems(view.place, editor.day)
          THEN [view EXCEPT !.place = WithoutItem(@, editor.day, x)] ELSE view)

MoveItem == \E x \in Items, k \in 0 .. Cardinality(Items) :
  /\ shown = "ready" /\ editor = NoEditor
  /\ view.place[x].in \in ShownDays /\ view.place[x].at # k
  /\ k < Cardinality(DayItems(view.place, view.place[x].in))
  /\ Submit("move", x, view.place[x].in, k, "kept",
       [view EXCEPT !.place = OrderedWithMove(@, view.place[x].in, x, k)])

---------------------------------------------------------------------------
\* The API applies the request in one transaction and answers with the item
\* and the new revision, or refuses it: another revision (409), or a row or a
\* position that is not there (404, 400).

Fits == exists /\ LET x == call.item IN
  IF call.op = "create" THEN place[call.day].in = "days" /\ call.at <= Total(call.day)
  ELSE place[x].in \in Days /\ (call.op = "move" => call.at < Total(place[x].in))

Apply(e, x) ==
  \/ call.op = "create" /\ CreateItem(e, x, call.day, call.at, call.text)
  \/ call.op = "update" /\ UpdateItem(e, x, place[x].in, place[x].at, call.text)
  \/ call.op = "move" /\ UpdateItem(e, x, place[x].in, call.at, text[x])
  \/ call.op = "delete" /\ DeleteItem(e, x)

\* Mutant: the request carries no revision.
ServeUnchecked ==
  /\ call.stage = "sent" /\ Fits /\ Apply(revision, call.item)
  /\ call' = [call EXCEPT !.stage = "saved", !.rev = revision',
                          !.at = place'[call.item].at, !.text = text'[call.item]]
  /\ UNCHANGED <<shown, view, loading, editor, submits>>
Serve ==
  /\ call.stage = "sent" /\ Fits /\ Apply(call.before.rev, call.item)
  /\ call' = [call EXCEPT !.stage = "saved", !.rev = revision',
                          !.at = place'[call.item].at, !.text = text'[call.item]]
  /\ UNCHANGED <<shown, view, loading, editor, submits>>

Fail ==
  /\ call.stage = "sent" /\ ~Fits
  /\ call' = [call EXCEPT !.stage = "failed"]
  /\ UNCHANGED <<saved, shown, view, loading, editor, submits>>

\* The request or its answer is lost.
Lose ==
  /\ call.stage \in {"sent", "saved"}
  /\ call' = [call EXCEPT !.stage = "failed"]
  /\ UNCHANGED <<saved, shown, view, loading, editor, submits>>

---------------------------------------------------------------------------
\* The answer reaches the page: the saved item takes its place in the day the
\* page changed, the trip takes the new revision, and the editor closes.  An
\* item that had left that day before the change is looked for there in vain:
\* the page does not show what became of it.
Taken ==
  LET d == call.day
      x == call.item
  IN IF x \in DayItems(call.after.place, d)
     THEN [call.after EXCEPT !.rev = call.rev, !.text[x] = call.text,
             !.place[x] = At(d, IF call.op = "move" THEN @.at ELSE call.at)]
     ELSE [call.after EXCEPT !.rev = call.rev,
             !.missed = @ \union ({x} \ DayItems(call.before.place, d))]

Saved ==
  /\ call.stage = "saved"
  /\ view' = Taken /\ call' = NoCall
  /\ editor' = IF call.op = "move" THEN editor ELSE NoEditor
  /\ UNCHANGED <<saved, shown, loading, submits>>

\* restoreAfterFailure: the page as it was; the editor stays open with its
\* draft.  A conflict reloads the trip first.
Restored ==
  /\ call.stage = "failed"
  /\ view' = call.before /\ call' = NoCall
  /\ UNCHANGED <<saved, shown, loading, editor, submits>>

Conflict ==
  /\ call.stage = "sent" /\ exists /\ call.before.rev # revision
  /\ view' = call.before /\ call' = [stage |-> "reload"]
  /\ UNCHANGED <<saved, shown, loading, editor, submits>>

Reread ==
  /\ call.stage = "reload" /\ exists
  /\ call' = [stage |-> "reloaded", trip |-> Snapshot]
  /\ UNCHANGED <<saved, shown, view, loading, editor, submits>>

Reloaded ==
  /\ call.stage = "reloaded"
  /\ view' = call.trip /\ call' = NoCall
  /\ UNCHANGED <<saved, shown, loading, editor, submits>>

ReloadFails ==
  /\ call.stage \in {"reload", "reloaded"}
  /\ call' = NoCall
  /\ UNCHANGED <<saved, shown, view, loading, editor, submits>>

---------------------------------------------------------------------------
\* Another client's operation on the items or a day; an item may go to another
\* day, and new rows have new identifiers.
Elsewhere ==
  /\ revision < MaxRevision
  /\ \/ \E x \in Items, d \in Days : CreateItem(revision, x, d, 0, text[x])
     \/ \E x \in Items, d \in Days, k \in 0 .. Cardinality(Items), c \in Texts :
          UpdateItem(revision, x, d, k, c)
     \/ \E x \in Items : DeleteItem(revision, x)
     \/ \E d \in Days, n \in Dates, k \in 0 .. Cardinality(Days) : CreateDay(revision, d, n, k)
     \/ \E d \in Days : DeleteDay(revision, d)
     \/ DeleteTrip(revision)
  /\ call.stage = "sent" /\ call.op = "create" => place'[call.item] = place[call.item]
  /\ UNCHANGED page

PageOpens ==
  /\ shown = "loading" /\ view = NoTrip /\ loading = NoLoad /\ editor = NoEditor
  /\ call = NoCall /\ submits = 0

Answers == Serve \/ Fail \/ Lose
Settles == Saved \/ Restored \/ Conflict \/ Reread \/ Reloaded \/ ReloadFails
PageNext ==
  \/ Load \/ Loaded \/ LoadFails \/ OpenEditor \/ CloseEditor
  \/ SubmitAdd \/ SubmitEdit \/ ConfirmRemove \/ MoveItem
  \/ Answers \/ Settles \/ Elsewhere

\* A fetch ends, with an answer or without, and so does what awaits it.
PageFairness == WF_vars(Lose \/ Settles)

---------------------------------------------------------------------------
\* A page without a change in flight that carries the trip's revision shows
\* the trip: its days and items, where they are, with their contents.  Except
\* once its user saved an edit or a removal of an item that had gone to another
\* day since the dialog opened: until it reads the trip again, a page may then
\* carry the revision of a trip it does not show.
ViewIsSaved ==
  call.stage = "none" /\ exists /\ view # NoTrip /\ view.rev = revision /\ view.missed = {} =>
  view.place = place /\ view.text = text

\* A change reaches the rows only if they are the rows the page showed when
\* its user made it, with the same exception.
AppliedAsSeen == [][call.stage = "sent" /\ call'.stage = "saved" /\ call.before.missed = {} =>
  call.before.place = place /\ call.before.text = text]_vars

\* What leaves the page's editor locked: every change ends, saved or undone.
Changing == call.stage # "none"
=============================================================================
