----------------------------- MODULE AdminEvents -----------------------------
(***************************************************************************)
(* Events: the detail page with its lifecycle, the editor of drafts, and    *)
(* the part of the admin API behind them.  An event has a version that any  *)
(* change raises, and a revision that a change after publication raises;    *)
(* publishing records the text of the revision for good.  "text" names the  *)
(* contents of an event by the version they were written with.  The detail  *)
(* page stays mounted when the event in its address changes, and cancels no *)
(* request; neither page disables its buttons while a request is under way. *)
(***************************************************************************)
EXTENDS Naturals

CONSTANTS Events,       \* ids of events
          Fetches,      \* GETs under way at a time
          Changes,      \* POSTs and PUTs under way at a time
          MaxVersion    \* bound on the versions of an event

ASSUME EventsAssumption == 1 \in Events /\ 0 \notin Events /\ 1 \in Fetches /\ MaxVersion \in Nat \ {0}

VARIABLES event,        \* rows of events
          recorded,     \* rows of event_versions: the text by event and revision
          desk,         \* the detail page, the editor or the create page
          fetch,        \* its GETs
          change        \* its POSTs and PUTs

eventVars == <<event, recorded, desk, fetch, change>>

NoEvent  == [id |-> 0, st |-> "none", ver |-> 0, rev |-> 1, text |-> 0]
NoFetch  == [st |-> "none", at |-> 0, row |-> NoEvent]
NoChange == [st |-> "none", here |-> FALSE, kind |-> "save", seen |-> NoEvent]

-----------------------------------------------------------------------------
(* The admin API.                                                          *)

\* The states an event may leave for the one a click asks for.
From(kind) == CASE kind = "schedule" -> {"draft"}
                [] kind = "publish"  -> {"draft", "scheduled"}
                [] kind = "archive"  -> {"published"}
To(kind)   == CASE kind = "schedule" -> "scheduled"
                [] kind = "publish"  -> "published"
                [] kind = "archive"  -> "archived"

\* Mutant: ... of the same revision.
UpdateInPlace(row) ==
  [row EXCEPT !.ver = @ + 1, !.text = row.ver + 1,
              !.st = IF @ = "published" THEN "draft" ELSE @]

\* A published event that is changed is a draft of its next revision.
UpdateEvent(row) ==
  LET out == row.st = "published"
  IN [row EXCEPT !.ver = @ + 1, !.text = row.ver + 1,
                 !.st = IF out THEN "draft" ELSE @, !.rev = IF out THEN @ + 1 ELSE @]

TransitionEvent(row, kind) == [row EXCEPT !.ver = @ + 1, !.st = To(kind)]

Store(row, kind) ==
  /\ event' = [event EXCEPT ![row.id] = row]
  /\ recorded' = IF kind = "publish" THEN [recorded EXCEPT ![row.id][row.rev] = row.text] ELSE recorded

UpToDate(seen) == event[seen.id].ver = seen.ver /\ seen.ver < MaxVersion

\* Mutant: the version is not looked at.
AcceptsAnyVersion(kind, seen) ==
  /\ event[seen.id].ver < MaxVersion
  /\ kind # "save" => event[seen.id].st \in From(kind)

\* A change of the version the page saw is made, unless its dates forbid it.
Accepts(kind, seen) ==
  UpToDate(seen) /\ (kind # "save" => event[seen.id].st \in From(kind))

\* The answer may be lost when the change was made.
Changed(c, row) ==
  change' \in {[change EXCEPT ![c].st = "done", ![c].seen = row], [change EXCEPT ![c].st = "failed"]}

ServeChange(c) ==
  /\ change[c].st = "sent"
  /\ LET kind == change[c].kind
         seen == change[c].seen
         row  == IF kind = "save" THEN UpdateEvent(event[seen.id])
                 ELSE TransitionEvent(event[seen.id], kind)
     IN \/ change' = [change EXCEPT ![c].st = "failed"] /\ UNCHANGED <<event, recorded>>
        \/ /\ kind # "create" /\ Accepts(kind, seen)
           /\ Store(row, kind) /\ Changed(c, row)
        \/ /\ kind = "create"
           /\ \E e \in Events :
                LET draft == [NoEvent EXCEPT !.id = e, !.st = "draft", !.ver = 1, !.text = 1]
                IN event[e].st = "none" /\ Store(draft, kind) /\ Changed(c, draft)
  /\ UNCHANGED <<desk, fetch>>

ServeEvent(f) ==
  /\ fetch[f].st = "sent"
  /\ fetch' \in {[fetch EXCEPT ![f].st = "done", ![f].row = event[fetch[f].at]],
                 [fetch EXCEPT ![f].st = "failed"]}
  /\ UNCHANGED <<event, recorded, desk, change>>

\* Another administrator, who sees the event as it is.
OtherAdminChanges(e) ==
  /\ event[e].st # "none" /\ event[e].ver < MaxVersion
  /\ \/ Store(UpdateEvent(event[e]), "save")
     \/ \E kind \in {"schedule", "publish", "archive"} :
          event[e].st \in From(kind) /\ Store(TransitionEvent(event[e], kind), kind)
  /\ UNCHANGED <<desk, fetch, change>>

-----------------------------------------------------------------------------
(* The pages.                                                              *)

Left(calls) == [k \in Changes |-> [calls[k] EXCEPT !.here = FALSE]]
NoFetches   == [f \in Fetches |-> NoFetch]

Fetch(fetches, e) ==
  \E f \in Fetches : /\ fetches[f].st = "none"
                     /\ fetch' = [fetches EXCEPT ![f] = [NoFetch EXCEPT !.st = "sent", !.at = e]]

\* From one event's detail to another's nothing is mounted anew; any other way
\* to a page is, and what the page before it had asked for is not shown.
Show(mode, e, calls) ==
  LET stays == mode = "detail" /\ desk.mode = "detail"
  IN /\ desk' = IF stays THEN [desk EXCEPT !.at = e]
                ELSE [mode |-> mode, at |-> e, shown |-> NoEvent, typed |-> FALSE]
     /\ change' = IF stays THEN calls ELSE Left(calls)
     /\ LET fetches == IF stays THEN fetch ELSE NoFetches
        IN IF mode = "new" THEN fetch' = fetches ELSE Fetch(fetches, e)

Navigate ==
  /\ \/ \E mode \in {"detail", "edit"}, e \in Events :
          event[e].st # "none" /\ (mode # desk.mode \/ e # desk.at) /\ Show(mode, e, change)
     \/ desk.mode # "new" /\ Show("new", 0, change)
  /\ UNCHANGED <<event, recorded>>

TokenRefreshed ==
  /\ desk.mode # "new" /\ Fetch(fetch, desk.at)
  /\ UNCHANGED <<event, recorded, desk, change>>

\* The event of the answer is shown, whichever the address names by now; in
\* the editor it replaces what was typed.
EventArrives(f) ==
  /\ fetch[f].st \in {"done", "failed"}
  /\ desk' = IF fetch[f].st = "failed" THEN desk
             ELSE [desk EXCEPT !.shown = fetch[f].row, !.typed = FALSE]
  /\ fetch' = [fetch EXCEPT ![f] = NoFetch]
  /\ UNCHANGED <<event, recorded, change>>

Type ==
  /\ desk.mode = "new" \/ (desk.mode = "edit" /\ desk.shown.id # 0)
  /\ ~desk.typed /\ desk' = [desk EXCEPT !.typed = TRUE]
  /\ UNCHANGED <<event, recorded, fetch, change>>

SendChange(kind) ==
  /\ \E c \in Changes : /\ change[c].st = "none"
                        /\ change' = [change EXCEPT ![c] = [st |-> "sent", here |-> TRUE, kind |-> kind,
                                                            seen |-> desk.shown]]
  /\ UNCHANGED <<event, recorded, desk, fetch>>

\* The detail page shows a button for what the event it shows may become.
ClickTransition ==
  /\ desk.mode = "detail"
  /\ \E kind \in {"schedule", "publish", "archive"} : desk.shown.st \in From(kind) /\ SendChange(kind)

\* The form of an event wants its dates, so one that has not come is not saved.
Submit ==
  /\ desk.typed
  /\ SendChange(IF desk.mode = "new" THEN "create" ELSE "save")

\* A transition's answer is shown; a save leads to the event's detail page.
ChangeReturns(c) ==
  /\ change[c].st \in {"done", "failed"}
  /\ LET rest == [change EXCEPT ![c] = NoChange]
         kind == change[c].kind
         row  == change[c].seen
     IN IF change[c].st = "failed" \/ (kind \notin {"save", "create"} /\ ~change[c].here)
        THEN change' = rest /\ UNCHANGED <<desk, fetch>>
        ELSE IF kind \in {"save", "create"} THEN Show("detail", row.id, rest)
        ELSE /\ desk' = [desk EXCEPT !.shown = row]
             /\ change' = rest /\ UNCHANGED fetch
  /\ UNCHANGED <<event, recorded>>

-----------------------------------------------------------------------------
EventsInit ==
  /\ event = [e \in Events |-> IF e = 1 THEN [NoEvent EXCEPT !.id = 1, !.st = "draft", !.ver = 1, !.text = 1]
                               ELSE NoEvent]
  /\ recorded = [e \in Events |-> [rev \in 1..MaxVersion |-> 0]]
  /\ desk = [mode |-> "detail", at |-> 1, shown |-> NoEvent, typed |-> FALSE]
  /\ fetch = [NoFetches EXCEPT ![1] = [NoFetch EXCEPT !.st = "sent", !.at = 1]]
  /\ change = [c \in Changes |-> NoChange]

EventsNext ==
  \/ \E c \in Changes : ServeChange(c) \/ ChangeReturns(c)
  \/ \E f \in Fetches : ServeEvent(f) \/ EventArrives(f)
  \/ \E e \in Events : OtherAdminChanges(e)
  \/ Navigate \/ TokenRefreshed \/ Type \/ ClickTransition \/ Submit

EventsSpec == EventsInit /\ [][EventsNext]_eventVars

-----------------------------------------------------------------------------
\* What players see of a published event is what was recorded of its revision,
\* and an event that may be published has a revision nothing is recorded of.
RevisionsAreRecordedOnce ==
  \A e \in Events :
    /\ event[e].st = "published" => recorded[e][event[e].rev] = event[e].text
    /\ event[e].st \in {"draft", "scheduled"} => recorded[e][event[e].rev] = 0

\* A lifecycle step or a save changes an event whose text and state are those
\* the administrator saw, however requests, pages and administrators cross.
ChangesWhatWasShown ==
  [][\A c \in Changes : change[c].st = "sent" /\ change[c].kind # "create" /\ event' # event
       /\ change'[c].st # "sent" => event[change[c].seen.id] = change[c].seen]_eventVars

\* --- what a user of the console would expect, and does not hold ---

\* With nothing under way, the detail page shows the event of its address.
ShowsAddressedEvent ==
  desk.mode = "detail" /\ desk.shown.id # 0 /\ fetch = NoFetches
     /\ (\A c \in Changes : change[c].st = "none") => desk.shown.id = desk.at

\* What was typed into the editor is lost only by leaving it.
TypedTextSurvives ==
  [][desk.mode = "edit" /\ desk.typed /\ desk'.mode = "edit" /\ desk'.at = desk.at => desk'.typed]_eventVars
=============================================================================
