---------------------------- MODULE AdminDossiers ----------------------------
(***************************************************************************)
(* The pages of the admin console that show one record: a user, a game, a   *)
(* room or an achievement, and the part of the admin API behind them.  Such *)
(* a page stays mounted when the record in its address changes.  The user   *)
(* page drops the answer to a request of an earlier address, but not to one *)
(* that followed a moderation; the others drop none; the editor of an       *)
(* achievement keeps what it was mounted with.  A record has a version, and *)
(* a flag: a user is suspended, an achievement has been earned.             *)
(***************************************************************************)
EXTENDS Naturals

CONSTANTS Records,      \* ids of records of the page's kind
          Reads,        \* GETs under way at a time
          MaxRecord     \* bound on the versions the others write; the page goes one further

ASSUME DossierAssumption == Records \subseteq Nat \ {0} /\ 1 \in Reads /\ MaxRecord \in Nat \ {0}

VARIABLES record,       \* the rows of the records
          dossier,      \* the page
          read,         \* the GETs of the page's effect
          act           \* a moderation, an annotation or a save, and the GET after it

dossierVars == <<record, dossier, read, act>>

Kinds    == {"user", "game", "room", "achievement"}
NoRecord == [id |-> 0, ver |-> 0, flag |-> FALSE]
NoRead   == [st |-> "none", live |-> FALSE, row |-> NoRecord]
NoAct    == [st |-> "none", kind |-> "none", row |-> NoRecord, base |-> NoRecord]

-----------------------------------------------------------------------------
(* The admin API, and whoever else writes the records.  Of a call that      *)
(* fails, or whose answer is lost, a page only says so.                     *)

Flags == IF dossier.kind \in {"game", "room"} THEN {FALSE} ELSE BOOLEAN

Put(row) == record' = [record EXCEPT ![row.id] = row]

\* Players rename themselves and earn achievements, other administrators
\* moderate and edit, rooms and games go on.
OthersWrite(id) ==
  /\ record[id].ver < MaxRecord
  /\ \E flag \in Flags : Put([record[id] EXCEPT !.ver = @ + 1, !.flag = flag])
  /\ UNCHANGED <<dossier, read, act>>

ServeRead(r) ==
  /\ read[r].st = "sent"
  /\ read' \in {[read EXCEPT ![r].st = "done", ![r].row = record[read[r].row.id]],
                [read EXCEPT ![r] = NoRead]}
  /\ UNCHANGED <<record, dossier, act>>

\* Of the answers the page shows only the one to a rename.
Succeeds(row) == /\ Put(row)
                 /\ act' \in {[act EXCEPT !.st = "done", !.row = IF act.kind = "rename" THEN row ELSE @], NoAct}

\* Mutant: at whatever version.
RenameAnyVersion(row) == row.ver <= MaxRecord /\ Succeeds([row EXCEPT !.ver = @ + 1])

\* A name is replaced at the version the page saw, of a user in no room.
UpdateUserDisplayName(row) ==
  IF row.ver # act.base.ver
  THEN act' = [act EXCEPT !.st = "conflict"] /\ UNCHANGED record
  ELSE row.ver <= MaxRecord /\ Succeeds([row EXCEPT !.ver = @ + 1])

\* The contents are those of the page; the rules stay if somebody earned them.
UpdateAchievement(row) ==
  /\ row.ver <= MaxRecord
  /\ act.kind = "save rules" => ~row.flag
  /\ Succeeds([row EXCEPT !.ver = @ + 1])

ServeAct ==
  /\ act.st = "sent"
  /\ LET row == record[act.row.id]
     IN \/ act' = NoAct /\ UNCHANGED record
        \/ act.kind \in {"suspend", "reinstate"} /\ Succeeds([row EXCEPT !.flag = act.kind = "suspend"])
        \/ act.kind = "rename" /\ UpdateUserDisplayName(row)
        \/ act.kind = "annotate" /\ row.ver <= MaxRecord /\ Succeeds([row EXCEPT !.ver = @ + 1])
        \/ act.kind \in {"save", "save rules"} /\ UpdateAchievement(row)
        \/ act.kind = "grant" /\ Succeeds([row EXCEPT !.flag = TRUE])
        \/ /\ act.kind = "revoke" /\ row.flag
           /\ \E others \in BOOLEAN : Succeeds([row EXCEPT !.flag = others])
  /\ UNCHANGED <<dossier, read>>

ServeReread ==
  /\ act.st = "reread"
  /\ act' \in {[act EXCEPT !.st = "reread done", !.row = record[act.row.id]], NoAct}
  /\ UNCHANGED <<record, dossier, read>>

-----------------------------------------------------------------------------
(* The pages.                                                              *)

\* The effect of an address or a token; the user page's drops those before.
Dropped == [r \in Reads |-> IF dossier.kind = "user" THEN [read[r] EXCEPT !.live = FALSE] ELSE read[r]]

LoadDossier(id) ==
  \E r \in Reads :
    /\ read[r].st = "none"
    /\ read' = [Dropped EXCEPT ![r] = [st |-> "sent", live |-> TRUE, row |-> [NoRecord EXCEPT !.id = id]]]

Visit(id) ==
  /\ id # dossier.at
  /\ dossier' = [dossier EXCEPT !.at = id]
  /\ LoadDossier(id)
  /\ UNCHANGED <<record, act>>

TokenIsNew ==
  LoadDossier(dossier.at) /\ UNCHANGED <<record, dossier, act>>

\* What an answer shows: an editor that is mounted keeps its record.
DossierArrives(r) ==
  /\ read[r].st = "done"
  /\ dossier' = IF ~read[r].live \/ (dossier.kind = "achievement" /\ dossier.shown.id # 0) THEN dossier
                ELSE [dossier EXCEPT !.shown = read[r].row]
  /\ read' = [read EXCEPT ![r] = NoRead]
  /\ UNCHANGED <<record, act>>

\* Only the user page compares the record it has with its address.
IsShown == /\ dossier.shown.id # 0
           /\ dossier.kind = "user" => dossier.shown.id = dossier.at

\* Bound: one call at a time, also on the user page, which does not see to it.
Start(kind, id) ==
  /\ IsShown /\ act.st = "none"
  /\ act' = [st |-> "sent", kind |-> kind, row |-> [NoRecord EXCEPT !.id = id],
             base |-> IF kind \in {"grant", "revoke", "suspend", "reinstate"} THEN NoRecord ELSE dossier.shown]
  /\ UNCHANGED <<record, dossier, read>>

ClickSuspension ==
  /\ dossier.kind = "user"
  /\ Start(IF dossier.shown.flag THEN "reinstate" ELSE "suspend", dossier.shown.id)

ClickRename == dossier.kind = "user" /\ Start("rename", dossier.shown.id)

\* A note or a flag goes to the game of the address.
ClickAnnotate == dossier.kind = "game" /\ Start("annotate", dossier.at)

ClickSave ==
  /\ dossier.kind = "achievement"
  /\ \E kind \in {"save"} \union (IF dossier.shown.flag THEN {} ELSE {"save rules"}) :
       Start(kind, dossier.shown.id)

ClickGrant ==
  dossier.kind = "achievement" /\ \E kind \in {"grant", "revoke"} : Start(kind, dossier.shown.id)

\* A suspension, an annotation and a refusal of an outdated name read the
\* record again.  The answer to a rename has no suspension in it.
ActReturns ==
  /\ act.st \in {"done", "conflict"}
  /\ IF act.st = "conflict" \/ act.kind \in {"suspend", "reinstate", "annotate"}
     THEN act' = [act EXCEPT !.st = "reread"] /\ UNCHANGED dossier
     ELSE /\ act' = NoAct
          /\ dossier' = IF act.kind = "rename"
                        THEN [dossier EXCEPT !.shown = [act.row EXCEPT !.flag = FALSE]] ELSE dossier
  /\ UNCHANGED <<record, read>>

RereadReturns ==
  /\ act.st = "reread done"
  /\ dossier' = [dossier EXCEPT !.shown = act.row]
  /\ act' = NoAct
  /\ UNCHANGED <<record, read>>

-----------------------------------------------------------------------------
DossiersInit ==
  /\ record \in [Records -> [id : Records, ver : {1}, flag : BOOLEAN]]
  /\ \A id \in Records : record[id].id = id
  /\ \E kind \in Kinds, id \in Records :
       /\ dossier = [kind |-> kind, at |-> id, shown |-> NoRecord]
       /\ \A row \in Records : record[row].flag \in Flags
       /\ read = [r \in Reads |-> IF r # 1 THEN NoRead
                                  ELSE [st |-> "sent", live |-> TRUE, row |-> [NoRecord EXCEPT !.id = id]]]
  /\ act = NoAct

DossiersNext ==
  \/ \E id \in Records : OthersWrite(id) \/ Visit(id)
  \/ \E r \in Reads : ServeRead(r) \/ DossierArrives(r)
  \/ ServeAct \/ ServeReread \/ TokenIsNew
  \/ ClickSuspension \/ ClickRename \/ ClickAnnotate \/ ClickSave \/ ClickGrant
  \/ ActReturns \/ RereadReturns

DossiersSpec == DossiersInit /\ [][DossiersNext]_dossierVars

-----------------------------------------------------------------------------
\* A user's name is replaced only if it is the name the administrator saw, and
\* after a refusal the page shows a later one, so that the next try can do.
RenamesWhatWasShown ==
  [][act.kind = "rename" =>
       /\ record' # record /\ act.st = "sent" /\ act'.st # "sent" => record[act.row.id].ver = act.base.ver
       /\ RereadReturns => dossier'.shown.ver > act.base.ver]_dossierVars

\* --- what a user of the console would expect, and does not hold ---

\* Renaming a user does not change what the page says of the user's access.
RenameKeepsAccess ==
  [][ActReturns /\ act.kind = "rename" /\ dossier'.shown # dossier.shown
       => dossier'.shown.flag = act.base.flag]_dossierVars

\* With nothing under way and no request failed, the page shows its address.
ShowsAddressedRecord ==
  [][\A r \in Reads : DossierArrives(r) /\ read[r].st = "done" /\ (\A q \in Reads : read'[q] = NoRead)
       => dossier'.shown.id = dossier'.at]_dossierVars

\* An annotation is made on the game the page shows.
AnnotatesWhatIsShown == act.kind = "annotate" => act.row.id = act.base.id

\* An administrator's save does not undo one it has not seen.
SavesKeepOthersWork ==
  [][act.kind \in {"save", "save rules"} /\ act.st = "sent" /\ record' # record /\ act'.st # "sent"
       => record[act.row.id].ver = act.base.ver]_dossierVars
=============================================================================
