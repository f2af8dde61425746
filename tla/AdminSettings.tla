---------------------------- MODULE AdminSettings ----------------------------
(***************************************************************************)
(* The settings page of the admin console.  A control is a switch; that of  *)
(* daily login has three numbers beside it, which the page saves one after  *)
(* the other, in an order that keeps every combination in between legal,    *)
(* and the switch after them.  The save of any other control is the save of *)
(* a switch alone.  The admin API checks a number against the other two     *)
(* before it writes it, and other administrators write the same settings.   *)
(* A change of the access token makes the page read the settings again.     *)
(***************************************************************************)
EXTENDS Naturals, Sequences

CONSTANT MaxXP      \* bound on the numbers typed; zero is tried for the step

ASSUME MaxXPAssumption == MaxXP \in Nat \ {0}

VARIABLES stored,       \* feature_settings
          settings,     \* the state of SettingsPage
          reading,      \* the page's latest GET; earlier ones are cancelled
          save,         \* the save under way, and the PUTs it has left
          straight      \* nothing has crossed since the page's values were read

settingsVars == <<stored, settings, reading, save, straight>>

Values(field) == CASE field = "on"   -> BOOLEAN
                   [] field = "step" -> 0..1
                   [] OTHER          -> 1..MaxXP
Fields    == {"on", "base", "step", "max"}
Initially == [on |-> TRUE, base |-> 1, step |-> 1, max |-> MaxXP]
Legal(c)  == c.step > 0 /\ c.max >= c.base

IdleSave   == [st |-> "idle", todo |-> <<>>, target |-> Initially]
NotReading == [st |-> "idle", config |-> Initially, fresh |-> FALSE]
UnderWay   == save.st # "idle"

-----------------------------------------------------------------------------
(* The admin API.                                                          *)

Written == LET field == Head(save.todo)
           IN [stored EXCEPT ![field] = save.target[field]]

\* A number is checked against the other two, which are not locked...
CheckSetting ==
  /\ save.st = "sent"
  /\ save' = [save EXCEPT !.st = IF Head(save.todo) = "on" \/ Legal(Written)
                                 THEN "checked" ELSE "refused"]
  /\ UNCHANGED <<stored, settings, reading, straight>>

\* ... and written.  The answer to a write may be lost.
WriteSetting ==
  /\ save.st = "checked"
  /\ stored' = Written
  /\ \E answer \in {"written", "lost"} : save' = [save EXCEPT !.st = answer]
  /\ reading' = [reading EXCEPT !.fresh = FALSE]
  /\ UNCHANGED <<settings, straight>>

ServeSettings ==
  /\ reading.st = "sent"
  /\ \/ reading' = [reading EXCEPT !.st = "answered", !.config = stored, !.fresh = ~UnderWay]
     \/ reading' = [reading EXCEPT !.st = "failed"]
  /\ UNCHANGED <<stored, settings, save, straight>>

\* Another administrator saves a setting.
OtherAdminSaves ==
  /\ straight
  /\ \E field \in Fields : \E value \in Values(field) :
       /\ stored' = [stored EXCEPT ![field] = value]
       /\ stored' # stored /\ Legal(stored')
  /\ straight' = FALSE /\ reading' = [reading EXCEPT !.fresh = FALSE]
  /\ UNCHANGED <<settings, save>>

-----------------------------------------------------------------------------
(* The page.                                                               *)

LoadSettings == [NotReading EXCEPT !.st = "sent"]

\* The defaults the page starts from are never shown: nothing is known yet.
FreshPage == [loading |-> TRUE, known |-> FALSE, edit |-> Initially, kept |-> Initially]

\* The token changed: the values are read again, over what was being edited.
TokenChanges ==
  /\ reading.st = "idle" /\ reading' = LoadSettings
  /\ UNCHANGED <<stored, settings, save, straight>>

SettingsArrive ==
  /\ reading.st \in {"answered", "failed"}
  /\ reading' = NotReading
  /\ IF reading.st = "failed" THEN /\ settings' = [settings EXCEPT !.loading = FALSE]
                                /\ UNCHANGED straight
     ELSE /\ settings' = [loading |-> FALSE, known |-> TRUE, edit |-> reading.config, kept |-> reading.config]
          /\ straight' = (reading.fresh /\ ~UnderWay)
  /\ UNCHANGED <<stored, save>>

CanEdit == ~settings.loading /\ settings.known /\ save.st = "idle"

Edit ==
  /\ CanEdit
  /\ \E field \in Fields : \E value \in Values(field) :
       settings' = [settings EXCEPT !.edit[field] = value]
  /\ UNCHANGED <<stored, reading, save, straight>>

\* Mutants: a lower maximum is forgotten; the maximum always goes last.
UpdatesUpward(edit, kept) ==
  LET Put(wanted, field) == IF wanted THEN <<field>> ELSE <<>>
  IN Put(edit.max > kept.max, "max") \o Put(edit.base # kept.base, "base")
     \o Put(edit.step # kept.step, "step") \o Put(TRUE, "on")

UpdatesInOrder(edit, kept) ==
  LET Put(field) == IF edit[field] # kept[field] THEN <<field>> ELSE <<>>
  IN Put("base") \o Put("step") \o Put("max") \o Put("on")

\* The order of the PUTs: a higher maximum goes first, a lower one after the
\* numbers it bounds, the switch last.
Updates(edit, kept) ==
  LET Put(wanted, field) == IF wanted THEN <<field>> ELSE <<>>
  IN Put(edit.max > kept.max, "max") \o Put(edit.base # kept.base, "base")
     \o Put(edit.step # kept.step, "step") \o Put(edit.max < kept.max, "max")
     \o Put(edit.on # kept.on, "on")

Save ==
  /\ CanEdit /\ settings.edit # settings.kept
  /\ save' = [st |-> "sent", target |-> settings.edit, todo |-> Updates(settings.edit, settings.kept)]
  /\ UNCHANGED <<stored, settings, reading, straight>>

SaveGoesOn ==
  /\ save.st = "written" /\ Len(save.todo) > 1
  /\ save' = [save EXCEPT !.st = "sent", !.todo = Tail(@)]
  /\ UNCHANGED <<stored, settings, reading, straight>>

\* The page takes over a save all of whose steps succeeded, and nothing of one
\* that stopped halfway.
SaveEnds ==
  /\ \/ save.st = "written" /\ Len(save.todo) = 1
     \/ save.st \in {"refused", "lost"}
  /\ save' = IdleSave
  /\ settings' = IF save.st = "written" THEN [settings EXCEPT !.kept = save.target] ELSE settings
  /\ straight' = (straight /\ save.st = "written")
  /\ UNCHANGED <<stored, reading>>

-----------------------------------------------------------------------------
SettingsInit ==
  /\ stored = Initially /\ straight = TRUE
  /\ settings = FreshPage /\ reading = LoadSettings
  /\ save = IdleSave

SettingsNext ==
  \/ ServeSettings \/ OtherAdminSaves \/ TokenChanges \/ SettingsArrive
  \/ Edit \/ Save \/ CheckSetting \/ WriteSetting \/ SaveGoesOn \/ SaveEnds

SettingsSpec == SettingsInit /\ [][SettingsNext]_settingsVars

-----------------------------------------------------------------------------
\* What the page shows as the current settings is what is stored, once its
\* saves are through and if nobody else wrote, no save stopped halfway and no
\* reading of the settings crossed a save.
KeptIsStored ==
  settings.known /\ straight /\ ~UnderWay => settings.kept = stored

\* That never changes, and from there no step on the way from numbers that fit
\* together to others that do is refused.
SettingsSound ==
  [][/\ KeptIsStored'
     /\ save.st = "sent" /\ save'.st = "refused" =>
          ~straight \/ ~Legal(settings.kept) \/ ~Legal(save.target)]_settingsVars

\* --- what a user of the console would expect, and does not hold ---

\* A save that stopped halfway leaves the page with what is stored.
HalfSaveIsShown ==
  settings.known /\ ~UnderWay /\ reading.st = "idle" => settings.kept = stored

\* The three numbers fit together whoever saves them.
StoredIsLegal == Legal(stored)
=============================================================================
