--------------------------- MODULE MCAdminRecords ---------------------------
(***************************************************************************)
(* The events, the single records (users, games, rooms, achievements) and   *)
(* the staff of the admin console: an administrator works in one of the     *)
(* parts.                                                                   *)
(***************************************************************************)
EXTENDS AdminEvents, AdminDossiers, AdminStaff

VARIABLE part

vars == <<part, eventVars, dossierVars, staffVars>>

\* The parts nobody works in start the same way.
IdleDossiers == /\ dossier.kind = "user" /\ dossier.at = CHOOSE id \in Records : TRUE
                /\ \A id \in Records : ~record[id].flag
IdleStaff    == office.at = "roles"

Init ==
  /\ part \in {"events", "dossiers", "staff"}
  /\ EventsInit /\ DossiersInit /\ StaffInit
  /\ part # "dossiers" => IdleDossiers
  /\ part # "staff" => IdleStaff

Next ==
  \/ part = "events" /\ EventsNext /\ UNCHANGED <<part, dossierVars, staffVars>>
  \/ part = "dossiers" /\ DossiersNext /\ UNCHANGED <<part, eventVars, staffVars>>
  \/ part = "staff" /\ StaffNext /\ UNCHANGED <<part, eventVars, dossierVars>>

Spec == Init /\ [][Next]_vars
=============================================================================
