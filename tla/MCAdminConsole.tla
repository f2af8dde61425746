--------------------------- MODULE MCAdminConsole ---------------------------
(***************************************************************************)
(* The settings, the catalogue of card skins, a search and a catalogue of   *)
(* the admin console: an administrator works in one of them, "part".        *)
(***************************************************************************)
EXTENDS AdminSettings, AdminSkins, AdminSearches, AdminCatalogs

VARIABLE part

vars == <<part, settingsVars, skinsVars, searchVars, catalogVars>>

\* The parts nobody works in start the same way.
IdleSearches == /\ \A f \in Filters : found[f] = 0
                /\ ~search.audit /\ search.asked.filter = CHOOSE f \in Filters : TRUE
IdleCatalogs == /\ \A f \in Choices : items[f] = 0
                /\ catalog.filter = CHOOSE f \in Choices : TRUE

Init ==
  /\ part \in {"settings", "skins", "searches", "catalogs"}
  /\ SettingsInit /\ SkinsInit /\ SearchesInit /\ CatalogsInit
  /\ part # "searches" => IdleSearches
  /\ part # "catalogs" => IdleCatalogs

Next ==
  \/ part = "settings" /\ SettingsNext /\ UNCHANGED <<part, skinsVars, searchVars, catalogVars>>
  \/ part = "skins" /\ SkinsNext /\ UNCHANGED <<part, settingsVars, searchVars, catalogVars>>
  \/ part = "searches" /\ SearchesNext /\ UNCHANGED <<part, settingsVars, skinsVars, catalogVars>>
  \/ part = "catalogs" /\ CatalogsNext /\ UNCHANGED <<part, settingsVars, skinsVars, searchVars>>

Spec == Init /\ [][Next]_vars
=============================================================================
