------------------------------ MODULE MCLobbies ------------------------------
(***************************************************************************)
(* What surrounds a room, in parts that share no state: the lobby page of   *)
(* the web client with its form, its daily login and the API behind them,   *)
(* the page of a spectator, the 2v2 waiting room, and the snapshots a room  *)
(* leaves behind.  One of them, "part", runs.                               *)
(***************************************************************************)
EXTENDS WebLobby, RoomForm, DailyLogin, Watcher, TeamLobby, SnapshotStore

VARIABLE part

vars == <<part, lobbyVars, formVars, loginVars, watchVars, teamVars, snapVars>>

Init ==
  /\ part \in {"lobby", "form", "login", "watch", "team", "snapshots"}
  /\ LobbyInit /\ FormInit /\ LoginInit /\ WatchInit /\ TeamInit /\ StoreInit

Next ==
  /\ UNCHANGED part
  /\ \/ part = "lobby" /\ LobbyNext /\ UNCHANGED <<formVars, loginVars, watchVars, teamVars, snapVars>>
     \/ part = "form" /\ FormNext /\ UNCHANGED <<lobbyVars, loginVars, watchVars, teamVars, snapVars>>
     \/ part = "login" /\ LoginNext /\ UNCHANGED <<lobbyVars, formVars, watchVars, teamVars, snapVars>>
     \/ part = "watch" /\ WatchNext /\ UNCHANGED <<lobbyVars, formVars, loginVars, teamVars, snapVars>>
     \/ part = "team" /\ TeamNext /\ UNCHANGED <<lobbyVars, formVars, loginVars, watchVars, snapVars>>
     \/ part = "snapshots" /\ StoreNext /\ UNCHANGED <<lobbyVars, formVars, loginVars, watchVars, teamVars>>

Spec == Init /\ [][Next]_vars

\* What can still matter of the lobby: not the seats of finished games, nor the
\* button of a call that was served when its page is gone.
LobbyView ==
  LET live == {r \in seats : room[r] # "finished"}
      told == {c \in LobbyCalls : ~press[c].mounted /\ press[c].st \in {"checked", "answered"}}
  IN <<room, live, behind \intersect live, lobby,
       [c \in LobbyCalls |-> IF c \in told THEN [press[c] EXCEPT !.kind = "none"] ELSE press[c]]>>

\* The parts that do not run stay as they start.
PartView ==
  <<part, CASE part = "lobby" -> LobbyView [] part = "form" -> formVars [] part = "login" -> loginVars
            [] part = "watch" -> watchVars [] part = "team" -> teamVars [] part = "snapshots" -> snapVars>>

-----------------------------------------------------------------------------
\* What the locks of the lobby's API are for, with two calls and two claims
\* that cross: joins lead into one active room at a time, the form is refused
\* only for what it shows, and a day pays once; each but for the one crossing
\* that its part names.
LobbySound ==
  /\ part = "lobby" => OneActiveRoom
  /\ part = "form" => RefusedForWhatIsShown
  /\ part = "login" => StreakIsEarned
=============================================================================
