------------------------------ MODULE WebLobby ------------------------------
(***************************************************************************)
(* A player in the lobby of the web client: the list of the open rooms, the *)
(* buttons that create, join or find a room, the floating button that leads *)
(* back to a game, and the API behind them.  Every button has a flag of its *)
(* own, so several can be under way together; the flags are forgotten when  *)
(* the page unmounts, the calls are not.  A GET is one step: its answer is  *)
(* no staler on the way than what it fills becomes on the screen.           *)
(***************************************************************************)
EXTENDS Naturals, FiniteSets

CONSTANTS Rooms,        \* rooms that may exist
          LobbyCalls    \* calls under way at a time (a bound)

ASSUME LobbyAssumption == Rooms \subseteq Nat \ {0}

VARIABLES room,         \* status of the rooms
          seats,        \* rooms the player has a room_players row of
          lobby,        \* where the player is, the list, the floating button
          press,        \* calls of the buttons
          behind        \* history: rooms the player sits in since one was
                        \* created when they had an active one again by then

lobbyVars == <<room, seats, lobby, press, behind>>

NoPress == [st |-> "none", kind |-> "none", id |-> 0, mounted |-> FALSE]

Waiting == {r \in Rooms : room[r] = "waiting"}
Active  == {r \in seats : room[r] \in {"waiting", "in_progress"}}

-----------------------------------------------------------------------------
(* The API.                                                                *)

\* Others open rooms, games start and end, seats are lost to kicks and waits.
RoomChanges(r) ==
  /\ room' \in {[room EXCEPT ![r] = to] :
                to \in CASE room[r] = "none" -> {"waiting"}
                         [] room[r] = "waiting" -> {"in_progress"}
                         [] room[r] = "in_progress" -> {"finished"}
                         [] room[r] = "finished" -> {}}
  /\ UNCHANGED <<seats, lobby, press, behind>>

SeatTaken(r) ==
  /\ r \in seats /\ room[r] = "waiting"
  /\ seats' = seats \ {r} /\ behind' = behind \ {r}
  /\ UNCHANGED <<room, lobby, press>>

Answer(c, r) == press' = [press EXCEPT ![c].st = "answered", ![c].id = r]

\* A call that takes a seat and is answered with the room, or gets lost then.
SeatIn(c, r) ==
  /\ seats' = seats \union {r}
  /\ Answer(c, r) \/ Answer(c, 0)

\* POST /rooms looks for an active room before its transaction ...
CreateChecks(c) ==
  /\ press[c].st = "sent" /\ press[c].kind \in {"create", "practice"}
  /\ IF Active = {} THEN press' = [press EXCEPT ![c].st = "checked"]
     ELSE \E r \in Active : Answer(c, r)
  /\ UNCHANGED <<room, seats, lobby, behind>>

\* ... which locks the user, and does not look again.
CreateSeats(c) ==
  /\ press[c].st = "checked"
  /\ \E r \in Rooms : /\ room[r] = "none"
                      /\ room' = [room EXCEPT ![r] = "waiting"]
                      /\ SeatIn(c, r)
                      /\ behind' = IF Active = {} THEN behind ELSE behind \union {r}
  /\ UNCHANGED lobby

\* Mutant: a seat in another room does not matter.
JoinBesides(c) ==
  LET r == press[c].id
  IN /\ press[c].st = "sent" /\ press[c].kind \in {"code", "card"}
     /\ \/ Answer(c, 0) /\ UNCHANGED seats
        \/ room[r] = "waiting" /\ r \notin seats /\ SeatIn(c, r)
     /\ UNCHANGED <<room, lobby, behind>>

\* A join looks under the lock.  The room may be full.
JoinRoom(c) ==
  LET r == press[c].id
  IN /\ press[c].st = "sent" /\ press[c].kind \in {"code", "card"}
     /\ IF Active \ {r} # {} THEN (\E a \in Active \ {r} : Answer(c, a)) /\ UNCHANGED seats
        ELSE \/ Answer(c, 0) /\ UNCHANGED seats
             \/ room[r] = "waiting" /\ r \notin seats /\ SeatIn(c, r)
     /\ UNCHANGED <<room, lobby, behind>>

\* Quick play as well; it joins a room or makes one.
QuickPlay(c) ==
  /\ press[c].st = "sent" /\ press[c].kind \in {"quick", "ranked"}
  /\ IF Active # {} THEN (\E a \in Active : Answer(c, a)) /\ UNCHANGED <<room, seats>>
     ELSE \/ Answer(c, 0) /\ UNCHANGED <<room, seats>>
          \/ \E r \in Rooms : /\ room[r] \in {"waiting", "none"}
                              /\ room' = [room EXCEPT ![r] = "waiting"]
                              /\ SeatIn(c, r)
  /\ UNCHANGED <<lobby, behind>>

\* GET /me/active-room: one of them, or 0.
ActiveFound == IF Active = {} THEN {0} ELSE Active

-----------------------------------------------------------------------------
(* The client.                                                             *)

Busy(kind) == \E c \in LobbyCalls : press[c].st # "none" /\ press[c].kind = kind /\ press[c].mounted

Press(kind, rooms) ==
  /\ lobby.at = 0
  /\ \E c \in LobbyCalls, r \in rooms :
       /\ press[c].st = "none"
       /\ press' = [press EXCEPT ![c] = [st |-> "sent", kind |-> kind, id |-> r, mounted |-> TRUE]]
  /\ UNCHANGED <<room, seats, lobby, behind>>

PressCreate == ~Busy("create") /\ Press("create", {0})
PressPractice == ~Busy("practice") /\ Press("practice", {0})
PressFind(kind) == ~Busy(kind) /\ Press(kind, {0})

\* Whoever has an invite code can type it.
PressCode == ~Busy("code") /\ Press("code", {r \in Rooms : room[r] # "none"})

\* A card of the list has no flag.
PressCard == Press("card", lobby.list)

LeaveLobby(p, dest) ==
  /\ lobby' = [lobby EXCEPT !.at = dest, !.list = {}]
  /\ press' = [c \in LobbyCalls |-> [p[c] EXCEPT !.mounted = FALSE]]

\* Whoever has a room, or is in another one, goes there, even if they have
\* left the lobby since; the floating button then asks again.
Returns(c) ==
  /\ press[c].st = "answered"
  /\ LET rest == [press EXCEPT ![c] = NoPress]
     IN IF press[c].id = 0 THEN press' = rest /\ UNCHANGED lobby
        ELSE LeaveLobby(rest, press[c].id)
  /\ UNCHANGED <<room, seats, behind>>

\* The floating button is not shown on the pages of its own room.
ResumeGame ==
  /\ lobby.active \notin {0, lobby.at}
  /\ LeaveLobby(press, lobby.active)
  /\ UNCHANGED <<room, seats, behind>>

\* Back to the lobby; the seat is given up or kept.
BackToLobby ==
  /\ lobby.at # 0
  /\ lobby' = [lobby EXCEPT !.at = 0]
  /\ seats' \in {seats, seats \ {lobby.at}} /\ behind' = behind \intersect seats'
  /\ UNCHANGED <<room, press>>

\* When the lobby opens, with the button, and every five seconds.  A load that
\* fails leaves the list as it is, here and below.
LoadRooms ==
  /\ lobby.at = 0
  /\ lobby' = [lobby EXCEPT !.list = Waiting]
  /\ UNCHANGED <<room, seats, press, behind>>

\* On every page of a player who signed in, every fifteen seconds and on demand.
RefreshActive ==
  /\ lobby' \in {[lobby EXCEPT !.active = r] : r \in ActiveFound}
  /\ UNCHANGED <<room, seats, press, behind>>

-----------------------------------------------------------------------------
LobbyInit ==
  /\ room = [r \in Rooms |-> "none"] /\ seats = {}
  /\ lobby = [at |-> 0, list |-> {}, active |-> 0]
  /\ press = [c \in LobbyCalls |-> NoPress]
  /\ behind = {}

LobbyNext ==
  \/ \E r \in Rooms : RoomChanges(r) \/ SeatTaken(r)
  \/ \E c \in LobbyCalls : CreateChecks(c) \/ CreateSeats(c) \/ JoinRoom(c) \/ QuickPlay(c) \/ Returns(c)
  \/ LoadRooms \/ RefreshActive
  \/ PressCreate \/ PressPractice \/ PressCode \/ PressCard
  \/ \E kind \in {"quick", "ranked"} : PressFind(kind)
  \/ ResumeGame \/ BackToLobby

LobbySpec == LobbyInit /\ [][LobbyNext]_lobbyVars

-----------------------------------------------------------------------------
\* Whichever buttons are pressed, in whichever order, by however many calls at
\* once, and although an answer that was lost leaves a seat the page knows nothing
\* of, a player is in one active room: no join and no quick play adds another.  A
\* second room is one that POST /rooms created after its look for an active one
\* had gone stale; the transaction that creates it does not look again.
OneActiveRoom == Cardinality(Active \ behind) <= 1

\* --- a statement of the code's comments that does not hold ---

\* The same without the exception: two calls that cross put the player in two
\* rooms.
NeverInTwoRooms == Cardinality(Active) <= 1
=============================================================================
