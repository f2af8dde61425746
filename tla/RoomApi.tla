-------------------------------- MODULE RoomApi --------------------------------
(***************************************************************************)
(* A room and the API that lists it (services/api repository/room.go): the *)
(* membership rows, the remembered kicks and the status, changed by the    *)
(* players' HTTP joins and by the calls the room makes.  Each call is a    *)
(* goroutine of its own (room/lobby.go, room/rematch.go): calls arrive in  *)
(* any order, and a failure is only logged.  The "finished" update alone   *)
(* is awaited, by the goroutine that saves the result.                     *)
(***************************************************************************)
EXTENDS Room

CONSTANT MaxCalls   \* joins and calls under way at once (a bound)

VARIABLES
    rows,           \* room_players
    kickedRows,     \* room_kicked_players
    status,         \* rooms.status, "deleted" when the row is gone
    admitting,      \* joins past the kicked check
    counted,        \* joins that saw a free place, waiting for the row lock
    calls           \* calls on their way

apiVars == <<rows, kickedRows, status, admitting, counted, calls>>
allVars == <<vars, apiVars>>

UnderWay == Cardinality(calls) + Cardinality(admitting) + Cardinality(counted)

-----------------------------------------------------------------------------
(* POST /rooms/{code}/join.                                                *)

\* Mutants of the guards below: no kick is remembered, no status is read.
NeverKicked(u) == TRUE
AnyStatus == TRUE

NotKicked(u) == u \notin kickedRows
RoomWaits == status = "waiting"

\* AddPlayerToRoom reads room_kicked_players before it locks the room row; the
\* user's own joins take turns (pg_advisory_xact_lock).
AdmitCheck(u) ==
    /\ status # "deleted" /\ NotKicked(u) /\ u \notin admitting \cup counted
    /\ admitting' = admitting \cup {u} /\ UnderWay < MaxCalls
    /\ UNCHANGED <<vars, rows, kickedRows, status, counted, calls>>

\* The statement that locks the row counts the members in a subquery, which sees
\* the rows committed when the statement starts (READ COMMITTED): before any
\* wait for the lock.  A join that sees a full room is refused.
AdmitCount(u) ==
    /\ u \in admitting
    /\ admitting' = admitting \ {u}
    /\ counted' = IF Cardinality(rows) < MaxPlayers THEN counted \cup {u} ELSE counted
    /\ UNCHANGED <<vars, rows, kickedRows, status, calls>>

\* Under the lock: the status, which is read afresh, and the insert.
AdmitInsert(u) ==
    /\ u \in counted
    /\ counted' = counted \ {u}
    /\ rows' = IF RoomWaits THEN rows \cup {u} ELSE rows
    /\ UNCHANGED <<vars, kickedRows, status, admitting, calls>>

-----------------------------------------------------------------------------
(* The room's calls.                                                       *)

\* RemovePlayerFromRoom deletes the row, and the waiting room it empties.
ServeRemove(call) ==
    /\ call.kind = "remove"
    /\ rows' = rows \ {call.user}
    /\ status' = IF rows' = {} /\ status = "waiting" THEN "deleted" ELSE status
    /\ UNCHANGED kickedRows

\* KickPlayerFromRoom also remembers the kick, while there is a room.
ServeKick(call) ==
    /\ call.kind = "kick"
    /\ rows' = rows \ {call.user}
    /\ kickedRows' = IF status = "deleted" THEN kickedRows
                     ELSE kickedRows \cup {call.user}
    /\ UNCHANGED status

\* UpdateRoomStatus refuses every other transition.
Transitions ==
    {<<"waiting", "in_progress">>, <<"waiting", "finished">>,
     <<"in_progress", "finished">>,
     <<"finished", "in_progress">>, <<"finished", "waiting">>}

NextStatus(from, to) == IF <<from, to>> \in Transitions THEN to ELSE from

ServeStatus(call) ==
    /\ call.kind = "status"
    /\ status' = NextStatus(status, call.to)
    /\ UNCHANGED <<rows, kickedRows>>

Serve(call) == ServeRemove(call) \/ ServeKick(call) \/ ServeStatus(call)
Lost == ApiFails /\ UNCHANGED <<rows, kickedRows, status>>

Arrive(call) ==
    /\ call \in calls
    /\ calls' = calls \ {call}
    /\ Serve(call) \/ Lost
    /\ UNCHANGED <<vars, admitting, counted>>

-----------------------------------------------------------------------------
Awaited == {call \in sent' : call.kind = "status" /\ call.to = "finished"}

\* The room does not ask for a row: the page of a room opens a socket for
\* whoever is on it, a player whose seat was dropped meanwhile included.
RoomStep ==
    /\ Next
    /\ calls' = calls \cup (sent' \ Awaited)
    /\ IF Awaited = {}
       THEN UNCHANGED <<rows, kickedRows, status>>
       ELSE (\E call \in Awaited : Serve(call)) \/ Lost
    /\ UNCHANGED <<admitting, counted>>
    /\ UnderWay' <= MaxCalls

\* The API has created the room and seated its creator.
ApiInit ==
    /\ Init
    /\ \E creator \in Users : rows = {creator}
    /\ kickedRows = {} /\ status = "waiting"
    /\ admitting = {} /\ counted = {} /\ calls = {}

ApiNext ==
    \/ RoomStep
    \/ \E u \in Users : AdmitCheck(u) \/ AdmitCount(u) \/ AdmitInsert(u)
    \/ \E call \in calls : Arrive(call)

ApiSpec == ApiInit /\ [][ApiNext]_allVars

-----------------------------------------------------------------------------
(* Properties.                                                             *)

ApiTypeOK ==
    /\ TypeOK
    /\ rows \in SUBSET Users /\ kickedRows \in SUBSET Users
    /\ status \in Statuses \cup {"deleted"}
    /\ admitting \in SUBSET Users /\ counted \in SUBSET Users
    /\ calls \in SUBSET Calls

\* A join never lands in a room that the last leave deleted while the join was
\* under way (AddPlayerToRoom, RemovePlayerFromRoom).
DeletedRoomIsEmpty == status = "deleted" => rows = {}

\* The rows fit the room they are of (AddPlayerToRoom, RemovePlayerFromRoom).
RowsOK == ApiTypeOK /\ DeletedRoomIsEmpty

\* A kicked user that is out of the room, with no join under way, never comes
\* back, whatever calls arrive late (AddPlayerToRoom, KickPlayerFromRoom).
KickedNeverReturns ==
    [][LET reach == rows \cup admitting \cup counted IN
       \A u \in kickedRows \ reach : u \notin reach']_allVars

\* --- statements of the code's comments that do not hold ---

\* "flips the API room status back to in_progress so a mid-game refresh of game
\* 2+ reconnects" (startRematchGameLocked): with no call under way, a running
\* game is listed as running.
ListedAsRunning ==
    (/\ table = "live"
     /\ calls = {} /\ \A d \in Deals : saver[d].pc \in {"idle", "done"})
        => status = "in_progress"

\* "Re-list the room as joinable again" (returnToWaitingRoomLocked): with no call
\* under way, a waiting room with somebody in it is listed as waiting.
ListedAsWaiting ==
    (/\ phase = "lobby" /\ Connected(players) # {}
     /\ calls = {} /\ \A d \in Deals : saver[d].pc \in {"idle", "done"})
        => status = "waiting"

\* "A player the host kicked from this room cannot rejoin it" (AddPlayerToRoom).
KickedStaysOut == rows \cap kickedRows = {}

\* "Returns an error if the room is full (`max_players`)" (docs/api.md, join).
NeverOverbooked == Cardinality(rows) <= MaxPlayers
=============================================================================
