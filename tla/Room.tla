--------------------------------- MODULE Room ---------------------------------
(***************************************************************************)
(* One room on the replica that drives it (services/ws/internal/room): the *)
(* waiting lobby, the game as a turn that passes, the results screen with  *)
(* its rematch vote, and the way back to the lobby; the sockets of the     *)
(* players; the timers; and the calls it makes to the API off its lock     *)
(* (RoomApi puts the API at the other end).                                *)
(*                                                                         *)
(* A player object of the code outlives its seat: a socket keeps the       *)
(* pointer it was given when it joined.  Objects are therefore numbered by *)
(* the join that made them, and "players" lists the seated ones.           *)
(*                                                                         *)
(* The rules of the game are SevenSpadeEngine's: here a move passes the    *)
(* turn to some seat or ends the game.                                     *)
(***************************************************************************)
EXTENDS Integers, Sequences, FiniteSets

CONSTANTS
    Users,          \* identities (claims.Sub) that may join
    NoUser,         \* a player object not made yet
    MaxPlayers,     \* room.maxPlayers()
    MinToStart,     \* startThresholdLocked
    MaxJoins,       \* bound: sockets that are ever opened
    MaxDeals,       \* bound: games dealt in this room
    ApiFails        \* whether a call to the API may fail

ASSUME RoomAssumption ==
    /\ NoUser \notin Users
    /\ MaxPlayers \in Nat \ {0} /\ MinToStart \in 1..MaxPlayers
    /\ MaxJoins \in Nat \ {0} /\ MaxDeals \in Nat \ {0}
    /\ ApiFails \in BOOLEAN

Sockets == 1..MaxJoins
Objects == 1..MaxJoins
Bot == 0                        \* a bot's entry in players
Seats == 0..(MaxPlayers - 1)
Deals == 1..MaxDeals
Statuses == {"waiting", "in_progress", "finished"}
Calls == [kind : {"remove", "kick"}, user : Users, of : Objects]
         \cup [kind : {"status"}, to : Statuses, of : Deals]

VARIABLES
    phase,          \* room.phase (room.started says the same)
    players,        \* room.players
    obj,            \* the player objects
    kickedSubs,     \* room.kickedSubs
    table,          \* room.state: "none" (zero value), "live" or "over"
    deals,          \* games dealt so far: the identity of the current one
    votes,          \* room.rematchVotes
    rematchToken,   \* room.rematchTimerToken
    rematchArmed,   \* room.rematchTimer # nil
    savedGame,      \* room.savedGameID, as the deal it names (0: "")
    emptied,        \* the last seat was given up: teardown is called off the lock
    torn,           \* teardown ran: no socket finds this room any more
    socket,         \* socket -> object it was attached to (0: not open)
    joins,          \* sockets opened so far
    leaveTimers,    \* lobby grace timers that may still fire: <<object, token>>
    rematchTimers,  \* rematch timers that may still fire: tokens
    saver,          \* per deal, the saveGameResult call of its last move
    sent            \* the calls to the API that the last step made

tableVars == <<table, deals, savedGame, saver>>
voteVars == <<votes, rematchToken, rematchArmed, rematchTimers>>
lifeVars == <<emptied, torn>>
netVars == <<socket, joins>>
vars == <<phase, players, obj, kickedSubs, tableVars, voteVars, lifeVars, netVars,
          leaveTimers, sent>>

-----------------------------------------------------------------------------
(* The roster.                                                             *)

NoObject == [sub |-> NoUser, ready |-> FALSE, disconnected |-> TRUE,
             index |-> 0, session |-> 0, leaveToken |-> 0]

Humans(roster) == {roster[i] : i \in DOMAIN roster} \ {Bot}
Connected(roster) == {o \in Humans(roster) : ~obj[o].disconnected}
Position(roster, o) == CHOOSE i \in DOMAIN roster : roster[i] = o
\* The entries of a roster that stay, in the order they had.
Kept(roster, stay) ==
    LET at == {i \in DOMAIN roster : roster[i] \in stay}
    IN  [k \in 1..Cardinality(at) |->
            roster[CHOOSE i \in at : Cardinality(at \cap 1..i) = k]]

Seated(o) == o \in Humans(players)
SubsOf(objects) == {obj[o].sub : o \in objects}

\* The object the socket s speaks for, and the sockets an object can speak by.
Speaks(o) == \E s \in Sockets : socket[s] = o

\* A mutant of Compact: seats numbered from 1.
CompactFromOne(roster, ob) ==
    [o \in Objects |->
        IF o \in Humans(roster)
        THEN [ob[o] EXCEPT !.index = Position(roster, o),
                           !.ready = @ \/ Position(roster, o) = 1]
        ELSE ob[o]]

\* Indices follow positions and the first seat is ready, for objects ob.
Compact(roster, ob) ==
    [o \in Objects |->
        IF o \in Humans(roster)
        THEN [ob[o] EXCEPT !.index = Position(roster, o) - 1,
                           !.ready = @ \/ Position(roster, o) = 1]
        ELSE ob[o]]

Removes(objects) ==
    {[kind |-> "remove", user |-> obj[o].sub, of |-> o] : o \in objects}
SetStatus(s, d) == [kind |-> "status", to |-> s, of |-> d]

\* A mutant of RemoveSeat: the seats left are not renumbered.
RemoveSeatOnly(o, ob, kind) ==
    LET kept == Kept(players, (Objects \cup {Bot}) \ {o}) IN
    /\ players' = kept
    /\ obj' = ob
    /\ sent' = {[kind |-> kind, user |-> ob[o].sub, of |-> o]}
    /\ emptied' = (emptied \/ kept = <<>>)
    /\ UNCHANGED torn

\* removeLobbyPlayerLocked and removeAndNotifyLobbyLeaveLocked, for an object
\* o of ob that may or may not hold a seat.
RemoveSeat(o, ob, kind) ==
    LET kept == Kept(players, (Objects \cup {Bot}) \ {o}) IN
    /\ players' = kept
    /\ obj' = Compact(kept, ob)
    /\ sent' = {[kind |-> kind, user |-> ob[o].sub, of |-> o]}
    /\ emptied' = (emptied \/ kept = <<>>)
    /\ UNCHANGED torn

-----------------------------------------------------------------------------
(* Joining.                                                                *)

\* Any identity may try: the room does not ask the API who is a member.
MayConnect == ~torn /\ joins < MaxJoins

Open(s, o) ==
    /\ joins' = s
    /\ socket' = [socket EXCEPT ![s] = o]

\* seatLocked and addLobbyPlayerLocked, when the identity already has a seat.
Reattach(u) ==
    LET s == joins + 1 IN
    /\ MayConnect
    /\ \E o \in Humans(players) :
        /\ obj[o].sub = u
        /\ Open(s, o)
        /\ obj' = [obj EXCEPT ![o].session = s,
                              ![o].disconnected = FALSE,
                              ![o].leaveToken = IF phase = "lobby" THEN @ + 1 ELSE @]
    /\ sent' = {}
    /\ UNCHANGED <<phase, players, kickedSubs, tableVars, voteVars, lifeVars,
                   leaveTimers>>

\* A mutant of Welcome: the kick is forgotten.
WelcomeKicked(u) == Len(players) < MaxPlayers

Welcome(u) == u \notin kickedSubs /\ Len(players) < MaxPlayers

\* addLobbyPlayerLocked, a new seat.
TakeSeat(u) ==
    LET s == joins + 1 IN
    /\ MayConnect
    /\ phase = "lobby"
    /\ u \notin SubsOf(Humans(players))
    /\ Welcome(u)
    /\ Open(s, s)
    /\ players' = Append(players, s)
    /\ obj' = [obj EXCEPT ![s] = [NoObject EXCEPT
                    !.sub = u, !.ready = (players = <<>>), !.disconnected = FALSE,
                    !.index = Len(players), !.session = s]]
    /\ sent' = {}
    /\ UNCHANGED <<phase, kickedSubs, tableVars, voteVars, lifeVars, leaveTimers>>

-----------------------------------------------------------------------------
(* Sockets that drop.                                                      *)

Close(s) == socket' = [socket EXCEPT ![s] = 0]

\* A mutant of Current: the close of a replaced socket counts.
CurrentAlways(s) == TRUE

\* The object has not moved on to a later socket.
Current(s) == obj[socket[s]].session = s

\* A mutant of HoldSeat: the timer is given the token of before.
HoldSeatOldToken(o) ==
    /\ obj' = [obj EXCEPT ![o].disconnected = TRUE, ![o].leaveToken = @ + 1]
    /\ leaveTimers' = leaveTimers \cup {<<o, obj[o].leaveToken>>}

\* scheduleLobbyLeaveLocked.
HoldSeat(o) ==
    /\ obj' = [obj EXCEPT ![o].disconnected = TRUE, ![o].leaveToken = @ + 1]
    /\ leaveTimers' = leaveTimers \cup {<<o, obj[o].leaveToken + 1>>}

\* handleDisconnect of a socket the object has moved on from, or of an object
\* already marked.
DropStale(s) ==
    /\ socket[s] # 0
    /\ ~Current(s) \/ obj[socket[s]].disconnected
    /\ Close(s)
    /\ sent' = {}
    /\ UNCHANGED <<phase, players, obj, kickedSubs, tableVars, voteVars, lifeVars,
                   joins, leaveTimers>>

\* handleDisconnect in the lobby: the seat is held for the grace period.
DropInLobby(s) ==
    LET o == socket[s] IN
    /\ o # 0 /\ Current(s) /\ ~obj[o].disconnected
    /\ phase = "lobby"
    /\ Close(s)
    /\ HoldSeat(o)
    /\ sent' = {}
    /\ UNCHANGED <<phase, players, kickedSubs, tableVars, voteVars, lifeVars,
                   joins>>

\* handleDisconnect in a game or on the results screen: a running rematch
\* countdown stops and the leaver's vote is dropped.
DropInGame(s) ==
    LET o == socket[s]
        rematchActive == table = "over" /\ rematchArmed IN
    /\ o # 0 /\ Current(s) /\ ~obj[o].disconnected
    /\ phase = "playing"
    /\ Close(s)
    /\ obj' = [obj EXCEPT ![o].disconnected = TRUE]
    /\ votes' = IF rematchActive THEN votes \ {obj[o].index} ELSE votes
    /\ rematchToken' = IF rematchActive THEN rematchToken + 1 ELSE rematchToken
    /\ rematchArmed' = (rematchArmed /\ ~rematchActive)
    /\ sent' = {}
    /\ UNCHANGED <<phase, players, kickedSubs, tableVars, rematchTimers, lifeVars,
                   joins, leaveTimers>>

-----------------------------------------------------------------------------
(* The lobby.                                                              *)

SetReady(o, r) ==
    /\ phase = "lobby" /\ Speaks(o)
    /\ obj[o].index # 0
    /\ obj' = [obj EXCEPT ![o].ready = r]
    /\ sent' = {}
    /\ UNCHANGED <<phase, players, kickedSubs, tableVars, voteVars, lifeVars,
                   netVars, leaveTimers>>

\* handleLobbyLeave.
Leave(o) ==
    /\ phase = "lobby" /\ Speaks(o) /\ Seated(o)
    /\ RemoveSeat(o, [obj EXCEPT ![o].disconnected = TRUE,
                                 ![o].leaveToken = @ + 1], "remove")
    /\ UNCHANGED <<phase, kickedSubs, tableVars, voteVars, netVars,
                   leaveTimers>>

\* handleKick by the object whose index is 0.
Kick(o, target) ==
    /\ phase = "lobby" /\ Speaks(o) /\ obj[o].index = 0
    /\ Seated(target) /\ obj[target].index # 0
    /\ kickedSubs' = kickedSubs \cup {obj[target].sub}
    /\ RemoveSeat(target, [obj EXCEPT ![target].disconnected = TRUE,
                                      ![target].leaveToken = @ + 1], "kick")
    /\ UNCHANGED <<phase, tableVars, voteVars, netVars, leaveTimers>>

\* A mutant of Expired: neither the token nor the seat is looked at.
ExpiredAnyway(o, token) == phase = "lobby"

Expired(o, token) ==
    phase = "lobby" /\ token = obj[o].leaveToken /\ obj[o].disconnected

\* finalizeLobbyLeave with a current token.
LeaveTimerFires(o, token) ==
    /\ <<o, token>> \in leaveTimers
    /\ leaveTimers' = leaveTimers \ {<<o, token>>}
    /\ Expired(o, token)
    /\ RemoveSeat(o, obj, "remove")
    /\ UNCHANGED <<phase, kickedSubs, tableVars, voteVars, netVars>>

\* finalizeLobbyLeave of a timer that was superseded, or after the start.
LeaveTimerIgnored(o, token) ==
    /\ <<o, token>> \in leaveTimers
    /\ leaveTimers' = leaveTimers \ {<<o, token>>}
    /\ ~Expired(o, token)
    /\ sent' = {}
    /\ UNCHANGED <<phase, players, obj, kickedSubs, tableVars, voteVars, lifeVars,
                   netVars>>

\* teardown drops the room from the manager, whoever joined it meanwhile.
Teardown ==
    /\ emptied /\ ~torn
    /\ torn' = TRUE
    /\ sent' = {}
    /\ UNCHANGED <<phase, players, obj, kickedSubs, tableVars, voteVars, emptied,
                   netVars, leaveTimers>>

\* A new deal.
Deal ==
    /\ deals < MaxDeals
    /\ deals' = deals + 1
    /\ table' = "live"
    /\ savedGame' = 0
    /\ UNCHANGED saver

\* handleStartGame: only connected players count and are dealt in, bots fill
\* the other seats.
StartGame(o) ==
    LET kept == Kept(players, Connected(players))
        dropped == Humans(players) \ Connected(players) IN
    /\ phase = "lobby" /\ Speaks(o) /\ obj[o].index = 0
    /\ \A p \in Connected(players) : obj[p].ready
    /\ Len(kept) >= MinToStart
    /\ players' = kept \o [i \in 1..(MaxPlayers - Len(kept)) |-> Bot]
    /\ obj' = Compact(kept, [p \in Objects |->
                  IF p \in dropped THEN [obj[p] EXCEPT !.leaveToken = @ + 1] ELSE obj[p]])
    /\ phase' = "playing"
    /\ Deal
    /\ sent' = Removes(dropped) \cup {SetStatus("in_progress", deals')}
    /\ UNCHANGED <<kickedSubs, voteVars, lifeVars, netVars, leaveTimers>>

-----------------------------------------------------------------------------
(* The game.  Of its moves only the last one concerns the room: the        *)
(* goroutine that made it (a socket's, a turn timer's, a bot's) goes on to  *)
(* save and announce the result.                                           *)

LastMove ==
    /\ phase = "playing" /\ table = "live"
    /\ table' = "over"
    /\ saver' = [saver EXCEPT ![deals] = [pc |-> "read", game |-> 0]]
    /\ sent' = {}
    /\ UNCHANGED <<phase, players, obj, kickedSubs, deals, savedGame, voteVars,
                   lifeVars, netVars, leaveTimers>>

-----------------------------------------------------------------------------
(* saveGameResult and broadcastGameOver, run by the goroutine that made the *)
(* last move of deal d; the room's lock is free between the steps.          *)

AtSave(d, pc) == saver[d].pc = pc
SaveGoto(d, pc) == saver' = [saver EXCEPT ![d].pc = pc]

\* The result is read under the lock; scoring a table that was reset indexes an
\* empty slice.
SaveRead(d) ==
    /\ AtSave(d, "read")
    /\ saver' = [saver EXCEPT ![d] =
                    IF table = "none" THEN [pc |-> "panic", game |-> 0]
                                      ELSE [pc |-> "write", game |-> deals]]
    /\ sent' = {}
    /\ UNCHANGED <<phase, players, obj, kickedSubs, table, deals,
                   savedGame, voteVars, lifeVars, netVars, leaveTimers>>

\* SaveGame answered (or failed) and its id is stored.
SaveWrite(d) ==
    /\ AtSave(d, "write")
    /\ SaveGoto(d, "status")
    /\ \/ savedGame' = saver[d].game
       \/ ApiFails /\ UNCHANGED savedGame
    /\ sent' = {}
    /\ UNCHANGED <<phase, players, obj, kickedSubs, table, deals,
                   voteVars, lifeVars, netVars, leaveTimers>>

SaveStatus(d) ==
    /\ AtSave(d, "status")
    /\ SaveGoto(d, "announce")
    /\ sent' = {SetStatus("finished", d)}
    /\ UNCHANGED <<phase, players, obj, kickedSubs, table, deals,
                   savedGame, voteVars, lifeVars, netVars, leaveTimers>>

\* broadcastGameOver clears the votes and scores the table it finds.
Announce(d) ==
    /\ AtSave(d, "announce")
    /\ SaveGoto(d, IF table = "none" THEN "panic" ELSE "done")
    /\ votes' = {}
    /\ sent' = {}
    /\ UNCHANGED <<phase, players, obj, kickedSubs, table, deals,
                   savedGame, rematchToken, rematchArmed, rematchTimers, lifeVars,
                   netVars, leaveTimers>>

-----------------------------------------------------------------------------
(* The results screen.                                                     *)

\* A mutant of OpenCountdown: the timer keeps the token of before.
OpenCountdownOldToken ==
    /\ rematchToken' = rematchToken + 1
    /\ rematchArmed' = TRUE
    /\ rematchTimers' = rematchTimers \cup {rematchToken}

\* startRematchTimerLocked.
OpenCountdown ==
    /\ rematchToken' = rematchToken + 1
    /\ rematchArmed' = TRUE
    /\ rematchTimers' = rematchTimers \cup {rematchToken + 1}

\* handleRematchVoteLocked, while votes are missing: the first vote opens the
\* countdown.
VoteCounted(o) ==
    LET cast == votes \cup {obj[o].index} IN
    /\ phase = "playing" /\ table = "over"
    /\ Speaks(o) /\ ~obj[o].disconnected
    /\ Cardinality(cast) < Cardinality(Connected(players))
    /\ votes' = cast
    /\ IF votes = {} THEN OpenCountdown
       ELSE UNCHANGED <<rematchToken, rematchArmed, rematchTimers>>
    /\ sent' = {}
    /\ UNCHANGED <<phase, players, obj, kickedSubs, tableVars, lifeVars, netVars,
                   leaveTimers>>

\* A mutant of StopCountdown: a countdown that runs is left running.
LeaveCountdown ==
    IF votes = {} THEN OpenCountdown
    ELSE UNCHANGED <<rematchToken, rematchArmed, rematchTimers>>

\* stopRematchTimerLocked, after the countdown this vote may just have opened.
StopCountdown ==
    /\ rematchToken' = rematchToken + (IF votes = {} THEN 2 ELSE 1)
    /\ rematchArmed' = FALSE
    /\ rematchTimers' = rematchTimers \cup
                            (IF votes = {} THEN {rematchToken + 1} ELSE {})

\* handleRematchVoteLocked and startRematchGameLocked: the vote that completes
\* the count deals the next game.
VoteStarts(o) ==
    /\ phase = "playing" /\ table = "over"
    /\ Speaks(o) /\ ~obj[o].disconnected
    /\ Cardinality(votes \cup {obj[o].index}) >= Cardinality(Connected(players))
    /\ votes' = {}
    /\ StopCountdown
    /\ Deal
    /\ sent' = {SetStatus("in_progress", deals')}
    /\ UNCHANGED <<phase, players, obj, kickedSubs, lifeVars, netVars,
                   leaveTimers>>

\* A mutant of ReturnToWaitingRoom: the seats kept are not renumbered.
ReturnUnnumbered(kept, removed) ==
    /\ players' = kept
    /\ obj' = [o \in Objects |->
                  IF o \in Humans(kept)
                  THEN [obj[o] EXCEPT !.ready = Position(kept, o) = 1]
                  ELSE obj[o]]
    /\ phase' = "lobby"
    /\ table' = "none"
    /\ votes' = {}
    /\ rematchToken' = rematchToken + 1
    /\ rematchArmed' = FALSE
    /\ sent' = Removes(removed) \cup {SetStatus("waiting", deals)}
    /\ UNCHANGED <<kickedSubs, deals, savedGame, saver, lifeVars, netVars,
                   leaveTimers>>

\* returnToWaitingRoomLocked.
ReturnToWaitingRoom(kept, removed) ==
    /\ players' = kept
    /\ obj' = [o \in Objects |->
                  IF o \in Humans(kept)
                  THEN [obj[o] EXCEPT !.index = Position(kept, o) - 1,
                                      !.ready = Position(kept, o) = 1]
                  ELSE obj[o]]
    /\ phase' = "lobby"
    /\ table' = "none"
    /\ votes' = {}
    /\ rematchToken' = rematchToken + 1
    /\ rematchArmed' = FALSE
    /\ sent' = Removes(removed) \cup {SetStatus("waiting", deals)}
    /\ UNCHANGED <<kickedSubs, deals, savedGame, saver, lifeVars, netVars,
                   leaveTimers>>

\* handleGoToWaitingRoomLocked: the connected humans go, the others lose their
\* seat.
GoToWaitingRoom(o) ==
    /\ phase = "playing" /\ table = "over"
    /\ Speaks(o) /\ ~obj[o].disconnected
    /\ Connected(players) # {}
    /\ ReturnToWaitingRoom(
           Kept(players, Connected(players)),
           Humans(players) \ Connected(players))
    /\ UNCHANGED rematchTimers

Voters == {o \in Connected(players) : obj[o].index \in votes}

\* handleRematchTimeout: the voters return to the lobby, the connected
\* non-voters are removed.
RematchTimeout(token) ==
    /\ token \in rematchTimers
    /\ rematchTimers' = rematchTimers \ {token}
    /\ token = rematchToken /\ table # "live"
    /\ Voters # {}
    /\ ReturnToWaitingRoom(
           Kept(players, Voters),
           Connected(players) \ Voters)

\* handleRematchTimeout: no voter is left (a game_over broadcast cleared the votes).
RematchTimeoutUnvoted(token) ==
    /\ token \in rematchTimers
    /\ rematchTimers' = rematchTimers \ {token}
    /\ token = rematchToken /\ table # "live"
    /\ Voters = {}
    /\ players' = <<>>
    /\ votes' = {}
    /\ rematchArmed' = FALSE
    /\ sent' = {}
    /\ UNCHANGED <<phase, obj, kickedSubs, tableVars, rematchToken, lifeVars,
                   netVars, leaveTimers>>

\* handleRematchTimeout of a token that was superseded, or into a game.
RematchTimeoutIgnored(token) ==
    /\ token \in rematchTimers
    /\ rematchTimers' = rematchTimers \ {token}
    /\ token # rematchToken \/ table = "live"
    /\ rematchArmed' = (rematchArmed /\ token # rematchToken)
    /\ sent' = {}
    /\ UNCHANGED <<phase, players, obj, kickedSubs, tableVars, votes,
                   rematchToken, lifeVars, netVars, leaveTimers>>

-----------------------------------------------------------------------------
\* newRoomLocked.
Init ==
    /\ phase = "lobby" /\ players = <<>>
    /\ obj = [o \in Objects |-> NoObject]
    /\ kickedSubs = {}
    /\ table = "none" /\ deals = 0 /\ savedGame = 0
    /\ saver = [d \in Deals |-> [pc |-> "idle", game |-> 0]]
    /\ votes = {} /\ rematchToken = 0 /\ rematchArmed = FALSE /\ rematchTimers = {}
    /\ emptied = FALSE /\ torn = FALSE
    /\ socket = [s \in Sockets |-> 0] /\ joins = 0
    /\ leaveTimers = {}
    /\ sent = {}

Joining ==
    \E u \in Users : Reattach(u) \/ TakeSeat(u)

Dropping ==
    \E s \in Sockets : DropStale(s) \/ DropInLobby(s) \/ DropInGame(s)

Lobby ==
    \/ \E o \in Objects :
          \/ \E r \in BOOLEAN : SetReady(o, r)
          \/ Leave(o)
          \/ \E target \in Objects : Kick(o, target)
          \/ StartGame(o)
    \/ Teardown

Timers ==
    \/ \E timer \in leaveTimers : LeaveTimerFires(timer[1], timer[2])
                                  \/ LeaveTimerIgnored(timer[1], timer[2])
    \/ \E token \in rematchTimers : RematchTimeout(token)
                                    \/ RematchTimeoutUnvoted(token)
                                    \/ RematchTimeoutIgnored(token)

Saving == \E d \in Deals : SaveRead(d) \/ SaveWrite(d) \/ SaveStatus(d) \/ Announce(d)

Results == \E o \in Objects : VoteCounted(o) \/ VoteStarts(o) \/ GoToWaitingRoom(o)

\* A panic leaves the process dead or the room's lock taken.
Panicked == \E d \in Deals : AtSave(d, "panic")

Next ==
    /\ ~Panicked
    /\ Joining \/ Dropping \/ Lobby \/ Timers \/ LastMove \/ Saving \/ Results

\* Timers fire, and the goroutine that ended a game runs to its end.
Fairness == WF_vars(~Panicked /\ Timers) /\ WF_vars(~Panicked /\ Saving)

Spec == Init /\ [][Next]_vars
FairSpec == Spec /\ Fairness

-----------------------------------------------------------------------------
(* Properties.                                                             *)

Object == [sub : Users \cup {NoUser}, ready : BOOLEAN, disconnected : BOOLEAN,
           index : Seats, session : 0..MaxJoins, leaveToken : Nat]

TypeOK ==
    /\ phase \in {"lobby", "playing"}
    /\ players \in Seq(Objects \cup {Bot}) /\ Len(players) <= MaxPlayers
    /\ obj \in [Objects -> Object]
    /\ kickedSubs \in SUBSET Users
    /\ table \in {"none", "live", "over"}
    /\ deals \in 0..MaxDeals /\ savedGame \in 0..MaxDeals
    /\ votes \in SUBSET Seats
    /\ rematchToken \in Nat /\ rematchArmed \in BOOLEAN
    /\ rematchTimers \in SUBSET Nat
    /\ emptied \in BOOLEAN /\ torn \in BOOLEAN
    /\ socket \in [Sockets -> 0..MaxJoins] /\ joins \in 0..MaxJoins
    /\ leaveTimers \in SUBSET (Objects \X Nat)
    /\ \A d \in Deals :
          /\ saver[d].pc \in {"idle", "read", "write", "status", "announce",
                             "done", "panic"}
          /\ saver[d].game \in 0..MaxDeals
    /\ sent \in SUBSET Calls

\* Whatever joins, leaves, kicks and timers did to the roster: one seat per
\* identity, indices that are positions (the client's slots, the host's 0 and
\* the engine's seats), a host who is ready, a full table in a game.
RosterOK ==
    /\ \A i \in DOMAIN players : players[i] # Bot => obj[players[i]].index = i - 1
    /\ \A o, p \in Humans(players) : obj[o].sub = obj[p].sub => o = p
    /\ phase = "lobby" /\ players # <<>> => players[1] # Bot /\ obj[players[1]].ready
    /\ phase = "playing" => Len(players) \in {0, MaxPlayers}

\* A seat is shown as connected exactly while the socket that joined last for it
\* is open: the late close of a replaced socket never hides a live player, and
\* no seat stays "connected" without a socket (handleDisconnect's session check
\* against seatLocked's re-attachment).
LiveSeat ==
    \A o \in Humans(players) :
        obj[o].disconnected <=> socket[obj[o].session] # o

\* A seat held for a lost connection in the lobby always has the timer that
\* will free it: no chain of reconnects leaves a seat held for ever.
GraceRuns ==
    phase = "lobby" =>
        \A o \in Humans(players) \ Connected(players) :
            <<o, obj[o].leaveToken>> \in leaveTimers

\* Between two lobby states a seat is only lost by a user who is gone: a timer
\* of an earlier drop never takes the seat of a player who came back.
SeatsAreKept ==
    [][phase = "lobby" /\ phase' = "lobby" =>
         \A o \in Humans(players) \ Humans(players') : obj'[o].disconnected]_vars

\* A countdown never outlives the results screen it was opened on: the timer
\* that throws the table back to the lobby cannot fire into the next game.
\* A countdown the clients are shown has the timer that ends it.
CountdownOnlyAtResults ==
    /\ rematchToken \in rematchTimers => phase = "playing" /\ table = "over"
    /\ rematchArmed => rematchToken \in rematchTimers

\* A kicked identity never sits in the room again, by no order of kicks, drops,
\* held seats, starts and returns to the lobby (kickedSubs).
KickedHasNoSeat == SubsOf(Humans(players)) \cap kickedSubs = {}

\* Seats, objects, sockets, grace timers and the kicked set agree with each
\* other (seatLocked, removeLobbyPlayerLocked, handleDisconnect, handleKick).
SeatsOK == TypeOK /\ RosterOK /\ LiveSeat /\ GraceRuns /\ KickedHasNoSeat

\* The same of a room that goes from results screen to results screen, with
\* its countdowns (handleRematchTimeout, returnToWaitingRoomLocked).
ResultsOK == RosterOK /\ CountdownOnlyAtResults

\* A seat held in the lobby is resumed, freed, or settled by the start, unless
\* the room died of a panic.
HeldSeatIsSettled ==
    \A o \in Objects :
        (phase = "lobby" /\ Seated(o) /\ obj[o].disconnected)
            ~> (phase # "lobby" \/ ~Seated(o) \/ ~obj[o].disconnected \/ Panicked)

\* A rematch countdown always ends, with a game, a lobby, or a cancelled vote.
CountdownEnds == rematchArmed ~> ~rematchArmed

\* With timers that fire, whoever waits for one stops waiting
\* (scheduleLobbyLeaveLocked, startRematchTimerLocked).
WaitsEnd == HeldSeatIsSettled /\ CountdownEnds

\* --- statements of the code's documents that do not hold ---

\* "only the host can start the game" (handleStartGame); the host is the first
\* seated player.
OnlyHostStarts ==
    [][\A o \in Objects : StartGame(o) => o = players[1]]_vars

\* "A reconnect bumps leaveToken, so a stale timer firing here is ignored"
\* (finalizeLobbyLeave): no membership is dropped of a user who sits in the room.
RemovedUserIsGone ==
    [][\A call \in sent' :
         call.kind = "remove" =>
             \A o \in Connected(players) : obj[o].sub = call.user
                  => obj'[o].disconnected \/ o \notin Humans(players')]_vars

\* "When all currently connected humans have voted -> immediate rematch"
\* (docs/websocket.md): the vote that starts a game is the only one missing.
RematchIsUnanimous ==
    [][table = "over" /\ table' = "live" =>
         \E o \in Connected(players) :
             \A p \in Connected(players) \ {o} : obj[p].index \in votes]_vars

\* "game_id is the persisted history id when the game was saved": of this game.
GameIdIsOfThisGame == savedGame \in {0, deals}

\* Saving and announcing a result never score a table that was reset meanwhile.
ResultIsScored == ~Panicked

\* "A held-but-disconnected seat ... just let its grace timer/route handle it"
\* (handleRematchTimeout): back in the lobby, whoever lost the seat loses the
\* membership row.
LostSeatLosesRow ==
    [][phase = "playing" /\ phase' = "lobby" =>
         \A o \in Humans(players) \ Humans(players') :
             \E call \in sent' : call.kind = "remove" /\ call.of = o]_vars

\* "tear the room down ... so reconciliation and later joinRoom calls do not
\* observe stale state" (removeAndNotifyLobbyLeaveLocked): nobody is left sitting
\* in a room object that the manager has dropped.
TornRoomIsEmpty == torn => Connected(players) = {}

\* "Zero voters -> ... the room is torn down" (docs/websocket.md).
EmptiedRoomIsTornDown ==
    [][players # <<>> /\ players' = <<>> => emptied']_vars
=============================================================================
