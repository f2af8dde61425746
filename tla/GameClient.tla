------------------------------ MODULE GameClient ------------------------------
(***************************************************************************)
(* A player's browser tab at one room: the hook useGameSocket, which keeps *)
(* a WebSocket open and turns messages into React state, and the two pages *)
(* that mount it, WaitingRoomPage and GamePage (with the picture-in-picture *)
(* board).  Each page mounts a hook of its own, so the way from one page to *)
(* the other goes through a second socket.  The room on the server is the  *)
(* environment: where it stands, whether this player has a seat, and the    *)
(* socket it sends to.                                                      *)
(***************************************************************************)
EXTENDS Naturals, Sequences, FiniteSets

CONSTANTS Sockets,      \* identities of WebSockets, used again once dead
          Turns,        \* turns are counted modulo Turns
          MaxQueue,     \* bound on the messages under way on a socket
          RenderEach,   \* React renders between two messages
          UsePiP        \* the player may open the picture-in-picture board

ASSUME SocketsAssumption == Sockets \subseteq Nat \ {0} /\ Sockets # {}
ASSUME BoundsAssumption  == Turns \in Nat \ {0} /\ MaxQueue \in Nat \ {0}

VARIABLES page,   \* the mounted page, "away" for every page without a room
          hook,   \* the state and refs of the mounted useGameSocket
          ui,     \* the state of the mounted page
          socks,  \* the sockets of the tab
          room    \* the room as the server has it; overtaken (history): what
                  \* a socket did that the tab had dropped came last

vars == <<page, hook, ui, socks, room>>

None     == 0
Kinds    == {"play", "down"}             \* my turn: a card fits, or none does
Picks    == {"no", "now", "old"}         \* a card chosen this turn, or earlier

FreshHook ==
  [status |-> "idle", phase |-> "lobby", over |-> FALSE, closed |-> FALSE,
   lobby |-> FALSE, turn |-> 0, kind |-> "theirs", voted |-> FALSE,
   left |-> FALSE, cur |-> None, retry |-> FALSE]

FreshUi(pip) ==
  [was |-> FALSE, picked |-> "no", pip |-> pip, pipPicked |-> "no",
   asked |-> FALSE, dirty |-> FALSE]

DeadSocket == [st |-> "dead", hooked |-> FALSE, down |-> <<>>, up |-> <<>>]

TypeOK ==
  /\ page \in {"away", "room", "game"}
  /\ hook \in [status : {"idle", "connecting", "open", "closed", "error"},
               phase : {"lobby", "playing"}, over : BOOLEAN, closed : BOOLEAN,
               lobby : BOOLEAN, turn : 0..Turns - 1,
               kind : Kinds \union {"theirs"}, voted : BOOLEAN, left : BOOLEAN,
               cur : Sockets \union {None}, retry : BOOLEAN]
  /\ ui \in [was : BOOLEAN, picked : Picks, pip : BOOLEAN,
             pipPicked : Picks, asked : BOOLEAN, dirty : BOOLEAN]
  /\ \A s \in Sockets : /\ socks[s].st \in {"dead", "handshake", "open"}
                        /\ socks[s].hooked \in BOOLEAN
                        /\ Len(socks[s].down) <= MaxQueue + 1
                        /\ Len(socks[s].up) <= 2
  /\ room.stage \in {"lobby", "playing", "results", "gone"}
  /\ room.conn \in Sockets \union {None}

-----------------------------------------------------------------------------
(* The room.  It sends to the one socket it has for the player.            *)

RowOf(stage) == CASE stage = "lobby"   -> "waiting"
                  [] stage = "playing" -> "in_progress"
                  [] stage = "results" -> "finished"
                  [] stage = "gone"    -> "deleted"

StateMsg(r) == [t |-> "state_update", turn |-> r.turn, kind |-> r.kind]
Plain(t)    == [t |-> t]
VoteStatus(r)  == [t |-> "rematch_status", voted |-> r.voted]

Deliver(ss, conn, msgs) ==
  IF conn # None /\ ss[conn].st = "open"
  THEN [ss EXCEPT ![conn].down = @ \o msgs] ELSE ss

RoomToSend == room.conn # None => Len(socks[room.conn].down) < MaxQueue

NextTurn(r, k) == [r EXCEPT !.turn = (@ + 1) % Turns, !.kind = k,
                            !.stage = "playing", !.voted = FALSE, !.window = FALSE]
ToLobby(r) == [r EXCEPT !.stage = "lobby", !.voted = FALSE, !.window = FALSE,
                        !.kind = "theirs"]

\* Broadcast what the room became to the player's socket.
Tell(ss, r, msgs) == room' = r /\ socks' = Deliver(ss, r.conn, msgs)

\* Somebody else moves or the turn timer does, a game starts, everybody votes.
OthersAdvance ==
  /\ RoomToSend
  /\ \/ room.stage = "playing"
     \/ room.stage = "lobby" /\ room.conn # None
     \/ room.stage = "results" /\ (room.voted \/ room.conn = None)
  /\ \E k \in IF room.kind = "theirs" THEN Kinds \union {"theirs"} ELSE {"theirs"} :
       LET r == NextTurn(room, k) IN Tell(socks, r, <<StateMsg(r)>>)
  /\ UNCHANGED <<page, hook, ui>>

GameEnds ==
  /\ RoomToSend /\ room.stage = "playing"
  /\ Tell(socks, [room EXCEPT !.stage = "results", !.kind = "theirs"], <<Plain("game_over")>>)
  /\ UNCHANGED <<page, hook, ui>>

OtherVotes ==
  /\ RoomToSend /\ room.stage = "results" /\ ~room.window
  /\ Tell(socks, [room EXCEPT !.window = TRUE],
          <<VoteStatus(room)>>)
  /\ UNCHANGED <<page, hook, ui>>

\* Another player drops at the results: an open countdown stops.
OtherLeaves ==
  /\ RoomToSend /\ room.stage = "results"
  /\ Tell(socks, [room EXCEPT !.window = FALSE], <<Plain("player_disconnected")>>)
  /\ UNCHANGED <<page, hook, ui>>

\* The rematch window closes: voters are back in the lobby, the others out.
WindowCloses ==
  /\ RoomToSend /\ room.window
  /\ IF room.voted /\ room.conn # None
     THEN Tell(socks, ToLobby(room), <<Plain("lobby_state")>>)
     ELSE \E st \in {"lobby", "gone"} :
            /\ room' = [ToLobby(room) EXCEPT !.stage = st, !.seated = FALSE, !.conn = None]
            /\ socks' = Deliver(socks, room.conn, <<Plain("room_closed")>>)
  /\ UNCHANGED <<page, hook, ui>>

\* Somebody takes the players who are left back to the waiting room.
OthersReturn ==
  /\ RoomToSend /\ room.stage = "results"
  /\ IF room.conn # None
     THEN Tell(socks, ToLobby(room), <<Plain("lobby_state")>>)
     ELSE room' = [ToLobby(room) EXCEPT !.seated = FALSE] /\ UNCHANGED socks
  /\ UNCHANGED <<page, hook, ui>>

\* The host kicks the player, or the seat's grace period runs out.
SeatLost ==
  /\ RoomToSend /\ room.stage = "lobby" /\ room.seated
  /\ \E st \in {"lobby", "gone"} :
       /\ st = "gone" => room.conn = None
       /\ room' = [room EXCEPT !.seated = FALSE, !.conn = None, !.stage = st]
       /\ socks' = Deliver(socks, room.conn, <<Plain("room_closed")>>)
  /\ UNCHANGED <<page, hook, ui>>

\* A message from the player.  What the room refuses is answered with a
\* toast, which is left out.
Receive(s) ==
  /\ socks[s].up # <<>>
  /\ RoomToSend
  /\ LET cmd == Head(socks[s].up)
         ss  == [socks EXCEPT ![s].up = Tail(@)]
     IN CASE cmd = "play_card" /\ room.stage = "playing" /\ room.kind = "play" ->
               LET r == NextTurn(room, "theirs") IN Tell(ss, r, <<StateMsg(r)>>)
          [] cmd = "place_facedown" /\ room.stage = "playing" /\ room.kind = "down" ->
               LET r == NextTurn(room, "theirs") IN Tell(ss, r, <<StateMsg(r)>>)
          [] cmd = "start_game" /\ room.stage = "lobby" /\ room.seated ->
               LET r == NextTurn(room, "play") IN Tell(ss, r, <<StateMsg(r)>>)
          [] cmd = "lobby_command" /\ room.stage = "lobby" /\ room.seated ->
               Tell(ss, room, <<Plain("lobby_state")>>)
          [] cmd = "rematch_vote" /\ room.stage = "results" ->
               LET r == [room EXCEPT !.voted = TRUE, !.window = TRUE]
               IN Tell(ss, r, <<VoteStatus(r)>>)
          [] cmd = "go_to_waiting_room" /\ room.stage = "results" /\ room.conn # None ->
               Tell(ss, ToLobby(room), <<Plain("lobby_state")>>)
          [] cmd = "leave" /\ room.stage = "lobby" /\ room.seated ->
               \E st \in {"lobby", "gone"} :
                 Tell(ss, [room EXCEPT !.seated = FALSE, !.conn = None, !.stage = st,
                                       !.overtaken = TRUE], <<>>)
          [] OTHER -> Tell(ss, room, <<>>)
  /\ UNCHANGED <<page, hook, ui>>

\* Mutant: a dead socket takes the seat with it, whoever has it now.
NoticeAny(s) ==
  /\ socks[s].st = "dead" /\ socks[s].up = <<>> /\ room.conn # None
  /\ room' = [room EXCEPT !.conn = None]
  /\ UNCHANGED <<page, hook, ui, socks>>

\* The server notices that its socket is dead (handleDisconnect): only the
\* session that has the seat counts.  A countdown stops with the drop.
Notice(s) ==
  /\ socks[s].st = "dead" /\ socks[s].up = <<>> /\ room.conn = s
  /\ room' = [room EXCEPT !.conn = None,
                          !.voted = @ /\ ~room.window,
                          !.window = FALSE]
  /\ UNCHANGED <<page, hook, ui, socks>>

-----------------------------------------------------------------------------
(* useGameSocket: opening, losing and replacing a socket.                  *)

\* Mutant: a closed room is tried again as well.
ScheduleAlways(h) == [h EXCEPT !.retry = TRUE]

\* scheduleReconnect: not after a permanent close, and one timer at a time.
ScheduleReconnect(h) == [h EXCEPT !.retry = @ \/ ~h.closed]

\* Mutant: the old socket is closed with its handlers on.
CleanUpAttached(ss, s) ==
  IF s = None THEN ss
  ELSE [ss EXCEPT ![s].st = IF @ = "handshake" THEN @ ELSE "dead"]

\* The effect's cleanup: the handlers are detached and the socket is closed,
\* one that is still connecting only when its handshake is over.  What was
\* sent on an open socket still arrives.
CleanUp(ss, s) ==
  IF s = None THEN ss
  ELSE [ss EXCEPT ![s].hooked = FALSE, ![s].down = <<>>,
                  ![s].st = IF @ = "handshake" THEN @ ELSE "dead"]

FreeSockets(ss) == {s \in Sockets : ss[s] = DeadSocket /\ room.conn # s}

\* The effect itself: the old socket is cleaned up and a new one opened.
OpenSocket(h, ss) ==
  \E s \in FreeSockets(ss) :
    /\ s = CHOOSE x \in FreeSockets(ss) : \A y \in FreeSockets(ss) : x <= y
    /\ hook' = [h EXCEPT !.cur = s, !.status = "connecting"]
    /\ socks' = [ss EXCEPT ![s] = [DeadSocket EXCEPT !.st = "handshake", !.hooked = TRUE]]

\* A page is mounted: its hook starts from nothing, and the page asks the API
\* for the room.
Mount(p) ==
  /\ page' = p
  /\ ui' = [FreshUi(ui.pip) EXCEPT !.asked = TRUE]
  /\ OpenSocket(FreshHook, CleanUp(socks, hook.cur))

Unmount(ss) ==
  /\ page' = "away"
  /\ hook' = FreshHook
  /\ ui' = FreshUi(ui.pip)
  /\ socks' = CleanUp(ss, hook.cur)

\* The game page closes the floating window when the connection is lost, and
\* with it go the choices made there.
WithoutPip == IF page = "game" THEN [ui EXCEPT !.pip = FALSE, !.pipPicked = "no"] ELSE ui

\* The server admits the socket and answers with where the room stands, or
\* refuses it with a fatal error and closes it; onopen runs in the browser.  A
\* socket that the tab has dropped in the meantime is let in as well, whatever
\* the seat's socket is by then.
Refused(s) == <<[room EXCEPT !.overtaken = @ /\ ~socks[s].hooked], <<Plain("fatal"), Plain("bye")>>>>
Taken(s)   == [room EXCEPT !.conn = s, !.seated = TRUE, !.overtaken = ~socks[s].hooked]

Admission(s) ==
  CASE room.stage = "gone" -> {Refused(s)}
    [] room.stage = "lobby" ->
         {<<Taken(s), <<Plain("lobby_state")>>>>} \union (IF room.seated THEN {} ELSE {Refused(s)})
    [] OTHER ->
         IF ~room.seated THEN {Refused(s)}
         ELSE {<<Taken(s), <<IF room.stage = "playing" THEN StateMsg(room) ELSE Plain("game_over")>>>>}

HandshakeEnds(s) ==
  /\ socks[s].st = "handshake"
  /\ \E a \in Admission(s) :
       /\ room' = a[1]
       /\ socks' = [socks EXCEPT ![s] = IF socks[s].hooked
                                        THEN [@ EXCEPT !.st = "open", !.down = a[2]]
                                        ELSE DeadSocket]
  /\ IF socks[s].hooked
     THEN hook' = [hook EXCEPT !.status = "open"]
     ELSE UNCHANGED hook
  /\ UNCHANGED <<page, ui>>

\* Mutant: a socket that is lost is not replaced.
SocketLostForGood(s, ss, st) ==
  /\ socks' = [ss EXCEPT ![s] = DeadSocket]
  /\ IF socks[s].hooked /\ hook.cur = s
     THEN hook' = [hook EXCEPT !.status = IF @ = "error" THEN @ ELSE st] /\ ui' = WithoutPip
     ELSE UNCHANGED <<hook, ui>>

\* onclose, with an onerror before it or not, of the socket the hook holds.
SocketLost(s, ss, st) ==
  /\ socks' = [ss EXCEPT ![s] = DeadSocket]
  /\ IF socks[s].hooked /\ hook.cur = s
     THEN /\ hook' = ScheduleReconnect([hook EXCEPT !.status = IF @ = "error" THEN @ ELSE st])
          /\ ui' = WithoutPip
     ELSE UNCHANGED <<hook, ui>>

\* The network fails: what is under way is lost.
HandshakeFails(s) ==
  /\ socks[s].st = "handshake"
  /\ SocketLost(s, socks, "error")
  /\ UNCHANGED <<page, room>>

NetworkDrops(s) ==
  /\ socks[s].st = "open"
  /\ SocketLost(s, socks, "closed")
  /\ UNCHANGED <<page, room>>

ReconnectTimerFires ==
  /\ hook.retry
  /\ OpenSocket([hook EXCEPT !.retry = FALSE], CleanUp(socks, hook.cur))
  /\ UNCHANGED <<page, ui, room>>

-----------------------------------------------------------------------------
(* Messages from the server (handleMessage).                               *)

Aged(pick) == IF pick = "no" THEN "no" ELSE "old"

OnLobbyState(h) == [h EXCEPT !.lobby = TRUE, !.phase = "lobby", !.over = FALSE]

\* Mutant: a new game leaves the results up.
OnStateUpdateOver(h, m) ==
  [h EXCEPT !.phase = "playing", !.turn = m.turn, !.kind = m.kind,
            !.voted = FALSE, !.left = FALSE]

OnStateUpdate(h, m) ==
  [h EXCEPT !.phase = "playing", !.turn = m.turn, !.kind = m.kind, !.over = FALSE,
            !.voted = FALSE, !.left = FALSE]

OnGameOver(h) == [h EXCEPT !.over = TRUE, !.voted = FALSE, !.left = FALSE]

\* Mutant: a fatal error is a toast like any other.
HandledSoftly(h, m) ==
  CASE m.t = "lobby_state"       -> OnLobbyState(h)
    [] m.t = "state_update"      -> OnStateUpdate(h, m)
    [] m.t = "game_over"         -> OnGameOver(h)
    [] m.t = "room_closed"       -> [h EXCEPT !.closed = TRUE]
    [] OTHER                     -> h

Handled(h, m) ==
  CASE m.t = "lobby_state"       -> OnLobbyState(h)
    [] m.t = "state_update"      -> OnStateUpdate(h, m)
    [] m.t = "game_over"         -> OnGameOver(h)
    [] m.t = "rematch_status"    -> [h EXCEPT !.voted = m.voted]
    [] m.t = "player_disconnected" -> [h EXCEPT !.left = TRUE]
    [] m.t \in {"room_closed", "fatal"} -> [h EXCEPT !.closed = TRUE]

\* A card chosen before a new turn is a choice of an earlier turn.
AgedUi(u, m) ==
  IF m.t = "state_update" /\ m.turn # hook.turn
  THEN [u EXCEPT !.picked = Aged(@), !.pipPicked = Aged(@)]
  ELSE u

OnMessage(s) ==
  /\ socks[s].hooked /\ socks[s].down # <<>>
  /\ RenderEach => ~ui.dirty
  /\ LET m == Head(socks[s].down)
         ss == [socks EXCEPT ![s].down = Tail(@)]
     IN IF m.t = "bye"
        THEN SocketLost(s, ss, "closed")
        ELSE /\ hook' = Handled(hook, m)
             /\ ui' = [AgedUi(ui, m) EXCEPT !.dirty = TRUE]
             /\ socks' = ss
  /\ UNCHANGED <<page, room>>

-----------------------------------------------------------------------------
(* The pages: a render with its effects, and what the player does.         *)

FaceDownMode == hook.kind = "down" /\ ~hook.over

\* The effects that watch the hook navigate: a closed room leads to the
\* lobby, a game to the game page, and a game page that has seen its game
\* back to the waiting room.  Without a navigation the game page drops a
\* selection once face-down mode is over, and the board in the floating
\* window goes when the game or the connection does.
PipDies == hook.over \/ hook.status \in {"closed", "error"}

NavigateHome == hook.closed /\ Unmount(socks)

FollowGame ==
  /\ ~hook.closed /\ page = "room" /\ hook.phase = "playing"
  /\ Mount("game")

FollowLobby ==
  /\ ~hook.closed /\ page = "game" /\ hook.phase = "lobby" /\ ui.was
  /\ Mount("room")

\* The render-phase adjustment of the game page.
KeptSelection(pick) == IF hook.kind = "down" THEN pick ELSE "no"

Stay ==
  /\ ~hook.closed
  /\ ~(page = "room" /\ hook.phase = "playing")
  /\ ~(page = "game" /\ hook.phase = "lobby" /\ ui.was)
  /\ LET pip == ui.pip /\ ~(page = "game" /\ PipDies) IN
     ui' = [ui EXCEPT !.dirty = FALSE,
                      !.was = @ \/ (page = "game" /\ hook.phase = "playing"),
                      !.picked = KeptSelection(@),
                      !.pip = pip,
                      !.pipPicked = IF pip THEN @ ELSE "no"]
  /\ UNCHANGED <<page, hook, socks>>

Render ==
  /\ page # "away" /\ ui.dirty
  /\ NavigateHome \/ FollowGame \/ FollowLobby \/ Stay
  /\ UNCHANGED room

\* The answer of getRoom: a room that is gone leads to the lobby, and a
\* finished one leads the game page to the history.  The row is set by
\* requests of its own, so that it may lag behind the room by a stage.
RoomAnswer ==
  /\ ui.asked
  /\ \E row \in {RowOf(room.stage), "in_progress", "finished"} :
       IF row = "deleted" \/ (page = "game" /\ row = "finished")
       THEN Unmount(socks)
       ELSE ui' = [ui EXCEPT !.asked = FALSE] /\ UNCHANGED <<page, hook, socks>>
  /\ UNCHANGED room

\* send(): a socket that is not open only shows a toast.
CanSend == hook.cur # None /\ socks[hook.cur].st = "open"
Sent(ss, cmd) == IF CanSend THEN [ss EXCEPT ![hook.cur].up = Append(@, cmd)] ELSE ss
RoomToAsk == CanSend => Len(socks[hook.cur].up) < 1

\* ... and if the browser throws all the same, the socket goes at once.
SendThrows ==
  /\ CanSend /\ ~ui.dirty
  /\ OpenSocket([hook EXCEPT !.status = "error", !.retry = FALSE, !.cur = None],
                [socks EXCEPT ![hook.cur] = DeadSocket])
  /\ ui' = WithoutPip
  /\ UNCHANGED <<page, room>>

\* WaitingRoomPage: the buttons of the host and of everyone.
WaitingRoomClick ==
  /\ page = "room" /\ ~ui.dirty /\ RoomToAsk
  /\ hook.lobby
  /\ \E cmd \in {"start_game", "lobby_command"} : socks' = Sent(socks, cmd)
  /\ UNCHANGED <<page, hook, ui, room>>

\* handleLeave and leaveRoom: tell the server, then go whatever became of it.
LeaveRoom ==
  /\ page = "room" \/ (page = "game" /\ hook.over)
  /\ ~ui.dirty /\ RoomToAsk
  /\ Unmount(Sent(socks, "leave"))
  /\ UNCHANGED room

PageShowsGame == page = "game" /\ ~hook.over /\ ~ui.dirty

\* GamePage: a card is played, or a penalty card is selected and then
\* confirmed.  The question at which end an Ace closes its suit is part of the
\* click: it outlives the turn, and an answer that is late is a play_card like
\* any other.
ClickCard ==
  /\ PageShowsGame /\ RoomToAsk
  /\ \/ hook.kind = "play" /\ socks' = Sent(socks, "play_card") /\ UNCHANGED ui
     \/ hook.kind = "down" /\ ui' = [ui EXCEPT !.picked = "now"] /\ UNCHANGED socks
  /\ UNCHANGED <<page, hook, room>>

ConfirmFaceDown ==
  /\ PageShowsGame /\ FaceDownMode /\ ui.picked # "no" /\ RoomToAsk
  /\ ui' = [ui EXCEPT !.picked = "no"]
  /\ socks' = Sent(socks, "place_facedown")
  /\ UNCHANGED <<page, hook, room>>

\* PiPBoard: the same choices, held by the board in the floating window.
PipClick ==
  /\ PageShowsGame /\ ui.pip /\ RoomToAsk
  /\ \/ hook.kind = "play" /\ socks' = Sent(socks, "play_card") /\ UNCHANGED ui
     \/ FaceDownMode /\ ui' = [ui EXCEPT !.pipPicked = "now"] /\ UNCHANGED socks
     \/ FaceDownMode /\ ui.pipPicked # "no" /\ ui' = [ui EXCEPT !.pipPicked = "no"]
          /\ socks' = Sent(socks, "place_facedown")
  /\ UNCHANGED <<page, hook, room>>

TogglePip ==
  /\ UsePiP /\ page = "game" /\ ~ui.dirty
  /\ ui' = [ui EXCEPT !.pip = ~@, !.pipPicked = "no"]
  /\ UNCHANGED <<page, hook, socks, room>>

\* GameOverPanel.
ResultsClick ==
  /\ page = "game" /\ hook.over /\ ~ui.dirty /\ RoomToAsk
  /\ socks' = Sent(socks, IF hook.left THEN "go_to_waiting_room" ELSE "rematch_vote")
  /\ hook.left \/ ~hook.voted
  /\ UNCHANGED <<page, hook, ui, room>>

\* Any other way off the page, and the ways back: the resume button, a link.
WalkAway == page # "away" /\ Unmount(socks) /\ UNCHANGED room

Enter ==
  /\ page = "away"
  /\ \E p \in {"room", "game"} : Mount(p)
  /\ UNCHANGED room

-----------------------------------------------------------------------------
Init ==
  /\ page = "away" /\ hook = FreshHook /\ ui = FreshUi(FALSE)
  /\ socks = [s \in Sockets |-> DeadSocket]
  /\ room = [stage |-> "lobby", seated |-> TRUE, conn |-> None, turn |-> 0,
             kind |-> "theirs", voted |-> FALSE, window |-> FALSE, overtaken |-> FALSE]

RoomStep ==
  \/ OthersAdvance \/ GameEnds \/ OtherVotes \/ OtherLeaves \/ OthersReturn \/ WindowCloses \/ SeatLost
  \/ \E s \in Sockets : Receive(s) \/ Notice(s)

SocketStep ==
  \/ ReconnectTimerFires \/ SendThrows
  \/ \E s \in Sockets : \/ HandshakeEnds(s) \/ HandshakeFails(s)
                        \/ NetworkDrops(s) \/ OnMessage(s)

PlayerStep ==
  \/ WaitingRoomClick \/ LeaveRoom \/ ClickCard \/ ConfirmFaceDown
  \/ PipClick \/ TogglePip \/ ResultsClick \/ WalkAway \/ Enter

Next == RoomStep \/ SocketStep \/ Render \/ RoomAnswer \/ PlayerStep

\* Timers fire, events are rendered, the server notices and answers.  The
\* network may fail again and again, but not every time: handshakes that are
\* tried forever succeed, and connections that come back deliver something.
\* The handshake of a socket that was dropped ends as well, one way or the other.
Fairness ==
  /\ WF_vars(ReconnectTimerFires) /\ WF_vars(Render)
  /\ WF_vars(\E s \in Sockets : Receive(s)) /\ WF_vars(\E s \in Sockets : Notice(s))
  /\ SF_vars(\E s \in Sockets : HandshakeEnds(s)) /\ SF_vars(\E s \in Sockets : OnMessage(s))
  /\ WF_vars(\E s \in Sockets : ~socks[s].hooked /\ (HandshakeEnds(s) \/ HandshakeFails(s)))

Spec == Init /\ [][Next]_vars /\ Fairness

-----------------------------------------------------------------------------
(* Properties.                                                             *)

\* A socket the page listens to, and has no reason to give up, has the seat.
Keeps(s) ==
  (/\ socks[s].st = "open" /\ socks[s].hooked /\ ~hook.closed
   /\ \A i \in DOMAIN socks[s].down : socks[s].down[i].t \notin {"fatal", "bye", "room_closed"})
    => room.conn = s /\ room.seated /\ room.stage # "gone"

\* Nothing is under way and everything is rendered.
Settled ==
  /\ page # "away" /\ hook.cur # None /\ ~ui.dirty
  /\ room.conn = hook.cur
  /\ socks[hook.cur].st = "open" /\ socks[hook.cur].hooked /\ socks[hook.cur].down = <<>>

\* One socket at most runs the handlers of the hook, and it is the one the
\* hook sends on: a superseded socket is silent.
OneLiveSocket == \A s \in Sockets : socks[s].hooked => s = hook.cur

\* A page is connected or connecting, or its timer is armed, or it has
\* something to render: nobody waits at a page for a socket that nobody opens.
NeverStranded ==
  page # "away" /\ ~ui.dirty =>
    \/ hook.cur # None /\ socks[hook.cur].hooked /\ socks[hook.cur].st # "dead"
    \/ hook.retry

\* The state keeps its types, a superseded socket is silent, and the socket
\* of a mounted page is replaced.
ClientSound == TypeOK /\ OneLiveSocket /\ NeverStranded

\* However the connection dropped and came back, a page at rest shows what
\* the room is at: the turn of a running game, the results, or the lobby,
\* and one that saw the game end follows the players to the waiting room.
PageFollowsRoom ==
  Settled =>
    /\ room.stage = "playing" => /\ page = "game" /\ ~hook.over
                                 /\ hook.turn = room.turn /\ hook.kind = room.kind
    /\ room.stage = "results" => hook.over
    /\ room.stage = "lobby"   => ~hook.over /\ (ui.was => page = "room")

\* A page that is connected, and has not been told to go, has its seat: the room
\* sends to the socket it listens to, however pages and sockets followed upon
\* each other, connections broke and the seat changed hands.  The server takes
\* whatever arrives last, so this ends when a socket that the tab has dropped
\* finishes its handshake, or its "leave" is read, after the page's own socket
\* was let in; the next socket that is let in mends it.
SeatFollowsSocket == ~room.overtaken => \A s \in Sockets : Keeps(s)

\* After a permanent close (a kick, a refused join, a closed window) the
\* mounted hook opens no socket again.
ClosedIsFinal ==
  [][hook.closed /\ hook'.closed => (hook'.cur = hook.cur \/ hook'.cur = None)]_vars

\* A player whose connection broke is back, or has been sent away.
ComesBack ==
  (page # "away" /\ hook.status \in {"closed", "error"})
    ~> (page = "away" \/ hook.status = "open")

\* Nobody stays at a room that is gone: whoever sits in it is told, and whoever
\* asks for it is refused.  A page whose seat went to a socket that the tab had
\* dropped, or with a "leave" that came late, is not told.
DeadRoomIsLeft == (room.stage = "gone" /\ page # "away") ~> (page = "away" \/ room.overtaken)

\* A room that ends for a player ends for good: no socket asks for it again,
\* and its page is left.
DeadRoomIsOver == ClosedIsFinal /\ DeadRoomIsLeft

\* --- what a player would expect, and does not hold ---

\* The socket of the page a player looks at has the seat, whatever a socket of
\* an earlier page still does.
LatestPageHasSeat == \A s \in Sockets : Keeps(s)

\* When a turn to place a card face down is shown, no card of an earlier
\* turn is still selected on the page.
NoStaleSelection == (PageShowsGame /\ FaceDownMode) => ui.picked # "old"

\* ... nor in the floating window.
NoStalePipSelection == (PageShowsGame /\ FaceDownMode /\ ui.pip) => ui.pipPicked # "old"

\* A player at a finished room is not sent away from its results.
FinishedRoomShowsResults ==
  [][(page = "game" /\ room.stage = "results" /\ room.seated /\ ~hook.closed /\ RoomAnswer)
       => page' = "game"]_vars
=============================================================================
