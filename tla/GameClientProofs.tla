--------------------------- MODULE GameClientProofs ---------------------------
(***************************************************************************)
(* What the tab of GameClient guarantees for any sockets, any number of    *)
(* turns and any number of messages under way.                             *)
(*                                                                         *)
(* The invariant has two sides: which sockets, timers and handlers a page  *)
(* can have (SocketsSound, RetrySound, AtHome), and what the messages on   *)
(* their way to it say about the room (FollowInv).  The lemmas go through  *)
(* the steps: the room's, the page's, sockets that are left, opened, lost  *)
(* or let in, and the messages that are handled.                           *)
(***************************************************************************)
EXTENDS GameClient, TLAPS, SequenceTheorems

-----------------------------------------------------------------------------
(* The invariant.                                                          *)

Marks    == {"lobby_state", "state_update", "game_over"}
Messages ==
  [t : {"lobby_state", "game_over", "player_disconnected", "room_closed", "fatal", "bye"}]
    \cup [t : {"state_update"}, turn : 0..Turns - 1, kind : Kinds \cup {"theirs"}]
    \cup [t : {"rematch_status"}, voted : BOOLEAN]
Commands == {"start_game", "lobby_command", "leave", "play_card", "place_facedown",
             "rematch_vote", "go_to_waiting_room"}

Lines  == [st : {"dead", "handshake", "open"}, hooked : BOOLEAN,
           down : Seq(Messages), up : Seq(Commands)]
Rooms  == [stage : {"lobby", "playing", "results", "gone"}, seated : BOOLEAN,
           conn : Sockets \cup {None}, turn : 0..Turns - 1, kind : Kinds \cup {"theirs"},
           voted : BOOLEAN, window : BOOLEAN, overtaken : BOOLEAN]
Hooks  == [status : {"idle", "connecting", "open", "closed", "error"},
           phase : {"lobby", "playing"}, over : BOOLEAN, closed : BOOLEAN,
           lobby : BOOLEAN, turn : 0..Turns - 1,
           kind : Kinds \cup {"theirs"}, voted : BOOLEAN, left : BOOLEAN,
           cur : Sockets \cup {None}, retry : BOOLEAN]
Uis    == [was : BOOLEAN, picked : Picks, pip : BOOLEAN,
           pipPicked : Picks, asked : BOOLEAN, dirty : BOOLEAN]

\* Both queues of a socket are short: the room waits for the one, the page
\* for the other.
Types ==
  /\ page \in {"away", "room", "game"}
  /\ hook \in Hooks
  /\ ui \in Uis
  /\ room \in Rooms
  /\ socks \in [Sockets -> Lines]
  /\ \A s \in Sockets : Len(socks[s].down) <= MaxQueue + 1 /\ Len(socks[s].up) <= 1

\* A socket is open for the mounted hook only, the room is connected to none
\* that is still in its handshake, and no page has no socket.
SocketsSound ==
  /\ \A s \in Sockets : /\ socks[s].hooked => s = hook.cur
                        /\ socks[s].st = "open" => socks[s].hooked
                        /\ socks[s].st = "handshake" => room.conn # s
  /\ page = "away" => hook = FreshHook

\* A hook that waits for its timer listens to nothing, and has not been told
\* that the room is closed.
RetrySound == hook.retry => ~hook.closed /\ \A s \in Sockets : ~socks[s].hooked

\* A mounted page has a socket that it listens to, or will get one, unless it
\* has been told that the room is closed.
Listening == hook.cur \in Sockets /\ socks[hook.cur].hooked /\ socks[hook.cur].st # "dead"
AtHome    == page # "away" => Listening \/ hook.retry \/ hook.closed

\* Whoever leaves drops the socket with it, and nothing is sent on a socket
\* that is still in its handshake.
CommandsSound ==
  \A s \in Sockets :
    /\ socks[s].st = "open" /\ socks[s].up # <<>> => Head(socks[s].up) # "leave"
    /\ socks[s].st = "handshake" => socks[s].up = <<>>

\* What m says about the room, and what the hook shows of it.
Says(m, r) ==
  /\ r.stage = "lobby"   => m.t = "lobby_state"
  /\ r.stage = "playing" => m.t = "state_update" /\ m.turn = r.turn /\ m.kind = r.kind
  /\ r.stage = "results" => m.t = "game_over"

Shown(h, r) ==
  /\ r.stage = "lobby"   => h.phase = "lobby" /\ ~h.over
  /\ r.stage = "playing" => h.phase = "playing" /\ ~h.over /\ h.turn = r.turn /\ h.kind = r.kind
  /\ r.stage = "results" => h.over

LastMark(d, m) ==
  \E i \in 1..Len(d) : /\ d[i] = m /\ m.t \in Marks
                       /\ \A j \in (i + 1)..Len(d) : d[j].t \notin Marks
NoMark(d) == \A i \in 1..Len(d) : d[i].t \notin Marks

\* The last message that shows where the room stands shows it as it is now;
\* when there is none under way, the hook does.
Follows(d, h, r) ==
  /\ \A m \in Messages : LastMark(d, m) => Says(m, r)
  /\ NoMark(d) => Shown(h, r)

FollowInv ==
  \A s \in Sockets : socks[s].st = "open" /\ room.conn = s => Follows(socks[s].down, hook, room)

\* What is rendered is the page the hook's state leads to.
Rendered ==
  page # "away" /\ ~ui.dirty =>
    /\ ~hook.closed
    /\ ~(page = "room" /\ hook.phase = "playing")
    /\ ~(page = "game" /\ hook.phase = "lobby" /\ ui.was)

ClientInv == Types /\ SocketsSound /\ RetrySound /\ AtHome /\ CommandsSound /\ FollowInv /\ Rendered

-----------------------------------------------------------------------------
(* Messages and marks.                                                     *)

LEMMA MessageTypes ==
  /\ \A t \in {"lobby_state", "game_over", "player_disconnected", "room_closed", "fatal", "bye"} :
       Plain(t) \in Messages /\ Plain(t).t = t
  /\ \A r \in Rooms : /\ StateMsg(r) \in Messages
                      /\ StateMsg(r).t = "state_update"
                      /\ StateMsg(r).turn = r.turn /\ StateMsg(r).kind = r.kind
                      /\ VoteStatus(r) \in Messages
                      /\ VoteStatus(r).t = "rematch_status"
<1>1. ASSUME NEW t \in {"lobby_state", "game_over", "player_disconnected", "room_closed", "fatal", "bye"}
      PROVE  Plain(t) \in Messages /\ Plain(t).t = t
  BY DEF Plain, Messages
<1>2. ASSUME NEW r \in Rooms
      PROVE  /\ StateMsg(r) \in Messages
             /\ StateMsg(r).t = "state_update"
             /\ StateMsg(r).turn = r.turn /\ StateMsg(r).kind = r.kind
  BY DEF StateMsg, Messages, Rooms
<1>3. ASSUME NEW r \in Rooms
      PROVE  VoteStatus(r) \in Messages /\ VoteStatus(r).t = "rematch_status"
  BY DEF VoteStatus, Messages, Rooms
<1> QED
  BY <1>1, <1>2, <1>3

LEMMA AppendMarks ==
  ASSUME NEW d \in Seq(Messages), NEW m \in Messages
  PROVE  /\ m.t \in Marks => /\ \A x : LastMark(Append(d, m), x) => x = m
                             /\ ~NoMark(Append(d, m))
         /\ m.t \notin Marks => /\ \A x : LastMark(Append(d, m), x) => LastMark(d, x)
                                /\ NoMark(Append(d, m)) => NoMark(d)
<1> DEFINE e == Append(d, m)
           n == Len(d)
<1>1. /\ n \in Nat /\ Len(e) = n + 1 /\ e[n + 1] = m
      /\ \A i \in 1..n : e[i] = d[i]
  BY AppendProperties
<1>2. ASSUME NEW x, NEW i \in 1..(n + 1), e[i] = x, x.t \in Marks,
             \A j \in (i + 1)..(n + 1) : e[j].t \notin Marks
      PROVE  /\ m.t \in Marks => x = m
             /\ m.t \notin Marks => LastMark(d, x)
  <2>1. CASE i = n + 1
    BY <1>1, <1>2, <2>1
  <2>2. CASE i # n + 1
    <3>1. i \in 1..n /\ n + 1 \in (i + 1)..(n + 1) /\ (i + 1)..n \subseteq (i + 1)..(n + 1)
      BY <1>1, <2>2
    <3>2. m.t \notin Marks
      BY <1>1, <1>2, <3>1
    <3>3. \A j \in (i + 1)..n : d[j].t \notin Marks
      <4> SUFFICES ASSUME NEW j \in (i + 1)..n PROVE d[j].t \notin Marks
        OBVIOUS
      <4>1. j \in 1..n /\ j \in (i + 1)..(n + 1)
        BY <1>1, <3>1
      <4> QED
        BY <1>1, <1>2, <4>1
    <3> QED
      BY <1>1, <1>2, <3>1, <3>2, <3>3 DEF LastMark
  <2> QED
    BY <2>1, <2>2
<1>3. \A x : LastMark(e, x) => /\ m.t \in Marks => x = m
                               /\ m.t \notin Marks => LastMark(d, x)
  BY <1>1, <1>2 DEF LastMark
<1>4. m.t \in Marks => ~NoMark(e)
  BY <1>1 DEF NoMark
<1>5. NoMark(e) => NoMark(d)
  <2> SUFFICES ASSUME NoMark(e), NEW i \in 1..n PROVE d[i].t \notin Marks
    BY DEF NoMark
  <2>1. i \in 1..Len(e) /\ e[i] = d[i]
    BY <1>1
  <2> QED
    BY <2>1 DEF NoMark
<1> HIDE DEF e
<1> QED
  BY <1>3, <1>4, <1>5 DEF e

LEMMA TailMarks ==
  ASSUME NEW d \in Seq(Messages), d # <<>>
  PROVE  /\ \A x : LastMark(Tail(d), x) => LastMark(d, x)
         /\ NoMark(Tail(d)) /\ Head(d).t \in Marks => LastMark(d, Head(d))
         /\ NoMark(Tail(d)) /\ Head(d).t \notin Marks => NoMark(d)
<1> DEFINE e == Tail(d)
           n == Len(d)
<1>1. /\ n \in Nat \ {0} /\ Len(e) = n - 1 /\ Head(d) = d[1]
      /\ \A i \in 1..(n - 1) : e[i] = d[i + 1]
  BY HeadTailProperties, EmptySeq
<1>2. ASSUME NEW i \in 2..n PROVE d[i] = e[i - 1] /\ i - 1 \in 1..(n - 1)
  <2>1. i - 1 \in 1..(n - 1) /\ (i - 1) + 1 = i
    BY <1>1
  <2> QED
    BY <1>1, <2>1
<1>3. ASSUME NEW x, LastMark(e, x) PROVE LastMark(d, x)
  <2>1. PICK i \in 1..(n - 1) : /\ e[i] = x /\ x.t \in Marks
                                /\ \A j \in (i + 1)..(n - 1) : e[j].t \notin Marks
    BY <1>1, <1>3 DEF LastMark
  <2>2. i + 1 \in 1..n /\ d[i + 1] = x
    BY <1>1, <2>1
  <2>3. ASSUME NEW j \in ((i + 1) + 1)..n PROVE d[j].t \notin Marks
    <3>1. j \in 2..n /\ j - 1 \in (i + 1)..(n - 1)
      BY <1>1, <2>1
    <3> QED
      BY <1>2, <2>1, <3>1
  <2> QED
    BY <2>1, <2>2, <2>3 DEF LastMark
<1>4. ASSUME NoMark(e) PROVE \A j \in 2..n : d[j].t \notin Marks
  BY <1>1, <1>2, <1>4 DEF NoMark
<1>5. ASSUME NoMark(e), Head(d).t \in Marks PROVE LastMark(d, Head(d))
  <2>1. 1 \in 1..n /\ (1 + 1)..n = 2..n
    BY <1>1
  <2> QED
    BY <1>1, <1>4, <1>5, <2>1 DEF LastMark
<1>6. ASSUME NoMark(e), Head(d).t \notin Marks PROVE NoMark(d)
  <2>1. \A i \in 1..n : i = 1 \/ i \in 2..n
    BY <1>1
  <2> QED
    BY <1>1, <1>4, <1>6, <2>1 DEF NoMark
<1> HIDE DEF e
<1> QED
  BY <1>3, <1>5, <1>6 DEF e

\* A socket that has just been let in was sent one message, or two.
LEMMA ShortQueues ==
  ASSUME NEW m \in Messages, NEW m2 \in Messages
  PROVE  /\ <<m>> \in Seq(Messages) /\ Len(<<m>>) = 1 /\ <<m>>[1] = m
         /\ <<m, m2>> \in Seq(Messages) /\ Len(<<m, m2>>) = 2 /\ <<m, m2>>[1] = m
         /\ \A x : LastMark(<<m>>, x) => x = m
         /\ m.t \in Marks => ~NoMark(<<m>>)
<1>1. /\ <<m>> \in Seq(Messages) /\ Len(<<m>>) = 1 /\ <<m>>[1] = m
      /\ <<m, m2>> \in Seq(Messages) /\ Len(<<m, m2>>) = 2 /\ <<m, m2>>[1] = m
  OBVIOUS
<1> DEFINE d == <<m>>
<1>2. d[1] = m /\ Len(d) = 1 /\ 1..1 = {1}
  BY <1>1
<1> HIDE DEF d
<1>3. \A x : LastMark(d, x) => x = m
  BY <1>2 DEF LastMark
<1>4. m.t \in Marks => ~NoMark(d)
  BY <1>2 DEF NoMark
<1> QED
  BY <1>1, <1>3, <1>4 DEF d

-----------------------------------------------------------------------------
(* What a step of the room does to the tab.                                *)

SameStand(r) == r.stage = room.stage /\ r.turn = room.turn /\ r.kind = room.kind

\* The queue down a socket as a message for the room's socket leaves it.
DownWith(s, m) == IF s = room.conn /\ socks[s].st = "open"
                  THEN Append(socks[s].down, m) ELSE socks[s].down

Quiet == /\ \A s \in Sockets : socks'[s].down = socks[s].down
         /\ room'.conn = None \/ SameStand(room')

ClosingTypes == {"fatal", "bye", "room_closed"}

\* Somebody has a seat at a room that is there.
SeatHeld(r) == r.seated /\ r.stage # "gone"

\* What the room can be next: a step of its own mends nothing.
NextRooms == {r \in Rooms : room.overtaken => r.overtaken}

Speaks(m) == /\ RoomToSend
             /\ \A s \in Sockets : socks'[s].down = DownWith(s, m)
             /\ m.t \in Marks => Says(m, room')
             /\ m.t \notin Marks => room'.conn = None \/ SameStand(room')

\* The player keeps what seat and connection there were.
KeepsSeat(r) == SeatHeld(room) => SeatHeld(r) /\ r.conn = room.conn

ConnectionIsDead == \A s \in Sockets : room.conn = s => socks[s].st # "open"

\* A step of the room leaves the sockets as they are, but for their queues; it
\* says at once where it stands, and tells a player that the seat is lost.
RoomMoves ==
  /\ UNCHANGED <<page, hook, ui>>
  /\ room' \in NextRooms
  /\ socks' \in [Sockets -> Lines]
  /\ \A s \in Sockets : /\ socks'[s].st = socks[s].st
                        /\ socks'[s].hooked = socks[s].hooked
                        /\ socks'[s].up \in {socks[s].up, <<>>}
                        /\ socks[s] = DeadSocket => socks'[s] = DeadSocket
  /\ room'.conn \in {room.conn, None}
  /\ \/ Quiet /\ (KeepsSeat(room') \/ room'.overtaken \/ ConnectionIsDead)
     \/ \E m \in Messages : Speaks(m) /\ (KeepsSeat(room') \/ m.t \in ClosingTypes)

LEMMA RoomMovesKeep == ClientInv /\ RoomMoves => ClientInv'
<1> SUFFICES ASSUME ClientInv, RoomMoves PROVE ClientInv'
  OBVIOUS
<1>1. Types'
  <2>1. /\ page' \in {"away", "room", "game"} /\ hook' \in Hooks /\ ui' \in Uis
        /\ room' \in Rooms /\ socks' \in [Sockets -> Lines]
    BY DEF ClientInv, Types, RoomMoves, NextRooms
  <2>2. ASSUME NEW s \in Sockets PROVE Len(socks'[s].up) <= 1
    <3>1. socks'[s].up \in {socks[s].up, <<>>} /\ Len(socks[s].up) <= 1
      BY DEF ClientInv, Types, RoomMoves
    <3>2. Len(<<>>) = 0
      OBVIOUS
    <3> QED
      BY <3>1, <3>2
  <2>3. ASSUME NEW s \in Sockets PROVE Len(socks'[s].down) <= MaxQueue + 1
    <3>0. Len(socks[s].down) <= MaxQueue + 1 /\ socks[s].down \in Seq(Messages)
      BY DEF ClientInv, Types, Lines
    <3>1. CASE socks'[s].down = socks[s].down
      BY <3>0, <3>1
    <3>2. CASE socks'[s].down # socks[s].down
      <4>1. PICK m \in Messages : Speaks(m)
        BY <3>2 DEF RoomMoves, Quiet
      <4>2. /\ s = room.conn /\ socks[s].st = "open"
            /\ socks'[s].down = Append(socks[s].down, m)
        BY <3>2, <4>1 DEF Speaks, DownWith
      <4>3. Len(socks[s].down) < MaxQueue
        BY <4>1, <4>2, SocketsAssumption DEF Speaks, RoomToSend, None
      <4> QED
        BY <3>0, <4>2, <4>3, BoundsAssumption, AppendProperties
    <3> QED
      BY <3>1, <3>2
  <2> QED
    BY <2>1, <2>2, <2>3 DEF Types
<1>2. SocketsSound'
  <2>1. ASSUME NEW s \in Sockets
        PROVE  /\ socks'[s].hooked => s = hook'.cur
               /\ socks'[s].st = "open" => socks'[s].hooked
               /\ socks'[s].st = "handshake" => room'.conn # s
    <3>1. /\ socks[s].hooked => s = hook.cur
          /\ socks[s].st = "open" => socks[s].hooked
          /\ socks[s].st = "handshake" => room.conn # s
      BY DEF ClientInv, SocketsSound
    <3>2. /\ socks'[s].st = socks[s].st /\ socks'[s].hooked = socks[s].hooked
          /\ hook' = hook /\ room'.conn \in {room.conn, None} /\ s # None
      BY SocketsAssumption DEF RoomMoves, None
    <3> QED
      BY <3>1, <3>2
  <2> QED
    BY <2>1 DEF ClientInv, SocketsSound, RoomMoves
<1>3. RetrySound'
  BY DEF ClientInv, RetrySound, RoomMoves
<1>4. FollowInv'
  <2> SUFFICES ASSUME NEW s \in Sockets, socks'[s].st = "open", room'.conn = s
               PROVE  Follows(socks'[s].down, hook', room')
    BY DEF FollowInv
  <2>1. /\ socks[s].st = "open" /\ room.conn = s /\ hook' = hook
        /\ room'.conn # None /\ s # None
    BY SocketsAssumption DEF RoomMoves, None
  <2>2. Follows(socks[s].down, hook, room) /\ socks[s].down \in Seq(Messages)
    BY <2>1 DEF ClientInv, FollowInv, Types, Lines
  <2>3. CASE SameStand(room')
    <3>1. \A m : Says(m, room) <=> Says(m, room')
      BY <2>3 DEF SameStand, Says
    <3>2. Shown(hook, room) <=> Shown(hook', room')
      BY <2>1, <2>3 DEF SameStand, Shown
    <3>3. CASE Quiet
      BY <2>2, <3>1, <3>2, <3>3 DEF Quiet, Follows
    <3>4. CASE \E m \in Messages : Speaks(m)
      <4>1. PICK m \in Messages : Speaks(m)
        BY <3>4
      <4>2. socks'[s].down = Append(socks[s].down, m)
        BY <2>1, <4>1 DEF Speaks, DownWith
      <4>3. CASE m.t \in Marks
        BY <2>2, <4>1, <4>2, <4>3, AppendMarks DEF Follows, Speaks
      <4>4. CASE m.t \notin Marks
        BY <2>2, <3>1, <3>2, <4>2, <4>4, AppendMarks DEF Follows
      <4> QED
        BY <4>3, <4>4
    <3> QED
      BY <3>3, <3>4 DEF RoomMoves
  <2>4. CASE ~SameStand(room')
    <3>1. PICK m \in Messages : Speaks(m)
      BY <2>1, <2>4 DEF RoomMoves, Quiet
    <3>2. socks'[s].down = Append(socks[s].down, m) /\ m.t \in Marks
      BY <2>1, <2>4, <3>1 DEF Speaks, DownWith
    <3> QED
      BY <2>2, <3>1, <3>2, AppendMarks DEF Follows, Speaks
  <2> QED
    BY <2>3, <2>4
<1>5. Rendered'
  BY DEF ClientInv, Rendered, RoomMoves
<1>6. AtHome'
  BY DEF ClientInv, AtHome, Listening, RoomMoves
<1>7. CommandsSound'
  BY DEF ClientInv, CommandsSound, RoomMoves
<1> QED
  BY <1>1, <1>2, <1>3, <1>4, <1>5, <1>6, <1>7 DEF ClientInv

LEMMA RoomMovesSeat == ClientInv /\ SeatFollowsSocket /\ RoomMoves => SeatFollowsSocket'
<1> SUFFICES ASSUME ClientInv, SeatFollowsSocket, RoomMoves, ~room'.overtaken,
                    NEW s \in Sockets, socks'[s].st = "open", socks'[s].hooked, ~hook'.closed,
                    \A i \in DOMAIN socks'[s].down : socks'[s].down[i].t \notin ClosingTypes
             PROVE  room'.conn = s /\ SeatHeld(room')
  BY DEF SeatFollowsSocket, Keeps, ClosingTypes, SeatHeld
<1>1. socks[s].st = "open" /\ socks[s].hooked /\ ~hook.closed /\ ~room.overtaken
  BY DEF RoomMoves, NextRooms
<1>2. socks[s].down \in Seq(Messages)
  BY DEF ClientInv, Types, Lines
<1>3. ASSUME NEW i \in DOMAIN socks[s].down
      PROVE  i \in DOMAIN socks'[s].down /\ socks'[s].down[i] = socks[s].down[i]
  <2>1. CASE socks'[s].down = socks[s].down
    BY <1>3, <2>1
  <2>2. CASE \E m \in Messages : socks'[s].down = Append(socks[s].down, m)
    BY <1>2, <1>3, <2>2
  <2> QED
    BY <2>1, <2>2 DEF RoomMoves, Quiet, Speaks, DownWith
<1>4. room.conn = s /\ SeatHeld(room)
  BY <1>1, <1>3 DEF SeatFollowsSocket, Keeps, ClosingTypes, SeatHeld
<1>5. ~ConnectionIsDead
  BY <1>1, <1>4 DEF ConnectionIsDead
<1>6. ASSUME NEW m \in Messages, Speaks(m) PROVE m.t \notin ClosingTypes
  <2>1. socks'[s].down = Append(socks[s].down, m)
    BY <1>1, <1>4, <1>6 DEF Speaks, DownWith
  <2> DEFINE n == Len(socks[s].down) + 1
  <2>2. n \in DOMAIN Append(socks[s].down, m) /\ Append(socks[s].down, m)[n] = m
    BY <1>2, AppendProperties
  <2> QED
    BY <2>1, <2>2
<1>7. KeepsSeat(room')
  BY <1>5, <1>6 DEF RoomMoves
<1> QED
  BY <1>4, <1>7 DEF KeepsSeat

-----------------------------------------------------------------------------
(* The steps of the room.                                                  *)

LEMMA DeliverOne ==
  ASSUME NEW ss \in [Sockets -> Lines], NEW conn \in Sockets \cup {None}, NEW m \in Messages
  PROVE  /\ Deliver(ss, conn, <<m>>) \in [Sockets -> Lines]
         /\ \A s \in Sockets :
              LET d == Deliver(ss, conn, <<m>>)[s]
              IN /\ d.st = ss[s].st /\ d.hooked = ss[s].hooked /\ d.up = ss[s].up
                 /\ d.down = IF s = conn /\ ss[s].st = "open" THEN Append(ss[s].down, m)
                                                              ELSE ss[s].down
                 /\ ss[s].st # "open" => d = ss[s]
<1>1. CASE conn # None /\ ss[conn].st = "open"
  <2>1. conn \in Sockets /\ ss[conn] \in Lines /\ ss[conn].down \in Seq(Messages)
    BY <1>1 DEF Lines
  <2>2. /\ ss[conn].down \o <<m>> = Append(ss[conn].down, m)
        /\ Append(ss[conn].down, m) \in Seq(Messages)
    BY <2>1, AppendIsConcat, AppendProperties
  <2> DEFINE d == [ss[conn] EXCEPT !.down = Append(ss[conn].down, m)]
  <2>3. /\ d \in Lines /\ d.st = ss[conn].st /\ d.hooked = ss[conn].hooked
        /\ d.up = ss[conn].up /\ d.down = Append(ss[conn].down, m)
    BY <2>1, <2>2 DEF Lines
  <2>4. Deliver(ss, conn, <<m>>) = [ss EXCEPT ![conn] = d]
    BY <1>1, <2>2 DEF Deliver
  <2> HIDE DEF d
  <2> QED
    BY <1>1, <2>1, <2>3, <2>4
<1>2. CASE ~(conn # None /\ ss[conn].st = "open")
  <2>1. Deliver(ss, conn, <<m>>) = ss
    BY <1>2 DEF Deliver
  <2>2. \A s \in Sockets : ~(s = conn /\ ss[s].st = "open")
    BY <1>2, SocketsAssumption DEF None
  <2> QED
    BY <2>1, <2>2
<1> QED
  BY <1>1, <1>2

LEMMA DeliverNothing ==
  ASSUME NEW ss \in [Sockets -> Lines], NEW conn \in Sockets \cup {None}
  PROVE  Deliver(ss, conn, <<>>) = ss
<1>1. CASE conn # None /\ ss[conn].st = "open"
  <2>1. conn \in Sockets /\ ss[conn] \in Lines /\ ss[conn].down \in Seq(Messages)
    BY <1>1 DEF Lines
  <2>2. ss[conn].down \o <<>> = ss[conn].down
    BY <2>1, ConcatEmptySeq
  <2>3. [ss[conn] EXCEPT !.down = ss[conn].down] = ss[conn]
    BY <2>1 DEF Lines
  <2> QED
    BY <1>1, <2>1, <2>2, <2>3 DEF Deliver
<1> QED
  BY <1>1 DEF Deliver

\* The sockets, the command taken off the queue of one of them.
SameLines(ss) ==
  /\ ss \in [Sockets -> Lines]
  /\ \A s \in Sockets : /\ ss[s].st = socks[s].st
                        /\ ss[s].hooked = socks[s].hooked
                        /\ ss[s].down = socks[s].down
                        /\ ss[s].up \in {socks[s].up, <<>>}
                        /\ socks[s] = DeadSocket => ss[s] = DeadSocket

LEMMA SocksAreSame == Types => SameLines(socks)
  BY DEF SameLines, Types

LEMMA BroadcastMoves ==
  ASSUME Types, RoomToSend, NEW ss, SameLines(ss), NEW r \in NextRooms, r.conn \in {room.conn, None},
         NEW m \in Messages, KeepsSeat(r) \/ m.t \in ClosingTypes,
         m.t \in Marks => Says(m, r),
         m.t \notin Marks => r.conn = None \/ SameStand(r),
         room' = r, socks' = Deliver(ss, room.conn, <<m>>), UNCHANGED <<page, hook, ui>>
  PROVE  RoomMoves
<1>1. room.conn \in Sockets \cup {None}
  BY DEF Types, NextRooms, Rooms
<1>2. /\ socks' \in [Sockets -> Lines]
      /\ \A s \in Sockets :
           /\ socks'[s].st = ss[s].st /\ socks'[s].hooked = ss[s].hooked
           /\ socks'[s].up = ss[s].up
           /\ socks'[s].down = IF s = room.conn /\ ss[s].st = "open" THEN Append(ss[s].down, m)
                                                                      ELSE ss[s].down
           /\ ss[s].st # "open" => socks'[s] = ss[s]
  BY <1>1, DeliverOne DEF SameLines
<1>3. ASSUME NEW s \in Sockets
      PROVE  /\ socks'[s].st = socks[s].st /\ socks'[s].hooked = socks[s].hooked
             /\ socks'[s].up \in {socks[s].up, <<>>}
             /\ socks[s] = DeadSocket => socks'[s] = DeadSocket
             /\ socks'[s].down = DownWith(s, m)
  <2>1. DeadSocket.st # "open"
    BY DEF DeadSocket
  <2> QED
    BY <1>2, <2>1 DEF SameLines, DownWith
<1>4. Speaks(m)
  BY <1>3 DEF Speaks, SameStand
<1>5. KeepsSeat(room') \/ m.t \in ClosingTypes
  BY DEF KeepsSeat, SeatHeld
<1> QED
  BY <1>2, <1>3, <1>4, <1>5 DEF RoomMoves

LEMMA QuietMoves ==
  ASSUME Types, NEW ss, SameLines(ss), NEW r \in NextRooms, r.conn \in {room.conn, None},
         KeepsSeat(r) \/ r.overtaken \/ ConnectionIsDead,
         r.conn = None \/ SameStand(r),
         room' = r, socks' = ss, UNCHANGED <<page, hook, ui>>
  PROVE  RoomMoves
<1>1. Quiet
  BY DEF Quiet, SameLines, SameStand
<1>2. KeepsSeat(room') \/ room'.overtaken \/ ConnectionIsDead
  BY DEF KeepsSeat, SeatHeld
<1> QED
  BY <1>1, <1>2 DEF RoomMoves, SameLines

LEMMA NextTurns ==
  ASSUME Types, NEW k \in Kinds \cup {"theirs"}
  PROVE  LET r == NextTurn(room, k)
         IN /\ r \in NextRooms /\ KeepsSeat(r)
            /\ StateMsg(r) \in Messages /\ Says(StateMsg(r), r) /\ r.conn = room.conn
<1> DEFINE r == NextTurn(room, k)
<1>1. (room.turn + 1) % Turns \in 0..(Turns - 1)
  BY BoundsAssumption DEF Types, NextRooms, Rooms
<1>2. r \in NextRooms
  BY <1>1 DEF NextTurn, Types, NextRooms, Rooms
<1>3. /\ r.conn = room.conn /\ r.seated = room.seated /\ r.stage = "playing"
  BY DEF NextTurn, Types, NextRooms, Rooms
<1> HIDE DEF r
<1>4. StateMsg(r) \in Messages /\ Says(StateMsg(r), r)
  BY <1>2, <1>3, MessageTypes DEF NextRooms, Says
<1> QED
  BY <1>2, <1>3, <1>4 DEF r, KeepsSeat, SeatHeld

LEMMA ToLobbies ==
  Types => /\ ToLobby(room) \in NextRooms /\ KeepsSeat(ToLobby(room))
           /\ ToLobby(room).stage = "lobby" /\ ToLobby(room).conn = room.conn
           /\ Says(Plain("lobby_state"), ToLobby(room))
<1> SUFFICES ASSUME Types
             PROVE  /\ ToLobby(room) \in NextRooms /\ KeepsSeat(ToLobby(room))
                    /\ ToLobby(room).stage = "lobby" /\ ToLobby(room).conn = room.conn
                    /\ Says(Plain("lobby_state"), ToLobby(room))
  OBVIOUS
<1>1. /\ ToLobby(room) \in NextRooms
      /\ ToLobby(room).stage = "lobby" /\ ToLobby(room).conn = room.conn
      /\ ToLobby(room).seated = room.seated
  BY DEF ToLobby, Types, NextRooms, Rooms, Kinds
<1> QED
  BY <1>1 DEF KeepsSeat, SeatHeld, Says, Plain

LEMMA TurnMoves ==
  ASSUME Types, RoomToSend, NEW ss, SameLines(ss), NEW k \in Kinds \cup {"theirs"},
         Tell(ss, NextTurn(room, k), <<StateMsg(NextTurn(room, k))>>),
         UNCHANGED <<page, hook, ui>>
  PROVE  RoomMoves
<1> DEFINE r == NextTurn(room, k)
<1>1. /\ r \in NextRooms /\ KeepsSeat(r)
      /\ StateMsg(r) \in Messages /\ Says(StateMsg(r), r) /\ r.conn = room.conn
      /\ StateMsg(r).t \in Marks
  BY NextTurns, MessageTypes DEF NextRooms, Marks
<1>2. room' = r /\ socks' = Deliver(ss, room.conn, <<StateMsg(r)>>)
  BY <1>1 DEF Tell
<1> HIDE DEF r
<1> QED
  BY <1>1, <1>2, BroadcastMoves

LEMMA LobbyMoves ==
  ASSUME Types, RoomToSend, NEW ss, SameLines(ss),
         Tell(ss, ToLobby(room), <<Plain("lobby_state")>>), UNCHANGED <<page, hook, ui>>
  PROVE  RoomMoves
<1>1. Plain("lobby_state") \in Messages /\ Plain("lobby_state").t \in Marks
  BY MessageTypes DEF Marks
<1>2. room' = ToLobby(room) /\ socks' = Deliver(ss, room.conn, <<Plain("lobby_state")>>)
  BY ToLobbies DEF Tell
<1> QED
  BY <1>1, <1>2, ToLobbies, BroadcastMoves

LEMMA RoomIsSame == Types => room \in NextRooms /\ KeepsSeat(room) /\ SameStand(room)
  BY DEF Types, NextRooms, KeepsSeat, SameStand

\* A player who is let go, and a room that is left: what is said is no mark.
LEMMA LeavingMoves ==
  ASSUME Types, NEW st \in {"lobby", "gone"},
         NEW r \in {[room EXCEPT !.seated = FALSE, !.conn = None, !.stage = st],
                    [ToLobby(room) EXCEPT !.stage = st, !.seated = FALSE, !.conn = None],
                    [room EXCEPT !.seated = FALSE, !.conn = None, !.stage = st,
                                 !.overtaken = TRUE]}
  PROVE  r \in NextRooms /\ r.conn = None
  BY DEF ToLobby, Types, NextRooms, Rooms, Kinds

LEMMA OthersAdvanceMoves == Types /\ OthersAdvance => RoomMoves
<1> SUFFICES ASSUME Types, OthersAdvance PROVE RoomMoves
  OBVIOUS
<1>1. PICK k \in Kinds \cup {"theirs"} :
         Tell(socks, NextTurn(room, k), <<StateMsg(NextTurn(room, k))>>)
  BY DEF OthersAdvance
<1> QED
  BY <1>1, SocksAreSame, TurnMoves DEF OthersAdvance

LEMMA GameEndsMoves == Types /\ GameEnds => RoomMoves
<1> SUFFICES ASSUME Types, GameEnds PROVE RoomMoves
  OBVIOUS
<1> DEFINE r == [room EXCEPT !.stage = "results", !.kind = "theirs"]
<1>1. /\ r \in NextRooms /\ r.conn = room.conn /\ r.seated = room.seated /\ r.stage = "results"
  BY DEF Types, NextRooms, Rooms
<1>2. RoomToSend /\ room' = r /\ socks' = Deliver(socks, room.conn, <<Plain("game_over")>>)
  BY <1>1 DEF GameEnds, Tell
<1> HIDE DEF r
<1>3. KeepsSeat(r) /\ Says(Plain("game_over"), r) /\ Plain("game_over") \in Messages
      /\ Plain("game_over").t \in Marks
  BY <1>1, MessageTypes DEF KeepsSeat, SeatHeld, Says, Marks
<1> QED
  BY <1>1, <1>2, <1>3, SocksAreSame, BroadcastMoves DEF GameEnds

LEMMA OtherVotesMoves == Types /\ OtherVotes => RoomMoves
<1> SUFFICES ASSUME Types, OtherVotes PROVE RoomMoves
  OBVIOUS
<1> DEFINE r == [room EXCEPT !.window = TRUE]
<1>1. /\ r \in NextRooms /\ r.conn = room.conn /\ r.seated = room.seated /\ SameStand(r)
  BY DEF Types, NextRooms, Rooms, SameStand
<1>2. RoomToSend /\ room' = r /\ socks' = Deliver(socks, room.conn, <<VoteStatus(room)>>)
  BY <1>1 DEF OtherVotes, Tell
<1> HIDE DEF r
<1>3. KeepsSeat(r) /\ VoteStatus(room) \in Messages /\ VoteStatus(room).t \notin Marks
  BY <1>1, RoomIsSame, MessageTypes DEF NextRooms, KeepsSeat, SeatHeld, SameStand, Marks
<1> QED
  BY <1>1, <1>2, <1>3, SocksAreSame, BroadcastMoves DEF OtherVotes

LEMMA OtherLeavesMoves == Types /\ OtherLeaves => RoomMoves
<1> SUFFICES ASSUME Types, OtherLeaves PROVE RoomMoves
  OBVIOUS
<1> DEFINE r == [room EXCEPT !.window = FALSE]
           m == Plain("player_disconnected")
<1>1. /\ r \in NextRooms /\ r.conn = room.conn /\ r.seated = room.seated /\ SameStand(r)
  BY DEF Types, NextRooms, Rooms, SameStand
<1>2. RoomToSend /\ room' = r /\ socks' = Deliver(socks, room.conn, <<m>>)
  BY <1>1 DEF OtherLeaves, Tell
<1> HIDE DEF r
<1>3. KeepsSeat(r) /\ m \in Messages /\ m.t \notin Marks
  BY <1>1, MessageTypes DEF KeepsSeat, SeatHeld, SameStand, Marks
<1> HIDE DEF m
<1> QED
  BY <1>1, <1>2, <1>3, SocksAreSame, BroadcastMoves DEF OtherLeaves

LEMMA ClosedMessage ==
  /\ Plain("room_closed") \in Messages
  /\ Plain("room_closed").t \notin Marks /\ Plain("room_closed").t \in ClosingTypes
  BY MessageTypes DEF Marks, ClosingTypes

LEMMA WindowClosesMoves == Types /\ WindowCloses => RoomMoves
<1> SUFFICES ASSUME Types, WindowCloses PROVE RoomMoves
  OBVIOUS
<1>1. CASE room.voted /\ room.conn # None
  BY <1>1, SocksAreSame, LobbyMoves DEF WindowCloses
<1>2. CASE ~(room.voted /\ room.conn # None)
  <2>1. PICK st \in {"lobby", "gone"} :
           /\ room' = [ToLobby(room) EXCEPT !.stage = st, !.seated = FALSE, !.conn = None]
           /\ socks' = Deliver(socks, room.conn, <<Plain("room_closed")>>)
    BY <1>2 DEF WindowCloses
  <2> DEFINE r == [ToLobby(room) EXCEPT !.stage = st, !.seated = FALSE, !.conn = None]
  <2>2. r \in NextRooms /\ r.conn = None
    BY LeavingMoves
  <2>3. room' = r
    BY <2>1
  <2> HIDE DEF r
  <2> QED
    BY <2>1, <2>2, <2>3, ClosedMessage, SocksAreSame, BroadcastMoves DEF WindowCloses
<1> QED
  BY <1>1, <1>2

LEMMA OthersReturnMoves == Types /\ OthersReturn => RoomMoves
<1> SUFFICES ASSUME Types, OthersReturn PROVE RoomMoves
  OBVIOUS
<1>1. CASE room.conn # None
  BY <1>1, SocksAreSame, LobbyMoves DEF OthersReturn
<1>2. CASE room.conn = None
  <2> DEFINE r == [ToLobby(room) EXCEPT !.seated = FALSE]
  <2>1. r \in NextRooms /\ r.conn = None /\ ~r.seated
    BY <1>2 DEF ToLobby, Types, NextRooms, Rooms, Kinds
  <2>2. room' = r /\ socks' = socks /\ UNCHANGED <<page, hook, ui>>
    BY <1>2 DEF OthersReturn
  <2> HIDE DEF r
  <2>3. ConnectionIsDead
    BY <1>2, SocketsAssumption DEF ConnectionIsDead, None
  <2> QED
    BY <2>1, <2>2, <2>3, SocksAreSame, QuietMoves
<1> QED
  BY <1>1, <1>2

LEMMA SeatLostMoves == Types /\ SeatLost => RoomMoves
<1> SUFFICES ASSUME Types, SeatLost PROVE RoomMoves
  OBVIOUS
<1>1. PICK st \in {"lobby", "gone"} :
         /\ room' = [room EXCEPT !.seated = FALSE, !.conn = None, !.stage = st]
         /\ socks' = Deliver(socks, room.conn, <<Plain("room_closed")>>)
  BY DEF SeatLost
<1> DEFINE r == [room EXCEPT !.seated = FALSE, !.conn = None, !.stage = st]
<1>2. r \in NextRooms /\ r.conn = None
  BY LeavingMoves
<1>3. room' = r
  BY <1>1
<1> HIDE DEF r
<1> QED
  BY <1>1, <1>2, <1>3, ClosedMessage, SocksAreSame, BroadcastMoves DEF SeatLost

LEMMA NoticeMoves == ASSUME Types, NEW s \in Sockets, Notice(s) PROVE RoomMoves
<1>1. /\ room' \in NextRooms /\ room'.conn = None
      /\ room.conn = s /\ socks[s].st = "dead"
  BY DEF Notice, Types, NextRooms, Rooms
<1>2. socks' = socks /\ UNCHANGED <<page, hook, ui>>
  BY DEF Notice
<1>3. Quiet /\ ConnectionIsDead
  BY <1>1, <1>2 DEF Quiet, ConnectionIsDead
<1> QED
  BY <1>1, <1>2, <1>3, SocksAreSame DEF RoomMoves, SameLines

\* Taking a command off a queue leaves the sockets as they are.
LEMMA TakenOff ==
  ASSUME Types, NEW s \in Sockets, socks[s].up # <<>>
  PROVE  SameLines([socks EXCEPT ![s].up = Tail(@)])
<1> DEFINE d == [socks[s] EXCEPT !.up = Tail(socks[s].up)]
<1>1. socks[s] \in Lines /\ socks[s].up \in Seq(Commands) /\ Len(socks[s].up) \in Nat
  BY DEF Types, Lines
<1>2. Tail(socks[s].up) \in Seq(Commands) /\ Tail(socks[s].up) = <<>>
  <2> DEFINE n == Len(socks[s].up)
             k == Len(Tail(socks[s].up))
  <2>1. Tail(socks[s].up) \in Seq(Commands) /\ k = n - 1
    BY <1>1, HeadTailProperties
  <2>2. n \in Nat /\ n <= 1 /\ k \in Nat
    BY <1>1, <2>1 DEF Types
  <2> HIDE DEF n, k
  <2>3. k = 0
    BY <2>1, <2>2
  <2> QED
    BY <2>1, <2>3, EmptySeq DEF k
<1>3. /\ d \in Lines /\ d.st = socks[s].st /\ d.hooked = socks[s].hooked
      /\ d.down = socks[s].down /\ d.up = <<>>
  BY <1>1, <1>2 DEF Lines
<1>4. socks[s] # DeadSocket
  BY DEF DeadSocket
<1>5. [socks EXCEPT ![s].up = Tail(@)] = [socks EXCEPT ![s] = d]
  OBVIOUS
<1> HIDE DEF d
<1>6. ASSUME NEW o \in Sockets
      PROVE  LET e == [socks EXCEPT ![s] = d][o]
             IN /\ e.st = socks[o].st /\ e.hooked = socks[o].hooked /\ e.down = socks[o].down
                /\ e.up \in {socks[o].up, <<>>}
                /\ socks[o] = DeadSocket => e = DeadSocket
  <2>1. socks \in [Sockets -> Lines]
    BY DEF Types
  <2> QED
    BY <1>3, <1>4, <2>1
<1>7. [socks EXCEPT ![s] = d] \in [Sockets -> Lines]
  BY <1>3 DEF Types
<1> QED
  BY <1>5, <1>6, <1>7 DEF SameLines

LEMMA ReceiveMoves == ASSUME Types, NEW s \in Sockets, Receive(s) PROVE RoomMoves
<1> DEFINE ss == [socks EXCEPT ![s].up = Tail(@)]
<1>1. SameLines(ss) /\ RoomToSend /\ UNCHANGED <<page, hook, ui>>
  BY TakenOff DEF Receive
<1>2. \/ Tell(ss, NextTurn(room, "theirs"), <<StateMsg(NextTurn(room, "theirs"))>>)
      \/ Tell(ss, NextTurn(room, "play"), <<StateMsg(NextTurn(room, "play"))>>)
      \/ room.stage = "lobby" /\ Tell(ss, room, <<Plain("lobby_state")>>)
      \/ LET r == [room EXCEPT !.voted = TRUE, !.window = TRUE]
         IN Tell(ss, r, <<VoteStatus(r)>>)
      \/ Tell(ss, ToLobby(room), <<Plain("lobby_state")>>)
      \/ \E st \in {"lobby", "gone"} :
           Tell(ss, [room EXCEPT !.seated = FALSE, !.conn = None, !.stage = st,
                                 !.overtaken = TRUE], <<>>)
      \/ Tell(ss, room, <<>>)
  BY Zenon DEF Receive
<1> HIDE DEF ss
<1>3. CASE Tell(ss, NextTurn(room, "theirs"), <<StateMsg(NextTurn(room, "theirs"))>>)
  BY <1>1, <1>3, TurnMoves
<1>4. CASE Tell(ss, NextTurn(room, "play"), <<StateMsg(NextTurn(room, "play"))>>)
  BY <1>1, <1>4, TurnMoves DEF Kinds
<1>5. CASE room.stage = "lobby" /\ Tell(ss, room, <<Plain("lobby_state")>>)
  <2>1. Plain("lobby_state") \in Messages /\ Says(Plain("lobby_state"), room)
        /\ Plain("lobby_state").t \in Marks
    BY <1>5, MessageTypes DEF Says, Marks
  <2> QED
    BY <1>1, <1>5, <2>1, RoomIsSame, BroadcastMoves DEF Tell
<1>6. CASE LET r == [room EXCEPT !.voted = TRUE, !.window = TRUE] IN Tell(ss, r, <<VoteStatus(r)>>)
  <2> DEFINE r == [room EXCEPT !.voted = TRUE, !.window = TRUE]
  <2>1. /\ r \in NextRooms /\ r.conn = room.conn /\ r.seated = room.seated /\ SameStand(r)
    BY DEF Types, NextRooms, Rooms, SameStand
  <2>2. Tell(ss, r, <<VoteStatus(r)>>)
    BY <1>6
  <2> HIDE DEF r
  <2>3. KeepsSeat(r) /\ VoteStatus(r) \in Messages /\ VoteStatus(r).t \notin Marks
    BY <2>1, MessageTypes DEF NextRooms, KeepsSeat, SeatHeld, SameStand, Marks
  <2> QED
    BY <1>1, <2>1, <2>2, <2>3, BroadcastMoves DEF Tell
<1>7. CASE Tell(ss, ToLobby(room), <<Plain("lobby_state")>>)
  BY <1>1, <1>7, LobbyMoves
<1>8. CASE \E st \in {"lobby", "gone"} :
             Tell(ss, [room EXCEPT !.seated = FALSE, !.conn = None, !.stage = st,
                                   !.overtaken = TRUE], <<>>)
  <2>1. PICK st \in {"lobby", "gone"} :
           Tell(ss, [room EXCEPT !.seated = FALSE, !.conn = None, !.stage = st,
                                 !.overtaken = TRUE], <<>>)
    BY <1>8
  <2> DEFINE r == [room EXCEPT !.seated = FALSE, !.conn = None, !.stage = st, !.overtaken = TRUE]
  <2>2. r \in NextRooms /\ r.conn = None
    BY LeavingMoves
  <2>3. Tell(ss, r, <<>>) /\ r.overtaken
    BY <2>1 DEF Types, Rooms
  <2> HIDE DEF r
  <2>4. room' = r /\ socks' = ss
    BY <1>1, <2>2, <2>3, DeliverNothing DEF Tell, SameLines, NextRooms, Rooms
  <2> QED
    BY <1>1, <2>2, <2>3, <2>4, QuietMoves
<1>9. CASE Tell(ss, room, <<>>)
  <2>1. room' = room /\ socks' = ss
    BY <1>1, <1>9, RoomIsSame, DeliverNothing DEF Tell, SameLines, NextRooms, Rooms
  <2> QED
    BY <1>1, <2>1, RoomIsSame, QuietMoves
<1> QED
  BY <1>2, <1>3, <1>4, <1>5, <1>6, <1>7, <1>8, <1>9

LEMMA RoomStepMoves == Types /\ RoomStep => RoomMoves
  BY OthersAdvanceMoves, GameEndsMoves, OtherVotesMoves, OtherLeavesMoves, OthersReturnMoves,
     WindowClosesMoves, SeatLostMoves, ReceiveMoves, NoticeMoves DEF RoomStep

-----------------------------------------------------------------------------
(* What the page does on its socket.                                       *)

\* The page stays, and at most sends a command, on a queue that was empty.
PageActs ==
  /\ UNCHANGED <<page, hook, room>>
  /\ ui' \in Uis /\ ui'.was = ui.was /\ ui'.dirty = ui.dirty
  /\ socks' \in [Sockets -> Lines]
  /\ \A s \in Sockets : /\ socks'[s].st = socks[s].st
                        /\ socks'[s].hooked = socks[s].hooked
                        /\ socks'[s].down = socks[s].down
                        /\ Len(socks'[s].up) <= 1
                        /\ \/ socks'[s].up = socks[s].up
                           \/ socks[s].st = "open" /\ Head(socks'[s].up) # "leave"
                        /\ socks[s] = DeadSocket => socks'[s] = DeadSocket

LEMMA PageActsKeep == ClientInv /\ PageActs => ClientInv'
<1> SUFFICES ASSUME ClientInv, PageActs PROVE ClientInv'
  OBVIOUS
<1>1. Types'
  BY DEF ClientInv, Types, PageActs
<1>2. SocketsSound'
  BY DEF ClientInv, SocketsSound, PageActs
<1>3. RetrySound'
  BY DEF ClientInv, RetrySound, PageActs
<1>4. FollowInv'
  BY DEF ClientInv, FollowInv, PageActs
<1>5. Rendered'
  BY DEF ClientInv, Rendered, PageActs
<1>6. AtHome'
  BY DEF ClientInv, AtHome, Listening, PageActs
<1>7. CommandsSound'
  BY DEF ClientInv, CommandsSound, PageActs
<1> QED
  BY <1>1, <1>2, <1>3, <1>4, <1>5, <1>6, <1>7 DEF ClientInv

LEMMA PageActsSeat == SeatFollowsSocket /\ PageActs => SeatFollowsSocket'
  BY DEF SeatFollowsSocket, Keeps, PageActs

\* What Sent makes of the sockets, and that it is only asked for when the
\* queue is empty.
SentLines(ss) ==
  /\ ss \in [Sockets -> Lines]
  /\ \A s \in Sockets : /\ ss[s].st = socks[s].st
                        /\ ss[s].hooked = socks[s].hooked
                        /\ ss[s].down = socks[s].down
                        /\ Len(ss[s].up) <= 1
                        /\ ss[s].up = socks[s].up \/ socks[s].st = "open"
                        /\ socks[s] = DeadSocket => ss[s] = DeadSocket

\* The command that was sent is alone in its queue.
Carries(ss, cmd) == \A s \in Sockets : ss[s].up = socks[s].up \/ Head(ss[s].up) = cmd

LEMMA SentIsSent ==
  ASSUME Types, RoomToAsk, NEW cmd \in Commands
  PROVE  SentLines(Sent(socks, cmd)) /\ Carries(Sent(socks, cmd), cmd)
<1>1. CASE CanSend
  <2>1. /\ hook.cur \in Sockets /\ socks[hook.cur] \in Lines /\ socks[hook.cur].st = "open"
        /\ socks[hook.cur].up \in Seq(Commands) /\ Len(socks[hook.cur].up) = 0
    BY <1>1 DEF CanSend, RoomToAsk, Types, Hooks, Lines
  <2> DEFINE d == [socks[hook.cur] EXCEPT !.up = Append(socks[hook.cur].up, cmd)]
  <2>2. Append(socks[hook.cur].up, cmd) \in Seq(Commands)
        /\ Len(Append(socks[hook.cur].up, cmd)) = 1
        /\ Head(Append(socks[hook.cur].up, cmd)) = cmd
    BY <2>1, AppendProperties, HeadTailProperties
  <2>3. /\ d \in Lines /\ d.st = socks[hook.cur].st /\ d.hooked = socks[hook.cur].hooked
        /\ d.down = socks[hook.cur].down /\ Len(d.up) = 1 /\ Head(d.up) = cmd
    BY <2>1, <2>2 DEF Lines
  <2>4. Sent(socks, cmd) = [socks EXCEPT ![hook.cur] = d]
    BY <1>1 DEF Sent
  <2>5. socks[hook.cur] # DeadSocket
    BY <2>1 DEF DeadSocket
  <2> HIDE DEF d
  <2>6. ASSUME NEW s \in Sockets
        PROVE  LET e == [socks EXCEPT ![hook.cur] = d][s]
               IN /\ e.st = socks[s].st /\ e.hooked = socks[s].hooked /\ e.down = socks[s].down
                  /\ Len(e.up) <= 1
                  /\ e.up = socks[s].up \/ (socks[s].st = "open" /\ Head(e.up) = cmd)
                  /\ socks[s] = DeadSocket => e = DeadSocket
    <3>1. [socks EXCEPT ![hook.cur] = d][s] = IF s = hook.cur THEN d ELSE socks[s]
      BY <2>1 DEF Types
    <3>2. CASE s = hook.cur
      <4>1. [socks EXCEPT ![hook.cur] = d][s] = d
        BY <3>1, <3>2
      <4>2. /\ d.st = socks[s].st /\ d.hooked = socks[s].hooked /\ d.down = socks[s].down
            /\ socks[s] # DeadSocket /\ socks[s].st = "open"
        BY <2>1, <2>3, <2>5, <3>2
      <4>3. Len(d.up) <= 1 /\ Head(d.up) = cmd
        BY <2>3
      <4> QED
        BY <4>1, <4>2, <4>3
    <3>3. CASE s # hook.cur
      BY <3>1, <3>3 DEF Types
    <3> QED
      BY <3>2, <3>3
  <2>7. [socks EXCEPT ![hook.cur] = d] \in [Sockets -> Lines]
    BY <2>3 DEF Types
  <2> QED
    BY <2>4, <2>6, <2>7 DEF SentLines, Carries
<1>2. CASE ~CanSend
  BY <1>2 DEF Sent, SentLines, Carries, Types
<1> QED
  BY <1>1, <1>2

LEMMA SocksAreSent == Types => SentLines(socks)
  BY DEF SentLines, Types

LEMMA ActsBySending ==
  ASSUME Types, NEW ss, SentLines(ss), NEW cmd \in Commands \ {"leave"}, Carries(ss, cmd),
         socks' = ss, UNCHANGED <<page, hook, room>>,
         ui' \in Uis, ui'.was = ui.was, ui'.dirty = ui.dirty
  PROVE  PageActs
  BY DEF PageActs, SentLines, Carries

LEMMA ActsWithoutSending ==
  ASSUME Types, socks' = socks, UNCHANGED <<page, hook, room>>,
         ui' \in Uis, ui'.was = ui.was, ui'.dirty = ui.dirty
  PROVE  PageActs
  BY DEF PageActs, Types

LEMMA WaitingRoomClickActs == Types /\ WaitingRoomClick => PageActs
<1> SUFFICES ASSUME Types, WaitingRoomClick PROVE PageActs
  OBVIOUS
<1>1. PICK cmd \in {"start_game", "lobby_command"} : socks' = Sent(socks, cmd)
  BY DEF WaitingRoomClick
<1>2. RoomToAsk /\ UNCHANGED <<page, hook, ui, room>> /\ ui \in Uis
      /\ cmd \in Commands \ {"leave"}
  BY DEF WaitingRoomClick, Types, Commands
<1>3. SentLines(Sent(socks, cmd)) /\ Carries(Sent(socks, cmd), cmd)
  BY <1>2, SentIsSent
<1> QED
  BY <1>1, <1>2, <1>3, ActsBySending

\* A choice on the page or in the floating window.
Choice == ui' \in Uis /\ ui'.was = ui.was /\ ui'.dirty = ui.dirty

LEMMA Choices ==
  ASSUME Types,
         \/ UNCHANGED ui
         \/ \E p \in Picks : ui' = [ui EXCEPT !.picked = p]
         \/ \E p \in Picks : ui' = [ui EXCEPT !.pipPicked = p]
         \/ ui' = [ui EXCEPT !.pip = ~@, !.pipPicked = "no"]
  PROVE  Choice
<1>0. ui \in Uis
  BY DEF Types
<1>1. CASE UNCHANGED ui
  BY <1>0, <1>1 DEF Choice
<1>2. CASE \E p \in Picks : ui' = [ui EXCEPT !.picked = p]
  BY <1>0, <1>2 DEF Choice, Uis
<1>3. CASE \E p \in Picks : ui' = [ui EXCEPT !.pipPicked = p]
  BY <1>0, <1>3 DEF Choice, Uis
<1>4. CASE ui' = [ui EXCEPT !.pip = ~@, !.pipPicked = "no"]
  BY <1>0, <1>4 DEF Choice, Uis, Picks
<1> QED
  BY <1>1, <1>2, <1>3, <1>4

LEMMA ClickCardActs == Types /\ ClickCard => PageActs
<1> SUFFICES ASSUME Types, ClickCard PROVE PageActs
  OBVIOUS
<1>1. RoomToAsk /\ UNCHANGED <<page, hook, room>> /\ "play_card" \in Commands \ {"leave"}
  BY DEF ClickCard, Commands
<1>2. Choice
  BY Choices DEF ClickCard, Picks
<1>3. socks' = Sent(socks, "play_card") \/ socks' = socks
  BY DEF ClickCard
<1> QED
  BY <1>1, <1>2, <1>3, SentIsSent, ActsBySending, ActsWithoutSending DEF Choice

LEMMA ConfirmFaceDownActs == Types /\ ConfirmFaceDown => PageActs
<1> SUFFICES ASSUME Types, ConfirmFaceDown PROVE PageActs
  OBVIOUS
<1>1. RoomToAsk /\ UNCHANGED <<page, hook, room>> /\ "place_facedown" \in Commands \ {"leave"}
  BY DEF ConfirmFaceDown, Commands
<1>2. Choice
  BY Choices DEF ConfirmFaceDown, Picks
<1>3. socks' = Sent(socks, "place_facedown")
  BY DEF ConfirmFaceDown
<1> QED
  BY <1>1, <1>2, <1>3, SentIsSent, ActsBySending DEF Choice

LEMMA PipClickActs == Types /\ PipClick => PageActs
<1> SUFFICES ASSUME Types, PipClick PROVE PageActs
  OBVIOUS
<1>1. /\ RoomToAsk /\ UNCHANGED <<page, hook, room>>
      /\ "play_card" \in Commands \ {"leave"} /\ "place_facedown" \in Commands \ {"leave"}
  BY DEF PipClick, Commands
<1>2. Choice
  BY Choices DEF PipClick, Picks
<1>3. \/ socks' = Sent(socks, "play_card") \/ socks' = socks
      \/ socks' = Sent(socks, "place_facedown")
  BY DEF PipClick
<1> QED
  BY <1>1, <1>2, <1>3, SentIsSent, ActsBySending, ActsWithoutSending DEF Choice

LEMMA TogglePipActs == Types /\ TogglePip => PageActs
<1> SUFFICES ASSUME Types, TogglePip PROVE PageActs
  OBVIOUS
<1>1. Choice /\ socks' = socks /\ UNCHANGED <<page, hook, room>>
  BY Choices DEF TogglePip
<1> QED
  BY <1>1, ActsWithoutSending DEF Choice

LEMMA ResultsClickActs == Types /\ ResultsClick => PageActs
<1> SUFFICES ASSUME Types, ResultsClick PROVE PageActs
  OBVIOUS
<1> DEFINE cmd == IF hook.left THEN "go_to_waiting_room" ELSE "rematch_vote"
<1>1. /\ RoomToAsk /\ UNCHANGED <<page, hook, ui, room>> /\ ui \in Uis
      /\ cmd \in Commands \ {"leave"} /\ socks' = Sent(socks, cmd)
  BY DEF ResultsClick, Types, Commands
<1> HIDE DEF cmd
<1> QED
  BY <1>1, SentIsSent, ActsBySending

\* The page is left, with a last word to the room or without.
Leaves == /\ page' = "away" /\ hook' = FreshHook /\ ui' = FreshUi(ui.pip) /\ UNCHANGED room
          /\ \E ss : SentLines(ss) /\ socks' = CleanUp(ss, hook.cur)

LEMMA PlayerStepKinds ==
  ASSUME Types, PlayerStep
  PROVE  PageActs \/ Leaves \/ Enter
<1>1. CASE LeaveRoom
  <2>1. RoomToAsk /\ "leave" \in Commands
    BY <1>1 DEF LeaveRoom, Commands
  <2>2. SentLines(Sent(socks, "leave"))
    BY <2>1, SentIsSent
  <2> QED
    BY <1>1, <2>2 DEF LeaveRoom, Unmount, Leaves
<1>2. CASE WalkAway
  BY <1>2, SocksAreSent DEF WalkAway, Unmount, Leaves
<1> QED
  BY <1>1, <1>2, WaitingRoomClickActs, ClickCardActs, ConfirmFaceDownActs, PipClickActs,
     TogglePipActs, ResultsClickActs DEF PlayerStep

LEMMA RoomAnswerKinds == Types /\ RoomAnswer => PageActs \/ Leaves
<1> SUFFICES ASSUME Types, RoomAnswer PROVE PageActs \/ Leaves
  OBVIOUS
<1>1. CASE Unmount(socks)
  BY <1>1, SocksAreSent DEF RoomAnswer, Unmount, Leaves
<1>2. CASE ui' = [ui EXCEPT !.asked = FALSE] /\ UNCHANGED <<page, hook, socks>>
  <2>1. Choice
    BY <1>2 DEF Types, Choice, Uis
  <2> QED
    BY <1>2, <2>1, ActsWithoutSending DEF Choice, RoomAnswer
<1> QED
  BY <1>1, <1>2 DEF RoomAnswer

-----------------------------------------------------------------------------
(* Leaving a page and opening a socket.                                    *)

LEMMA FreshTypes ==
  /\ FreshHook \in Hooks /\ FreshHook.cur = None /\ ~FreshHook.retry
  /\ ~FreshHook.closed /\ FreshHook.phase = "lobby"
  /\ \A pip \in BOOLEAN : /\ FreshUi(pip) \in Uis
                          /\ [FreshUi(pip) EXCEPT !.asked = TRUE] \in Uis
                          /\ ~[FreshUi(pip) EXCEPT !.asked = TRUE].was
<1>1. 0 \in 0..Turns - 1
  BY BoundsAssumption
<1>2. FreshHook \in Hooks
  BY <1>1 DEF FreshHook, Hooks, Kinds
<1>3. FreshHook.cur = None /\ ~FreshHook.retry /\ ~FreshHook.closed /\ FreshHook.phase = "lobby"
  BY DEF FreshHook
<1>4. ASSUME NEW pip \in BOOLEAN
      PROVE  /\ FreshUi(pip) \in Uis
             /\ [FreshUi(pip) EXCEPT !.asked = TRUE] \in Uis
             /\ ~[FreshUi(pip) EXCEPT !.asked = TRUE].was
  BY DEF FreshUi, Uis, Picks
<1> QED
  BY <1>2, <1>3, <1>4

LEMMA DeadIsALine == /\ DeadSocket \in Lines /\ DeadSocket.st = "dead" /\ ~DeadSocket.hooked
                     /\ Len(DeadSocket.down) = 0 /\ Len(DeadSocket.up) = 0
<1>1. <<>> \in Seq(Messages) /\ <<>> \in Seq(Commands) /\ Len(<<>>) = 0
  OBVIOUS
<1> QED
  BY <1>1 DEF DeadSocket, Lines

\* What the cleanup leaves: nobody listens, and no socket is open.
Silent(ss) ==
  /\ ss \in [Sockets -> Lines]
  /\ \A s \in Sockets : /\ ~ss[s].hooked /\ ss[s].st # "open"
                        /\ ss[s].st = "handshake" => socks[s].st = "handshake" /\ ss[s].up = <<>>
                        /\ Len(ss[s].down) <= MaxQueue + 1 /\ Len(ss[s].up) <= 1

LEMMA CleanUpSilences ==
  ASSUME Types, SocketsSound, CommandsSound, NEW ss, SentLines(ss)
  PROVE  Silent(CleanUp(ss, hook.cur))
<1>1. \A s \in Sockets : /\ ss[s].hooked => s = hook.cur
                         /\ ss[s].st = "open" => ss[s].hooked
                         /\ Len(ss[s].down) <= MaxQueue + 1 /\ Len(ss[s].up) <= 1
                         /\ ss[s].st = socks[s].st
                         /\ ss[s].st = "handshake" => ss[s].up = <<>>
                         /\ ss[s] \in Lines
  BY DEF SocketsSound, CommandsSound, SentLines, Types
<1>2. CASE hook.cur = None
  <2>1. \A s \in Sockets : s # hook.cur
    BY <1>2, SocketsAssumption DEF None
  <2>2. CleanUp(ss, hook.cur) = ss
    BY <1>2 DEF CleanUp
  <2> QED
    BY <1>1, <2>1, <2>2 DEF Silent, SentLines
<1>3. CASE hook.cur # None
  <2>1. hook.cur \in Sockets
    BY <1>3 DEF Types, Hooks
  <2> DEFINE c == hook.cur
             d == [ss[c] EXCEPT !.hooked = FALSE, !.down = <<>>,
                                !.st = IF ss[c].st = "handshake" THEN ss[c].st ELSE "dead"]
  <2>2. <<>> \in Seq(Messages) /\ Len(<<>>) = 0
    OBVIOUS
  <2>3. /\ d \in Lines /\ ~d.hooked /\ d.st # "open"
        /\ d.st = "handshake" => ss[c].st = "handshake"
        /\ d.up = ss[c].up /\ Len(d.down) = 0
    BY <1>1, <2>1, <2>2 DEF Lines
  <2>4. CleanUp(ss, c) = [ss EXCEPT ![c] = d]
    BY <1>3 DEF CleanUp
  <2> HIDE DEF d
  <2> DEFINE e == [ss EXCEPT ![c] = d]
  <2>5. e \in [Sockets -> Lines] /\ \A s \in Sockets : e[s] = IF s = c THEN d ELSE ss[s]
    BY <2>1, <2>3 DEF SentLines
  <2> HIDE DEF e
  <2>6. ASSUME NEW s \in Sockets
        PROVE  /\ ~e[s].hooked /\ e[s].st # "open"
               /\ e[s].st = "handshake" => socks[s].st = "handshake" /\ e[s].up = <<>>
               /\ Len(e[s].down) <= MaxQueue + 1 /\ Len(e[s].up) <= 1
    <3>1. CASE s = c
      <4>1. e[s] = d
        BY <2>5, <3>1
      <4>2. /\ ~d.hooked /\ d.st # "open"
            /\ d.st = "handshake" => socks[s].st = "handshake" /\ d.up = <<>>
        BY <1>1, <2>3, <3>1
      <4>3. Len(d.down) <= MaxQueue + 1
        BY <2>3, BoundsAssumption
      <4>4. Len(d.up) <= 1
        BY <1>1, <2>1, <2>3
      <4> QED
        BY <4>1, <4>2, <4>3, <4>4
    <3>2. CASE s # c
      BY <1>1, <2>5, <3>2
    <3> QED
      BY <3>1, <3>2
  <2>7. CleanUp(ss, hook.cur) = e
    BY <2>4 DEF e
  <2> QED
    BY <2>5, <2>6, <2>7 DEF Silent
<1> QED
  BY <1>2, <1>3

LEMMA LeavesKeep == ASSUME ClientInv, Leaves PROVE ClientInv' /\ SeatFollowsSocket'
<1>1. PICK ss : SentLines(ss) /\ socks' = CleanUp(ss, hook.cur)
  BY DEF Leaves
<1>2. Silent(socks')
  BY <1>1, CleanUpSilences DEF ClientInv
<1>3. /\ page' = "away" /\ hook' = FreshHook /\ ui' = FreshUi(ui.pip) /\ room' = room
  BY DEF Leaves
<1>4. Types'
  <2>1. ui' \in Uis
    BY <1>3, FreshTypes DEF ClientInv, Types, Uis
  <2> QED
    BY <1>2, <1>3, <2>1, FreshTypes DEF ClientInv, Types, Silent
<1>5. SocketsSound'
  BY <1>2, <1>3 DEF ClientInv, SocketsSound, Silent
<1>6. RetrySound'
  BY <1>3, FreshTypes DEF RetrySound
<1>7. FollowInv'
  BY <1>2 DEF FollowInv, Silent
<1>8. Rendered'
  BY <1>3 DEF Rendered
<1>9. SeatFollowsSocket'
  BY <1>2 DEF SeatFollowsSocket, Keeps, Silent
<1>10. AtHome' /\ CommandsSound'
  BY <1>2, <1>3 DEF AtHome, CommandsSound, Silent
<1> QED
  BY <1>4, <1>5, <1>6, <1>7, <1>8, <1>9, <1>10 DEF ClientInv

\* A hook with h opens a socket when nobody listens any more.
Opens(h, ss) ==
  /\ Silent(ss) /\ OpenSocket(h, ss)
  /\ h \in Hooks /\ ~h.retry /\ UNCHANGED room

LEMMA OpensKeep ==
  ASSUME ClientInv, NEW h, NEW ss, Opens(h, ss), page' \in {"room", "game"}, ui' \in Uis
  PROVE  /\ Types' /\ SocketsSound' /\ RetrySound' /\ FollowInv' /\ SeatFollowsSocket'
         /\ AtHome' /\ CommandsSound'
         /\ hook'.closed = h.closed /\ hook'.phase = h.phase
<1> DEFINE n == [DeadSocket EXCEPT !.st = "handshake", !.hooked = TRUE]
<1>1. PICK s \in FreeSockets(ss) :
         /\ hook' = [h EXCEPT !.cur = s, !.status = "connecting"]
         /\ socks' = [ss EXCEPT ![s] = n]
  BY DEF Opens, OpenSocket
<1>2. /\ n \in Lines /\ n.st = "handshake" /\ n.hooked
      /\ n.down = DeadSocket.down /\ n.up = DeadSocket.up
  BY DeadIsALine DEF Lines
<1> HIDE DEF n
<1>3. s \in Sockets /\ room.conn # s
  BY DEF FreeSockets
<1>4. /\ socks' \in [Sockets -> Lines]
      /\ \A o \in Sockets : socks'[o] = IF o = s THEN n ELSE ss[o]
  BY <1>1, <1>2, <1>3 DEF Opens, Silent
<1>5. /\ hook' \in Hooks /\ hook'.cur = s /\ ~hook'.retry
      /\ hook'.closed = h.closed /\ hook'.phase = h.phase
  BY <1>1, <1>3 DEF Opens, Hooks
<1>6. ASSUME NEW o \in Sockets
      PROVE  /\ Len(socks'[o].down) <= MaxQueue + 1 /\ Len(socks'[o].up) <= 1
             /\ socks'[o].hooked => o = s
             /\ socks'[o].st # "open"
             /\ socks'[o].st = "handshake" => room.conn # o /\ socks'[o].up = <<>>
  <2>1. CASE o = s
    <3>1. socks'[o] = n
      BY <1>4, <2>1
    <3>2. Len(n.down) <= MaxQueue + 1 /\ Len(n.up) <= 1 /\ n.up = <<>>
      BY <1>2, DeadIsALine, BoundsAssumption DEF DeadSocket
    <3> QED
      BY <1>2, <1>3, <2>1, <3>1, <3>2
  <2>2. CASE o # s
    <3>1. socks'[o] = ss[o]
      BY <1>4, <2>2
    <3> QED
      BY <2>2, <3>1 DEF Opens, Silent, ClientInv, SocketsSound
  <2> QED
    BY <2>1, <2>2
<1>7. room' = room
  BY DEF Opens
<1>8. Types'
  BY <1>4, <1>5, <1>6, <1>7 DEF ClientInv, Types
<1>9. SocketsSound'
  BY <1>5, <1>6, <1>7 DEF SocketsSound
<1>10. RetrySound'
  BY <1>5 DEF RetrySound
<1>11. FollowInv' /\ SeatFollowsSocket'
  BY <1>6 DEF FollowInv, SeatFollowsSocket, Keeps
<1>12. CommandsSound'
  BY <1>6 DEF CommandsSound
<1>13. AtHome'
  <2>1. socks'[s] = n
    BY <1>3, <1>4
  <2> QED
    BY <1>2, <1>3, <1>5, <2>1 DEF AtHome, Listening
<1> QED
  BY <1>5, <1>8, <1>9, <1>10, <1>11, <1>12, <1>13

LEMMA MountKeeps ==
  ASSUME ClientInv, NEW p \in {"room", "game"}, Mount(p), UNCHANGED room
  PROVE  ClientInv' /\ SeatFollowsSocket' /\ ~hook'.closed
<1>1. Silent(CleanUp(socks, hook.cur))
  BY SocksAreSent, CleanUpSilences DEF ClientInv
<1>2. Opens(FreshHook, CleanUp(socks, hook.cur))
  BY <1>1, FreshTypes DEF Mount, Opens
<1>3. ui' \in Uis /\ ~ui'.was /\ page' = p
  BY FreshTypes DEF Mount, ClientInv, Types, Uis
<1>4. /\ Types' /\ SocketsSound' /\ RetrySound' /\ FollowInv' /\ SeatFollowsSocket'
      /\ AtHome' /\ CommandsSound'
      /\ hook'.closed = FreshHook.closed /\ hook'.phase = FreshHook.phase
  BY <1>2, <1>3, OpensKeep
<1>5. Rendered'
  BY <1>3, <1>4, FreshTypes DEF Rendered
<1> QED
  BY <1>4, <1>5, FreshTypes DEF ClientInv

LEMMA WithoutPipTypes ==
  Types => WithoutPip \in Uis /\ WithoutPip.was = ui.was /\ WithoutPip.dirty = ui.dirty
  BY DEF Types, WithoutPip, Uis, Picks

LEMMA ReconnectKeeps ==
  ASSUME ClientInv, ReconnectTimerFires
  PROVE  ClientInv' /\ SeatFollowsSocket' /\ ~hook.closed
<1> DEFINE h == [hook EXCEPT !.retry = FALSE]
<1>0. page # "away" /\ ~hook.closed
  BY FreshTypes DEF ReconnectTimerFires, ClientInv, SocketsSound, RetrySound
<1>1. h \in Hooks /\ ~h.retry /\ h.closed = hook.closed /\ h.phase = hook.phase
  BY DEF ClientInv, Types, Hooks
<1>2. Silent(CleanUp(socks, hook.cur))
  BY SocksAreSent, CleanUpSilences DEF ClientInv
<1>3. Opens(h, CleanUp(socks, hook.cur)) /\ UNCHANGED <<page, ui>>
  BY <1>1, <1>2 DEF ReconnectTimerFires, Opens
<1> HIDE DEF h
<1>4. page' \in {"room", "game"} /\ ui' \in Uis
  BY <1>0, <1>3 DEF ClientInv, Types
<1>5. /\ Types' /\ SocketsSound' /\ RetrySound' /\ FollowInv' /\ SeatFollowsSocket'
      /\ AtHome' /\ CommandsSound'
      /\ hook'.closed = hook.closed /\ hook'.phase = hook.phase
  BY <1>1, <1>3, <1>4, OpensKeep
<1>6. Rendered'
  BY <1>3, <1>5 DEF Rendered, ClientInv
<1> QED
  BY <1>0, <1>5, <1>6 DEF ClientInv

LEMMA SendThrowsKeeps ==
  ASSUME ClientInv, SendThrows
  PROVE  ClientInv' /\ SeatFollowsSocket' /\ ~hook.closed
<1> DEFINE h  == [hook EXCEPT !.status = "error", !.retry = FALSE, !.cur = None]
           ss == [socks EXCEPT ![hook.cur] = DeadSocket]
<1>0. page # "away" /\ ~hook.closed /\ hook.cur \in Sockets
  <2>1. hook.cur # None /\ ~ui.dirty
    BY DEF SendThrows, CanSend
  <2>2. page # "away"
    BY <2>1, FreshTypes DEF ClientInv, SocketsSound
  <2> QED
    BY <2>1, <2>2 DEF ClientInv, Rendered, Types, Hooks
<1>1. h \in Hooks /\ ~h.retry /\ h.closed = hook.closed /\ h.phase = hook.phase
  BY DEF ClientInv, Types, Hooks
<1>2. Silent(ss)
  <2>1. /\ ss \in [Sockets -> Lines]
        /\ \A s \in Sockets : ss[s] = IF s = hook.cur THEN DeadSocket ELSE socks[s]
    BY <1>0, DeadIsALine DEF ClientInv, Types
  <2> HIDE DEF ss
  <2>2. ASSUME NEW s \in Sockets
        PROVE  /\ ~ss[s].hooked /\ ss[s].st # "open"
               /\ ss[s].st = "handshake" => socks[s].st = "handshake" /\ ss[s].up = <<>>
               /\ Len(ss[s].down) <= MaxQueue + 1 /\ Len(ss[s].up) <= 1
    <3>1. CASE s = hook.cur
      <4>1. ss[s] = DeadSocket
        BY <2>1, <3>1
      <4>2. Len(DeadSocket.down) <= MaxQueue + 1 /\ Len(DeadSocket.up) <= 1
        BY DeadIsALine, BoundsAssumption
      <4> QED
        BY <4>1, <4>2, DeadIsALine
    <3>2. CASE s # hook.cur
      BY <2>1, <3>2 DEF ClientInv, Types, SocketsSound, CommandsSound
    <3> QED
      BY <3>1, <3>2
  <2> QED
    BY <2>1, <2>2 DEF Silent
<1>3. Opens(h, ss) /\ page' = page /\ ui' = WithoutPip
  BY <1>1, <1>2 DEF SendThrows, Opens
<1> HIDE DEF h, ss
<1>4. page' \in {"room", "game"} /\ ui' \in Uis /\ ui'.was = ui.was /\ ui'.dirty = ui.dirty
  BY <1>0, <1>3, WithoutPipTypes DEF ClientInv, Types
<1>5. /\ Types' /\ SocketsSound' /\ RetrySound' /\ FollowInv' /\ SeatFollowsSocket'
      /\ AtHome' /\ CommandsSound'
      /\ hook'.closed = hook.closed /\ hook'.phase = hook.phase
  BY <1>1, <1>3, <1>4, OpensKeep
<1>6. Rendered'
  BY <1>3, <1>4, <1>5 DEF Rendered, ClientInv
<1> QED
  BY <1>0, <1>5, <1>6 DEF ClientInv

-----------------------------------------------------------------------------
(* A socket that is lost.                                                  *)

\* The mounted hook when its socket goes: it waits for its timer, unless the
\* room has been closed.
Dropped(st)  == [hook EXCEPT !.status = IF @ = "error" THEN @ ELSE st]
LostHook(st) == ScheduleReconnect(Dropped(st))

LEMMA LostHooks ==
  ASSUME Types, NEW st \in {"error", "closed"}
  PROVE  /\ LostHook(st) \in Hooks /\ LostHook(st).cur = hook.cur
         /\ LostHook(st).closed = hook.closed /\ LostHook(st).phase = hook.phase
         /\ LostHook(st).retry <=> hook.retry \/ ~hook.closed
<1>1. /\ Dropped(st) \in Hooks
      /\ Dropped(st).cur = hook.cur /\ Dropped(st).phase = hook.phase
      /\ Dropped(st).closed = hook.closed /\ Dropped(st).retry = hook.retry
  BY DEF Types, Hooks, Dropped
<1>2. ASSUME NEW g \in Hooks
      PROVE  /\ ScheduleReconnect(g) \in Hooks /\ ScheduleReconnect(g).cur = g.cur
             /\ ScheduleReconnect(g).closed = g.closed /\ ScheduleReconnect(g).phase = g.phase
             /\ ScheduleReconnect(g).retry <=> g.retry \/ ~g.closed
  BY DEF ScheduleReconnect, Hooks
<1>3. /\ LostHook(st) \in Hooks /\ LostHook(st).cur = Dropped(st).cur
      /\ LostHook(st).closed = Dropped(st).closed /\ LostHook(st).phase = Dropped(st).phase
      /\ LostHook(st).retry <=> Dropped(st).retry \/ ~Dropped(st).closed
  BY <1>1, <1>2 DEF LostHook
<1> QED
  BY <1>1, <1>3

\* ss is the sockets, but for what s had under way.
LEMMA SocketLostKeeps ==
  ASSUME ClientInv, NEW s \in Sockets, NEW ss \in [Sockets -> Lines],
         \A o \in Sockets \ {s} : ss[o] = socks[o],
         NEW st \in {"error", "closed"}, SocketLost(s, ss, st), UNCHANGED <<page, room>>
  PROVE  ClientInv' /\ hook'.closed = hook.closed /\ hook'.cur = hook.cur
<1>1. /\ socks' \in [Sockets -> Lines]
      /\ \A o \in Sockets : socks'[o] = IF o = s THEN DeadSocket ELSE socks[o]
  BY DeadIsALine DEF SocketLost
<1>2. /\ hook' \in Hooks /\ hook'.cur = hook.cur
      /\ hook'.closed = hook.closed /\ hook'.phase = hook.phase
      /\ hook'.retry => hook.retry \/ (~hook.closed /\ socks[s].hooked)
      /\ hook.cur = s /\ socks[s].hooked => hook'.retry \/ hook'.closed
      /\ hook' = hook \/ (socks[s].hooked /\ hook.cur = s)
  <2>1. CASE socks[s].hooked /\ hook.cur = s
    <3>1. hook' = LostHook(st)
      BY <2>1 DEF SocketLost, LostHook, Dropped
    <3> QED
      BY <2>1, <3>1, LostHooks DEF ClientInv
  <2>2. CASE ~(socks[s].hooked /\ hook.cur = s)
    BY <2>2 DEF SocketLost, ClientInv, Types
  <2> QED
    BY <2>1, <2>2
<1>3. ui' \in Uis /\ ui'.was = ui.was /\ ui'.dirty = ui.dirty
  BY WithoutPipTypes DEF SocketLost, ClientInv, Types
<1>4. ASSUME NEW o \in Sockets
      PROVE  /\ Len(socks'[o].down) <= MaxQueue + 1 /\ Len(socks'[o].up) <= 1
             /\ socks'[o].hooked => o # s /\ socks[o].hooked
             /\ socks'[o].st = "open" => o # s /\ socks[o].st = "open"
             /\ socks'[o].st = "handshake" => o # s /\ socks[o].st = "handshake"
  <2>1. CASE o = s
    <3>1. socks'[o] = DeadSocket
      BY <1>1, <2>1
    <3>2. Len(DeadSocket.down) <= MaxQueue + 1 /\ Len(DeadSocket.up) <= 1
      BY DeadIsALine, BoundsAssumption
    <3> QED
      BY <3>1, <3>2, DeadIsALine
  <2>2. CASE o # s
    BY <1>1, <2>2 DEF ClientInv, Types
  <2> QED
    BY <2>1, <2>2
<1>5. Types'
  BY <1>1, <1>2, <1>3, <1>4 DEF ClientInv, Types
<1>6. SocketsSound'
  <2>1. page = "away" => hook' = FreshHook
    <3>1. page = "away" => hook = FreshHook
      BY DEF ClientInv, SocketsSound
    <3>2. page = "away" => hook.cur # s
      BY <3>1, FreshTypes, SocketsAssumption DEF None
    <3> QED
      BY <1>2, <3>1, <3>2
  <2>2. ASSUME NEW o \in Sockets
        PROVE  /\ socks'[o].hooked => o = hook'.cur
               /\ socks'[o].st = "open" => socks'[o].hooked
               /\ socks'[o].st = "handshake" => room'.conn # o
    <3>1. o # s => socks'[o] = socks[o]
      BY <1>1
    <3> QED
      BY <1>2, <1>4, <3>1 DEF ClientInv, SocketsSound
  <2> QED
    BY <2>1, <2>2 DEF SocketsSound
<1>7. RetrySound'
  <2> SUFFICES ASSUME hook'.retry PROVE ~hook'.closed /\ \A o \in Sockets : ~socks'[o].hooked
    BY DEF RetrySound
  <2>1. CASE hook.retry
    BY <1>2, <1>4, <2>1 DEF ClientInv, RetrySound
  <2>2. CASE ~hook.closed /\ socks[s].hooked
    BY <1>2, <1>4, <2>2 DEF ClientInv, SocketsSound
  <2> QED
    BY <1>2, <2>1, <2>2
<1>8. FollowInv'
  <2> SUFFICES ASSUME NEW o \in Sockets, socks'[o].st = "open", room'.conn = o
               PROVE  Follows(socks'[o].down, hook', room')
    BY DEF FollowInv
  <2>1. o # s /\ socks'[o] = socks[o] /\ socks[o].st = "open" /\ room.conn = o
    BY <1>1, <1>4
  <2>2. hook' = hook
    BY <1>2, <2>1 DEF ClientInv, SocketsSound
  <2> QED
    BY <2>1, <2>2 DEF ClientInv, FollowInv
<1>9. Rendered'
  BY <1>2, <1>3 DEF ClientInv, Rendered
<1>10. AtHome'
  <2> SUFFICES ASSUME page # "away", ~hook'.retry, ~hook'.closed PROVE Listening'
    BY DEF AtHome
  <2>1. ~(hook.cur = s /\ socks[s].hooked)
    BY <1>2
  <2>2. hook' = hook
    BY <1>2, <2>1
  <2>3. Listening
    BY <2>2 DEF ClientInv, AtHome
  <2>4. hook.cur # s
    BY <2>1, <2>3 DEF Listening
  <2> QED
    BY <1>1, <2>2, <2>3, <2>4 DEF Listening
<1>11. CommandsSound'
  BY <1>1, <1>4 DEF ClientInv, CommandsSound
<1> QED
  BY <1>2, <1>5, <1>6, <1>7, <1>8, <1>9, <1>10, <1>11 DEF ClientInv

LEMMA SocketLostSeat ==
  ASSUME ClientInv, SeatFollowsSocket, NEW s \in Sockets, NEW ss \in [Sockets -> Lines],
         \A o \in Sockets \ {s} : ss[o] = socks[o],
         NEW st \in {"error", "closed"}, SocketLost(s, ss, st), UNCHANGED <<page, room>>
  PROVE  SeatFollowsSocket'
<1>1. \A o \in Sockets : socks'[o] = IF o = s THEN DeadSocket ELSE socks[o]
  BY DeadIsALine DEF SocketLost
<1>2. ASSUME NEW o \in Sockets, socks'[o].st = "open"
      PROVE  o # s /\ socks'[o] = socks[o]
  BY <1>1, <1>2, DeadIsALine
<1>3. hook'.closed = hook.closed
  BY SocketLostKeeps
<1> QED
  BY <1>2, <1>3 DEF SeatFollowsSocket, Keeps

LEMMA LossKeeps ==
  ASSUME ClientInv, NEW s \in Sockets, HandshakeFails(s) \/ NetworkDrops(s)
  PROVE  /\ ClientInv' /\ hook'.cur = hook.cur
         /\ SeatFollowsSocket => SeatFollowsSocket'
<1>1. PICK st \in {"error", "closed"} : SocketLost(s, socks, st) /\ UNCHANGED <<page, room>>
  BY DEF HandshakeFails, NetworkDrops
<1>2. socks \in [Sockets -> Lines] /\ \A o \in Sockets \ {s} : socks[o] = socks[o]
  BY DEF ClientInv, Types
<1> QED
  BY <1>1, <1>2, SocketLostKeeps, SocketLostSeat

-----------------------------------------------------------------------------
(* The end of a handshake.                                                 *)

\* The room takes the socket and says where it stands, or refuses it.
\* What came out of it: a refusal, or a seat.  A socket that nobody listens to
\* any more is on record if it took the seat.
Denies(s, a) ==
  /\ a[1].conn = room.conn /\ SameStand(a[1]) /\ a[1].seated = room.seated
  /\ room.overtaken /\ ~socks[s].hooked => a[1].overtaken
  /\ \E i \in DOMAIN a[2] : a[2][i].t \in ClosingTypes

Admits(s, a) ==
  /\ a[1].conn = s /\ a[1].seated /\ a[1].stage # "gone"
  /\ ~socks[s].hooked => a[1].overtaken
  /\ \A h : Follows(a[2], h, a[1])

LEMMA RoomTakes ==
  ASSUME Types, NEW s \in Sockets
  PROVE  /\ Taken(s) \in Rooms /\ Taken(s).conn = s /\ Taken(s).seated
         /\ SameStand(Taken(s)) /\ Taken(s).stage = room.stage
         /\ ~socks[s].hooked => Taken(s).overtaken
<1>1. room \in Rooms /\ socks[s].hooked \in BOOLEAN
  BY DEF Types, Lines
<1> DEFINE b == ~socks[s].hooked
<1>2. b \in BOOLEAN /\ Taken(s) = [room EXCEPT !.conn = s, !.seated = TRUE, !.overtaken = b]
  BY DEF Taken
<1>3. ~socks[s].hooked => b
  OBVIOUS
<1> HIDE DEF b
<1> QED
  BY <1>1, <1>2, <1>3 DEF Rooms, SameStand

LEMMA RoomRefuses ==
  ASSUME Types, NEW s \in Sockets
  PROVE  LET a == Refused(s)
         IN a[1] \in Rooms /\ a[2] \in Seq(Messages) /\ Len(a[2]) <= 2 /\ Denies(s, a)
<1> DEFINE a     == Refused(s)
           fatal == Plain("fatal")
           bye   == Plain("bye")
           b     == room.overtaken /\ ~socks[s].hooked
<1>1. /\ fatal \in Messages /\ fatal.t = "fatal" /\ bye \in Messages
  BY MessageTypes
<1>2. a[1] = [room EXCEPT !.overtaken = b] /\ a[2] = <<fatal, bye>> /\ b \in BOOLEAN
  BY DEF Refused
<1>3. room.overtaken /\ ~socks[s].hooked => b
  OBVIOUS
<1> HIDE DEF a, fatal, bye, b
<1>4. /\ a[1] \in Rooms /\ a[1].conn = room.conn /\ SameStand(a[1])
      /\ a[1].seated = room.seated /\ a[1].overtaken = b
  BY <1>2 DEF Types, Rooms, SameStand
<1>5. /\ <<fatal, bye>> \in Seq(Messages) /\ Len(<<fatal, bye>>) = 2
      /\ <<fatal, bye>>[1] = fatal /\ 1 \in DOMAIN <<fatal, bye>>
  BY <1>1, ShortQueues
<1>6. \E i \in DOMAIN a[2] : a[2][i].t \in ClosingTypes
  BY <1>1, <1>2, <1>5 DEF ClosingTypes
<1>7. room.overtaken /\ ~socks[s].hooked => a[1].overtaken
  BY <1>3, <1>4
<1>8. Denies(s, a)
  BY <1>4, <1>6, <1>7 DEF Denies
<1> QED
  BY <1>2, <1>4, <1>5, <1>8 DEF a

\* The room takes the socket and says where it stands, or refuses it.
LEMMA Admissions ==
  ASSUME Types, NEW s \in Sockets, NEW a \in Admission(s)
  PROVE  /\ a[1] \in Rooms /\ a[2] \in Seq(Messages) /\ Len(a[2]) <= 2
         /\ Denies(s, a) \/ Admits(s, a)
<1>1. ASSUME NEW m \in Messages, m.t \in Marks, Says(m, room), room.stage # "gone",
             a = <<Taken(s), <<m>>>>
      PROVE  /\ a[1] \in Rooms /\ a[2] \in Seq(Messages) /\ Len(a[2]) <= 2 /\ Admits(s, a)
  <2>1. /\ <<m>> \in Seq(Messages) /\ Len(<<m>>) = 1
        /\ \A x : LastMark(<<m>>, x) => x = m
        /\ ~NoMark(<<m>>)
    BY <1>1, ShortQueues
  <2>2. a[1] = Taken(s) /\ a[2] = <<m>>
    BY <1>1
  <2>3. Says(m, Taken(s))
    BY <1>1, RoomTakes DEF SameStand, Says
  <2>4. \A h : Follows(a[2], h, a[1])
    BY <2>1, <2>2, <2>3 DEF Follows
  <2> QED
    BY <1>1, <2>1, <2>2, <2>4, RoomTakes DEF Admits
<1>2. CASE a = Refused(s)
  BY <1>2, RoomRefuses
<1>3. CASE room.stage = "lobby" /\ a = <<Taken(s), <<Plain("lobby_state")>>>>
  <2>1. /\ Plain("lobby_state") \in Messages /\ Plain("lobby_state").t \in Marks
        /\ Says(Plain("lobby_state"), room)
    BY <1>3, MessageTypes DEF Marks, Says
  <2> QED
    BY <1>1, <1>3, <2>1
<1>4. CASE /\ room.stage \notin {"gone", "lobby"}
           /\ a = <<Taken(s), <<IF room.stage = "playing" THEN StateMsg(room)
                                                        ELSE Plain("game_over")>>>>
  <2> DEFINE m == IF room.stage = "playing" THEN StateMsg(room) ELSE Plain("game_over")
  <2>1. m \in Messages /\ m.t \in Marks /\ Says(m, room)
    <3>1. CASE room.stage = "playing"
      BY <3>1, MessageTypes, RoomIsSame DEF NextRooms, Marks, Says
    <3>2. CASE room.stage # "playing"
      <4>1. m = Plain("game_over") /\ room.stage = "results"
        BY <1>4, <3>2 DEF Types, Rooms
      <4> QED
        BY <4>1, MessageTypes DEF Marks, Says
    <3> QED
      BY <3>1, <3>2
  <2>2. a = <<Taken(s), <<m>>>>
    BY <1>4
  <2> HIDE DEF m
  <2> QED
    BY <1>1, <1>4, <2>1, <2>2
<1>5. CASE room.stage = "gone"
  BY <1>2, <1>5 DEF Admission
<1>6. CASE room.stage = "lobby"
  BY <1>2, <1>3, <1>6 DEF Admission
<1>7. CASE room.stage \notin {"gone", "lobby"}
  BY <1>2, <1>4, <1>7 DEF Admission
<1> QED
  BY <1>5, <1>6, <1>7

LEMMA HandshakeEndsKeeps ==
  ASSUME ClientInv, NEW s \in Sockets, HandshakeEnds(s)
  PROVE  /\ ClientInv' /\ hook'.cur = hook.cur
         /\ SeatFollowsSocket => SeatFollowsSocket'
<1>1. PICK a \in Admission(s) :
         /\ room' = a[1]
         /\ socks' = [socks EXCEPT ![s] = IF socks[s].hooked
                                          THEN [@ EXCEPT !.st = "open", !.down = a[2]]
                                          ELSE DeadSocket]
  BY DEF HandshakeEnds
<1>2. /\ a[1] \in Rooms /\ a[2] \in Seq(Messages) /\ Len(a[2]) <= 2
      /\ Denies(s, a) \/ Admits(s, a)
  BY Admissions DEF ClientInv
<1> DEFINE n == [socks[s] EXCEPT !.st = "open", !.down = a[2]]
           e == IF socks[s].hooked THEN n ELSE DeadSocket
<1>3. /\ n \in Lines /\ n.st = "open" /\ n.hooked = socks[s].hooked
      /\ n.down = a[2] /\ n.up = socks[s].up
  BY <1>2 DEF ClientInv, Types, Lines
<1>4. /\ socks' \in [Sockets -> Lines]
      /\ \A o \in Sockets : socks'[o] = IF o = s THEN e ELSE socks[o]
  BY <1>1, <1>3, DeadIsALine DEF ClientInv, Types
<1> HIDE DEF n
<1>5. socks[s].st = "handshake" /\ room.conn # s
  BY DEF HandshakeEnds, ClientInv, SocketsSound
<1>6. /\ page' = page /\ ui' = ui /\ room' = a[1]
      /\ IF socks[s].hooked THEN hook' = [hook EXCEPT !.status = "open"] ELSE hook' = hook
  BY <1>1 DEF HandshakeEnds
<1>7. /\ hook' \in Hooks /\ hook'.cur = hook.cur /\ hook'.closed = hook.closed
      /\ hook'.phase = hook.phase /\ hook'.retry = hook.retry
  BY <1>6 DEF ClientInv, Types, Hooks
<1>8. \A o \in Sockets : o # s => socks'[o] = socks[o]
  BY <1>4
<1>9. socks'[s] = e /\ e.hooked = socks[s].hooked /\ e.st # "handshake"
      /\ (e.st = "open" => socks[s].hooked)
  <2>1. socks[s].hooked \in BOOLEAN
    BY DEF ClientInv, Types, Lines
  <2>2. DeadSocket.hooked = FALSE
    BY DEF DeadSocket
  <2>3. CASE socks[s].hooked
    BY <1>3, <1>4, <2>3
  <2>4. CASE ~socks[s].hooked
    BY <1>4, <2>1, <2>2, <2>4, DeadIsALine
  <2> QED
    BY <2>3, <2>4
<1>10. Types'
  <2>1. Len(e.down) <= MaxQueue + 1 /\ Len(e.up) <= 1
    <3>1. CASE socks[s].hooked
      <4>1. Len(a[2]) \in Nat /\ Len(a[2]) <= MaxQueue + 1
        BY <1>2, BoundsAssumption
      <4> QED
        BY <1>3, <3>1, <4>1 DEF ClientInv, Types
    <3>2. CASE ~socks[s].hooked
      BY <3>2, DeadIsALine, BoundsAssumption
    <3> QED
      BY <3>1, <3>2
  <2> HIDE DEF e
  <2>2. ASSUME NEW o \in Sockets
        PROVE  Len(socks'[o].down) <= MaxQueue + 1 /\ Len(socks'[o].up) <= 1
    BY <1>8, <1>9, <2>1 DEF ClientInv, Types
  <2> QED
    BY <1>2, <1>4, <1>6, <1>7, <2>2 DEF ClientInv, Types
<1>11. SocketsSound'
  <2>1. ASSUME NEW o \in Sockets
        PROVE  /\ socks'[o].hooked => o = hook'.cur
               /\ socks'[o].st = "open" => socks'[o].hooked
               /\ socks'[o].st = "handshake" => room'.conn # o
    <3>1. CASE o = s
      BY <1>7, <1>9, <3>1 DEF ClientInv, SocketsSound
    <3>2. CASE o # s
      BY <1>2, <1>6, <1>7, <1>8, <3>2 DEF ClientInv, SocketsSound, Denies, Admits
    <3> QED
      BY <3>1, <3>2
  <2>2. page = "away" => hook' = FreshHook
    <3>1. page = "away" => ~socks[s].hooked
      BY FreshTypes, SocketsAssumption DEF ClientInv, SocketsSound, None
    <3> QED
      BY <1>6, <3>1 DEF ClientInv, SocketsSound
  <2> QED
    BY <1>6, <2>1, <2>2 DEF SocketsSound
<1>12. RetrySound'
  <2>1. ASSUME NEW o \in Sockets PROVE socks'[o].hooked = socks[o].hooked
    BY <1>8, <1>9
  <2> QED
    BY <1>7, <2>1 DEF ClientInv, RetrySound
<1>13. FollowInv'
  <2> SUFFICES ASSUME NEW o \in Sockets, socks'[o].st = "open", room'.conn = o
               PROVE  Follows(socks'[o].down, hook', room')
    BY DEF FollowInv
  <2>1. CASE o = s
    <3>1. socks[s].hooked /\ socks'[s].down = a[2]
      BY <1>3, <1>9, <2>1
    <3> QED
      BY <1>2, <1>5, <1>6, <2>1, <3>1 DEF Denies, Admits
  <2>2. CASE o # s
    <3>1. socks'[o] = socks[o] /\ room.conn = o /\ SameStand(room')
      BY <1>2, <1>6, <1>8, <2>2 DEF Denies, Admits, SameStand
    <3>2. hook' = hook
      BY <1>6, <2>2, <3>1 DEF ClientInv, SocketsSound
    <3>3. Follows(socks[o].down, hook, room)
      BY <3>1 DEF ClientInv, FollowInv
    <3> QED
      BY <3>1, <3>2, <3>3 DEF Follows, Says, Shown, SameStand
  <2> QED
    BY <2>1, <2>2
<1>14. Rendered'
  BY <1>6, <1>7 DEF ClientInv, Rendered
<1>15. ASSUME SeatFollowsSocket PROVE SeatFollowsSocket'
  <2> SUFFICES ASSUME ~room'.overtaken, NEW o \in Sockets, socks'[o].st = "open",
                      socks'[o].hooked, ~hook'.closed,
                      \A i \in DOMAIN socks'[o].down : socks'[o].down[i].t \notin ClosingTypes
               PROVE  room'.conn = o /\ room'.seated /\ room'.stage # "gone"
    BY DEF SeatFollowsSocket, Keeps, ClosingTypes
  <2>1. CASE o = s
    <3>1. socks'[o].down = a[2]
      BY <1>3, <1>9, <2>1
    <3> QED
      BY <1>2, <1>6, <2>1, <3>1 DEF Denies, Admits
  <2>2. CASE o # s
    <3>1. socks[o] = socks'[o] /\ ~socks[s].hooked
      BY <1>8, <2>2 DEF ClientInv, SocketsSound
    <3>2. Denies(s, a) /\ ~room.overtaken
      BY <1>2, <1>6, <3>1 DEF Admits, Denies
    <3>3. room.conn = o /\ room.seated /\ room.stage # "gone"
      BY <1>7, <1>15, <3>1, <3>2 DEF SeatFollowsSocket, Keeps, ClosingTypes
    <3> QED
      BY <1>6, <3>2, <3>3 DEF Denies, SameStand
  <2> QED
    BY <2>1, <2>2
<1>16. AtHome'
  <2> SUFFICES ASSUME page # "away", ~hook.retry, ~hook.closed PROVE Listening'
    BY <1>6, <1>7 DEF AtHome
  <2>1. Listening
    BY DEF ClientInv, AtHome
  <2>2. CASE hook.cur = s
    <3>1. socks[s].hooked /\ socks'[s] = n
      BY <1>9, <2>1, <2>2 DEF Listening
    <3> QED
      BY <1>3, <1>7, <2>2, <3>1 DEF Listening
  <2>3. CASE hook.cur # s
    BY <1>7, <1>8, <2>1, <2>3 DEF Listening
  <2> QED
    BY <2>2, <2>3
<1>17. CommandsSound'
  <2>1. e.st = "open" => e.up = <<>>
    BY <1>3, <1>5, <1>9 DEF ClientInv, CommandsSound
  <2> HIDE DEF e
  <2> QED
    BY <1>8, <1>9, <2>1 DEF ClientInv, CommandsSound
<1> QED
  BY <1>7, <1>10, <1>11, <1>12, <1>13, <1>14, <1>15, <1>16, <1>17 DEF ClientInv

-----------------------------------------------------------------------------
(* A message is handled.                                                   *)

LEMMA HandledTypes ==
  ASSUME NEW h \in Hooks, NEW m \in Messages, m.t # "bye"
  PROVE  /\ Handled(h, m) \in Hooks /\ Handled(h, m).cur = h.cur /\ Handled(h, m).retry = h.retry
         /\ h.closed \/ m.t \in ClosingTypes => Handled(h, m).closed
         /\ \A r : m.t \in Marks /\ Says(m, r) /\ r.stage # "gone" => Shown(Handled(h, m), r)
         /\ \A r : m.t \notin Marks /\ Shown(h, r) => Shown(Handled(h, m), r)
<1>1. CASE m.t = "lobby_state"
  <2>1. Handled(h, m) = OnLobbyState(h)
    BY <1>1 DEF Handled
  <2>2. /\ OnLobbyState(h) \in Hooks /\ OnLobbyState(h).cur = h.cur
        /\ OnLobbyState(h).retry = h.retry /\ OnLobbyState(h).closed = h.closed
        /\ OnLobbyState(h).phase = "lobby" /\ ~OnLobbyState(h).over
    BY DEF OnLobbyState, Hooks
  <2> QED
    BY <1>1, <2>1, <2>2 DEF Marks, ClosingTypes, Says, Shown
<1>2. CASE m.t = "state_update"
  <2>1. Handled(h, m) = OnStateUpdate(h, m)
    BY <1>2 DEF Handled
  <2>2. m.turn \in 0..Turns - 1 /\ m.kind \in Kinds \cup {"theirs"}
    BY <1>2 DEF Messages
  <2>3. /\ OnStateUpdate(h, m) \in Hooks /\ OnStateUpdate(h, m).cur = h.cur
        /\ OnStateUpdate(h, m).retry = h.retry /\ OnStateUpdate(h, m).closed = h.closed
        /\ OnStateUpdate(h, m).phase = "playing" /\ ~OnStateUpdate(h, m).over
        /\ OnStateUpdate(h, m).turn = m.turn /\ OnStateUpdate(h, m).kind = m.kind
    BY <2>2 DEF OnStateUpdate, Hooks
  <2> QED
    BY <1>2, <2>1, <2>3 DEF Marks, ClosingTypes, Says, Shown
<1>3. CASE m.t = "game_over"
  <2>1. Handled(h, m) = OnGameOver(h)
    BY <1>3 DEF Handled
  <2>2. /\ OnGameOver(h) \in Hooks /\ OnGameOver(h).cur = h.cur
        /\ OnGameOver(h).retry = h.retry /\ OnGameOver(h).closed = h.closed
        /\ OnGameOver(h).over
    BY DEF OnGameOver, Hooks
  <2> QED
    BY <1>3, <2>1, <2>2 DEF Marks, ClosingTypes, Says, Shown
<1>4. CASE m.t \notin Marks
  <2> DEFINE g == Handled(h, m)
  <2>1. /\ g \in Hooks /\ g.cur = h.cur /\ g.retry = h.retry
        /\ g.phase = h.phase /\ g.over = h.over /\ g.turn = h.turn /\ g.kind = h.kind
        /\ h.closed \/ m.t \in ClosingTypes => g.closed
    <3>1. CASE m.t = "rematch_status"
      <4>1. g = [h EXCEPT !.voted = m.voted] /\ m.voted \in BOOLEAN
        BY <3>1 DEF Handled, Messages
      <4> QED
        BY <3>1, <4>1 DEF Hooks, ClosingTypes
    <3>2. CASE m.t = "player_disconnected"
      <4>1. g = [h EXCEPT !.left = TRUE]
        BY <3>2 DEF Handled
      <4> QED
        BY <3>2, <4>1 DEF Hooks, ClosingTypes
    <3>3. CASE m.t \in {"room_closed", "fatal"}
      <4>1. g = [h EXCEPT !.closed = TRUE]
        BY <3>3 DEF Handled
      <4> QED
        BY <3>3, <4>1 DEF Hooks
    <3> QED
      BY <1>4, <3>1, <3>2, <3>3 DEF Messages, Marks
  <2> HIDE DEF g
  <2>2. ASSUME NEW r, Shown(h, r) PROVE Shown(g, r)
    BY <2>1, <2>2 DEF Shown
  <2> QED
    BY <1>4, <2>1, <2>2 DEF g
<1> QED
  BY <1>1, <1>2, <1>3, <1>4 DEF Marks

\* Where the room is gone there is nothing to show.
LEMMA GoneIsShown == ASSUME NEW h, NEW r, r.stage = "gone" PROVE Shown(h, r)
  BY DEF Shown

LEMMA OnMessageKeeps ==
  ASSUME ClientInv, NEW s \in Sockets, OnMessage(s)
  PROVE  /\ ClientInv' /\ hook'.cur = hook.cur
         /\ SeatFollowsSocket => SeatFollowsSocket'
<1> DEFINE q  == socks[s].down
           m  == Head(q)
           n  == [socks[s] EXCEPT !.down = Tail(q)]
           ss == [socks EXCEPT ![s] = n]
<1>1. q \in Seq(Messages) /\ q # <<>> /\ socks[s].hooked /\ socks[s] \in Lines
  BY DEF OnMessage, ClientInv, Types, Lines
<1>2. /\ m \in Messages /\ Tail(q) \in Seq(Messages) /\ Len(Tail(q)) = Len(q) - 1
      /\ Len(q) \in Nat /\ m = q[1]
      /\ \A i \in DOMAIN q : i = 1 \/ (i - 1 \in DOMAIN Tail(q) /\ q[i] = Tail(q)[i - 1])
  <2>1. /\ m \in Messages /\ Tail(q) \in Seq(Messages) /\ Len(Tail(q)) = Len(q) - 1
        /\ Len(q) \in Nat \ {0} /\ m = q[1]
        /\ \A i \in 1..Len(Tail(q)) : Tail(q)[i] = q[i + 1]
    BY <1>1, HeadTailProperties, EmptySeq
  <2>2. ASSUME NEW i \in DOMAIN q, i # 1
        PROVE  i - 1 \in DOMAIN Tail(q) /\ q[i] = Tail(q)[i - 1]
    <3>1. i \in 1..Len(q)
      BY <1>1
    <3>2. i - 1 \in 1..Len(Tail(q)) /\ (i - 1) + 1 = i
      BY <2>1, <2>2, <3>1
    <3> QED
      BY <2>1, <3>2
  <2> QED
    BY <2>1, <2>2
<1>3. /\ n \in Lines /\ n.st = socks[s].st /\ n.hooked = socks[s].hooked
      /\ n.down = Tail(q) /\ n.up = socks[s].up
  BY <1>1, <1>2 DEF Lines
<1>4. UNCHANGED <<page, room>>
  BY DEF OnMessage
<1>5. ss = [socks EXCEPT ![s].down = Tail(@)]
  OBVIOUS
<1> HIDE DEF n
<1>6. /\ ss \in [Sockets -> Lines]
      /\ ss[s] = n /\ \A o \in Sockets \ {s} : ss[o] = socks[o]
  BY <1>3 DEF ClientInv, Types
<1>7. CASE m.t = "bye"
  <2>1. SocketLost(s, ss, "closed")
    BY <1>5, <1>7 DEF OnMessage
  <2> HIDE DEF ss
  <2> QED
    BY <1>4, <1>6, <2>1, SocketLostKeeps, SocketLostSeat
<1>8. CASE m.t # "bye"
  <2>1. /\ hook' = Handled(hook, m)
        /\ ui' = [AgedUi(ui, m) EXCEPT !.dirty = TRUE]
        /\ socks' = ss
    BY <1>5, <1>8 DEF OnMessage
  <2> HIDE DEF ss
  <2>2. /\ hook' \in Hooks /\ hook'.cur = hook.cur /\ hook'.retry = hook.retry
        /\ hook.closed \/ m.t \in ClosingTypes => hook'.closed
        /\ \A r : m.t \in Marks /\ Says(m, r) /\ r.stage # "gone" => Shown(hook', r)
        /\ \A r : m.t \notin Marks /\ Shown(hook, r) => Shown(hook', r)
    BY <1>2, <1>8, <2>1, HandledTypes DEF ClientInv, Types
  <2>3. ui' \in Uis /\ ui'.dirty
    <3>1. AgedUi(ui, m) \in Uis
      BY DEF AgedUi, Aged, ClientInv, Types, Uis, Picks
    <3> QED
      BY <2>1, <3>1 DEF Uis
  <2>4. /\ hook.cur = s /\ socks'[s] = n
        /\ \A o \in Sockets : o # s => socks'[o] = socks[o]
    BY <1>1, <1>6, <2>1 DEF ClientInv, SocketsSound
  <2>5. \A o \in Sockets : socks'[o].st = socks[o].st /\ socks'[o].hooked = socks[o].hooked
    BY <1>3, <2>4
  <2>6. Types'
    <3>1. Len(n.down) <= MaxQueue + 1 /\ Len(n.up) <= 1
      <4>1. Len(q) <= MaxQueue + 1 /\ Len(socks[s].up) <= 1
        BY DEF ClientInv, Types
      <4> QED
        BY <1>2, <1>3, <4>1, BoundsAssumption
    <3>2. ASSUME NEW o \in Sockets
          PROVE  Len(socks'[o].down) <= MaxQueue + 1 /\ Len(socks'[o].up) <= 1
      BY <2>4, <3>1 DEF ClientInv, Types
    <3> QED
      BY <1>4, <1>6, <2>1, <2>2, <2>3, <3>2 DEF ClientInv, Types
  <2>7. SocketsSound'
    <3>1. page # "away"
      BY <2>4, FreshTypes, SocketsAssumption DEF ClientInv, SocketsSound, None
    <3> QED
      BY <1>4, <2>2, <2>5, <3>1 DEF ClientInv, SocketsSound
  <2>8. RetrySound'
    <3>1. ~hook'.retry
      BY <1>1, <2>2 DEF ClientInv, RetrySound
    <3> QED
      BY <3>1 DEF RetrySound
  <2>9. FollowInv'
    <3> SUFFICES ASSUME NEW o \in Sockets, socks'[o].st = "open", room'.conn = o
                 PROVE  Follows(socks'[o].down, hook', room')
      BY DEF FollowInv
    <3>1. o = s
      BY <2>4, <2>5 DEF ClientInv, SocketsSound
    <3>2. Follows(q, hook, room)
      BY <1>4, <2>5, <3>1 DEF ClientInv, FollowInv
    <3>3. socks'[o].down = Tail(q) /\ room' = room
      BY <1>3, <1>4, <2>4, <3>1
    <3>4. \A x \in Messages : LastMark(Tail(q), x) => Says(x, room)
      BY <1>1, <3>2, TailMarks DEF Follows
    <3>5. ASSUME NoMark(Tail(q)) PROVE Shown(hook', room)
      <4>1. CASE m.t \in Marks
        <5>1. Says(m, room)
          BY <1>1, <1>2, <3>2, <3>5, <4>1, TailMarks DEF Follows
        <5> QED
          BY <2>2, <4>1, <5>1, GoneIsShown
      <4>2. CASE m.t \notin Marks
        <5>1. Shown(hook, room)
          BY <1>1, <3>2, <3>5, <4>2, TailMarks DEF Follows
        <5> QED
          BY <2>2, <4>2, <5>1
      <4> QED
        BY <4>1, <4>2
    <3> QED
      BY <3>3, <3>4, <3>5 DEF Follows
  <2>10. Rendered'
    BY <2>3 DEF Rendered
  <2>11. ASSUME SeatFollowsSocket PROVE SeatFollowsSocket'
    <3> SUFFICES ASSUME ~room'.overtaken, NEW o \in Sockets, socks'[o].st = "open",
                        socks'[o].hooked, ~hook'.closed,
                        \A i \in DOMAIN socks'[o].down : socks'[o].down[i].t \notin ClosingTypes
                 PROVE  room'.conn = o /\ room'.seated /\ room'.stage # "gone"
      BY DEF SeatFollowsSocket, Keeps, ClosingTypes
    <3>1. socks[o].st = "open" /\ socks[o].hooked /\ ~hook.closed
      BY <1>4, <2>2, <2>5
    <3>2. o = s /\ socks'[o].down = Tail(q)
      BY <1>3, <2>4, <3>1 DEF ClientInv, SocketsSound
    <3>3. m.t \notin ClosingTypes
      BY <2>2
    <3>4. \A i \in DOMAIN socks[o].down : socks[o].down[i].t \notin ClosingTypes
      BY <1>2, <3>2, <3>3
    <3>5. room.conn = o /\ room.seated /\ room.stage # "gone"
      BY <1>4, <2>11, <3>1, <3>4 DEF SeatFollowsSocket, Keeps, ClosingTypes
    <3> QED
      BY <1>4, <3>5
  <2>12. AtHome'
    BY <1>1, <1>4, <2>2, <2>4, <2>5 DEF ClientInv, AtHome, Listening
  <2>13. CommandsSound'
    BY <1>3, <2>4 DEF ClientInv, CommandsSound
  <2> QED
    BY <2>2, <2>6, <2>7, <2>8, <2>9, <2>10, <2>11, <2>12, <2>13 DEF ClientInv
<1> QED
  BY <1>7, <1>8

-----------------------------------------------------------------------------
(* The invariants hold, and what follows from them.                        *)

LEMMA StayKeeps ==
  ASSUME ClientInv, Stay, UNCHANGED room
  PROVE  ClientInv' /\ (SeatFollowsSocket => SeatFollowsSocket')
<1>1. UNCHANGED <<page, hook, socks, room>>
  BY DEF Stay
<1>2. /\ ui' \in Uis
      /\ ui'.was => ui.was \/ (page = "game" /\ hook.phase = "playing")
  <2> DEFINE pip == ui.pip /\ ~(page = "game" /\ PipDies)
  <2>1. ui' = [ui EXCEPT !.dirty = FALSE,
                         !.was = @ \/ (page = "game" /\ hook.phase = "playing"),
                         !.picked = KeptSelection(@),
                         !.pip = pip,
                         !.pipPicked = IF pip THEN @ ELSE "no"]
    BY DEF Stay
  <2>2. ui \in Uis /\ pip \in BOOLEAN /\ KeptSelection(ui.picked) \in Picks
    BY DEF ClientInv, Types, KeptSelection, Uis, Picks
  <2> HIDE DEF pip
  <2>3. ui.was \/ (page = "game" /\ hook.phase = "playing") \in BOOLEAN
    OBVIOUS
  <2>4. ui' \in Uis
    BY <2>1, <2>2, <2>3 DEF Uis, Picks
  <2>5. ui'.was = (ui.was \/ (page = "game" /\ hook.phase = "playing"))
    BY <2>1, <2>2 DEF Uis
  <2> QED
    BY <2>4, <2>5
<1>3. Types'
  BY <1>1, <1>2 DEF ClientInv, Types
<1>4. SocketsSound' /\ RetrySound' /\ FollowInv' /\ AtHome' /\ CommandsSound'
  BY <1>1 DEF ClientInv, SocketsSound, RetrySound, FollowInv, AtHome, Listening, CommandsSound
<1>5. Rendered'
  BY <1>1, <1>2 DEF Stay, Rendered
<1>6. SeatFollowsSocket => SeatFollowsSocket'
  BY <1>1 DEF SeatFollowsSocket, Keeps
<1> QED
  BY <1>3, <1>4, <1>5, <1>6 DEF ClientInv

\* After a permanent close the hook opens nothing.
StaysClosed == hook.closed /\ hook'.closed => hook'.cur = hook.cur \/ hook'.cur = None

\* Each step, with what it keeps.
LEMMA NextKeeps ==
  ASSUME ClientInv, Next
  PROVE  /\ ClientInv' /\ StaysClosed
         /\ SeatFollowsSocket => SeatFollowsSocket'
<1>1. CASE RoomStep
  <2>1. RoomMoves
    BY <1>1, RoomStepMoves DEF ClientInv
  <2> QED
    BY <2>1, RoomMovesKeep, RoomMovesSeat DEF RoomMoves, StaysClosed
<1>2. CASE PageActs
  BY <1>2, PageActsKeep, PageActsSeat DEF PageActs, StaysClosed
<1>3. CASE Leaves
  BY <1>3, LeavesKeep, FreshTypes DEF Leaves, StaysClosed
<1>4. CASE \E p \in {"room", "game"} : Mount(p) /\ UNCHANGED room
  BY <1>4, MountKeeps DEF StaysClosed
<1>5. CASE SocketStep
  <2>1. CASE ReconnectTimerFires
    BY <2>1, ReconnectKeeps DEF StaysClosed
  <2>2. CASE SendThrows
    BY <2>2, SendThrowsKeeps DEF StaysClosed
  <2>3. CASE \E s \in Sockets : HandshakeEnds(s)
    BY <2>3, HandshakeEndsKeeps DEF StaysClosed
  <2>4. CASE \E s \in Sockets : HandshakeFails(s) \/ NetworkDrops(s)
    BY <2>4, LossKeeps DEF StaysClosed
  <2>5. CASE \E s \in Sockets : OnMessage(s)
    BY <2>5, OnMessageKeeps DEF StaysClosed
  <2> QED
    BY <1>5, <2>1, <2>2, <2>3, <2>4, <2>5 DEF SocketStep
<1>6. CASE Render
  <2>1. CASE NavigateHome
    <3>1. Leaves
      BY <1>6, <2>1, SocksAreSent DEF Render, NavigateHome, Unmount, Leaves, ClientInv
    <3> QED
      BY <1>3, <3>1
  <2>2. CASE FollowGame \/ FollowLobby
    BY <1>4, <1>6, <2>2 DEF Render, FollowGame, FollowLobby
  <2>3. CASE Stay
    BY <1>6, <2>3, StayKeeps DEF Render, Stay, StaysClosed
  <2> QED
    BY <1>6, <2>1, <2>2, <2>3 DEF Render
<1>7. CASE RoomAnswer
  BY <1>2, <1>3, <1>7, RoomAnswerKinds DEF ClientInv
<1>8. CASE PlayerStep
  <2>1. Enter => \E p \in {"room", "game"} : Mount(p) /\ UNCHANGED room
    BY DEF Enter
  <2> QED
    BY <1>2, <1>3, <1>4, <1>8, <2>1, PlayerStepKinds DEF ClientInv
<1> QED
  BY <1>1, <1>5, <1>6, <1>7, <1>8 DEF Next

LEMMA StutterKeeps ==
  ASSUME ClientInv, UNCHANGED vars
  PROVE  ClientInv' /\ StaysClosed /\ (SeatFollowsSocket => SeatFollowsSocket')
<1>1. UNCHANGED <<page, hook, ui, socks, room>>
  BY DEF vars
<1>2. ClientInv'
  BY <1>1 DEF ClientInv, Types, SocketsSound, RetrySound, FollowInv, Rendered, AtHome, Listening,
              CommandsSound
<1>3. SeatFollowsSocket => SeatFollowsSocket'
  BY <1>1 DEF SeatFollowsSocket, Keeps
<1> QED
  BY <1>1, <1>2, <1>3 DEF StaysClosed

LEMMA InitKeeps == Init => ClientInv /\ SeatFollowsSocket
<1> SUFFICES ASSUME Init PROVE ClientInv /\ SeatFollowsSocket
  OBVIOUS
<1>1. \A s \in Sockets : socks[s] = DeadSocket
  BY DEF Init
<1>2. Types
  <2>1. 0 \in 0..Turns - 1
    BY BoundsAssumption
  <2>2. room \in Rooms /\ ui \in Uis
    BY <2>1, FreshTypes DEF Init, Rooms, Kinds
  <2>3. socks \in [Sockets -> Lines]
    BY DeadIsALine DEF Init
  <2>4. ASSUME NEW s \in Sockets
        PROVE  Len(socks[s].down) <= MaxQueue + 1 /\ Len(socks[s].up) <= 1
    BY <1>1, DeadIsALine, BoundsAssumption
  <2> QED
    BY <2>2, <2>3, <2>4, FreshTypes DEF Types, Init
<1>3. SocketsSound /\ RetrySound /\ FollowInv /\ AtHome /\ CommandsSound
  BY <1>1, DeadIsALine, FreshTypes
  DEF Init, SocketsSound, RetrySound, FollowInv, AtHome, CommandsSound, DeadSocket
<1>4. Rendered
  BY DEF Init, Rendered
<1>5. SeatFollowsSocket
  BY <1>1, DeadIsALine DEF SeatFollowsSocket, Keeps
<1> QED
  BY <1>2, <1>3, <1>4, <1>5 DEF ClientInv

\* The invariant of a tab at a room, for any sockets, turns and queues, and
\* whether React renders between two messages or not.
THEOREM ClientInvariant == Spec => []ClientInv
<1>1. Init => ClientInv
  BY InitKeeps
<1>2. ClientInv /\ [Next]_vars => ClientInv'
  BY NextKeeps, StutterKeeps
<1> QED
  BY <1>1, <1>2, PTL DEF Spec

\* The tab's state keeps its types; of all its sockets only the one it sends
\* on runs the hook's handlers; and a page is never left without a socket, a
\* timer that opens one, or a closed room to render.
THEOREM TabStaysSound == Spec => []ClientSound
<1>1. ClientInv => ClientSound
  <2> SUFFICES ASSUME ClientInv PROVE ClientSound
    OBVIOUS
  <2>1. ASSUME NEW s \in Sockets
        PROVE  /\ socks[s].st \in {"dead", "handshake", "open"}
               /\ socks[s].hooked \in BOOLEAN
               /\ Len(socks[s].down) <= MaxQueue + 1
               /\ Len(socks[s].up) <= 2
    <3>1. socks[s] \in Lines /\ Len(socks[s].up) <= 1
          /\ Len(socks[s].down) <= MaxQueue + 1
      BY DEF ClientInv, Types
    <3>2. Len(socks[s].up) \in Nat
      BY <3>1 DEF Lines
    <3> QED
      BY <3>1, <3>2 DEF Lines
  <2>2. TypeOK
    BY <2>1 DEF ClientInv, Types, TypeOK, Hooks, Uis, Rooms
  <2>3. OneLiveSocket
    BY DEF ClientInv, SocketsSound, OneLiveSocket
  <2>4. NeverStranded
    BY SocketsAssumption DEF ClientInv, AtHome, Listening, Rendered, NeverStranded, None
  <2> QED
    BY <2>2, <2>3, <2>4 DEF ClientSound
<1> QED
  BY <1>1, ClientInvariant, PTL

\* However the connection was lost and came back, a page at rest shows where
\* the room is: the turn of its game, its results or its lobby.
THEOREM PageShowsTheRoom == Spec => []PageFollowsRoom
<1>1. ClientInv => PageFollowsRoom
  <2> SUFFICES ASSUME ClientInv, Settled
               PROVE  /\ room.stage = "playing" => /\ page = "game" /\ ~hook.over
                                                   /\ hook.turn = room.turn
                                                   /\ hook.kind = room.kind
                      /\ room.stage = "results" => hook.over
                      /\ room.stage = "lobby" => ~hook.over /\ (ui.was => page = "room")
    BY DEF PageFollowsRoom
  <2>1. /\ hook.cur \in Sockets /\ socks[hook.cur].st = "open" /\ room.conn = hook.cur
        /\ socks[hook.cur].down = <<>> /\ page \in {"room", "game"} /\ ~ui.dirty
    BY DEF Settled, ClientInv, Types, Hooks
  <2>2. NoMark(<<>>)
    BY DEF NoMark
  <2>3. Shown(hook, room)
    BY <2>1, <2>2 DEF ClientInv, FollowInv, Follows
  <2>4. /\ ~(page = "room" /\ hook.phase = "playing")
        /\ ~(page = "game" /\ hook.phase = "lobby" /\ ui.was)
    BY <2>1 DEF ClientInv, Rendered
  <2> QED
    BY <2>1, <2>3, <2>4 DEF Shown
<1> QED
  BY <1>1, ClientInvariant, PTL

\* A page that is connected, and has not been told to go, has its seat: the room
\* sends to the socket it listens to, in whatever order what the tab did on its
\* sockets arrives, unless a socket that the tab had dropped came last: then
\* the page has to open one more.
THEOREM SeatStaysWithSocket == Spec => []SeatFollowsSocket
<1>1. Init => ClientInv /\ SeatFollowsSocket
  BY InitKeeps
<1>2. (ClientInv /\ SeatFollowsSocket) /\ [Next]_vars => (ClientInv /\ SeatFollowsSocket)'
  BY NextKeeps, StutterKeeps
<1> QED
  BY <1>1, <1>2, PTL DEF Spec

\* ClosedIsFinal, the safety half of DeadRoomIsOver: after a kick, a refused
\* join or a closed window, the mounted hook opens no socket again.
THEOREM ClosedRoomIsNotRetried == Spec => ClosedIsFinal
<1>1. ClientInv /\ [Next]_vars =>
        [hook.closed /\ hook'.closed => (hook'.cur = hook.cur \/ hook'.cur = None)]_vars
  BY NextKeeps, StutterKeeps DEF StaysClosed
<1> QED
  BY <1>1, ClientInvariant, PTL DEF Spec, ClosedIsFinal
=============================================================================
