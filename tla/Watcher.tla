------------------------------ MODULE Watcher ------------------------------
(***************************************************************************)
(* Somebody watches a game: the page with the spectator socket of the web   *)
(* client, and the room that admits the socket and sends it the table.      *)
(* The room builds a message under its lock and sends it without, in        *)
(* goroutines of players, bots and timers that overtake each other.  The    *)
(* page never reconnects of itself; a new token gives it a new socket.      *)
(* Emotes, which touch nothing, and other replicas are left out.            *)
(***************************************************************************)
EXTENDS Naturals, Sequences, SequencesExt

CONSTANTS Sockets,      \* sockets of the page that may be about at a time
          LastChange,   \* changes of the table (a bound)
          MaxCasts      \* broadcasts under way, and on the way to a socket (a bound)

ASSUME WatchAssumption == 0 \notin Sockets /\ LastChange \in Nat /\ MaxCasts \in Nat

VARIABLES match,        \* the room: its phase and how often the table changed
          owed,         \* broadcasts that have yet to look at the room
          casts,        \* messages built, not sent, in the order they were built
          watchers,     \* room.spectators
          socket,       \* the sockets: state, messages on the way
          page,         \* the page and its hook
          crossed       \* a message overtook one that was built before it

watchVars == <<match, owed, casts, watchers, socket, page, crossed>>

NoSocket == [st |-> "none", inbox |-> <<>>, since |-> 0]
FreshPage == [at |-> "away", sock |-> 0, v |-> 0, over |-> FALSE, notFound |-> FALSE, heard |-> FALSE]

Message(kind) == [kind |-> kind, v |-> match.v]
Crowded(n) == owed.state + owed.over + n > MaxCasts

-----------------------------------------------------------------------------
(* The room.                                                               *)

\* A deal, a move that does not end the game, the move that ends it.  Every
\* one owes the spectators a message.
TableChanges(st) ==
  /\ match.v < LastChange /\ ~Crowded(1)
  /\ match.st = "playing" \/ st = "playing"
  /\ match' = [st |-> st, v |-> match.v + 1]
  /\ owed' = IF st = "over" THEN [owed EXCEPT !.over = @ + 1] ELSE [owed EXCEPT !.state = @ + 1]
  /\ UNCHANGED <<casts, watchers, socket, page, crossed>>

\* Nobody tells the spectators that the room is a waiting room again.
ReturnToLobby ==
  /\ match.st = "over" /\ match' = [match EXCEPT !.st = "waiting"]
  /\ UNCHANGED <<owed, casts, watchers, socket, page, crossed>>

\* broadcastState and broadcastGameOver: one look at the table and the list.
Look(kind) ==
  /\ owed[kind] > 0 /\ Len(casts) < MaxCasts
  /\ owed' = [owed EXCEPT ![kind] = @ - 1]
  /\ casts' = IF match.st = "waiting" THEN casts
              ELSE Append(casts, [to |-> watchers, msg |-> Message(kind)])
  /\ UNCHANGED <<match, watchers, socket, page, crossed>>

SendCast(i) ==
  LET cast == casts[i]
  IN /\ \A s \in cast.to : Len(socket[s].inbox) < MaxCasts
     /\ casts' = RemoveAt(casts, i)
     /\ socket' = [s \in Sockets |-> IF s \in cast.to /\ socket[s].st = "open"
                                     THEN [socket[s] EXCEPT !.inbox = Append(@, cast.msg)] ELSE socket[s]]
     /\ crossed' = (crossed \/ \E j \in 1..i - 1 : casts[j].to \cap cast.to # {})
     /\ UNCHANGED <<match, owed, watchers, page>>

\* Mutant: the list is joined after the table was looked at.
AdmitUnlisted(s) ==
  /\ socket[s].st = "open" /\ socket[s].since = 0
  /\ match.st # "waiting" /\ Len(casts) < MaxCasts
  /\ casts' = Append(casts, [to |-> {s}, msg |-> Message(IF match.st = "over" THEN "over" ELSE "state")])
  /\ socket' = [socket EXCEPT ![s].since = match.v]
  /\ UNCHANGED <<match, owed, watchers, page, crossed>>

\* handleSpectator: the newcomer joins the list and gets the table as it was
\* then.  The seated players' messages, which carry the number of spectators,
\* go to the spectators as well.
Admit(s) ==
  /\ socket[s].st = "open" /\ socket[s].since = 0
  /\ match.st # "waiting" /\ Len(casts) < MaxCasts /\ ~Crowded(1)
  /\ watchers' = watchers \union {s}
  /\ casts' = Append(casts, [to |-> {s}, msg |-> Message(IF match.st = "over" THEN "over" ELSE "state")])
  /\ owed' = IF match.st = "over" THEN owed ELSE [owed EXCEPT !.state = @ + 1]
  /\ socket' = [socket EXCEPT ![s].since = match.v]
  /\ UNCHANGED <<match, page, crossed>>

\* The game has not started, or watching is switched off.
Refuse(s) ==
  /\ socket[s].st = "open" /\ socket[s].since = 0
  /\ socket' = [socket EXCEPT ![s].st = "lost", ![s].inbox = Append(@, Message("error"))]
  /\ UNCHANGED <<match, owed, casts, watchers, page, crossed>>

\* The session loop ends: removeSpectator.
NoticeGone(s) ==
  /\ socket[s].st \in {"left", "lost"} /\ s \in watchers /\ ~Crowded(1)
  /\ watchers' = watchers \ {s}
  /\ owed' = IF match.st = "playing" THEN [owed EXCEPT !.state = @ + 1] ELSE owed
  /\ UNCHANGED <<match, casts, socket, page, crossed>>

-----------------------------------------------------------------------------
(* The page.                                                               *)

Current(s) == page.at = "here" /\ page.sock = s

\* new WebSocket; the handshake is over at once or never.
OpenWatch(p, sockets) ==
  \E s \in Sockets : /\ sockets[s].st = "none"
                     /\ socket' = [sockets EXCEPT ![s].st = "open"]
                     /\ page' = [p EXCEPT !.at = "here", !.sock = s, !.heard = FALSE]

\* Mutant: the old socket keeps its handlers.
Attached(sockets) == sockets

\* The clean-up of the effect: without handlers, and closed.
Detached(sockets) ==
  IF page.sock = 0 THEN sockets
  ELSE [sockets EXCEPT ![page.sock].st = IF @ = "open" THEN "left" ELSE @, ![page.sock].inbox = <<>>]

OpenPageOf ==
  /\ page.at = "away"
  /\ OpenWatch(FreshPage, socket)
  /\ UNCHANGED <<match, owed, casts, watchers, crossed>>

\* What the page shows stays, and so does its "not available".
TokenIsNew ==
  /\ page.at = "here"
  /\ OpenWatch(page, Detached(socket))
  /\ UNCHANGED <<match, owed, casts, watchers, crossed>>

LeaveWatch ==
  /\ page.at = "here"
  /\ socket' = Detached(socket) /\ page' = FreshPage
  /\ UNCHANGED <<match, owed, casts, watchers, crossed>>

\* The handler does not ask whose socket it is of.
Reads(s) ==
  /\ page.at = "here" /\ socket[s].inbox # <<>>
  /\ socket' = [socket EXCEPT ![s].inbox = Tail(@)]
  /\ page' = LET msg == Head(socket[s].inbox)
             IN IF msg.kind = "error" THEN [page EXCEPT !.notFound = TRUE]
                ELSE [page EXCEPT !.v = msg.v, !.over = msg.kind = "over", !.heard = TRUE]
  /\ UNCHANGED <<match, owed, casts, watchers, crossed>>

Breaks(s) ==
  /\ socket[s].st = "open"
  /\ socket' = [socket EXCEPT ![s].st = "lost", ![s].inbox = <<>>]
  /\ UNCHANGED <<match, owed, casts, watchers, page, crossed>>

\* Both sides have let go of it, and nothing is to be sent to it.
Forgotten(s) ==
  /\ socket[s].st \in {"left", "lost"} /\ ~Current(s) /\ s \notin watchers
  /\ \A i \in DOMAIN casts : s \notin casts[i].to
  /\ socket' = [socket EXCEPT ![s] = NoSocket]
  /\ UNCHANGED <<match, owed, casts, watchers, page, crossed>>

-----------------------------------------------------------------------------
WatchInit ==
  /\ match = [st |-> "playing", v |-> 1]
  /\ owed = [state |-> 0, over |-> 0] /\ casts = <<>>
  /\ watchers = {} /\ crossed = FALSE
  /\ socket = [s \in Sockets |-> NoSocket]
  /\ page = FreshPage

WatchNext ==
  \/ \E st \in {"playing", "over"} : TableChanges(st)
  \/ ReturnToLobby
  \/ \E kind \in {"state", "over"} : Look(kind)
  \/ \E i \in DOMAIN casts : SendCast(i)
  \/ \E s \in Sockets : Admit(s) \/ Refuse(s) \/ NoticeGone(s) \/ Reads(s) \/ Breaks(s) \/ Forgotten(s)
  \/ OpenPageOf \/ TokenIsNew \/ LeaveWatch

WatchSpec == WatchInit /\ [][WatchNext]_watchVars

-----------------------------------------------------------------------------
\* SpectatorPage: one of three views.
Shown == IF page.notFound THEN "not available" ELSE IF page.over THEN "results" ELSE "game"

Live == page.at = "here" /\ socket[page.sock].st = "open" /\ page.heard
AtRest == /\ owed = [state |-> 0, over |-> 0] /\ casts = <<>>
          /\ page.at = "here" /\ socket[page.sock].inbox = <<>>

\* Once the page has heard its socket it shows the table as it was when that
\* socket was admitted or later, whatever an earlier socket still receives;
\* and when nothing is under way it shows the table as it is, unless one
\* message overtook another or the room is a waiting room again.
WatchIsCurrent ==
  /\ page.heard => page.v >= socket[page.sock].since
  /\ Live /\ AtRest /\ ~crossed /\ match.st # "waiting" => page.v = match.v

\* --- what a spectator would expect, and does not hold ---

\* With nothing under way, a game that is over shows its results: a message
\* of the state that looks at the table late, or arrives late, hides them.
OverIsShown == Live /\ AtRest /\ match.st = "over" => Shown = "results"

\* A page that hears its socket shows the game: "not available" is for good.
AvailableIsShown == Live => Shown # "not available"
=============================================================================
