------------------------------- MODULE Replay -------------------------------
(***************************************************************************)
(* The replay of a saved game in the web client (web/src/game/replay.ts):   *)
(* a second engine, in another language, that is given the hands as they    *)
(* were dealt and the recorded moves, and finds out by itself whose turn it *)
(* is and when the table was swept.  It takes every move as legal.          *)
(* reconstructAt folds the moves from the deal on each time it is called,   *)
(* so that what it shows after a move follows from what it showed before    *)
(* and the move: here it goes along with the game.  A record holds suit and *)
(* rank; a card of the model keeps the number of its copy.                  *)
(***************************************************************************)
EXTENDS SevenSpadeEngine

VARIABLE shown      \* ReplayState: hands, piles, rows of the board, turn

replayVars == <<vars, shown>>

\* The columns of a row that are filled; the two for the Aces are not among
\* them.  The fold reads the ends of a sequence back from its row.
Row(low, high) == {column \in Two..King : low <= column /\ column <= high}
LowOf(row)  == CHOOSE r \in row : \A other \in row : r <= other
HighOf(row) == CHOOSE r \in row : \A other \in row : r >= other

\* The first card of that suit and rank, if there is one.
RemoveCard(hand, card) ==
  LET same == {c \in hand : Value(c) = Value(card)}
  IN IF same = {} THEN hand ELSE hand \ {CHOOSE c \in same : TRUE}

\* Mutant: the search starts at the player who has moved.
NextShownFromMover(hs, mover) ==
  LET seats == {k \in 0..PlayerCount - 1 : hs[Seat(mover, k)] # {}}
  IN IF seats = {} THEN mover ELSE Seat(mover, LowOf(seats))

NextShown(hs, mover) ==
  LET seats == {k \in 1..PlayerCount : hs[Seat(mover, k)] # {}}
  IN IF seats = {} THEN mover ELSE Seat(mover, LowOf(seats))

\* A 7 opens a suit, the first of all that of the starting suit; a sequence
\* grows at its ends.
Extends(rows, cl, card) ==
  /\ card.rank # Ace /\ card.suit \notin cl
  /\ LET row == rows[card.suit]
     IN IF row = {} THEN /\ card.rank = Seven
                         /\ (\A s \in Suits : rows[s] = {}) => card.suit = StartingSuit
        ELSE card.rank \in {LowOf(row) - 1, HighOf(row) + 1}

\* At either end, whichever end the first Ace has chosen.
Closes(rows, cl, card) ==
  /\ card.rank = Ace /\ card.suit \notin cl
  /\ rows[card.suit] \cap {Two, King} # {}

\* Mutant: the second loop, over the Aces, is missing.
ShownDeadButForAces(hs, rows, cl) ==
  /\ \E p \in Players : hs[p] # {}
  /\ \A p \in Players : \A card \in hs[p] : ~Extends(rows, cl, card)

ShownDead(hs, rows, cl) ==
  /\ \E p \in Players : hs[p] # {}
  /\ \A p \in Players : \A card \in hs[p] : ~Extends(rows, cl, card) /\ ~Closes(rows, cl, card)

\* The end of every move: the turn passes before a dead table is swept.
Finished(p, hs, piles, rows, cl, method) ==
  LET dead == ShownDead(hs, rows, cl)
  IN [hands   |-> IF dead THEN [q \in Players |-> {}] ELSE hs,
      piles   |-> IF dead THEN [q \in Players |-> piles[q] \cup hs[q]] ELSE piles,
      rows    |-> rows, closed |-> cl, method |-> method,
      current |-> NextShown(hs, p)]

\* applyMoveToState.
Replayed(p, card, kind, direction) ==
  LET hs   == [shown.hands EXCEPT ![p] = RemoveCard(@, card)]
      row  == shown.rows[card.suit]
      grown == IF row = {} THEN Row(card.rank, card.rank)
               ELSE Row(IF card.rank < LowOf(row) THEN card.rank ELSE LowOf(row),
                        IF card.rank > HighOf(row) THEN card.rank ELSE HighOf(row))
  IN CASE kind = "ace_close" ->
            Finished(p, hs, shown.piles, shown.rows, shown.closed \cup {card.suit},
                     IF shown.method = "" THEN direction ELSE shown.method)
       [] kind = "play" ->
            Finished(p, hs, shown.piles, [shown.rows EXCEPT ![card.suit] = grown], shown.closed, shown.method)
       [] kind = "face_down" ->
            Finished(p, hs, [shown.piles EXCEPT ![p] = @ \cup {card}], shown.rows, shown.closed, shown.method)

-----------------------------------------------------------------------------
\* initialReplayState: the first seat with a 7 of the starting suit begins.
ReplayInit ==
  /\ Init
  /\ shown = [hands |-> hands, piles |-> [p \in Players |-> {}],
              rows |-> [s \in Suits |-> {}], closed |-> {}, method |-> "",
              current |-> LowOf({p \in Players :
                 \E card \in hands[p] : card.suit = StartingSuit /\ card.rank = Seven})]

\* A move of the game, and the replay of its record.
RecordedMove(p) ==
  /\ p = currentPlayer
  /\ \E card \in hands[p] :
        \/ PlayCard(p, card) /\ shown' = Replayed(p, card, "play", "")
        \/ PlaceFaceDown(p, card) /\ shown' = Replayed(p, card, "face_down", "")
        \/ \E m \in Methods : AceClose(p, card, m) /\ shown' = Replayed(p, card, "ace_close", m)

ReplayNext == \E p \in Players : RecordedMove(p)

ReplaySpec == ReplayInit /\ [][ReplayNext]_replayVars /\ WF_replayVars(ReplayNext)

-----------------------------------------------------------------------------
\* With one deck the replay shows the game that was played: the same board,
\* the same turn, and until the last move the same hands and piles; at the end
\* every player has the same cards, in hand or in the pile.
ReplayIsTheGame ==
  /\ \A s \in Suits : shown.rows[s] = IF Started(board, s) THEN board[s].low..board[s].high ELSE {}
  /\ shown.closed = closed /\ shown.method = closeMethod /\ shown.current = currentPlayer
  /\ ~IsGameOver(hands) => shown.hands = hands /\ shown.piles = faceDown
  /\ \A p \in Players : shown.hands[p] \cup shown.piles[p] = hands[p] \cup faceDown[p]

\* --- what a viewer would expect, and does not hold ---

\* The replay of a finished game ends with empty hands: an Ace that could only
\* close its suit at the end the others did not choose keeps the replay from
\* seeing that the table was dead.
ReplayEndsLikeTheGame == IsGameOver(hands) => \A p \in Players : shown.hands[p] = {}
=============================================================================
