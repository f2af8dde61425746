--------------------------- MODULE SevenSpadeEngine ---------------------------
(***************************************************************************)
(* The authoritative rules engine, services/ws/game/engine.go: the deal,   *)
(* the legal moves of a hand, a face-up play, a face-down penalty, an Ace  *)
(* close, the dead-table sweep and the final scores.                       *)
(*                                                                         *)
(* The deck is scaled by its rank bounds (2, 7 and King in the code) and   *)
(* its number of suits; nothing in the rules depends on how many ranks lie *)
(* between them.  A card of the model carries the number of its copy, so   *)
(* that a set of cards stands for the code's slice of cards with           *)
(* repetitions; no rule looks at the copy, and the slice order is dropped. *)
(***************************************************************************)
EXTENDS Integers, FiniteSets

CONSTANTS
    PlayerCount,    \* cfg.PlayerCount
    DeckCount,      \* cfg.DeckCount
    Suits,          \* suits
    StartingSuit,   \* cfg.StartingSuit
    Two, Seven, King

ASSUME ConfigAssumption ==
    /\ PlayerCount \in Nat \ {0}
    /\ DeckCount \in Nat \ {0}
    /\ IsFiniteSet(Suits) /\ StartingSuit \in Suits
    /\ Two \in Nat \ {0} /\ Seven \in Nat /\ King \in Nat
    /\ Two <= Seven /\ Seven <= King

Ace == King + 1
Ranks == Two..Ace
Players == 0..(PlayerCount - 1)
Deck == [suit : Suits, rank : Ranks, copy : 1..DeckCount]
Methods == {"low", "high"}

\* The zero value of SuitSequence: a suit that has no entry in state.Board.
NoSequence == [low |-> 0, high |-> 0, stack |-> {}]
Sequence == [low : Nat, high : Nat, stack : SUBSET Deck]

VARIABLES
    hands,          \* state.Hands
    board,          \* state.Board
    faceDown,       \* state.FaceDown
    currentPlayer,  \* state.CurrentPlayer
    closed,         \* the suits mapped to true by state.Closed
    closeMethod     \* state.CloseMethod, "" while no Ace has closed a suit

vars == <<hands, board, faceDown, currentPlayer, closed, closeMethod>>

-----------------------------------------------------------------------------
(* Legal moves, for a board bd, closed suits cl and a locked method cm.    *)

Started(bd, s) == bd[s].low # 0

BoardIsEmpty(bd) == \A s \in Suits : ~Started(bd, s)

IsPlayable(bd, cl, card) ==
    /\ card.suit \notin cl
    /\ card.rank # Ace
    /\ LET sequence == bd[card.suit] IN
       \/ /\ ~Started(bd, card.suit)
          /\ card.rank = Seven
          /\ BoardIsEmpty(bd) => card.suit = StartingSuit
       \/ /\ Started(bd, card.suit)
          /\ \/ card.rank = sequence.low - 1
             \/ card.rank = sequence.high + 1
             \/ /\ DeckCount > 1
                /\ card.rank \in sequence.low..sequence.high

\* The ends at which a hand may close suit s with its Ace.
CloseOptions(bd, cl, cm, hand, s) ==
    { m \in Methods :
        /\ \E card \in hand : card.suit = s /\ card.rank = Ace
        /\ Started(bd, s) /\ s \notin cl
        /\ cm \in {"", m}
        /\ IF m = "low" THEN bd[s].low = Two ELSE bd[s].high = King }

HasLegalPlay(bd, cl, cm, hand) ==
    \/ \E card \in hand : IsPlayable(bd, cl, card)
    \/ \E s \in Suits : CloseOptions(bd, cl, cm, hand, s) # {}

\* A mutant of ApplyCardToSequence: the high end does not move.
ApplyBelowOnly(sequence, card) ==
    IF sequence.low = 0
    THEN [low |-> card.rank, high |-> card.rank, stack |-> {card}]
    ELSE [low   |-> IF card.rank < sequence.low THEN card.rank ELSE sequence.low,
          high  |-> sequence.high,
          stack |-> sequence.stack \cup {card}]

ApplyCardToSequence(sequence, card) ==
    IF sequence.low = 0
    THEN [low |-> card.rank, high |-> card.rank, stack |-> {card}]
    ELSE [low   |-> IF card.rank < sequence.low THEN card.rank ELSE sequence.low,
          high  |-> IF card.rank > sequence.high THEN card.rank ELSE sequence.high,
          stack |-> sequence.stack \cup {card}]

-----------------------------------------------------------------------------
(* The turn order and the end of the game, for hands hs.                   *)

IsGameOver(hs) == \A p \in Players : hs[p] = {}

Seat(current, offset) == (current + offset) % PlayerCount

\* Mutants of NextPlayerWithCards: the seat is not taken modulo the table, and
\* the search starts at the player who has just moved.
NextSeatUnwrapped(hs, current) ==
    IF IsGameOver(hs) THEN current ELSE current + 1

NextFromCurrent(hs, current) ==
    IF IsGameOver(hs) THEN current
    ELSE Seat(current,
              CHOOSE k \in 0..(PlayerCount - 1) :
                  /\ hs[Seat(current, k)] # {}
                  /\ \A j \in 0..(k - 1) : hs[Seat(current, j)] = {})

NextPlayerWithCards(hs, current) ==
    IF IsGameOver(hs) THEN current
    ELSE Seat(current,
              CHOOSE k \in 1..PlayerCount :
                  /\ hs[Seat(current, k)] # {}
                  /\ \A j \in 1..(k - 1) : hs[Seat(current, j)] = {})

\* Mutants of IsStalemate: an empty hand counts as one that can act, and an Ace
\* close does not count as an action.
StalemateOfFullTable(hs, bd, cl, cm) ==
    /\ ~IsGameOver(hs)
    /\ \A p \in Players : hs[p] # {} /\ ~HasLegalPlay(bd, cl, cm, hs[p])

StalemateOfPlays(hs, bd, cl, cm) ==
    /\ ~IsGameOver(hs)
    /\ \A p \in Players : \A card \in hs[p] : ~IsPlayable(bd, cl, card)

IsStalemate(hs, bd, cl, cm) ==
    /\ ~IsGameOver(hs)
    /\ \A p \in Players : ~HasLegalPlay(bd, cl, cm, hs[p])

\* Mutants of the sweep: the hands stay, it starts from the state before the
\* move, or the cards get lost.
SweptHandsKept(hs) == hs
SweptHandsBefore(hs) == hands
SweptPilesLost(fd, hs) == fd

\* finalizeStalemate.
SweptHands(hs) == [q \in Players |-> {}]
SweptPiles(fd, hs) == [q \in Players |-> fd[q] \cup hs[q]]

\* Every move ends here: the turn passes, and a table on which nobody can act
\* is swept into the face-down piles.
FinishMove(p, hs, fd, bd, cl, cm) ==
    /\ board' = bd
    /\ closed' = cl
    /\ closeMethod' = cm
    /\ currentPlayer' = NextPlayerWithCards(hs, p)
    /\ IF IsStalemate(hs, bd, cl, cm)
       THEN /\ hands' = SweptHands(hs)
            /\ faceDown' = SweptPiles(fd, hs)
       ELSE /\ hands' = hs
            /\ faceDown' = fd

Without(p, card) == [hands EXCEPT ![p] = @ \ {card}]

-----------------------------------------------------------------------------
\* The shuffled deck goes round the table one card at a time, so hand sizes
\* differ by at most one and the first seats get the extra cards.  The starter
\* holds the first 7 of the starting suit in deal order, any of its holders.
Init ==
    /\ \E owner \in [Deck -> Players] :
          /\ hands = [p \in Players |-> {card \in Deck : owner[card] = p}]
          /\ \A p \in Players :
                Cardinality(hands[p]) =
                    (Cardinality(Deck) + PlayerCount - 1 - p) \div PlayerCount
    /\ currentPlayer \in Players
    /\ \E card \in hands[currentPlayer] :
          card.suit = StartingSuit /\ card.rank = Seven
    /\ board = [s \in Suits |-> NoSequence]
    /\ faceDown = [p \in Players |-> {}]
    /\ closed = {}
    /\ closeMethod = ""

\* ApplyMove with faceDown = false.
PlayCard(p, card) ==
    /\ card \in hands[p]
    /\ IsPlayable(board, closed, card)
    /\ FinishMove(p, Without(p, card), faceDown,
                  [board EXCEPT ![card.suit] = ApplyCardToSequence(@, card)],
                  closed, closeMethod)

\* ApplyMove with faceDown = true.
PlaceFaceDown(p, card) ==
    /\ card \in hands[p]
    /\ ~HasLegalPlay(board, closed, closeMethod, hands[p])
    /\ FinishMove(p, Without(p, card),
                  [faceDown EXCEPT ![p] = @ \cup {card}],
                  board, closed, closeMethod)

\* A mutant of MethodFits: the locked method is not checked.
MethodUnchecked(m) == TRUE

MethodFits(m) == closeMethod \in {"", m}

\* ApplyAceClose: the Ace leaves the hand and is not put on the board.
AceClose(p, ace, m) ==
    /\ ace \in hands[p]
    /\ ace.rank = Ace
    /\ Started(board, ace.suit)
    /\ ace.suit \notin closed
    /\ IF m = "low" THEN board[ace.suit].low = Two ELSE board[ace.suit].high = King
    /\ MethodFits(m)
    /\ FinishMove(p, Without(p, ace), faceDown, board,
                  closed \cup {ace.suit},
                  IF closeMethod = "" THEN m ELSE closeMethod)

\* The room hands the engine a move of the player whose turn it is.
Move(p) ==
    /\ p = currentPlayer
    /\ \E card \in hands[p] :
          \/ PlayCard(p, card)
          \/ PlaceFaceDown(p, card)
          \/ \E m \in Methods : AceClose(p, card, m)

Next == \E p \in Players : Move(p)

\* The turn timer plays for a player who does not.
Spec == Init /\ [][Next]_vars /\ WF_vars(Next)

-----------------------------------------------------------------------------
(* What the bots may know (bot.go).                                        *)

Value(card) == <<card.suit, card.rank>>
Copies(cards, v) == Cardinality({card \in cards : Value(card) = v})

\* A mutant of KnownCopies: the bot forgets its own face-down pile.
KnownButPile(p, v) ==
      Copies(hands[p], v)
    + (IF Started(board, v[1]) /\ v[2] \in board[v[1]].low..board[v[1]].high
       THEN 1 ELSE 0)
    + (IF v[1] \in closed /\ v[2] = Ace THEN 1 ELSE 0)

\* knownCardCounts: one copy per rank between the ends of a sequence.
KnownCopies(p, v) ==
      Copies(hands[p], v) + Copies(faceDown[p], v)
    + (IF Started(board, v[1]) /\ v[2] \in board[v[1]].low..board[v[1]].high
       THEN 1 ELSE 0)
    + (IF v[1] \in closed /\ v[2] = Ace THEN 1 ELSE 0)

\* unknownCards: the copies of a card the bot cannot account for.
UnknownCopies(p, v) ==
    LET known == KnownCopies(p, v)
    IN  DeckCount - (IF known > DeckCount THEN DeckCount ELSE known)

-----------------------------------------------------------------------------
(* Properties.                                                             *)

TypeOK ==
    /\ hands \in [Players -> SUBSET Deck]
    /\ board \in [Suits -> Sequence]
    /\ faceDown \in [Players -> SUBSET Deck]
    /\ currentPlayer \in Players
    /\ closed \in SUBSET Suits
    /\ closeMethod \in Methods \cup {""}

\* A card lies in at most one place: a hand, a face-down pile, or the stack of
\* its own suit (ApplyMove moves it, cloneState and the sweep copy it).
OnePlace ==
    /\ \A p, q \in Players :
          /\ p # q => hands[p] \cap hands[q] = {}
          /\ p # q => faceDown[p] \cap faceDown[q] = {}
          /\ hands[p] \cap faceDown[q] = {}
          /\ \A s \in Suits : board[s].stack \cap (hands[p] \cup faceDown[q]) = {}
    /\ \A s \in Suits : \A card \in board[s].stack : card.suit = s

OnTable(card) ==
    \/ \E p \in Players : card \in hands[p] \cup faceDown[p]
    \/ card \in board[card.suit].stack

\* Nothing is lost either: the only card that leaves the table is one Ace of
\* each closed suit, so the final piles and the board account for the deck.
NothingLost ==
    \A s \in Suits :
        LET missing == {card \in Deck : card.suit = s /\ ~OnTable(card)} IN
        IF s \in closed THEN \E ace \in Deck : ace.rank = Ace /\ missing = {ace}
                        ELSE missing = {}

\* The two numbers the code keeps per suit, Low and High, describe its stacks:
\* every rank between them has been played, none outside, and 7 is one of them.
SequenceMatchesStack ==
    \A s \in Suits :
        IF Started(board, s)
        THEN /\ {card.rank : card \in board[s].stack} = board[s].low..board[s].high
             /\ Seven \in board[s].low..board[s].high
             /\ board[s].high <= King
        ELSE board[s] = NoSequence

\* Global consistency of the close method (docs/game-rules.md, "Ace Closing
\* Rule"): suits closed at different times were all closed at the locked end.
OneCloseMethod ==
    /\ (closed = {}) <=> (closeMethod = "")
    /\ \A s \in closed :
          /\ Started(board, s)
          /\ closeMethod = "low" => board[s].low = Two
          /\ closeMethod = "high" => board[s].high = King

\* The cards of a deck are all there and each in one place, whatever moves,
\* closes and sweeps were made (ApplyMove, ApplyAceClose, finalizeStalemate).
CardsSound == TypeOK /\ OnePlace /\ NothingLost

\* What the code keeps of the board is true of the cards on it: the ends of the
\* sequences and the way they were closed (applyCardToSequence, ApplyAceClose).
BoardSound == SequenceMatchesStack /\ OneCloseMethod

\* A game that is not over never waits on a player without cards, and is never
\* left on a dead table: somebody can still play or close (finalizeIfStalemate
\* runs after every kind of move).
TableIsLive ==
    ~IsGameOver(hands) =>
        /\ hands[currentPlayer] # {}
        /\ \E p \in Players : HasLegalPlay(board, closed, closeMethod, hands[p])

\* The turn order gives everyone a turn: hands that were dealt level stay level
\* (two hands never drift apart by more than the card dealt extra plus the turn
\* in progress).
HandsStayLevel ==
    \A p, q \in Players :
        Cardinality(hands[p]) <= Cardinality(hands[q]) + 2

\* The sweep takes only cards that had become worthless: when a move ends the
\* game, nothing it adds to a face-down pile could have been played or closed on
\* the board it leaves (finalizeStalemate, "equivalent to playing it out").
SweepIsFinal ==
    [][IsGameOver(hands') =>
         \A p \in Players :
             ~HasLegalPlay(board', closed', closeMethod', faceDown'[p] \ faceDown[p])]_vars

\* A bot's "unknown" cards are exactly those hidden from it: the opponents'
\* hands and face-down piles, and the extra copies of a closed Ace are not lost
\* (unknownCards: "only the counted known copies are subtracted").
UnknownIsHidden ==
    \A p \in Players : \A v \in Suits \X Ranks :
        UnknownCopies(p, v) =
            Copies(UNION {hands[q] \cup faceDown[q] : q \in Players \ {p}}, v)

\* Every game ends (each turn, played or timed out, uses up a card).
GameEnds == <>IsGameOver(hands)
=============================================================================
