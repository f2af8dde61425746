------------------------ MODULE SevenSpadeEngineProofs ------------------------
(***************************************************************************)
(* What holds of SevenSpadeEngine for every number of players and decks    *)
(* and every deck that ConfigAssumption allows, and of Replay and the      *)
(* bots' counting for every table and deck of one copy.                    *)
(***************************************************************************)
EXTENDS Replay, TLAPS, FiniteSetTheorems, WellFoundedInduction

-----------------------------------------------------------------------------
(* The turn order.                                                         *)

\* A non-empty set of natural numbers has a least element.
LEMMA LeastNatural ==
    ASSUME NEW S \in SUBSET Nat, S # {}
    PROVE  \E m \in S : \A k \in S : m <= k
<1>1. PICK m \in S : \A k \in S : ~(<<k, m>> \in OpToRel(<, Nat))
  BY NatLessThanWellFounded, WFMin
<1>2. \A k \in S : ~(k < m)
  BY <1>1 DEF OpToRel
<1> QED
  BY <1>2, SMT

\* Counting seats round the table stays at the table.
LEMMA SeatIsPlayer ==
    ASSUME NEW current \in Players, NEW k \in 1..PlayerCount
    PROVE  Seat(current, k) \in Players
BY ConfigAssumption, SMT DEF Seat, Players

\* Every seat is reached in at most one round.
LEMMA EverySeatIsReached ==
    ASSUME NEW current \in Players, NEW q \in Players
    PROVE  \E k \in 1..PlayerCount : Seat(current, k) = q
<1>1. current \in 0..(PlayerCount - 1) /\ q \in 0..(PlayerCount - 1)
      /\ PlayerCount \in Nat \ {0}
  BY ConfigAssumption DEF Players
<1>2. CASE current < q
  <2>1. q - current \in 1..PlayerCount /\ (current + (q - current)) % PlayerCount = q
    BY <1>1, <1>2, SMT
  <2> QED
    BY <2>1 DEF Seat
<1>3. CASE ~(current < q)
  <2>1. PlayerCount + q - current \in 1..PlayerCount
    BY <1>1, <1>3, SMT
  <2>2. (current + (PlayerCount + q - current)) = PlayerCount + q
    BY <1>1, SMT
  <2>3. (PlayerCount + q) % PlayerCount = q
    BY <1>1, SMT
  <2> QED
    BY <2>1, <2>2, <2>3 DEF Seat
<1> QED
  BY <1>2, <1>3

\* The search of NextPlayerWithCards succeeds: while somebody has cards, it
\* returns a player who has.
LEMMA NextPlayerHasCards ==
    ASSUME NEW hs, NEW current \in Players, ~IsGameOver(hs)
    PROVE  /\ NextPlayerWithCards(hs, current) \in Players
           /\ hs[NextPlayerWithCards(hs, current)] # {}
<1> DEFINE Holds(k) == hs[Seat(current, k)] # {}
           First(k) == Holds(k) /\ \A j \in 1..(k - 1) : hs[Seat(current, j)] = {}
           S == {k \in 1..PlayerCount : Holds(k)}
<1>1. S # {}
  <2>1. PICK q \in Players : hs[q] # {}
    BY DEF IsGameOver
  <2> QED
    BY <2>1, EverySeatIsReached
<1>2. S \in SUBSET Nat
  BY ConfigAssumption, SMT
<1> HIDE DEF S
<1>3. PICK m \in S : \A k \in S : m <= k
  BY <1>1, <1>2, LeastNatural
<1>4. m \in 1..PlayerCount /\ Holds(m)
  BY <1>3 DEF S
<1>5. \A j \in 1..(m - 1) : hs[Seat(current, j)] = {}
  <2> SUFFICES ASSUME NEW j \in 1..(m - 1), hs[Seat(current, j)] # {} PROVE FALSE
    OBVIOUS
  <2>1. j \in 1..PlayerCount /\ ~(m <= j)
    BY <1>4, ConfigAssumption, SMT
  <2>2. j \in S
    BY <2>1 DEF S
  <2> QED
    BY <1>3, <2>1, <2>2
<1>6. \E k \in 1..PlayerCount : First(k)
  BY <1>4, <1>5
<1>7. LET k == CHOOSE k \in 1..PlayerCount : First(k)
      IN  k \in 1..PlayerCount /\ First(k)
  BY <1>6
<1> QED
  BY <1>7, SeatIsPlayer DEF NextPlayerWithCards

\* Whoever moves, the turn goes to a player.
LEMMA NextPlayerIsPlayer ==
    ASSUME NEW hs, NEW current \in Players
    PROVE  NextPlayerWithCards(hs, current) \in Players
BY NextPlayerHasCards DEF NextPlayerWithCards

-----------------------------------------------------------------------------
(* Types.                                                                  *)

Hands == [Players -> SUBSET Deck]
Boards == [Suits -> Sequence]

LEMMA RanksAreNatural == Ranks \subseteq Nat \ {0}
BY ConfigAssumption, SMT DEF Ranks, Ace

\* A card of the deck has a suit and a rank.
LEMMA CardFields ==
    ASSUME NEW card \in Deck
    PROVE  card.suit \in Suits /\ card.rank \in Nat \ {0} /\ card.rank \in Ranks
BY RanksAreNatural DEF Deck

LEMMA ApplyCardType ==
    ASSUME NEW sequence \in Sequence, NEW card \in Deck
    PROVE  ApplyCardToSequence(sequence, card) \in Sequence
<1>1. card.rank \in Nat
  BY CardFields
<1> QED
  BY <1>1 DEF ApplyCardToSequence, Sequence

\* The end of a move leaves a well-typed table.
LEMMA FinishMoveType ==
    ASSUME NEW p \in Players, NEW hs \in Hands, NEW fd \in Hands,
           NEW bd \in Boards, NEW cl \in SUBSET Suits,
           NEW cm \in Methods \cup {""},
           FinishMove(p, hs, fd, bd, cl, cm)
    PROVE  TypeOK'
<1>1. currentPlayer' \in Players
  BY NextPlayerIsPlayer DEF FinishMove
<1>2. board' = bd /\ closed' = cl /\ closeMethod' = cm
  BY DEF FinishMove
<1>3. SweptHands(hs) \in Hands /\ SweptPiles(fd, hs) \in Hands
  BY DEF SweptHands, SweptPiles, Hands
<1>4. hands' \in Hands /\ faceDown' \in Hands
  BY <1>3 DEF FinishMove
<1> QED
  BY <1>1, <1>2, <1>4 DEF TypeOK, Hands, Boards

\* What a move hands to FinishMove is well-typed.
LEMMA WithoutType ==
    ASSUME TypeOK, NEW p \in Players, NEW card
    PROVE  Without(p, card) \in Hands
BY DEF TypeOK, Without, Hands

LEMMA PlayedBoardType ==
    ASSUME TypeOK, NEW card \in Deck
    PROVE  [board EXCEPT ![card.suit] = ApplyCardToSequence(@, card)] \in Boards
<1>1. board[card.suit] \in Sequence
  BY CardFields DEF TypeOK
<1>2. ApplyCardToSequence(board[card.suit], card) \in Sequence
  BY <1>1, ApplyCardType
<1> QED
  BY <1>2 DEF TypeOK, Boards

LEMMA FaceDownType ==
    ASSUME TypeOK, NEW p \in Players, NEW card \in Deck
    PROVE  [faceDown EXCEPT ![p] = @ \cup {card}] \in Hands
BY DEF TypeOK, Hands

\* A step of the game is one player's play, penalty or close.
LEMMA MoveCases ==
    ASSUME TypeOK, Next
    PROVE  \E p \in Players, card \in Deck :
              /\ card \in hands[p]
              /\ \/ PlayCard(p, card)
                 \/ PlaceFaceDown(p, card)
                 \/ \E m \in Methods : AceClose(p, card, m)
<1>1. \A p \in Players : hands[p] \subseteq Deck
  BY DEF TypeOK
<1> QED
  BY <1>1 DEF Next, Move

LEMMA InitType == Init => TypeOK
<1> SUFFICES ASSUME Init PROVE TypeOK
  OBVIOUS
<1>1. hands \in [Players -> SUBSET Deck]
  BY DEF Init
<1>2. NoSequence \in Sequence
  BY DEF NoSequence, Sequence
<1> QED
  BY <1>1, <1>2 DEF Init, TypeOK

LEMMA NextType == TypeOK /\ Next => TypeOK'
<1> SUFFICES ASSUME TypeOK, Next PROVE TypeOK'
  OBVIOUS
<1>1. PICK p \in Players, card \in Deck :
         /\ card \in hands[p]
         /\ \/ PlayCard(p, card)
            \/ PlaceFaceDown(p, card)
            \/ \E m \in Methods : AceClose(p, card, m)
  BY MoveCases
<1>2. card \in Deck /\ Without(p, card) \in Hands
  BY <1>1, WithoutType
<1>3. /\ faceDown \in Hands /\ board \in Boards
      /\ closed \in SUBSET Suits /\ closeMethod \in Methods \cup {""}
  BY DEF TypeOK, Hands, Boards
<1>4. CASE PlayCard(p, card)
  BY <1>2, <1>3, <1>4, PlayedBoardType, FinishMoveType DEF PlayCard
<1>5. CASE PlaceFaceDown(p, card)
  BY <1>2, <1>3, <1>5, FaceDownType, FinishMoveType DEF PlaceFaceDown
<1>6. ASSUME NEW m \in Methods, AceClose(p, card, m) PROVE TypeOK'
  <2>1. closed \cup {card.suit} \in SUBSET Suits
    BY <1>2, <1>3, CardFields
  <2>2. (IF closeMethod = "" THEN m ELSE closeMethod) \in Methods \cup {""}
    BY <1>3
  <2> QED
    BY <1>2, <1>3, <1>6, <2>1, <2>2, FinishMoveType DEF AceClose
<1> QED
  BY <1>1, <1>4, <1>5, <1>6

-----------------------------------------------------------------------------
(* Cards.                                                                  *)

\* OnePlace, of hands hs, piles fd and a board bd.
Apart(hs, fd, bd) ==
    /\ \A p, q \in Players :
          /\ p # q => hs[p] \cap hs[q] = {}
          /\ p # q => fd[p] \cap fd[q] = {}
          /\ hs[p] \cap fd[q] = {}
          /\ \A s \in Suits : bd[s].stack \cap (hs[p] \cup fd[q]) = {}
    /\ \A s \in Suits : \A card \in bd[s].stack : card.suit = s

\* The sweep moves each card to its holder's own pile.
LEMMA SweepApart ==
    ASSUME NEW hs, NEW fd, NEW bd, Apart(hs, fd, bd)
    PROVE  Apart(SweptHands(hs), SweptPiles(fd, hs), bd)
BY DEF Apart, SweptHands, SweptPiles

LEMMA FinishMoveApart ==
    ASSUME NEW p, NEW hs, NEW fd, NEW bd, NEW cl, NEW cm,
           FinishMove(p, hs, fd, bd, cl, cm), Apart(hs, fd, bd)
    PROVE  OnePlace'
<1>1. Apart(hands', faceDown', board')
  BY SweepApart DEF FinishMove
<1> QED
  BY <1>1 DEF Apart, OnePlace

LEMMA InitOnePlace == Init => OnePlace
<1> SUFFICES ASSUME Init PROVE OnePlace
  OBVIOUS
<1>1. PICK owner \in [Deck -> Players] :
         hands = [p \in Players |-> {card \in Deck : owner[card] = p}]
  BY DEF Init
<1>2. /\ \A s \in Suits : board[s].stack = {}
      /\ \A p \in Players : faceDown[p] = {}
  BY DEF Init, NoSequence
<1>3. \A p, q \in Players : p # q => hands[p] \cap hands[q] = {}
  BY <1>1
<1> QED
  BY <1>2, <1>3 DEF OnePlace

LEMMA NextOnePlace == TypeOK /\ OnePlace /\ Next => OnePlace'
<1> SUFFICES ASSUME TypeOK, OnePlace, Next PROVE OnePlace'
  OBVIOUS
<1>1. PICK p \in Players, card \in Deck :
         /\ card \in hands[p]
         /\ \/ PlayCard(p, card)
            \/ PlaceFaceDown(p, card)
            \/ \E m \in Methods : AceClose(p, card, m)
  BY MoveCases
<1>2. Apart(hands, faceDown, board)
  BY DEF Apart, OnePlace
<1>3. \A q \in Players : Without(p, card)[q] =
                             IF q = p THEN hands[p] \ {card} ELSE hands[q]
  BY DEF Without, TypeOK
<1>4. Apart(Without(p, card), faceDown, board)
  BY <1>2, <1>3 DEF Apart
<1>5. CASE PlayCard(p, card)
  <2> DEFINE bd == [board EXCEPT ![card.suit] = ApplyCardToSequence(@, card)]
  <2>1. card.suit \in Suits
    BY <1>1, CardFields
  <2>2. ApplyCardToSequence(board[card.suit], card).stack
          \subseteq board[card.suit].stack \cup {card}
    BY DEF ApplyCardToSequence
  <2>3. \A s \in Suits : bd[s] = IF s = card.suit
                                 THEN ApplyCardToSequence(board[s], card)
                                 ELSE board[s]
    BY DEF TypeOK
  <2>4. \A s \in Suits : bd[s].stack \subseteq board[s].stack \cup {card}
    BY <2>2, <2>3
  <2>5. \A s \in Suits : card \in bd[s].stack => s = card.suit
    BY <1>2, <2>3 DEF Apart
  <2>6. \A q, r \in Players : card \notin Without(p, card)[q] \cup faceDown[r]
    BY <1>1, <1>2, <1>3 DEF Apart
  <2> HIDE DEF bd
  <2>7. Apart(Without(p, card), faceDown, bd)
    BY <1>4, <2>4, <2>5, <2>6 DEF Apart
  <2> QED
    BY <1>5, <2>7, FinishMoveApart DEF PlayCard, bd
<1>6. CASE PlaceFaceDown(p, card)
  <2> DEFINE fd == [faceDown EXCEPT ![p] = @ \cup {card}]
  <2>1. \A q \in Players : fd[q] = IF q = p THEN faceDown[p] \cup {card}
                                            ELSE faceDown[q]
    BY DEF TypeOK
  <2>2. \A q \in Players : card \notin Without(p, card)[q]
    BY <1>1, <1>2, <1>3 DEF Apart
  <2>3. \A s \in Suits : card \notin board[s].stack
    BY <1>1, <1>2 DEF Apart
  <2>4. \A q \in Players : card \notin faceDown[q]
    BY <1>1, <1>2 DEF Apart
  <2> HIDE DEF fd
  <2>5. Apart(Without(p, card), fd, board)
    BY <1>4, <2>1, <2>2, <2>3, <2>4 DEF Apart
  <2> QED
    BY <1>6, <2>5, FinishMoveApart DEF PlaceFaceDown, fd
<1>7. ASSUME NEW m \in Methods, AceClose(p, card, m) PROVE OnePlace'
  BY <1>4, <1>7, FinishMoveApart DEF AceClose
<1> QED
  BY <1>1, <1>5, <1>6, <1>7

-----------------------------------------------------------------------------
(* The board.                                                              *)

\* SequenceMatchesStack, of one suit's sequence.
Matches(sequence) ==
    IF sequence.low # 0
    THEN /\ {card.rank : card \in sequence.stack} = sequence.low..sequence.high
         /\ Seven \in sequence.low..sequence.high
         /\ sequence.high <= King
    ELSE sequence = NoSequence

\* A legal play extends a sequence at an end, repeats a rank of it, or starts
\* it with its 7.
LEMMA PlayKeepsMatch ==
    ASSUME TypeOK, SequenceMatchesStack, NEW card \in Deck,
           IsPlayable(board, closed, card)
    PROVE  Matches(ApplyCardToSequence(board[card.suit], card))
<1> DEFINE old == board[card.suit]
           new == ApplyCardToSequence(old, card)
<1>1. /\ card.suit \in Suits /\ old \in Sequence
      /\ card.rank \in Nat \ {0} /\ card.rank <= King
      /\ Seven \in Nat /\ Seven <= King /\ Two \in Nat \ {0} /\ King \in Nat
      /\ Seven >= Two
  <2>1. card.suit \in Suits /\ card.rank \in Ranks /\ card.rank # Ace
    BY CardFields DEF IsPlayable
  <2>2. old \in Sequence
    BY <2>1 DEF TypeOK
  <2>3. /\ card.rank \in Nat \ {0} /\ card.rank <= King
        /\ Seven \in Nat /\ Seven <= King /\ Two \in Nat \ {0} /\ King \in Nat
        /\ Seven >= Two
    BY <2>1, ConfigAssumption, SMT DEF Ranks, Ace
  <2> QED
    BY <2>1, <2>2, <2>3
<1>2. old.low \in Nat /\ old.high \in Nat
  BY <1>1 DEF Sequence
<1>3. CASE old.low = 0
  <2>1. card.rank = Seven
    BY <1>3 DEF IsPlayable, Started
  <2>2. new = [low |-> Seven, high |-> Seven, stack |-> {card}]
    BY <1>3, <2>1 DEF ApplyCardToSequence
  <2>3. {c.rank : c \in {card}} = {Seven}
    BY <2>1
  <2>4. Seven # 0 /\ Seven..Seven = {Seven}
    BY <1>1, SMT
  <2> QED
    BY <1>1, <2>2, <2>3, <2>4 DEF Matches
<1>4. CASE old.low # 0
  <2>1. /\ {c.rank : c \in old.stack} = old.low..old.high
        /\ Seven \in old.low..old.high
        /\ old.high <= King
    <3>1. Matches(old)
      BY <1>1 DEF SequenceMatchesStack, Started, Matches
    <3> QED
      BY <1>4, <3>1 DEF Matches
  <2>2. \/ card.rank = old.low - 1
        \/ card.rank = old.high + 1
        \/ card.rank \in old.low..old.high
    BY <1>4 DEF IsPlayable, Started
  <2>3. /\ new.low = IF card.rank < old.low THEN card.rank ELSE old.low
        /\ new.high = IF card.rank > old.high THEN card.rank ELSE old.high
        /\ new.stack = old.stack \cup {card}
    BY <1>4 DEF ApplyCardToSequence
  <2>4. {c.rank : c \in new.stack} = (old.low..old.high) \cup {card.rank}
    BY <2>1, <2>3
  <2>5. (old.low..old.high) \cup {card.rank} = new.low..new.high
    <3>1. CASE card.rank = old.low - 1
      BY <1>1, <1>2, <2>1, <2>3, <3>1, SMT
    <3>2. CASE card.rank = old.high + 1
      BY <1>1, <1>2, <2>1, <2>3, <3>2, SMT
    <3>3. CASE card.rank \in old.low..old.high
      BY <1>1, <1>2, <2>1, <2>3, <3>3, SMT
    <3> QED
      BY <2>2, <3>1, <3>2, <3>3
  <2>6. Seven \in new.low..new.high /\ new.high <= King /\ new.low # 0
    BY <1>1, <1>2, <1>4, <2>1, <2>3, SMT
  <2> QED
    BY <2>4, <2>5, <2>6 DEF Matches
<1> QED
  BY <1>3, <1>4

LEMMA InitMatches == Init => SequenceMatchesStack
<1> SUFFICES ASSUME Init PROVE SequenceMatchesStack
  OBVIOUS
<1>1. \A s \in Suits : board[s] = NoSequence
  BY DEF Init
<1>2. NoSequence.low = 0
  BY DEF NoSequence
<1> QED
  BY <1>1, <1>2 DEF SequenceMatchesStack, Started

LEMMA NextMatches == TypeOK /\ SequenceMatchesStack /\ Next => SequenceMatchesStack'
<1> SUFFICES ASSUME TypeOK, SequenceMatchesStack, Next PROVE SequenceMatchesStack'
  OBVIOUS
<1>1. PICK p \in Players, card \in Deck :
         /\ card \in hands[p]
         /\ \/ PlayCard(p, card)
            \/ PlaceFaceDown(p, card)
            \/ \E m \in Methods : AceClose(p, card, m)
  BY MoveCases
<1>2. \A s \in Suits : Matches(board[s])
  BY DEF SequenceMatchesStack, Started, Matches
<1>3. SUFFICES \A s \in Suits : Matches(board'[s])
  BY DEF SequenceMatchesStack, Started, Matches
<1>4. CASE PlayCard(p, card)
  <2>1. board' = [board EXCEPT ![card.suit] = ApplyCardToSequence(@, card)]
    BY <1>4 DEF PlayCard, FinishMove
  <2>2. Matches(ApplyCardToSequence(board[card.suit], card))
    BY <1>4, PlayKeepsMatch DEF PlayCard
  <2>3. \A s \in Suits : board'[s] = IF s = card.suit
                                     THEN ApplyCardToSequence(board[s], card)
                                     ELSE board[s]
    BY <2>1 DEF TypeOK
  <2> QED
    BY <1>2, <2>2, <2>3
<1>5. CASE PlaceFaceDown(p, card)
  BY <1>2, <1>5 DEF PlaceFaceDown, FinishMove
<1>6. ASSUME NEW m \in Methods, AceClose(p, card, m)
      PROVE  \A s \in Suits : Matches(board'[s])
  BY <1>2, <1>6 DEF AceClose, FinishMove
<1> QED
  BY <1>1, <1>4, <1>5, <1>6

LEMMA InitOneMethod == Init => OneCloseMethod
BY DEF Init, OneCloseMethod

\* A closed suit is never played on again, so its end stays where it was closed.
LEMMA NextOneMethod == TypeOK /\ OneCloseMethod /\ Next => OneCloseMethod'
<1> SUFFICES ASSUME TypeOK, OneCloseMethod, Next PROVE OneCloseMethod'
  OBVIOUS
<1>1. PICK p \in Players, card \in Deck :
         /\ card \in hands[p]
         /\ \/ PlayCard(p, card)
            \/ PlaceFaceDown(p, card)
            \/ \E m \in Methods : AceClose(p, card, m)
  BY MoveCases
<1>2. closed \in SUBSET Suits /\ board \in [Suits -> Sequence]
  BY DEF TypeOK
<1>3. CASE PlayCard(p, card)
  <2>1. /\ board' = [board EXCEPT ![card.suit] = ApplyCardToSequence(@, card)]
        /\ closed' = closed /\ closeMethod' = closeMethod
        /\ card.suit \notin closed
    BY <1>3 DEF PlayCard, FinishMove, IsPlayable
  <2>2. \A s \in closed : board'[s] = board[s]
    BY <1>2, <2>1
  <2> QED
    BY <2>1, <2>2 DEF OneCloseMethod, Started
<1>4. CASE PlaceFaceDown(p, card)
  BY <1>4 DEF PlaceFaceDown, FinishMove, OneCloseMethod, Started
<1>5. ASSUME NEW m \in Methods, AceClose(p, card, m) PROVE OneCloseMethod'
  <2>1. /\ board' = board /\ closed' = closed \cup {card.suit}
        /\ closeMethod' = IF closeMethod = "" THEN m ELSE closeMethod
        /\ Started(board, card.suit)
        /\ IF m = "low" THEN board[card.suit].low = Two
                        ELSE board[card.suit].high = King
        /\ closeMethod \in {"", m}
    BY <1>5 DEF AceClose, FinishMove, MethodFits
  <2>2. closeMethod' = m /\ m \in {"low", "high"}
    BY <2>1 DEF Methods
  <2>3. \A s \in closed : closeMethod = m
    BY <2>1 DEF OneCloseMethod
  <2> QED
    BY <2>1, <2>2, <2>3 DEF OneCloseMethod, Started
<1> QED
  BY <1>1, <1>3, <1>4, <1>5

-----------------------------------------------------------------------------
(* The table.                                                              *)

LEMMA InitLive == Init => TableIsLive
<1> SUFFICES ASSUME Init PROVE TableIsLive
  OBVIOUS
<1>1. currentPlayer \in Players /\ closed = {}
  BY DEF Init
<1>2. PICK card \in hands[currentPlayer] :
         card.suit = StartingSuit /\ card.rank = Seven
  BY DEF Init
<1>3. \A s \in Suits : ~Started(board, s)
  BY DEF Init, Started, NoSequence
<1>4. Seven # Ace
  BY ConfigAssumption, SMT DEF Ace
<1>5. IsPlayable(board, closed, card)
  BY <1>1, <1>2, <1>3, <1>4, ConfigAssumption DEF IsPlayable
<1>6. HasLegalPlay(board, closed, closeMethod, hands[currentPlayer])
  BY <1>5 DEF HasLegalPlay
<1> QED
  BY <1>1, <1>2, <1>6 DEF TableIsLive

\* Every move ends by passing the turn to a player with cards, or with the sweep
\* of a table on which nobody can act.
LEMMA FinishMoveLive ==
    ASSUME NEW p \in Players, NEW hs, NEW fd, NEW bd, NEW cl, NEW cm,
           FinishMove(p, hs, fd, bd, cl, cm)
    PROVE  TableIsLive'
<1>1. CASE IsStalemate(hs, bd, cl, cm)
  <2>1. \A q \in Players : hands'[q] = {}
    BY <1>1 DEF FinishMove, SweptHands
  <2> QED
    BY <2>1 DEF TableIsLive, IsGameOver
<1>2. CASE ~IsStalemate(hs, bd, cl, cm)
  <2>1. /\ hands' = hs /\ board' = bd /\ closed' = cl /\ closeMethod' = cm
        /\ currentPlayer' = NextPlayerWithCards(hs, p)
    BY <1>2 DEF FinishMove
  <2>2. ~IsGameOver(hs) =>
          /\ hs[NextPlayerWithCards(hs, p)] # {}
          /\ \E q \in Players : HasLegalPlay(bd, cl, cm, hs[q])
    BY <1>2, NextPlayerHasCards DEF IsStalemate
  <2> QED
    BY <2>1, <2>2 DEF TableIsLive
<1> QED
  BY <1>1, <1>2

LEMMA NextLive == TypeOK /\ Next => TableIsLive'
<1> SUFFICES ASSUME TypeOK, Next PROVE TableIsLive'
  OBVIOUS
<1>1. PICK p \in Players, card \in Deck :
         /\ card \in hands[p]
         /\ \/ PlayCard(p, card)
            \/ PlaceFaceDown(p, card)
            \/ \E m \in Methods : AceClose(p, card, m)
  BY MoveCases
<1> QED
  BY <1>1, FinishMoveLive DEF PlayCard, PlaceFaceDown, AceClose

\* A hand with a legal play has it in one of its halves.
LEMMA LegalPlayOfHalf ==
    ASSUME NEW bd, NEW cl, NEW cm, NEW X, NEW Y,
           ~HasLegalPlay(bd, cl, cm, X), ~HasLegalPlay(bd, cl, cm, Y)
    PROVE  \A Z \in SUBSET (X \cup Y) : ~HasLegalPlay(bd, cl, cm, Z)
BY DEF HasLegalPlay, CloseOptions

LEMMA EmptyHandIsStuck ==
    ASSUME NEW bd, NEW cl, NEW cm
    PROVE  ~HasLegalPlay(bd, cl, cm, {})
BY DEF HasLegalPlay, CloseOptions

\* A move whose own card is unplayable sweeps nothing playable after it.
LEMMA FinishMoveSweep ==
    ASSUME NEW p, NEW hs, NEW fd, NEW bd, NEW cl, NEW cm,
           FinishMove(p, hs, fd, bd, cl, cm), IsGameOver(hands'),
           \A q \in Players : ~HasLegalPlay(bd, cl, cm, fd[q] \ faceDown[q])
    PROVE  \A q \in Players :
              ~HasLegalPlay(board', closed', closeMethod', faceDown'[q] \ faceDown[q])
<1>1. board' = bd /\ closed' = cl /\ closeMethod' = cm
  BY DEF FinishMove
<1>2. CASE IsStalemate(hs, bd, cl, cm)
  <2> TAKE q \in Players
  <2>1. faceDown'[q] = fd[q] \cup hs[q]
    BY <1>2 DEF FinishMove, SweptPiles
  <2>2. ~HasLegalPlay(bd, cl, cm, hs[q])
    BY <1>2 DEF IsStalemate
  <2>3. ~HasLegalPlay(bd, cl, cm, fd[q] \ faceDown[q])
    OBVIOUS
  <2>4. faceDown'[q] \ faceDown[q] \in SUBSET (hs[q] \cup (fd[q] \ faceDown[q]))
    BY <2>1
  <2> QED
    BY <1>1, <2>2, <2>3, <2>4, LegalPlayOfHalf
<1>3. CASE ~IsStalemate(hs, bd, cl, cm)
  BY <1>1, <1>3 DEF FinishMove
<1> QED
  BY <1>2, <1>3

LEMMA NextSweep ==
    ASSUME TypeOK, Next, IsGameOver(hands')
    PROVE  \A q \in Players :
              ~HasLegalPlay(board', closed', closeMethod', faceDown'[q] \ faceDown[q])
<1>1. PICK p \in Players, card \in Deck :
         /\ card \in hands[p]
         /\ \/ PlayCard(p, card)
            \/ PlaceFaceDown(p, card)
            \/ \E m \in Methods : AceClose(p, card, m)
  BY MoveCases
<1>2. \A bd, cl, cm : \A q \in Players :
         ~HasLegalPlay(bd, cl, cm, faceDown[q] \ faceDown[q])
  BY EmptyHandIsStuck
<1>3. CASE PlayCard(p, card)
  BY <1>2, <1>3, FinishMoveSweep DEF PlayCard
<1>4. CASE PlaceFaceDown(p, card)
  <2> DEFINE fd == [faceDown EXCEPT ![p] = @ \cup {card}]
  <2>1. /\ FinishMove(p, Without(p, card), fd, board, closed, closeMethod)
        /\ ~HasLegalPlay(board, closed, closeMethod, hands[p])
    BY <1>4 DEF PlaceFaceDown
  <2>2. \A q \in Players : fd[q] \ faceDown[q] \in SUBSET (hands[p] \cup {})
    BY <1>1 DEF TypeOK
  <2>3. \A q \in Players :
           ~HasLegalPlay(board, closed, closeMethod, fd[q] \ faceDown[q])
    BY <2>1, <2>2, EmptyHandIsStuck, LegalPlayOfHalf
  <2> HIDE DEF fd
  <2> QED
    BY <2>1, <2>3, FinishMoveSweep
<1>5. ASSUME NEW m \in Methods, AceClose(p, card, m)
      PROVE  \A q \in Players :
              ~HasLegalPlay(board', closed', closeMethod', faceDown'[q] \ faceDown[q])
  BY <1>2, <1>5, FinishMoveSweep DEF AceClose
<1> QED
  BY <1>1, <1>3, <1>4, <1>5

-----------------------------------------------------------------------------
(* The deck.                                                               *)

\* OnTable, of hands hs, piles fd and a board bd.
Lies(hs, fd, bd, card) ==
    \/ \E p \in Players : card \in hs[p] \cup fd[p]
    \/ card \in bd[card.suit].stack

LEMMA FinishMoveLies ==
    ASSUME NEW p, NEW hs, NEW fd, NEW bd, NEW cl, NEW cm,
           FinishMove(p, hs, fd, bd, cl, cm)
    PROVE  \A c \in Deck : OnTable(c)' <=> Lies(hs, fd, bd, c)
<1>1. \A c : Lies(SweptHands(hs), SweptPiles(fd, hs), bd, c) <=> Lies(hs, fd, bd, c)
  BY DEF Lies, SweptHands, SweptPiles
<1>2. \A c \in Deck : OnTable(c)' <=> Lies(hands', faceDown', board', c)
  BY DEF OnTable, Lies
<1> QED
  BY <1>1, <1>2 DEF FinishMove

LEMMA InitNothingLost == Init => NothingLost
<1> SUFFICES ASSUME Init PROVE NothingLost
  OBVIOUS
<1>1. PICK owner \in [Deck -> Players] :
         hands = [p \in Players |-> {card \in Deck : owner[card] = p}]
  BY DEF Init
<1>2. \A c \in Deck : OnTable(c)
  BY <1>1 DEF OnTable
<1>3. closed = {}
  BY DEF Init
<1> QED
  BY <1>2, <1>3 DEF NothingLost

\* A play and a penalty keep every card on the table, a close takes one Ace off,
\* which lay in the closing player's hand and nowhere else.
LEMMA NextNothingLost ==
    TypeOK /\ OnePlace /\ SequenceMatchesStack /\ NothingLost /\ Next
        => NothingLost'
<1> SUFFICES ASSUME TypeOK, OnePlace, SequenceMatchesStack, NothingLost, Next
             PROVE  NothingLost'
  OBVIOUS
<1>1. PICK p \in Players, card \in Deck :
         /\ card \in hands[p]
         /\ \/ PlayCard(p, card)
            \/ PlaceFaceDown(p, card)
            \/ \E m \in Methods : AceClose(p, card, m)
  BY MoveCases
<1>2. \A q \in Players : Without(p, card)[q] =
                             IF q = p THEN hands[p] \ {card} ELSE hands[q]
  BY DEF Without, TypeOK
<1>3. \A c \in Deck : OnTable(c) <=> Lies(hands, faceDown, board, c)
  BY DEF OnTable, Lies
<1>4. ASSUME closed' = closed, \A c \in Deck : OnTable(c)' <=> OnTable(c)
      PROVE  NothingLost'
  BY <1>4 DEF NothingLost
<1>5. CASE PlayCard(p, card)
  <2> DEFINE bd == [board EXCEPT ![card.suit] = ApplyCardToSequence(@, card)]
  <2>1. card.suit \in Suits
    BY CardFields
  <2>2. ApplyCardToSequence(board[card.suit], card).stack
          = board[card.suit].stack \cup {card}
    BY <2>1 DEF ApplyCardToSequence, SequenceMatchesStack, Started, NoSequence
  <2>3. \A s \in Suits : bd[s].stack = IF s = card.suit
                                       THEN board[s].stack \cup {card}
                                       ELSE board[s].stack
    BY <2>2 DEF TypeOK
  <2>4. \A c \in Deck : c.suit \in Suits
    BY CardFields
  <2> HIDE DEF bd
  <2>5. \A c \in Deck : Lies(Without(p, card), faceDown, bd, c)
                          <=> Lies(hands, faceDown, board, c)
    BY <1>1, <1>2, <2>1, <2>3, <2>4 DEF Lies
  <2>6. FinishMove(p, Without(p, card), faceDown, bd, closed, closeMethod)
    BY <1>5 DEF PlayCard, bd
  <2>7. closed' = closed
    BY <2>6 DEF FinishMove
  <2> QED
    BY <1>3, <1>4, <2>5, <2>6, <2>7, FinishMoveLies
<1>6. CASE PlaceFaceDown(p, card)
  <2> DEFINE fd == [faceDown EXCEPT ![p] = @ \cup {card}]
  <2>1. \A q \in Players : fd[q] = IF q = p THEN faceDown[p] \cup {card}
                                            ELSE faceDown[q]
    BY DEF TypeOK
  <2> HIDE DEF fd
  <2>2. \A c \in Deck : Lies(Without(p, card), fd, board, c)
                          <=> Lies(hands, faceDown, board, c)
    BY <1>1, <1>2, <2>1 DEF Lies
  <2>3. FinishMove(p, Without(p, card), fd, board, closed, closeMethod)
    BY <1>6 DEF PlaceFaceDown, fd
  <2>4. closed' = closed
    BY <2>3 DEF FinishMove
  <2> QED
    BY <1>3, <1>4, <2>2, <2>3, <2>4, FinishMoveLies
<1>7. ASSUME NEW m \in Methods, AceClose(p, card, m) PROVE NothingLost'
  <2>1. card.suit \in Suits /\ card.suit \notin closed /\ card.rank = Ace
    BY <1>7, CardFields DEF AceClose
  <2>2. /\ FinishMove(p, Without(p, card), faceDown, board,
                      closed \cup {card.suit},
                      IF closeMethod = "" THEN m ELSE closeMethod)
    BY <1>7 DEF AceClose
  <2>3. closed' = closed \cup {card.suit}
    BY <2>2 DEF FinishMove
  <2>4. /\ \A q \in Players : card \notin Without(p, card)[q] \cup faceDown[q]
        /\ card \notin board[card.suit].stack
    BY <1>1, <1>2, <2>1 DEF OnePlace
  <2>5. \A c \in Deck : Lies(Without(p, card), faceDown, board, c)
                          <=> OnTable(c) /\ c # card
    BY <1>1, <1>2, <1>3, <2>4 DEF Lies
  <2>6. \A c \in Deck : OnTable(c)' <=> OnTable(c) /\ c # card
    BY <2>2, <2>5, FinishMoveLies
  <2> DEFINE missing(s) == {c \in Deck : c.suit = s /\ ~OnTable(c)}
             missingNext(s) == {c \in Deck : c.suit = s /\ ~OnTable(c)'}
  <2>7. missing(card.suit) = {}
    BY <2>1 DEF NothingLost
  <2>8. missingNext(card.suit) = {card}
    BY <2>6, <2>7
  <2>9. \A s \in Suits \ {card.suit} : missingNext(s) = missing(s)
    BY <2>6
  <2>10. \A s \in Suits :
            IF s \in closed' THEN \E ace \in Deck : ace.rank = Ace /\ missingNext(s) = {ace}
                             ELSE missingNext(s) = {}
    <3> TAKE s \in Suits
    <3>1. CASE s = card.suit
      BY <2>1, <2>3, <2>8, <3>1
    <3>2. CASE s # card.suit
      BY <2>3, <2>9, <3>2 DEF NothingLost
    <3> QED
      BY <3>1, <3>2
  <2> QED
    BY <2>10 DEF NothingLost
<1> QED
  BY <1>1, <1>5, <1>6, <1>7

-----------------------------------------------------------------------------
(* The sizes of the hands.                                                 *)

\* A card is a suit, a rank and a copy, of which there are finitely many.
LEMMA DeckIsFinite == IsFiniteSet(Deck)
<1> DEFINE Copy == 1..DeckCount
           Triples == Suits \X (Ranks \X Copy)
           f == [card \in Deck |-> <<card.suit, <<card.rank, card.copy>>>>]
<1>1. IsFiniteSet(Ranks) /\ IsFiniteSet(Copy) /\ IsFiniteSet(Suits)
  BY FS_Interval, ConfigAssumption, SMT DEF Ranks, Ace
<1>2. IsFiniteSet(Triples)
  <2>1. IsFiniteSet(Ranks \X Copy)
    BY <1>1, FS_Product
  <2> QED
    BY <1>1, <2>1, FS_Product
<1>3. f \in [Deck -> Triples]
  BY DEF Deck
<1>4. \A a, b \in Deck : f[a] = f[b] => a = b
  BY DEF Deck
<1>5. f \in Injection(Deck, Triples)
  BY <1>3, <1>4 DEF Injection, IsInjective
<1> QED
  BY <1>2, <1>5, FS_Injection

\* So a hand or a pile has a size.
LEMMA HandIsFinite ==
    ASSUME NEW hand \in SUBSET Deck
    PROVE  IsFiniteSet(hand) /\ Cardinality(hand) \in Nat
BY DeckIsFinite, FS_Subset, FS_CardinalityType

\* The seats counted from one of them are all different.
LEMMA SeatsApart ==
    ASSUME NEW s \in Players, NEW i \in 0..(PlayerCount - 1), NEW j \in 0..(PlayerCount - 1),
           i # j
    PROVE  Seat(s, i) # Seat(s, j)
<1>1. s \in 0..(PlayerCount - 1) /\ PlayerCount \in Nat \ {0}
  BY ConfigAssumption DEF Players
<1>2. \A n \in 0..(PlayerCount - 1) :
         (s + n) % PlayerCount = IF s + n < PlayerCount THEN s + n ELSE s + n - PlayerCount
  BY <1>1, SMT
<1> QED
  BY <1>1, <1>2, SMT DEF Seat

\* One seat further, and round the table.
LEMMA SeatAfter ==
    ASSUME NEW s \in Players, NEW k \in 0..(PlayerCount - 1)
    PROVE  /\ Seat(s, k) \in Players /\ Seat(s, 0) = s
           /\ Seat(Seat(s, k), 1) = IF k = PlayerCount - 1 THEN s ELSE Seat(s, k + 1)
<1>1. s \in 0..(PlayerCount - 1) /\ PlayerCount \in Nat \ {0}
  BY ConfigAssumption DEF Players
<1>2. \A n \in 0..PlayerCount :
         (s + n) % PlayerCount = IF s + n < PlayerCount THEN s + n ELSE s + n - PlayerCount
  BY <1>1, SMT
<1>3. \A t \in 0..(PlayerCount - 1) :
         (t + 1) % PlayerCount = IF t + 1 < PlayerCount THEN t + 1 ELSE 0
  BY <1>1, SMT
<1>4. Seat(s, k) \in 0..(PlayerCount - 1)
  BY <1>1, <1>2, SMT DEF Seat
<1>5. Seat(s, 0) = s /\ Seat(s, k) \in Players
  BY <1>1, <1>2, <1>4, SMT DEF Seat, Players
<1>6. Seat(Seat(s, k), 1) =
         IF Seat(s, k) + 1 < PlayerCount THEN Seat(s, k) + 1 ELSE 0
  BY <1>3, <1>4 DEF Seat
<1>7. Seat(s, k) = IF s + k < PlayerCount THEN s + k ELSE s + k - PlayerCount
  BY <1>1, <1>2, SMT DEF Seat
<1>8. CASE k = PlayerCount - 1
  BY <1>1, <1>5, <1>6, <1>7, <1>8, SMT
<1>9. CASE k # PlayerCount - 1
  <2>1. Seat(s, k + 1) =
           IF s + k + 1 < PlayerCount THEN s + k + 1 ELSE s + k + 1 - PlayerCount
    BY <1>1, <1>2, <1>9, SMT DEF Seat
  <2> QED
    BY <1>1, <1>5, <1>6, <1>7, <1>9, <2>1, SMT
<1> QED
  BY <1>8, <1>9

\* Every seat is one of those counted from s.
LEMMA SeatsReach ==
    ASSUME NEW s \in Players, NEW q \in Players
    PROVE  \E j \in 0..(PlayerCount - 1) : Seat(s, j) = q
<1>1. PICK k \in 1..PlayerCount : Seat(s, k) = q
  BY EverySeatIsReached
<1>2. PlayerCount \in Nat \ {0} /\ s \in 0..(PlayerCount - 1)
  BY ConfigAssumption DEF Players
<1>3. CASE k = PlayerCount
  <2>1. (s + PlayerCount) % PlayerCount = s
    BY <1>2, SMT
  <2>2. q = s
    BY <1>1, <1>3, <2>1 DEF Seat
  <2> QED
    BY <1>2, <2>2, SeatAfter, SMT
<1>4. CASE k # PlayerCount
  BY <1>1, <1>2, <1>4, SMT
<1> QED
  BY <1>3, <1>4

\* While every hand has cards, the turn goes to the next seat.
LEMMA NextIsNextSeat ==
    ASSUME NEW hs, NEW c \in Players, \A q \in Players : hs[q] # {}
    PROVE  NextPlayerWithCards(hs, c) = Seat(c, 1)
<1> DEFINE First(k) == /\ hs[Seat(c, k)] # {}
                       /\ \A j \in 1..(k - 1) : hs[Seat(c, j)] = {}
<1>1. ~IsGameOver(hs)
  BY DEF IsGameOver
<1>2. 1 \in 1..PlayerCount /\ 1..(1 - 1) = {}
  BY ConfigAssumption, SMT
<1>3. First(1)
  BY <1>2, SeatIsPlayer
<1>4. \A k \in 1..PlayerCount : First(k) => k = 1
  <2> SUFFICES ASSUME NEW k \in 1..PlayerCount, First(k), k # 1 PROVE FALSE
    OBVIOUS
  <2>1. 1 \in 1..(k - 1)
    BY ConfigAssumption, SMT
  <2>2. hs[Seat(c, 1)] = {}
    BY <2>1
  <2> QED
    BY <1>2, <2>2, SeatIsPlayer
<1>5. (CHOOSE k \in 1..PlayerCount : First(k)) = 1
  <2> HIDE DEF First
  <2> QED
    BY <1>2, <1>3, <1>4
<1> QED
  BY <1>1, <1>5 DEF NextPlayerWithCards

\* Player s began the round, k players have had their turn in it, and each hand
\* has m cards, or one fewer for a turn taken, or one more from the deal.
InRound(hs, c, s, k, m) ==
    /\ c = Seat(s, k)
    /\ \A j \in 0..(PlayerCount - 1) :
          Cardinality(hs[Seat(s, j)]) \in IF j < k THEN (m - 1)..m ELSE m..(m + 1)

AlmostEmpty(hs) == \A p \in Players : Cardinality(hs[p]) \in 0..2

\* Rounds are played in full until the first hand is empty; by then no hand has
\* more than two cards.
LevelInv ==
    \/ AlmostEmpty(hands)
    \/ \E s \in Players, k \in 0..(PlayerCount - 1), m \in Nat :
          InRound(hands, currentPlayer, s, k, m)

\* In a round the sizes lie within two of each other.
LEMMA LevelHands == LevelInv => HandsStayLevel
<1>1. CASE AlmostEmpty(hands)
  BY <1>1, SMT DEF AlmostEmpty, HandsStayLevel
<1>2. CASE \E s \in Players, k \in 0..(PlayerCount - 1), m \in Nat :
              InRound(hands, currentPlayer, s, k, m)
  <2>1. PICK s \in Players, k \in 0..(PlayerCount - 1), m \in Nat :
           InRound(hands, currentPlayer, s, k, m)
    BY <1>2
  <2>2. \A q \in Players : Cardinality(hands[q]) \in (m - 1)..(m + 1)
    <3> TAKE q \in Players
    <3>1. PICK j \in 0..(PlayerCount - 1) : Seat(s, j) = q
      BY SeatsReach
    <3>2. Cardinality(hands[q]) \in IF j < k THEN (m - 1)..m ELSE m..(m + 1)
      BY <2>1, <3>1 DEF InRound
    <3> QED
      BY <3>2, SMT
  <2> QED
    BY <2>2, SMT DEF HandsStayLevel
<1> QED
  BY <1>1, <1>2 DEF LevelInv

\* The deal goes round the table, so that a hand has m cards or one more.
LEMMA DealtSizes ==
    ASSUME NEW d \in Nat, NEW p \in Players
    PROVE  (d + PlayerCount - 1 - p) \div PlayerCount
               \in (d \div PlayerCount)..(d \div PlayerCount + 1)
<1>1. PlayerCount \in Nat \ {0} /\ p \in 0..(PlayerCount - 1)
  BY ConfigAssumption DEF Players
<1> DEFINE q == d \div PlayerCount
           r == d % PlayerCount
           x == PlayerCount - 1 - p
<1>2. d = q * PlayerCount + r /\ r \in 0..(PlayerCount - 1) /\ q \in Nat
  BY <1>1, SMT
<1>3. x \in 0..(PlayerCount - 1)
  BY <1>1, SMT
<1>4. d + PlayerCount - 1 - p = d + x
  BY <1>1, SMT
<1> HIDE DEF q, r, x
<1>5. SUFFICES (d + x) \div PlayerCount \in q..(q + 1)
  BY <1>4 DEF q
<1>6. CASE r + x < PlayerCount
  <2>1. d + x = q * PlayerCount + (r + x)
    BY <1>1, <1>2, <1>3, SMT
  <2>2. (d + x) \div PlayerCount = q
    BY <1>1, <1>2, <1>3, <1>6, <2>1, SMT
  <2> QED
    BY <1>1, <1>2, <2>2, SMT
<1>7. CASE ~(r + x < PlayerCount)
  <2>1. d + x = (q + 1) * PlayerCount + (r + x - PlayerCount)
    BY <1>1, <1>2, <1>3, SMT
  <2>2. (d + x) \div PlayerCount = q + 1
    BY <1>1, <1>2, <1>3, <1>7, <2>1, SMT
  <2> QED
    BY <1>1, <1>2, <2>2, SMT
<1> QED
  BY <1>6, <1>7

\* The first round begins with the starter.
LEMMA InitLevel == Init => LevelInv
<1> SUFFICES ASSUME Init PROVE LevelInv
  OBVIOUS
<1> DEFINE d == Cardinality(Deck)
           m == d \div PlayerCount
<1>1. d \in Nat
  BY HandIsFinite
<1> HIDE DEF d
<1>2. PlayerCount \in Nat \ {0} /\ currentPlayer \in Players
  BY ConfigAssumption DEF Init
<1>3. m \in Nat
  BY <1>1, <1>2, SMT
<1>4. \A p \in Players : Cardinality(hands[p]) = (d + PlayerCount - 1 - p) \div PlayerCount
  BY DEF Init, d
<1>5. \A p \in Players : Cardinality(hands[p]) \in m..(m + 1)
  BY <1>1, <1>4, DealtSizes
<1> HIDE DEF m
<1>6. 0 \in 0..(PlayerCount - 1)
  BY <1>2, SMT
<1>7. currentPlayer = Seat(currentPlayer, 0)
  BY <1>2, <1>6, SeatAfter
<1>8. \A j \in 0..(PlayerCount - 1) :
         Cardinality(hands[Seat(currentPlayer, j)])
             \in IF j < 0 THEN (m - 1)..m ELSE m..(m + 1)
  <2> TAKE j \in 0..(PlayerCount - 1)
  <2>1. Seat(currentPlayer, j) \in Players /\ ~(j < 0)
    BY <1>2, SeatAfter, SMT
  <2> QED
    BY <1>5, <2>1
<1>9. InRound(hands, currentPlayer, currentPlayer, 0, m)
  BY <1>7, <1>8 DEF InRound
<1> QED
  BY <1>2, <1>3, <1>6, <1>9 DEF LevelInv

\* The end of a move by the player whose turn it is, in a full round.
LEMMA RoundGoesOn ==
    ASSUME NEW p \in Players, NEW hs, NEW s \in Players, NEW k \in 0..(PlayerCount - 1),
           NEW m \in Nat, InRound(hands, p, s, k, m), 2 <= m,
           \A q \in Players : Cardinality(hs[q]) =
               IF q = p THEN Cardinality(hands[q]) - 1 ELSE Cardinality(hands[q])
    PROVE  \/ /\ k < PlayerCount - 1
              /\ InRound(hs, Seat(p, 1), s, k + 1, m)
           \/ InRound(hs, Seat(p, 1), s, 0, m - 1)
<1>1. p = Seat(s, k)
  BY DEF InRound
<1>2. PlayerCount \in Nat \ {0}
  BY ConfigAssumption
<1>3. \A j \in 0..(PlayerCount - 1) :
         /\ Seat(s, j) \in Players
         /\ Cardinality(hands[Seat(s, j)]) \in IF j < k THEN (m - 1)..m ELSE m..(m + 1)
         /\ j # k => Seat(s, j) # p
  BY <1>1, SeatsApart, SeatAfter DEF InRound
<1>4. \A j \in 0..(PlayerCount - 1) :
         Cardinality(hs[Seat(s, j)]) \in IF j < k + 1 THEN (m - 1)..m ELSE m..(m + 1)
  <2> TAKE j \in 0..(PlayerCount - 1)
  <2>1. CASE j = k
    BY <1>1, <1>2, <1>3, <2>1, SMT
  <2>2. CASE j # k
    <3>1. Cardinality(hs[Seat(s, j)]) = Cardinality(hands[Seat(s, j)])
      BY <1>3, <2>2
    <3> QED
      BY <1>2, <1>3, <2>2, <3>1, SMT
  <2> QED
    BY <2>1, <2>2
<1>5. CASE k < PlayerCount - 1
  <2>1. Seat(p, 1) = Seat(s, k + 1)
    BY <1>1, <1>2, <1>5, SeatAfter, SMT
  <2> QED
    BY <1>4, <1>5, <2>1 DEF InRound
<1>6. CASE k = PlayerCount - 1
  <2>1. Seat(p, 1) = Seat(s, 0)
    BY <1>1, <1>2, <1>6, SeatAfter, SMT
  <2>2. \A j \in 0..(PlayerCount - 1) :
           Cardinality(hs[Seat(s, j)])
               \in IF j < 0 THEN (m - 1 - 1)..(m - 1) ELSE (m - 1)..(m - 1 + 1)
    BY <1>2, <1>4, <1>6, SMT
  <2> QED
    BY <2>1, <2>2 DEF InRound
<1> QED
  BY <1>2, <1>5, <1>6, SMT

\* A move takes one card from the player whose turn it is; a sweep leaves
\* nobody any.
LEMMA NextLevel == TypeOK /\ LevelInv /\ Next => LevelInv'
<1> SUFFICES ASSUME TypeOK, LevelInv, Next PROVE LevelInv'
  OBVIOUS
<1> DEFINE p == currentPlayer
<1>0. PICK card \in hands[p] : \E fd, bd, cl, cm :
         p \in Players /\ FinishMove(p, Without(p, card), fd, bd, cl, cm)
  BY DEF Next, Move, PlayCard, PlaceFaceDown, AceClose
<1>1. PICK fd, bd, cl, cm : p \in Players /\ FinishMove(p, Without(p, card), fd, bd, cl, cm)
  BY <1>0
<1> DEFINE hs == Without(p, card)
<1>2. \A q \in Players : hands[q] \in SUBSET Deck
  BY DEF TypeOK
<1>3. \A q \in Players : hs[q] = IF q = p THEN hands[p] \ {card} ELSE hands[q]
  BY <1>1 DEF Without, TypeOK
<1>4. \A q \in Players :
         /\ Cardinality(hands[q]) \in Nat
         /\ hs[q] \in SUBSET Deck
         /\ Cardinality(hs[q]) = IF q = p THEN Cardinality(hands[q]) - 1 ELSE Cardinality(hands[q])
         /\ Cardinality(hs[q]) \in Nat
  <2> TAKE q \in Players
  <2>1. IsFiniteSet(hands[q]) /\ Cardinality(hands[q]) \in Nat
    BY <1>2, HandIsFinite
  <2>2. hs[q] \in SUBSET Deck
    BY <1>1, <1>2, <1>3
  <2>3. Cardinality(hs[q]) \in Nat
    BY <2>2, HandIsFinite
  <2>4. CASE q = p
    <3>1. hs[q] = hands[q] \ {card} /\ card \in hands[q]
      BY <1>1, <1>3, <2>4
    <3>2. Cardinality(hands[q] \ {card}) = Cardinality(hands[q]) - 1
      BY <2>1, <3>1, FS_RemoveElement
    <3> HIDE DEF hs
    <3> QED
      BY <2>1, <2>2, <2>3, <2>4, <3>1, <3>2
  <2>5. CASE q # p
    BY <1>3, <2>1, <2>2, <2>5
  <2> QED
    BY <2>1, <2>2, <2>3, <2>4, <2>5
<1> HIDE DEF hs
<1>5. /\ currentPlayer' = NextPlayerWithCards(hs, p)
      /\ hands' = hs \/ hands' = [q \in Players |-> {}]
  BY <1>1 DEF FinishMove, SweptHands, hs
<1>6. CASE AlmostEmpty(hs) \/ hands' # hs
  <2>1. AlmostEmpty(hands')
    BY <1>5, <1>6, FS_EmptySet, SMT DEF AlmostEmpty
  <2> QED
    BY <2>1 DEF LevelInv, AlmostEmpty
<1>7. CASE ~AlmostEmpty(hs) /\ hands' = hs
  <2>1. ~AlmostEmpty(hands)
    BY <1>4, <1>7, SMT DEF AlmostEmpty
  <2>2. PICK s \in Players, k \in 0..(PlayerCount - 1), m \in Nat : InRound(hands, p, s, k, m)
    BY <2>1 DEF LevelInv
  <2>3. \A q \in Players : Cardinality(hands[q]) \in (m - 1)..(m + 1)
    <3> TAKE q \in Players
    <3>1. PICK j \in 0..(PlayerCount - 1) : Seat(s, j) = q
      BY SeatsReach
    <3>2. Cardinality(hands[q]) \in IF j < k THEN (m - 1)..m ELSE m..(m + 1)
      BY <2>2, <3>1 DEF InRound
    <3> QED
      BY <3>2, SMT
  <2>4. 2 <= m
    <3> SUFFICES ASSUME m \in 0..1 PROVE FALSE
      BY SMT
    <3>1. \A q \in Players : Cardinality(hands[q]) \in 0..2
      BY <1>4, <2>3, SMT
    <3> QED
      BY <2>1, <3>1 DEF AlmostEmpty
  <2>5. /\ k < PlayerCount - 1 /\ InRound(hs, Seat(p, 1), s, k + 1, m)
        \/ InRound(hs, Seat(p, 1), s, 0, m - 1)
    BY <1>1, <1>4, <2>2, <2>4, RoundGoesOn
  <2>6. Seat(s, k) = p
    BY <2>2 DEF InRound
  <2>7. \A q \in Players : hs[q] # {}
    <3> SUFFICES ASSUME NEW q \in Players, hs[q] = {} PROVE FALSE
      OBVIOUS
    <3>1. Cardinality(hs[q]) = 0
      BY FS_EmptySet
    <3>2. q = p /\ Cardinality(hands[p]) = 1
      <4>1. CASE q = p
        BY <1>4, <3>1, <4>1, SMT
      <4>2. CASE q # p
        <5>1. Cardinality(hands[q]) = 0 /\ Cardinality(hands[q]) \in (m - 1)..(m + 1)
          BY <1>4, <2>3, <3>1, <4>2
        <5> QED
          BY <2>4, <5>1, SMT
      <4> QED
        BY <4>1, <4>2
    <3>3. Cardinality(hands[p]) \in m..(m + 1)
      BY <2>2, <2>6 DEF InRound
    <3> QED
      BY <2>4, <3>2, <3>3, SMT
  <2>8. currentPlayer' = Seat(p, 1)
    BY <1>1, <1>5, <2>7, NextIsNextSeat
  <2>9. CASE k < PlayerCount - 1 /\ InRound(hs, Seat(p, 1), s, k + 1, m)
    <3>1. k + 1 \in 0..(PlayerCount - 1)
      BY <2>9, ConfigAssumption, SMT
    <3> QED
      BY <1>7, <2>8, <2>9, <3>1 DEF LevelInv, InRound
  <2>10. CASE InRound(hs, Seat(p, 1), s, 0, m - 1)
    <3>1. 0 \in 0..(PlayerCount - 1) /\ m - 1 \in Nat
      BY <2>4, ConfigAssumption, SMT
    <3> QED
      BY <1>7, <2>8, <2>10, <3>1 DEF LevelInv, InRound
  <2> QED
    BY <2>5, <2>9, <2>10
<1> QED
  BY <1>6, <1>7

-----------------------------------------------------------------------------
(* What the bots know, with one deck.                                      *)

\* A value has one card, which is in a set or not.
LEMMA CopiesOfOne ==
    ASSUME DeckCount = 1, NEW card \in Deck, NEW cards \in SUBSET Deck
    PROVE  Copies(cards, Value(card)) = IF card \in cards THEN 1 ELSE 0
<1>1. \A c \in Deck : Value(c) = Value(card) => c = card
  BY SMT DEF Deck, Value
<1>2. {c \in cards : Value(c) = Value(card)} = IF card \in cards THEN {card} ELSE {}
  BY <1>1
<1> QED
  BY <1>2, FS_EmptySet, FS_Singleton DEF Copies

\* With one deck, what a bot does not know is what it cannot see.
LEMMA HiddenIsUnknown ==
    ASSUME DeckCount = 1, TypeOK, OnePlace, NothingLost, SequenceMatchesStack
    PROVE  UnknownIsHidden
<1> SUFFICES ASSUME NEW p \in Players, NEW s \in Suits, NEW r \in Ranks
             PROVE  UnknownCopies(p, <<s, r>>) =
                      Copies(UNION {hands[q] \cup faceDown[q] : q \in Players \ {p}}, <<s, r>>)
  BY DEF UnknownIsHidden
<1> DEFINE card == [suit |-> s, rank |-> r, copy |-> 1]
           hidden == UNION {hands[q] \cup faceDown[q] : q \in Players \ {p}}
           between == Started(board, s) /\ r \in board[s].low..board[s].high
           gone == s \in closed /\ r = Ace
<1>1. card \in Deck /\ Value(card) = <<s, r>> /\ card.suit = s /\ card.rank = r
  BY SMT DEF Deck, Value
<1>2. \A c \in Deck : c.suit = s /\ c.rank = r => c = card
  BY SMT DEF Deck
<1>3. /\ hands[p] \in SUBSET Deck /\ faceDown[p] \in SUBSET Deck
      /\ hidden \in SUBSET Deck
      /\ board[s].stack \in SUBSET Deck
  BY DEF TypeOK, Sequence
<1>4. /\ Copies(hands[p], <<s, r>>) = IF card \in hands[p] THEN 1 ELSE 0
      /\ Copies(faceDown[p], <<s, r>>) = IF card \in faceDown[p] THEN 1 ELSE 0
      /\ Copies(hidden, <<s, r>>) = IF card \in hidden THEN 1 ELSE 0
  <2> HIDE DEF card, hidden
  <2> QED
    BY <1>1, <1>3, CopiesOfOne
<1>5. between <=> card \in board[s].stack
  <2>1. CASE Started(board, s)
    <3>1. {c.rank : c \in board[s].stack} = board[s].low..board[s].high
      BY <2>1 DEF SequenceMatchesStack
    <3>2. ASSUME between PROVE card \in board[s].stack
      <4>1. PICK c \in board[s].stack : c.rank = r
        BY <3>1, <3>2
      <4>2. c \in Deck /\ c.suit = s
        BY <1>3 DEF OnePlace
      <4> QED
        BY <1>2, <4>1, <4>2
    <3>3. ASSUME card \in board[s].stack PROVE between
      BY <1>1, <2>1, <3>1, <3>3
    <3> QED
      BY <3>2, <3>3
  <2>2. CASE ~Started(board, s)
    BY <2>2 DEF SequenceMatchesStack, NoSequence
  <2> QED
    BY <2>1, <2>2
<1>6. gone <=> ~OnTable(card)
  <2>1. CASE s \in closed
    <3>1. PICK ace \in Deck :
             ace.rank = Ace /\ {c \in Deck : c.suit = s /\ ~OnTable(c)} = {ace}
      BY <2>1 DEF NothingLost
    <3>2. ace.suit = s
      BY <3>1
    <3> QED
      BY <1>1, <1>2, <2>1, <3>1, <3>2
  <2>2. CASE s \notin closed
    BY <1>1, <2>2 DEF NothingLost
  <2> QED
    BY <2>1, <2>2
<1>7. OnTable(card) <=> \/ card \in hands[p] \/ card \in faceDown[p]
                        \/ card \in hidden \/ card \in board[s].stack
  BY <1>1 DEF OnTable
<1>8. card \in hidden => /\ card \notin hands[p] /\ card \notin faceDown[p]
                         /\ card \notin board[s].stack
  BY DEF OnePlace
<1>9. KnownCopies(p, <<s, r>>) =
          (IF card \in hands[p] THEN 1 ELSE 0) + (IF card \in faceDown[p] THEN 1 ELSE 0)
        + (IF between THEN 1 ELSE 0) + (IF gone THEN 1 ELSE 0)
  BY <1>4 DEF KnownCopies
<1> HIDE DEF card, hidden, between, gone
<1>10. KnownCopies(p, <<s, r>>) \in Nat /\ (KnownCopies(p, <<s, r>>) = 0 <=> card \in hidden)
  BY <1>5, <1>6, <1>7, <1>8, <1>9, SMT
<1>11. UnknownCopies(p, <<s, r>>) = IF card \in hidden THEN 1 ELSE 0
  BY <1>10, SMT DEF UnknownCopies
<1> QED
  BY <1>4, <1>11 DEF hidden

-----------------------------------------------------------------------------
(* Why a game ends: each move uses up a card, and there is always a move.  *)

CardsLeft == {card \in Deck : \E p \in Players : card \in hands[p]}

\* The guards of Move for the player whose turn it is.
MoveIsThere ==
    \E card \in hands[currentPlayer] :
        \/ IsPlayable(board, closed, card)
        \/ ~HasLegalPlay(board, closed, closeMethod, hands[currentPlayer])
        \/ /\ card.rank = Ace /\ Started(board, card.suit) /\ card.suit \notin closed
           /\ \E m \in Methods :
                 /\ IF m = "low" THEN board[card.suit].low = Two
                                 ELSE board[card.suit].high = King
                 /\ MethodFits(m)

\* A live table has a move, that of the player whose turn it is.
LEMMA LiveHasMove == TypeOK /\ TableIsLive => (~IsGameOver(hands) => MoveIsThere)
<1> SUFFICES ASSUME TypeOK, TableIsLive, ~IsGameOver(hands) PROVE MoveIsThere
  OBVIOUS
<1> DEFINE hand == hands[currentPlayer]
<1>1. hand # {}
  BY DEF TableIsLive
<1>2. CASE ~HasLegalPlay(board, closed, closeMethod, hand)
  BY <1>1, <1>2 DEF MoveIsThere
<1>3. CASE \E card \in hand : IsPlayable(board, closed, card)
  BY <1>3 DEF MoveIsThere
<1>4. CASE \E s \in Suits : CloseOptions(board, closed, closeMethod, hand, s) # {}
  <2>1. PICK s \in Suits, m \in Methods :
           m \in CloseOptions(board, closed, closeMethod, hand, s)
    BY <1>4 DEF CloseOptions
  <2>2. PICK ace \in hand : ace.suit = s /\ ace.rank = Ace
    BY <2>1 DEF CloseOptions
  <2>3. /\ Started(board, s) /\ s \notin closed
        /\ closeMethod \in {"", m}
        /\ IF m = "low" THEN board[s].low = Two ELSE board[s].high = King
    BY <2>1 DEF CloseOptions
  <2> QED
    BY <2>2, <2>3 DEF MoveIsThere, MethodFits
<1> QED
  BY <1>2, <1>3, <1>4 DEF HasLegalPlay

\* A move takes its card out of the hands, the sweep the others, and no card
\* comes back into a hand.
LEMMA NextUsesACard == TypeOK /\ OnePlace /\ Next => Cardinality(CardsLeft') < Cardinality(CardsLeft)
<1> SUFFICES ASSUME TypeOK, OnePlace, Next
             PROVE  Cardinality(CardsLeft') < Cardinality(CardsLeft)
  OBVIOUS
<1>1. PICK p \in Players, card \in Deck :
         /\ card \in hands[p]
         /\ \/ PlayCard(p, card)
            \/ PlaceFaceDown(p, card)
            \/ \E m \in Methods : AceClose(p, card, m)
  BY MoveCases
<1>2. hands' = Without(p, card) \/ hands' = SweptHands(Without(p, card))
  BY <1>1 DEF PlayCard, PlaceFaceDown, AceClose, FinishMove
<1>3. \A q \in Players : hands'[q] \subseteq (IF q = p THEN hands[p] \ {card} ELSE hands[q])
  <2>1. \A q \in Players : Without(p, card)[q] = IF q = p THEN hands[p] \ {card} ELSE hands[q]
    BY DEF Without, TypeOK
  <2>2. CASE hands' = Without(p, card)
    BY <2>1, <2>2
  <2>3. CASE hands' = SweptHands(Without(p, card))
    BY <2>3 DEF SweptHands
  <2> QED
    BY <1>2, <2>2, <2>3
<1>4. \A q \in Players \ {p} : card \notin hands[q]
  BY <1>1 DEF OnePlace
<1>5. card \in CardsLeft /\ CardsLeft' \subseteq CardsLeft \ {card}
  BY <1>1, <1>3, <1>4 DEF CardsLeft
<1>6. IsFiniteSet(CardsLeft) /\ Cardinality(CardsLeft) \in Nat
  BY HandIsFinite DEF CardsLeft
<1>7. /\ IsFiniteSet(CardsLeft \ {card})
      /\ Cardinality(CardsLeft \ {card}) = Cardinality(CardsLeft) - 1
  BY <1>5, <1>6, FS_RemoveElement
<1>8. /\ Cardinality(CardsLeft') <= Cardinality(CardsLeft \ {card})
      /\ Cardinality(CardsLeft') \in Nat
  BY <1>5, <1>7, FS_Subset, FS_CardinalityType
<1> QED
  BY <1>6, <1>7, <1>8

-----------------------------------------------------------------------------
(* The theorems.                                                           *)

\* The inductive invariant.  A close is only known to take its Ace off the table
\* when the Ace lay in one place, and a started stack is only known to keep its
\* cards when an unstarted one is empty: the parts need each other.
Inv ==
    /\ TypeOK
    /\ OnePlace
    /\ SequenceMatchesStack
    /\ OneCloseMethod
    /\ TableIsLive
    /\ NothingLost

LEMMA InitInv == Init => Inv
BY InitType, InitOnePlace, InitMatches, InitOneMethod, InitLive, InitNothingLost
   DEF Inv

LEMMA NextInv == Inv /\ [Next]_vars => Inv'
<1> SUFFICES ASSUME Inv, [Next]_vars PROVE Inv'
  OBVIOUS
<1>1. CASE Next
  BY <1>1, NextType, NextOnePlace, NextMatches, NextOneMethod, NextLive,
     NextNothingLost DEF Inv
<1>2. CASE UNCHANGED vars
  <2>1. /\ hands' = hands /\ board' = board /\ faceDown' = faceDown
        /\ currentPlayer' = currentPlayer /\ closed' = closed
        /\ closeMethod' = closeMethod
    BY <1>2 DEF vars
  <2>2. TypeOK'
    BY <2>1 DEF Inv, TypeOK
  <2>3. OnePlace'
    BY <2>1 DEF Inv, OnePlace
  <2>4. SequenceMatchesStack'
    BY <2>1 DEF Inv, SequenceMatchesStack, Started
  <2>5. OneCloseMethod'
    BY <2>1 DEF Inv, OneCloseMethod, Started
  <2>6. TableIsLive'
    BY <2>1 DEF Inv, TableIsLive, IsGameOver
  <2>7. NothingLost'
    BY <2>1 DEF Inv, NothingLost, OnTable
  <2> QED
    BY <2>2, <2>3, <2>4, <2>5, <2>6, <2>7 DEF Inv
<1> QED
  BY <1>1, <1>2

LEMMA Invariance == Spec => []Inv
BY InitInv, NextInv, PTL DEF Spec

\* The table stays well-typed; above all, the turn is always that of a seat of
\* the table, whatever its size.
THEOREM TypeCorrect == Spec => []TypeOK
BY Invariance, PTL DEF Inv

\* No card is ever in two places, in any deck and at any table.
THEOREM CardsInOnePlace == Spec => []OnePlace
BY Invariance, PTL DEF Inv

\* No card is ever lost but the Ace that closed its suit.
THEOREM CardsConserved == Spec => []NothingLost
BY Invariance, PTL DEF Inv

\* The ends the code keeps of a sequence describe the stack, so IsPlayable and
\* the Ace close, which look at the ends only, judge the real board.
THEOREM EndsDescribeStacks == Spec => []SequenceMatchesStack
BY Invariance, PTL DEF Inv

\* All suits that are closed were closed at the same end, which they still show.
THEOREM OneMethod == Spec => []OneCloseMethod
BY Invariance, PTL DEF Inv

\* An unfinished game waits on a player with cards and has a legal play on it.
THEOREM NeverDead == Spec => []TableIsLive
BY Invariance, PTL DEF Inv

\* The dead-table sweep never takes a card that could still have been played.
THEOREM SweepIsHarmless == Spec => SweepIsFinal
<1>1. Inv /\ [Next]_vars =>
        [IsGameOver(hands') =>
           \A p \in Players :
              ~HasLegalPlay(board', closed', closeMethod',
                            faceDown'[p] \ faceDown[p])]_vars
  BY NextSweep DEF Inv
<1> QED
  BY <1>1, Invariance, PTL DEF Spec, SweepIsFinal

\* The cards of a deck are all there and each in one place, for every deck,
\* table and deal.
THEOREM CardsAreSound == Spec => []CardsSound
BY TypeCorrect, CardsInOnePlace, CardsConserved, PTL DEF CardsSound

\* What the code keeps of the board is true of the cards on it.
THEOREM BoardIsSound == Spec => []BoardSound
BY EndsDescribeStacks, OneMethod, PTL DEF BoardSound

\* Every seat gets its turn in every round until the first hand is empty, so
\* that hands which were dealt level never drift apart by more than two cards,
\* at any table and for any deck (DealWithConfig, NextPlayerWithCards).
THEOREM HandsLevel == Spec => []HandsStayLevel
<1>1. TypeOK /\ LevelInv /\ [Next]_vars => LevelInv'
  <2> SUFFICES ASSUME TypeOK, LevelInv, UNCHANGED vars PROVE LevelInv'
    BY NextLevel
  <2>1. hands' = hands /\ currentPlayer' = currentPlayer
    BY DEF vars
  <2> QED
    BY <2>1 DEF LevelInv, AlmostEmpty, InRound
<1>2. Spec => []LevelInv
  BY <1>1, InitLevel, TypeCorrect, PTL DEF Spec
<1> QED
  BY <1>2, LevelHands, PTL

\* What GameEnds needs of the rules, for any table and deck: while the game is
\* not over the player whose turn it is has a move, and each move leaves fewer
\* cards in the hands (ApplyMove, ApplyAceClose, finalizeStalemate).
THEOREM EveryMoveUsesACard ==
    Spec => /\ [](~IsGameOver(hands) => MoveIsThere)
            /\ [][Cardinality(CardsLeft') < Cardinality(CardsLeft)]_vars
<1>1. Inv => (~IsGameOver(hands) => MoveIsThere)
  BY LiveHasMove DEF Inv
<1>2. Inv /\ [Next]_vars => [Cardinality(CardsLeft') < Cardinality(CardsLeft)]_vars
  BY NextUsesACard DEF Inv
<1> QED
  BY <1>1, <1>2, Invariance, PTL DEF Spec

\* With one deck, a bot takes for unknown exactly the cards it cannot see, at
\* any table and for any suits and ranks (knownCardCounts, unknownCards).
THEOREM BotsCountRight ==
    ASSUME DeckCount = 1
    PROVE  Spec => []UnknownIsHidden
<1>1. Inv => UnknownIsHidden
  BY HiddenIsUnknown DEF Inv
<1> QED
  BY <1>1, Invariance, PTL

-----------------------------------------------------------------------------
(* The replay of a game with one deck.                                     *)

\* A row of the replay is the range between the ends of the sequence.
RowsMatch(rows, bd) ==
    \A s \in Suits : rows[s] = IF Started(bd, s) THEN bd[s].low..bd[s].high ELSE {}

\* The ends of the sequences are in order and in the columns of the rows.
EndsInOrder(bd) ==
    \A s \in Suits : Started(bd, s) => /\ bd[s].low \in Int /\ bd[s].high \in Int
                                       /\ Two <= bd[s].low /\ bd[s].low <= bd[s].high
                                       /\ bd[s].high <= King

\* What the fold reads back from a row.
LEMMA EndsOfRange ==
    ASSUME NEW low \in Int, NEW high \in Int, low <= high
    PROVE  LowOf(low..high) = low /\ HighOf(low..high) = high /\ low..high # {}
<1>1. \A r \in low..high : (\A other \in low..high : r <= other) <=> r = low
  BY SMT
<1>2. \A r \in low..high : (\A other \in low..high : r >= other) <=> r = high
  BY SMT
<1>3. low \in low..high /\ high \in low..high
  BY SMT
<1> QED
  BY <1>1, <1>2, <1>3 DEF LowOf, HighOf

\* The columns between two ranks that a row has.
LEMMA RowIsRange ==
    ASSUME NEW low \in Int, NEW high \in Int, Two <= low, high <= King
    PROVE  Row(low, high) = low..high
BY ConfigAssumption, SMT DEF Row

\* The least of a set of seats, and whose turn both engines find.
LEMMA NextShownIsNext ==
    ASSUME NEW hs, NEW p \in Players
    PROVE  NextShown(hs, p) = NextPlayerWithCards(hs, p)
<1> DEFINE seats == {k \in 1..PlayerCount : hs[Seat(p, k)] # {}}
           First(k) == /\ hs[Seat(p, k)] # {}
                       /\ \A j \in 1..(k - 1) : hs[Seat(p, j)] = {}
<1>1. seats = {} <=> IsGameOver(hs)
  BY EverySeatIsReached, SeatIsPlayer DEF IsGameOver
<1>2. PlayerCount \in Nat \ {0}
  BY ConfigAssumption
<1>3. ASSUME NEW k \in 1..PlayerCount
      PROVE  First(k) <=> k \in seats /\ \A other \in seats : k <= other
  <2>1. ASSUME First(k), NEW other \in seats, ~(k <= other) PROVE FALSE
    <3>1. other \in 1..(k - 1)
      BY <1>2, <2>1, SMT
    <3> QED
      BY <2>1, <3>1
  <2>2. ASSUME k \in seats, \A other \in seats : k <= other, NEW j \in 1..(k - 1),
               hs[Seat(p, j)] # {}
        PROVE  FALSE
    <3>1. j \in 1..PlayerCount /\ ~(k <= j)
      BY <1>2, SMT
    <3> QED
      BY <2>2, <3>1
  <2> QED
    BY <2>1, <2>2
<1>4. (CHOOSE k \in 1..PlayerCount : First(k)) = LowOf(seats)
  <2>1. \A k : k \in 1..PlayerCount /\ First(k) <=> k \in seats /\ \A other \in seats : k <= other
    BY <1>3
  <2> HIDE DEF seats, First
  <2> QED
    BY <2>1, Zenon DEF LowOf
<1> QED
  BY <1>1, <1>4 DEF NextShown, NextPlayerWithCards

\* Where the engine sees a legal play, the replay sees one.
LEMMA ShownLegalPlay ==
    ASSUME DeckCount = 1, NEW bd, NEW rows, NEW cl, NEW cm, NEW hand \in SUBSET Deck,
           EndsInOrder(bd), RowsMatch(rows, bd), HasLegalPlay(bd, cl, cm, hand)
    PROVE  \E card \in hand : Extends(rows, cl, card) \/ Closes(rows, cl, card)
<1>1. ASSUME NEW s \in Suits, Started(bd, s)
      PROVE  /\ rows[s] = bd[s].low..bd[s].high /\ rows[s] # {}
             /\ LowOf(rows[s]) = bd[s].low /\ HighOf(rows[s]) = bd[s].high
  BY <1>1, EndsOfRange DEF EndsInOrder, RowsMatch
<1>2. \A s \in Suits : ~Started(bd, s) => rows[s] = {}
  BY DEF RowsMatch
<1>3. \A card \in hand : card.suit \in Suits
  BY CardFields
<1>4. CASE \E card \in hand : IsPlayable(bd, cl, card)
  <2>1. PICK card \in hand : IsPlayable(bd, cl, card)
    BY <1>4
  <2>2. card.rank # Ace /\ card.suit \notin cl /\ card.suit \in Suits
    BY <1>3, <2>1 DEF IsPlayable
  <2>3. CASE ~Started(bd, card.suit)
    <3>1. rows[card.suit] = {} /\ card.rank = Seven
      BY <1>2, <2>1, <2>2, <2>3 DEF IsPlayable
    <3>2. (\A s \in Suits : rows[s] = {}) => card.suit = StartingSuit
      BY <1>1, <2>1, <2>3 DEF IsPlayable, BoardIsEmpty
    <3> QED
      BY <2>2, <3>1, <3>2 DEF Extends
  <2>4. CASE Started(bd, card.suit)
    <3>1. card.rank \in {bd[card.suit].low - 1, bd[card.suit].high + 1}
      BY <2>1, <2>4 DEF IsPlayable
    <3> QED
      BY <1>1, <2>2, <2>4, <3>1 DEF Extends
  <2> QED
    BY <2>3, <2>4
<1>5. CASE \E s \in Suits : CloseOptions(bd, cl, cm, hand, s) # {}
  <2>1. PICK s \in Suits : \E m \in Methods : m \in CloseOptions(bd, cl, cm, hand, s)
    BY <1>5 DEF CloseOptions
  <2>2. /\ Started(bd, s) /\ s \notin cl
        /\ bd[s].low = Two \/ bd[s].high = King
    BY <2>1 DEF CloseOptions
  <2>3. PICK card \in hand : card.suit = s /\ card.rank = Ace
    BY <2>1 DEF CloseOptions
  <2>4. bd[s].low \in bd[s].low..bd[s].high /\ bd[s].high \in bd[s].low..bd[s].high
    BY <2>2, SMT DEF EndsInOrder
  <2>5. rows[s] \cap {Two, King} # {}
    BY <1>1, <2>2, <2>4
  <2> QED
    BY <2>2, <2>3, <2>5 DEF Closes
<1> QED
  BY <1>4, <1>5 DEF HasLegalPlay

\* The replay finds a table dead only where the game does, or is over.
LEMMA ShownDeadIsStalemate ==
    ASSUME DeckCount = 1, NEW hs \in Hands, NEW bd, NEW rows, NEW cl, NEW cm,
           EndsInOrder(bd), RowsMatch(rows, bd), ShownDead(hs, rows, cl)
    PROVE  IsStalemate(hs, bd, cl, cm)
<1>1. \A p \in Players : hs[p] \in SUBSET Deck
  BY DEF Hands
<1>2. ~IsGameOver(hs)
  BY DEF ShownDead, IsGameOver
<1>3. ASSUME NEW p \in Players, HasLegalPlay(bd, cl, cm, hs[p]) PROVE FALSE
  <2>1. \E card \in hs[p] : Extends(rows, cl, card) \/ Closes(rows, cl, card)
    BY <1>1, <1>3, ShownLegalPlay
  <2> QED
    BY <2>1 DEF ShownDead
<1> QED
  BY <1>2, <1>3 DEF IsStalemate

\* The two ends of a move agree, given that what they are handed does.
LEMMA FinishedAlike ==
    ASSUME DeckCount = 1, NEW p \in Players, NEW hs \in Hands, NEW fd \in Hands,
           NEW bd, NEW rows, NEW cl, NEW cm, EndsInOrder(bd), RowsMatch(rows, bd),
           FinishMove(p, hs, fd, bd, cl, cm), shown' = Finished(p, hs, fd, rows, cl, cm)
    PROVE  ReplayIsTheGame' /\ shown'.rows = rows
<1>1. /\ board' = bd /\ closed' = cl /\ closeMethod' = cm
      /\ currentPlayer' = NextPlayerWithCards(hs, p)
  BY DEF FinishMove
<1>2. /\ shown'.rows = rows /\ shown'.closed = cl /\ shown'.method = cm
      /\ shown'.current = NextShown(hs, p)
  BY DEF Finished
<1>3. shown'.current = currentPlayer'
  BY <1>1, <1>2, NextShownIsNext
<1>4. ASSUME ~IsGameOver(hands')
      PROVE  shown'.hands = hands' /\ shown'.piles = faceDown'
  <2>1. ~IsStalemate(hs, bd, cl, cm)
    BY <1>4 DEF FinishMove, IsGameOver, SweptHands
  <2>2. ~ShownDead(hs, rows, cl)
    BY <2>1, ShownDeadIsStalemate
  <2> QED
    BY <2>1, <2>2 DEF FinishMove, Finished
<1>5. \A q \in Players : shown'.hands[q] \cup shown'.piles[q] = fd[q] \cup hs[q]
  BY DEF Finished
<1>6. \A q \in Players : hands'[q] \cup faceDown'[q] = fd[q] \cup hs[q]
  BY DEF FinishMove, SweptHands, SweptPiles
<1> QED
  BY <1>1, <1>2, <1>3, <1>4, <1>5, <1>6 DEF ReplayIsTheGame, RowsMatch, Started

\* The invariant of the game and its replay.
ReplayInv == Inv /\ ReplayIsTheGame /\ DOMAIN shown.rows = Suits

\* The replay begins with the only holder of the first 7.
LEMMA InitReplay == DeckCount = 1 /\ ReplayInit => ReplayInv
<1> SUFFICES ASSUME DeckCount = 1, ReplayInit PROVE ReplayInv
  OBVIOUS
<1>1. Init /\ Inv
  BY InitInv DEF ReplayInit
<1>2. /\ shown.hands = hands /\ shown.piles = faceDown /\ shown.closed = closed
      /\ shown.method = closeMethod /\ shown.rows = [s \in Suits |-> {}]
  BY <1>1 DEF ReplayInit, Init
<1>3. \A s \in Suits : ~Started(board, s)
  BY <1>1 DEF Init, Started, NoSequence
<1> DEFINE holders == {p \in Players :
                         \E card \in hands[p] : card.suit = StartingSuit /\ card.rank = Seven}
<1>4. holders = {currentPlayer}
  <2>1. currentPlayer \in Players
    BY <1>1 DEF Init
  <2>2. PICK card \in hands[currentPlayer] : card.suit = StartingSuit /\ card.rank = Seven
    BY <1>1 DEF Init
  <2>3. \A p \in Players : hands[p] \in SUBSET Deck
    BY <1>1 DEF Inv, TypeOK
  <2>4. ASSUME NEW p \in Players, NEW c \in hands[p], c.suit = StartingSuit, c.rank = Seven
        PROVE  p = currentPlayer
    <3>1. c \in Deck /\ card \in Deck
      BY <2>1, <2>3
    <3>2. c = card
      BY <2>2, <2>4, <3>1, SMT DEF Deck
    <3>3. \A q, r \in Players : q # r => hands[q] \cap hands[r] = {}
      BY <1>1 DEF Inv, OnePlace
    <3> QED
      BY <2>1, <3>2, <3>3
  <2> QED
    BY <2>1, <2>2, <2>4
<1>5. currentPlayer \in Int
  <2>1. currentPlayer \in Players /\ PlayerCount \in Nat
    BY <1>1, ConfigAssumption DEF Inv, TypeOK
  <2> QED
    BY <2>1, SMT DEF Players
<1>6. LowOf({currentPlayer}) = currentPlayer
  BY <1>5, SMT DEF LowOf
<1>7. shown.current = currentPlayer
  BY <1>4, <1>6 DEF ReplayInit
<1> QED
  BY <1>1, <1>2, <1>3, <1>7 DEF ReplayInv, ReplayIsTheGame

\* The ends that the engine keeps are those of what was played.
LEMMA EndsAreInOrder ==
    ASSUME NEW bd \in Boards, \A s \in Suits : Matches(bd[s])
    PROVE  EndsInOrder(bd)
<1> SUFFICES ASSUME NEW s \in Suits, Started(bd, s)
             PROVE  /\ bd[s].low \in Int /\ bd[s].high \in Int
                    /\ Two <= bd[s].low /\ bd[s].low <= bd[s].high
                    /\ bd[s].high <= King
  BY DEF EndsInOrder
<1>1. bd[s].low \in Nat /\ bd[s].high \in Nat /\ bd[s].stack \in SUBSET Deck
  BY DEF Boards, Sequence
<1>2. /\ {card.rank : card \in bd[s].stack} = bd[s].low..bd[s].high
      /\ Seven \in bd[s].low..bd[s].high /\ bd[s].high <= King
  BY DEF Started, Matches
<1>3. bd[s].low <= bd[s].high /\ bd[s].low \in bd[s].low..bd[s].high
  BY <1>1, <1>2, SMT
<1>4. PICK card \in bd[s].stack : card.rank = bd[s].low
  BY <1>2, <1>3
<1>5. card.rank \in Two..Ace
  BY <1>1, CardFields DEF Ranks
<1> QED
  BY <1>1, <1>2, <1>3, <1>4, <1>5, ConfigAssumption, SMT

\* With one deck the replay takes out of a hand the card that was played.
LEMMA RemovedCard ==
    ASSUME DeckCount = 1, NEW hand \in SUBSET Deck, NEW card \in hand
    PROVE  RemoveCard(hand, card) = hand \ {card}
<1>1. \A c \in hand : Value(c) = Value(card) => c = card
  BY SMT DEF Deck, Value
<1>2. {c \in hand : Value(c) = Value(card)} = {card}
  BY <1>1
<1> QED
  BY <1>2 DEF RemoveCard

\* A play makes the row of its suit as long as the sequence.
LEMMA PlayedRow ==
    ASSUME NEW card \in Deck, NEW rows, DOMAIN rows = Suits,
           RowsMatch(rows, board), EndsInOrder(board), board \in Boards,
           NEW bd \in Boards, bd = [board EXCEPT ![card.suit] = ApplyCardToSequence(@, card)],
           EndsInOrder(bd),
           NEW row, row = rows[card.suit],
           NEW grown, grown = IF row = {} THEN Row(card.rank, card.rank)
                              ELSE Row(IF card.rank < LowOf(row) THEN card.rank ELSE LowOf(row),
                                       IF card.rank > HighOf(row) THEN card.rank ELSE HighOf(row))
    PROVE  RowsMatch([rows EXCEPT ![card.suit] = grown], bd)
<1> DEFINE suit == card.suit
           old == board[suit]
           new == bd[suit]
<1>1. suit \in Suits /\ card.rank \in Nat \ {0}
  BY CardFields
<1>2. new = ApplyCardToSequence(old, card) /\ old \in Sequence
  BY <1>1 DEF Boards
<1>3. \A s \in Suits \ {suit} : bd[s] = board[s]
  BY DEF Boards
<1>4. Started(bd, suit) /\ grown = Row(new.low, new.high)
  <2>1. CASE ~Started(board, suit)
    <3>1. row = {} /\ new.low = card.rank /\ new.high = card.rank
      BY <1>1, <1>2, <2>1 DEF RowsMatch, Started, ApplyCardToSequence
    <3> QED
      BY <1>1, <3>1 DEF Started
  <2>2. CASE Started(board, suit)
    <3>1. old.low \in Int /\ old.high \in Int /\ old.low <= old.high
      BY <1>1, <2>2 DEF EndsInOrder
    <3>2. row = old.low..old.high
      BY <1>1, <2>2 DEF RowsMatch
    <3>3. LowOf(row) = old.low /\ HighOf(row) = old.high /\ row # {}
      BY <3>1, <3>2, EndsOfRange
    <3>4. /\ new.low = IF card.rank < old.low THEN card.rank ELSE old.low
          /\ new.high = IF card.rank > old.high THEN card.rank ELSE old.high
      BY <1>2, <2>2 DEF ApplyCardToSequence, Started
    <3>5. new.low # 0
      BY <1>1, <2>2, <3>4 DEF Started
    <3> QED
      BY <3>3, <3>4, <3>5 DEF Started
  <2> QED
    BY <2>1, <2>2
<1>5. grown = new.low..new.high
  BY <1>1, <1>4, RowIsRange DEF EndsInOrder
<1>6. \A s \in Suits : [rows EXCEPT ![suit] = grown][s] = IF s = suit THEN grown ELSE rows[s]
  BY <1>1
<1>7. \A s \in Suits \ {suit} : Started(bd, s) <=> Started(board, s)
  BY <1>3 DEF Started
<1> QED
  BY <1>3, <1>4, <1>5, <1>6, <1>7 DEF RowsMatch

\* The replay of a move ends where the move did.
LEMMA NextReplay == DeckCount = 1 /\ ReplayInv /\ ReplayNext => ReplayInv'
<1> SUFFICES ASSUME DeckCount = 1, ReplayInv, ReplayNext PROVE ReplayInv'
  OBVIOUS
<1>1. PICK p \in Players, card \in hands[currentPlayer] :
         /\ p = currentPlayer
         /\ \/ PlayCard(p, card) /\ shown' = Replayed(p, card, "play", "")
            \/ PlaceFaceDown(p, card) /\ shown' = Replayed(p, card, "face_down", "")
            \/ \E m \in Methods : AceClose(p, card, m) /\ shown' = Replayed(p, card, "ace_close", m)
  BY DEF ReplayNext, RecordedMove
<1>2. Inv /\ Next
  BY <1>1 DEF Next, Move, ReplayInv
<1>3. Inv'
  BY <1>2, NextInv
<1>4. /\ hands \in Hands /\ faceDown \in Hands /\ board \in Boards /\ board' \in Boards
      /\ \A s \in Suits : Matches(board[s]) /\ Matches(board'[s])
  BY <1>2, <1>3 DEF Inv, TypeOK, Hands, Boards, SequenceMatchesStack, Started, Matches
<1>5. EndsInOrder(board) /\ EndsInOrder(board')
  BY <1>4, EndsAreInOrder
<1>6. card \in Deck /\ hands[p] \in SUBSET Deck
  BY <1>1, <1>4 DEF Hands
<1>7. card \in hands[p]
  BY <1>1
<1>8. ~IsGameOver(hands)
  BY <1>1 DEF IsGameOver
<1>9. /\ shown.hands = hands /\ shown.piles = faceDown /\ shown.closed = closed
      /\ shown.method = closeMethod /\ RowsMatch(shown.rows, board) /\ DOMAIN shown.rows = Suits
  BY <1>8 DEF ReplayInv, ReplayIsTheGame, RowsMatch
<1> DEFINE hs == Without(p, card)
<1>10. [shown.hands EXCEPT ![p] = RemoveCard(@, card)] = hs
  BY <1>6, <1>9, <1>7, RemovedCard DEF Without
<1>11. hs \in Hands
  BY <1>2, WithoutType DEF Inv
<1> SUFFICES ReplayIsTheGame' /\ DOMAIN shown'.rows = Suits
  BY <1>3 DEF ReplayInv
<1>12. CASE PlayCard(p, card) /\ shown' = Replayed(p, card, "play", "")
  <2> DEFINE bd == [board EXCEPT ![card.suit] = ApplyCardToSequence(@, card)]
             row == shown.rows[card.suit]
             grown == IF row = {} THEN Row(card.rank, card.rank)
                      ELSE Row(IF card.rank < LowOf(row) THEN card.rank ELSE LowOf(row),
                               IF card.rank > HighOf(row) THEN card.rank ELSE HighOf(row))
             rows == [shown.rows EXCEPT ![card.suit] = grown]
  <2>1. FinishMove(p, hs, faceDown, bd, closed, closeMethod) /\ board' = bd
    BY <1>12 DEF PlayCard, FinishMove
  <2>2. RowsMatch(rows, bd)
    BY <1>4, <1>5, <1>6, <1>9, <2>1, PlayedRow
  <2>3. shown' = Finished(p, hs, faceDown, rows, closed, closeMethod)
    BY <1>9, <1>10, <1>12, Zenon DEF Replayed
  <2>4. DOMAIN rows = Suits
    BY <1>9
  <2> HIDE DEF bd, rows, hs
  <2>5. ReplayIsTheGame' /\ shown'.rows = rows
    BY <1>4, <1>5, <1>11, <2>1, <2>2, <2>3, FinishedAlike
  <2> QED
    BY <2>4, <2>5
<1>13. CASE PlaceFaceDown(p, card) /\ shown' = Replayed(p, card, "face_down", "")
  <2> DEFINE fd == [faceDown EXCEPT ![p] = @ \cup {card}]
  <2>1. FinishMove(p, hs, fd, board, closed, closeMethod)
    BY <1>13 DEF PlaceFaceDown
  <2>2. shown' = Finished(p, hs, fd, shown.rows, closed, closeMethod)
    BY <1>9, <1>10, <1>13 DEF Replayed
  <2>3. fd \in Hands
    BY <1>2, <1>6, FaceDownType DEF Inv
  <2> HIDE DEF fd, hs
  <2>4. ReplayIsTheGame' /\ shown'.rows = shown.rows
    BY <1>5, <1>9, <1>11, <2>1, <2>2, <2>3, FinishedAlike
  <2> QED
    BY <1>9, <2>4
<1>14. ASSUME NEW m \in Methods, AceClose(p, card, m),
              shown' = Replayed(p, card, "ace_close", m)
       PROVE  ReplayIsTheGame' /\ DOMAIN shown'.rows = Suits
  <2> DEFINE cl == closed \cup {card.suit}
             cm == IF closeMethod = "" THEN m ELSE closeMethod
  <2>1. FinishMove(p, hs, faceDown, board, cl, cm)
    BY <1>14 DEF AceClose
  <2>2. shown' = Finished(p, hs, faceDown, shown.rows, cl, cm)
    BY <1>9, <1>10, <1>14 DEF Replayed
  <2> HIDE DEF cl, cm, hs
  <2>3. ReplayIsTheGame' /\ shown'.rows = shown.rows
    BY <1>4, <1>5, <1>9, <1>11, <2>1, <2>2, FinishedAlike
  <2> QED
    BY <1>9, <2>3
<1> QED
  BY <1>1, <1>12, <1>13, <1>14

\* With one deck, the replay of the recorded moves shows the game that was
\* played, at any table and for any suits and ranks: two engines that find the
\* turn, the ends of the sequences and the dead table each in its own way
\* (engine.go and the client's replay.ts).
THEOREM ReplayShowsTheGame ==
    ASSUME DeckCount = 1
    PROVE  ReplaySpec => []ReplayIsTheGame
<1>1. ReplayInit => ReplayInv
  BY InitReplay
<1>2. ReplayInv /\ [ReplayNext]_replayVars => ReplayInv'
  <2> SUFFICES ASSUME ReplayInv, UNCHANGED replayVars PROVE ReplayInv'
    BY NextReplay
  <2>1. UNCHANGED vars /\ shown' = shown
    BY DEF replayVars
  <2>2. Inv'
    BY <2>1, NextInv DEF ReplayInv
  <2> QED
    BY <2>1, <2>2 DEF ReplayInv, ReplayIsTheGame, IsGameOver, Started, vars
<1>3. ReplayInv => ReplayIsTheGame
  BY DEF ReplayInv
<1> QED
  BY <1>1, <1>2, <1>3, PTL DEF ReplaySpec
=============================================================================
