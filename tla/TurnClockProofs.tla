---------------------------- MODULE TurnClockProofs ----------------------------
(***************************************************************************)
(* Proofs about TurnClock, for any table and any number of turns.          *)
(*                                                                         *)
(* That the token names the turn is not inductive.  It needs that no timer *)
(* holds a token greater than the room's, that a live game has counted at  *)
(* least one, and that nothing waits in a process that has not loaded the  *)
(* room (UnloadedIsEmpty).  That the clock runs is inductive.              *)
(***************************************************************************)
EXTENDS TurnClock, TLAPS

TokensAreCounted ==
    /\ \A timer \in expired \cup {armed} : timer.token <= turnToken
    /\ game = "live" => turnToken > 0

UnloadedIsEmpty ==
    ~inMemory => game = "none" /\ expired = {} /\ armed = NoTimer

Inv == ClockTypeOK /\ TokensAreCounted /\ UnloadedIsEmpty /\ TokenNamesTurn

\* What one turn does to the clock: a started timer carries a token no other
\* timer has.
LEMMA StartedTimer ==
    ASSUME ClockTypeOK, TokensAreCounted, NextTurn, StartTurnTimer
    PROVE  /\ turn' \in Nat /\ current' \in Seats
           /\ turnToken' \in Nat /\ turnToken' = turnToken + 1 /\ armed' \in Timers
           /\ armed'.token = turnToken' /\ armed'.turn = turn'
           /\ \A timer \in expired : timer.token < turnToken'
  <1>1. turnToken \in Nat /\ turn \in Nat /\ expired \subseteq Timers
    BY DEF ClockTypeOK
  <1>2. \A timer \in expired : timer.token \in Nat
    BY <1>1 DEF Timers
  <1>3. turn' \in Nat /\ turnToken' \in Nat
    BY <1>1 DEF NextTurn, StartTurnTimer
  <1> QED
    BY <1>1, <1>2, <1>3 DEF NextTurn, StartTurnTimer, Timers, TokensAreCounted

LEMMA InitInv == ClockInit => Inv
  <1> SUFFICES ASSUME ClockInit PROVE Inv
    OBVIOUS
  <1>1. NoTimer \in Timers
    BY DEF NoTimer, Timers
  <1>2. inMemory \in BOOLEAN /\ isOwner \in BOOLEAN /\ lapsed \in BOOLEAN
    BY Zenon DEF ClockInit
  <1> QED
    BY <1>1, <1>2 DEF ClockInit, Inv, ClockTypeOK, TokensAreCounted, UnloadedIsEmpty,
                TokenNamesTurn, Games, BotTimers, NoTimer

\* Every move, whoever makes it: the state it finds is live and loaded, and it
\* may take timers from those that wait.
LEMMA PlayInv ==
    ASSUME Inv, game = "live", Play,
           inMemory' = inMemory, isOwner' = isOwner, restarts' = restarts,
           expired' \subseteq expired, botTimers' \subseteq botTimers
    PROVE  Inv'
  <1>1. CASE game' = "over" /\ UNCHANGED <<bots, current, turn, timerVars, waking>> /\ Save
    <2>1. ClockTypeOK'
      BY <1>1 DEF Inv, ClockTypeOK, Save, Games, timerVars
    <2>2. TokensAreCounted' /\ TokenNamesTurn' /\ UnloadedIsEmpty'
      BY <1>1 DEF Inv, TokensAreCounted, TokenNamesTurn, UnloadedIsEmpty, timerVars
    <2> QED
      BY <2>1, <2>2 DEF Inv
  <1>2. CASE NextTurn /\ StartTurnTimer /\ waking' = waking + 1
             /\ UNCHANGED <<game, bots>> /\ Save
    <2>1. /\ turn' \in Nat /\ current' \in Seats
          /\ turnToken' \in Nat /\ turnToken' = turnToken + 1 /\ armed' \in Timers
          /\ armed'.token = turnToken' /\ armed'.turn = turn'
          /\ \A timer \in expired : timer.token < turnToken'
      BY <1>2, StartedTimer DEF Inv
    <2>2. turnToken \in Nat /\ waking' \in Nat
      BY <1>2 DEF Inv, ClockTypeOK
    <2> lapsed' \in BOOLEAN
      BY <1>2, Zenon DEF StartTurnTimer
    <2>3. ClockTypeOK'
      BY <1>2, <2>1, <2>2 DEF Inv, ClockTypeOK, Save
    <2>4. \A timer \in expired' : timer.token \in Nat /\ timer.token < turnToken'
      BY <2>1 DEF Inv, ClockTypeOK, Timers
    <2>5. TokensAreCounted'
      BY <2>1, <2>2, <2>4 DEF TokensAreCounted
    <2>6. TokenNamesTurn'
      BY <2>1, <2>4 DEF TokenNamesTurn
    <2>7. UnloadedIsEmpty'
      BY <1>2 DEF Inv, UnloadedIsEmpty
    <2> QED
      BY <2>3, <2>5, <2>6, <2>7 DEF Inv
  <1> QED
    BY <1>1, <1>2 DEF Play

LEMMA DealInv == Inv /\ Deal => Inv'
  <1> SUFFICES ASSUME Inv, Deal PROVE Inv'
    OBVIOUS
  <1>1. NextTurn /\ StartTurnTimer
    BY DEF Deal
  <1>2. /\ turn' \in Nat /\ current' \in Seats
        /\ turnToken' \in Nat /\ turnToken' = turnToken + 1 /\ armed' \in Timers
        /\ armed'.token = turnToken' /\ armed'.turn = turn'
        /\ \A timer \in expired : timer.token < turnToken'
    BY <1>1, StartedTimer DEF Inv
  <1>3. turnToken \in Nat /\ waking' \in Nat
    BY DEF Inv, ClockTypeOK, Deal
  <1> lapsed' \in BOOLEAN
    BY <1>1, Zenon DEF StartTurnTimer
  <1>4. ClockTypeOK'
    BY <1>2, <1>3 DEF Inv, ClockTypeOK, Deal, Save, Games
  <1>5. \A timer \in expired' : timer.token \in Nat /\ timer.token < turnToken'
    BY <1>2 DEF Inv, ClockTypeOK, Timers, Deal
  <1>6. TokensAreCounted'
    BY <1>2, <1>3, <1>5 DEF TokensAreCounted
  <1>7. TokenNamesTurn'
    BY <1>2, <1>5 DEF TokenNamesTurn
  <1>8. UnloadedIsEmpty'
    BY DEF Deal, UnloadedIsEmpty
  <1> QED
    BY <1>4, <1>6, <1>7, <1>8 DEF Inv

\* A timer that fires leaves its token with the handler.
LEMMA TurnTimerFiresInv == Inv /\ TurnTimerFires => Inv'
  <1> SUFFICES ASSUME Inv, TurnTimerFires PROVE Inv'
    OBVIOUS
  <1>1. NoTimer \in Timers /\ NoTimer.token = 0 /\ turnToken \in Nat
    BY DEF NoTimer, Timers, Inv, ClockTypeOK
  <1>2. expired' \subseteq expired \cup {armed} /\ armed' = NoTimer
    BY DEF TurnTimerFires
  <1>3. ClockTypeOK'
    BY <1>1, <1>2 DEF Inv, ClockTypeOK, TurnTimerFires, gameVars
  <1>4. TokensAreCounted'
    BY <1>1, <1>2 DEF Inv, TokensAreCounted, TurnTimerFires, gameVars
  <1>5. TokenNamesTurn'
    BY <1>1, <1>2 DEF Inv, TokensAreCounted, TokenNamesTurn, TurnTimerFires, gameVars
  <1>6. UnloadedIsEmpty'
    BY <1>2 DEF Inv, UnloadedIsEmpty, TurnTimerFires, gameVars
  <1> QED
    BY <1>3, <1>4, <1>5, <1>6 DEF Inv

LEMMA TimeoutInv ==
    ASSUME Inv, NEW timer \in expired, TimeoutPlays(timer) \/ TimeoutIgnored(timer)
    PROVE  Inv'
  <1>1. CASE TimeoutPlays(timer)
    BY <1>1, PlayInv DEF TimeoutPlays, TimeoutCounts
  <1>2. CASE TimeoutIgnored(timer)
    <2>1. ClockTypeOK'
      BY <1>2 DEF Inv, ClockTypeOK, TimeoutIgnored, gameVars, timerVars
    <2>2. TokensAreCounted' /\ TokenNamesTurn' /\ UnloadedIsEmpty'
      BY <1>2 DEF Inv, TokensAreCounted, TokenNamesTurn, UnloadedIsEmpty,
                  TimeoutIgnored, gameVars, timerVars
    <2> QED
      BY <2>1, <2>2 DEF Inv
  <1> QED
    BY <1>1, <1>2

LEMMA BotTimerInv ==
    ASSUME Inv, NEW timer \in botTimers, BotPlays(timer) \/ BotIgnored(timer)
    PROVE  Inv'
  <1>1. CASE BotPlays(timer)
    BY <1>1, PlayInv DEF BotPlays, BotMayPlay
  <1>2. CASE BotIgnored(timer)
    <2>1. ClockTypeOK'
      BY <1>2 DEF Inv, ClockTypeOK, BotIgnored, gameVars, timerVars
    <2>2. TokensAreCounted' /\ TokenNamesTurn' /\ UnloadedIsEmpty'
      BY <1>2 DEF Inv, TokensAreCounted, TokenNamesTurn, UnloadedIsEmpty,
                  BotIgnored, gameVars, timerVars
    <2> QED
      BY <2>1, <2>2 DEF Inv
  <1> QED
    BY <1>1, <1>2

LEMMA PlayBotIfNeededInv == Inv /\ PlayBotIfNeeded => Inv'
  <1> SUFFICES ASSUME Inv, PlayBotIfNeeded PROVE Inv'
    OBVIOUS
  <1>1. [seat |-> current, turn |-> turn] \in BotTimers
    BY DEF Inv, ClockTypeOK, BotTimers
  <1>2. waking' \in Nat
    BY DEF Inv, ClockTypeOK, PlayBotIfNeeded
  <1>3. ClockTypeOK'
    BY <1>1, <1>2 DEF Inv, ClockTypeOK, PlayBotIfNeeded, gameVars, timerVars
  <1>4. TokensAreCounted' /\ TokenNamesTurn' /\ UnloadedIsEmpty'
    BY DEF Inv, TokensAreCounted, TokenNamesTurn, UnloadedIsEmpty,
           PlayBotIfNeeded, gameVars, timerVars
  <1> QED
    BY <1>3, <1>4 DEF Inv

LEMMA ReturnInv == Inv /\ ReturnToWaitingRoom => Inv'
  <1> SUFFICES ASSUME Inv, ReturnToWaitingRoom PROVE Inv'
    OBVIOUS
  <1>1. ClockTypeOK'
    BY DEF Inv, ClockTypeOK, ReturnToWaitingRoom, timerVars, Save, Games
  <1>2. TokensAreCounted' /\ TokenNamesTurn' /\ UnloadedIsEmpty'
    BY DEF Inv, TokensAreCounted, TokenNamesTurn, UnloadedIsEmpty,
           ReturnToWaitingRoom, timerVars
  <1> QED
    BY <1>1, <1>2 DEF Inv

LEMMA LeaseInv == Inv /\ (LoseLease \/ ClaimLease) => Inv'
  <1> SUFFICES ASSUME Inv, LoseLease \/ ClaimLease PROVE Inv'
    OBVIOUS
  <1>1. ClockTypeOK'
    BY DEF Inv, ClockTypeOK, LoseLease, ClaimLease, gameVars, timerVars
  <1>2. TokensAreCounted' /\ TokenNamesTurn' /\ UnloadedIsEmpty'
    BY DEF Inv, TokensAreCounted, TokenNamesTurn, UnloadedIsEmpty, LoseLease,
           ClaimLease, gameVars, timerVars
  <1> QED
    BY <1>1, <1>2 DEF Inv

LEMMA RestartInv == Inv /\ Restart => Inv'
  <1> SUFFICES ASSUME Inv, Restart PROVE Inv'
    OBVIOUS
  <1>1. NoTimer \in Timers /\ NoTimer.token = 0
    BY DEF NoTimer, Timers
  <1>2. restarts' \in Nat
    BY DEF Inv, ClockTypeOK, Restart
  <1>3. ClockTypeOK'
    BY <1>1, <1>2 DEF Inv, ClockTypeOK, Restart, Games
  <1>4. TokensAreCounted' /\ TokenNamesTurn' /\ UnloadedIsEmpty'
    BY <1>1 DEF TokensAreCounted, TokenNamesTurn, UnloadedIsEmpty, Restart
  <1> QED
    BY <1>3, <1>4 DEF Inv

\* The snapshot's token is one behind the clock's, which matters to nobody: the
\* timers it could be confused with died with the process.
LEMMA LoadInv == Inv /\ Load => Inv'
  <1> SUFFICES ASSUME Inv, Load PROVE Inv'
    OBVIOUS
  <1>1. expired' = {} /\ NoTimer \in Timers /\ NoTimer.token = 0
    BY DEF Inv, UnloadedIsEmpty, Load, NoTimer, Timers
  <1>2. /\ saved.token \in Nat /\ saved.turn \in Nat /\ saved.game \in Games
        /\ saved.bots \in SUBSET Seats /\ saved.current \in Seats
    BY DEF Inv, ClockTypeOK
  <1>3. CASE saved.game = "live"
    <2>1. /\ turnToken' \in Nat /\ turnToken' > 0 /\ armed' \in Timers
          /\ armed'.token = turnToken' /\ armed'.turn = turn'
      BY <1>2, <1>3 DEF Load, Timers
    <2>2. ClockTypeOK'
      BY <1>1, <1>2, <2>1 DEF Inv, ClockTypeOK, Load
    <2>3. TokensAreCounted' /\ TokenNamesTurn' /\ UnloadedIsEmpty'
      BY <1>1, <2>1 DEF TokensAreCounted, TokenNamesTurn, UnloadedIsEmpty, Load
    <2> QED
      BY <2>2, <2>3 DEF Inv
  <1>4. CASE saved.game # "live"
    <2>1. turnToken' \in Nat /\ armed' = NoTimer /\ game' # "live"
      BY <1>2, <1>4 DEF Load
    <2>2. ClockTypeOK'
      BY <1>1, <1>2, <2>1 DEF Inv, ClockTypeOK, Load
    <2>3. TokensAreCounted' /\ TokenNamesTurn' /\ UnloadedIsEmpty'
      BY <1>1, <2>1 DEF TokensAreCounted, TokenNamesTurn, UnloadedIsEmpty, Load
    <2> QED
      BY <2>2, <2>3 DEF Inv
  <1> QED
    BY <1>3, <1>4

LEMMA StepInv == Inv /\ [ClockNext]_clockVars => Inv'
  <1> SUFFICES ASSUME Inv, [ClockNext]_clockVars PROVE Inv'
    OBVIOUS
  <1>1. CASE Deal
    BY <1>1, DealInv
  <1>2. CASE ReturnToWaitingRoom
    BY <1>2, ReturnInv
  <1>3. CASE HumanMove
    BY <1>3, PlayInv DEF HumanMove
  <1>4. CASE Clock
    BY <1>4, TurnTimerFiresInv, TimeoutInv DEF Clock
  <1>5. CASE Bots
    BY <1>5, PlayBotIfNeededInv, BotTimerInv DEF Bots
  <1>6. CASE LoseLease \/ ClaimLease
    BY <1>6, LeaseInv
  <1>7. CASE Restart
    BY <1>7, RestartInv
  <1>8. CASE Load
    BY <1>8, LoadInv
  <1>9. CASE UNCHANGED clockVars
    BY <1>9 DEF Inv, ClockTypeOK, TokensAreCounted, TokenNamesTurn, UnloadedIsEmpty,
                clockVars, gameVars, timerVars
  <1> QED
    BY <1>1, <1>2, <1>3, <1>4, <1>5, <1>6, <1>7, <1>8, <1>9 DEF ClockNext

LEMMA AlwaysInv == ClockSpec => []Inv
  BY InitInv, StepInv, PTL DEF ClockSpec

\* Every variable of the clock keeps its type, in every behaviour.
THEOREM TypeCorrect == ClockSpec => []ClockTypeOK
  <1>1. Inv => ClockTypeOK
    BY DEF Inv
  <1> QED
    BY <1>1, AlwaysInv, PTL

\* No timeout ever makes the move of a turn it was not started for, at any
\* table, with any number of games, lost leases and restarts.
THEOREM TimeoutsKeepToTheirTurn == ClockSpec => []TokenNamesTurn
  <1>1. Inv => TokenNamesTurn
    BY DEF Inv
  <1> QED
    BY <1>1, AlwaysInv, PTL

-----------------------------------------------------------------------------
(* The clock of a live game.                                               *)

LEMMA PlayClock ==
    ASSUME ClockRuns, Play, game = "live", inMemory' = inMemory
    PROVE  ClockRuns'
  BY DEF Play, ClockRuns, StartTurnTimer, NextTurn

LEMMA StepClock == ClockRuns /\ [ClockNext]_clockVars => ClockRuns'
  <1> SUFFICES ASSUME ClockRuns, [ClockNext]_clockVars PROVE ClockRuns'
    OBVIOUS
  <1>1. CASE Deal
    BY <1>1 DEF Deal, StartTurnTimer, ClockRuns
  <1>2. CASE ReturnToWaitingRoom
    BY <1>2 DEF ReturnToWaitingRoom, ClockRuns
  <1>3. CASE HumanMove
    BY <1>3, PlayClock DEF HumanMove
  <1>4. CASE TurnTimerFires
    <2>1. /\ inMemory' = inMemory /\ game' = game /\ turnToken' = turnToken
      BY <1>4 DEF TurnTimerFires, gameVars
    <2>2. CASE isOwner
      <3>1. expired' = expired \cup {armed}
        BY <1>4, <2>2 DEF TurnTimerFires
      <3>2. lapsed' = lapsed
        BY <1>4, <2>2 DEF TurnTimerFires
      <3> QED
        BY <2>1, <3>1, <3>2 DEF ClockRuns
    <2>3. CASE ~isOwner
      <3>1. lapsed' = TRUE
        BY <1>4, <2>3 DEF TurnTimerFires
      <3> QED
        BY <3>1 DEF ClockRuns
    <2> QED
      BY <2>2, <2>3
  <1>5. ASSUME NEW timer \in expired, TimeoutPlays(timer)
        PROVE  ClockRuns'
    BY <1>5, PlayClock DEF TimeoutPlays, TimeoutCounts
  <1>6. ASSUME NEW timer \in expired, TimeoutIgnored(timer)
        PROVE  ClockRuns'
    BY <1>6 DEF TimeoutIgnored, TimeoutCounts, ClockRuns, gameVars, timerVars
  <1>7. CASE PlayBotIfNeeded
    BY <1>7 DEF PlayBotIfNeeded, ClockRuns, gameVars, timerVars
  <1>8. ASSUME NEW timer \in botTimers, BotPlays(timer)
        PROVE  ClockRuns'
    BY <1>8, PlayClock DEF BotPlays, BotMayPlay
  <1>9. ASSUME NEW timer \in botTimers, BotIgnored(timer)
        PROVE  ClockRuns'
    BY <1>9 DEF BotIgnored, ClockRuns, gameVars, timerVars
  <1>10. CASE LoseLease \/ ClaimLease
    BY <1>10 DEF LoseLease, ClaimLease, ClockRuns, gameVars, timerVars
  <1>11. CASE Restart
    BY <1>11 DEF Restart, ClockRuns
  <1>12. CASE Load
    BY <1>12 DEF Load, ClockRuns
  <1>13. CASE UNCHANGED clockVars
    BY <1>13 DEF ClockRuns, clockVars, gameVars, timerVars
  <1> QED
    BY <1>1, <1>2, <1>3, <1>4, <1>5, <1>6, <1>7, <1>8, <1>9, <1>10, <1>11,
       <1>12, <1>13 DEF ClockNext, Clock, Bots

\* A game that is running always has a clock that will end its turn, unless the
\* clock ran out while the replica did not own the room.
THEOREM GamesDoNotStall == ClockSpec => []ClockRuns
  <1>1. ClockInit => ClockRuns
    BY DEF ClockInit, ClockRuns
  <1> QED
    BY <1>1, StepClock, PTL DEF ClockSpec

\* A turn has one clock and no clock two turns, at any table and for any number
\* of turns and restarts.
THEOREM ClockIsSound == ClockSpec => []ClockSound
BY TypeCorrect, TimeoutsKeepToTheirTurn, GamesDoNotStall, PTL DEF ClockSound
=============================================================================
