------------------------------- MODULE TurnClock -------------------------------
(***************************************************************************)
(* Who moves when (services/ws/internal/room: gameplay.go, timers.go,      *)
(* bots.go): every turn of a game is made by its player, by the turn timer *)
(* or by the timer of a bot, whichever comes first.  Timers that have      *)
(* fired wait for room.mu beside the sockets' goroutines; playBotIfNeeded  *)
(* runs after the lock was given up.  The replica may lose and regain the  *)
(* room's lease, and the process may die and load the room again.          *)
(*                                                                         *)
(* A turn passes to any seat, or ends the game: whose turn it is next is   *)
(* SevenSpadeEngine's matter.  Turns are numbered through all games, so    *)
(* that a timer can be asked which turn it was started for.                *)
(***************************************************************************)
EXTENDS Integers

CONSTANTS
    Seats,          \* the seats of the table
    MaxTurns,       \* bound: turns ever begun
    MaxRestarts     \* bound: deaths of the process

ASSUME ClockAssumption ==
    /\ Seats # {} /\ MaxTurns \in Nat /\ MaxRestarts \in Nat

NoTimer == [token |-> 0, turn |-> 0]

VARIABLES
    inMemory,       \* the process holds the room
    isOwner,        \* isOwnerOrSolo()
    game,           \* "none" (~room.started), "live" or "over"
    bots,           \* seats played by a bot
    current,        \* state.CurrentPlayer
    turn,           \* the number of the current turn
    turnToken,      \* room.turnTimerToken
    armed,          \* room.turnTimer while it has not fired, else NoTimer
    lapsed,         \* the last timer fired without an owner: none is left
    expired,        \* turn timers that fired and wait for room.mu
    waking,         \* goroutines about to call playBotIfNeeded
    botTimers,      \* bot timers that have not fired: seat, and turn of origin
    saved,          \* what the durable snapshot says of all this
    restarts        \* deaths so far

gameVars == <<game, bots, current, turn>>
timerVars == <<turnToken, armed, lapsed>>
clockVars == <<inMemory, isOwner, gameVars, timerVars, expired, waking, botTimers, saved,
          restarts>>

Timers == [token : Nat, turn : Nat]
BotTimers == [seat : Seats, turn : Nat]
Games == {"none", "live", "over"}

-----------------------------------------------------------------------------
\* A mutant of StartTurnTimer: the timer captures the token before it is counted.
StartLateToken ==
    /\ turnToken' = turnToken + 1
    /\ armed' = [token |-> turnToken, turn |-> turn'] /\ lapsed' = FALSE

\* startTurnTimerLocked: a timer that has not fired is stopped.
StartTurnTimer ==
    /\ turnToken' = turnToken + 1
    /\ armed' = [token |-> turnToken + 1, turn |-> turn'] /\ lapsed' = FALSE

\* persistLocked, which every caller calls before it starts the turn timer.
Save == saved' = [game |-> game', bots |-> bots', current |-> current',
                  turn |-> turn', token |-> turnToken]

NextTurn ==
    /\ turn < MaxTurns
    /\ turn' = turn + 1
    /\ current' \in Seats

\* A mutant of Play: the clock of the next turn is not started.
PlayUntimed ==
    \/ /\ NextTurn
       /\ waking' = waking + 1
       /\ UNCHANGED <<game, bots, timerVars>>
       /\ Save
    \/ /\ game' = "over"
       /\ UNCHANGED <<bots, current, turn, timerVars, waking>>
       /\ Save

\* A move: the tail that handleMessage, handleTurnTimerExpired and
\* executeBotMove share.
Play ==
    \/ /\ NextTurn
       /\ StartTurnTimer
       /\ waking' = waking + 1
       /\ UNCHANGED <<game, bots>>
       /\ Save
    \/ /\ game' = "over"
       /\ UNCHANGED <<bots, current, turn, timerVars, waking>>
       /\ Save

-----------------------------------------------------------------------------
\* handleStartGame chooses the seats bots fill; a rematch keeps them.
Deal ==
    /\ inMemory /\ game # "live"
    /\ game' = "live"
    /\ bots' \in SUBSET Seats /\ bots' # Seats
    /\ game = "over" => bots' = bots
    /\ NextTurn
    /\ StartTurnTimer
    /\ waking' = waking + 1
    /\ Save
    /\ UNCHANGED <<inMemory, isOwner, expired, botTimers, restarts>>

\* returnToWaitingRoomLocked: no timer is touched.
ReturnToWaitingRoom ==
    /\ inMemory /\ game = "over"
    /\ game' = "none"
    /\ UNCHANGED <<inMemory, isOwner, bots, current, turn, timerVars, expired,
                   waking, botTimers, restarts>>
    /\ Save

\* handleMessage from the socket of the seat whose turn it is.
HumanMove ==
    /\ inMemory /\ game = "live" /\ current \notin bots
    /\ Play
    /\ UNCHANGED <<inMemory, isOwner, expired, botTimers, restarts>>

\* The turn timer fires; its handler looks at the ownership before the lock.
TurnTimerFires ==
    /\ armed # NoTimer
    /\ armed' = NoTimer
    /\ expired' = IF isOwner THEN expired \cup {armed} ELSE expired
    /\ lapsed' = IF isOwner THEN lapsed ELSE TRUE
    /\ UNCHANGED <<inMemory, isOwner, gameVars, turnToken, waking, botTimers, saved,
                   restarts>>

\* handleTurnTimerExpired under the lock, and the cases it ignores.
TimeoutCounts(timer) == game = "live" /\ timer.token = turnToken

TimeoutPlays(timer) ==
    /\ timer \in expired /\ TimeoutCounts(timer)
    /\ expired' = expired \ {timer}
    /\ Play
    /\ UNCHANGED <<inMemory, isOwner, botTimers, restarts>>

TimeoutIgnored(timer) ==
    /\ timer \in expired /\ ~TimeoutCounts(timer)
    /\ expired' = expired \ {timer}
    /\ UNCHANGED <<inMemory, isOwner, gameVars, timerVars, waking, botTimers, saved,
                   restarts>>

\* playBotIfNeeded.
PlayBotIfNeeded ==
    /\ waking > 0
    /\ waking' = waking - 1
    /\ botTimers' = IF isOwner /\ game = "live" /\ current \in bots
                    THEN botTimers \cup {[seat |-> current, turn |-> turn]}
                    ELSE botTimers
    /\ UNCHANGED <<inMemory, isOwner, gameVars, timerVars, expired, saved, restarts>>

\* executeBotMove: the timer has no token, the seat is what counts.
BotMayPlay(timer) ==
    isOwner /\ game = "live" /\ current = timer.seat /\ timer.seat \in bots

BotPlays(timer) ==
    /\ timer \in botTimers /\ BotMayPlay(timer)
    /\ botTimers' = botTimers \ {timer}
    /\ Play
    /\ UNCHANGED <<inMemory, isOwner, expired, restarts>>

BotIgnored(timer) ==
    /\ timer \in botTimers /\ ~BotMayPlay(timer)
    /\ botTimers' = botTimers \ {timer}
    /\ UNCHANGED <<inMemory, isOwner, gameVars, timerVars, expired, waking, saved,
                   restarts>>

-----------------------------------------------------------------------------
(* The replica and the process.                                            *)

\* The lease is lost, or claimed again by a player who connects here.
LoseLease ==
    /\ inMemory /\ isOwner
    /\ isOwner' = FALSE
    /\ UNCHANGED <<inMemory, gameVars, timerVars, expired, waking, botTimers,
                   saved, restarts>>

ClaimLease ==
    /\ inMemory /\ ~isOwner
    /\ isOwner' = TRUE
    /\ UNCHANGED <<inMemory, gameVars, timerVars, expired, waking, botTimers,
                   saved, restarts>>

\* What lives in memory is gone.
Restart ==
    /\ restarts < MaxRestarts
    /\ restarts' = restarts + 1
    /\ inMemory' = FALSE /\ isOwner' = TRUE
    /\ game' = "none" /\ bots' = {}
    /\ turnToken' = 0 /\ armed' = NoTimer /\ lapsed' = FALSE
    /\ expired' = {} /\ waking' = 0 /\ botTimers' = {}
    /\ UNCHANGED <<current, turn, saved>>

\* joinRoom on a room the process does not hold: restoreFromSnapshotLocked.  No
\* bot is woken.
Load ==
    /\ ~inMemory
    /\ inMemory' = TRUE
    /\ game' = saved.game /\ bots' = saved.bots /\ current' = saved.current
    /\ turn' = saved.turn
    /\ turnToken' = IF saved.game = "live" THEN saved.token + 1 ELSE saved.token
    /\ armed' = IF saved.game = "live"
                THEN [token |-> saved.token + 1, turn |-> saved.turn] ELSE NoTimer
    /\ lapsed' = FALSE
    /\ UNCHANGED <<isOwner, expired, waking, botTimers, saved, restarts>>

-----------------------------------------------------------------------------
ClockInit ==
    /\ inMemory = TRUE /\ isOwner = TRUE
    /\ game = "none" /\ bots = {} /\ current \in Seats /\ turn = 0
    /\ turnToken = 0 /\ armed = NoTimer /\ lapsed = FALSE
    /\ expired = {} /\ waking = 0 /\ botTimers = {}
    /\ saved = [game |-> "none", bots |-> {}, current |-> current, turn |-> 0,
                token |-> 0]
    /\ restarts = 0

Clock == TurnTimerFires \/ \E timer \in expired : TimeoutPlays(timer) \/ TimeoutIgnored(timer)

Bots ==
    \/ PlayBotIfNeeded
    \/ \E timer \in botTimers : BotPlays(timer) \/ BotIgnored(timer)

ClockNext ==
    \/ Deal \/ ReturnToWaitingRoom \/ HumanMove
    \/ Clock \/ Bots
    \/ LoseLease \/ ClaimLease \/ Restart \/ Load

ClockSpec == ClockInit /\ [][ClockNext]_clockVars

\* Timers fire and their handlers get the lock; no player is assumed to do
\* anything.
ClockFairness == WF_clockVars(Clock) /\ WF_clockVars(Bots)

-----------------------------------------------------------------------------
(* Properties.                                                             *)

ClockTypeOK ==
    /\ inMemory \in BOOLEAN /\ isOwner \in BOOLEAN
    /\ game \in Games /\ bots \in SUBSET Seats /\ current \in Seats
    /\ turn \in Nat /\ turnToken \in Nat
    /\ armed \in Timers /\ lapsed \in BOOLEAN /\ expired \in SUBSET Timers
    /\ waking \in Nat /\ botTimers \in SUBSET BotTimers
    /\ saved \in [game : Games, bots : SUBSET Seats, current : Seats,
                  turn : Nat, token : Nat]
    /\ restarts \in Nat

\* The token a timer must present is that of one turn only: a timeout that was
\* waiting for the lock while the player moved, the game ended or a rematch was
\* dealt never makes somebody else's move (handleTurnTimerExpired).
TokenNamesTurn ==
    \A timer \in expired \cup {armed} :
        game = "live" /\ timer.token = turnToken => timer.turn = turn

\* A live game always has a clock that will end its turn, armed or fired and
\* waiting with a valid token, through every move, rematch, return and reload:
\* it is only ever lost by firing while the replica does not own the room.
ClockRuns ==
    inMemory /\ game = "live" /\ ~lapsed =>
        \E timer \in expired \cup {armed} : timer.token = turnToken

\* A turn has one clock, and no clock two turns (startTurnTimerLocked).
ClockSound == ClockTypeOK /\ TokenNamesTurn /\ ClockRuns

\* With nobody at the table and no bot in turn, every turn still ends, through
\* games, returns, reloads and losses of the lease, unless its timer fires while
\* the replica does not own the room: that timer is used up, no claim of the room
\* arms another (ReclaimedRoomHasClock, which fails), and only the player whose
\* turn it is can go on (handleTurnTimerExpired).
TurnsEnd ==
    \A t \in 1..MaxTurns :
        (inMemory /\ game = "live" /\ turn = t)
            ~> (turn # t \/ game # "live" \/ ~inMemory \/ lapsed)

\* --- statements of the documents and comments that do not hold ---

\* "Auto-play on timeout is authoritative; only the owner fires it." (timers.go)
OnlyOwnerAutoPlays ==
    [][\A timer \in expired : TimeoutPlays(timer) => isOwner]_clockVars

\* "the next replica a player connects to claims the lease, rehydrates from the
\* snapshot, re-arms the turn timer, and resumes" (docs/architecture.md): a replica
\* that claims a room it still holds arms nothing (Promote).
ReclaimedRoomHasClock ==
    inMemory /\ isOwner /\ game = "live" =>
        \E timer \in expired \cup {armed} : timer.token = turnToken

\* "an in-progress game's turn timer resumes so auto-play keeps it moving even
\* before anyone returns" (docs/architecture.md).
ResumesAlone == (~inMemory /\ saved.game = "live") ~> inMemory
=============================================================================
