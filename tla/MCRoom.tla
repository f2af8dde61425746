-------------------------------- MODULE MCRoom --------------------------------
EXTENDS Room, TLC

Symmetry == Permutations(Users)

\* What the next state depends on: sent only says what the last step did.
RoomView == <<phase, players, obj, kickedSubs, tableVars, voteVars, lifeVars, netVars,
              leaveTimers>>

\* Who sits where: any users, which are interchangeable.
Sitter == CHOOSE name \in [1..MaxPlayers -> Users] :
             \A i, j \in 1..MaxPlayers : name[i] = name[j] => i = j

\* The results screen of a first game, everybody seated and connected by the
\* socket they joined with, its goroutine about to save.
ResultsInit ==
    /\ phase = "playing"
    /\ players = [i \in 1..MaxPlayers |-> i]
    /\ obj = [o \in Objects |->
          IF o > MaxPlayers THEN NoObject
          ELSE [sub |-> Sitter[o], ready |-> TRUE, disconnected |-> FALSE,
                index |-> o - 1, session |-> o, leaveToken |-> 0]]
    /\ kickedSubs = {}
    /\ table = "over" /\ deals = 1 /\ savedGame = 0
    /\ saver = [d \in Deals |->
                  [pc |-> IF d = 1 THEN "read" ELSE "idle", game |-> 0]]
    /\ votes = {} /\ rematchToken = 0 /\ rematchArmed = FALSE /\ rematchTimers = {}
    /\ emptied = FALSE /\ torn = FALSE
    /\ socket = [s \in Sockets |-> IF s <= MaxPlayers THEN s ELSE 0]
    /\ joins = MaxPlayers
    /\ leaveTimers = {}
    /\ sent = {}

ResultsSpec == ResultsInit /\ [][Next]_vars
FairResultsSpec == ResultsSpec /\ Fairness
=============================================================================
