------------------------------ MODULE MCOwnedRoom ------------------------------
(***************************************************************************)
(* A room on replicas that own it in turn, in two parts: the timers of the *)
(* replica that holds it, and the lease with the consumers it has.  One of *)
(* them, "part", runs.                                                     *)
(***************************************************************************)
EXTENDS TurnClock, Ownership

VARIABLE part

vars == <<part, clockVars, leaseVars>>

\* The clock that does not run starts one way.
IdleClock == current = CHOOSE seat \in Seats : TRUE

Init ==
  /\ part \in {"clock", "lease"}
  /\ ClockInit /\ LeaseInit
  /\ part = "lease" => IdleClock

Next ==
  /\ UNCHANGED part
  /\ \/ part = "clock" /\ ClockNext /\ UNCHANGED leaseVars
     \/ part = "lease" /\ LeaseNext /\ UNCHANGED clockVars

\* The fairness of the part that does not run asks for nothing: none of its
\* actions is ever enabled.
Spec == Init /\ [][Next]_vars /\ ClockFairness /\ LeaseFairness

\* What the next state depends on, but for the moves that were made: no action
\* that the run's properties are about reads them.
OwnedRoomView == <<part, clockVars, redisVars, admitted, loaded, seated, handleVars>>
=============================================================================
