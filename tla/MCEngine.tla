------------------------------- MODULE MCEngine -------------------------------
EXTENDS Replay

\* The finished game may stutter; nothing else may stop.
Over == IsGameOver(hands) /\ UNCHANGED replayVars
NextOrOver == ReplayNext \/ Over
MCSpec == ReplayInit /\ [][NextOrOver]_replayVars /\ WF_replayVars(ReplayNext)
=============================================================================
