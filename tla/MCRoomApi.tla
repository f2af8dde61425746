------------------------------- MODULE MCRoomApi -------------------------------
EXTENDS RoomApi, TLC

Symmetry == Permutations(Users)

\* What the next state and the API's properties depend on: not sent, which says
\* what the last step did, nor the ids of saved games, which no action reads.
ApiView == <<phase, players, obj, kickedSubs, table, deals,
             [d \in Deals |-> saver[d].pc], voteVars, lifeVars, netVars,
             leaveTimers, apiVars>>
=============================================================================
