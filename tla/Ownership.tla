------------------------------- MODULE Ownership -------------------------------
(***************************************************************************)
(* Which replica drives a room (services/ws/relay/lease.go and             *)
(* services/ws/internal/cluster): a lease in Redis that expires, a fencing *)
(* token counted with every acquisition, and in each replica the           *)
(* ownership of its room object with the goroutine that renews the lease   *)
(* and the subscription that consumes the commands of edge replicas.       *)
(*                                                                         *)
(* A room's state is the list of the moves made in it.  Saves land at once *)
(* and in order: SnapshotStore is about what happens when they do not.     *)
(***************************************************************************)
EXTENDS Integers, Sequences

CONSTANTS
    Replicas,
    None,           \* nobody
    MaxTokens,      \* bound: fencing tokens ever given
    MaxMoves,       \* bound: moves ever made
    MaxClosing,     \* bound: Close calls under way at one replica
    RedisFails      \* whether a Redis command may fail

ASSUME OwnershipAssumption ==
    /\ None \notin Replicas
    /\ MaxTokens \in Nat /\ MaxMoves \in Nat /\ MaxClosing \in Nat
    /\ RedisFails \in BOOLEAN

VARIABLES
    lease,          \* the value of roomlease:{id}, or None
    fence,          \* the value of roomfence:{id}
    key,            \* the durable snapshot: the moves it holds
    moves,          \* moves made so far, anywhere: the next one's name
    admitted,       \* AdmitPlayer calls between Acquire and Promote
    loaded,         \* the manager holds a room object
    log,            \* its moves
    seated,         \* players' sockets at this replica are attached to it
    owner,          \* Ownership.owner
    started,        \* Ownership.started
    token,          \* Ownership.token
    held,           \* Ownership.sub is not nil
    subscribing,    \* Promote calls past their first critical section
    subscribed,     \* Promote calls that hold a subscription of their own
    renewers,       \* renewal goroutines that wait for their ticker
    failed,         \* renewal goroutines whose Renew returned an error
    closing,        \* goroutines about to close the subscription they took
    consumers       \* inbound subscriptions that are open

redisVars == <<lease, fence>>
roomVars == <<key, moves, loaded, log, seated>>
flagVars == <<owner, started, token, held>>
routineVars == <<subscribing, subscribed, renewers, failed, closing, consumers>>
handleVars == <<flagVars, routineVars>>
leaseVars == <<redisVars, roomVars, admitted, handleVars>>

Acquisition == [token : Nat, newly : BOOLEAN]

-----------------------------------------------------------------------------
(* Claiming the lease.                                                     *)

\* A mutant of NewToken: the counter is read, not counted.
CurrentToken == fence

\* INCR roomfence:{id}.
NewToken == fence + 1

\* LeaseManager.Acquire, for a player whose socket is at replica r: the lease was
\* free.
Acquire(r) ==
    /\ lease = None /\ fence < MaxTokens
    /\ lease' = r
    /\ fence' = NewToken
    /\ admitted' = [admitted EXCEPT ![r] = @ \cup {[token |-> NewToken, newly |-> TRUE]}]
    /\ UNCHANGED <<roomVars, handleVars>>

\* The lease is taken but the counting, or its answer, is lost: the player is
\* proxied to an owner who does not exist.
AcquireHalf(r) ==
    /\ RedisFails /\ lease = None /\ fence < MaxTokens
    /\ lease' = r
    /\ fence' \in {fence, fence + 1}
    /\ UNCHANGED <<roomVars, admitted, handleVars>>

\* The lease is this replica's already: whoever asks is let in, without a token.
AcquireOwn(r) ==
    /\ lease = r
    /\ admitted' = [admitted EXCEPT ![r] = @ \cup {[token |-> 0, newly |-> FALSE]}]
    /\ UNCHANGED <<redisVars, roomVars, handleVars>>

\* The TTL ran out before the next renewal: a pause, a slow network, a dead owner.
LeaseExpires ==
    /\ lease # None
    /\ lease' = None
    /\ UNCHANGED <<fence, roomVars, admitted, handleVars>>

-----------------------------------------------------------------------------
(* Owning the room.                                                        *)

\* joinRoom: an object the manager holds is used as it is, a new one is restored.
JoinRoom(r) ==
    /\ loaded' = [loaded EXCEPT ![r] = TRUE]
    /\ log' = IF loaded[r] THEN log ELSE [log EXCEPT ![r] = key]
    /\ UNCHANGED <<key, moves>>

\* The sockets of the players here close.
Disconnect(r) ==
    /\ seated[r]
    /\ seated' = [seated EXCEPT ![r] = FALSE]
    /\ UNCHANGED <<redisVars, key, moves, loaded, log, admitted, handleVars>>

\* A mutant of Starts: every promotion subscribes.
StartsAgain(r) == TRUE

Starts(r) == ~started[r]

\* AdmitPlayer goes on: joinRoom, and Ownership.Promote up to its Unlock.
Promote(r, a) ==
    /\ a \in admitted[r]
    /\ admitted' = [admitted EXCEPT ![r] = @ \ {a}]
    /\ JoinRoom(r)
    /\ seated' = [seated EXCEPT ![r] = TRUE]
    /\ owner' = [owner EXCEPT ![r] = TRUE]
    /\ token' = IF a.newly THEN [token EXCEPT ![r] = a.token] ELSE token
    /\ started' = [started EXCEPT ![r] = TRUE]
    /\ subscribing' = IF Starts(r) THEN [subscribing EXCEPT ![r] = @ + 1]
                      ELSE subscribing
    /\ UNCHANGED <<redisVars, held, subscribed, renewers, failed, closing, consumers>>

\* The room refuses the player (kicked, full, started): nobody is promoted.
JoinRefused(r, a) ==
    /\ a \in admitted[r]
    /\ admitted' = [admitted EXCEPT ![r] = @ \ {a}]
    /\ JoinRoom(r)
    /\ UNCHANGED <<redisVars, seated, handleVars>>

\* Promote goes on: SubscribeInbound opens a subscription.
Subscribe(r) ==
    /\ subscribing[r] > 0
    /\ subscribing' = [subscribing EXCEPT ![r] = @ - 1]
    /\ subscribed' = [subscribed EXCEPT ![r] = @ + 1]
    /\ consumers' = [consumers EXCEPT ![r] = @ + 1]
    /\ UNCHANGED <<redisVars, roomVars, admitted, flagVars, renewers, failed, closing>>

\* The second critical section of Promote: the handle takes the subscription and
\* the renewal goroutine starts; a handle demoted meanwhile lets it be closed.
Keep(r) ==
    /\ subscribed[r] > 0
    /\ subscribed' = [subscribed EXCEPT ![r] = @ - 1]
    /\ held' = [held EXCEPT ![r] = owner[r]]
    /\ IF owner[r]
       THEN renewers' = [renewers EXCEPT ![r] = @ + 1] /\ UNCHANGED closing
       ELSE closing' = [closing EXCEPT ![r] = @ + 1] /\ UNCHANGED renewers
    /\ UNCHANGED <<redisVars, roomVars, admitted, owner, started, token,
                   subscribing, failed, consumers>>

\* A mutant of LeaseLost: ErrNotOwner is not taken for a loss.
LeaseLostIgnored(r) == FALSE

\* Renew answers ErrNotOwner.
LeaseLost(r) == lease # r

\* The renewal goroutine of r has its error and goes on to Demote.
RenewalFailed(r) ==
    /\ renewers[r] > 0 /\ owner[r]
    /\ renewers' = [renewers EXCEPT ![r] = @ - 1]
    /\ failed' = [failed EXCEPT ![r] = @ + 1]
    /\ UNCHANGED <<redisVars, roomVars, admitted, flagVars,
                   subscribing, subscribed, closing, consumers>>

\* The ticker ticks and the lease is not this replica's.
RenewRefused(r) == LeaseLost(r) /\ RenewalFailed(r)

\* The ticker ticks and Redis does not answer.  (A renewal that succeeds changes
\* nothing: expiry is LeaseExpires.)
RenewErrors(r) == RedisFails /\ RenewalFailed(r)

\* What Demote has to close once it let go of the lock.
TakenSubscription(r) == IF held[r] THEN 1 ELSE 0

\* Ownership.Demote by the renewal goroutine, up to its Unlock.
Demote(r) ==
    /\ failed[r] > 0 /\ closing[r] < MaxClosing
    /\ failed' = [failed EXCEPT ![r] = @ - 1]
    /\ owner' = [owner EXCEPT ![r] = FALSE]
    /\ started' = [started EXCEPT ![r] = FALSE]
    /\ held' = [held EXCEPT ![r] = FALSE]
    /\ closing' = [closing EXCEPT ![r] = @ + TakenSubscription(r)]
    /\ UNCHANGED <<redisVars, roomVars, admitted, token,
                   subscribing, subscribed, renewers, consumers>>

\* sub.Close(), and the subscription's goroutine ends.
CloseSubscription(r) ==
    /\ closing[r] > 0
    /\ closing' = [closing EXCEPT ![r] = @ - 1]
    /\ consumers' = [consumers EXCEPT ![r] = @ - 1]
    /\ UNCHANGED <<redisVars, roomVars, admitted, flagVars,
                   subscribing, subscribed, renewers, failed>>

\* A move at replica r, and its save.  A timer or a bot asks who owns the room
\* and so does the consumer of the edges' frames, but handleMessage of a socket
\* that is attached here does not.
Move(r) ==
    /\ loaded[r] /\ moves < MaxMoves
    /\ owner[r] \/ seated[r]
    /\ moves' = moves + 1
    /\ log' = [log EXCEPT ![r] = Append(@, moves + 1)]
    /\ key' = log'[r]
    /\ UNCHANGED <<redisVars, loaded, seated, admitted, handleVars>>

\* The process of r dies and starts again.
Crash(r) ==
    /\ loaded[r] \/ admitted[r] # {} \/ lease = r
    /\ loaded' = [loaded EXCEPT ![r] = FALSE]
    /\ log' = [log EXCEPT ![r] = <<>>]
    /\ seated' = [seated EXCEPT ![r] = FALSE]
    /\ admitted' = [admitted EXCEPT ![r] = {}]
    /\ owner' = [owner EXCEPT ![r] = FALSE]
    /\ started' = [started EXCEPT ![r] = FALSE]
    /\ token' = [token EXCEPT ![r] = 0]
    /\ held' = [held EXCEPT ![r] = FALSE]
    /\ subscribing' = [subscribing EXCEPT ![r] = 0]
    /\ subscribed' = [subscribed EXCEPT ![r] = 0]
    /\ renewers' = [renewers EXCEPT ![r] = 0]
    /\ failed' = [failed EXCEPT ![r] = 0]
    /\ closing' = [closing EXCEPT ![r] = 0]
    /\ consumers' = [consumers EXCEPT ![r] = 0]
    /\ UNCHANGED <<redisVars, key, moves>>

-----------------------------------------------------------------------------
LeaseInit ==
    /\ lease = None /\ fence = 0
    /\ key = <<>> /\ moves = 0
    /\ admitted = [r \in Replicas |-> {}]
    /\ loaded = [r \in Replicas |-> FALSE] /\ log = [r \in Replicas |-> <<>>]
    /\ seated = [r \in Replicas |-> FALSE]
    /\ owner = [r \in Replicas |-> FALSE] /\ started = [r \in Replicas |-> FALSE]
    /\ token = [r \in Replicas |-> 0]
    /\ held = [r \in Replicas |-> FALSE]
    /\ subscribing = [r \in Replicas |-> 0] /\ subscribed = [r \in Replicas |-> 0]
    /\ renewers = [r \in Replicas |-> 0] /\ failed = [r \in Replicas |-> 0]
    /\ closing = [r \in Replicas |-> 0] /\ consumers = [r \in Replicas |-> 0]

LeaseNext ==
    \/ LeaseExpires
    \/ \E r \in Replicas :
        \/ Acquire(r) \/ AcquireHalf(r) \/ AcquireOwn(r)
        \/ \E a \in admitted[r] : Promote(r, a) \/ JoinRefused(r, a)
        \/ Subscribe(r) \/ Keep(r)
        \/ RenewRefused(r) \/ RenewErrors(r) \/ Demote(r) \/ CloseSubscription(r)
        \/ Disconnect(r) \/ Move(r) \/ Crash(r)

LeaseSpec == LeaseInit /\ [][LeaseNext]_leaseVars

\* A goroutine that has begun goes on, and the renewal's ticker ticks for a lease
\* that is lost.  Redis need not fail.
LeaseFairness ==
    \A r \in Replicas :
        /\ WF_leaseVars(Subscribe(r)) /\ WF_leaseVars(Keep(r))
        /\ WF_leaseVars(RenewRefused(r))
        /\ WF_leaseVars(Demote(r)) /\ WF_leaseVars(CloseSubscription(r))

-----------------------------------------------------------------------------
(* Properties.                                                             *)

LeaseTypeOK ==
    /\ lease \in Replicas \cup {None} /\ fence \in Nat
    /\ key \in Seq(Nat) /\ moves \in Nat
    /\ admitted \in [Replicas -> SUBSET Acquisition]
    /\ loaded \in [Replicas -> BOOLEAN] /\ log \in [Replicas -> Seq(Nat)]
    /\ seated \in [Replicas -> BOOLEAN]
    /\ owner \in [Replicas -> BOOLEAN] /\ started \in [Replicas -> BOOLEAN]
    /\ token \in [Replicas -> Nat]
    /\ held \in [Replicas -> BOOLEAN]
    /\ subscribing \in [Replicas -> Nat] /\ subscribed \in [Replicas -> Nat]
    /\ renewers \in [Replicas -> Nat] /\ failed \in [Replicas -> Nat]
    /\ closing \in [Replicas -> Nat] /\ consumers \in [Replicas -> Nat]

\* Through losses of the lease, crashes and sockets that arrive while another is
\* being promoted, an owner has one goroutine that watches its lease, or will
\* start it; it keeps one subscription at most; and any other that is still open
\* has a goroutine about to close it: none is overwritten and left to apply
\* commands for ever, and no owner goes unwatched (Promote and Demote).
NoStrayConsumer ==
    \A r \in Replicas :
        /\ owner[r] <=> started[r]
        /\ held[r] <=> renewers[r] + failed[r] = 1
        /\ subscribing[r] + subscribed[r] + renewers[r] + failed[r]
              = (IF owner[r] THEN 1 ELSE 0)
        /\ consumers[r] = subscribed[r] + (IF held[r] THEN 1 ELSE 0) + closing[r]

\* No two replicas ever hold the same token, so that Inspect's answer (the lease
\* and the token) names one owner at most (LeaseManager.Acquire).
TokensAreUnique ==
    \A r, q \in Replicas :
        /\ token[r] <= fence
        /\ r # q /\ token[r] # 0 => token[r] # token[q]

\* One renewal, one kept consumer and one token for an owner (Promote, Acquire).
OwnersSound == LeaseTypeOK /\ NoStrayConsumer /\ TokensAreUnique

\* A replica that lost the lease finds out, or has it again.
SupersededOwnerStops ==
    \A r \in Replicas : (owner[r] /\ lease # r) ~> (~owner[r] \/ lease = r)

\* --- statements of the documents and comments that do not hold ---

\* "single consumer applies" (docs/architecture.md): Demote unlocks before it
\* closes, and a Promote in between subscribes beside the old consumer, so that
\* both apply the commands of that moment.
SingleConsumer == \A r \in Replicas : consumers[r] <= 1

\* "A demoted owner (lost lease) stops applying, persisting, and publishing"
\* (docs/architecture.md).
DemotedOwnerStops == [][\A r \in Replicas : Move(r) => owner[r]]_leaseVars

\* "every persist/publish carries the token, and a higher token always wins"
\* (relay/lease.go).
HigherTokenWins ==
    [][\A r, q \in Replicas : Move(r) /\ owner[q] => token[r] >= token[q]]_leaseVars

\* "the next replica a player connects to claims the lease, rehydrates from the
\* snapshot" (docs/architecture.md).
TakeoverRehydrates ==
    [][\A r \in Replicas : ~owner[r] /\ owner'[r] => log'[r] = key]_leaseVars

\* "INCR on each acquisition gives every owner a monotonic token"
\* (docs/architecture.md), once nobody is on the way in.
EveryOwnerHasToken ==
    \A r \in Replicas : owner[r] /\ admitted[r] = {} => token[r] # 0
=============================================================================
