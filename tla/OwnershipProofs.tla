---------------------------- MODULE OwnershipProofs ----------------------------
(***************************************************************************)
(* Proofs about Ownership, for any number of replicas, acquisitions and    *)
(* moves.                                                                  *)
(*                                                                         *)
(* TokensAreUnique is not inductive: a token is given in Acquire and       *)
(* reaches its handle only in Promote.  The invariant is about all the     *)
(* tokens a replica holds, in its handle or on the way to it.              *)
(***************************************************************************)
EXTENDS Ownership, TLAPS

Held(r) == {token[r]} \cup {a.token : a \in admitted[r]}

TokensAreApart ==
    /\ \A r \in Replicas : \A t \in Held(r) : t \in Nat /\ t <= fence
    /\ \A r, q \in Replicas : r # q => Held(r) \cap Held(q) \subseteq {0}

Inv == LeaseTypeOK /\ NoStrayConsumer /\ TokensAreApart

\* What NoStrayConsumer says of one replica.
Accounted(r) ==
    /\ owner[r] <=> started[r]
    /\ held[r] <=> renewers[r] + failed[r] = 1
    /\ subscribing[r] + subscribed[r] + renewers[r] + failed[r]
          = (IF owner[r] THEN 1 ELSE 0)
    /\ consumers[r] = subscribed[r] + (IF held[r] THEN 1 ELSE 0) + closing[r]

LEMMA InitInv == LeaseInit => Inv
  <1> SUFFICES ASSUME LeaseInit PROVE Inv
    OBVIOUS
  <1>1. LeaseTypeOK
    BY DEF LeaseInit, LeaseTypeOK, Acquisition
  <1>2. NoStrayConsumer
    <2> SUFFICES ASSUME NEW r \in Replicas PROVE Accounted(r)
      BY DEF NoStrayConsumer, Accounted
    <2>1. owner[r] = FALSE /\ started[r] = FALSE /\ held[r] = FALSE
      BY DEF LeaseInit
    <2>2. /\ subscribing[r] = 0 /\ subscribed[r] = 0 /\ renewers[r] = 0
          /\ failed[r] = 0 /\ closing[r] = 0 /\ consumers[r] = 0
      BY DEF LeaseInit
    <2> QED
      BY <2>1, <2>2 DEF Accounted
  <1>3. \A r \in Replicas : Held(r) = {0}
    BY DEF LeaseInit, Held
  <1>4. TokensAreApart
    BY <1>3 DEF LeaseInit, TokensAreApart
  <1> QED
    BY <1>1, <1>2, <1>4 DEF Inv

\* A step that leaves fence alone and gives no replica a token it did not hold,
\* 0 apart, keeps them apart.
LEMMA NoNewToken ==
    ASSUME Inv, fence' \in Nat, fence' >= fence,
           \A r \in Replicas : Held(r)' \subseteq Held(r) \cup {0}
    PROVE  TokensAreApart'
  <1>1. fence \in Nat
    BY DEF Inv, LeaseTypeOK
  <1>2. \A r \in Replicas : \A t \in Held(r)' : t \in Nat /\ t <= fence'
    BY <1>1 DEF Inv, TokensAreApart
  <1>3. \A r, q \in Replicas : r # q => Held(r)' \cap Held(q)' \subseteq {0}
    BY DEF Inv, TokensAreApart
  <1> QED
    BY <1>2, <1>3 DEF TokensAreApart

LEMMA AcquireInv ==
    ASSUME Inv, NEW r \in Replicas, Acquire(r)
    PROVE  Inv'
  <1> DEFINE new == [token |-> fence + 1, newly |-> TRUE]
  <1>1. fence \in Nat /\ fence' = fence + 1 /\ new \in Acquisition
    BY DEF Inv, LeaseTypeOK, Acquire, NewToken, Acquisition
  <1>2. admitted' = [admitted EXCEPT ![r] = @ \cup {new}] /\ token' = token
    BY DEF Acquire, NewToken, handleVars, flagVars, routineVars
  <1>3. admitted[r] \subseteq Acquisition /\ admitted'[r] = admitted[r] \cup {new}
    BY <1>2 DEF Inv, LeaseTypeOK
  <1>4. admitted' \in [Replicas -> SUBSET Acquisition]
    BY <1>1, <1>2, <1>3 DEF Inv, LeaseTypeOK
  <1>5. LeaseTypeOK'
    <2>1. lease' \in Replicas \cup {None} /\ fence' \in Nat
      BY <1>1 DEF Acquire
    <2>2. UNCHANGED <<key, moves, loaded, log, seated>>
      BY DEF Acquire, roomVars
    <2>3. UNCHANGED <<owner, started, token, held,
                      subscribing, subscribed, renewers, failed, closing, consumers>>
      BY DEF Acquire, handleVars, flagVars, routineVars
    <2> QED
      BY <1>4, <2>1, <2>2, <2>3 DEF Inv, LeaseTypeOK
  <1>6. NoStrayConsumer'
    BY DEF Inv, NoStrayConsumer, Acquire, handleVars, flagVars, routineVars
  <1>7. Held(r)' = Held(r) \cup {fence + 1}
    <2>1. {a.token : a \in admitted'[r]} = {a.token : a \in admitted[r]} \cup {new.token}
      BY <1>3
    <2> QED
      BY <1>2, <2>1 DEF Held
  <1>8. \A q \in Replicas : q # r => Held(q)' = Held(q)
    BY <1>2 DEF Held, Inv, LeaseTypeOK
  <1>9. \A q \in Replicas : \A t \in Held(q) : t \in Nat /\ t <= fence
    BY DEF Inv, TokensAreApart
  <1>10. \A q \in Replicas : \A t \in Held(q)' : t \in Nat /\ t <= fence'
    BY <1>1, <1>7, <1>8, <1>9
  <1>11. \A q \in Replicas : fence + 1 \notin Held(q)
    BY <1>1, <1>9
  <1>12. ASSUME NEW q \in Replicas, NEW s \in Replicas, q # s
         PROVE  Held(q)' \cap Held(s)' \subseteq {0}
    BY <1>7, <1>8, <1>11, <1>12 DEF Inv, TokensAreApart
  <1>13. TokensAreApart'
    BY <1>10, <1>12 DEF TokensAreApart
  <1> QED
    BY <1>5, <1>6, <1>13 DEF Inv

LEMMA AcquireHalfInv ==
    ASSUME Inv, NEW r \in Replicas, AcquireHalf(r)
    PROVE  Inv'
  <1>1. fence \in Nat /\ fence' \in Nat /\ fence' >= fence
    BY DEF Inv, LeaseTypeOK, AcquireHalf
  <1>2. LeaseTypeOK'
    BY <1>1 DEF Inv, LeaseTypeOK, AcquireHalf, roomVars, handleVars, flagVars, routineVars
  <1>3. NoStrayConsumer'
    BY DEF Inv, NoStrayConsumer, AcquireHalf, handleVars, flagVars, routineVars
  <1>4. \A q \in Replicas : Held(q)' = Held(q)
    BY DEF Held, AcquireHalf, handleVars, flagVars, routineVars
  <1>5. TokensAreApart'
    BY <1>1, <1>4, NoNewToken
  <1> QED
    BY <1>2, <1>3, <1>5 DEF Inv

LEMMA AcquireOwnInv ==
    ASSUME Inv, NEW r \in Replicas, AcquireOwn(r)
    PROVE  Inv'
  <1> DEFINE none == [token |-> 0, newly |-> FALSE]
  <1>1. none \in Acquisition /\ fence \in Nat /\ fence' = fence
    BY DEF Acquisition, Inv, LeaseTypeOK, AcquireOwn, redisVars
  <1>2. admitted' = [admitted EXCEPT ![r] = @ \cup {none}] /\ token' = token
    BY DEF AcquireOwn, handleVars, flagVars, routineVars
  <1>3. admitted[r] \subseteq Acquisition
    BY DEF Inv, LeaseTypeOK
  <1>4. admitted' \in [Replicas -> SUBSET Acquisition]
    BY <1>1, <1>2, <1>3 DEF Inv, LeaseTypeOK
  <1>5. LeaseTypeOK'
    BY <1>1, <1>4 DEF Inv, LeaseTypeOK, AcquireOwn, redisVars, roomVars, handleVars, flagVars, routineVars
  <1>6. NoStrayConsumer'
    BY DEF Inv, NoStrayConsumer, AcquireOwn, handleVars, flagVars, routineVars
  <1>7. ASSUME NEW q \in Replicas PROVE Held(q)' \subseteq Held(q) \cup {0}
    <2>1. admitted'[q] \subseteq admitted[q] \cup {none} /\ none.token = 0
      BY <1>2 DEF Inv, LeaseTypeOK
    <2> QED
      BY <1>2, <2>1 DEF Held
  <1>8. TokensAreApart'
    BY <1>1, <1>7, NoNewToken
  <1> QED
    BY <1>5, <1>6, <1>8 DEF Inv

\* joinRoom concerns the room's moves only.
LEMMA JoinRoomTypes ==
    ASSUME LeaseTypeOK, NEW r \in Replicas, JoinRoom(r)
    PROVE  loaded' \in [Replicas -> BOOLEAN] /\ log' \in [Replicas -> Seq(Nat)]
           /\ key' \in Seq(Nat) /\ moves' \in Nat
  BY DEF LeaseTypeOK, JoinRoom

\* The counters of one replica.
CountsOf(r) ==
    /\ subscribing[r] \in Nat /\ subscribed[r] \in Nat /\ renewers[r] \in Nat
    /\ failed[r] \in Nat /\ closing[r] \in Nat /\ consumers[r] \in Nat

LEMMA CountsAreNat == ASSUME LeaseTypeOK, NEW r \in Replicas PROVE CountsOf(r)
  BY DEF LeaseTypeOK, CountsOf

\* Of four counters that add up to one at most, one that counts is the only one.
LEMMA OneOf ==
    ASSUME NEW a \in Nat, NEW b \in Nat, NEW c \in Nat, NEW d \in Nat, NEW o \in BOOLEAN,
           a + b + c + d = (IF o THEN 1 ELSE 0)
    PROVE  /\ b > 0 => o = TRUE /\ a = 0 /\ b = 1 /\ c = 0 /\ d = 0
           /\ d > 0 => o = TRUE /\ a = 0 /\ b = 0 /\ c = 0 /\ d = 1
  <1>1. CASE o = TRUE
    BY <1>1
  <1>2. CASE o = FALSE
    BY <1>2
  <1> QED
    BY <1>1, <1>2

LEMMA PromoteInv ==
    ASSUME Inv, NEW r \in Replicas, NEW a \in admitted[r], Promote(r, a)
    PROVE  Inv'
  <1>1. a \in Acquisition /\ a.token \in Nat /\ JoinRoom(r)
    BY DEF Inv, LeaseTypeOK, Acquisition, Promote
  <1>2. fence \in Nat /\ fence' = fence
    BY DEF Inv, LeaseTypeOK, Promote, redisVars
  <1>3. /\ owner' = [owner EXCEPT ![r] = TRUE] /\ started' = [started EXCEPT ![r] = TRUE]
        /\ subscribing' = [subscribing EXCEPT ![r] = IF started[r] THEN @ ELSE @ + 1]
        /\ UNCHANGED <<held, subscribed, renewers, failed, closing, consumers>>
    <2>1. CASE started[r]
      BY <2>1 DEF Inv, LeaseTypeOK, Promote, Starts
    <2>2. CASE ~started[r]
      BY <2>2 DEF Inv, LeaseTypeOK, Promote, Starts
    <2> QED
      BY <2>1, <2>2
  <1>. subscribing' \in [Replicas -> Nat]
    BY <1>3 DEF Inv, LeaseTypeOK
  <1>7. NoStrayConsumer'
    <2> SUFFICES ASSUME NEW q \in Replicas PROVE Accounted(q)'
      BY DEF NoStrayConsumer, Accounted
    <2>1. Accounted(q) /\ CountsOf(q)
      BY CountsAreNat DEF Inv, NoStrayConsumer, Accounted
    <2>2. CASE q # r
      BY <1>3, <2>1, <2>2 DEF Inv, LeaseTypeOK, Accounted
    <2>3. CASE q = r /\ started[r]
      BY <1>3, <2>1, <2>3 DEF Inv, LeaseTypeOK, Accounted, CountsOf
    <2>4. CASE q = r /\ ~started[r]
      <3>1. ~owner[r] /\ subscribing'[r] = subscribing[r] + 1 /\ owner'[r] /\ started'[r]
        BY <1>3, <2>1, <2>4 DEF Inv, LeaseTypeOK, Accounted
      <3> QED
        BY <1>3, <2>1, <2>4, <3>1 DEF Accounted, CountsOf
    <2> QED
      BY <2>2, <2>3, <2>4
  <1>4. LeaseTypeOK'
    BY <1>1, <1>3, JoinRoomTypes DEF Inv, LeaseTypeOK, Promote, redisVars
  <1>5. \A q \in Replicas : Held(q)' \subseteq Held(q) \cup {0}
    BY DEF Held, Inv, LeaseTypeOK, Promote
  <1>6. TokensAreApart'
    BY <1>2, <1>5, NoNewToken
  <1> QED
    BY <1>4, <1>6, <1>7 DEF Inv

LEMMA JoinRefusedInv ==
    ASSUME Inv, NEW r \in Replicas, NEW a \in admitted[r], JoinRefused(r, a)
    PROVE  Inv'
  <1>1. fence \in Nat /\ fence' = fence /\ JoinRoom(r)
    BY DEF Inv, LeaseTypeOK, JoinRefused, redisVars
  <1>2. LeaseTypeOK'
    BY <1>1, JoinRoomTypes DEF Inv, LeaseTypeOK, JoinRefused, redisVars, handleVars, flagVars, routineVars
  <1>3. NoStrayConsumer'
    BY DEF Inv, NoStrayConsumer, JoinRefused, handleVars, flagVars, routineVars
  <1>4. \A q \in Replicas : Held(q)' \subseteq Held(q) \cup {0}
    BY DEF Held, Inv, LeaseTypeOK, JoinRefused, handleVars, flagVars, routineVars
  <1>5. TokensAreApart'
    BY <1>1, <1>4, NoNewToken
  <1> QED
    BY <1>2, <1>3, <1>5 DEF Inv

\* A step of r's goroutines: the counts of r change as the step says, those of the
\* other replicas do not.
LEMMA RoutineInv ==
    ASSUME Inv, NEW r \in Replicas, LeaseTypeOK', Accounted(r)',
           fence' = fence, token' = token, admitted' = admitted,
           \A q \in Replicas \ {r} :
              /\ owner'[q] = owner[q] /\ started'[q] = started[q] /\ held'[q] = held[q]
              /\ subscribing'[q] = subscribing[q] /\ subscribed'[q] = subscribed[q]
              /\ renewers'[q] = renewers[q] /\ failed'[q] = failed[q]
              /\ closing'[q] = closing[q] /\ consumers'[q] = consumers[q]
    PROVE  Inv'
  <1>1. ASSUME NEW q \in Replicas PROVE Accounted(q)'
    <2>1. CASE q = r
      BY <2>1
    <2>2. CASE q # r
      BY <2>2 DEF Inv, NoStrayConsumer, Accounted
    <2> QED
      BY <2>1, <2>2
  <1>2. NoStrayConsumer'
    BY <1>1 DEF NoStrayConsumer, Accounted
  <1>3. fence \in Nat
    BY DEF Inv, LeaseTypeOK
  <1>4. \A q \in Replicas : Held(q)' = Held(q)
    BY DEF Held
  <1>5. TokensAreApart'
    BY <1>3, <1>4, NoNewToken
  <1> QED
    BY <1>2, <1>5 DEF Inv

LEMMA SubscribeInv ==
    ASSUME Inv, NEW r \in Replicas, Subscribe(r)
    PROVE  Inv'
  <1>1. Accounted(r) /\ CountsOf(r)
    BY CountsAreNat DEF Inv, NoStrayConsumer, Accounted
  <1>2. /\ subscribing'[r] = subscribing[r] - 1 /\ subscribed'[r] = subscribed[r] + 1
        /\ consumers'[r] = consumers[r] + 1
    BY DEF Inv, LeaseTypeOK, Subscribe
  <1>3. UNCHANGED <<owner, started, held, renewers, failed, closing>>
    BY DEF Subscribe, flagVars
  <1>4. Accounted(r)'
    BY <1>1, <1>2, <1>3 DEF Accounted, CountsOf
  <1>5. subscribing[r] - 1 \in Nat /\ subscribed[r] + 1 \in Nat /\ consumers[r] + 1 \in Nat
    BY <1>1 DEF CountsOf, Subscribe
  <1>6. LeaseTypeOK'
    BY <1>5 DEF Inv, LeaseTypeOK, Subscribe, redisVars, roomVars, flagVars
  <1> QED
    BY <1>4, <1>6, RoutineInv DEF Inv, LeaseTypeOK, Subscribe, redisVars, flagVars

\* While a promotion is under way its replica is an owner.
LEMMA KeepInv ==
    ASSUME Inv, NEW r \in Replicas, Keep(r)
    PROVE  Inv'
  <1>1. Accounted(r) /\ CountsOf(r)
    BY CountsAreNat DEF Inv, NoStrayConsumer, Accounted
  <1>2. owner[r] \in BOOLEAN /\ held[r] \in BOOLEAN
    BY DEF Inv, LeaseTypeOK
  <1>3. /\ owner[r] = TRUE /\ subscribing[r] = 0 /\ subscribed[r] = 1
        /\ renewers[r] = 0 /\ failed[r] = 0 /\ held[r] = FALSE
    <2>1. subscribed[r] > 0
      BY DEF Keep
    <2>2. /\ owner[r] = TRUE /\ subscribing[r] = 0 /\ subscribed[r] = 1
          /\ renewers[r] = 0 /\ failed[r] = 0
      BY <1>1, <1>2, <2>1, OneOf DEF Accounted, CountsOf
    <2>3. ~ held[r]
      BY <1>1, <2>2 DEF Accounted
    <2> QED
      BY <1>2, <2>2, <2>3
  <1>4. /\ subscribed' = [subscribed EXCEPT ![r] = 0]
        /\ held' = [held EXCEPT ![r] = TRUE] /\ renewers' = [renewers EXCEPT ![r] = 1]
        /\ UNCHANGED <<owner, started, token, subscribing, failed, closing, consumers>>
    <2>1. subscribed[r] - 1 = 0 /\ renewers[r] + 1 = 1
      BY <1>3
    <2> QED
      BY <1>3, <2>1 DEF Keep
  <1>5. LeaseTypeOK'
    <2>1. /\ subscribed' \in [Replicas -> Nat] /\ held' \in [Replicas -> BOOLEAN]
          /\ renewers' \in [Replicas -> Nat]
      BY <1>4 DEF Inv, LeaseTypeOK
    <2> QED
      BY <1>4, <2>1 DEF Inv, LeaseTypeOK, Keep, redisVars, roomVars
  <1>6. subscribed'[r] = 0 /\ held'[r] = TRUE /\ renewers'[r] = 1
    BY <1>4 DEF Inv, LeaseTypeOK
  <1>7. Accounted(r)'
    BY <1>1, <1>3, <1>4, <1>6 DEF Accounted, CountsOf
  <1> QED
    BY <1>4, <1>5, <1>7, RoutineInv DEF Inv, LeaseTypeOK, Keep, redisVars

LEMMA RenewalFailedInv ==
    ASSUME Inv, NEW r \in Replicas, RenewalFailed(r)
    PROVE  Inv'
  <1>1. Accounted(r) /\ CountsOf(r)
    BY CountsAreNat DEF Inv, NoStrayConsumer, Accounted
  <1>2. renewers'[r] = renewers[r] - 1 /\ failed'[r] = failed[r] + 1
    BY DEF Inv, LeaseTypeOK, RenewalFailed
  <1>3. UNCHANGED <<owner, started, held, subscribing, subscribed, closing, consumers>>
    BY DEF RenewalFailed, flagVars
  <1>4. Accounted(r)'
    BY <1>1, <1>2, <1>3 DEF Accounted, CountsOf
  <1>5. renewers[r] - 1 \in Nat /\ failed[r] + 1 \in Nat
    BY <1>1 DEF CountsOf, RenewalFailed
  <1>6. LeaseTypeOK'
    BY <1>5 DEF Inv, LeaseTypeOK, RenewalFailed, redisVars, roomVars, flagVars
  <1> QED
    BY <1>4, <1>6, RoutineInv DEF Inv, LeaseTypeOK, RenewalFailed, redisVars, flagVars

\* Only the owner's own renewal goroutine demotes it, and takes the subscription
\* the handle kept.
LEMMA DemoteInv ==
    ASSUME Inv, NEW r \in Replicas, Demote(r)
    PROVE  Inv'
  <1>1. Accounted(r) /\ CountsOf(r)
    BY CountsAreNat DEF Inv, NoStrayConsumer, Accounted
  <1>2. owner[r] \in BOOLEAN /\ held[r] \in BOOLEAN
    BY DEF Inv, LeaseTypeOK
  <1>3. /\ subscribing[r] = 0 /\ subscribed[r] = 0 /\ renewers[r] = 0
        /\ failed[r] = 1 /\ held[r] = TRUE
    <2>1. failed[r] > 0
      BY DEF Demote
    <2>2. /\ subscribing[r] = 0 /\ subscribed[r] = 0 /\ renewers[r] = 0
          /\ failed[r] = 1
      BY <1>1, <1>2, <2>1, OneOf DEF Accounted, CountsOf
    <2>3. held[r]
      BY <1>1, <2>2 DEF Accounted
    <2> QED
      BY <1>2, <2>2, <2>3
  <1>4. /\ failed' = [failed EXCEPT ![r] = 0]
        /\ owner' = [owner EXCEPT ![r] = FALSE] /\ started' = [started EXCEPT ![r] = FALSE]
        /\ held' = [held EXCEPT ![r] = FALSE]
        /\ closing' = [closing EXCEPT ![r] = closing[r] + 1]
        /\ UNCHANGED <<token, subscribing, subscribed, renewers, consumers>>
    <2>1. TakenSubscription(r) = 1
      BY <1>3 DEF TakenSubscription
    <2>2. failed[r] - 1 = 0
      BY <1>3
    <2> QED
      BY <2>1, <2>2 DEF Demote
  <1>5. LeaseTypeOK'
    <2>1. closing[r] + 1 \in Nat
      BY <1>1 DEF CountsOf
    <2>2. /\ failed' \in [Replicas -> Nat] /\ owner' \in [Replicas -> BOOLEAN]
          /\ started' \in [Replicas -> BOOLEAN] /\ held' \in [Replicas -> BOOLEAN]
          /\ closing' \in [Replicas -> Nat]
      BY <1>4, <2>1 DEF Inv, LeaseTypeOK
    <2> QED
      BY <1>4, <2>2 DEF Inv, LeaseTypeOK, Demote, redisVars, roomVars
  <1>6. /\ failed'[r] = 0 /\ owner'[r] = FALSE /\ started'[r] = FALSE
        /\ held'[r] = FALSE /\ closing'[r] = closing[r] + 1
    BY <1>4 DEF Inv, LeaseTypeOK
  <1>7. Accounted(r)'
    BY <1>1, <1>3, <1>4, <1>6 DEF Accounted, CountsOf
  <1> QED
    BY <1>4, <1>5, <1>7, RoutineInv DEF Inv, LeaseTypeOK, Demote, redisVars

LEMMA CloseSubscriptionInv ==
    ASSUME Inv, NEW r \in Replicas, CloseSubscription(r)
    PROVE  Inv'
  <1>1. Accounted(r) /\ CountsOf(r)
    BY CountsAreNat DEF Inv, NoStrayConsumer, Accounted
  <1>2. closing'[r] = closing[r] - 1 /\ consumers'[r] = consumers[r] - 1
    BY DEF Inv, LeaseTypeOK, CloseSubscription
  <1>3. UNCHANGED <<owner, started, held, subscribing, subscribed, renewers, failed>>
    BY DEF CloseSubscription, flagVars
  <1>4. Accounted(r)'
    BY <1>1, <1>2, <1>3 DEF Accounted, CountsOf
  <1>5. consumers[r] > 0
    BY <1>1 DEF Accounted, CountsOf, CloseSubscription
  <1>6. closing[r] - 1 \in Nat /\ consumers[r] - 1 \in Nat
    BY <1>1, <1>5 DEF CountsOf, CloseSubscription
  <1>7. LeaseTypeOK'
    BY <1>6 DEF Inv, LeaseTypeOK, CloseSubscription, redisVars, roomVars, flagVars
  <1> QED
    BY <1>4, <1>7, RoutineInv DEF Inv, LeaseTypeOK, CloseSubscription, redisVars, flagVars

LEMMA MoveInv ==
    ASSUME Inv, NEW r \in Replicas, Move(r) \/ Disconnect(r)
    PROVE  Inv'
  <1>1. fence \in Nat /\ fence' = fence
    BY DEF Inv, LeaseTypeOK, Move, Disconnect, redisVars
  <1>2. LeaseTypeOK'
    <2>1. CASE Move(r)
      <3>1. Append(log[r], moves + 1) \in Seq(Nat) /\ moves + 1 \in Nat
        BY DEF Inv, LeaseTypeOK
      <3>2. log' \in [Replicas -> Seq(Nat)] /\ log'[r] \in Seq(Nat)
        BY <2>1, <3>1 DEF Inv, LeaseTypeOK, Move
      <3> QED
        BY <2>1, <3>1, <3>2 DEF Inv, LeaseTypeOK, Move, redisVars, handleVars, flagVars, routineVars
    <2>2. CASE Disconnect(r)
      BY <2>2 DEF Inv, LeaseTypeOK, Disconnect, redisVars, handleVars, flagVars, routineVars
    <2> QED
      BY <2>1, <2>2
  <1>3. NoStrayConsumer'
    BY DEF Inv, NoStrayConsumer, Move, Disconnect, handleVars, flagVars, routineVars
  <1>4. \A q \in Replicas : Held(q)' = Held(q)
    BY DEF Held, Move, Disconnect, handleVars, flagVars, routineVars
  <1>5. TokensAreApart'
    BY <1>1, <1>4, NoNewToken
  <1> QED
    BY <1>2, <1>3, <1>5 DEF Inv

LEMMA CrashInv ==
    ASSUME Inv, NEW r \in Replicas, Crash(r)
    PROVE  Inv'
  <1>1. fence \in Nat /\ fence' = fence
    BY DEF Inv, LeaseTypeOK, Crash, redisVars
  <1>2. <<>> \in Seq(Nat)
    OBVIOUS
  <1>3. LeaseTypeOK'
    BY <1>2 DEF Inv, LeaseTypeOK, Crash, redisVars
  <1>4. NoStrayConsumer'
    <2> SUFFICES ASSUME NEW q \in Replicas PROVE Accounted(q)'
      BY DEF NoStrayConsumer, Accounted
    <2>1. Accounted(q)
      BY DEF Inv, NoStrayConsumer, Accounted
    <2>2. CASE q # r
      BY <2>1, <2>2 DEF Inv, LeaseTypeOK, Crash, Accounted
    <2>3. CASE q = r
      <3>1. owner'[r] = FALSE /\ started'[r] = FALSE /\ held'[r] = FALSE
        BY DEF Inv, LeaseTypeOK, Crash
      <3>2. /\ subscribing'[r] = 0 /\ subscribed'[r] = 0 /\ renewers'[r] = 0
            /\ failed'[r] = 0 /\ closing'[r] = 0 /\ consumers'[r] = 0
        BY DEF Inv, LeaseTypeOK, Crash
      <3> QED
        BY <2>3, <3>1, <3>2 DEF Accounted
    <2> QED
      BY <2>2, <2>3
  <1>5. \A q \in Replicas : Held(q)' \subseteq Held(q) \cup {0}
    BY DEF Held, Inv, LeaseTypeOK, Crash
  <1>6. TokensAreApart'
    BY <1>1, <1>5, NoNewToken
  <1> QED
    BY <1>3, <1>4, <1>6 DEF Inv

LEMMA QuietInv == Inv /\ (LeaseExpires \/ UNCHANGED leaseVars) => Inv'
  <1> SUFFICES ASSUME Inv, LeaseExpires \/ UNCHANGED leaseVars PROVE Inv'
    OBVIOUS
  <1>1. fence \in Nat /\ fence' = fence
    BY DEF Inv, LeaseTypeOK, LeaseExpires, leaseVars, redisVars
  <1>2. LeaseTypeOK'
    BY DEF Inv, LeaseTypeOK, LeaseExpires, leaseVars, redisVars, roomVars, handleVars, flagVars, routineVars
  <1>3. NoStrayConsumer'
    BY DEF Inv, NoStrayConsumer, LeaseExpires, leaseVars, handleVars, flagVars, routineVars
  <1>4. \A q \in Replicas : Held(q)' = Held(q)
    BY DEF Held, LeaseExpires, leaseVars, handleVars, flagVars, routineVars
  <1>5. TokensAreApart'
    BY <1>1, <1>4, NoNewToken
  <1> QED
    BY <1>2, <1>3, <1>5 DEF Inv

LEMMA StepInv == Inv /\ [LeaseNext]_leaseVars => Inv'
  BY AcquireInv, AcquireHalfInv, AcquireOwnInv, PromoteInv, JoinRefusedInv,
     SubscribeInv, KeepInv, RenewalFailedInv, DemoteInv, CloseSubscriptionInv, MoveInv,
     CrashInv, QuietInv DEF LeaseNext, RenewRefused, RenewErrors

LEMMA AlwaysInv == LeaseSpec => []Inv
  BY InitInv, StepInv, PTL DEF LeaseSpec

\* Every variable keeps its type.
THEOREM TypeCorrect == LeaseSpec => []LeaseTypeOK
  <1>1. Inv => LeaseTypeOK
    BY DEF Inv
  <1> QED
    BY <1>1, AlwaysInv, PTL

\* However leases come and go, an owner has one renewal goroutine, keeps one
\* consumer at most, and every other open consumer is about to be closed.
THEOREM NoConsumerIsStray == LeaseSpec => []NoStrayConsumer
  <1>1. Inv => NoStrayConsumer
    BY DEF Inv
  <1> QED
    BY <1>1, AlwaysInv, PTL

\* No fencing token is ever held by two replicas.
THEOREM TokensNameOneReplica == LeaseSpec => []TokensAreUnique
  <1>1. Inv => TokensAreUnique
    BY DEF Inv, TokensAreApart, TokensAreUnique, Held
  <1> QED
    BY <1>1, AlwaysInv, PTL

\* One renewal, one kept consumer and one token for an owner, for any replicas.
THEOREM OwnersAreSound == LeaseSpec => []OwnersSound
BY TypeCorrect, NoConsumerIsStray, TokensNameOneReplica, PTL DEF OwnersSound
=============================================================================
