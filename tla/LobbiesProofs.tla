----------------------------- MODULE LobbiesProofs -----------------------------
(***************************************************************************)
(* What surrounds a room, for every value of the constants.                 *)
(* WatchIsCurrent of Watcher: for any sockets, any number of changes and any *)
(* number of messages under way, the page of a spectator settles on the     *)
(* table as it is (WatchInv).  TeamsSound of TeamLobby: for any even number  *)
(* of seats, only the team of the newcomers grows beyond its two places, and *)
(* the start fills the table and evens the teams out (TeamInv, with lemmas   *)
(* that count places and the loop of handleStartGame as a sequence of        *)
(* rosters).  LobbySound of the lobby page, its form and its daily login     *)
(* (LobbyInv, FormInv, LoginInv), for one call and one claim at a time.      *)
(* What the store of SnapshotStore guarantees for every number of changes,  *)
(* room objects and restarts (OrderInv, FirstInv).                          *)
(***************************************************************************)
EXTENDS MCLobbies, TLAPS, SequenceTheorems, FiniteSetTheorems, WellFoundedInduction

-----------------------------------------------------------------------------
(* A spectator's page.                                                     *)

Messages == [kind : {"state", "over", "error"}, v : Nat]
Cast     == [to : SUBSET Sockets, msg : Messages]
Line     == [st : {"none", "open", "left", "lost"}, inbox : Seq(Messages), since : Nat]
View     == [at : {"here", "away"}, sock : Sockets \cup {0}, v : Nat,
             over : BOOLEAN, notFound : BOOLEAN, heard : BOOLEAN]

WatchTypes ==
    /\ match \in [st : {"playing", "over", "waiting"}, v : Nat \ {0}]
    /\ owed \in [state : Nat, over : Nat]
    /\ casts \in Seq(Cast)
    /\ watchers \in SUBSET Sockets
    /\ socket \in [Sockets -> Line]
    /\ page \in View
    /\ crossed \in BOOLEAN

\* Only the page's own socket is open or has messages, and what is on its way
\* to a socket was built after that was admitted.
LineSound(s) ==
    /\ socket[s].st = "open" \/ socket[s].inbox # <<>> => Current(s)
    /\ socket[s].st = "none" => socket[s].since = 0
    /\ socket[s].since <= match.v
    /\ s \in watchers => socket[s].since > 0
    /\ socket[s].st = "open" /\ socket[s].since > 0 => s \in watchers
    /\ \A k \in DOMAIN socket[s].inbox :
          IF socket[s].inbox[k].kind = "error" THEN socket[s].st # "open"
          ELSE socket[s].since > 0 /\ socket[s].inbox[k].v >= socket[s].since

CastSound(cast) ==
    /\ cast.msg.kind # "error"
    /\ \A s \in cast.to : socket[s].since > 0 /\ cast.msg.v >= socket[s].since

ViewSound ==
    /\ page.at = "here" => page.sock # 0
    /\ page.at = "away" => page = FreshPage
    /\ page.heard => socket[page.sock].since > 0 /\ page.v >= socket[page.sock].since

\* The last that is sent to a socket is the table as it is.
LastCast(s) ==
    \A i \in DOMAIN casts :
       s \in casts[i].to /\ (\A j \in DOMAIN casts : s \in casts[j].to => j <= i) => casts[i].msg.v = match.v

LastHeard(s) ==
    (\A i \in DOMAIN casts : s \notin casts[i].to) =>
       IF socket[s].inbox = <<>> THEN page.heard /\ page.v = match.v
       ELSE socket[s].inbox[Len(socket[s].inbox)].v = match.v

\* It is so for the page's socket once nobody owes the spectators a look at the
\* table, as long as messages keep their order.
Settles ==
    ~crossed /\ match.st # "waiting" /\ owed.state = 0 /\ owed.over = 0 =>
       \A s \in Sockets : Current(s) /\ socket[s].st = "open" /\ socket[s].since > 0
                            => LastCast(s) /\ LastHeard(s)

WatchInv ==
    /\ WatchTypes
    /\ \A s \in Sockets : LineSound(s)
    /\ \A i \in DOMAIN casts : CastSound(casts[i])
    /\ ViewSound
    /\ Settles

LEMMA RemoveAtGives ==
    ASSUME NEW S, NEW q \in Seq(S), NEW i \in DOMAIN q
    PROVE  /\ RemoveAt(q, i) \in Seq(S)
           /\ Len(q) \in Nat \ {0} /\ i \in 1..Len(q)
           /\ DOMAIN RemoveAt(q, i) = 1..(Len(q) - 1)
           /\ \A k \in 1..(Len(q) - 1) : RemoveAt(q, i)[k] = IF k < i THEN q[k] ELSE q[k + 1]
<1> DEFINE before == SubSeq(q, 1, i - 1)
           after  == SubSeq(q, i + 1, Len(q))
<1>1. Len(q) \in Nat /\ i \in 1..Len(q) /\ \A k \in 1..Len(q) : q[k] \in S
  OBVIOUS
<1>2. /\ before \in Seq(S) /\ Len(before) = i - 1
      /\ \A k \in 1..(i - 1) : before[k] = q[k]
  <2>1. \A k \in 1..(i - 1) : q[k] \in S
    BY <1>1
  <2> QED
    BY <1>1, <2>1, SubSeqProperties
<1>3. /\ after \in Seq(S) /\ Len(after) = Len(q) - i
      /\ \A k \in 1..(Len(q) - i) : after[k] = q[i + k]
  <2>1. \A k \in (i + 1)..Len(q) : q[k] \in S
    BY <1>1
  <2> QED
    BY <1>1, <2>1, SubSeqProperties
<1>4. RemoveAt(q, i) = before \o after
  BY DEF RemoveAt
<1> HIDE DEF before, after
<1>5. /\ before \o after \in Seq(S) /\ Len(before \o after) = Len(q) - 1
      /\ \A k \in 1..(Len(q) - 1) : (before \o after)[k] = IF k < i THEN q[k] ELSE q[k + 1]
  BY <1>1, <1>2, <1>3
<1> QED
  BY <1>1, <1>4, <1>5

LEMMA InitWatch == WatchInit => WatchInv
<1> SUFFICES ASSUME WatchInit PROVE WatchInv
  OBVIOUS
<1>1. NoSocket \in Line /\ NoSocket.st = "none" /\ NoSocket.inbox = <<>> /\ NoSocket.since = 0
  BY DEF NoSocket, Line
<1>2. FreshPage \in View /\ FreshPage.at = "away" /\ ~FreshPage.heard
  BY DEF FreshPage, View
<1>3. WatchTypes
  <2>1. casts \in Seq(Cast)
    BY DEF WatchInit
  <2>2. match \in [st : {"playing", "over", "waiting"}, v : Nat \ {0}]
    BY DEF WatchInit
  <2>3. socket \in [Sockets -> Line]
    BY <1>1 DEF WatchInit
  <2> QED
    BY <1>2, <2>1, <2>2, <2>3 DEF WatchInit, WatchTypes
<1>4. match.v = 1 /\ casts = <<>> /\ page = FreshPage /\ watchers = {}
  BY DEF WatchInit
<1>5. ASSUME NEW s \in Sockets PROVE LineSound(s) /\ ~Current(s)
  <2>1. socket[s] = NoSocket
    BY DEF WatchInit
  <2> QED
    BY <1>1, <1>2, <1>4, <2>1 DEF LineSound, Current
<1> QED
  BY <1>2, <1>3, <1>4, <1>5 DEF WatchInv, ViewSound, Settles

\* What a step may do to the sockets, the page and the casts, so that they stay
\* as they should be: with the table, or with a later one.
LEMMA OwedIsNumber ==
    ASSUME WatchTypes
    PROVE  /\ owed.state \in Nat /\ owed.over \in Nat
           /\ [owed EXCEPT !.over = @ + 1] \in [state : Nat, over : Nat]
           /\ [owed EXCEPT !.state = @ + 1] \in [state : Nat, over : Nat]
           /\ [owed EXCEPT !.over = @ + 1].over # 0
           /\ [owed EXCEPT !.state = @ + 1].state # 0
<1>1. owed \in [state : Nat, over : Nat] /\ owed.state \in Nat /\ owed.over \in Nat
  BY DEF WatchTypes
<1>2. owed.state + 1 \in Nat /\ owed.state + 1 # 0 /\ owed.over + 1 \in Nat /\ owed.over + 1 # 0
  BY <1>1, SMT
<1> QED
  BY <1>1, <1>2

\* The table changes, or is a waiting room again: what was sent is of before.
LEMMA TableChangesKeeps ==
    ASSUME WatchInv, NEW st \in {"playing", "over"}, TableChanges(st)
    PROVE  WatchInv'
<1>1. /\ WatchTypes /\ UNCHANGED <<casts, watchers, socket, page, crossed>> /\ match.v \in Nat \ {0}
      /\ match' = [st |-> st, v |-> match.v + 1]
      /\ owed' \in {[owed EXCEPT !.over = @ + 1], [owed EXCEPT !.state = @ + 1]}
  BY DEF WatchInv, WatchTypes, TableChanges
<1>2. match.v + 1 \in Nat \ {0} /\ \A n \in Nat : n <= match.v => n <= match.v + 1
  BY <1>1, SMT
<1>3. match'.v = match.v + 1 /\ match' \in [st : {"playing", "over", "waiting"}, v : Nat \ {0}]
  BY <1>1, <1>2
<1>4. owed' \in [state : Nat, over : Nat] /\ ~(owed'.state = 0 /\ owed'.over = 0)
  BY <1>1, OwedIsNumber
<1>5. WatchTypes'
  BY <1>1, <1>3, <1>4 DEF WatchTypes
<1>6. ASSUME NEW s \in Sockets PROVE LineSound(s)'
  <2>1. socket[s].since \in Nat /\ LineSound(s)
    BY DEF WatchInv, WatchTypes, Line
  <2> QED
    BY <1>1, <1>2, <1>3, <2>1 DEF LineSound, Current
<1>7. \A i \in DOMAIN casts' : CastSound(casts[i])'
  BY <1>1 DEF WatchInv, CastSound
<1>8. ViewSound'
  BY <1>1 DEF WatchInv, ViewSound
<1>9. Settles'
  BY <1>4 DEF Settles
<1> QED
  BY <1>5, <1>6, <1>7, <1>8, <1>9 DEF WatchInv

LEMMA ReturnToLobbyKeeps ==
    ASSUME WatchInv, ReturnToLobby
    PROVE  WatchInv'
<1>1. /\ WatchTypes /\ UNCHANGED <<owed, casts, watchers, socket, page, crossed>>
      /\ match' = [match EXCEPT !.st = "waiting"]
  BY DEF WatchInv, ReturnToLobby
<1>2. match' \in [st : {"playing", "over", "waiting"}, v : Nat \ {0}] /\ match'.v = match.v /\ match'.st = "waiting"
  BY <1>1 DEF WatchTypes
<1>3. WatchTypes'
  BY <1>1, <1>2 DEF WatchTypes
<1>4. ASSUME NEW s \in Sockets PROVE LineSound(s)'
  BY <1>1, <1>2 DEF WatchInv, LineSound, Current
<1>5. \A i \in DOMAIN casts' : CastSound(casts[i])'
  BY <1>1 DEF WatchInv, CastSound
<1> QED
  BY <1>1, <1>2, <1>3, <1>4, <1>5 DEF WatchInv, ViewSound, Settles

\* A message of the table as it is joins the casts: after it the sockets it is
\* for have the last word, those it is not for have what they had.
LEMMA CastJoins ==
    ASSUME WatchInv, NEW to \in SUBSET Sockets, NEW msg \in Messages, msg.v = match.v,
           casts' = Append(casts, [to |-> to, msg |-> msg]), UNCHANGED match
    PROVE  /\ casts' \in Seq(Cast) /\ DOMAIN casts' = 1..(Len(casts) + 1) /\ Len(casts) \in Nat
           /\ \A i \in 1..Len(casts) : casts'[i] = casts[i]
           /\ casts'[Len(casts) + 1] = [to |-> to, msg |-> msg]
           /\ \A s \in to : LastCast(s)' /\ ~(\A i \in DOMAIN casts' : s \notin casts'[i].to)
           /\ \A s \in Sockets \ to : LastCast(s) => LastCast(s)'
<1> DEFINE cast == [to |-> to, msg |-> msg]
           n == Len(casts)
<1>1. cast \in Cast /\ cast.to = to /\ cast.msg = msg
  BY DEF Cast
<1> HIDE DEF cast
<1>2. casts \in Seq(Cast) /\ n \in Nat /\ DOMAIN casts = 1..n
  BY DEF WatchInv, WatchTypes
<1>3. casts' = Append(casts, cast)
  BY DEF cast
<1>4. /\ casts' \in Seq(Cast) /\ DOMAIN casts' = 1..(n + 1)
      /\ \A i \in 1..n : casts'[i] = casts[i]
      /\ casts'[n + 1] = cast
  BY <1>1, <1>2, <1>3, AppendProperties
<1> HIDE DEF n
<1>5. n + 1 \in 1..(n + 1) /\ \A i \in 1..(n + 1) : i = n + 1 \/ (i \in 1..n /\ ~(n + 1 <= i))
  BY <1>2, SMT
<1>6. ASSUME NEW s \in to PROVE LastCast(s)' /\ ~(\A i \in DOMAIN casts' : s \notin casts'[i].to)
  <2>1. s \in casts'[n + 1].to /\ casts'[n + 1].msg.v = match'.v
    BY <1>1, <1>4
  <2>2. ASSUME NEW i \in 1..(n + 1), \A j \in 1..(n + 1) : s \in casts'[j].to => j <= i PROVE i = n + 1
    BY <1>5, <2>1, <2>2
  <2> QED
    BY <1>4, <1>5, <2>1, <2>2 DEF LastCast
<1>7. ASSUME NEW s \in Sockets \ to, LastCast(s) PROVE LastCast(s)'
  <2>1. s \notin casts'[n + 1].to
    BY <1>1, <1>4
  <2> SUFFICES ASSUME NEW i \in 1..(n + 1), s \in casts'[i].to,
                      \A j \in 1..(n + 1) : s \in casts'[j].to => j <= i
               PROVE  casts'[i].msg.v = match'.v
    BY <1>4 DEF LastCast
  <2>2. i \in 1..n
    BY <1>5, <2>1
  <2>3. \A j \in 1..n : j \in 1..(n + 1)
    BY <1>2, SMT
  <2>4. casts[i].msg.v = match.v
    BY <1>2, <1>4, <1>7, <2>2, <2>3 DEF LastCast
  <2> QED
    BY <1>4, <2>2, <2>4
<1> QED
  BY <1>2, <1>4, <1>6, <1>7 DEF n, cast

LEMMA MessageIsNews ==
    ASSUME WatchTypes, NEW kind \in {"state", "over"}
    PROVE  Message(kind) \in Messages /\ Message(kind).v = match.v /\ Message(kind).kind = kind
<1>1. match.v \in Nat
  BY DEF WatchTypes
<1> QED
  BY <1>1 DEF Message, Messages

LEMMA LookKeeps ==
    ASSUME WatchInv, NEW kind \in {"state", "over"}, Look(kind)
    PROVE  WatchInv'
<1>1. /\ WatchTypes /\ UNCHANGED <<match, watchers, socket, page, crossed>>
      /\ owed[kind] > 0 /\ owed' = [owed EXCEPT ![kind] = @ - 1]
  BY DEF WatchInv, Look
<1>2. owed' \in [state : Nat, over : Nat]
  <2>1. owed.state \in Nat /\ owed.over \in Nat /\ owed \in [state : Nat, over : Nat]
    BY <1>1 DEF WatchTypes
  <2>2. CASE kind = "state"
    <3>1. owed.state > 0
      BY <1>1, <2>2
    <3>2. owed.state - 1 \in Nat
      BY <2>1, <3>1, SMT
    <3>3. owed' = [owed EXCEPT !.state = owed.state - 1]
      BY <1>1, <2>2
    <3> QED
      BY <2>1, <3>2, <3>3
  <2>3. CASE kind = "over"
    <3>1. owed.over > 0
      BY <1>1, <2>3
    <3>2. owed.over - 1 \in Nat
      BY <2>1, <3>1, SMT
    <3>3. owed' = [owed EXCEPT !.over = owed.over - 1]
      BY <1>1, <2>3
    <3> QED
      BY <2>1, <3>2, <3>3
  <2> QED
    BY <2>2, <2>3
<1>3. \A s \in Sockets : LineSound(s)'
  BY <1>1 DEF WatchInv, LineSound, Current
<1>4. ViewSound'
  BY <1>1 DEF WatchInv, ViewSound
<1>5. CASE casts' = casts /\ match.st = "waiting"
  <2>1. WatchTypes'
    BY <1>1, <1>2, <1>5 DEF WatchTypes
  <2>2. \A i \in DOMAIN casts' : CastSound(casts[i])'
    BY <1>1, <1>5 DEF WatchInv, CastSound
  <2> QED
    BY <1>1, <1>3, <1>4, <1>5, <2>1, <2>2 DEF WatchInv, Settles
<1>6. CASE casts' = Append(casts, [to |-> watchers, msg |-> Message(kind)])
  <2> DEFINE n == Len(casts)
  <2>1. /\ casts' \in Seq(Cast) /\ DOMAIN casts' = 1..(n + 1) /\ n \in Nat
        /\ \A i \in 1..n : casts'[i] = casts[i]
        /\ casts'[n + 1] = [to |-> watchers, msg |-> Message(kind)]
        /\ \A s \in watchers : LastCast(s)' /\ ~(\A i \in DOMAIN casts' : s \notin casts'[i].to)
    <3>1. watchers \in SUBSET Sockets
      BY <1>1 DEF WatchTypes
    <3> QED
      BY <1>1, <1>6, <3>1, MessageIsNews, CastJoins
  <2>2. WatchTypes'
    BY <1>1, <1>2, <2>1 DEF WatchTypes
  <2>3. \A s \in watchers : socket[s].since > 0 /\ match.v >= socket[s].since
    <3> SUFFICES ASSUME NEW s \in watchers PROVE socket[s].since > 0 /\ match.v >= socket[s].since
      OBVIOUS
    <3>1. s \in Sockets /\ socket[s].since \in Nat /\ match.v \in Nat
      BY <1>1 DEF WatchTypes, Line
    <3>2. socket[s].since > 0 /\ socket[s].since <= match.v
      BY <3>1 DEF WatchInv, LineSound
    <3> QED
      BY <3>1, <3>2, SMT
  <2>4. CastSound(casts'[n + 1]) /\ \A i \in 1..n : CastSound(casts'[i])
    <3>1. CastSound(casts'[n + 1])
      BY <1>1, <2>1, <2>3, MessageIsNews DEF CastSound
    <3>2. \A i \in 1..n : CastSound(casts[i])
      <4>1. DOMAIN casts = 1..n
        BY <1>1 DEF WatchTypes
      <4> QED
        BY <4>1 DEF WatchInv
    <3> QED
      BY <2>1, <3>1, <3>2
  <2>5. \A i \in DOMAIN casts' : CastSound(casts[i])'
    <3>1. \A i \in 1..(n + 1) : i = n + 1 \/ i \in 1..n
      BY <2>1, SMT
    <3>2. \A i \in DOMAIN casts' : CastSound(casts'[i])
      BY <2>1, <2>4, <3>1
    <3> HIDE DEF n
    <3> QED
      BY <1>1, <3>2 DEF CastSound
  <2>6. Settles'
    <3>1. \A s \in Sockets : socket[s].st = "open" /\ socket[s].since > 0 => s \in watchers
      BY DEF WatchInv, LineSound
    <3> QED
      BY <1>1, <2>1, <3>1 DEF Settles, LastHeard
  <2> QED
    BY <1>3, <1>4, <2>2, <2>5, <2>6 DEF WatchInv
<1> QED
  BY <1>5, <1>6 DEF Look

LEMMA AdmitKeeps ==
    ASSUME WatchInv, NEW s \in Sockets, Admit(s)
    PROVE  WatchInv'
<1> DEFINE n == Len(casts)
           kind == IF match.st = "over" THEN "over" ELSE "state"
           line == [socket[s] EXCEPT !.since = match.v]
<1>1. /\ WatchTypes /\ UNCHANGED <<match, page, crossed>>
      /\ socket[s].st = "open" /\ socket[s].since = 0 /\ match.st # "waiting"
      /\ watchers' = watchers \cup {s}
      /\ casts' = Append(casts, [to |-> {s}, msg |-> Message(kind)])
      /\ owed' \in {owed, [owed EXCEPT !.state = @ + 1]}
      /\ socket' = [socket EXCEPT ![s].since = match.v]
      /\ match.st = "over" => owed' = owed
      /\ match.st # "over" => owed' = [owed EXCEPT !.state = @ + 1]
  BY DEF WatchInv, Admit
<1>2. kind \in {"state", "over"} /\ Message(kind) \in Messages /\ Message(kind).v = match.v /\ Message(kind).kind = kind
  BY <1>1, MessageIsNews
<1> HIDE DEF kind
<1>3. /\ casts' \in Seq(Cast) /\ DOMAIN casts' = 1..(n + 1) /\ n \in Nat
      /\ \A i \in 1..n : casts'[i] = casts[i]
      /\ casts'[n + 1] = [to |-> {s}, msg |-> Message(kind)]
      /\ LastCast(s)' /\ ~(\A i \in DOMAIN casts' : s \notin casts'[i].to)
  <2> DEFINE to == {s}
             msg == Message(kind)
  <2>1. to \in SUBSET Sockets /\ s \in to
    OBVIOUS
  <2>2. /\ msg \in Messages /\ msg.v = match.v /\ match' = match
        /\ casts' = Append(casts, [to |-> to, msg |-> msg])
    BY <1>1, <1>2
  <2> HIDE DEF to, msg
  <2>3. /\ casts' \in Seq(Cast) /\ DOMAIN casts' = 1..(n + 1) /\ n \in Nat
        /\ \A i \in 1..n : casts'[i] = casts[i]
        /\ casts'[n + 1] = [to |-> to, msg |-> msg]
        /\ LastCast(s)' /\ ~(\A i \in DOMAIN casts' : s \notin casts'[i].to)
    BY <2>1, <2>2, CastJoins
  <2> QED
    BY <2>3 DEF to, msg
<1>4. match.v \in Nat \ {0} /\ match.v > 0 /\ match.v >= match.v /\ match.v <= match.v
  <2>1. match.v \in Nat \ {0}
    BY <1>1 DEF WatchTypes
  <2> QED
    BY <2>1, SMT
<1>5. /\ line \in Line /\ line.st = "open" /\ line.since = match.v /\ line.inbox = socket[s].inbox
      /\ socket \in [Sockets -> Line] /\ socket' = [socket EXCEPT ![s] = line]
  <2>1. socket \in [Sockets -> Line] /\ socket[s] \in Line
    BY <1>1 DEF WatchTypes
  <2> QED
    BY <1>1, <1>4, <2>1 DEF Line
<1> HIDE DEF line, n
<1>6. /\ socket' \in [Sockets -> Line] /\ socket'[s] = line
      /\ \A t \in Sockets \ {s} : socket'[t] = socket[t]
  BY <1>5
<1>7. WatchTypes'
  <2>1. owed' \in [state : Nat, over : Nat]
    BY <1>1, OwedIsNumber DEF WatchTypes
  <2> QED
    BY <1>1, <1>3, <1>6, <2>1 DEF WatchTypes
<1>8. ASSUME NEW t \in Sockets PROVE LineSound(t)'
  <2>1. LineSound(t)
    BY DEF WatchInv
  <2>2. CASE t = s
    <3>1. \A k \in DOMAIN socket[s].inbox : FALSE
      <4>1. ~(socket[s].since > 0)
        BY <1>1, SMT
      <4> QED
        BY <1>1, <2>1, <2>2, <4>1 DEF LineSound
    <3> QED
      BY <1>1, <1>4, <1>5, <1>6, <2>1, <2>2, <3>1 DEF LineSound, Current
  <2>3. CASE t # s
    BY <1>1, <1>6, <2>1, <2>3 DEF LineSound, Current
  <2> QED
    BY <2>2, <2>3
<1>9. \A i \in DOMAIN casts' : CastSound(casts[i])'
  <2>1. \A i \in 1..(n + 1) : i = n + 1 \/ i \in 1..n
    BY <1>3, SMT
  <2>2. \A i \in 1..n : CastSound(casts[i])
    <3>1. DOMAIN casts = 1..n
      BY <1>1 DEF WatchTypes, n
    <3> QED
      BY <3>1 DEF WatchInv
  <2>3. \A i \in 1..n : \A t \in casts[i].to : t # s
    <3>1. ~(socket[s].since > 0)
      BY <1>1, SMT
    <3> QED
      BY <2>2, <3>1 DEF CastSound
  <2>4. \A i \in 1..n : casts[i].to \in SUBSET Sockets
    <3>1. \A i \in 1..n : casts[i] \in Cast
      BY <1>1 DEF WatchTypes, n
    <3> QED
      BY <3>1 DEF Cast
  <2>5. /\ casts'[n + 1].msg.kind # "error"
        /\ \A t \in casts'[n + 1].to : socket'[t].since > 0 /\ casts'[n + 1].msg.v >= socket'[t].since
    <3>1. casts'[n + 1].to = {s} /\ casts'[n + 1].msg = Message(kind)
      BY <1>3
    <3> QED
      BY <1>2, <1>4, <1>5, <1>6, <3>1
  <2>6. ASSUME NEW i \in 1..n
        PROVE  /\ casts'[i].msg.kind # "error"
               /\ \A t \in casts'[i].to : socket'[t].since > 0 /\ casts'[i].msg.v >= socket'[t].since
    BY <1>3, <1>6, <2>2, <2>3, <2>4 DEF CastSound
  <2> QED
    BY <1>3, <2>1, <2>5, <2>6 DEF CastSound
<1>10. ViewSound'
  <2>1. page.heard => socket[page.sock].since > 0
    BY DEF WatchInv, ViewSound
  <2>2. page.heard => page.sock # s
    <3>1. ~(socket[s].since > 0)
      BY <1>1, SMT
    <3> QED
      BY <2>1, <3>1
  <2>3. page.heard => page.sock \in Sockets
    BY <1>1 DEF WatchInv, WatchTypes, ViewSound, View, FreshPage
  <2> QED
    BY <1>1, <1>6, <2>2, <2>3 DEF WatchInv, ViewSound
<1>11. Settles'
  <2>1. \A t \in Sockets : Current(t)' => t = s
    BY <1>1 DEF WatchInv, LineSound, Current
  <2>2. LastHeard(s)'
    BY <1>3 DEF LastHeard
  <2> QED
    BY <1>3, <2>1, <2>2 DEF Settles
<1> QED
  BY <1>7, <1>8, <1>9, <1>10, <1>11 DEF WatchInv

LEMMA SendCastKeeps ==
    ASSUME WatchInv, NEW i \in DOMAIN casts, SendCast(i)
    PROVE  WatchInv'
<1> DEFINE n == Len(casts)
           cast == casts[i]
           msg == cast.msg
           Got(s) == s \in cast.to /\ socket[s].st = "open"
           Line2(s) == [socket[s] EXCEPT !.inbox = Append(@, msg)]
<1>1. /\ WatchTypes /\ UNCHANGED <<match, owed, watchers, page>>
      /\ casts' = RemoveAt(casts, i)
      /\ socket' = [s \in Sockets |-> IF Got(s) THEN Line2(s) ELSE socket[s]]
      /\ crossed' = (crossed \/ \E j \in 1..i - 1 : casts[j].to \cap cast.to # {})
  BY DEF WatchInv, SendCast
<1>2. /\ casts' \in Seq(Cast) /\ n \in Nat \ {0} /\ i \in 1..n /\ DOMAIN casts = 1..n
      /\ DOMAIN casts' = 1..(n - 1)
      /\ \A k \in 1..(n - 1) : casts'[k] = IF k < i THEN casts[k] ELSE casts[k + 1]
  <2>1. casts \in Seq(Cast)
    BY <1>1 DEF WatchTypes
  <2>2. DOMAIN casts = 1..n
    BY <2>1
  <2> QED
    BY <1>1, <2>1, <2>2, RemoveAtGives
<1>3. cast \in Cast /\ cast.to \in SUBSET Sockets /\ msg \in Messages /\ CastSound(cast)
  <2>1. cast \in Cast
    BY <1>1, <1>2 DEF WatchTypes
  <2>2. CastSound(cast)
    BY DEF WatchInv
  <2> QED
    BY <2>1, <2>2 DEF Cast
<1> HIDE DEF n, msg
<1>4. ASSUME NEW s \in Sockets
      PROVE  /\ socket[s] \in Line /\ Line2(s) \in Line
             /\ Line2(s).st = socket[s].st /\ Line2(s).since = socket[s].since
             /\ Line2(s).inbox = Append(socket[s].inbox, msg)
  <2>1. socket[s] \in Line
    BY <1>1 DEF WatchTypes
  <2>2. socket[s].inbox \in Seq(Messages)
    BY <2>1 DEF Line
  <2>3. Append(socket[s].inbox, msg) \in Seq(Messages)
    BY <1>3, <2>2
  <2> QED
    BY <2>1, <2>3 DEF Line
<1> HIDE DEF cast, Got, Line2
<1>5. /\ socket' \in [Sockets -> Line]
      /\ \A s \in Sockets : socket'[s] = IF Got(s) THEN Line2(s) ELSE socket[s]
      /\ \A s \in Sockets : socket'[s].st = socket[s].st /\ socket'[s].since = socket[s].since
  BY <1>1, <1>4
<1>6. crossed' \in BOOLEAN
  BY <1>1
<1>7. WatchTypes'
  BY <1>1, <1>2, <1>5, <1>6 DEF WatchTypes
<1>8. ASSUME NEW s \in Sockets, Got(s)
      PROVE  /\ socket'[s].inbox # <<>> /\ DOMAIN socket'[s].inbox = 1..(Len(socket[s].inbox) + 1)
             /\ Len(socket[s].inbox) \in Nat /\ Len(socket'[s].inbox) = Len(socket[s].inbox) + 1
             /\ \A k \in 1..Len(socket[s].inbox) : socket'[s].inbox[k] = socket[s].inbox[k]
             /\ socket'[s].inbox[Len(socket[s].inbox) + 1] = msg
  <2> DEFINE q == socket[s].inbox
  <2>1. q \in Seq(Messages)
    BY <1>4 DEF Line
  <2>2. socket'[s].inbox = Append(q, msg)
    BY <1>4, <1>5, <1>8
  <2> HIDE DEF q
  <2>3. /\ Append(q, msg) # <<>> /\ DOMAIN Append(q, msg) = 1..(Len(q) + 1)
        /\ Len(q) \in Nat /\ Len(Append(q, msg)) = Len(q) + 1
        /\ \A k \in 1..Len(q) : Append(q, msg)[k] = q[k]
        /\ Append(q, msg)[Len(q) + 1] = msg
    BY <1>3, <2>1, AppendProperties
  <2> QED
    BY <2>2, <2>3 DEF q
<1>9. ASSUME NEW s \in Sockets PROVE LineSound(s)'
  <2>1. LineSound(s)
    BY DEF WatchInv
  <2>2. CASE ~Got(s)
    BY <1>1, <1>5, <2>1, <2>2 DEF LineSound, Current
  <2>3. CASE Got(s)
    <3>1. socket[s].st = "open" /\ msg.kind # "error" /\ socket[s].since > 0 /\ msg.v >= socket[s].since
      BY <1>3, <2>3 DEF Got, CastSound, msg
    <3>2. DOMAIN socket[s].inbox = 1..Len(socket[s].inbox)
      BY <1>4 DEF Line
    <3>3. \A k \in 1..(Len(socket[s].inbox) + 1) : k = Len(socket[s].inbox) + 1 \/ k \in 1..Len(socket[s].inbox)
      <4>1. Len(socket[s].inbox) \in Nat
        BY <1>8, <2>3
      <4> QED
        BY <4>1, SMT
    <3>4. \A k \in DOMAIN socket'[s].inbox :
             IF socket'[s].inbox[k].kind = "error" THEN socket[s].st # "open"
             ELSE socket[s].since > 0 /\ socket'[s].inbox[k].v >= socket[s].since
      BY <1>8, <2>1, <2>3, <3>1, <3>2, <3>3 DEF LineSound
    <3> QED
      BY <1>1, <1>5, <2>1, <3>1, <3>4 DEF LineSound, Current
  <2> QED
    BY <2>2, <2>3
<1>10. \A k \in DOMAIN casts' : CastSound(casts[k])'
  <2>1. \A k \in 1..(n - 1) : k \in 1..n /\ k + 1 \in 1..n
    BY <1>2, SMT
  <2>2. \A k \in 1..n : CastSound(casts[k]) /\ casts[k].to \in SUBSET Sockets
    <3>1. \A k \in 1..n : casts[k] \in Cast
      BY <1>1, <1>2 DEF WatchTypes
    <3> QED
      BY <1>2, <3>1 DEF WatchInv, Cast
  <2>3. ASSUME NEW k \in 1..(n - 1) PROVE CastSound(casts[k])'
    <3>1. PICK j \in 1..n : casts'[k] = casts[j]
      BY <1>2, <2>1
    <3> QED
      BY <1>5, <2>2, <3>1 DEF CastSound
  <2> QED
    BY <1>2, <2>3
<1>11. ViewSound'
  <2>1. page.heard => page.sock \in Sockets
    BY <1>1 DEF WatchInv, WatchTypes, ViewSound, View, FreshPage
  <2> QED
    BY <1>1, <1>5, <2>1 DEF WatchInv, ViewSound
<1>12. Settles'
  <2> SUFFICES ASSUME ~crossed', match.st # "waiting", owed.state = 0, owed.over = 0,
                      NEW s \in Sockets, Current(s), socket[s].st = "open", socket[s].since > 0
               PROVE  LastCast(s)' /\ LastHeard(s)'
    BY <1>1, <1>5 DEF Settles, Current
  <2>1. ~crossed /\ \A j \in 1..(i - 1) : ~(s \in casts[j].to /\ s \in cast.to)
    BY <1>1
  <2>2. LastCast(s) /\ LastHeard(s)
    BY <2>1 DEF WatchInv, Settles
  <2>3. ASSUME NEW k \in 1..(n - 1), s \in casts'[k].to, \A j \in 1..(n - 1) : s \in casts'[j].to => j <= k
        PROVE  casts'[k].msg.v = match.v
    <3> DEFINE k0 == IF k < i THEN k ELSE k + 1
    <3>1. k0 \in 1..n /\ casts'[k] = casts[k0] /\ k0 # i
      BY <1>2, <2>3
    <3>2. ASSUME NEW j \in 1..n, s \in casts[j].to PROVE j <= k0
      <4>1. CASE j < i
        <5>1. j \in 1..(n - 1) /\ casts'[j] = casts[j]
          BY <1>2, <3>2, <4>1
        <5>2. j <= k
          BY <2>3, <3>2, <5>1
        <5> QED
          BY <1>2, <5>2
      <4>2. CASE j = i
        <5>1. k0 \notin 1..(i - 1)
          BY <2>1, <2>3, <3>1, <3>2, <4>2 DEF cast
        <5> QED
          BY <1>2, <3>1, <4>2, <5>1
      <4>3. CASE j > i
        <5>1. j - 1 \in 1..(n - 1) /\ ~(j - 1 < i) /\ (j - 1) + 1 = j
          BY <1>2, <3>2, <4>3
        <5>2. casts'[j - 1] = casts[j]
          BY <1>2, <5>1
        <5>3. j - 1 <= k
          BY <2>3, <3>2, <5>1, <5>2
        <5> QED
          BY <1>2, <4>3, <5>3
      <4> QED
        BY <1>2, <4>1, <4>2, <4>3
    <3> HIDE DEF k0
    <3> QED
      BY <1>2, <2>2, <2>3, <3>1, <3>2 DEF LastCast
  <2>4. LastCast(s)'
    BY <1>1, <1>2, <2>3 DEF LastCast
  <2>5. ASSUME \A k \in 1..(n - 1) : s \notin casts'[k].to
        PROVE  IF socket'[s].inbox = <<>> THEN page.heard /\ page.v = match.v
               ELSE socket'[s].inbox[Len(socket'[s].inbox)].v = match.v
    <3>1. ASSUME NEW j \in 1..n, s \in casts[j].to PROVE j = i
      <4>1. CASE j < i
        <5>1. j \in 1..(n - 1) /\ casts'[j] = casts[j]
          BY <1>2, <3>1, <4>1
        <5> QED
          BY <2>5, <3>1, <5>1
      <4>2. CASE j > i
        <5>1. j - 1 \in 1..(n - 1) /\ ~(j - 1 < i) /\ (j - 1) + 1 = j
          BY <1>2, <3>1, <4>2
        <5>2. casts'[j - 1] = casts[j]
          BY <1>2, <5>1
        <5> QED
          BY <2>5, <3>1, <5>1, <5>2
      <4> QED
        BY <1>2, <4>1, <4>2
    <3>2. CASE s \in cast.to
      <4>1. i <= i /\ \A j \in 1..n : s \in casts[j].to => j <= i
        BY <1>2, <3>1
      <4>2. msg.v = match.v
        BY <1>2, <2>2, <3>2, <4>1 DEF LastCast, cast, msg
      <4>3. Got(s)
        BY <3>2 DEF Got
      <4> QED
        BY <1>8, <4>2, <4>3
    <3>3. CASE s \notin cast.to
      <4>1. \A j \in 1..n : s \notin casts[j].to
        BY <3>1, <3>3 DEF cast
      <4>2. ~Got(s)
        BY <3>3 DEF Got
      <4> QED
        BY <1>2, <1>5, <2>2, <4>1, <4>2 DEF LastHeard
    <3> QED
      BY <3>2, <3>3
  <2>6. LastHeard(s)'
    BY <1>1, <1>2, <2>5 DEF LastHeard
  <2> QED
    BY <2>4, <2>6
<1> QED
  BY <1>7, <1>9, <1>10, <1>11, <1>12 DEF WatchInv

\* A socket that no cast is for may be another one after the step.
LEMMA CastsStay ==
    ASSUME WatchInv, UNCHANGED casts,
           \A s \in Sockets : socket'[s].since = socket[s].since \/ \A i \in DOMAIN casts : s \notin casts[i].to
    PROVE  \A i \in DOMAIN casts' : CastSound(casts[i])'
<1>1. ASSUME NEW i \in DOMAIN casts PROVE CastSound(casts[i])'
  <2>0. casts[i] \in Cast
    BY DEF WatchInv, WatchTypes
  <2>1. CastSound(casts[i]) /\ casts[i].to \in SUBSET Sockets
    BY <2>0 DEF WatchInv, Cast
  <2>2. \A s \in casts[i].to : socket'[s].since = socket[s].since
    BY <2>1
  <2> QED
    BY <2>1, <2>2 DEF CastSound
<1> QED
  BY <1>1

LEMMA RefuseKeeps ==
    ASSUME WatchInv, NEW s \in Sockets, Refuse(s)
    PROVE  WatchInv'
<1> DEFINE msg == Message("error")
           line == [socket[s] EXCEPT !.st = "lost", !.inbox = Append(@, msg)]
<1>1. /\ WatchTypes /\ UNCHANGED <<match, owed, casts, watchers, page, crossed>>
      /\ socket[s].st = "open" /\ socket[s].since = 0 /\ LineSound(s) /\ socket[s] \in Line
      /\ socket' = [socket EXCEPT ![s] = line]
  BY DEF WatchInv, WatchTypes, Refuse
<1>2. msg \in Messages /\ msg.kind = "error"
  BY <1>1 DEF WatchTypes, Message, Messages
<1> HIDE DEF msg
<1>3. socket[s].inbox \in Seq(Messages) /\ \A k \in DOMAIN socket[s].inbox : FALSE
  <2>1. ~(socket[s].since > 0)
    BY <1>1, SMT
  <2> QED
    BY <1>1, <2>1 DEF LineSound, Line
<1>4. /\ Append(socket[s].inbox, msg) \in Seq(Messages)
      /\ \A k \in DOMAIN Append(socket[s].inbox, msg) : Append(socket[s].inbox, msg)[k] = msg
  <2> DEFINE q == socket[s].inbox
  <2>1. q \in Seq(Messages) /\ Len(q) = 0
    <3>1. q \in Seq(Messages) /\ \A k \in DOMAIN q : FALSE
      BY <1>3
    <3> HIDE DEF q
    <3>2. Len(q) \in Nat /\ DOMAIN q = 1..Len(q)
      BY <3>1
    <3>3. \A k \in 1..Len(q) : FALSE
      BY <3>1, <3>2
    <3> QED
      BY <3>1, <3>2, <3>3
  <2> HIDE DEF q
  <2>2. Append(q, msg) \in Seq(Messages) /\ \A k \in DOMAIN Append(q, msg) : Append(q, msg)[k] = msg
    BY <1>2, <2>1
  <2> QED
    BY <2>2 DEF q
<1>5. line \in Line /\ line.st = "lost" /\ line.since = 0 /\ \A k \in DOMAIN line.inbox : line.inbox[k] = msg
  BY <1>1, <1>4 DEF Line
<1> HIDE DEF line
<1>6. /\ socket' \in [Sockets -> Line] /\ socket'[s] = line
      /\ \A t \in Sockets \ {s} : socket'[t] = socket[t]
  BY <1>1, <1>5 DEF WatchTypes
<1>7. WatchTypes'
  BY <1>1, <1>6 DEF WatchTypes
<1>8. ASSUME NEW t \in Sockets PROVE LineSound(t)'
  <2>1. LineSound(t)
    BY DEF WatchInv
  <2>2. CASE t = s
    BY <1>1, <1>2, <1>5, <1>6, <2>1, <2>2 DEF LineSound, Current
  <2>3. CASE t # s
    BY <1>1, <1>6, <2>1, <2>3 DEF LineSound, Current
  <2> QED
    BY <2>2, <2>3
<1>9. \A t \in Sockets : socket'[t].since = socket[t].since
  BY <1>1, <1>5, <1>6
<1>10. \A i \in DOMAIN casts' : CastSound(casts[i])'
  BY <1>1, <1>9, CastsStay
<1>11. ViewSound'
  <2>1. page.heard => page.sock \in Sockets
    BY <1>1 DEF WatchInv, WatchTypes, ViewSound, View, FreshPage
  <2> QED
    BY <1>1, <1>9, <2>1 DEF WatchInv, ViewSound
<1>12. Settles'
  <2>1. \A t \in Sockets : socket'[t].st = "open" => t # s
    BY <1>5, <1>6
  <2> QED
    BY <1>1, <1>6, <2>1 DEF WatchInv, Settles, Current, LastCast, LastHeard
<1> QED
  BY <1>7, <1>8, <1>10, <1>11, <1>12 DEF WatchInv

LEMMA BreaksKeeps ==
    ASSUME WatchInv, NEW s \in Sockets, Breaks(s)
    PROVE  WatchInv'
<1> DEFINE line == [socket[s] EXCEPT !.st = "lost", !.inbox = <<>>]
<1>1. /\ WatchTypes /\ UNCHANGED <<match, owed, casts, watchers, page, crossed>>
      /\ socket[s].st = "open" /\ LineSound(s) /\ socket[s] \in Line
      /\ socket' = [socket EXCEPT ![s] = line]
  BY DEF WatchInv, WatchTypes, Breaks
<1>2. line \in Line /\ line.st = "lost" /\ line.since = socket[s].since /\ line.inbox = <<>>
  <2>1. <<>> \in Seq(Messages)
    BY EmptySeq
  <2> QED
    BY <1>1, <2>1 DEF Line
<1> HIDE DEF line
<1>3. /\ socket' \in [Sockets -> Line] /\ socket'[s] = line
      /\ \A t \in Sockets \ {s} : socket'[t] = socket[t]
  BY <1>1, <1>2 DEF WatchTypes
<1>4. WatchTypes'
  BY <1>1, <1>3 DEF WatchTypes
<1>5. ASSUME NEW t \in Sockets PROVE LineSound(t)'
  <2>1. LineSound(t)
    BY DEF WatchInv
  <2>2. CASE t = s
    BY <1>1, <1>2, <1>3, <2>1, <2>2 DEF LineSound, Current
  <2>3. CASE t # s
    BY <1>1, <1>3, <2>1, <2>3 DEF LineSound, Current
  <2> QED
    BY <2>2, <2>3
<1>6. \A t \in Sockets : socket'[t].since = socket[t].since
  BY <1>2, <1>3
<1>7. \A i \in DOMAIN casts' : CastSound(casts[i])'
  BY <1>1, <1>6, CastsStay
<1>8. ViewSound'
  <2>1. page.heard => page.sock \in Sockets
    BY <1>1 DEF WatchInv, WatchTypes, ViewSound, View, FreshPage
  <2> QED
    BY <1>1, <1>6, <2>1 DEF WatchInv, ViewSound
<1>9. Settles'
  <2>1. \A t \in Sockets : socket'[t].st = "open" => t # s
    BY <1>2, <1>3
  <2> QED
    BY <1>1, <1>3, <2>1 DEF WatchInv, Settles, Current, LastCast, LastHeard
<1> QED
  BY <1>4, <1>5, <1>7, <1>8, <1>9 DEF WatchInv

LEMMA NoticeGoneKeeps ==
    ASSUME WatchInv, NEW s \in Sockets, NoticeGone(s)
    PROVE  WatchInv'
<1>1. /\ WatchTypes /\ UNCHANGED <<match, casts, socket, page, crossed>>
      /\ socket[s].st # "open" /\ watchers' = watchers \ {s}
      /\ owed' \in {owed, [owed EXCEPT !.state = @ + 1]}
  BY DEF WatchInv, NoticeGone
<1>2. owed' \in [state : Nat, over : Nat] /\ (owed'.state = 0 => owed' = owed)
  BY <1>1, OwedIsNumber DEF WatchTypes
<1>3. WatchTypes'
  BY <1>1, <1>2 DEF WatchTypes
<1>4. ASSUME NEW t \in Sockets PROVE LineSound(t)'
  BY <1>1 DEF WatchInv, LineSound, Current
<1>5. \A i \in DOMAIN casts' : CastSound(casts[i])'
  BY <1>1, CastsStay
<1>6. ViewSound'
  BY <1>1 DEF WatchInv, ViewSound
<1>7. Settles'
  BY <1>1, <1>2 DEF WatchInv, Settles, Current, LastCast, LastHeard
<1> QED
  BY <1>3, <1>4, <1>5, <1>6, <1>7 DEF WatchInv

LEMMA ForgottenKeeps ==
    ASSUME WatchInv, NEW s \in Sockets, Forgotten(s)
    PROVE  WatchInv'
<1>1. /\ WatchTypes /\ UNCHANGED <<match, owed, casts, watchers, page, crossed>>
      /\ ~Current(s) /\ s \notin watchers /\ \A i \in DOMAIN casts : s \notin casts[i].to
      /\ socket' = [socket EXCEPT ![s] = NoSocket]
  BY DEF WatchInv, Forgotten
<1>2. NoSocket \in Line /\ NoSocket.st = "none" /\ NoSocket.inbox = <<>> /\ NoSocket.since = 0
  BY DEF NoSocket, Line
<1>3. /\ socket' \in [Sockets -> Line] /\ socket'[s] = NoSocket
      /\ \A t \in Sockets \ {s} : socket'[t] = socket[t]
  BY <1>1, <1>2 DEF WatchTypes
<1>4. WatchTypes'
  BY <1>1, <1>3 DEF WatchTypes
<1>5. ASSUME NEW t \in Sockets PROVE LineSound(t)'
  <2>1. LineSound(t) /\ 0 <= match.v
    <3>1. match.v \in Nat
      BY <1>1 DEF WatchTypes
    <3>2. 0 <= match.v
      BY <3>1, SMT
    <3> QED
      BY <3>2 DEF WatchInv
  <2>2. CASE t = s
    BY <1>1, <1>2, <1>3, <2>1, <2>2 DEF LineSound, Current
  <2>3. CASE t # s
    BY <1>1, <1>3, <2>1, <2>3 DEF LineSound, Current
  <2> QED
    BY <2>2, <2>3
<1>6. \A i \in DOMAIN casts' : CastSound(casts[i])'
  BY <1>1, <1>3, CastsStay
<1>7. ViewSound'
  <2>1. page.heard => page.sock \in Sockets /\ page.sock # s
    BY <1>1 DEF WatchInv, WatchTypes, ViewSound, View, FreshPage, Current
  <2> QED
    BY <1>1, <1>3, <2>1 DEF WatchInv, ViewSound
<1>8. Settles'
  <2>1. \A t \in Sockets : socket'[t].st = "open" => t # s
    BY <1>2, <1>3
  <2> QED
    BY <1>1, <1>3, <2>1 DEF WatchInv, Settles, Current, LastCast, LastHeard
<1> QED
  BY <1>4, <1>5, <1>6, <1>7, <1>8 DEF WatchInv

\* The clean-up leaves the page no socket that is open or has messages.
LEMMA DetachedLets ==
    ASSUME WatchInv
    PROVE  /\ Detached(socket) \in [Sockets -> Line]
           /\ \A s \in Sockets : LET l == Detached(socket)[s] IN
                 /\ l.inbox = <<>> /\ l.since = socket[s].since /\ l.st # "open"
                 /\ l.st = "none" <=> socket[s].st = "none"
<1>1. /\ socket \in [Sockets -> Line] /\ page.sock \in Sockets \cup {0} /\ 0 \notin Sockets
      /\ \A s \in Sockets : socket[s] \in Line
      /\ \A s \in Sockets : socket[s].st = "open" \/ socket[s].inbox # <<>> => page.sock = s
  BY WatchAssumption DEF WatchInv, WatchTypes, View, LineSound, Current
<1>2. CASE page.sock = 0
  BY <1>1, <1>2 DEF Detached
<1>3. CASE page.sock # 0
  <2> DEFINE s == page.sock
             line == [socket[s] EXCEPT !.st = IF @ = "open" THEN "left" ELSE @, !.inbox = <<>>]
  <2>1. s \in Sockets
    BY <1>1, <1>3
  <2>2. /\ line \in Line /\ line.inbox = <<>> /\ line.since = socket[s].since /\ line.st # "open"
        /\ line.st = "none" <=> socket[s].st = "none"
    <3>1. <<>> \in Seq(Messages)
      BY EmptySeq
    <3> QED
      BY <1>1, <2>1, <3>1 DEF Line
  <2>3. Detached(socket) = [socket EXCEPT ![s] = line]
    BY <1>1, <1>3, <2>1 DEF Detached
  <2> HIDE DEF s, line
  <2>4. /\ Detached(socket) \in [Sockets -> Line] /\ Detached(socket)[s] = line
        /\ \A t \in Sockets \ {s} : Detached(socket)[t] = socket[t]
    BY <1>1, <2>1, <2>2, <2>3
  <2> QED
    BY <1>1, <2>2, <2>4 DEF s
<1> QED
  BY <1>2, <1>3

LEMMA OpenWatchKeeps ==
    ASSUME WatchInv, NEW p \in View, NEW sockets \in [Sockets -> Line], OpenWatch(p, sockets),
           UNCHANGED <<match, owed, casts, watchers, crossed>>,
           \A s \in Sockets : LET l == sockets[s] IN
                 /\ l.inbox = <<>> /\ l.since = socket[s].since /\ l.st # "open"
                 /\ l.st = "none" <=> socket[s].st = "none"
    PROVE  WatchInv'
<1>1. PICK s \in Sockets : /\ sockets[s].st = "none" /\ socket' = [sockets EXCEPT ![s].st = "open"]
                           /\ page' = [p EXCEPT !.at = "here", !.sock = s, !.heard = FALSE]
  BY DEF OpenWatch
<1> DEFINE line == [sockets[s] EXCEPT !.st = "open"]
<1>2. /\ line \in Line /\ line.st = "open" /\ line.since = 0 /\ line.inbox = <<>>
      /\ socket' = [sockets EXCEPT ![s] = line] /\ socket[s].since = 0
  BY <1>1 DEF WatchInv, LineSound, Line
<1> HIDE DEF line
<1>3. /\ socket' \in [Sockets -> Line] /\ socket'[s] = line
      /\ \A t \in Sockets \ {s} : socket'[t] = sockets[t]
  BY <1>2
<1>4. page' \in View /\ page'.at = "here" /\ page'.sock = s /\ ~page'.heard
  BY <1>1 DEF View
<1>5. WatchTypes'
  BY <1>3, <1>4 DEF WatchInv, WatchTypes
<1>6. \A t \in Sockets : socket'[t].since = socket[t].since /\ socket'[t].inbox = <<>>
  BY <1>2, <1>3
<1>7. ASSUME NEW t \in Sockets PROVE LineSound(t)'
  <2>1. LineSound(t) /\ \A k \in DOMAIN socket'[t].inbox : FALSE
    BY <1>6 DEF WatchInv
  <2>2. CASE t = s
    <3>1. ~(socket[s].since > 0)
      BY <1>2, SMT
    <3> QED
      BY <1>2, <1>3, <1>4, <1>6, <2>1, <2>2, <3>1 DEF LineSound, Current
  <2>3. CASE t # s
    BY <1>3, <1>6, <2>1, <2>3 DEF LineSound, Current
  <2> QED
    BY <2>2, <2>3
<1>8. \A i \in DOMAIN casts' : CastSound(casts[i])'
  BY <1>6, CastsStay
<1>9. ViewSound'
  BY <1>4, WatchAssumption DEF ViewSound
<1>10. Settles'
  <2>1. \A t \in Sockets : Current(t)' => ~(socket'[t].since > 0)
    <3>1. ~(socket'[s].since > 0)
      BY <1>2, <1>3, SMT
    <3> QED
      BY <1>4, <3>1 DEF Current
  <2> QED
    BY <2>1 DEF Settles
<1> QED
  BY <1>5, <1>7, <1>8, <1>9, <1>10 DEF WatchInv

LEMMA OpensKeep ==
    ASSUME WatchInv, OpenPageOf \/ TokenIsNew
    PROVE  WatchInv'
<1>1. FreshPage \in View /\ page \in View
  BY DEF FreshPage, View, WatchInv, WatchTypes
<1>2. CASE OpenPageOf
  <2>1. socket \in [Sockets -> Line] /\ page.at = "away"
    BY <1>2 DEF WatchInv, WatchTypes, OpenPageOf
  <2>2. \A s \in Sockets : socket[s].inbox = <<>> /\ socket[s].st # "open"
    BY <2>1 DEF WatchInv, LineSound, Current
  <2> QED
    BY <1>1, <1>2, <2>1, <2>2, OpenWatchKeeps DEF OpenPageOf
<1>3. CASE TokenIsNew
  BY <1>1, <1>3, DetachedLets, OpenWatchKeeps DEF TokenIsNew
<1> QED
  BY <1>2, <1>3

LEMMA LeaveWatchKeeps ==
    ASSUME WatchInv, LeaveWatch
    PROVE  WatchInv'
<1>1. /\ UNCHANGED <<match, owed, casts, watchers, crossed>>
      /\ socket' = Detached(socket) /\ page' = FreshPage
  BY DEF LeaveWatch
<1>2. FreshPage \in View /\ FreshPage.at = "away" /\ ~FreshPage.heard
  BY DEF FreshPage, View
<1>3. /\ socket' \in [Sockets -> Line]
      /\ \A s \in Sockets : /\ socket'[s].inbox = <<>> /\ socket'[s].since = socket[s].since
                            /\ socket'[s].st # "open"
                            /\ socket'[s].st = "none" <=> socket[s].st = "none"
  BY <1>1, DetachedLets
<1>4. WatchTypes'
  BY <1>1, <1>2, <1>3 DEF WatchInv, WatchTypes
<1>5. ASSUME NEW s \in Sockets PROVE LineSound(s)'
  <2>1. \A k \in DOMAIN socket'[s].inbox : FALSE
    BY <1>3
  <2> QED
    BY <1>1, <1>3, <2>1 DEF WatchInv, LineSound
<1>6. \A i \in DOMAIN casts' : CastSound(casts[i])'
  BY <1>1, <1>3, CastsStay
<1>7. ViewSound'
  BY <1>1, <1>2 DEF ViewSound
<1>8. Settles'
  BY <1>3 DEF Settles
<1> QED
  BY <1>4, <1>5, <1>6, <1>7, <1>8 DEF WatchInv

LEMMA ReadsKeeps ==
    ASSUME WatchInv, NEW s \in Sockets, Reads(s)
    PROVE  WatchInv'
<1> DEFINE q == socket[s].inbox
           msg == Head(q)
           line == [socket[s] EXCEPT !.inbox = Tail(@)]
<1>1. /\ WatchTypes /\ UNCHANGED <<match, owed, casts, watchers, crossed>>
      /\ page.at = "here" /\ q # <<>> /\ LineSound(s) /\ socket[s] \in Line /\ page \in View
      /\ socket' = [socket EXCEPT ![s] = line]
      /\ msg.kind = "error" => page' = [page EXCEPT !.notFound = TRUE]
      /\ msg.kind # "error" => page' = [page EXCEPT !.v = msg.v, !.over = msg.kind = "over", !.heard = TRUE]
  BY DEF WatchInv, WatchTypes, Reads
<1>2. Current(s) /\ page.sock = s
  BY <1>1 DEF LineSound, Current
<1>3. q \in Seq(Messages) /\ q # <<>>
  BY <1>1 DEF Line
<1>4. /\ Len(q) \in Nat \ {0} /\ DOMAIN q = 1..Len(q) /\ msg = q[1] /\ msg \in Messages
      /\ Tail(q) \in Seq(Messages) /\ Len(Tail(q)) = Len(q) - 1 /\ DOMAIN Tail(q) = 1..(Len(q) - 1)
      /\ \A k \in 1..(Len(q) - 1) : Tail(q)[k] = q[k + 1]
  <2> HIDE DEF q
  <2> QED
    BY <1>3
<1>5. line \in Line /\ line.st = socket[s].st /\ line.since = socket[s].since /\ line.inbox = Tail(q)
  BY <1>1, <1>4 DEF Line
<1> HIDE DEF line
<1>6. /\ socket' \in [Sockets -> Line] /\ socket'[s] = line
      /\ \A t \in Sockets \ {s} : socket'[t] = socket[t]
  BY <1>1, <1>5 DEF WatchTypes
<1> HIDE DEF msg
<1>7. /\ page' \in View /\ page'.at = "here" /\ page'.sock = s
      /\ msg.kind # "error" => page'.heard /\ page'.v = msg.v
      /\ msg.kind = "error" => page'.heard = page.heard /\ page'.v = page.v
  <2>1. msg.v \in Nat
    BY <1>4 DEF Messages
  <2>2. CASE msg.kind = "error"
    BY <1>1, <1>2, <2>2 DEF View
  <2>3. CASE msg.kind # "error"
    <3> DEFINE over == msg.kind = "over"
    <3>1. over \in BOOLEAN /\ page' = [page EXCEPT !.v = msg.v, !.over = over, !.heard = TRUE]
      BY <1>1, <2>3
    <3> HIDE DEF over
    <3> QED
      BY <1>1, <1>2, <2>1, <2>3, <3>1 DEF View
  <2> QED
    BY <2>2, <2>3
<1>8. WatchTypes'
  BY <1>1, <1>6, <1>7 DEF WatchTypes
<1>9. \A t \in Sockets : Current(t) <=> Current(t)'
  BY <1>1, <1>2, <1>7 DEF Current
<1>10. ASSUME NEW t \in Sockets PROVE LineSound(t)'
  <2>1. LineSound(t)
    BY DEF WatchInv
  <2>2. CASE t = s
    <3>1. \A k \in 1..(Len(q) - 1) : k + 1 \in 1..Len(q)
      BY <1>4, SMT
    <3>2. \A k \in DOMAIN Tail(q) :
             IF Tail(q)[k].kind = "error" THEN socket[s].st # "open"
             ELSE socket[s].since > 0 /\ Tail(q)[k].v >= socket[s].since
      BY <1>1, <1>4, <3>1 DEF LineSound
    <3> DEFINE rest == Tail(q)
    <3>3. socket'[s].inbox = rest /\ socket'[s].st = socket[s].st /\ socket'[s].since = socket[s].since
      BY <1>5, <1>6
    <3>4. \A k \in DOMAIN rest : IF rest[k].kind = "error" THEN socket[s].st # "open"
                                 ELSE socket[s].since > 0 /\ rest[k].v >= socket[s].since
      BY <3>2
    <3> HIDE DEF rest, q
    <3> QED
      BY <1>1, <1>2, <1>9, <2>1, <2>2, <3>3, <3>4 DEF LineSound
  <2>3. CASE t # s
    BY <1>1, <1>6, <1>9, <2>1, <2>3 DEF LineSound
  <2> QED
    BY <2>2, <2>3
<1>11. \A i \in DOMAIN casts' : CastSound(casts[i])'
  BY <1>1, <1>5, <1>6, CastsStay
<1>12. ViewSound'
  <2>1. socket'[s].since = socket[s].since
    BY <1>5, <1>6
  <2>2. s # 0
    BY WatchAssumption
  <2>3. msg.kind # "error" => socket[s].since > 0 /\ msg.v >= socket[s].since
    BY <1>1, <1>4 DEF LineSound
  <2> QED
    BY <1>2, <1>7, <2>1, <2>2, <2>3 DEF WatchInv, ViewSound
<1>13. Settles'
  <2> SUFFICES ASSUME ~crossed, match.st # "waiting", owed.state = 0, owed.over = 0,
                      socket[s].st = "open", socket[s].since > 0
               PROVE  LastCast(s)' /\ LastHeard(s)'
    <3>1. \A t \in Sockets : Current(t)' => t = s
      BY <1>2, <1>9 DEF Current
    <3> QED
      BY <1>1, <1>5, <1>6, <3>1 DEF Settles
  <2>1. LastCast(s) /\ LastHeard(s) /\ msg.kind # "error"
    BY <1>1, <1>2, <1>4 DEF WatchInv, Settles, LineSound
  <2>2. LastCast(s)'
    BY <1>1, <2>1 DEF LastCast
  <2>3. ASSUME \A i \in DOMAIN casts : s \notin casts[i].to
        PROVE  IF Tail(q) = <<>> THEN page'.heard /\ page'.v = match.v ELSE Tail(q)[Len(Tail(q))].v = match.v
    <3>1. q[Len(q)].v = match.v
      BY <1>3, <2>1, <2>3 DEF LastHeard
    <3>2. CASE Tail(q) = <<>>
      <4>1. Len(q) = 1
        <5>1. Len(Tail(q)) = 0
          BY <3>2
        <5>2. Len(q) \in Nat /\ Len(Tail(q)) = Len(q) - 1
          BY <1>4
        <5>3. \A n \in Nat : n - 1 = 0 => n = 1
          BY SMT
        <5> HIDE DEF q
        <5> QED
          BY <5>1, <5>2, <5>3, Zenon
      <4> QED
        BY <1>4, <1>7, <2>1, <3>1, <3>2, <4>1
    <3>3. CASE Tail(q) # <<>>
      <4>1. Len(q) - 1 \in 1..(Len(q) - 1) /\ (Len(q) - 1) + 1 = Len(q)
        BY <1>4, <3>3
      <4>2. Tail(q)[Len(Tail(q))] = q[Len(q)]
        BY <1>4, <4>1
      <4> QED
        BY <3>1, <3>3, <4>2
    <3> QED
      BY <3>2, <3>3
  <2>4. LastHeard(s)'
    BY <1>1, <1>5, <1>6, <2>3 DEF LastHeard
  <2> QED
    BY <2>2, <2>4
<1> QED
  BY <1>8, <1>10, <1>11, <1>12, <1>13 DEF WatchInv

LEMMA NextWatch == WatchInv /\ [WatchNext]_watchVars => WatchInv'
<1> SUFFICES ASSUME WatchInv, [WatchNext]_watchVars PROVE WatchInv'
  OBVIOUS
<1>1. CASE UNCHANGED watchVars
  BY <1>1 DEF watchVars, WatchInv, WatchTypes, LineSound, Current, CastSound, ViewSound, Settles, LastCast, LastHeard
<1>2. CASE WatchNext
  BY <1>2, TableChangesKeeps, ReturnToLobbyKeeps, LookKeeps, SendCastKeeps, AdmitKeeps, RefuseKeeps,
     NoticeGoneKeeps, ReadsKeeps, BreaksKeeps, ForgottenKeeps, OpensKeep, LeaveWatchKeeps DEF WatchNext
<1> QED
  BY <1>1, <1>2

\* WatchIsCurrent, for any sockets, changes of the table and broadcasts under
\* way: what a page shows is not older than its socket, however messages of the
\* room and sockets of the page overtake each other, and it is the table as it
\* is once everything has been sent in order.
THEOREM PagesStayCurrent == WatchSpec => []WatchIsCurrent
<1>1. WatchInv => WatchIsCurrent
  <2> SUFFICES ASSUME WatchInv PROVE WatchIsCurrent
    OBVIOUS
  <2>1. page.heard => page.v >= socket[page.sock].since
    BY DEF WatchInv, ViewSound
  <2>2. ASSUME Live, AtRest, ~crossed, match.st # "waiting" PROVE page.v = match.v
    <3>1. /\ page.at = "here" /\ page.sock \in Sockets /\ socket[page.sock].st = "open" /\ page.heard
          /\ socket[page.sock].inbox = <<>> /\ casts = <<>> /\ owed.state = 0 /\ owed.over = 0
      BY <2>2 DEF Live, AtRest, WatchInv, WatchTypes, View, ViewSound
    <3>2. Current(page.sock) /\ socket[page.sock].since > 0
      BY <3>1 DEF Current, WatchInv, ViewSound
    <3>3. LastHeard(page.sock)
      BY <2>2, <3>1, <3>2 DEF WatchInv, Settles
    <3> QED
      BY <3>1, <3>3 DEF LastHeard
  <2> QED
    BY <2>1, <2>2 DEF WatchIsCurrent
<1> QED
  BY <1>1, InitWatch, NextWatch, PTL DEF WatchSpec

-----------------------------------------------------------------------------
(* Counting places.                                                        *)

LEMMA Ranks ==
    ASSUME NEW n \in Nat, NEW at \in SUBSET (1..n)
    PROVE  /\ IsFiniteSet(at) /\ Cardinality(at) \in 0..n
           /\ \A i \in at : Cardinality(at \cap 1..i) \in 1..Cardinality(at)
           /\ \A i, j \in at : Cardinality(at \cap 1..i) = Cardinality(at \cap 1..j) => i = j
           /\ \A k \in 1..Cardinality(at) : \E i \in at : Cardinality(at \cap 1..i) = k
  <1> DEFINE Rank(i) == Cardinality(at \cap 1..i)
  <1>1. IsFiniteSet(at) /\ Cardinality(at) \in 0..n
    <2>1. IsFiniteSet(1..n) /\ Cardinality(1..n) = n
      BY FS_Interval
    <2>2. IsFiniteSet(at) /\ Cardinality(at) <= n
      BY <2>1, FS_Subset
    <2> QED
      BY <2>2, FS_CardinalityType
  <1>2. ASSUME NEW i \in at PROVE Rank(i) \in 1..Cardinality(at)
    <2>1. at \cap 1..i \in SUBSET at /\ i \in at \cap 1..i
      OBVIOUS
    <2>2. /\ IsFiniteSet(at \cap 1..i) /\ Cardinality(at \cap 1..i) <= Cardinality(at)
      BY <1>1, <2>1, FS_Subset
    <2>3. Cardinality(at \cap 1..i) # 0
      BY <2>1, <2>2, FS_EmptySet
    <2>4. Cardinality(at \cap 1..i) \in Nat
      BY <2>2, FS_CardinalityType
    <2> QED
      BY <1>1, <2>2, <2>3, <2>4
  <1>3. ASSUME NEW i \in at, NEW j \in at, i < j PROVE Rank(i) # Rank(j)
    <2>1. at \cap 1..i \in SUBSET (at \cap 1..j) /\ j \in at \cap 1..j /\ j \notin at \cap 1..i
      BY <1>3
    <2>2. IsFiniteSet(at \cap 1..j)
      BY <1>1, FS_Intersection
    <2>3. Cardinality(at \cap 1..j) = Cardinality(at \cap 1..i) => at \cap 1..j = at \cap 1..i
      BY <2>1, <2>2, FS_Subset
    <2> QED
      BY <2>1, <2>3
  <1>4. \A i, j \in at : Rank(i) = Rank(j) => i = j
    <2> SUFFICES ASSUME NEW i \in at, NEW j \in at, Rank(i) = Rank(j) PROVE i = j
      OBVIOUS
    <2>1. i \in Int /\ j \in Int
      OBVIOUS
    <2>2. ~(i < j) /\ ~(j < i)
      BY <1>3
    <2> HIDE DEF Rank
    <2> QED
      BY <2>1, <2>2
  <1> DEFINE rank == [i \in at |-> Rank(i)]
             ranks == 1..Cardinality(at)
  <1>5. rank \in Injection(at, ranks)
    <2>1. rank \in [at -> ranks]
      BY <1>2
    <2>2. \A i, j \in at : rank[i] = rank[j] => i = j
      BY <1>4
    <2> HIDE DEF rank, ranks
    <2> QED
      BY <2>1, <2>2 DEF Injection, IsInjective
  <1>6. IsFiniteSet(ranks) /\ Cardinality(ranks) = Cardinality(at)
    BY <1>1, FS_Interval
  <1>7. rank \in Surjection(at, ranks)
    <2> HIDE DEF rank, ranks
    <2> QED
      BY <1>5, <1>6, FS_Injection
  <1>8. \A k \in ranks : \E i \in at : rank[i] = k
    <2> HIDE DEF rank, ranks
    <2> QED
      BY <1>7 DEF Surjection
  <1> QED
    BY <1>1, <1>2, <1>4, <1>8

LEMMA LeastNatural ==
    ASSUME NEW S \in SUBSET Nat, S # {}
    PROVE  \E m \in S : \A k \in S : m <= k
<1>1. PICK m \in S : \A k \in S : ~(<<k, m>> \in OpToRel(<, Nat))
  BY NatLessThanWellFounded, WFMin
<1>2. \A k \in S : ~(k < m)
  BY <1>1 DEF OpToRel
<1> QED
  BY <1>2, SMT

\* There are half as many teams as seats.
LEMMA TeamsAre ==
    /\ NumTeams \in Nat \ {0} /\ TeamSeats = 2 * NumTeams /\ TeamSeats \in Nat
    /\ 0 \in Teams /\ Teams \subseteq Nat
    /\ IsFiniteSet(Teams) /\ Cardinality(Teams) = NumTeams
<1>1. NumTeams \in Nat \ {0} /\ TeamSeats = 2 * NumTeams /\ TeamSeats \in Nat
  BY TeamAssumption DEF NumTeams
<1>2. IsFiniteSet(0..(NumTeams - 1)) /\ Cardinality(0..(NumTeams - 1)) = NumTeams
  BY <1>1, FS_Interval
<1> QED
  BY <1>1, <1>2 DEF Teams

-----------------------------------------------------------------------------
(* Rosters and the sizes of their teams.                                   *)

Humans(roster, t) == {i \in Members(roster, t) : ~roster[i].bot}

\* A roster is a function on places, and teams are finite sets of places.
LEMMA RosterFacts ==
    ASSUME NEW roster \in Seq(Seat), NEW t
    PROVE  /\ Len(roster) \in Nat /\ DOMAIN roster = 1..Len(roster)
           /\ \A i \in 1..Len(roster) : roster[i] \in Seat /\ roster[i].team \in Teams /\ roster[i].bot \in BOOLEAN
           /\ Members(roster, t) \in SUBSET (1..Len(roster)) /\ IsFiniteSet(Members(roster, t))
           /\ Size(roster, t) \in Nat
           /\ IsFiniteSet(Humans(roster, t)) /\ Cardinality(Humans(roster, t)) \in Nat
           /\ Cardinality(Humans(roster, t)) <= Size(roster, t)
<1>1. Len(roster) \in Nat /\ DOMAIN roster = 1..Len(roster) /\ \A i \in 1..Len(roster) : roster[i] \in Seat
  OBVIOUS
<1>2. Members(roster, t) \in SUBSET (1..Len(roster)) /\ Humans(roster, t) \in SUBSET Members(roster, t)
  BY <1>1 DEF Members, Humans
<1>3. IsFiniteSet(1..Len(roster))
  BY <1>1, FS_Interval
<1>4. IsFiniteSet(Members(roster, t))
  BY <1>2, <1>3, FS_Subset
<1>5. IsFiniteSet(Humans(roster, t)) /\ Cardinality(Humans(roster, t)) <= Cardinality(Members(roster, t))
  BY <1>2, <1>4, FS_Subset
<1>6. Cardinality(Members(roster, t)) \in Nat /\ Cardinality(Humans(roster, t)) \in Nat
  BY <1>4, <1>5, FS_CardinalityType
<1>7. \A i \in 1..Len(roster) : roster[i].team \in Teams /\ roster[i].bot \in BOOLEAN
  BY <1>1 DEF Seat
<1> QED
  BY <1>1, <1>2, <1>4, <1>5, <1>6, <1>7 DEF Size

\* Sets of places that one maps into the other without clashes.
LEMMA Fits ==
    ASSUME NEW A, NEW B, IsFiniteSet(B), NEW h \in [A -> B],
           \A i, j \in A : h[i] = h[j] => i = j
    PROVE  IsFiniteSet(A) /\ Cardinality(A) <= Cardinality(B)
<1>1. h \in Injection(A, B)
  BY DEF Injection, IsInjective
<1> QED
  BY <1>1, FS_Injection

Halves == Teams \X {1, 2}

LEMMA HalvesAre == IsFiniteSet(Halves) /\ Cardinality(Halves) = TeamSeats
<1>1. IsFiniteSet({1, 2}) /\ Cardinality({1, 2}) = 2
  <2>1. {1, 2} = {1} \cup {2}
    OBVIOUS
  <2>2. 1 \in Nat /\ 2 \in Nat /\ IsFiniteSet({1}) /\ Cardinality({1}) = 1 /\ 2 \notin {1}
    BY FS_Singleton
  <2>3. IsFiniteSet({1} \cup {2}) /\ Cardinality({1} \cup {2}) = 1 + 1
    BY <2>2, FS_AddElement
  <2> QED
    BY <2>1, <2>3
<1>2. IsFiniteSet(Teams \X {1, 2}) /\ Cardinality(Teams \X {1, 2}) = Cardinality(Teams) * Cardinality({1, 2})
  BY <1>1, TeamsAre, FS_Product
<1> QED
  BY <1>1, <1>2, TeamsAre DEF Halves

\* With two in every team the table is full.
LEMMA TwosFillTheTable ==
    ASSUME NEW roster \in Seq(Seat), \A t \in Teams : Size(roster, t) >= 2
    PROVE  Len(roster) >= TeamSeats
<1> DEFINE Rank(t, i) == Cardinality(Members(roster, t) \cap 1..i)
           Pick(half) == CHOOSE i \in Members(roster, half[1]) : Rank(half[1], i) = half[2]
           pick == [half \in Halves |-> Pick(half)]
<1>1. ASSUME NEW half \in Halves
      PROVE  Pick(half) \in 1..Len(roster) /\ roster[Pick(half)].team = half[1]
             /\ Rank(half[1], Pick(half)) = half[2]
  <2>1. half[1] \in Teams /\ half[2] \in {1, 2}
    BY DEF Halves
  <2> DEFINE t == half[1]
             at == Members(roster, t)
  <2>2. at \in SUBSET (1..Len(roster)) /\ Len(roster) \in Nat /\ Size(roster, t) \in Nat
    BY RosterFacts
  <2>3. Size(roster, t) >= 2
    BY <2>1
  <2>4. half[2] \in 1..Cardinality(at)
    BY <2>1, <2>2, <2>3 DEF Size
  <2> HIDE DEF at
  <2>5. \E i \in at : Cardinality(at \cap 1..i) = half[2]
    BY <2>2, <2>4, Ranks
  <2>6. \E i \in Members(roster, half[1]) : Rank(half[1], i) = half[2]
    BY <2>5 DEF at
  <2> HIDE DEF Rank
  <2>7. Pick(half) \in Members(roster, half[1]) /\ Rank(half[1], Pick(half)) = half[2]
    BY <2>6
  <2> HIDE DEF Pick
  <2> QED
    BY <2>2, <2>7 DEF at, Members
<1> HIDE DEF Rank, Pick
<1>2. pick \in [Halves -> 1..Len(roster)]
  BY <1>1
<1>3. ASSUME NEW a \in Halves, NEW b \in Halves, pick[a] = pick[b] PROVE a = b
  <2>1. Pick(a) = Pick(b)
    BY <1>3
  <2>2. a[1] = b[1] /\ a[2] = b[2]
    BY <1>1, <2>1
  <2> QED
    BY <2>2 DEF Halves
<1>4. Len(roster) \in Nat
  BY RosterFacts
<1>5. IsFiniteSet(1..Len(roster)) /\ Cardinality(1..Len(roster)) = Len(roster)
  BY <1>4, FS_Interval
<1> HIDE DEF pick
<1>6. Cardinality(Halves) <= Cardinality(1..Len(roster))
  BY <1>2, <1>3, <1>5, Fits
<1> QED
  BY <1>4, <1>5, <1>6, HalvesAre

\* A full table with no more than two in a team has two in each.
LEMMA FullOfTwos ==
    ASSUME NEW roster \in Seq(Seat), Len(roster) = TeamSeats,
           \A t \in Teams : Size(roster, t) <= 2
    PROVE  \A t \in Teams : Size(roster, t) = 2
<1> SUFFICES ASSUME NEW u \in Teams, Size(roster, u) # 2 PROVE FALSE
  OBVIOUS
<1> DEFINE Rank(i) == Cardinality(Members(roster, roster[i].team) \cap 1..i)
           place == [i \in 1..Len(roster) |-> <<roster[i].team, Rank(i)>>]
           others == Halves \ {<<u, 2>>}
<1>0. Len(roster) \in Nat /\ Size(roster, u) \in Nat
  BY RosterFacts
<1>1. ASSUME NEW i \in 1..Len(roster)
      PROVE  /\ roster[i].team \in Teams /\ Rank(i) \in {1, 2}
             /\ roster[i].team = u => Rank(i) # 2
             /\ \A j \in 1..Len(roster) : roster[i].team = roster[j].team /\ Rank(i) = Rank(j) => i = j
  <2> DEFINE t == roster[i].team
             at == Members(roster, t)
  <2>1. t \in Teams /\ at \in SUBSET (1..Len(roster)) /\ Size(roster, t) \in Nat
    BY RosterFacts
  <2>2. i \in at /\ \A j \in 1..Len(roster) : roster[j].team = t => j \in at
    BY RosterFacts DEF Members
  <2>3. Cardinality(at) <= 2 /\ Cardinality(at) \in Nat /\ (t = u => Cardinality(at) # 2)
    BY <2>1 DEF Size
  <2>8. Rank(i) = Cardinality(at \cap 1..i)
    OBVIOUS
  <2>9. \A j \in 1..Len(roster) : roster[i].team = roster[j].team => Rank(j) = Cardinality(at \cap 1..j)
    OBVIOUS
  <2> HIDE DEF at, Rank
  <2>4. Cardinality(at \cap 1..i) \in 1..Cardinality(at)
        /\ \A j \in at : Cardinality(at \cap 1..i) = Cardinality(at \cap 1..j) => i = j
    BY <1>0, <2>1, <2>2, Ranks
  <2>5. Rank(i) \in 1..Cardinality(at)
    BY <2>4, <2>8
  <2>6. Rank(i) \in {1, 2} /\ (t = u => Rank(i) # 2)
    BY <2>3, <2>5
  <2>7. ASSUME NEW j \in 1..Len(roster), roster[i].team = roster[j].team, Rank(i) = Rank(j) PROVE i = j
    BY <2>2, <2>4, <2>7, <2>8, <2>9
  <2> QED
    BY <2>1, <2>6, <2>7
<1> HIDE DEF Rank
<1>2. place \in [1..Len(roster) -> others]
  <2> SUFFICES ASSUME NEW i \in 1..Len(roster) PROVE <<roster[i].team, Rank(i)>> \in others
    OBVIOUS
  <2> QED
    BY <1>1 DEF Halves
<1>3. \A i, j \in 1..Len(roster) : place[i] = place[j] => i = j
  BY <1>1
<1>4. <<u, 2>> \in Halves
  BY DEF Halves
<1>5. IsFiniteSet(others) /\ Cardinality(others) = TeamSeats - 1
  BY <1>4, HalvesAre, FS_RemoveElement
<1>6. IsFiniteSet(1..Len(roster)) /\ Cardinality(1..Len(roster)) = Len(roster)
  BY <1>0, FS_Interval
<1> HIDE DEF place, others
<1>7. Cardinality(1..Len(roster)) <= Cardinality(others)
  BY <1>2, <1>3, <1>5, Fits
<1> QED
  BY <1>5, <1>6, <1>7, TeamsAre

-----------------------------------------------------------------------------
(* The bots.                                                               *)

\* There is a first smallest team.
LEMMA BotTeamIsSmallest ==
    ASSUME NEW roster \in Seq(Seat)
    PROVE  BotTeam(roster) \in Teams /\ \A u \in Teams : Size(roster, BotTeam(roster)) <= Size(roster, u)
<1> DEFINE sizes == {Size(roster, t) : t \in Teams}
<1>1. \A t \in Teams : t \in Nat /\ Size(roster, t) \in Nat
  BY RosterFacts, TeamsAre
<1>2. sizes \in SUBSET Nat /\ sizes # {}
  BY <1>1, TeamsAre
<1>3. PICK m \in sizes : \A k \in sizes : m <= k
  <2> HIDE DEF sizes
  <2> QED
    BY <1>2, LeastNatural
<1> DEFINE smallest == {t \in Teams : Size(roster, t) = m}
<1>4. smallest \in SUBSET Nat /\ smallest # {}
  BY <1>1, <1>3
<1>5. PICK t \in smallest : \A u \in smallest : t <= u
  <2> HIDE DEF smallest
  <2> QED
    BY <1>4, LeastNatural
<1>6. t \in Teams /\ Size(roster, t) = m /\ \A u \in Teams : m <= Size(roster, u)
  BY <1>3, <1>5
<1>7. ASSUME NEW u \in 0..(t - 1) PROVE Size(roster, t) < Size(roster, u)
  <2>1. u \in Teams /\ ~(t <= u)
    BY <1>1, <1>6, TeamsAre DEF Teams
  <2>2. Size(roster, u) # m
    BY <1>5, <2>1
  <2>3. Size(roster, u) \in Nat /\ Size(roster, t) \in Nat /\ Size(roster, t) <= Size(roster, u)
    BY <1>1, <1>6, <2>1
  <2> HIDE DEF smallest, sizes
  <2> QED
    BY <1>6, <2>2, <2>3
<1> HIDE DEF smallest, sizes
<1>8. \E x \in Teams : /\ \A u \in Teams : Size(roster, x) <= Size(roster, u)
                       /\ \A u \in 0..(x - 1) : Size(roster, x) < Size(roster, u)
  BY <1>6, <1>7
<1> QED
  BY <1>8 DEF BotTeam

\* A bot takes the next place and leaves the others; while the table has a place
\* and no team more than two, no team gets more.
LEMMA OneBot ==
    ASSUME NEW roster \in Seq(Seat)
    PROVE  /\ WithBot(roster) \in Seq(Seat) /\ Len(WithBot(roster)) = Len(roster) + 1
           /\ \A i \in 1..Len(roster) : WithBot(roster)[i] = roster[i]
           /\ WithBot(roster)[Len(roster) + 1].bot
           /\ Len(roster) < TeamSeats /\ (\A t \in Teams : Size(roster, t) <= 2)
                => \A t \in Teams : Size(WithBot(roster), t) <= 2
<1> DEFINE bot == [team |-> BotTeam(roster), ready |-> TRUE, connected |-> TRUE, bot |-> TRUE]
           next == WithBot(roster)
           n == Len(roster) + 1
<1>1. bot \in Seat /\ bot.team = BotTeam(roster) /\ bot.bot
  BY BotTeamIsSmallest DEF Seat
<1>2. next = Append(roster, bot)
  BY DEF WithBot
<1> HIDE DEF bot, next
<1>3. Len(roster) \in Nat /\ next \in Seq(Seat) /\ Len(next) = n /\ next[n] = bot
      /\ DOMAIN next = 1..n /\ DOMAIN roster = 1..Len(roster)
      /\ \A i \in 1..Len(roster) : next[i] = roster[i]
  BY <1>1, <1>2
<1>4. ASSUME Len(roster) < TeamSeats, \A t \in Teams : Size(roster, t) <= 2, NEW t \in Teams
      PROVE  Size(next, t) <= 2
  <2>1. Size(roster, t) \in Nat /\ IsFiniteSet(Members(roster, t)) /\ Size(roster, t) <= 2
        /\ Members(roster, t) \in SUBSET (1..Len(roster))
    BY <1>4, RosterFacts
  <2>2. CASE t = BotTeam(roster)
    <3>1. Size(roster, t) < 2
      <4> SUFFICES ASSUME ~(Size(roster, t) < 2) PROVE FALSE
        OBVIOUS
      <4>1. ASSUME NEW u \in Teams PROVE Size(roster, u) >= 2
        <5>1. Size(roster, t) <= Size(roster, u) /\ Size(roster, u) \in Nat
          BY <2>2, BotTeamIsSmallest, RosterFacts
        <5> QED
          BY <2>1, <5>1
      <4>2. Len(roster) >= TeamSeats
        BY <4>1, TwosFillTheTable
      <4> QED
        BY <1>3, <1>4, <4>2, TeamsAre
    <3>2. Members(next, t) = Members(roster, t) \cup {n}
      BY <1>1, <1>3, <2>2 DEF Members
    <3>3. n \notin Members(roster, t)
      BY <1>3, <2>1
    <3>4. Cardinality(Members(next, t)) = Cardinality(Members(roster, t)) + 1
      <4> HIDE DEF n
      <4> QED
        BY <2>1, <3>2, <3>3, FS_AddElement
    <3> QED
      BY <2>1, <3>1, <3>4 DEF Size
  <2>3. CASE t # BotTeam(roster)
    <3>1. Members(next, t) = Members(roster, t)
      BY <1>1, <1>3, <2>3 DEF Members
    <3> QED
      BY <2>1, <3>1 DEF Size
  <2> QED
    BY <2>2, <2>3
<1> QED
  BY <1>1, <1>3, <1>4 DEF next

\* The loop of handleStartGame: a sequence of rosters, each with one bot more.
BotsJoin(roster, fill) ==
    fill = [n \in Nat |-> IF n = 0 THEN roster ELSE WithBot(fill[n - 1])]

LEMMA FillExists ==
    ASSUME NEW roster \in Seq(Seat)
    PROVE  \E fill : BotsJoin(roster, fill)
<1> DEFINE Builds(g, n) == /\ g \in [0..n -> Seq(Seat)] /\ g[0] = roster
                         /\ \A k \in 1..n : g[k] = WithBot(g[k - 1])
<1>1. ASSUME NEW n \in Nat PROVE \E g : Builds(g, n)
  <2> DEFINE S == {k \in Nat : ~\E g : Builds(g, k)}
  <2> SUFFICES ASSUME S # {} PROVE FALSE
    BY <1>1
  <2>1. S \in SUBSET Nat
    OBVIOUS
  <2>2. PICK m \in S : \A k \in S : m <= k
    <3> HIDE DEF S
    <3> QED
      BY <2>1, LeastNatural
  <2>3. m \in Nat /\ ~\E g : Builds(g, m)
    OBVIOUS
  <2>4. CASE m = 0
    <3>1. Builds([k \in 0..m |-> roster], m)
      BY <2>4
    <3> QED
      BY <2>3, <3>1
  <2>5. CASE m # 0
    <3>1. m - 1 \in Nat /\ ~(m <= m - 1)
      BY <2>3, <2>5
    <3>2. m - 1 \notin S
      BY <2>2, <3>1
    <3>3. PICK g : Builds(g, m - 1)
      BY <3>1, <3>2
    <3> DEFINE h == [k \in 0..m |-> IF k = m THEN WithBot(g[m - 1]) ELSE g[k]]
    <3>4. g[m - 1] \in Seq(Seat) /\ \A k \in 0..(m - 1) : g[k] \in Seq(Seat)
      BY <3>1, <3>3
    <3>5. WithBot(g[m - 1]) \in Seq(Seat)
      BY <3>4, OneBot
    <3>6. h \in [0..m -> Seq(Seat)]
      BY <2>3, <3>4, <3>5
    <3>7. h[0] = roster
      BY <2>3, <2>5, <3>3
    <3>8. ASSUME NEW k \in 1..m PROVE h[k] = WithBot(h[k - 1])
      <4>1. k - 1 \in 0..m /\ k - 1 # m /\ h[k - 1] = g[k - 1]
        BY <2>3
      <4>2. CASE k = m
        BY <2>3, <4>1, <4>2
      <4>3. CASE k # m
        <5>1. k \in 1..(m - 1) /\ k \in 0..m
          BY <2>3, <4>3
        <5>2. h[k] = g[k] /\ g[k] = WithBot(g[k - 1])
          BY <3>3, <4>3, <5>1
        <5> QED
          BY <4>1, <5>2
      <4> QED
        BY <4>2, <4>3
    <3> HIDE DEF h
    <3>9. Builds(h, m)
      BY <3>6, <3>7, <3>8
    <3> QED
      BY <2>3, <3>9
  <2> QED
    BY <2>4, <2>5
<1>2. ASSUME NEW n \in Nat, NEW g, NEW h, Builds(g, n), Builds(h, n + 1)
      PROVE  g[n] = h[n]
  <2> DEFINE S == {k \in Nat : k <= n /\ g[k] # h[k]}
  <2> SUFFICES ASSUME g[n] # h[n] PROVE FALSE
    OBVIOUS
  <2>0. S # {}
    <3>1. n <= n
      BY SMT
    <3> QED
      BY <3>1
  <2>1. S \in SUBSET Nat
    OBVIOUS
  <2>2. PICK m \in S : \A k \in S : m <= k
    <3> HIDE DEF S
    <3> QED
      BY <2>0, <2>1, LeastNatural
  <2>3. m \in Nat /\ m <= n /\ g[m] # h[m] /\ m # 0
    BY <1>2
  <2>4. m - 1 \in Nat /\ m - 1 <= n /\ ~(m <= m - 1) /\ m \in 1..n /\ m \in 1..(n + 1)
    BY <2>3
  <2>5. g[m - 1] = h[m - 1]
    BY <2>2, <2>4
  <2>6. g[m] = WithBot(g[m - 1]) /\ h[m] = WithBot(h[m - 1])
    BY <1>2, <2>4
  <2> QED
    BY <2>3, <2>5, <2>6
<1> DEFINE G(n) == CHOOSE g : Builds(g, n)
           fill == [n \in Nat |-> G(n)[n]]
<1> HIDE DEF Builds
<1>3. \A n \in Nat : Builds(G(n), n)
  BY <1>1
<1> HIDE DEF G
<1>4. ASSUME NEW n \in Nat
      PROVE  fill[n] = IF n = 0 THEN roster ELSE WithBot(fill[n - 1])
  <2>1. Builds(G(n), n) /\ fill[n] = G(n)[n]
    BY <1>3
  <2>2. CASE n = 0
    BY <2>1, <2>2 DEF Builds
  <2>3. CASE n # 0
    <3>1. n - 1 \in Nat /\ (n - 1) + 1 = n /\ n \in 1..n
      BY <2>3
    <3>2. Builds(G(n - 1), n - 1) /\ fill[n - 1] = G(n - 1)[n - 1]
      BY <1>3, <3>1
    <3>3. G(n - 1)[n - 1] = G(n)[n - 1]
      <4>1. Builds(G(n), (n - 1) + 1)
        BY <2>1, <3>1
      <4> QED
        BY <1>2, <3>1, <3>2, <4>1
    <3>4. G(n)[n] = WithBot(G(n)[n - 1])
      BY <2>1, <3>1 DEF Builds
    <3> QED
      BY <2>1, <2>3, <3>2, <3>3, <3>4
  <2> QED
    BY <2>2, <2>3
<1>5. fill = [n \in Nat |-> fill[n]]
  OBVIOUS
<1> HIDE DEF fill
<1>6. [n \in Nat |-> fill[n]] = [n \in Nat |-> IF n = 0 THEN roster ELSE WithBot(fill[n - 1])]
  BY <1>4
<1> QED
  BY <1>5, <1>6 DEF BotsJoin

\* The roster of a start: those who stay keep their places, bots have the others,
\* and they overfill no team.
LEMMA FilledFacts ==
    ASSUME NEW roster \in Seq(Seat), Len(roster) <= TeamSeats
    PROVE  /\ Filled(roster) \in Seq(Seat) /\ Len(Filled(roster)) = TeamSeats
           /\ \A i \in 1..Len(roster) : Filled(roster)[i] = roster[i]
           /\ \A i \in (Len(roster) + 1)..TeamSeats : Filled(roster)[i].bot
           /\ (\A t \in Teams : Size(roster, t) <= 2)
                => \A t \in Teams : Size(Filled(roster), t) <= 2
<1> DEFINE fill == CHOOSE fill : BotsJoin(roster, fill)
           free == TeamSeats - Len(roster)
           n == Len(roster)
           Level(r) == \A t \in Teams : Size(r, t) <= 2
           Good(k) == /\ fill[k] \in Seq(Seat) /\ Len(fill[k]) = n + k
                      /\ \A i \in 1..n : fill[k][i] = roster[i]
                      /\ \A i \in (n + 1)..(n + k) : fill[k][i].bot
                      /\ Level(roster) => Level(fill[k])
<1>1. BotsJoin(roster, fill)
  BY FillExists
<1>2. Filled(roster) = fill[free]
  BY DEF Filled, BotsJoin
<1> HIDE DEF fill
<1>3. free \in Nat /\ n \in Nat /\ n + free = TeamSeats
  BY TeamsAre
<1>4. fill[0] = roster /\ \A k \in Nat \ {0} : fill[k] = WithBot(fill[k - 1])
  BY <1>1 DEF BotsJoin
<1>5. \A k \in 0..free : Good(k)
  <2> DEFINE S == {k \in Nat : k <= free /\ ~Good(k)}
  <2> SUFFICES ASSUME S # {} PROVE FALSE
    <3>1. \A k \in 0..free : k \in Nat /\ k <= free
      BY <1>3
    <3> HIDE DEF Good
    <3> QED
      BY <3>1
  <2>1. S \in SUBSET Nat
    OBVIOUS
  <2>2. PICK m \in S : \A k \in S : m <= k
    <3> HIDE DEF S
    <3> QED
      BY <2>1, LeastNatural
  <2>3. m \in Nat /\ m <= free /\ ~Good(m)
    OBVIOUS
  <2>4. Good(0)
    BY <1>3, <1>4
  <2>5. m # 0
    BY <2>3, <2>4
  <2>6. m - 1 \in Nat /\ m - 1 <= free /\ ~(m <= m - 1)
    BY <1>3, <2>3, <2>5
  <2>7. Good(m - 1)
    <3> HIDE DEF Good
    <3> QED
      BY <2>2, <2>6
  <2> DEFINE r == fill[m - 1]
  <2>8. fill[m] = WithBot(r)
    BY <1>4, <2>3, <2>5
  <2>9. /\ r \in Seq(Seat) /\ Len(r) = n + (m - 1)
        /\ Level(roster) => Level(r)
        /\ \A i \in 1..n : r[i] = roster[i]
        /\ \A i \in (n + 1)..(n + (m - 1)) : r[i].bot
    BY <2>7
  <2> HIDE DEF r, S, Level
  <2>10. Len(r) + 1 = n + m /\ Len(r) < TeamSeats
    BY <1>3, <2>3, <2>5, <2>9, TeamsAre
  <2>11. /\ fill[m] \in Seq(Seat) /\ Len(fill[m]) = n + m
         /\ \A i \in 1..Len(r) : fill[m][i] = r[i]
         /\ fill[m][n + m].bot
         /\ Level(r) => Level(fill[m])
    BY <2>8, <2>9, <2>10, OneBot DEF Level
  <2>12. \A i \in 1..n : fill[m][i] = roster[i]
    <3>1. \A i \in 1..n : i \in 1..Len(r)
      BY <1>3, <2>3, <2>5, <2>9
    <3> QED
      BY <2>9, <2>11, <3>1
  <2>13. \A i \in (n + 1)..(n + m) : fill[m][i].bot
    <3> TAKE i \in (n + 1)..(n + m)
    <3>1. i = n + m \/ i \in 1..Len(r) \cap (n + 1)..(n + (m - 1))
      BY <1>3, <2>3, <2>5, <2>9
    <3> QED
      BY <2>9, <2>11, <3>1
  <2>14. Good(m)
    BY <2>9, <2>11, <2>12, <2>13
  <2> QED
    BY <2>3, <2>14
<1>6. free \in 0..free
  BY <1>3
<1>7. Good(free)
  <2> HIDE DEF Good
  <2> QED
    BY <1>5, <1>6
<1> QED
  BY <1>2, <1>3, <1>7

-----------------------------------------------------------------------------
(* The waiting room.                                                       *)

\* Until the start there are only humans.
OnlyHumans == ~underway => \A i \in DOMAIN places : ~places[i].bot

TeamInv == TeamTypeOK /\ OnlyHumans /\ OnlyTeamZeroOverflows /\ StartIsBalanced

\* Who stays has a place of his own in the roster before.
StaysAs(before, after, h) ==
    /\ h \in [1..Len(after) -> 1..Len(before)]
    /\ \A j, k \in 1..Len(after) : h[j] = h[k] => j = k
    /\ \A k \in 1..Len(after) : /\ after[k].team = before[h[k]].team
                                /\ after[k].bot = before[h[k]].bot

\* A team does not gain humans when some of a roster go.
LEMMA HumansGo ==
    ASSUME NEW before \in Seq(Seat), NEW after \in Seq(Seat), NEW h, StaysAs(before, after, h), NEW t
    PROVE  Cardinality(Humans(after, t)) <= Cardinality(Humans(before, t))
<1> DEFINE A == Humans(after, t)
           B == Humans(before, t)
           g == [i \in A |-> h[i]]
<1>1. DOMAIN after = 1..Len(after) /\ DOMAIN before = 1..Len(before)
  OBVIOUS
<1>2. ASSUME NEW i \in A PROVE i \in 1..Len(after) /\ h[i] \in B
  BY <1>1 DEF StaysAs, Humans, Members
<1>3. \A i, j \in A : h[i] = h[j] => i = j
  BY <1>2 DEF StaysAs
<1>4. IsFiniteSet(B)
  BY RosterFacts
<1> HIDE DEF A, B
<1>5. g \in [A -> B] /\ \A i, j \in A : g[i] = g[j] => i = j
  BY <1>2, <1>3
<1> HIDE DEF g
<1>6. Cardinality(A) <= Cardinality(B)
  BY <1>4, <1>5, Fits
<1> QED
  BY <1>6 DEF A, B

LEMMA ConnectedStay ==
    ASSUME TeamTypeOK
    PROVE  /\ Connected \in Seq(Seat) /\ Len(Connected) <= Len(places)
           /\ \E h : /\ StaysAs(places, Connected, h)
                     /\ \A k \in 1..Len(Connected) : Connected[k] = places[h[k]]
                     /\ \A i \in DOMAIN places : places[i].connected => \E k \in 1..Len(Connected) : h[k] = i
<1> DEFINE at == {i \in DOMAIN places : places[i].connected}
           Rank(i) == Cardinality(at \cap 1..i)
           Pick(k) == CHOOSE i \in at : Rank(i) = k
           stay == [k \in 1..Cardinality(at) |-> places[Pick(k)]]
           pick == [k \in 1..Cardinality(at) |-> Pick(k)]
<1>1. /\ Len(places) \in Nat /\ DOMAIN places = 1..Len(places)
      /\ \A i \in 1..Len(places) : places[i] \in Seat
  BY DEF TeamTypeOK
<1>2. at \in SUBSET (1..Len(places)) /\ \A i \in DOMAIN places : places[i].connected => i \in at
  BY <1>1
<1>3. Connected = stay
  BY DEF Connected
<1> HIDE DEF at
<1>4. /\ Cardinality(at) \in 0..Len(places)
      /\ \A i \in at : Rank(i) \in 1..Cardinality(at)
      /\ \A i, j \in at : Rank(i) = Rank(j) => i = j
      /\ \A k \in 1..Cardinality(at) : \E i \in at : Rank(i) = k
  BY <1>1, <1>2, Ranks
<1> HIDE DEF Rank
<1>5. \A k \in 1..Cardinality(at) : Pick(k) \in at /\ Rank(Pick(k)) = k
  BY <1>4
<1>6. \A i \in at : Pick(Rank(i)) = i
  BY <1>4, <1>5
<1> HIDE DEF Pick
<1>7. stay \in Seq(Seat) /\ Len(stay) = Cardinality(at)
      /\ \A k \in 1..Cardinality(at) : stay[k] = places[Pick(k)] /\ pick[k] = Pick(k)
  <2>1. \A k \in 1..Cardinality(at) : Pick(k) \in 1..Len(places) /\ places[Pick(k)] \in Seat
    BY <1>1, <1>2, <1>5
  <2>2. Cardinality(at) \in Nat
    BY <1>1, <1>4
  <2> QED
    BY <2>1, <2>2
<1>8. pick \in [1..Cardinality(at) -> 1..Len(places)]
  BY <1>2, <1>5
<1> HIDE DEF stay, pick
<1>9. \A j, k \in 1..Cardinality(at) : pick[j] = pick[k] => j = k
  BY <1>5, <1>7
<1>10. StaysAs(places, stay, pick)
  BY <1>7, <1>8, <1>9 DEF StaysAs
<1>11. \A i \in DOMAIN places : places[i].connected => \E k \in 1..Len(stay) : pick[k] = i
  <2> SUFFICES ASSUME NEW i \in DOMAIN places, places[i].connected
               PROVE  \E k \in 1..Len(stay) : pick[k] = i
    OBVIOUS
  <2>1. i \in at /\ Rank(i) \in 1..Cardinality(at)
    BY <1>2, <1>4
  <2>2. pick[Rank(i)] = i
    BY <1>6, <1>7, <2>1
  <2> QED
    BY <1>7, <2>1, <2>2
<1>12. \A k \in 1..Len(stay) : stay[k] = places[pick[k]]
  BY <1>7
<1>13. Len(stay) <= Len(places)
  BY <1>1, <1>4, <1>7
<1> QED
  BY <1>3, <1>7, <1>10, <1>11, <1>12, <1>13

LEMMA HumanSizeIs == \A t : HumanSize(t) = Cardinality(Humans(places, t))
BY DEF HumanSize, Humans

LEMMA InitTeam == TeamInit => TeamInv
<1> SUFFICES ASSUME TeamInit PROVE TeamInv
  OBVIOUS
<1>1. places = <<>> /\ underway = FALSE /\ places \in Seq(Seat) /\ Len(places) = 0 /\ DOMAIN places = {}
  BY DEF TeamInit
<1>2. \A t : {i \in Members(places, t) : ~places[i].bot} = {}
  BY <1>1 DEF Members
<1>3. \A t : HumanSize(t) = 0
  BY <1>2, FS_EmptySet DEF HumanSize
<1>4. TeamTypeOK
  <2>1. Len(places) <= TeamSeats
    BY <1>1, TeamsAre
  <2>2. underway \in BOOLEAN
    BY <1>1
  <2> QED
    BY <1>1, <2>1, <2>2 DEF TeamTypeOK
<1>5. OnlyHumans
  BY <1>1 DEF OnlyHumans
<1>6. OnlyTeamZeroOverflows
  BY <1>3 DEF OnlyTeamZeroOverflows, TeamCap
<1>7. StartIsBalanced
  BY <1>1 DEF StartIsBalanced
<1> QED
  BY <1>4, <1>5, <1>6, <1>7 DEF TeamInv

\* A step of the waiting room that only changes one seat, and neither its team nor
\* who sits there.
LEMMA SeatChangeKeeps ==
    ASSUME TeamInv, ~underway, UNCHANGED underway, NEW i \in DOMAIN places, NEW seat \in Seat,
           places' = [places EXCEPT ![i] = seat],
           seat.team = places[i].team, seat.bot = places[i].bot
    PROVE  TeamInv'
<1>1. places \in Seq(Seat) /\ Len(places) <= TeamSeats
  BY DEF TeamInv, TeamTypeOK
<1>2. /\ places' \in Seq(Seat) /\ Len(places') = Len(places) /\ DOMAIN places' = DOMAIN places
      /\ \A j \in DOMAIN places : places'[j].team = places[j].team /\ places'[j].bot = places[j].bot
  BY <1>1
<1>3. \A t : {j \in Members(places, t) : ~places[j].bot}' = {j \in Members(places, t) : ~places[j].bot}
  BY <1>2 DEF Members
<1>4. \A t : HumanSize(t)' = HumanSize(t)
  BY <1>3 DEF HumanSize
<1>5. TeamTypeOK'
  BY <1>1, <1>2 DEF TeamInv, TeamTypeOK
<1>6. OnlyHumans'
  BY <1>2 DEF TeamInv, OnlyHumans
<1>7. OnlyTeamZeroOverflows'
  BY <1>4 DEF TeamInv, OnlyTeamZeroOverflows
<1> QED
  BY <1>5, <1>6, <1>7 DEF TeamInv, StartIsBalanced

LEMMA JoinKeeps == ASSUME TeamInv, Join PROVE TeamInv'
<1> DEFINE seat == [team |-> 0, ready |-> places = <<>>, connected |-> TRUE, bot |-> FALSE]
           n == Len(places) + 1
<1>1. /\ ~underway /\ underway' = underway /\ Len(places) < TeamSeats
      /\ places' = Append(places, seat)
  BY DEF Join, HasRoom
<1>2. seat \in Seat /\ seat.team = 0 /\ ~seat.bot
  BY TeamsAre DEF Seat
<1>3. places \in Seq(Seat)
  BY DEF TeamInv, TeamTypeOK
<1> HIDE DEF seat
<1>4. /\ places' \in Seq(Seat) /\ Len(places') = n /\ DOMAIN places' = 1..n /\ DOMAIN places = 1..Len(places)
      /\ places'[n] = seat /\ Len(places) \in Nat
      /\ \A i \in 1..Len(places) : places'[i] = places[i]
  BY <1>1, <1>2, <1>3
<1>5. \A t \in Teams \ {0} : {i \in Members(places, t) : ~places[i].bot}' = {i \in Members(places, t) : ~places[i].bot}
  BY <1>2, <1>4 DEF Members
<1>6. \A t \in Teams \ {0} : HumanSize(t)' = HumanSize(t)
  BY <1>5 DEF HumanSize
<1>7. TeamTypeOK'
  BY <1>1, <1>4, TeamsAre DEF TeamInv, TeamTypeOK
<1>8. OnlyHumans'
  BY <1>1, <1>2, <1>4 DEF TeamInv, OnlyHumans
<1>9. OnlyTeamZeroOverflows'
  BY <1>6 DEF TeamInv, OnlyTeamZeroOverflows
<1> QED
  BY <1>1, <1>7, <1>8, <1>9 DEF TeamInv, StartIsBalanced

LEMMA LeaveKeeps == ASSUME TeamInv, NEW i \in DOMAIN places, Leave(i) PROVE TeamInv'
<1> DEFINE rest == RemoveAt(places, i)
           h == [k \in 1..Len(rest) |-> IF k < i THEN k ELSE k + 1]
<1>1. ~underway /\ underway' = underway /\ places' = HostReady(rest)
  BY DEF Leave
<1>2. places \in Seq(Seat) /\ Len(places) <= TeamSeats
  BY DEF TeamInv, TeamTypeOK
<1>3. /\ rest \in Seq(Seat) /\ Len(places) \in Nat \ {0} /\ i \in 1..Len(places)
      /\ DOMAIN rest = 1..(Len(places) - 1)
      /\ \A k \in 1..(Len(places) - 1) : rest[k] = IF k < i THEN places[k] ELSE places[k + 1]
  BY <1>2, RemoveAtGives
<1> HIDE DEF rest
<1>4. Len(rest) = Len(places) - 1
  BY <1>3
<1>5. /\ places' \in Seq(Seat) /\ Len(places') = Len(rest) /\ DOMAIN places' = DOMAIN rest
      /\ \A k \in 1..Len(rest) : places'[k].team = rest[k].team /\ places'[k].bot = rest[k].bot
  <2>1. CASE rest = <<>>
    BY <1>1, <1>3, <2>1 DEF HostReady
  <2>2. CASE rest # <<>>
    <3>1. 1 \in DOMAIN rest /\ rest[1] \in Seat
      BY <1>3, <1>4, <2>2
    <3>2. places' = [rest EXCEPT ![1] = [rest[1] EXCEPT !.ready = TRUE]]
      BY <1>1, <2>2, <3>1 DEF HostReady
    <3>3. [rest[1] EXCEPT !.ready = TRUE] \in Seat
      BY <3>1 DEF Seat
    <3>4. [rest[1] EXCEPT !.ready = TRUE].team = rest[1].team /\ [rest[1] EXCEPT !.ready = TRUE].bot = rest[1].bot
      BY <3>1 DEF Seat
    <3> QED
      BY <1>3, <3>1, <3>2, <3>3, <3>4
  <2> QED
    BY <2>1, <2>2
<1>6. h \in [1..Len(rest) -> 1..Len(places)]
  BY <1>3, <1>4
<1>7. \A j, k \in 1..Len(rest) : h[j] = h[k] => j = k
  BY <1>3, <1>4
<1>8. \A k \in 1..Len(rest) : rest[k] = places[h[k]]
  BY <1>3, <1>4
<1> HIDE DEF h
<1>9. StaysAs(places, places', h)
  BY <1>5, <1>6, <1>7, <1>8 DEF StaysAs
<1>10. TeamTypeOK'
  BY <1>1, <1>2, <1>3, <1>4, <1>5, TeamsAre DEF TeamInv, TeamTypeOK
<1>11. OnlyHumans'
  BY <1>1, <1>2, <1>5, <1>9 DEF TeamInv, OnlyHumans, StaysAs
<1>12. OnlyTeamZeroOverflows'
  <2> SUFFICES ASSUME NEW t \in Teams \ {0} PROVE HumanSize(t)' <= TeamCap
    BY DEF OnlyTeamZeroOverflows
  <2>1. Cardinality(Humans(places', t)) <= Cardinality(Humans(places, t))
    BY <1>2, <1>5, <1>9, HumansGo
  <2>2. HumanSize(t) <= TeamCap
    BY DEF TeamInv, OnlyTeamZeroOverflows
  <2>3. HumanSize(t) = Cardinality(Humans(places, t)) /\ HumanSize(t)' = Cardinality(Humans(places', t))
    BY DEF HumanSize, Humans
  <2>4. Cardinality(Humans(places, t)) \in Nat /\ Cardinality(Humans(places', t)) \in Nat
    BY <1>2, <1>5, RosterFacts
  <2> QED
    BY <2>1, <2>2, <2>3, <2>4 DEF TeamCap
<1> QED
  BY <1>1, <1>10, <1>11, <1>12 DEF TeamInv, StartIsBalanced

\* The team chosen has at most one other member, and the others lose one at most.
LEMMA SetTeamKeeps == ASSUME TeamInv, NEW i \in DOMAIN places, NEW t \in Teams, SetTeam(i, t) PROVE TeamInv'
<1> DEFINE seat == [places[i] EXCEPT !.team = t]
<1>1. ~underway /\ underway' = underway /\ ~TeamIsFull(i, t) /\ places' = [places EXCEPT ![i] = seat]
  BY DEF SetTeam
<1>2. places \in Seq(Seat) /\ Len(places) <= TeamSeats /\ places[i] \in Seat
  BY DEF TeamInv, TeamTypeOK
<1>3. seat \in Seat /\ seat.team = t /\ seat.bot = places[i].bot
  BY <1>2 DEF Seat
<1> HIDE DEF seat
<1>4. /\ places' \in Seq(Seat) /\ Len(places') = Len(places) /\ DOMAIN places' = DOMAIN places
      /\ places'[i] = seat /\ \A j \in DOMAIN places \ {i} : places'[j] = places[j]
  BY <1>1, <1>2, <1>3
<1>5. TeamTypeOK'
  BY <1>1, <1>2, <1>4 DEF TeamInv, TeamTypeOK
<1>6. OnlyHumans'
  <2>1. \A j \in DOMAIN places : places'[j].bot = places[j].bot
    BY <1>3, <1>4
  <2> QED
    BY <1>1, <1>4, <2>1 DEF TeamInv, OnlyHumans
<1>7. ASSUME NEW u \in Teams \ {0} PROVE HumanSize(u)' <= 2
  <2>1. HumanSize(u)' = Cardinality(Humans(places', u)) /\ HumanSize(u) = Cardinality(Humans(places, u))
    BY DEF HumanSize, Humans
  <2>2. IsFiniteSet(Humans(places, u)) /\ IsFiniteSet(Humans(places', u)) /\ IsFiniteSet(Members(places, u))
        /\ Cardinality(Humans(places', u)) \in Nat /\ Cardinality(Humans(places, u)) \in Nat
    BY <1>2, <1>4, RosterFacts
  <2>3. HumanSize(u) <= 2
    BY DEF TeamInv, OnlyTeamZeroOverflows, TeamCap
  <2>4. CASE u = t
    <3> DEFINE others == Members(places, t) \ {i}
    <3>1. IsFiniteSet(others) /\ Cardinality(others) \in Nat
      BY <2>2, <2>4, FS_RemoveElement, FS_CardinalityType
    <3>2. Cardinality(others) < 2
      BY <1>1, <3>1 DEF TeamIsFull, TeamCap
    <3>3. Humans(places', u) \in SUBSET (others \cup {i})
      BY <1>3, <1>4, <2>4 DEF Humans, Members
    <3> HIDE DEF others
    <3>4. IsFiniteSet(others \cup {i}) /\ Cardinality(others \cup {i}) <= 2
      <4>1. IsFiniteSet(others \cup {i}) /\ Cardinality(others \cup {i}) = IF i \in others THEN Cardinality(others) ELSE Cardinality(others) + 1
        BY <3>1, FS_AddElement
      <4> QED
        BY <3>1, <3>2, <4>1
    <3>5. Cardinality(Humans(places', u)) <= Cardinality(others \cup {i}) /\ Cardinality(others \cup {i}) \in Nat
      BY <3>3, <3>4, FS_Subset, FS_CardinalityType
    <3> QED
      BY <2>1, <2>2, <3>4, <3>5
  <2>5. CASE u # t
    <3>1. Humans(places', u) \in SUBSET Humans(places, u)
      BY <1>3, <1>4, <2>5 DEF Humans, Members
    <3>2. Cardinality(Humans(places', u)) <= Cardinality(Humans(places, u))
      BY <2>2, <3>1, FS_Subset
    <3> QED
      BY <2>1, <2>2, <2>3, <3>2
  <2> QED
    BY <2>4, <2>5
<1>8. OnlyTeamZeroOverflows'
  BY <1>7 DEF OnlyTeamZeroOverflows, TeamCap
<1> QED
  BY <1>1, <1>5, <1>6, <1>8 DEF TeamInv, StartIsBalanced

LEMMA StartKeeps == ASSUME TeamInv, Start PROVE TeamInv'
<1> DEFINE stay == Connected
<1>1. ~underway /\ underway' = TRUE /\ TeamsManned /\ places' = Filled(stay)
  BY DEF Start
<1>2. places \in Seq(Seat) /\ Len(places) <= TeamSeats /\ TeamTypeOK /\ DOMAIN places = 1..Len(places)
  BY DEF TeamInv, TeamTypeOK
<1>3. /\ stay \in Seq(Seat) /\ Len(stay) <= Len(places)
      /\ \E h : /\ StaysAs(places, stay, h)
                /\ \A k \in 1..Len(stay) : stay[k] = places[h[k]]
                /\ \A i \in DOMAIN places : places[i].connected => \E k \in 1..Len(stay) : h[k] = i
  BY <1>2, ConnectedStay
<1> HIDE DEF stay
<1>4. PICK h : /\ StaysAs(places, stay, h)
               /\ \A k \in 1..Len(stay) : stay[k] = places[h[k]]
               /\ \A i \in DOMAIN places : places[i].connected => \E k \in 1..Len(stay) : h[k] = i
  BY <1>3
<1>5. Len(stay) \in Nat /\ Len(stay) <= TeamSeats /\ DOMAIN stay = 1..Len(stay) /\ TeamSeats \in Nat
  BY <1>2, <1>3, TeamsAre
<1>6. /\ places' \in Seq(Seat) /\ Len(places') = TeamSeats /\ DOMAIN places' = 1..TeamSeats
      /\ \A i \in 1..Len(stay) : places'[i] = stay[i]
      /\ \A i \in (Len(stay) + 1)..TeamSeats : places'[i].bot
      /\ (\A t \in Teams : Size(stay, t) <= 2) => \A t \in Teams : Size(places', t) <= 2
  BY <1>1, <1>3, <1>5, FilledFacts
<1>7. \A i \in 1..Len(stay) : ~stay[i].bot
  BY <1>1, <1>2, <1>4 DEF TeamInv, OnlyHumans, StaysAs
  \* The humans of a team are those of it who stayed.
<1>8. ASSUME NEW t
      PROVE  Humans(places', t) = Members(stay, t) /\ Humans(stay, t) = Members(stay, t)
  <2>1. \A i \in 1..TeamSeats : i \in 1..Len(stay) \/ i \in (Len(stay) + 1)..TeamSeats
    BY <1>5
  <2>2. \A i \in 1..Len(stay) : i \in 1..TeamSeats
    BY <1>5
  <2>3. \A i : i \in Humans(places', t) <=> i \in Members(stay, t)
    BY <1>5, <1>6, <1>7, <2>1, <2>2 DEF Humans, Members
  <2>4. Humans(stay, t) = Members(stay, t)
    BY <1>5, <1>7 DEF Humans, Members
  <2> QED
    BY <2>3, <2>4
<1>9. ASSUME NEW t
      PROVE  HumanSize(t)' = Size(stay, t) /\ Size(stay, t) = Cardinality(Humans(stay, t))
  BY <1>8 DEF HumanSize, Humans, Size
<1>10. TeamTypeOK'
  <2>1. underway' \in BOOLEAN
    BY <1>1
  <2> QED
    BY <1>5, <1>6, <2>1 DEF TeamTypeOK
<1>11. OnlyHumans'
  BY <1>1 DEF OnlyHumans
<1>12. OnlyTeamZeroOverflows'
  <2> SUFFICES ASSUME NEW t \in Teams \ {0} PROVE HumanSize(t)' <= TeamCap
    BY DEF OnlyTeamZeroOverflows
  <2>1. Cardinality(Humans(stay, t)) <= Cardinality(Humans(places, t))
    BY <1>2, <1>3, <1>4, HumansGo
  <2>2. HumanSize(t) <= TeamCap /\ HumanSize(t) = Cardinality(Humans(places, t))
    BY HumanSizeIs DEF TeamInv, OnlyTeamZeroOverflows
  <2>3. Cardinality(Humans(places, t)) \in Nat /\ Cardinality(Humans(stay, t)) \in Nat
    BY <1>2, <1>3, RosterFacts
  <2> QED
    BY <1>9, <2>1, <2>2, <2>3 DEF TeamCap
<1>13. ASSUME NEW t \in Teams PROVE HumanSize(t)' > 0
  <2>1. PICK i \in Members(places, t) : places[i].connected
    BY <1>1 DEF TeamsManned
  <2>2. i \in DOMAIN places /\ places[i].team = t
    BY <2>1 DEF Members
  <2>3. PICK k \in 1..Len(stay) : h[k] = i
    BY <1>4, <2>1, <2>2
  <2>4. k \in Members(stay, t)
    BY <1>4, <1>5, <2>2, <2>3 DEF Members
  <2>5. IsFiniteSet(Members(stay, t)) /\ Size(stay, t) \in Nat
    BY <1>3, RosterFacts
  <2>6. Size(stay, t) # 0
    BY <2>4, <2>5, FS_EmptySet DEF Size
  <2> QED
    BY <1>9, <2>5, <2>6
<1>14. ASSUME \A t \in Teams : HumanSize(t)' <= 2
       PROVE  \A t \in Teams : Size(places', t) = 2
  <2>1. \A t \in Teams : Size(stay, t) <= 2
    BY <1>9, <1>14
  <2>2. \A t \in Teams : Size(places', t) <= 2
    BY <1>6, <2>1
  <2> QED
    BY <1>6, <2>2, FullOfTwos
<1>15. StartIsBalanced'
  <2>1. \A t : Size(places, t)' = Size(places', t)
    BY DEF Size, Members
  <2> QED
    BY <1>6, <1>13, <1>14, <2>1 DEF StartIsBalanced, TeamCap
<1> QED
  BY <1>10, <1>11, <1>12, <1>15 DEF TeamInv

LEMMA NextTeam == TeamInv /\ [TeamNext]_teamVars => TeamInv'
<1> SUFFICES ASSUME TeamInv, [TeamNext]_teamVars PROVE TeamInv'
  OBVIOUS
<1>1. CASE UNCHANGED teamVars
  <2>1. \A t : HumanSize(t)' = HumanSize(t)
    BY <1>1 DEF HumanSize, Members, teamVars
  <2>2. \A t : Size(places, t)' = Size(places, t)
    BY <1>1 DEF Size, Members, teamVars
  <2>3. OnlyTeamZeroOverflows'
    BY <2>1 DEF TeamInv, OnlyTeamZeroOverflows
  <2>4. StartIsBalanced'
    BY <1>1, <2>1, <2>2 DEF TeamInv, StartIsBalanced, teamVars
  <2> QED
    BY <1>1, <2>3, <2>4 DEF TeamInv, TeamTypeOK, OnlyHumans, teamVars
<1>2. CASE Join
  BY <1>2, JoinKeeps
<1>3. CASE Start
  BY <1>3, StartKeeps
<1>4. ASSUME NEW i \in DOMAIN places,
             Drop(i) \/ Resume(i) \/ \E r \in BOOLEAN : SetReady(i, r)
      PROVE  TeamInv'
  <2>1. places[i] \in Seat
    BY DEF TeamInv, TeamTypeOK
  <2>2. PICK seat \in Seat : /\ places' = [places EXCEPT ![i] = seat]
                             /\ seat.team = places[i].team /\ seat.bot = places[i].bot
    <3>1. CASE Drop(i)
      <4> DEFINE seat == [places[i] EXCEPT !.connected = FALSE]
      <4>1. seat \in Seat /\ seat.team = places[i].team /\ seat.bot = places[i].bot
        BY <2>1 DEF Seat
      <4>2. places' = [places EXCEPT ![i] = seat]
        BY <3>1 DEF Drop
      <4> QED
        BY <4>1, <4>2
    <3>2. CASE Resume(i)
      <4> DEFINE seat == [places[i] EXCEPT !.connected = TRUE]
      <4>1. seat \in Seat /\ seat.team = places[i].team /\ seat.bot = places[i].bot
        BY <2>1 DEF Seat
      <4>2. places' = [places EXCEPT ![i] = seat]
        BY <3>2 DEF Resume
      <4> QED
        BY <4>1, <4>2
    <3>3. ASSUME NEW r \in BOOLEAN, SetReady(i, r)
          PROVE  \E seat \in Seat : /\ places' = [places EXCEPT ![i] = seat]
                                    /\ seat.team = places[i].team /\ seat.bot = places[i].bot
      <4> DEFINE seat == [places[i] EXCEPT !.ready = r]
      <4>1. seat \in Seat /\ seat.team = places[i].team /\ seat.bot = places[i].bot
        BY <2>1 DEF Seat
      <4>2. places' = [places EXCEPT ![i] = seat]
        BY <3>3 DEF SetReady
      <4> QED
        BY <4>1, <4>2
    <3> QED
      BY <1>4, <3>1, <3>2, <3>3
  <2>3. ~underway /\ UNCHANGED underway
    BY <1>4 DEF Drop, Resume, SetReady
  <2> QED
    BY <2>2, <2>3, SeatChangeKeeps
<1> QED
  BY <1>1, <1>2, <1>3, <1>4, LeaveKeeps, SetTeamKeeps DEF TeamNext

\* TeamsSound, for any even number of seats: no order of choices, departures and
\* returns overfills a team other than that of the newcomers, and the start
\* (handleStartGame) fills the table, with a human in every team and, where the
\* humans leave room for two in each, two in each.
THEOREM LobbyOfTwosIsSound == TeamSpec => []TeamsSound
<1>1. TeamInv => TeamsSound
  BY DEF TeamInv, TeamsSound
<1> QED
  BY <1>1, InitTeam, NextTeam, PTL DEF TeamSpec

-----------------------------------------------------------------------------
(* The lobby page: one active room, but for those of late creations.       *)

Presses == [st : {"none", "sent", "checked", "answered"},
            kind : {"none", "create", "practice", "quick", "ranked", "code", "card"},
            id : Rooms \cup {0}, mounted : BOOLEAN]
Pages == [at : Rooms \cup {0}, list : SUBSET Rooms, active : Rooms \cup {0}]
RoomStates == [Rooms -> {"none", "waiting", "in_progress", "finished"}]

LobbyTypes ==
    /\ room \in RoomStates
    /\ seats \in SUBSET Rooms
    /\ lobby \in Pages
    /\ press \in [LobbyCalls -> Presses]
    /\ behind \in SUBSET Rooms

SeatsOfRooms == \A r \in seats : room[r] # "none"
OneActive == \A a, b \in Active \ behind : a = b

\* What a join asks for.
CallKnows(c) == press[c].st = "sent" /\ press[c].kind \in {"code", "card"} => press[c].id \in Rooms

LobbyInv == LobbyTypes /\ SeatsOfRooms /\ OneActive /\ \A c \in LobbyCalls : CallKnows(c)

\* An answer takes its call out of what calls ask for.
LEMMA AnswerKeeps ==
    ASSUME LobbyInv, NEW c \in LobbyCalls, NEW r \in Rooms \cup {0}, Answer(c, r)
    PROVE  press' \in [LobbyCalls -> Presses] /\ \A d \in LobbyCalls : CallKnows(d)'
<1>1. press \in [LobbyCalls -> Presses] /\ press[c] \in Presses
  BY DEF LobbyInv, LobbyTypes
<1>2. /\ press' \in [LobbyCalls -> Presses]
      /\ press'[c] = [press[c] EXCEPT !.st = "answered", !.id = r]
      /\ \A d \in LobbyCalls \ {c} : press'[d] = press[d]
  BY <1>1 DEF Answer, Presses
<1>3. press'[c].st = "answered"
  BY <1>1, <1>2 DEF Presses
<1> QED
  BY <1>2, <1>3 DEF CallKnows, LobbyInv

LEMMA InitLobby == LobbyInit => LobbyInv
<1> SUFFICES ASSUME LobbyInit PROVE LobbyInv
  OBVIOUS
<1>1. NoPress \in Presses /\ NoPress.st = "none"
  BY DEF NoPress, Presses
<1>2. LobbyTypes /\ seats = {}
  BY <1>1 DEF LobbyInit, LobbyTypes, RoomStates, Pages
<1>3. \A c \in LobbyCalls : press[c].st = "none"
  BY <1>1 DEF LobbyInit
<1> QED
  BY <1>2, <1>3 DEF LobbyInv, SeatsOfRooms, OneActive, Active, CallKnows

\* A step of a room, or the loss of a seat, makes no room active.
LEMMA FewerKeep ==
    ASSUME LobbyInv, LobbyTypes', UNCHANGED press, seats' \subseteq seats, behind \cap seats' \subseteq behind',
           \A r \in seats' : /\ room'[r] # "none"
                             /\ room'[r] \in {"waiting", "in_progress"} => room[r] \in {"waiting", "in_progress"}
    PROVE  LobbyInv'
<1>1. (Active \ behind)' \subseteq Active \ behind
  BY DEF Active
<1>2. SeatsOfRooms' /\ OneActive'
  BY <1>1 DEF LobbyInv, SeatsOfRooms, OneActive
<1> QED
  BY <1>2 DEF LobbyInv, CallKnows

\* A call takes a seat in r where there is no other active room, or where the
\* room it makes is known as one too many.
LEMMA SeatTakenKeeps ==
    ASSUME LobbyInv, NEW c \in LobbyCalls, NEW r \in Rooms, SeatIn(c, r), room' \in RoomStates,
           \A x \in Rooms \ {r} : room'[x] = room[x], room'[r] # "none", UNCHANGED lobby,
           \/ Active \subseteq {r} /\ behind' = behind
           \/ behind' = behind \cup {r}
    PROVE  LobbyInv'
<1>1. seats' = seats \cup {r} /\ (Answer(c, r) \/ Answer(c, 0))
  BY DEF SeatIn
<1>2. press' \in [LobbyCalls -> Presses] /\ \A d \in LobbyCalls : CallKnows(d)'
  BY <1>1, AnswerKeeps
<1>3. LobbyTypes'
  BY <1>1, <1>2 DEF LobbyInv, LobbyTypes
<1>4. Active' \subseteq Active \cup {r}
  BY <1>1 DEF Active, LobbyInv, LobbyTypes
<1>5. SeatsOfRooms'
  BY <1>1 DEF LobbyInv, LobbyTypes, SeatsOfRooms
<1>6. OneActive'
  BY <1>4 DEF OneActive, LobbyInv
<1> QED
  BY <1>2, <1>3, <1>5, <1>6 DEF LobbyInv

\* An answer without a seat.
LEMMA NoSeatKeeps ==
    ASSUME LobbyInv, NEW c \in LobbyCalls, NEW r \in Rooms \cup {0}, Answer(c, r),
           UNCHANGED <<room, seats, lobby, behind>>
    PROVE  LobbyInv'
<1>1. press' \in [LobbyCalls -> Presses] /\ \A d \in LobbyCalls : CallKnows(d)'
  BY AnswerKeeps
<1> QED
  BY <1>1 DEF LobbyInv, LobbyTypes, SeatsOfRooms, OneActive, Active

LEMMA RoomStepsKeep ==
    ASSUME LobbyInv, NEW r \in Rooms, RoomChanges(r) \/ SeatTaken(r)
    PROVE  LobbyInv'
<1>1. LobbyTypes /\ SeatsOfRooms
  BY DEF LobbyInv
<1>2. CASE RoomChanges(r)
  <2>1. PICK to \in {"waiting", "in_progress", "finished"} :
           /\ room' = [room EXCEPT ![r] = to]
           /\ room[r] = "none" => to = "waiting"
           /\ room[r] = "waiting" => to = "in_progress"
           /\ room[r] = "in_progress" => to = "finished"
           /\ room[r] # "finished"
    <3>1. room[r] \in {"none", "waiting", "in_progress", "finished"}
      BY <1>1 DEF LobbyTypes, RoomStates
    <3>2. CASE room[r] = "none"
      BY <1>2, <3>2 DEF RoomChanges
    <3>3. CASE room[r] = "waiting"
      BY <1>2, <3>3 DEF RoomChanges
    <3>4. CASE room[r] = "in_progress"
      BY <1>2, <3>4 DEF RoomChanges
    <3>5. CASE room[r] = "finished"
      BY <1>2, <3>5 DEF RoomChanges
    <3> QED
      BY <3>1, <3>2, <3>3, <3>4, <3>5
  <2>2. UNCHANGED <<seats, lobby, press, behind>>
    BY <1>2 DEF RoomChanges
  <2>3. LobbyTypes'
    BY <1>1, <2>1, <2>2 DEF LobbyTypes, RoomStates
  <2>4. \A x \in seats : /\ room'[x] # "none"
                         /\ room'[x] \in {"waiting", "in_progress"} => room[x] \in {"waiting", "in_progress"}
    BY <1>1, <2>1 DEF LobbyTypes, SeatsOfRooms, RoomStates
  <2> QED
    BY <2>2, <2>3, <2>4, FewerKeep
<1>3. CASE SeatTaken(r)
  <2>1. seats' = seats \ {r} /\ behind' = behind \ {r} /\ UNCHANGED <<room, lobby, press>>
    BY <1>3 DEF SeatTaken
  <2>2. LobbyTypes'
    BY <1>1, <2>1 DEF LobbyTypes
  <2> QED
    BY <1>1, <2>1, <2>2, FewerKeep DEF SeatsOfRooms
<1> QED
  BY <1>2, <1>3

LEMMA ApiStepsKeep ==
    ASSUME LobbyInv, NEW c \in LobbyCalls,
           CreateChecks(c) \/ CreateSeats(c) \/ JoinRoom(c) \/ QuickPlay(c)
    PROVE  LobbyInv'
<1>1. LobbyTypes /\ CallKnows(c) /\ press[c] \in Presses /\ Active \subseteq Rooms
  BY DEF LobbyInv, LobbyTypes, Active
<1>2. CASE CreateChecks(c)
  <2>1. UNCHANGED <<room, seats, lobby, behind>>
    BY <1>2 DEF CreateChecks
  <2>2. CASE Active = {}
    <3>1. press' = [press EXCEPT ![c].st = "checked"]
      BY <1>2, <2>2 DEF CreateChecks
    <3>2. press' \in [LobbyCalls -> Presses]
      BY <1>1, <3>1 DEF LobbyTypes, Presses
    <3>3. press'[c].st = "checked" /\ \A d \in LobbyCalls \ {c} : press'[d] = press[d]
      BY <1>1, <3>1 DEF LobbyTypes, Presses
    <3>4. \A d \in LobbyCalls : CallKnows(d)'
      BY <3>3 DEF CallKnows, LobbyInv
    <3>5. Active' = Active
      BY <2>1 DEF Active
    <3> QED
      BY <2>1, <3>2, <3>4, <3>5 DEF LobbyInv, LobbyTypes, SeatsOfRooms, OneActive
  <2>3. CASE Active # {}
    <3>1. PICK r \in Active : Answer(c, r)
      BY <1>2, <2>3 DEF CreateChecks
    <3> QED
      BY <1>1, <2>1, <3>1, NoSeatKeeps
  <2> QED
    BY <2>2, <2>3
<1>3. CASE CreateSeats(c)
  <2>1. PICK r \in Rooms : /\ room[r] = "none" /\ room' = [room EXCEPT ![r] = "waiting"]
                           /\ SeatIn(c, r)
                           /\ behind' = IF Active = {} THEN behind ELSE behind \cup {r}
    BY <1>3 DEF CreateSeats
  <2>2. UNCHANGED lobby
    BY <1>3 DEF CreateSeats
  <2>3. room' \in RoomStates /\ room'[r] # "none" /\ \A x \in Rooms \ {r} : room'[x] = room[x]
    BY <1>1, <2>1 DEF LobbyTypes, RoomStates
  <2>4. \/ Active \subseteq {r} /\ behind' = behind
        \/ behind' = behind \cup {r}
    BY <2>1
  <2> QED
    BY <2>1, <2>2, <2>3, <2>4, SeatTakenKeeps
<1>4. CASE JoinRoom(c)
  <2> DEFINE r == press[c].id
  <2>1. r \in Rooms /\ UNCHANGED <<room, lobby, behind>>
    BY <1>1, <1>4 DEF JoinRoom, CallKnows
  <2>2. \/ \E a \in Rooms \cup {0} : Answer(c, a) /\ UNCHANGED seats
        \/ Active \subseteq {r} /\ room[r] = "waiting" /\ SeatIn(c, r)
    <3>1. CASE Active \ {r} # {}
      BY <1>1, <1>4, <3>1 DEF JoinRoom
    <3>2. CASE Active \ {r} = {}
      BY <1>4, <3>2 DEF JoinRoom
    <3> QED
      BY <3>1, <3>2
  <2> HIDE DEF r
  <2>3. room \in RoomStates
    BY <1>1 DEF LobbyTypes
  <2> QED
    BY <2>1, <2>2, <2>3, NoSeatKeeps, SeatTakenKeeps
<1>5. CASE QuickPlay(c)
  <2>1. UNCHANGED <<lobby, behind>>
    BY <1>5 DEF QuickPlay
  <2>2. \/ \E a \in Rooms \cup {0} : Answer(c, a) /\ UNCHANGED <<room, seats>>
        \/ /\ Active = {}
           /\ \E r \in Rooms : room' = [room EXCEPT ![r] = "waiting"] /\ SeatIn(c, r)
    <3>1. CASE Active # {}
      BY <1>1, <1>5, <3>1 DEF QuickPlay
    <3>2. CASE Active = {}
      BY <1>5, <3>2 DEF QuickPlay
    <3> QED
      BY <3>1, <3>2
  <2>3. CASE \E a \in Rooms \cup {0} : Answer(c, a) /\ UNCHANGED <<room, seats>>
    BY <2>1, <2>3, NoSeatKeeps
  <2>4. ASSUME Active = {}, NEW r \in Rooms, room' = [room EXCEPT ![r] = "waiting"], SeatIn(c, r)
        PROVE  LobbyInv'
    <3>1. room' \in RoomStates /\ room'[r] # "none" /\ \A x \in Rooms \ {r} : room'[x] = room[x]
      BY <1>1, <2>4 DEF LobbyTypes, RoomStates
    <3> QED
      BY <2>1, <2>4, <3>1, SeatTakenKeeps
  <2> QED
    BY <2>2, <2>3, <2>4
<1> QED
  BY <1>2, <1>3, <1>4, <1>5

\* Steps of the page that leave rooms and calls alone, or forget calls.
LEMMA PageStepKeeps ==
    ASSUME LobbyInv, UNCHANGED room, seats' \subseteq seats, behind \cap seats' \subseteq behind', LobbyTypes',
           \A c \in LobbyCalls : /\ press'[c].st \in {press[c].st, "none"}
                                 /\ press'[c].st # "none" => press'[c].kind = press[c].kind /\ press'[c].id = press[c].id
    PROVE  LobbyInv'
<1>1. (Active \ behind)' \subseteq Active \ behind
  BY DEF Active
<1>2. SeatsOfRooms' /\ OneActive'
  BY <1>1 DEF LobbyInv, SeatsOfRooms, OneActive
<1> QED
  BY <1>2 DEF LobbyInv, CallKnows

\* Leaving the lobby forgets nothing but that the page is there.
LEMMA LeavingKeeps ==
    ASSUME LobbyInv, NEW p \in [LobbyCalls -> Presses], NEW dest \in Rooms \cup {0}, LeaveLobby(p, dest),
           UNCHANGED <<room, seats, behind>>,
           \A c \in LobbyCalls : /\ p[c].st \in {press[c].st, "none"}
                                 /\ p[c].st # "none" => p[c].kind = press[c].kind /\ p[c].id = press[c].id
    PROVE  LobbyInv'
<1>1. /\ lobby' = [lobby EXCEPT !.at = dest, !.list = {}]
      /\ press' = [c \in LobbyCalls |-> [p[c] EXCEPT !.mounted = FALSE]]
  BY DEF LeaveLobby
<1>2. ASSUME NEW c \in LobbyCalls
      PROVE  /\ press'[c] \in Presses
             /\ press'[c].st = p[c].st /\ press'[c].kind = p[c].kind /\ press'[c].id = p[c].id
  <2>1. p[c] \in Presses /\ press'[c] = [p[c] EXCEPT !.mounted = FALSE]
    BY <1>1
  <2> QED
    BY <2>1 DEF Presses
<1>3. press' \in [LobbyCalls -> Presses]
  BY <1>1, <1>2
<1>4. LobbyTypes'
  BY <1>1, <1>3 DEF LobbyInv, LobbyTypes, Pages
<1> QED
  BY <1>2, <1>4, PageStepKeeps

LEMMA PressKeeps ==
    ASSUME LobbyInv, NEW kind \in {"create", "practice", "quick", "ranked", "code", "card"},
           NEW rs \in SUBSET (Rooms \cup {0}), Press(kind, rs),
           kind \in {"code", "card"} => rs \subseteq Rooms
    PROVE  LobbyInv'
<1>1. PICK c \in LobbyCalls, r \in rs :
         press' = [press EXCEPT ![c] = [st |-> "sent", kind |-> kind, id |-> r, mounted |-> TRUE]]
  BY DEF Press
<1> DEFINE new == [st |-> "sent", kind |-> kind, id |-> r, mounted |-> TRUE]
<1>2. new \in Presses /\ new.st = "sent" /\ new.kind = kind /\ new.id = r
  BY DEF Presses
<1> HIDE DEF new
<1>3. press' \in [LobbyCalls -> Presses] /\ press'[c] = new /\ \A d \in LobbyCalls \ {c} : press'[d] = press[d]
  BY <1>1, <1>2 DEF LobbyInv, LobbyTypes, new
<1>4. UNCHANGED <<room, seats, lobby, behind>>
  BY DEF Press
<1>5. Active' = Active
  BY <1>4 DEF Active
<1>6. ASSUME NEW d \in LobbyCalls PROVE CallKnows(d)'
  BY <1>2, <1>3 DEF CallKnows, LobbyInv
<1> QED
  BY <1>3, <1>4, <1>5, <1>6 DEF LobbyInv, LobbyTypes, SeatsOfRooms, OneActive

LEMMA ClientStepsKeep ==
    ASSUME LobbyInv,
           \/ \E c \in LobbyCalls : Returns(c)
           \/ LoadRooms \/ RefreshActive \/ ResumeGame \/ BackToLobby
    PROVE  LobbyInv'
<1>1. LobbyTypes /\ press \in [LobbyCalls -> Presses] /\ Active \subseteq Rooms /\ Waiting \subseteq Rooms
  BY DEF LobbyInv, LobbyTypes, Active, Waiting
<1>2. lobby \in Pages
  BY <1>1 DEF LobbyTypes
<1>3. ASSUME NEW c \in LobbyCalls, Returns(c) PROVE LobbyInv'
  <2> DEFINE rest == [press EXCEPT ![c] = NoPress]
  <2>1. NoPress \in Presses /\ NoPress.st = "none" /\ press[c] \in Presses /\ press[c].id \in Rooms \cup {0}
    BY <1>1 DEF NoPress, Presses
  <2>2. /\ rest \in [LobbyCalls -> Presses]
        /\ \A d \in LobbyCalls : /\ rest[d].st \in {press[d].st, "none"}
                                 /\ rest[d].st # "none" => rest[d].kind = press[d].kind /\ rest[d].id = press[d].id
    BY <1>1, <2>1
  <2>3. UNCHANGED <<room, seats, behind>> /\ ((press' = rest /\ UNCHANGED lobby) \/ LeaveLobby(rest, press[c].id))
    BY <1>3 DEF Returns
  <2> HIDE DEF rest
  <2>4. CASE press' = rest /\ UNCHANGED lobby
    <3>1. LobbyTypes'
      BY <1>1, <2>2, <2>3, <2>4 DEF LobbyTypes
    <3> QED
      BY <2>2, <2>3, <2>4, <3>1, PageStepKeeps
  <2>5. CASE LeaveLobby(rest, press[c].id)
    BY <2>1, <2>2, <2>3, <2>5, LeavingKeeps
  <2> QED
    BY <2>3, <2>4, <2>5
<1>4. CASE ResumeGame
  <2>1. LeaveLobby(press, lobby.active) /\ UNCHANGED <<room, seats, behind>> /\ lobby.active \in Rooms \cup {0}
    BY <1>2, <1>4 DEF ResumeGame, Pages
  <2> QED
    BY <1>1, <2>1, LeavingKeeps
<1>5. CASE LoadRooms \/ RefreshActive
  <2>1. UNCHANGED <<room, seats, press, behind>>
    BY <1>5 DEF LoadRooms, RefreshActive
  <2>2. CASE LoadRooms
    BY <1>1, <1>2, <2>1, <2>2, PageStepKeeps DEF LoadRooms, LobbyTypes, Pages
  <2>3. CASE RefreshActive
    <3>1. ActiveFound \subseteq Rooms \cup {0}
      BY <1>1 DEF ActiveFound
    <3>2. lobby' \in Pages
      BY <1>2, <2>3, <3>1 DEF RefreshActive, Pages
    <3>3. LobbyTypes'
      BY <1>1, <2>1, <3>2 DEF LobbyTypes
    <3> QED
      BY <2>1, <3>3, PageStepKeeps
  <2> QED
    BY <1>5, <2>2, <2>3
<1>6. CASE BackToLobby
  <2>1. UNCHANGED <<room, press>> /\ seats' \subseteq seats /\ lobby' = [lobby EXCEPT !.at = 0]
        /\ behind' = behind \cap seats'
    BY <1>6 DEF BackToLobby
  <2>2. LobbyTypes'
    BY <1>1, <1>2, <2>1 DEF LobbyTypes, Pages
  <2> QED
    BY <2>1, <2>2, PageStepKeeps
<1> QED
  BY <1>3, <1>4, <1>5, <1>6

LEMMA NextLobby == LobbyInv /\ [LobbyNext]_lobbyVars => LobbyInv'
<1> SUFFICES ASSUME LobbyInv, [LobbyNext]_lobbyVars PROVE LobbyInv'
  OBVIOUS
<1>1. CASE UNCHANGED lobbyVars
  BY <1>1 DEF lobbyVars, LobbyInv, LobbyTypes, SeatsOfRooms, OneActive, CallKnows, Active
<1>2. CASE PressCreate \/ PressPractice \/ PressCode \/ PressCard \/ \E kind \in {"quick", "ranked"} : PressFind(kind)
  <2>1. {0} \in SUBSET (Rooms \cup {0}) /\ {r \in Rooms : room[r] # "none"} \in SUBSET Rooms
        /\ lobby.list \in SUBSET Rooms
    BY DEF LobbyInv, LobbyTypes, Pages
  <2>2. ASSUME NEW kind \in {"create", "practice", "quick", "ranked"}, Press(kind, {0}) PROVE LobbyInv'
    BY <2>1, <2>2, PressKeeps
  <2>3. ASSUME NEW kind \in {"code", "card"}, NEW rs \in SUBSET Rooms, Press(kind, rs) PROVE LobbyInv'
    BY <2>3, PressKeeps
  <2>4. CASE PressCreate \/ PressPractice \/ \E kind \in {"quick", "ranked"} : PressFind(kind)
    BY <2>2, <2>4 DEF PressCreate, PressPractice, PressFind
  <2>5. CASE PressCode \/ PressCard
    BY <2>1, <2>3, <2>5 DEF PressCode, PressCard
  <2> QED
    BY <1>2, <2>4, <2>5
<1> QED
  BY <1>1, <1>2, RoomStepsKeep, ApiStepsKeep, ClientStepsKeep DEF LobbyNext

LEMMA LobbyIsSound == LobbyInv => OneActiveRoom
<1> DEFINE proper == Active \ behind
<1> SUFFICES ASSUME LobbyInv PROVE Cardinality(proper) <= 1
  BY DEF OneActiveRoom
<1>1. CASE proper = {}
  BY <1>1, FS_EmptySet
<1>2. CASE proper # {}
  <2>1. PICK a \in proper : proper = {a}
    BY <1>2 DEF LobbyInv, OneActive
  <2>2. Cardinality({a}) = 1
    BY FS_Singleton
  <2> QED
    BY <2>1, <2>2
<1> QED
  BY <1>1, <1>2

-----------------------------------------------------------------------------
(* The form that creates a room.                                           *)

Forms == [open : BOOLEAN, mode : {"classic", "custom"}, visibility : {"public", "private"},
          limited : BOOLEAN, min : Nat, max : Nat, players : {2, 3, 4, 6},
          scoring : {"rank_value", "flat", "custom"}, score : Nat, team : {"ffa", "2v2"}]

\* Only a number of seats that has teams keeps the team mode.
TeamsFit(filled) == filled.team = "2v2" => filled.players \in {4, 6}

FormInv ==
    /\ form \in Forms /\ TeamsFit(form)
    /\ rating \in [is : BOOLEAN, at : Nat]
    /\ request \in [st : {"none", "sent", "created", "refused"},
                    wrong : SUBSET {"rating", "team", "score"}, shown : SUBSET {"rating", "team", "score"}]
    /\ request.wrong \subseteq request.shown \ {"team"}

LEMMA InitForm == FormInit => FormInv
<1> SUFFICES ASSUME FormInit PROVE FormInv
  OBVIOUS
<1>1. FreshForm \in Forms /\ TeamsFit(FreshForm)
  BY DEF FreshForm, Forms, TeamsFit
<1> QED
  BY <1>1 DEF FormInit, FormInv, Unknown, NoRequest

\* Filling a field leaves a form that fits.
LEMMA FillKeeps ==
    ASSUME FormInv, NEW filled, Fill(filled), \A f \in filled : f \in Forms /\ TeamsFit(f)
    PROVE  FormInv'
<1>1. form' \in filled /\ UNCHANGED <<rating, request>>
  BY DEF Fill
<1> QED
  BY <1>1 DEF FormInv

LEMMA FieldsKeep ==
    ASSUME FormInv,
           ChooseVisibility \/ ChooseRatings \/ ChoosePlayers \/ ChooseScoring \/ ChooseTeam
    PROVE  FormInv'
<1>1. form \in Forms /\ TeamsFit(form)
  BY DEF FormInv
<1>2. CASE ChooseVisibility
  <2>1. \A v \in {"public", "private"} : [form EXCEPT !.visibility = v] \in Forms /\ TeamsFit([form EXCEPT !.visibility = v])
    BY <1>1 DEF Forms, TeamsFit
  <2>2. Fill({[form EXCEPT !.visibility = v] : v \in {"public", "private"}})
    BY <1>2 DEF ChooseVisibility
  <2> QED
    BY <2>1, <2>2, FillKeeps
<1>3. CASE ChooseRatings
  <2>1. [form EXCEPT !.limited = ~form.limited] \in Forms /\ TeamsFit([form EXCEPT !.limited = ~form.limited])
    BY <1>1 DEF Forms, TeamsFit
  <2>2. \A r \in Ratings : /\ [form EXCEPT !.min = r] \in Forms /\ TeamsFit([form EXCEPT !.min = r])
                           /\ [form EXCEPT !.max = r] \in Forms /\ TeamsFit([form EXCEPT !.max = r])
    BY <1>1, FormAssumption DEF Forms, TeamsFit
  <2>3. \/ Fill({[form EXCEPT !.limited = ~form.limited]})
        \/ Fill({[form EXCEPT !.min = r] : r \in Ratings} \union {[form EXCEPT !.max = r] : r \in Ratings})
    BY <1>3 DEF ChooseRatings
  <2>4. CASE Fill({[form EXCEPT !.limited = ~form.limited]})
    BY <2>1, <2>4, FillKeeps
  <2>5. CASE Fill({[form EXCEPT !.min = r] : r \in Ratings} \union {[form EXCEPT !.max = r] : r \in Ratings})
    BY <2>2, <2>5, FillKeeps
  <2> QED
    BY <2>3, <2>4, <2>5
<1>4. CASE ChoosePlayers
  <2> DEFINE filled(n) == [form EXCEPT !.players = n, !.team = IF n \in {4, 6} THEN form.team ELSE "ffa"]
  <2>1. ASSUME NEW n \in {2, 3, 4, 6} PROVE filled(n) \in Forms /\ TeamsFit(filled(n))
    <3>1. filled(n) \in Forms /\ filled(n).players = n /\ filled(n).team = IF n \in {4, 6} THEN form.team ELSE "ffa"
      BY <1>1 DEF Forms
    <3> QED
      BY <3>1 DEF TeamsFit
  <2>2. Fill({filled(n) : n \in {2, 3, 4, 6}})
    BY <1>4 DEF ChoosePlayers
  <2> HIDE DEF filled
  <2>3. \A f \in {filled(n) : n \in {2, 3, 4, 6}} : f \in Forms /\ TeamsFit(f)
    BY <2>1
  <2> QED
    BY <2>2, <2>3, FillKeeps
<1>5. CASE ChooseScoring
  <2>1. \A s \in {"rank_value", "flat", "custom"} :
           [form EXCEPT !.scoring = s] \in Forms /\ TeamsFit([form EXCEPT !.scoring = s])
    BY <1>1 DEF Forms, TeamsFit
  <2>2. \A s \in Scores : [form EXCEPT !.score = s] \in Forms /\ TeamsFit([form EXCEPT !.score = s])
    BY <1>1, FormAssumption DEF Forms, TeamsFit
  <2>3. \/ Fill({[form EXCEPT !.scoring = s] : s \in {"rank_value", "flat", "custom"}})
        \/ Fill({[form EXCEPT !.score = s] : s \in Scores})
    BY <1>5 DEF ChooseScoring
  <2>4. CASE Fill({[form EXCEPT !.scoring = s] : s \in {"rank_value", "flat", "custom"}})
    BY <2>1, <2>4, FillKeeps
  <2>5. CASE Fill({[form EXCEPT !.score = s] : s \in Scores})
    BY <2>2, <2>5, FillKeeps
  <2> QED
    BY <2>3, <2>4, <2>5
<1>6. CASE ChooseTeam
  <2>1. [form EXCEPT !.team = "ffa"] \in Forms /\ TeamsFit([form EXCEPT !.team = "ffa"])
    BY <1>1 DEF Forms, TeamsFit
  <2>2. form.players \in {4, 6} => [form EXCEPT !.team = "2v2"] \in Forms /\ TeamsFit([form EXCEPT !.team = "2v2"])
    BY <1>1 DEF Forms, TeamsFit
  <2>3. \/ Fill({[form EXCEPT !.team = "ffa"]})
        \/ form.players \in {4, 6} /\ Fill({[form EXCEPT !.team = "2v2"]})
    BY <1>6 DEF ChooseTeam
  <2>4. CASE Fill({[form EXCEPT !.team = "ffa"]})
    BY <2>1, <2>4, FillKeeps
  <2>5. CASE form.players \in {4, 6} /\ Fill({[form EXCEPT !.team = "2v2"]})
    BY <2>2, <2>5, FillKeeps
  <2> QED
    BY <2>3, <2>4, <2>5
<1> QED
  BY <1>2, <1>3, <1>4, <1>5, <1>6

\* What the API finds wrong with a form's request its player saw.
LEMMA WrongIsShown ==
    ASSUME FormInv
    PROVE  /\ Wrong(Asked) \in SUBSET {"rating", "team", "score"}
           /\ ShownFields \in SUBSET {"rating", "team", "score"}
           /\ Wrong(Asked) \subseteq ShownFields \ {"team"}
<1>1. form \in Forms /\ TeamsFit(form)
  BY DEF FormInv
<1>2. /\ Asked.limited = (form.limited /\ form.visibility = "public")
      /\ Asked.players = IF form.mode = "custom" THEN form.players ELSE 4
      /\ Asked.team = IF form.mode = "custom" THEN form.team ELSE "ffa"
      /\ Asked.scoring = IF form.mode = "custom" THEN form.scoring ELSE "rank_value"
  BY <1>1 DEF Asked, Forms
<1>3. ASSUME NEW f \in Wrong(Asked) PROVE f \in ShownFields \ {"team"} /\ f \in {"rating", "score"}
  <2>1. \/ f = "rating" /\ Asked.limited
        \/ f = "team" /\ Asked.team = "2v2" /\ Asked.players \notin {4, 6}
        \/ f = "score" /\ Asked.scoring = "custom"
    BY <1>3 DEF Wrong
  <2>2. ~(Asked.team = "2v2" /\ Asked.players \notin {4, 6})
    BY <1>1, <1>2 DEF TeamsFit
  <2>3. CASE f = "rating" /\ Asked.limited
    BY <1>2, <2>3 DEF ShownFields
  <2>4. CASE f = "score" /\ Asked.scoring = "custom"
    BY <1>2, <2>4 DEF ShownFields
  <2> QED
    BY <2>1, <2>2, <2>3, <2>4
<1>4. ShownFields \in SUBSET {"rating", "team", "score"}
  BY DEF ShownFields
<1> QED
  BY <1>3, <1>4

LEMMA NextForm == FormInv /\ [FormNext]_formVars => FormInv'
<1> SUFFICES ASSUME FormInv, [FormNext]_formVars PROVE FormInv'
  OBVIOUS
<1>1. form \in Forms /\ TeamsFit(form) /\ rating \in [is : BOOLEAN, at : Nat]
  BY DEF FormInv
<1>2. CASE UNCHANGED formVars
  BY <1>2 DEF formVars, FormInv
<1>3. CASE Answers
  BY <1>3 DEF Answers, FormInv
<1>4. ASSUME NEW r \in Ratings, RatingArrives(r) PROVE FormInv'
  BY <1>4, FormAssumption DEF RatingArrives, FormInv
<1>5. CASE OpenCreate
  <2> DEFINE blank == [form EXCEPT !.open = TRUE, !.mode = "classic"]
             low == IF rating.at < Around THEN 0 ELSE rating.at - Around
  <2>1. blank \in Forms /\ blank.team = form.team /\ blank.players = form.players
    BY <1>1 DEF Forms
  <2>2. low \in Nat /\ rating.at + Around \in Nat
    BY <1>1, FormAssumption
  <2>3. form' = (IF rating.is THEN [blank EXCEPT !.min = low, !.max = rating.at + Around] ELSE blank)
        /\ UNCHANGED <<rating, request>>
    BY <1>5 DEF OpenCreate
  <2> HIDE DEF blank, low
  <2>4. form' \in Forms /\ TeamsFit(form')
    BY <1>1, <2>1, <2>2, <2>3 DEF Forms, TeamsFit
  <2> QED
    BY <2>3, <2>4 DEF FormInv
<1>6. CASE OpenCustom \/ CloseForm
  <2>1. UNCHANGED <<rating, request>> /\ form' \in Forms /\ TeamsFit(form')
    BY <1>1, <1>6 DEF OpenCustom, CloseForm, Forms, TeamsFit
  <2> QED
    BY <2>1 DEF FormInv
<1>7. CASE SubmitForm
  <2>1. request' = [st |-> "sent", wrong |-> Wrong(Asked), shown |-> ShownFields] /\ UNCHANGED <<form, rating>>
    BY <1>7 DEF SubmitForm
  <2> QED
    BY <1>1, <2>1, WrongIsShown DEF FormInv
<1>8. CASE RequestReturns
  <2>1. FreshForm \in Forms /\ TeamsFit(FreshForm)
    BY DEF FreshForm, Forms, TeamsFit
  <2>2. form' \in Forms /\ TeamsFit(form') /\ rating' \in [is : BOOLEAN, at : Nat] /\ request' = NoRequest
    BY <1>1, <1>8, <2>1 DEF RequestReturns, Unknown
  <2> QED
    BY <2>2 DEF FormInv, NoRequest
<1> QED
  BY <1>2, <1>3, <1>4, <1>5, <1>6, <1>7, <1>8, FieldsKeep DEF FormNext

-----------------------------------------------------------------------------
(* The daily login.                                                        *)

LoginTypes ==
    /\ day \in Days
    /\ row \in [last : Nat, streak : Nat, best : Nat]
    /\ paid \in [Days -> Nat]
    /\ claim \in [Claims -> [st : {"none", "sent", "stamped", "done", "disabled", "failed"},
                             day : Nat, mounted : BOOLEAN]]
    /\ late \in Nat

\* Neither the row nor a claim that has its day is ahead of the clock.
NotAhead ==
    /\ row.last <= day
    /\ \A c \in Claims : claim[c].st = "stamped" => claim[c].day \in Days /\ claim[c].day <= day

\* A day pays once more for each late claim, and not yet when it is to come.
PaidBound == \A d \in Days : paid[d] <= IF d <= row.last THEN late + 1 ELSE late

PaidOnce == \A d \in Days : paid[d] <= 1 /\ (paid[d] > 0 => d <= row.last)

\* The streak is the days up to the last one claimed, and the day before them
\* was not claimed.
StreakSound ==
    IF row.last = 0 THEN row.streak = 0
    ELSE /\ row.last \in Claimed /\ row.streak \in 1..row.last
         /\ \A x \in (row.last + 1 - row.streak)..row.last : x \in Claimed
         /\ row.last - row.streak \notin Claimed

BestSound ==
    /\ \A r \in Runs : r[2] + 1 - r[1] <= row.best
    /\ row.best = 0 \/ \E r \in Runs : r[2] + 1 - r[1] = row.best

RowSound == PaidOnce /\ StreakSound /\ BestSound

LoginInv == LoginTypes /\ NotAhead /\ PaidBound /\ (late = 0 => RowSound)

LEMMA RunsAre ==
    /\ \A a, b : <<a, b>> \in Runs <=> a \in Claimed /\ b \in Claimed /\ \A x \in a..b : x \in Claimed
    /\ \A r \in Runs : r = <<r[1], r[2]>> /\ r[1] \in Claimed /\ r[2] \in Claimed
    /\ Claimed \subseteq Days
BY DEF Runs, Claimed

LEMMA InitLogin == LoginInit => LoginInv
<1> SUFFICES ASSUME LoginInit PROVE LoginInv
  OBVIOUS
<1>1. 1 \in Days
  BY LoginAssumption DEF Days
<1>2. row = [last |-> 0, streak |-> 0, best |-> 0] /\ paid = [d \in Days |-> 0] /\ day = 1
  BY DEF LoginInit
<1>3. \A c \in Claims : claim[c] = NoClaim
  BY DEF LoginInit
<1>4. LoginTypes
  BY <1>1 DEF LoginInit, LoginTypes, NoClaim
<1>5. NotAhead
  BY <1>2, <1>3 DEF NotAhead, NoClaim
<1>6. Claimed = {} /\ Runs = {}
  BY <1>2 DEF Claimed, Runs
<1>7. RowSound
  BY <1>2, <1>6 DEF RowSound, PaidOnce, StreakSound, BestSound
<1>8. PaidBound
  BY <1>2 DEF PaidBound, LoginInit
<1> QED
  BY <1>4, <1>5, <1>7, <1>8 DEF LoginInv

\* The largest of a set of numbers.
LEMMA MaxIs ==
    ASSUME NEW S, S \subseteq Int, NEW m \in S, \A x \in S : x <= m
    PROVE  Max(S) = m
<1>1. m \in S /\ \A y \in S : m >= y
  OBVIOUS
<1>2. Max(S) \in S /\ \A y \in S : Max(S) >= y
  BY <1>1 DEF Max
<1>3. Max(S) >= m /\ m >= Max(S) /\ Max(S) \in Int /\ m \in Int
  BY <1>1, <1>2
<1> QED
  BY <1>3

\* A claim that is committed, and is not of a day before the row's, grows the
\* row as the days were claimed.
LEMMA CommitGrows ==
    ASSUME LoginTypes, NotAhead, RowSound, NEW c \in Claims, claim[c].st = "stamped", enabled, ClaimCommits(c),
           row.last <= claim[c].day
    PROVE  RowSound'
<1> DEFINE d == claim[c].day
           last == row.last
<1>1. /\ row' = Grown(d)
      /\ paid' = IF row.last = d THEN paid ELSE [paid EXCEPT ![d] = @ + 1]
  BY DEF ClaimCommits
<1>2. /\ d \in Days /\ last <= d /\ d <= day /\ last \in Nat /\ row.streak \in Nat /\ row.best \in Nat
      /\ d \in Nat \ {0} /\ day \in Nat
  BY DEF LoginTypes, NotAhead, Days
<1> HIDE DEF d
<1> DEFINE streak == IF row.last = d THEN row.streak
                     ELSE IF row.last # 0 /\ row.last = d - 1 THEN row.streak + 1 ELSE 1
           best == Max({row.best, streak})
<1>5. row' = [last |-> d, streak |-> streak, best |-> best]
  BY <1>1 DEF Grown
<1>6. streak \in Nat /\ best \in Nat /\ best >= row.best /\ best >= streak /\ best \in {row.best, streak}
  <2>1. streak \in Nat
    BY <1>2
  <2> HIDE DEF streak
  <2>2. CASE row.best >= streak
    <3>1. best = row.best
      BY <1>2, <2>1, <2>2, MaxIs
    <3> HIDE DEF best
    <3> QED
      BY <1>2, <2>1, <2>2, <3>1
  <2>3. CASE ~(row.best >= streak)
    <3>1. best = streak
      BY <1>2, <2>1, <2>3, MaxIs
    <3> HIDE DEF best
    <3> QED
      BY <1>2, <2>1, <2>3, <3>1
  <2> QED
    BY <2>2, <2>3
<1>7. row'.last = d /\ row'.streak = streak /\ row'.best = best
  BY <1>5
<1> HIDE DEF best
<1>8. CASE last = d
  <2>1. streak = row.streak /\ paid' = paid
    BY <1>1, <1>8
  <2>2. <<last + 1 - row.streak, last>> \in Runs
    <3>1. /\ last \in Claimed /\ row.streak \in 1..last
          /\ \A x \in (last + 1 - row.streak)..last : x \in Claimed
      BY <1>2, <1>8 DEF RowSound, StreakSound
    <3>2. last + 1 - row.streak \in (last + 1 - row.streak)..last
      BY <1>2, <3>1
    <3> QED
      BY <3>1, <3>2, RunsAre
  <2>3. row.streak <= row.best
    <3>1. last - (last + 1 - row.streak) + 1 = row.streak
      BY <1>2
    <3>2. last + 1 - (last + 1 - row.streak) <= row.best
      BY <2>2 DEF RowSound, BestSound
    <3> QED
      BY <1>2, <3>2
  <2>4. best = row.best
    BY <1>2, <1>6, <2>1, <2>3
  <2>5. row'.last = row.last /\ row'.streak = row.streak /\ row'.best = row.best
    BY <1>7, <1>8, <2>1, <2>4
  <2>8. Claimed' = Claimed
    BY <2>1 DEF Claimed
  <2>9. Runs' = Runs
    BY <2>8 DEF Runs
  <2>10. RowSound'
    BY <2>1, <2>5, <2>8, <2>9 DEF RowSound, PaidOnce, StreakSound, BestSound
  <2> QED
    BY <2>10
<1>9. CASE last # d
  <2>0. last < d /\ paid' = [paid EXCEPT ![d] = @ + 1] /\ paid \in [Days -> Nat]
    <3>1. last < d
      BY <1>2, <1>9
    <3>2. paid' = [paid EXCEPT ![d] = @ + 1]
      BY <1>1, <1>9
    <3> QED
      BY <3>1, <3>2 DEF LoginTypes
  <2>1. paid[d] = 0 /\ d \notin Claimed
    <3>1. paid[d] \in Nat /\ ~(paid[d] > 0)
      BY <1>2, <2>0 DEF RowSound, PaidOnce
    <3> QED
      BY <3>1 DEF Claimed
  <2>2. paid' \in [Days -> Nat] /\ paid'[d] = 1 /\ \A e \in Days \ {d} : paid'[e] = paid[e]
    BY <1>2, <2>0, <2>1
  <2>3. Claimed' = Claimed \cup {d}
    <3>1. \A e : e \in Claimed' <=> e \in Days /\ paid'[e] > 0
      BY DEF Claimed
    <3>2. \A e : e \in Claimed <=> e \in Days /\ paid[e] > 0
      BY DEF Claimed
    <3>3. paid'[d] > 0
      BY <2>2
    <3> QED
      BY <1>2, <2>2, <3>1, <3>2, <3>3
  <2>4. \A x \in Claimed : x \in Nat \ {0} /\ x <= last /\ x < d
    BY <1>2, <2>0 DEF RowSound, PaidOnce, Claimed, Days
  <2>7. PaidOnce'
    <3> SUFFICES ASSUME NEW e \in Days PROVE paid'[e] <= 1 /\ (paid'[e] > 0 => e <= d)
      BY <1>7 DEF PaidOnce
    <3>1. CASE e = d
      BY <1>2, <2>2, <3>1
    <3>2. CASE e # d
      <4>1. paid[e] <= 1 /\ (paid[e] > 0 => e <= last) /\ e \in Nat
        BY DEF RowSound, PaidOnce, Days
      <4> QED
        BY <1>2, <2>0, <2>2, <3>2, <4>1
    <3> QED
      BY <3>1, <3>2
  <2>8. /\ streak \in 1..d /\ d - streak \notin Claimed'
        /\ \A x \in (d + 1 - streak)..d : x \in Claimed'
    <3>1. CASE last # 0 /\ last = d - 1
      <4>1. streak = row.streak + 1
        BY <1>2, <2>0, <3>1
      <4>2. /\ row.streak \in 1..last /\ last - row.streak \notin Claimed
            /\ \A x \in (last + 1 - row.streak)..last : x \in Claimed
        BY <3>1 DEF RowSound, StreakSound
      <4> HIDE DEF streak
      <4>3. d - streak = last - row.streak /\ d + 1 - streak = last + 1 - row.streak /\ d - streak # d
        BY <1>2, <3>1, <4>1, <4>2
      <4>4. \A x \in (d + 1 - streak)..d : x \in (last + 1 - row.streak)..last \/ x = d
        BY <1>2, <3>1, <4>1, <4>2
      <4> QED
        BY <1>2, <2>3, <3>1, <4>1, <4>2, <4>3, <4>4
    <3>2. CASE ~(last # 0 /\ last = d - 1)
      <4>1. streak = 1
        BY <1>9, <3>2
      <4>2. d - 1 \notin Claimed
        <5> SUFFICES ASSUME d - 1 \in Claimed PROVE FALSE
          OBVIOUS
        <5>1. d - 1 # 0 /\ d - 1 <= last
          BY <2>4
        <5> QED
          BY <1>2, <2>0, <3>2, <5>1
      <4> HIDE DEF streak
      <4>3. \A x \in (d + 1 - streak)..d : x = d
        BY <1>2, <4>1
      <4> QED
        BY <1>2, <2>3, <4>1, <4>2, <4>3
    <3> QED
      BY <3>1, <3>2
  <2> HIDE DEF streak
  <2>9. StreakSound'
    BY <1>2, <1>7, <2>3, <2>8 DEF StreakSound
  <2>10. ASSUME NEW r \in Runs' PROVE r[2] + 1 - r[1] <= best
    <3> DEFINE a == r[1]
               b == r[2]
    <3>1. r = <<a, b>> /\ a \in Claimed' /\ b \in Claimed' /\ \A x \in a..b : x \in Claimed'
      BY <2>10 DEF Runs
    <3> HIDE DEF a, b
    <3>2. a \in Nat \ {0} /\ b \in Nat \ {0} /\ a <= d /\ b <= d
      BY <1>2, <2>3, <2>4, <3>1
    <3>3. b + 1 - a <= best
      <4>1. CASE b = d
        <5>1. ~(a <= d - streak)
          <6> SUFFICES ASSUME a <= d - streak PROVE FALSE
            OBVIOUS
          <6>1. d - streak \in a..b
            BY <1>2, <1>6, <3>2, <4>1
          <6> QED
            BY <2>8, <3>1, <6>1
        <5> QED
          BY <1>2, <1>6, <3>2, <4>1, <5>1
      <4>2. CASE b # d /\ a = d
        <5>1. b + 1 - a <= 0
          BY <1>2, <3>2, <4>2
        <5> QED
          BY <1>6, <3>2, <5>1
      <4>3. CASE b # d /\ a # d
        <5>1. \A x \in a..b : x # d
          BY <1>2, <3>2, <4>3
        <5>2. <<a, b>> \in Runs
          BY <2>3, <3>1, <4>3, <5>1, RunsAre
        <5>3. b + 1 - a <= row.best
          BY <5>2 DEF RowSound, BestSound
        <5> QED
          BY <1>2, <1>6, <3>2, <5>3
      <4> QED
        BY <4>1, <4>2, <4>3
    <3> QED
      BY <3>3 DEF a, b
  <2>11. best = 0 \/ \E r \in Runs' : r[2] + 1 - r[1] = best
    <3>1. CASE best = streak
      <4> DEFINE a == d + 1 - streak
      <4>1. a \in a..d /\ d + 1 - a = streak
        BY <1>2, <1>6, <2>8
      <4>2. d \in Claimed' /\ \A x \in a..d : x \in Claimed'
        BY <2>3, <2>8
      <4> HIDE DEF a
      <4>3. <<a, d>> \in Runs'
        BY <4>1, <4>2 DEF Runs
      <4> QED
        BY <3>1, <4>1, <4>3
    <3>2. CASE best = row.best /\ best # 0
      <4>1. PICK r \in Runs : r[2] + 1 - r[1] = row.best
        BY <3>2 DEF RowSound, BestSound
      <4>2. r \in Runs'
        BY <2>3 DEF Runs
      <4> QED
        BY <3>2, <4>1, <4>2
    <3> QED
      BY <1>6, <3>1, <3>2
  <2>12. BestSound'
    BY <1>7, <2>10, <2>11 DEF BestSound
  <2> QED
    BY <2>7, <2>9, <2>12 DEF RowSound
<1> QED
  BY <1>8, <1>9

\* A claim that is committed pays its day, and what is paid too often was late.
LEMMA CommitKeeps ==
    ASSUME LoginInv, NEW c \in Claims, claim[c].st = "stamped", enabled, ClaimCommits(c)
    PROVE  LoginInv'
<1> DEFINE d == claim[c].day
           last == row.last
<1>1. /\ row' = Grown(d) /\ claim' = [claim EXCEPT ![c].st = "done"] /\ UNCHANGED day
      /\ paid' = IF row.last = d THEN paid ELSE [paid EXCEPT ![d] = @ + 1]
      /\ late' = IF d < row.last THEN late + 1 ELSE late
  BY DEF ClaimCommits
<1>2. /\ d \in Days /\ d <= day /\ last \in Nat /\ row.streak \in Nat /\ row.best \in Nat
      /\ d \in Nat \ {0} /\ day \in Nat /\ late \in Nat /\ paid \in [Days -> Nat]
  BY DEF LoginInv, LoginTypes, NotAhead, Days
<1> HIDE DEF d
<1>3. claim' \in [Claims -> [st : {"none", "sent", "stamped", "done", "disabled", "failed"},
                             day : Nat, mounted : BOOLEAN]]
  BY <1>1 DEF LoginInv, LoginTypes
<1>4. \A e \in Claims : claim'[e].st = "stamped" => claim[e].st = "stamped" /\ claim'[e].day = claim[e].day
  BY <1>1 DEF LoginInv, LoginTypes
<1> DEFINE streak == IF row.last = d THEN row.streak
                     ELSE IF row.last # 0 /\ row.last = d - 1 THEN row.streak + 1 ELSE 1
           best == Max({row.best, streak})
<1>5. row' = [last |-> d, streak |-> streak, best |-> best]
  BY <1>1 DEF Grown
<1>6. streak \in Nat /\ best \in Nat
  <2>1. streak \in Nat
    BY <1>2
  <2> HIDE DEF streak
  <2>2. best \in {row.best, streak}
    BY <1>2, <2>1, MaxIs
  <2> HIDE DEF best
  <2> QED
    BY <1>2, <2>1, <2>2
<1>7. row'.last = d /\ row' \in [last : Nat, streak : Nat, best : Nat]
  BY <1>2, <1>5, <1>6
<1> HIDE DEF streak, best
<1>8. paid' \in [Days -> Nat] /\ late' \in Nat
  BY <1>1, <1>2
<1>9. LoginTypes'
  BY <1>1, <1>3, <1>7, <1>8 DEF LoginInv, LoginTypes
<1>10. NotAhead'
  BY <1>1, <1>2, <1>4, <1>7 DEF LoginInv, NotAhead
<1>11. PaidBound'
  <2> SUFFICES ASSUME NEW e \in Days PROVE paid'[e] <= IF e <= d THEN late' + 1 ELSE late'
    BY <1>7 DEF PaidBound
  <2>1. paid[e] \in Nat /\ e \in Nat /\ paid[e] <= IF e <= last THEN late + 1 ELSE late
    BY <1>2 DEF LoginInv, PaidBound, Days
  <2>2. CASE last = d
    BY <1>1, <1>2, <2>1, <2>2
  <2>3. CASE last # d /\ e = d
    <3>1. paid'[e] = paid[e] + 1
      BY <1>1, <1>2, <2>3
    <3> QED
      BY <1>1, <1>2, <2>1, <2>3, <3>1
  <2>4. CASE last # d /\ e # d
    <3>1. paid'[e] = paid[e]
      BY <1>1, <1>2, <2>4
    <3> QED
      BY <1>1, <1>2, <2>1, <2>4, <3>1
  <2> QED
    BY <2>2, <2>3, <2>4
<1>12. ASSUME late' = 0 PROVE RowSound'
  <2>1. late = 0 /\ row.last <= d
    BY <1>1, <1>2, <1>12
  <2> QED
    BY <2>1, CommitGrows DEF LoginInv, d
<1> QED
  BY <1>9, <1>10, <1>11, <1>12 DEF LoginInv

\* Steps that write neither the row nor what was paid.
LEMMA RowUntouched ==
    ASSUME LoginInv, UNCHANGED <<row, paid, late>>
    PROVE  PaidBound' /\ (late = 0 => RowSound)'
<1>1. Claimed' = Claimed
  BY DEF Claimed
<1>2. Runs' = Runs
  BY <1>1 DEF Runs
<1> QED
  BY <1>1, <1>2 DEF LoginInv, PaidBound, RowSound, PaidOnce, StreakSound, BestSound

LEMMA ClaimsChange ==
    ASSUME LoginInv, UNCHANGED <<row, paid, day, late>>,
           claim' \in [Claims -> [st : {"none", "sent", "stamped", "done", "disabled", "failed"},
                                  day : Nat, mounted : BOOLEAN]],
           \A c \in Claims : claim'[c].st = "stamped" =>
              (claim[c].st = "stamped" /\ claim'[c].day = claim[c].day) \/ claim'[c].day = day
    PROVE  LoginInv'
<1>1. LoginTypes'
  BY DEF LoginInv, LoginTypes
<1>2. NotAhead'
  <2> SUFFICES ASSUME NEW c \in Claims, claim'[c].st = "stamped"
               PROVE  claim'[c].day \in Days /\ claim'[c].day <= day
    BY DEF LoginInv, NotAhead
  <2>1. day \in Days /\ row.last <= day /\ day <= day
    BY DEF LoginInv, LoginTypes, NotAhead, Days
  <2> QED
    BY <2>1 DEF LoginInv, NotAhead
<1> QED
  BY <1>1, <1>2, RowUntouched DEF LoginInv

LEMMA NextLogin == LoginInv /\ [LoginNext]_loginVars => LoginInv'
<1> SUFFICES ASSUME LoginInv, [LoginNext]_loginVars PROVE LoginInv'
  OBVIOUS
<1> DEFINE Calls == [st : {"none", "sent", "stamped", "done", "disabled", "failed"}, day : Nat, mounted : BOOLEAN]
<1>1. claim \in [Claims -> Calls] /\ day \in Days /\ day \in Nat
  BY DEF LoginInv, LoginTypes, Days
<1>2. CASE UNCHANGED <<row, paid, day, claim, late>>
  BY <1>1, <1>2, ClaimsChange
<1>3. CASE Midnight
  <2>1. day' = day + 1 /\ day < LastDay /\ UNCHANGED <<row, paid, claim, late>>
    BY <1>3 DEF Midnight
  <2>2. day' \in Days /\ day <= day' /\ day' \in Nat
    BY <1>1, <2>1, LoginAssumption DEF Days
  <2>3. LoginTypes'
    BY <2>1, <2>2 DEF LoginInv, LoginTypes
  <2>4. row.last <= day'
    BY <1>1, <2>2 DEF LoginInv, LoginTypes, NotAhead
  <2>5. ASSUME NEW c \in Claims, claim[c].st = "stamped"
        PROVE  claim[c].day \in Days /\ claim[c].day <= day'
    <3>1. claim[c].day \in Days /\ claim[c].day \in Nat /\ claim[c].day <= day
      BY <2>5 DEF LoginInv, NotAhead, Days
    <3> QED
      BY <1>1, <2>2, <3>1
  <2>6. NotAhead'
    BY <2>1, <2>4, <2>5 DEF NotAhead
  <2> QED
    BY <2>1, <2>3, <2>6, RowUntouched DEF LoginInv
<1>4. CASE LeavePage
  <2>1. claim' = [c \in Claims |-> [claim[c] EXCEPT !.mounted = FALSE]] /\ UNCHANGED <<row, paid, day, late>>
    BY <1>4 DEF LeavePage
  <2>2. \A c \in Claims : claim'[c] \in Calls /\ claim'[c].st = claim[c].st /\ claim'[c].day = claim[c].day
    BY <1>1, <2>1
  <2>3. claim' \in [Claims -> Calls]
    BY <2>1, <2>2
  <2> QED
    BY <2>1, <2>2, <2>3, ClaimsChange
<1>5. ASSUME NEW c \in Claims, ClaimIsStamped(c) PROVE LoginInv'
  <2>1. claim' = [claim EXCEPT ![c].st = "stamped", ![c].day = day] /\ UNCHANGED <<row, paid, day, late>>
    BY <1>5 DEF ClaimIsStamped
  <2>2. claim' \in [Claims -> Calls] /\ claim'[c].day = day /\ \A d \in Claims \ {c} : claim'[d] = claim[d]
    BY <1>1, <2>1
  <2> QED
    BY <2>1, <2>2, ClaimsChange
<1>6. ASSUME NEW c \in Claims, ClaimCommits(c) PROVE LoginInv'
  <2>1. CASE enabled
    <3>1. claim[c].st = "stamped"
      BY <1>6 DEF ClaimCommits
    <3> QED
      BY <1>6, <2>1, <3>1, CommitKeeps
  <2>2. CASE ~enabled
    <3>1. claim' = [claim EXCEPT ![c].st = "disabled"] /\ UNCHANGED <<row, paid, day, late>>
      BY <1>6, <2>2 DEF ClaimCommits
    <3>2. claim' \in [Claims -> Calls] /\ claim'[c].st = "disabled" /\ \A d \in Claims \ {c} : claim'[d] = claim[d]
      BY <1>1, <3>1
    <3> QED
      BY <3>1, <3>2, ClaimsChange
  <2> QED
    BY <2>1, <2>2
<1>7. ASSUME NEW c \in Claims, ClaimIsLost(c) PROVE LoginInv'
  <2>1. claim' = [claim EXCEPT ![c].st = "failed"] /\ UNCHANGED <<row, paid, day, late>>
    BY <1>7 DEF ClaimIsLost
  <2>2. claim' \in [Claims -> Calls] /\ claim'[c].st = "failed" /\ \A d \in Claims \ {c} : claim'[d] = claim[d]
    BY <1>1, <2>1
  <2> QED
    BY <2>1, <2>2, ClaimsChange
<1>8. ASSUME NEW c \in Claims, ClickClaim(c) \/ ClaimReturns(c) PROVE LoginInv'
  <2>1. NoClaim \in Calls /\ [NoClaim EXCEPT !.st = "sent", !.mounted = TRUE] \in Calls
        /\ NoClaim.st = "none" /\ [NoClaim EXCEPT !.st = "sent", !.mounted = TRUE].st = "sent"
    BY DEF NoClaim
  <2>2. UNCHANGED <<row, paid, day, late>>
        /\ claim' \in {[claim EXCEPT ![c] = NoClaim],
                       [claim EXCEPT ![c] = [NoClaim EXCEPT !.st = "sent", !.mounted = TRUE]]}
    BY <1>8 DEF ClickClaim, ClaimReturns
  <2>3. claim' \in [Claims -> Calls] /\ claim'[c].st \in {"none", "sent"} /\ \A d \in Claims \ {c} : claim'[d] = claim[d]
    <3>1. PICK new \in Calls : claim' = [claim EXCEPT ![c] = new] /\ new.st \in {"none", "sent"}
      BY <2>1, <2>2
    <3> HIDE DEF Calls
    <3> QED
      BY <1>1, <3>1
  <2> QED
    BY <2>2, <2>3, ClaimsChange
<1>9. CASE UNCHANGED loginVars
  BY <1>2, <1>9 DEF loginVars
<1>10. CASE SwitchSetting \/ ServeLoad \/ LoadLogin \/ LoadArrives \/ OpenPage
  BY <1>2, <1>10 DEF SwitchSetting, ServeLoad, LoadLogin, LoadArrives, OpenPage
<1> QED
  BY <1>3, <1>4, <1>5, <1>6, <1>7, <1>8, <1>9, <1>10 DEF LoginNext

LEMMA LoginIsSound == LoginInv => StreakIsEarned
<1> SUFFICES ASSUME LoginInv PROVE StreakIsEarned
  OBVIOUS
<1>0. \A d \in Days : paid[d] <= 1 + late
  <2> SUFFICES ASSUME NEW d \in Days PROVE paid[d] <= 1 + late
    OBVIOUS
  <2>1. paid[d] \in Nat /\ late \in Nat /\ row.last \in Nat /\ d \in Nat
        /\ paid[d] <= IF d <= row.last THEN late + 1 ELSE late
    BY DEF LoginInv, LoginTypes, PaidBound, Days
  <2> QED
    BY <2>1
<1> SUFFICES ASSUME late = 0
             PROVE  /\ row.last = Max({0} \union Claimed)
                    /\ row.streak = Max(Lengths({r \in Runs : r[2] = row.last}))
                    /\ row.best = Max(Lengths(Runs))
  BY <1>0 DEF StreakIsEarned
<1>1. /\ row.last \in Nat /\ row.streak \in Nat /\ row.best \in Nat
      /\ Claimed \subseteq Nat \ {0} /\ \A d \in Claimed : d <= row.last
      /\ \A r \in Runs : /\ r = <<r[1], r[2]>> /\ r[1] \in Claimed /\ r[2] \in Claimed
                         /\ \A x \in r[1]..r[2] : x \in Claimed
  BY DEF LoginInv, LoginTypes, RowSound, PaidOnce, Claimed, Runs, Days
<1>2. PaidOnce /\ StreakSound /\ BestSound
  BY DEF LoginInv, RowSound
<1>3. Max({0} \union Claimed) = row.last
  <2>1. row.last \in {0} \union Claimed
    BY <1>2 DEF StreakSound
  <2> DEFINE S == {0} \union Claimed
  <2>2. S \subseteq Int /\ row.last \in S /\ \A x \in S : x <= row.last
    BY <1>1, <2>1
  <2> HIDE DEF S
  <2>3. Max(S) = row.last
    BY <2>2, MaxIs
  <2> QED
    BY <2>3 DEF S
<1>4. ASSUME NEW rs \in SUBSET Runs PROVE Lengths(rs) \subseteq Int
  BY <1>1 DEF Lengths
<1>5. Max(Lengths(Runs)) = row.best
  <2>1. row.best \in Lengths(Runs)
    BY <1>2 DEF BestSound, Lengths
  <2>2. \A x \in Lengths(Runs) : x <= row.best
    BY <1>1, <1>2 DEF BestSound, Lengths
  <2> QED
    BY <1>4, <2>1, <2>2, MaxIs
<1> DEFINE last == {r \in Runs : r[2] = row.last}
<1>6. Max(Lengths(last)) = row.streak
  <2>1. CASE row.last = 0
    <3>1. last = {} /\ row.streak = 0
      BY <1>1, <1>2, <2>1 DEF StreakSound
    <3> HIDE DEF last
    <3>2. Lengths(last) = {0}
      BY <3>1 DEF Lengths
    <3> QED
      BY <3>1, <3>2, MaxIs
  <2>2. CASE row.last # 0
    <3> DEFINE a == row.last + 1 - row.streak
    <3>1. /\ row.last \in Claimed /\ row.streak \in 1..row.last
          /\ \A x \in a..row.last : x \in Claimed
          /\ row.last - row.streak \notin Claimed
      BY <1>2, <2>2 DEF StreakSound
    <3>2. a \in a..row.last /\ row.last + 1 - a = row.streak
      BY <1>1, <3>1
    <3> HIDE DEF a
    <3>3. <<a, row.last>> \in last
      BY <3>1, <3>2 DEF Runs
    <3>4. row.streak \in Lengths(last)
      <4>1. <<a, row.last>>[2] + 1 - <<a, row.last>>[1] = row.streak
        BY <3>2
      <4> HIDE DEF last
      <4> QED
        BY <3>3, <4>1 DEF Lengths
    <3>5. ASSUME NEW r \in last PROVE r[2] + 1 - r[1] <= row.streak
      <4>1. r[2] = row.last /\ r[1] \in Nat \ {0} /\ \A x \in r[1]..row.last : x \in Claimed
        BY <1>1
      <4>2. ~(r[1] <= row.last - row.streak)
        <5> SUFFICES ASSUME r[1] <= row.last - row.streak PROVE FALSE
          OBVIOUS
        <5>1. row.last - row.streak \in r[1]..row.last
          BY <1>1, <3>1, <4>1
        <5> QED
          BY <3>1, <4>1, <5>1
      <4> QED
        BY <1>1, <4>1, <4>2
    <3>6. last \in SUBSET Runs
      OBVIOUS
    <3> HIDE DEF last
    <3>7. \A x \in Lengths(last) : x <= row.streak
      BY <1>1, <3>5 DEF Lengths
    <3>8. Lengths(last) \subseteq Int
      BY <1>4, <3>6
    <3> QED
      BY <3>4, <3>7, <3>8, MaxIs
  <2> QED
    BY <2>1, <2>2
<1> QED
  BY <1>3, <1>5, <1>6

-----------------------------------------------------------------------------
\* LobbySound, for any rooms, days and fields, and for any calls and claims
\* under way together: joins lead the player into one active room, beside those
\* a creation made late; the form is refused only for what it shows; a day pays
\* once, and once more for every claim that was committed late, and while none
\* was the streak counts the days as they were claimed.
THEOREM LobbyPageIsSound == Spec => []LobbySound
<1> DEFINE PageInv == LobbyInv /\ FormInv /\ LoginInv
<1>1. Init => PageInv
  BY InitLobby, InitForm, InitLogin DEF Init
<1>2. PageInv /\ [Next]_vars => PageInv'
  <2> SUFFICES ASSUME PageInv, [Next]_vars PROVE PageInv'
    OBVIOUS
  <2>1. [LobbyNext]_lobbyVars /\ [FormNext]_formVars /\ [LoginNext]_loginVars
    BY DEF Next, vars
  <2> QED
    BY <2>1, NextLobby, NextForm, NextLogin
<1>3. PageInv => LobbySound
  BY LobbyIsSound, LoginIsSound DEF LobbySound, FormInv, RefusedForWhatIsShown
<1> QED
  BY <1>1, <1>2, <1>3, PTL DEF Spec

-----------------------------------------------------------------------------
(* The store of snapshots: types, and the tombstone.                       *)

LEMMA InitType == StoreInit => StoreTypeOK
<1> SUFFICES ASSUME StoreInit PROVE StoreTypeOK
  OBVIOUS
<1>1. /\ alive \in BOOLEAN /\ deleted \in BOOLEAN /\ failed \in BOOLEAN
      /\ unsure \in BOOLEAN
  BY Zenon DEF StoreInit
<1>2. /\ life \in Nat /\ firstLife \in Nat /\ changes \in Nat /\ content \in Nat
      /\ snapVersion \in Nat /\ deletes \in Nat
  BY SMT DEF StoreInit
<1>3. key \in Snapshots /\ lastVersion \in Nat \cup {Unwritten} /\ saves \in SUBSET Saves
  BY DEF StoreInit, NoSnapshot, Snapshots
<1> QED
  BY <1>1, <1>2, <1>3 DEF StoreTypeOK

\* A failed command leaves the key or has done what it was asked to.
LEMMA NextType == StoreTypeOK /\ [StoreNext]_snapVars => StoreTypeOK'
<1> SUFFICES ASSUME StoreTypeOK, [StoreNext]_snapVars PROVE StoreTypeOK'
  OBVIOUS
<1>0. failed' \in BOOLEAN
  BY Zenon DEF StoreTypeOK, StoreNext, Persist, Teardown, JoinAgain, Restart, SaveLands,
               SaveFails, DeleteLands, DeleteFails, snapVars
<1>0a. unsure' \in BOOLEAN
  BY Zenon DEF StoreTypeOK, StoreNext, Persist, Teardown, JoinAgain, Restart, SaveLands,
               SaveFails, DeleteLands, DeleteFails, snapVars
<1> USE <1>0, <1>0a DEF StoreTypeOK
<1>1. CASE Persist
  <2>1. changes + 1 \in Nat /\ snapVersion + 1 \in Nat
    OBVIOUS
  <2>2. [version |-> snapVersion + 1,
         snap |-> [life |-> life, content |-> changes + 1]] \in Saves
    BY <2>1 DEF Saves, Snapshots
  <2> QED
    BY <1>1, <2>1, <2>2 DEF Persist, storeVars
<1>2. CASE Teardown
  <2>1. alive' \in BOOLEAN /\ deleted' \in BOOLEAN
    BY <1>2, Zenon DEF Teardown, storeVars
  <2>2. deletes' \in Nat
    BY <1>2, SMT DEF Teardown
  <2> QED
    BY <1>2, <2>1, <2>2 DEF Teardown, storeVars
<1>3. CASE JoinAgain
  <2>1. key.content \in Nat /\ life + 1 \in Nat /\ FreshVersion \in Nat
    BY DEF Snapshots, FreshVersion
  <2>2. content' \in Nat
    BY <1>3, <2>1 DEF JoinAgain
  <2> QED
    BY <1>3, <2>1, <2>2 DEF JoinAgain, storeVars
<1>4. CASE Restart
  <2>1. alive' \in BOOLEAN /\ deleted' \in BOOLEAN
    BY <1>4, Zenon DEF Restart
  <2>2. firstLife' \in Nat /\ deletes' \in Nat
    BY <1>4, SMT DEF Restart
  <2>3. saves' \in SUBSET Saves /\ lastVersion' \in Nat \cup {Unwritten}
    BY <1>4 DEF Restart
  <2> QED
    BY <1>4, <2>1, <2>2, <2>3 DEF Restart
<1>5. ASSUME NEW save \in saves, SaveLands(save) PROVE StoreTypeOK'
  <2>1. save.snap \in Snapshots /\ save.version \in Nat
    BY DEF Saves
  <2> QED
    BY <1>5, <2>1 DEF SaveLands, storeVars, roomVars
<1>6. ASSUME NEW save \in saves, SaveFails(save) PROVE StoreTypeOK'
  <2>1. save.snap \in Snapshots
    BY DEF Saves
  <2> QED
    BY <1>6, <2>1 DEF SaveFails, roomVars
<1>7. CASE DeleteLands
  <2>1. NoSnapshot \in Snapshots
    BY DEF NoSnapshot, Snapshots
  <2>2. lastVersion' \in Nat
    BY <1>7 DEF DeleteLands, Unwritten
  <2> QED
    BY <1>7, <2>1, <2>2 DEF DeleteLands, roomVars
<1>8. CASE DeleteFails
  <2>1. NoSnapshot \in Snapshots
    BY DEF NoSnapshot, Snapshots
  <2> QED
    BY <1>8, <2>1 DEF DeleteFails, roomVars
<1>9. CASE UNCHANGED snapVars
  BY <1>9 DEF snapVars, roomVars, storeVars
<1> QED
  BY <1>1, <1>2, <1>3, <1>4, <1>5, <1>6, <1>7, <1>8, <1>9 DEF StoreNext

LEMMA TypeInvariance == StoreSpec => []StoreTypeOK
BY InitType, NextType, PTL DEF StoreSpec

\* Every value stays of its type; the versions, which are compared, are numbers.
THEOREM TypeCorrect == StoreSpec => []StoreTypeOK
BY TypeInvariance

\* Whatever saves are still under way when a delete reaches the store, and
\* whatever objects the room gets afterwards: the key stays empty until the
\* process ends, however Redis fails.
THEOREM Tombstone == StoreSpec => []DeletedStaysDeleted
<1>1. StoreInit => DeletedStaysDeleted
  BY DEF StoreInit, DeletedStaysDeleted
<1>2. DeletedStaysDeleted /\ [StoreNext]_snapVars => DeletedStaysDeleted'
  <2> SUFFICES ASSUME DeletedStaysDeleted, [StoreNext]_snapVars
               PROVE  DeletedStaysDeleted'
    OBVIOUS
  <2> USE DEF DeletedStaysDeleted
  <2>1. CASE Persist \/ Teardown \/ JoinAgain
    BY <2>1 DEF Persist, Teardown, JoinAgain, storeVars
  <2>2. CASE Restart \/ DeleteLands
    BY <2>2 DEF Restart, DeleteLands
  <2>3. ASSUME NEW save \in saves, SaveLands(save) PROVE DeletedStaysDeleted'
    BY <2>3 DEF SaveLands, Stale, storeVars
  <2>4. ASSUME NEW save \in saves, SaveFails(save) PROVE DeletedStaysDeleted'
    BY <2>4 DEF SaveFails, Stale
  <2>5. CASE DeleteFails
    BY <2>5 DEF DeleteFails
  <2>6. CASE UNCHANGED snapVars
    BY <2>6 DEF snapVars, storeVars
  <2> QED
    BY <2>1, <2>2, <2>3, <2>4, <2>5, <2>6 DEF StoreNext
<1> QED
  BY <1>1, <1>2, PTL DEF StoreSpec
-----------------------------------------------------------------------------
(* Order within one room object.                                           *)

\* The versions of one object's saves tell their contents apart and order them,
\* and no save that the store would still accept is older than a key that it
\* recorded.
SavesOrdered ==
    /\ alive => life >= 1
    /\ content <= changes /\ key.content <= changes
    /\ key.life = 0 => key.content = 0
    /\ \A s \in saves :
          /\ 1 <= s.snap.life /\ s.snap.life <= life
          /\ s.snap.content <= changes
          /\ s.snap.life = life =>
                s.version <= snapVersion /\ s.snap.content <= content
    /\ \A s, t \in saves :
          s.snap.life = t.snap.life =>
             /\ s.version < t.version => s.snap.content < t.snap.content
             /\ s.version = t.version => s.snap.content = t.snap.content
    /\ ~unsure => \A s \in saves :
          (s.snap.life = key.life /\ s.version > lastVersion)
             => s.snap.content >= key.content

OrderInv == StoreTypeOK /\ SavesOrdered

LEMMA InitOrder == StoreInit => OrderInv
<1> SUFFICES ASSUME StoreInit PROVE OrderInv
  OBVIOUS
<1>1. StoreTypeOK
  BY InitType
<1>2. SavesOrdered
  BY DEF StoreInit, SavesOrdered, NoSnapshot
<1> QED
  BY <1>1, <1>2 DEF OrderInv

LEMMA SaveFields ==
    ASSUME StoreTypeOK, NEW save \in saves
    PROVE  save.version \in Nat /\ save.snap.life \in Nat /\ save.snap.content \in Nat
BY DEF StoreTypeOK, Saves, Snapshots

LEMMA KeyFields ==
    ASSUME StoreTypeOK
    PROVE  /\ key.life \in Nat /\ key.content \in Nat
           /\ lastVersion \in Int
BY DEF StoreTypeOK, Snapshots, Unwritten

LEMMA PersistOrder == OrderInv /\ Persist => SavesOrdered'
<1> SUFFICES ASSUME OrderInv, Persist PROVE SavesOrdered'
  OBVIOUS
<1> DEFINE new == [version |-> snapVersion + 1,
                   snap |-> [life |-> life, content |-> changes + 1]]
<1>1. /\ saves' = saves \cup {new} /\ life' = life /\ key' = key
      /\ lastVersion' = lastVersion /\ alive' = alive /\ alive /\ unsure' = unsure
      /\ changes' = changes + 1 /\ content' = changes + 1
      /\ snapVersion' = snapVersion + 1
  BY DEF Persist, storeVars
<1>2. /\ life \in Nat /\ changes \in Nat /\ snapVersion \in Nat /\ content \in Nat
      /\ key.life \in Nat /\ key.content \in Nat /\ lastVersion \in Int
      /\ life >= 1 /\ content <= changes /\ key.content <= changes
  BY <1>1, KeyFields DEF OrderInv, StoreTypeOK, SavesOrdered
<1>3. /\ new.version = snapVersion + 1 /\ new.snap.life = life
      /\ new.snap.content = changes + 1
  OBVIOUS
<1>4. \A s \in saves :
         /\ s.version \in Nat /\ s.snap.life \in Nat /\ s.snap.content \in Nat
         /\ 1 <= s.snap.life /\ s.snap.life <= life /\ s.snap.content <= changes
         /\ s.snap.life = life => s.version <= snapVersion /\ s.snap.content <= content
  BY SaveFields DEF OrderInv, SavesOrdered
<1> HIDE DEF new
<1>5. \A s \in saves' :
         /\ 1 <= s.snap.life /\ s.snap.life <= life'
         /\ s.snap.content <= changes'
         /\ s.snap.life = life' =>
               s.version <= snapVersion' /\ s.snap.content <= content'
  BY <1>1, <1>2, <1>3, <1>4
<1>6. \A s, t \in saves' :
         s.snap.life = t.snap.life =>
            /\ s.version < t.version => s.snap.content < t.snap.content
            /\ s.version = t.version => s.snap.content = t.snap.content
  <2> SUFFICES ASSUME NEW s \in saves', NEW t \in saves', s.snap.life = t.snap.life
               PROVE  /\ s.version < t.version => s.snap.content < t.snap.content
                      /\ s.version = t.version => s.snap.content = t.snap.content
    OBVIOUS
  <2>1. CASE s \in saves /\ t \in saves
    BY <2>1 DEF OrderInv, SavesOrdered
  <2>2. CASE s \in saves /\ t = new
    BY <1>2, <1>3, <1>4, <2>2
  <2>3. CASE s = new /\ t \in saves
    BY <1>2, <1>3, <1>4, <2>3
  <2>4. CASE s = new /\ t = new
    BY <1>2, <1>3, <2>4
  <2> QED
    BY <1>1, <2>1, <2>2, <2>3, <2>4
<1>7. ~unsure' => \A s \in saves' :
         (s.snap.life = key'.life /\ s.version > lastVersion')
            => s.snap.content >= key'.content
  <2> SUFFICES ASSUME ~unsure, NEW s \in saves', s.snap.life = key.life,
                      s.version > lastVersion
               PROVE  s.snap.content >= key.content
    BY <1>1
  <2>1. CASE s \in saves
    BY <2>1 DEF OrderInv, SavesOrdered
  <2>2. CASE s = new
    BY <1>2, <1>3, <2>2
  <2> QED
    BY <1>1, <2>1, <2>2
<1>8. /\ alive' => life' >= 1
      /\ content' <= changes' /\ key'.content <= changes'
      /\ key'.life = 0 => key'.content = 0
  BY <1>1, <1>2 DEF OrderInv, SavesOrdered
<1> QED
  BY <1>5, <1>6, <1>7, <1>8 DEF SavesOrdered

LEMMA SaveLandsOrder ==
    ASSUME OrderInv, NEW save \in saves, SaveLands(save)
    PROVE  /\ SavesOrdered'
           /\ ~unsure /\ key'.life = key.life => key'.content >= key.content
<1>1. /\ saves' \subseteq saves /\ life' = life /\ alive' = alive
      /\ changes' = changes /\ content' = content /\ snapVersion' = snapVersion
  BY DEF SaveLands, roomVars
<1>2. \A s \in saves :
         /\ s.version \in Nat /\ s.snap.life \in Nat /\ s.snap.content \in Nat
         /\ 1 <= s.snap.life /\ s.snap.life <= life /\ s.snap.content <= changes
  BY SaveFields DEF OrderInv, SavesOrdered
<1>3. \A s, t \in saves :
         s.snap.life = t.snap.life =>
            /\ s.version < t.version => s.snap.content < t.snap.content
            /\ s.version = t.version => s.snap.content = t.snap.content
  BY DEF OrderInv, SavesOrdered
<1>4. CASE Stale(save)
  <2>1. key' = key /\ lastVersion' = lastVersion /\ unsure' = unsure
    BY <1>4 DEF SaveLands, storeVars
  <2>2. key.content \in Nat
    BY KeyFields DEF OrderInv
  <2> QED
    BY <1>1, <2>1, <2>2 DEF OrderInv, SavesOrdered
<1>5. CASE ~Stale(save)
  <2>1. key' = save.snap /\ lastVersion' = save.version
    BY <1>5 DEF SaveLands
  <2>2. save.version > lastVersion
    <3>1. ~(save.version <= lastVersion)
      BY <1>5 DEF Stale
    <3> QED
      BY <3>1, SaveFields, KeyFields DEF OrderInv
  <2>3. \A s \in saves' :
           (s.snap.life = key'.life /\ s.version > lastVersion')
              => s.snap.content >= key'.content
    BY <1>1, <1>2, <1>3, <2>1
  <2>4. /\ key'.content <= changes'
        /\ key'.life = 0 => key'.content = 0
    BY <1>1, <1>2, <2>1
  <2>5. SavesOrdered'
    BY <1>1, <2>3, <2>4 DEF OrderInv, SavesOrdered
  <2>6. ~unsure /\ key'.life = key.life => key'.content >= key.content
    BY <2>1, <2>2 DEF OrderInv, SavesOrdered
  <2> QED
    BY <2>5, <2>6
<1> QED
  BY <1>4, <1>5

\* A step keeps the order, and takes the key back within an object only when the
\* store has not recorded what it holds.
LEMMA NextOrder ==
    ASSUME OrderInv, StoreNext
    PROVE  /\ SavesOrdered'
           /\ ~unsure /\ key'.life = key.life => key'.content >= key.content
<1>1. /\ key.content \in Nat /\ key.life \in Nat /\ life \in Nat
      /\ content \in Nat /\ changes \in Nat
  BY KeyFields DEF OrderInv, StoreTypeOK
<1>2. CASE Persist
  BY <1>1, <1>2, PersistOrder DEF Persist, storeVars
<1>3. CASE Teardown
  BY <1>1, <1>3 DEF Teardown, storeVars, OrderInv, SavesOrdered
<1>4. CASE JoinAgain
  <2>1. /\ alive' /\ life' = life + 1 /\ changes' = changes /\ saves' = saves
        /\ key' = key /\ lastVersion' = lastVersion /\ unsure' = unsure
        /\ content' \in {key.content, 0}
    BY <1>4 DEF JoinAgain, storeVars
  <2>2. \A s \in saves' : 1 <= s.snap.life /\ s.snap.life <= life' /\ s.snap.life # life'
    BY <1>1, <2>1, SaveFields DEF OrderInv, SavesOrdered
  <2> QED
    BY <1>1, <2>1, <2>2 DEF OrderInv, SavesOrdered
<1>5. CASE Restart
  BY <1>1, <1>5 DEF Restart, OrderInv, SavesOrdered
<1>6. ASSUME NEW save \in saves, SaveLands(save)
      PROVE  /\ SavesOrdered'
             /\ ~unsure /\ key'.life = key.life => key'.content >= key.content
  BY <1>6, SaveLandsOrder
<1>7. ASSUME NEW save \in saves, SaveFails(save)
      PROVE  /\ SavesOrdered'
             /\ ~unsure /\ key'.life = key.life => key'.content >= key.content
  <2>1. /\ saves' \subseteq saves /\ life' = life /\ alive' = alive
        /\ changes' = changes /\ content' = content /\ snapVersion' = snapVersion
        /\ lastVersion' = lastVersion
    BY <1>7 DEF SaveFails, roomVars
  <2>2. CASE key' = key /\ unsure' = unsure
    BY <1>1, <2>1, <2>2 DEF OrderInv, SavesOrdered
  <2>3. CASE key' = save.snap /\ unsure' = TRUE
    <3>1. ~(save.version <= lastVersion)
      BY <1>7 DEF SaveFails, Stale
    <3>2. save.version > lastVersion
      BY <3>1, SaveFields, KeyFields DEF OrderInv
    <3>3. 1 <= save.snap.life /\ save.snap.content <= changes
      BY DEF OrderInv, SavesOrdered
    <3>4. ~unsure /\ key'.life = key.life => key'.content >= key.content
      BY <2>3, <3>2 DEF OrderInv, SavesOrdered
    <3>5. key'.content <= changes /\ (key'.life = 0 => key'.content = 0)
      BY <2>3, <3>3, SaveFields DEF OrderInv
    <3> QED
      BY <2>1, <2>3, <3>4, <3>5 DEF OrderInv, SavesOrdered
  <2> QED
    BY <1>7, <2>2, <2>3 DEF SaveFails
<1>8. CASE DeleteLands
  <2>1. /\ key' = NoSnapshot /\ saves' = saves
        /\ alive' = alive /\ life' = life /\ changes' = changes
        /\ content' = content /\ snapVersion' = snapVersion
    BY <1>8 DEF DeleteLands, roomVars
  <2>2. NoSnapshot.life = 0 /\ NoSnapshot.content = 0
    BY DEF NoSnapshot
  <2> QED
    BY <1>1, <2>1, <2>2 DEF OrderInv, SavesOrdered
<1>9. CASE DeleteFails
  <2>1. /\ saves' = saves /\ alive' = alive /\ life' = life /\ changes' = changes
        /\ content' = content /\ snapVersion' = snapVersion
        /\ lastVersion' = lastVersion /\ unsure' = unsure
        /\ key' = key \/ key' = NoSnapshot
    BY <1>9 DEF DeleteFails, roomVars
  <2>2. NoSnapshot.life = 0 /\ NoSnapshot.content = 0
    BY DEF NoSnapshot
  <2>3. \A s \in saves : s.snap.life >= 1 /\ s.snap.life \in Nat
    BY SaveFields DEF OrderInv, SavesOrdered
  <2>4. CASE key' = key
    BY <1>1, <2>1, <2>4 DEF OrderInv, SavesOrdered
  <2>5. CASE key' = NoSnapshot
    BY <1>1, <2>1, <2>2, <2>3, <2>5 DEF OrderInv, SavesOrdered
  <2> QED
    BY <2>1, <2>4, <2>5
<1> QED
  BY <1>2, <1>3, <1>4, <1>5, <1>6, <1>7, <1>8, <1>9 DEF StoreNext

LEMMA OrderInvariance == StoreSpec => []OrderInv
<1>1. OrderInv /\ [StoreNext]_snapVars => OrderInv'
  <2> SUFFICES ASSUME OrderInv, [StoreNext]_snapVars PROVE OrderInv'
    OBVIOUS
  <2>1. StoreTypeOK'
    BY NextType DEF OrderInv
  <2>2. CASE StoreNext
    BY <2>1, <2>2, NextOrder DEF OrderInv
  <2>3. CASE UNCHANGED snapVars
    BY <2>1, <2>3 DEF OrderInv, SavesOrdered, snapVars, roomVars, storeVars
  <2> QED
    BY <2>2, <2>3
<1> QED
  BY <1>1, InitOrder, PTL DEF StoreSpec

\* The goroutines deliver saves in any order, some are refused and some executed
\* without an answer, yet the snapshot of one room object never goes back but from
\* a save that the store did not record.
THEOREM ForwardInALife == StoreSpec => NeverBackwardsInALife
<1>1. OrderInv /\ [StoreNext]_snapVars =>
        [~unsure /\ key'.life = key.life => key'.content >= key.content]_snapVars
  BY NextOrder
<1> QED
  BY <1>1, OrderInvariance, PTL DEF StoreSpec, NeverBackwardsInALife
-----------------------------------------------------------------------------
(* The first object a process makes for the room.                          *)

\* The key holds the room's last change, or the save that will write it is under
\* way and cannot be refused.
LastChangeIsSafe ==
    \/ lastVersion = snapVersion /\ key.content = content
    \/ saves = {} /\ key.content = content
    \/ /\ lastVersion < snapVersion
       /\ \E s \in saves : s.version = snapVersion /\ s.snap.content = content

FirstObject ==
    /\ firstLife <= life + 1
    /\ firstLife = life + 1 =>
          /\ ~alive /\ ~deleted
          /\ saves = {} /\ deletes = 0 /\ lastVersion = Unwritten
    /\ (alive /\ life = firstLife) =>
          /\ ~deleted /\ deletes = 0
          /\ \A s \in saves : s.snap.life = life
          /\ lastVersion <= snapVersion
          /\ LastChangeIsSafe

FirstInv == OrderInv /\ FirstObject

LEMMA InitFirst == StoreInit => FirstInv
<1> SUFFICES ASSUME StoreInit PROVE FirstInv
  OBVIOUS
<1>1. OrderInv
  BY InitOrder
<1>2. ~alive /\ ~deleted
  BY DEF StoreInit
<1>3. /\ firstLife = life + 1 /\ firstLife # life
      /\ saves = {} /\ deletes = 0 /\ lastVersion = Unwritten
  BY SMT DEF StoreInit
<1> QED
  BY <1>1, <1>2, <1>3 DEF FirstInv, FirstObject, OrderInv, StoreTypeOK

LEMMA SaveLandsFirst ==
    ASSUME FirstInv, alive, life = firstLife, NEW save \in saves, SaveLands(save)
    PROVE  lastVersion' <= snapVersion' /\ LastChangeIsSafe'
<1>1. /\ saves' = saves \ {save} /\ snapVersion' = snapVersion /\ content' = content
      /\ snapVersion \in Nat /\ lastVersion \in Int
  BY KeyFields DEF SaveLands, roomVars, FirstInv, OrderInv, StoreTypeOK
<1>2. /\ ~deleted /\ lastVersion <= snapVersion /\ LastChangeIsSafe
      /\ \A s \in saves : s.snap.life = life
  BY DEF FirstInv, FirstObject
<1>3. \A s \in saves : s.version \in Nat /\ s.version <= snapVersion
  BY <1>2, SaveFields DEF FirstInv, OrderInv, SavesOrdered
<1>4. CASE Stale(save)
  <2>1. key' = key /\ lastVersion' = lastVersion
    BY <1>4 DEF SaveLands, storeVars
  <2>2. save.version <= lastVersion
    BY <1>2, <1>4 DEF Stale
  <2>3. ASSUME lastVersion < snapVersion, NEW s \in saves, s.version = snapVersion
        PROVE  s \in saves'
    BY <1>1, <1>3, <2>2, <2>3
  <2> QED
    BY <1>1, <1>2, <2>1, <2>3 DEF LastChangeIsSafe
<1>5. CASE ~Stale(save)
  <2>1. key' = save.snap /\ lastVersion' = save.version
    BY <1>5 DEF SaveLands
  <2>2. ~(save.version <= lastVersion)
    BY <1>5 DEF Stale
  <2>3. lastVersion < save.version /\ save.version <= snapVersion
    BY <1>1, <1>3, <2>2
  <2>4. lastVersion # snapVersion /\ saves # {}
    BY <1>1, <1>3, <2>3
  <2>5. PICK s \in saves : s.version = snapVersion /\ s.snap.content = content
    BY <1>2, <2>4 DEF LastChangeIsSafe
  <2>6. CASE save.version = snapVersion
    <3>1. save.snap.content = s.snap.content
      BY <1>2, <2>5, <2>6 DEF FirstInv, OrderInv, SavesOrdered
    <3> QED
      BY <1>1, <2>1, <2>5, <2>6, <3>1 DEF LastChangeIsSafe
  <2>7. CASE save.version # snapVersion
    <3>1. s \in saves' /\ save.version < snapVersion
      BY <1>1, <1>3, <2>3, <2>5, <2>7
    <3> QED
      BY <1>1, <2>1, <2>3, <2>5, <3>1 DEF LastChangeIsSafe
  <2> QED
    BY <2>6, <2>7
<1> QED
  BY <1>4, <1>5

\* A new process starts in order, whatever the last one left.
LEMMA RestartFirst == ASSUME OrderInv, Restart PROVE FirstObject'
<1>1. ~alive' /\ ~deleted'
  BY DEF Restart
<1>2. /\ firstLife' = life' + 1 /\ saves' = {} /\ deletes' = 0
      /\ lastVersion' = Unwritten
  BY DEF Restart
<1>3. firstLife' <= life' + 1
  BY <1>2, KeyFields DEF Restart, OrderInv, StoreTypeOK
<1> QED
  BY <1>1, <1>2, <1>3 DEF FirstObject

LEMMA NextFirst == ASSUME FirstInv, StoreNext, ~failed' PROVE FirstObject'
<1>1. /\ life \in Nat /\ firstLife \in Nat /\ snapVersion \in Nat
      /\ lastVersion \in Int /\ changes \in Nat
  BY KeyFields DEF FirstInv, OrderInv, StoreTypeOK
<1>2. CASE Persist
  <2> DEFINE new == [version |-> snapVersion + 1,
                     snap |-> [life |-> life, content |-> changes + 1]]
  <2>1. /\ alive' = alive /\ deleted' = deleted
    BY <1>2 DEF Persist, storeVars
  <2>2. /\ saves' = saves \cup {new} /\ snapVersion' = snapVersion + 1
        /\ content' = changes + 1 /\ life' = life /\ firstLife' = firstLife
        /\ lastVersion' = lastVersion /\ deletes' = deletes
    BY <1>2 DEF Persist, storeVars
  <2>3. alive
    BY <1>2 DEF Persist
  <2>4. firstLife <= life
    BY <1>1, <2>3 DEF FirstInv, FirstObject
  <2>5. new.version = snapVersion + 1 /\ new.snap.content = changes + 1
        /\ new.snap.life = life
    OBVIOUS
  <2> HIDE DEF new
  <2>6. ASSUME life = firstLife
        PROVE  /\ \A s \in saves' : s.snap.life = life
               /\ lastVersion' < snapVersion' /\ deletes' = 0
               /\ \E s \in saves' : s.version = snapVersion' /\ s.snap.content = content'
    BY <1>1, <2>2, <2>3, <2>5, <2>6 DEF FirstInv, FirstObject
  <2>7. life = firstLife => ~deleted'
    BY <2>1, <2>3 DEF FirstInv, FirstObject
  <2>8. firstLife' <= life' + 1 /\ firstLife' # life' + 1
    BY <1>1, <2>2, <2>4
  <2>9. life = firstLife => lastVersion' <= snapVersion'
    BY <1>1, <2>2, <2>6
  <2> QED
    BY <2>2, <2>6, <2>7, <2>8, <2>9 DEF FirstObject, LastChangeIsSafe
<1>3. CASE Teardown
  <2>1. ~alive' /\ alive
    BY <1>3 DEF Teardown
  <2>2. firstLife' = firstLife /\ life' = life
    BY <1>3 DEF Teardown
  <2>3. firstLife <= life + 1 /\ firstLife # life + 1
    BY <2>1 DEF FirstInv, FirstObject
  <2> QED
    BY <2>1, <2>2, <2>3 DEF FirstObject
<1>4. CASE JoinAgain
  <2>1. /\ life' = life + 1 /\ firstLife' = firstLife /\ snapVersion' = 0
        /\ saves' = saves /\ deletes' = deletes /\ key' = key
        /\ lastVersion' = lastVersion /\ content' = key.content
    BY <1>4, Zenon DEF JoinAgain, storeVars, FreshVersion
  <2>2. deleted' = deleted
    BY <1>4 DEF JoinAgain, storeVars
  <2>3. firstLife' <= life' + 1 /\ firstLife' # life' + 1
    BY <1>1, <2>1 DEF FirstInv, FirstObject
  <2>4. ASSUME life' = firstLife'
        PROVE  /\ deletes' = 0 /\ saves' = {} /\ lastVersion' <= snapVersion'
               /\ key'.content = content'
    BY <1>1, <2>1, <2>4 DEF FirstInv, FirstObject, Unwritten
  <2>5. ASSUME life' = firstLife' PROVE ~deleted'
    BY <2>1, <2>2, <2>5 DEF FirstInv, FirstObject
  <2> QED
    BY <2>3, <2>4, <2>5 DEF FirstObject, LastChangeIsSafe
<1>5. CASE Restart
  BY <1>5, RestartFirst DEF FirstInv
<1>6. ASSUME NEW save \in saves, SaveLands(save) PROVE FirstObject'
  <2>1. /\ alive' = alive /\ deleted' = deleted
    BY <1>6 DEF SaveLands, storeVars, roomVars
  <2>2. /\ life' = life /\ firstLife' = firstLife /\ deletes' = deletes
        /\ saves' \subseteq saves
    BY <1>6 DEF SaveLands, roomVars
  <2>3. firstLife <= life + 1 /\ firstLife # life + 1
    BY DEF FirstInv, FirstObject
  <2>4. (alive /\ life = firstLife) => lastVersion' <= snapVersion' /\ LastChangeIsSafe'
    BY <1>6, SaveLandsFirst
  <2> QED
    BY <2>1, <2>2, <2>3, <2>4 DEF FirstInv, FirstObject
<1>7. CASE DeleteLands
  <2>1. deletes > 0
    BY <1>7 DEF DeleteLands
  <2>2. life' = life /\ firstLife' = firstLife /\ alive' = alive
    BY <1>7 DEF DeleteLands, roomVars
  <2>3. firstLife <= life + 1 /\ firstLife # life + 1
    BY <2>1 DEF FirstInv, FirstObject
  <2>4. ~(alive /\ life = firstLife)
    BY <2>1 DEF FirstInv, FirstObject
  <2> QED
    BY <2>2, <2>3, <2>4 DEF FirstObject
<1>8. ~DeleteFails /\ \A save \in saves : ~SaveFails(save)
  BY DEF DeleteFails, SaveFails
<1> QED
  BY <1>2, <1>3, <1>4, <1>5, <1>6, <1>7, <1>8 DEF StoreNext

LEMMA HealthyInvariance == StoreSpec => [](OrderInv /\ (failed \/ FirstObject))
<1>1. StoreInit => failed \/ FirstObject
  BY InitFirst DEF FirstInv
<1>2. OrderInv /\ (failed \/ FirstObject) /\ [StoreNext]_snapVars => (failed \/ FirstObject)'
  <2> SUFFICES ASSUME OrderInv, failed \/ FirstObject, [StoreNext]_snapVars, ~failed'
               PROVE  FirstObject'
    OBVIOUS
  <2>1. CASE Restart
    BY <2>1, RestartFirst
  <2>2. CASE StoreNext /\ ~Restart
    <3>1. ~failed
      BY <2>2, Zenon DEF StoreNext, Persist, Teardown, JoinAgain, SaveLands, SaveFails,
                         DeleteLands, DeleteFails
    <3> QED
      BY <2>2, <3>1, NextFirst DEF FirstInv
  <2>3. CASE UNCHANGED snapVars
    <3>1. /\ alive' = alive /\ deleted' = deleted /\ failed' = failed
      BY <2>3, Zenon DEF snapVars, roomVars, storeVars
    <3>2. /\ life' = life /\ firstLife' = firstLife /\ changes' = changes
          /\ content' = content /\ snapVersion' = snapVersion /\ key' = key
          /\ lastVersion' = lastVersion /\ saves' = saves /\ deletes' = deletes
      BY <2>3 DEF snapVars, roomVars, storeVars
    <3>3. FirstObject
      BY <3>1, Zenon
    <3> QED
      BY <3>1, <3>2, <3>3 DEF FirstObject, LastChangeIsSafe
  <2> QED
    BY <2>1, <2>2, <2>3
<1> QED
  BY <1>1, <1>2, OrderInvariance, PTL DEF StoreSpec

\* A settled room is durable: as long as the process has made one object for the
\* room and no command has failed, the key holds the last change once no save is
\* under way, in whatever order the saves arrived.
THEOREM FirstObjectIsDurable == StoreSpec => []SettledIsDurable
<1>1. OrderInv /\ (failed \/ FirstObject) => SettledIsDurable
  <2> SUFFICES ASSUME FirstObject, alive, life = firstLife, saves = {}
               PROVE  key.content = content
    BY Zenon DEF SettledIsDurable
  <2> QED
    BY DEF FirstObject, LastChangeIsSafe
<1> QED
  BY <1>1, HealthyInvariance, PTL

\* Types, tombstones and the durability of a first object hold together for any
\* number of changes, lives and restarts, whatever Redis does with a command.
THEOREM StoreIsSound == StoreSpec => []StoreSound
<1>1. StoreSpec => []StoreTypeOK
  BY TypeCorrect
<1>2. StoreSpec => []DeletedStaysDeleted
  BY Tombstone
<1>3. StoreSpec => []SettledIsDurable
  BY FirstObjectIsDurable
<1> QED
  BY <1>1, <1>2, <1>3, PTL DEF StoreSound
=============================================================================
