------------------------------ MODULE RoomProofs ------------------------------
(***************************************************************************)
(* A room and the API that lists it, for every number of players, sockets   *)
(* and games.  Seats, player objects, sockets, grace timers and the kicked   *)
(* set agree (SeatInv); a rematch countdown stays within the results screen  *)
(* it was opened on (CountdownOnlyAtResults with TokensGiven); both, with    *)
(* the types, are the inductive invariant RoomInv.  From it follow the       *)
(* properties of the room, and, with what the API stores (RowsInv), those of *)
(* the membership rows.                                                      *)
(***************************************************************************)
EXTENDS RoomApi, FiniteSetTheorems, TLAPS

-----------------------------------------------------------------------------
(* Rosters.                                                                *)

\* Of a finite set of numbers every one has a rank, and every rank is somebody's.
LEMMA Ranks ==
    ASSUME NEW n \in Nat, NEW at \in SUBSET (1..n)
    PROVE  /\ IsFiniteSet(at) /\ Cardinality(at) \in 0..n
           /\ \A i \in at : Cardinality(at \cap 1..i) \in 1..Cardinality(at)
           /\ \A i, j \in at : Cardinality(at \cap 1..i) = Cardinality(at \cap 1..j) => i = j
           /\ \A k \in 1..Cardinality(at) : \E i \in at : Cardinality(at \cap 1..i) = k
  <1> DEFINE Rank(i) == Cardinality(at \cap 1..i)
  <1>1. IsFiniteSet(at) /\ Cardinality(at) \in 0..n
    <2>1. IsFiniteSet(1..n) /\ Cardinality(1..n) = n
      BY FS_Interval
    <2>2. IsFiniteSet(at) /\ Cardinality(at) <= n
      BY <2>1, FS_Subset
    <2> QED
      BY <2>2, FS_CardinalityType
  <1>2. ASSUME NEW i \in at PROVE Rank(i) \in 1..Cardinality(at)
    <2>1. at \cap 1..i \in SUBSET at /\ i \in at \cap 1..i
      OBVIOUS
    <2>2. /\ IsFiniteSet(at \cap 1..i) /\ Cardinality(at \cap 1..i) <= Cardinality(at)
      BY <1>1, <2>1, FS_Subset
    <2>3. Cardinality(at \cap 1..i) # 0
      BY <2>1, <2>2, FS_EmptySet
    <2>4. Cardinality(at \cap 1..i) \in Nat
      BY <2>2, FS_CardinalityType
    <2> QED
      BY <1>1, <2>2, <2>3, <2>4
  <1>3. ASSUME NEW i \in at, NEW j \in at, i < j PROVE Rank(i) # Rank(j)
    <2>1. at \cap 1..i \in SUBSET (at \cap 1..j) /\ j \in at \cap 1..j /\ j \notin at \cap 1..i
      BY <1>3
    <2>2. IsFiniteSet(at \cap 1..j)
      BY <1>1, FS_Intersection
    <2>3. Cardinality(at \cap 1..j) = Cardinality(at \cap 1..i) => at \cap 1..j = at \cap 1..i
      BY <2>1, <2>2, FS_Subset
    <2> QED
      BY <2>1, <2>3
  <1>4. \A i, j \in at : Rank(i) = Rank(j) => i = j
    <2> SUFFICES ASSUME NEW i \in at, NEW j \in at, Rank(i) = Rank(j) PROVE i = j
      OBVIOUS
    <2>1. i \in Int /\ j \in Int
      OBVIOUS
    <2>2. ~(i < j) /\ ~(j < i)
      BY <1>3
    <2> HIDE DEF Rank
    <2> QED
      BY <2>1, <2>2
  <1> DEFINE rank == [i \in at |-> Rank(i)]
             ranks == 1..Cardinality(at)
  <1>5. rank \in Injection(at, ranks)
    <2>1. rank \in [at -> ranks]
      BY <1>2
    <2>2. \A i, j \in at : rank[i] = rank[j] => i = j
      BY <1>4
    <2> HIDE DEF rank, ranks
    <2> QED
      BY <2>1, <2>2 DEF Injection, IsInjective
  <1>6. IsFiniteSet(ranks) /\ Cardinality(ranks) = Cardinality(at)
    BY <1>1, FS_Interval
  <1>7. rank \in Surjection(at, ranks)
    <2> HIDE DEF rank, ranks
    <2> QED
      BY <1>5, <1>6, FS_Injection
  <1>8. \A k \in ranks : \E i \in at : rank[i] = k
    <2> HIDE DEF rank, ranks
    <2> QED
      BY <1>7 DEF Surjection
  <1> QED
    BY <1>1, <1>2, <1>4, <1>8

\* What stays of a roster: it is no longer than the roster, has nothing the
\* roster has not, keeps everything that stays, and doubles nothing.
LEMMA KeptFacts ==
    ASSUME NEW X, NEW roster \in Seq(X), NEW stay
    PROVE  LET kept == Kept(roster, stay) IN
           /\ kept \in Seq(X) /\ Len(kept) <= Len(roster)
           /\ \A k \in DOMAIN kept : kept[k] \in stay /\ \E i \in DOMAIN roster : roster[i] = kept[k]
           /\ \A i \in DOMAIN roster : roster[i] \in stay => \E k \in DOMAIN kept : kept[k] = roster[i]
           /\ (\A i, j \in DOMAIN roster : roster[i] = roster[j] /\ roster[i] \in stay => i = j)
                => \A k, l \in DOMAIN kept : kept[k] = kept[l] => k = l
  <1> DEFINE at == {i \in DOMAIN roster : roster[i] \in stay}
             Rank(i) == Cardinality(at \cap 1..i)
             Pick(k) == CHOOSE i \in at : Rank(i) = k
             kept == [k \in 1..Cardinality(at) |-> roster[Pick(k)]]
  <1>1. Len(roster) \in Nat /\ DOMAIN roster = 1..Len(roster)
    OBVIOUS
  <1>2. at \in SUBSET (1..Len(roster))
    BY <1>1
  <1>3. /\ Cardinality(at) \in 0..Len(roster)
        /\ \A i \in at : Rank(i) \in 1..Cardinality(at)
        /\ \A i, j \in at : Rank(i) = Rank(j) => i = j
        /\ \A k \in 1..Cardinality(at) : \E i \in at : Rank(i) = k
    BY <1>1, <1>2, Ranks
  <1> HIDE DEF at, Rank
  <1>4. \A k \in 1..Cardinality(at) : Pick(k) \in at /\ Rank(Pick(k)) = k
    BY <1>3
  <1>5. \A i \in at : Pick(Rank(i)) = i
    BY <1>3, <1>4
  <1> HIDE DEF Pick
  <1>6. at \subseteq DOMAIN roster /\ \A i \in DOMAIN roster : i \in at <=> roster[i] \in stay
    BY DEF at
  <1>7. Kept(roster, stay) = kept
    BY DEF Kept, at, Rank, Pick
  <1>8. \A k \in 1..Cardinality(at) : kept[k] = roster[Pick(k)]
    OBVIOUS
  <1>9. kept \in Seq(X) /\ Len(kept) = Cardinality(at) /\ DOMAIN kept = 1..Cardinality(at)
    BY <1>1, <1>3, <1>4, <1>6
  <1> HIDE DEF kept
  <1>10. \A k \in DOMAIN kept : kept[k] \in stay /\ \E i \in DOMAIN roster : roster[i] = kept[k]
    BY <1>4, <1>6, <1>8, <1>9
  <1>11. \A i \in DOMAIN roster : roster[i] \in stay => \E k \in DOMAIN kept : kept[k] = roster[i]
    BY <1>3, <1>5, <1>6, <1>8, <1>9
  <1>12. ASSUME \A i, j \in DOMAIN roster : roster[i] = roster[j] /\ roster[i] \in stay => i = j
         PROVE  \A k, l \in DOMAIN kept : kept[k] = kept[l] => k = l
    BY <1>4, <1>6, <1>8, <1>9, <1>12
  <1> QED
    BY <1>1, <1>3, <1>7, <1>9, <1>10, <1>11, <1>12

-----------------------------------------------------------------------------
(* The seats.                                                              *)

seatVars == <<phase, players, obj, kickedSubs, socket, joins, leaveTimers>>

SeatTypes ==
    /\ phase \in {"lobby", "playing"}
    /\ players \in Seq(Objects \cup {Bot}) /\ Len(players) <= MaxPlayers
    /\ obj \in [Objects -> Object]
    /\ kickedSubs \in SUBSET Users
    /\ socket \in [Sockets -> 0..MaxJoins] /\ joins \in 0..MaxJoins
    /\ leaveTimers \in SUBSET (Objects \X Nat)

\* Objects are of joins that happened, and a seat's socket is one of them.
SeatsMade ==
    /\ \A o \in Humans(players) : o <= joins /\ obj[o].sub \in Users /\ obj[o].session \in 1..joins
    /\ \A o \in Objects : ~obj[o].disconnected => obj[o].sub \in Users
    /\ \A timer \in leaveTimers : obj[timer[1]].sub \in Users

NoBotsInLobby == phase = "lobby" => \A i \in DOMAIN players : players[i] # Bot

SeatInv ==
    /\ SeatTypes /\ RosterOK /\ LiveSeat /\ GraceRuns /\ KickedHasNoSeat
    /\ SeatsMade /\ NoBotsInLobby

\* Who sits at a place.
LEMMA AtSeat ==
    ASSUME SeatTypes
    PROVE  /\ DOMAIN players = 1..Len(players) /\ Len(players) \in 0..MaxPlayers
           /\ \A i \in DOMAIN players : players[i] \in Objects \cup {Bot}
           /\ \A o : o \in Humans(players) <=> o # Bot /\ \E i \in DOMAIN players : players[i] = o
           /\ Humans(players) \subseteq Objects
  BY DEF SeatTypes, Humans

\* A step that touches neither seats nor sockets keeps the agreement.
LEMMA SeatUnchanged ==
    ASSUME SeatInv, UNCHANGED seatVars
    PROVE  SeatInv'
  BY DEF seatVars, SeatInv, SeatTypes, RosterOK, LiveSeat, GraceRuns, KickedHasNoSeat, SeatsMade,
         NoBotsInLobby, Humans, Connected, SubsOf

\* Seats are positions, so nobody sits twice.
LEMMA OneSeat ==
    ASSUME SeatTypes, RosterOK
    PROVE  \A i, j \in DOMAIN players : players[i] = players[j] /\ players[i] # Bot => i = j
  <1> SUFFICES ASSUME NEW i \in DOMAIN players, NEW j \in DOMAIN players,
                      players[i] = players[j], players[i] # Bot
               PROVE  i = j
    OBVIOUS
  <1>1. obj[players[i]].index = i - 1 /\ obj[players[j]].index = j - 1
    BY DEF RosterOK
  <1>2. i \in Int /\ j \in Int
    BY AtSeat
  <1> QED
    BY <1>1, <1>2

\* What Compact does to the objects: seats are numbered, the first is ready,
\* and nothing else changes.
LEMMA CompactFacts ==
    ASSUME NEW roster \in Seq(Objects), Len(roster) <= MaxPlayers,
           \A i, j \in DOMAIN roster : roster[i] = roster[j] => i = j,
           NEW ob \in [Objects -> Object]
    PROVE  LET new == Compact(roster, ob) IN
           /\ new \in [Objects -> Object]
           /\ \A i \in DOMAIN roster : new[roster[i]].index = i - 1 /\ (i = 1 => new[roster[i]].ready)
           /\ \A o \in Objects : /\ new[o].sub = ob[o].sub /\ new[o].session = ob[o].session
                                 /\ new[o].disconnected = ob[o].disconnected
                                 /\ new[o].leaveToken = ob[o].leaveToken
  <1> DEFINE new == Compact(roster, ob)
  <1>1. DOMAIN roster = 1..Len(roster) /\ \A i \in DOMAIN roster : roster[i] \in Objects
    OBVIOUS
  <1>2. \A i \in DOMAIN roster : Position(roster, roster[i]) = i
    BY DEF Position
  <1>3. \A o \in Humans(roster) : /\ Position(roster, o) \in 1..Len(roster)
                                 /\ Position(roster, o) - 1 \in Seats
    <2> SUFFICES ASSUME NEW o \in Humans(roster)
                 PROVE  Position(roster, o) \in 1..Len(roster) /\ Position(roster, o) - 1 \in Seats
      OBVIOUS
    <2>1. PICK i \in DOMAIN roster : o = roster[i]
      BY DEF Humans
    <2>2. i \in 1..Len(roster) /\ Len(roster) \in Nat
      BY <1>1
    <2> QED
      BY <1>2, <2>1, <2>2, RoomAssumption DEF Seats
  <1>4. ASSUME NEW o \in Objects
        PROVE  /\ new[o] \in Object /\ new[o].sub = ob[o].sub /\ new[o].session = ob[o].session
               /\ new[o].disconnected = ob[o].disconnected /\ new[o].leaveToken = ob[o].leaveToken
               /\ o \in Humans(roster) => /\ new[o].index = Position(roster, o) - 1
                                          /\ Position(roster, o) = 1 => new[o].ready
    <2>1. ob[o] \in Object
      OBVIOUS
    <2>2. new[o] = IF o \in Humans(roster)
                   THEN [ob[o] EXCEPT !.index = Position(roster, o) - 1,
                                      !.ready = @ \/ Position(roster, o) = 1]
                   ELSE ob[o]
      BY DEF Compact
    <2> HIDE DEF new
    <2>3. CASE o \in Humans(roster)
      <3> DEFINE place == Position(roster, o) - 1
                 ready == ob[o].ready \/ Position(roster, o) = 1
      <3>1. place \in Seats /\ ready \in BOOLEAN
        BY <1>3, <2>3
      <3>2. new[o] = [ob[o] EXCEPT !.index = place, !.ready = ready]
        BY <2>2, <2>3
      <3>3. Position(roster, o) = 1 => ready
        OBVIOUS
      <3> HIDE DEF ready, place
      <3>4. /\ new[o] \in Object /\ new[o].sub = ob[o].sub /\ new[o].session = ob[o].session
            /\ new[o].disconnected = ob[o].disconnected /\ new[o].leaveToken = ob[o].leaveToken
            /\ new[o].index = place /\ new[o].ready = ready
        BY <2>1, <3>1, <3>2 DEF Object
      <3> QED
        BY <3>3, <3>4 DEF place
    <2>4. CASE o \notin Humans(roster)
      BY <2>1, <2>2, <2>4
    <2> QED
      BY <2>3, <2>4
  <1>5. new \in [Objects -> Object]
    <2>1. new = [o \in Objects |-> new[o]]
      BY DEF Compact
    <2> HIDE DEF new
    <2> QED
      BY <1>4, <2>1
  <1>6. \A i \in DOMAIN roster : roster[i] \in Humans(roster)
    BY <1>1 DEF Humans, Bot, Objects
  <1> HIDE DEF new
  <1>7. \A i \in DOMAIN roster : new[roster[i]].index = i - 1 /\ (i = 1 => new[roster[i]].ready)
    BY <1>1, <1>2, <1>4, <1>6
  <1> QED
    BY <1>4, <1>5, <1>7 DEF new

\* Seats are given up, those left are numbered again, and whoever was kicked
\* is not among them.
LEMMA SeatsGivenUp ==
    ASSUME SeatInv,
           phase' \in {"lobby", "playing"},
           players' \in Seq(Objects \cup {Bot}), Len(players') <= MaxPlayers,
           phase' = "playing" => Len(players') \in {0, MaxPlayers},
           phase' = "lobby" => \A i \in DOMAIN players' : players'[i] # Bot,
           \A i \in DOMAIN players' : players'[i] # Bot =>
               /\ players'[i] \in Humans(players)
               /\ obj'[players'[i]].index = i - 1
               /\ phase' = "lobby" /\ i = 1 => obj'[players'[i]].ready
               /\ obj'[players'[i]].disconnected = obj[players'[i]].disconnected
               /\ obj'[players'[i]].leaveToken = obj[players'[i]].leaveToken
               /\ phase' = "lobby" /\ obj[players'[i]].disconnected
                    => <<players'[i], obj[players'[i]].leaveToken>> \in leaveTimers'
               /\ obj[players'[i]].sub \notin kickedSubs',
           obj' \in [Objects -> Object],
           \A o \in Objects : /\ obj'[o].sub = obj[o].sub /\ obj'[o].session = obj[o].session
                              /\ ~obj'[o].disconnected => ~obj[o].disconnected,
           kickedSubs' \in SUBSET Users, leaveTimers' \in SUBSET leaveTimers,
           socket' = socket, joins' = joins
    PROVE  SeatInv'
  <1>1. SeatTypes
    BY DEF SeatInv
  <1>2. SeatTypes'
    BY <1>1 DEF SeatTypes
  <1>3. \A o : o \in Humans(players') <=> o # Bot /\ \E i \in DOMAIN players' : players'[i] = o
    BY DEF Humans
  <1>4. \A o \in Humans(players') :
          /\ o \in Humans(players) /\ o \in Objects
          /\ obj'[o].disconnected = obj[o].disconnected /\ obj'[o].leaveToken = obj[o].leaveToken
          /\ obj'[o].sub = obj[o].sub /\ obj'[o].session = obj[o].session
          /\ phase' = "lobby" /\ obj[o].disconnected => <<o, obj[o].leaveToken>> \in leaveTimers'
          /\ obj[o].sub \notin kickedSubs'
    BY <1>1, <1>3, AtSeat
  <1>5. RosterOK'
    <2>1. \A o, p \in Humans(players') : obj'[o].sub = obj'[p].sub => o = p
      <3>1. \A o, p \in Humans(players) : obj[o].sub = obj[p].sub => o = p
        BY DEF SeatInv, RosterOK
      <3> QED
        BY ONLY <1>4, <3>1
    <2>2. phase' = "lobby" /\ players' # <<>> => players'[1] # Bot /\ obj'[players'[1]].ready
      <3> SUFFICES ASSUME phase' = "lobby", players' # <<>>
                   PROVE  players'[1] # Bot /\ obj'[players'[1]].ready
        OBVIOUS
      <3>1. 1 \in DOMAIN players'
        OBVIOUS
      <3> QED
        BY <3>1
    <2> QED
      BY <2>1, <2>2 DEF RosterOK
  <1>6. LiveSeat'
    <2>1. \A o \in Humans(players) : obj[o].disconnected <=> socket[obj[o].session] # o
      BY DEF SeatInv, LiveSeat
    <2>2. \A o \in Humans(players') : obj'[o].disconnected <=> socket'[obj'[o].session] # o
      BY <1>4, <2>1
    <2> QED
      BY <2>2 DEF LiveSeat
  <1>7. GraceRuns'
    BY <1>4 DEF GraceRuns, Connected
  <1>8. KickedHasNoSeat'
    <2>1. \A o \in Humans(players') : obj'[o].sub \notin kickedSubs'
      BY <1>4
    <2> QED
      BY <2>1 DEF KickedHasNoSeat, SubsOf
  <1>9. SeatsMade'
    <2>1. \A o \in Humans(players') : o <= joins' /\ obj'[o].sub \in Users /\ obj'[o].session \in 1..joins'
      BY <1>4 DEF SeatInv, SeatsMade
    <2>2. \A o \in Objects : ~obj'[o].disconnected => obj'[o].sub \in Users
      BY DEF SeatInv, SeatsMade
    <2>3. \A timer \in leaveTimers' : timer[1] \in Objects /\ obj[timer[1]].sub \in Users
      BY <1>1 DEF SeatInv, SeatsMade, SeatTypes
    <2>4. \A timer \in leaveTimers' : obj'[timer[1]].sub \in Users
      BY <2>3
    <2> QED
      BY <2>1, <2>2, <2>4 DEF SeatsMade
  <1>10. NoBotsInLobby'
    BY DEF NoBotsInLobby
  <1> QED
    BY <1>2, <1>5, <1>6, <1>7, <1>8, <1>9, <1>10 DEF SeatInv

\* RemoveSeat, without the calls and the teardown.
Freed(o, ob) ==
    /\ players' = Kept(players, (Objects \cup {Bot}) \ {o})
    /\ obj' = Compact(players', ob)

\* A seat is freed in the lobby, by a leave, a kick or the end of the grace
\* period; the object that had it need not hold one anymore.
LEMMA RemoveSeatInv ==
    ASSUME SeatInv, phase = "lobby", phase' = phase,
           NEW o \in Objects, NEW ob \in [Objects -> Object],
           Freed(o, ob),
           ob[o].sub = obj[o].sub /\ ob[o].session = obj[o].session,
           ~ob[o].disconnected => ~obj[o].disconnected,
           \A p \in Objects \ {o} : ob[p] = obj[p],
           leaveTimers' \in SUBSET leaveTimers,
           \A timer \in leaveTimers \ leaveTimers' : timer[1] = o,
           kickedSubs' \in SUBSET Users,
           \A p \in Humans(players) \ {o} : obj[p].sub \notin kickedSubs',
           socket' = socket, joins' = joins
    PROVE  /\ SeatInv'
           /\ \A p \in Humans(players) \ {o} : p \in Humans(players')
           /\ obj'[o].disconnected = ob[o].disconnected
  <1> DEFINE stay == (Objects \cup {Bot}) \ {o}
             kept == Kept(players, stay)
  <1>1. SeatTypes /\ players \in Seq(Objects) /\ Len(players) <= MaxPlayers
    BY AtSeat DEF SeatInv, SeatTypes, NoBotsInLobby
  <1>2. \A i, j \in DOMAIN players : players[i] = players[j] => i = j
    BY <1>1, OneSeat DEF SeatInv, NoBotsInLobby
  <1>3. /\ kept \in Seq(Objects) /\ Len(kept) <= Len(players)
        /\ \A k \in DOMAIN kept : kept[k] \in stay /\ \E i \in DOMAIN players : players[i] = kept[k]
        /\ \A i \in DOMAIN players : players[i] \in stay => \E k \in DOMAIN kept : kept[k] = players[i]
        /\ \A k, l \in DOMAIN kept : kept[k] = kept[l] => k = l
    <2> HIDE DEF stay
    <2>1. \A i, j \in DOMAIN players : players[i] = players[j] /\ players[i] \in stay => i = j
      BY <1>2
    <2> QED
      BY ONLY <1>1, <2>1, KeptFacts
  <1> HIDE DEF kept
  <1>4. players' = kept /\ obj' = Compact(kept, ob)
    BY DEF Freed, kept
  <1>5. Len(kept) <= MaxPlayers /\ Len(kept) \in Nat
    BY <1>1, <1>3, AtSeat, RoomAssumption
  <1>6. /\ obj' \in [Objects -> Object]
        /\ \A i \in DOMAIN kept : obj'[kept[i]].index = i - 1 /\ (i = 1 => obj'[kept[i]].ready)
        /\ \A p \in Objects : /\ obj'[p].sub = ob[p].sub /\ obj'[p].session = ob[p].session
                              /\ obj'[p].disconnected = ob[p].disconnected
                              /\ obj'[p].leaveToken = ob[p].leaveToken
    BY <1>3, <1>4, <1>5, CompactFacts
  <1>7. \A k \in DOMAIN kept : /\ kept[k] # Bot /\ kept[k] \in Objects \ {o}
                               /\ kept[k] \in Humans(players) /\ ob[kept[k]] = obj[kept[k]]
    BY <1>1, <1>3, AtSeat DEF SeatInv, NoBotsInLobby
  <1>8. \A k \in DOMAIN kept : obj[kept[k]].disconnected => <<kept[k], obj[kept[k]].leaveToken>> \in leaveTimers'
    <2> SUFFICES ASSUME NEW k \in DOMAIN kept, obj[kept[k]].disconnected
                 PROVE  <<kept[k], obj[kept[k]].leaveToken>> \in leaveTimers'
      OBVIOUS
    <2>1. <<kept[k], obj[kept[k]].leaveToken>> \in leaveTimers
      BY <1>7 DEF SeatInv, GraceRuns, Connected
    <2> QED
      BY <1>7, <2>1
  <1>9. players' \in Seq(Objects \cup {Bot})
    BY <1>3, <1>4
  <1>10. \A p \in Objects : /\ obj'[p].sub = obj[p].sub /\ obj'[p].session = obj[p].session
                            /\ ~obj'[p].disconnected => ~obj[p].disconnected
    BY <1>6
  <1>11. SeatInv'
    BY <1>4, <1>5, <1>6, <1>7, <1>8, <1>9, <1>10, SeatsGivenUp
  <1>12. \A p \in Humans(players) \ {o} : p \in Humans(players')
    <2> SUFFICES ASSUME NEW p \in Humans(players) \ {o} PROVE p \in Humans(players')
      OBVIOUS
    <2>1. PICK i \in DOMAIN players : players[i] = p /\ p # Bot /\ p \in Objects
      BY <1>1, AtSeat
    <2>2. PICK k \in DOMAIN kept : kept[k] = p
      BY <1>3, <2>1
    <2> QED
      BY <1>4, <2>1, <2>2 DEF Humans
  <1> QED
    BY <1>4, <1>6, <1>11, <1>12 DEF kept

\* One object changes and the roster does not: it is attached to a socket,
\* marked as disconnected, or made ready.
LEMMA OneObjectChanges ==
    ASSUME SeatInv, phase' = phase, players' = players, kickedSubs' = kickedSubs,
           NEW o \in Objects,
           obj' \in [Objects -> Object],
           \A p \in Objects \ {o} : obj'[p] = obj[p],
           obj'[o].sub = obj[o].sub, obj'[o].index = obj[o].index,
           obj[o].index = 0 => obj'[o].ready = obj[o].ready,
           ~obj'[o].disconnected => obj[o].sub \in Users,
           leaveTimers' \in SUBSET (Objects \X Nat), leaveTimers \subseteq leaveTimers',
           \A timer \in leaveTimers' \ leaveTimers : timer[1] = o /\ obj[o].sub \in Users,
           joins' \in 0..MaxJoins, joins <= joins',
           socket' \in [Sockets -> 0..MaxJoins],
           o \in Humans(players) =>
               /\ obj'[o].session \in 1..joins'
               /\ obj'[o].disconnected <=> socket'[obj'[o].session] # o
               /\ phase = "lobby" /\ obj'[o].disconnected => <<o, obj'[o].leaveToken>> \in leaveTimers',
           \A p \in Humans(players) \ {o} :
               socket'[obj[p].session] = p <=> socket[obj[p].session] = p
    PROVE  SeatInv'
  <1>1. SeatTypes
    BY DEF SeatInv
  <1>2. SeatTypes'
    BY <1>1 DEF SeatTypes
  <1>3. Humans(players') = Humans(players) /\ Humans(players) \subseteq Objects
    BY <1>1, AtSeat
  <1>4. \A p \in Objects : obj'[p].sub = obj[p].sub /\ obj'[p].index = obj[p].index
    OBVIOUS
  <1>5. RosterOK'
    <2>1. \A i \in DOMAIN players : players[i] # Bot => players[i] \in Objects /\ obj'[players[i]].index = i - 1
      BY <1>1, <1>4, AtSeat DEF SeatInv, RosterOK
    <2>2. \A p, q \in Humans(players) : obj'[p].sub = obj'[q].sub => p = q
      <3>1. \A p, q \in Humans(players) : obj[p].sub = obj[q].sub => p = q
        BY DEF SeatInv, RosterOK
      <3> QED
        BY ONLY <1>3, <1>4, <3>1
    <2>3. phase = "lobby" /\ players # <<>> => players[1] # Bot /\ obj'[players[1]].ready
      <3> SUFFICES ASSUME phase = "lobby", players # <<>>
                   PROVE  players[1] # Bot /\ obj'[players[1]].ready
        OBVIOUS
      <3>1. 1 \in DOMAIN players /\ players[1] # Bot /\ obj[players[1]].ready
        BY <1>1 DEF SeatInv, RosterOK, SeatTypes
      <3>2. obj[players[1]].index = 0 /\ players[1] \in Objects
        BY <3>1, <1>1, AtSeat DEF SeatInv, RosterOK
      <3> QED
        BY <3>1, <3>2
    <2> QED
      BY <2>1, <2>2, <2>3, <1>3 DEF SeatInv, RosterOK
  <1>6. LiveSeat'
    <2>1. \A p \in Humans(players) : obj[p].disconnected <=> socket[obj[p].session] # p
      BY DEF SeatInv, LiveSeat
    <2>2. \A p \in Humans(players) : obj'[p].disconnected <=> socket'[obj'[p].session] # p
      BY <1>3, <2>1
    <2> QED
      BY <2>2, <1>3 DEF LiveSeat
  <1>7. GraceRuns'
    <2>1. phase = "lobby" => \A p \in Humans(players) :
              obj[p].disconnected => <<p, obj[p].leaveToken>> \in leaveTimers
      BY DEF SeatInv, GraceRuns, Connected
    <2>2. phase = "lobby" => \A p \in Humans(players) :
              obj'[p].disconnected => <<p, obj'[p].leaveToken>> \in leaveTimers'
      BY <1>3, <2>1
    <2> QED
      BY <2>2, <1>3 DEF GraceRuns, Connected
  <1>8. KickedHasNoSeat'
    <2>1. \A p \in Humans(players) : obj'[p].sub \notin kickedSubs
      BY <1>3, <1>4 DEF SeatInv, KickedHasNoSeat, SubsOf
    <2> QED
      BY <2>1, <1>3 DEF KickedHasNoSeat, SubsOf
  <1>9. SeatsMade'
    <2>1. \A p \in Humans(players) : p <= joins' /\ obj'[p].sub \in Users /\ obj'[p].session \in 1..joins'
      <3>1. \A p \in Humans(players) : p <= joins /\ obj[p].sub \in Users /\ obj[p].session \in 1..joins
        BY DEF SeatInv, SeatsMade
      <3>2. joins \in Int /\ joins' \in Int /\ \A p \in Humans(players) : p \in Int
        BY <1>1, <1>3 DEF SeatTypes, Objects
      <3> QED
        BY <1>3, <1>4, <3>1, <3>2
    <2>2. \A p \in Objects : ~obj'[p].disconnected => obj'[p].sub \in Users
      BY DEF SeatInv, SeatsMade
    <2>3. \A timer \in leaveTimers' : timer[1] \in Objects /\ obj[timer[1]].sub \in Users
      BY DEF SeatInv, SeatsMade
    <2> QED
      BY <1>3, <1>4, <2>1, <2>2, <2>3 DEF SeatsMade
  <1>10. NoBotsInLobby'
    BY DEF SeatInv, NoBotsInLobby
  <1> QED
    BY <1>2, <1>5, <1>6, <1>7, <1>8, <1>9, <1>10 DEF SeatInv

\* An object attached to a socket, marked, with a token.
Mark(r, s, d, t) ==
    [[[r EXCEPT !.session = s] EXCEPT !.disconnected = d] EXCEPT !.leaveToken = t]

\* Nothing else of the object changes.
LEMMA Marked ==
    ASSUME NEW r \in Object, NEW s \in 0..MaxJoins, NEW d \in BOOLEAN, NEW t \in Nat
    PROVE  /\ Mark(r, s, d, t) \in Object
           /\ Mark(r, s, d, t).sub = r.sub /\ Mark(r, s, d, t).index = r.index
           /\ Mark(r, s, d, t).ready = r.ready /\ Mark(r, s, d, t).session = s
           /\ Mark(r, s, d, t).disconnected = d /\ Mark(r, s, d, t).leaveToken = t
  <1> DEFINE r1 == [r EXCEPT !.session = s]
             r2 == [r1 EXCEPT !.disconnected = d]
             r3 == [r2 EXCEPT !.leaveToken = t]
  <1>1. r1 \in Object /\ r1.sub = r.sub /\ r1.index = r.index /\ r1.ready = r.ready /\ r1.session = s
    BY DEF Object
  <1> HIDE DEF r1
  <1>2. /\ r2 \in Object /\ r2.sub = r1.sub /\ r2.index = r1.index /\ r2.ready = r1.ready
        /\ r2.session = r1.session /\ r2.disconnected = d
    BY <1>1 DEF Object
  <1> HIDE DEF r2
  <1>3. /\ r3 \in Object /\ r3.sub = r2.sub /\ r3.index = r2.index /\ r3.ready = r2.ready
        /\ r3.session = r2.session /\ r3.disconnected = r2.disconnected /\ r3.leaveToken = t
    BY <1>2 DEF Object
  <1> HIDE DEF r3
  <1>4. r3 \in Object /\ r3.sub = r.sub /\ r3.index = r.index /\ r3.ready = r.ready
        /\ r3.session = s /\ r3.disconnected = d /\ r3.leaveToken = t
    BY <1>1, <1>2, <1>3
  <1> QED
    BY <1>4 DEF r1, r2, r3, Mark

\* A player comes back to the seat that was held, or replaces the socket.
LEMMA ReattachSeat ==
    ASSUME SeatInv, NEW u \in Users, Reattach(u)
    PROVE  SeatInv'
  <1>1. SeatTypes /\ MaxJoins \in Nat \ {0} /\ joins \in Nat /\ joins < MaxJoins
    BY RoomAssumption DEF SeatInv, SeatTypes, Reattach, MayConnect
  <1> DEFINE s == joins + 1
  <1>2. s \in Sockets /\ s \in Nat
    BY <1>1 DEF Sockets
  <1>3. PICK o \in Humans(players) :
          /\ obj[o].sub = u
          /\ joins' = s /\ socket' = [socket EXCEPT ![s] = o]
          /\ obj' = [obj EXCEPT ![o].session = s,
                                ![o].disconnected = FALSE,
                                ![o].leaveToken = IF phase = "lobby" THEN @ + 1 ELSE @]
    BY DEF Reattach, Open
  <1>4. o \in Objects /\ obj \in [Objects -> Object] /\ obj[o] \in Object
    BY <1>1, AtSeat DEF SeatTypes
  <1> DEFINE token == IF phase = "lobby" THEN obj[o].leaveToken + 1 ELSE obj[o].leaveToken
             new == Mark(obj[o], s, FALSE, token)
  <1>5. token \in Nat
    BY <1>4 DEF Object
  <1>6. obj' = [obj EXCEPT ![o] = new]
    BY <1>3, <1>4 DEF Object, Mark
  <1>7. /\ new \in Object /\ new.sub = obj[o].sub /\ new.index = obj[o].index
        /\ new.ready = obj[o].ready /\ new.session = s /\ ~new.disconnected
    <2> HIDE DEF token, s
    <2>1. s \in 0..MaxJoins /\ FALSE \in BOOLEAN
      BY <1>1, <1>2 DEF Sockets
    <2>2. \A d \in BOOLEAN :
             /\ Mark(obj[o], s, d, token) \in Object /\ Mark(obj[o], s, d, token).sub = obj[o].sub
             /\ Mark(obj[o], s, d, token).index = obj[o].index
             /\ Mark(obj[o], s, d, token).ready = obj[o].ready
             /\ Mark(obj[o], s, d, token).session = s /\ Mark(obj[o], s, d, token).disconnected = d
      BY <1>4, <1>5, <2>1, Marked
    <2>3. Mark(obj[o], s, FALSE, token).disconnected = FALSE
      BY <2>1, <2>2, Zenon
    <2>4. /\ new \in Object /\ new.sub = obj[o].sub /\ new.index = obj[o].index
          /\ new.ready = obj[o].ready /\ new.session = s
      BY <2>1, <2>2, Zenon
    <2> QED
      BY <2>3, <2>4
  <1> HIDE DEF new, token
  <1>8. /\ obj' \in [Objects -> Object] /\ obj'[o] = new
        /\ \A p \in Objects \ {o} : obj'[p] = obj[p]
    BY <1>4, <1>6, <1>7
  <1>9. /\ joins' \in 0..MaxJoins /\ joins <= joins' /\ s \in 1..joins'
        /\ socket' \in [Sockets -> 0..MaxJoins] /\ socket'[s] = o
        /\ \A t \in 1..joins : socket'[t] = socket[t]
    BY <1>1, <1>2, <1>3, <1>4 DEF SeatTypes, Sockets, Objects
  <1>10. \A p \in Humans(players) : obj[p].session \in 1..joins
    BY DEF SeatInv, SeatsMade
  <1>11. UNCHANGED <<phase, players, kickedSubs, leaveTimers>>
    BY DEF Reattach
  <1>12. leaveTimers' \in SUBSET (Objects \X Nat)
    BY <1>1, <1>11 DEF SeatTypes
  <1>13. /\ SeatInv
         /\ obj'[o].sub = obj[o].sub /\ obj'[o].index = obj[o].index
         /\ obj[o].index = 0 => obj'[o].ready = obj[o].ready
         /\ obj[o].sub \in Users
         /\ leaveTimers \subseteq leaveTimers' /\ leaveTimers' \ leaveTimers = {}
         /\ obj'[o].session \in 1..joins' /\ ~obj'[o].disconnected /\ socket'[obj'[o].session] = o
         /\ \A p \in Humans(players) \ {o} : socket'[obj[p].session] = p <=> socket[obj[p].session] = p
    <2> HIDE DEF s
    <2> QED
      BY <1>3, <1>7, <1>8, <1>9, <1>10, <1>11
  <1> HIDE DEF s
  <1> QED
    BY ONLY <1>4, <1>8, <1>9, <1>11, <1>12, <1>13, OneObjectChanges

\* The identity of a socket that closes loses nothing but, in time, the seat:
\* the object the socket was attached to is all that changes.
LEMMA CloseFacts ==
    ASSUME SeatInv, NEW s \in Sockets, socket[s] # 0, Close(s)
    PROVE  /\ socket[s] \in Objects
           /\ socket' \in [Sockets -> 0..MaxJoins] /\ socket'[s] = 0
           /\ \A t \in Sockets \ {s} : socket'[t] = socket[t]
           /\ \A p \in Objects \ {socket[s]}, t \in Sockets : socket'[t] = p <=> socket[t] = p
           /\ \A p \in Humans(players) : obj[p].session \in Sockets
  <1>1. SeatTypes /\ MaxJoins \in Nat
    BY RoomAssumption DEF SeatInv
  <1>2. socket[s] \in Objects
    BY <1>1 DEF SeatTypes, Objects
  <1>3. /\ socket' \in [Sockets -> 0..MaxJoins] /\ socket'[s] = 0
        /\ \A t \in Sockets \ {s} : socket'[t] = socket[t]
    BY <1>1 DEF Close, SeatTypes
  <1>4. \A p \in Objects \ {socket[s]}, t \in Sockets : socket'[t] = p <=> socket[t] = p
    BY <1>3 DEF Objects
  <1>5. \A p \in Humans(players) : obj[p].session \in Sockets
    <2>1. \A p \in Humans(players) : obj[p].session \in 1..joins
      BY DEF SeatInv, SeatsMade
    <2> QED
      BY <1>1, <2>1 DEF SeatTypes, Sockets
  <1> QED
    BY <1>2, <1>3, <1>4, <1>5

\* The close of a socket that its object has moved on from changes no seat.
LEMMA DropStaleSeat ==
    ASSUME SeatInv, NEW s \in Sockets, DropStale(s)
    PROVE  SeatInv'
  <1> DEFINE o == socket[s]
  <1>1. /\ o # 0 /\ Close(s) /\ (obj[o].session # s \/ obj[o].disconnected)
        /\ UNCHANGED <<phase, players, obj, kickedSubs, joins, leaveTimers>>
    BY DEF DropStale, Current
  <1>2. /\ o \in Objects /\ socket' \in [Sockets -> 0..MaxJoins] /\ socket'[s] = 0
        /\ \A t \in Sockets \ {s} : socket'[t] = socket[t]
        /\ \A p \in Objects \ {o}, t \in Sockets : socket'[t] = p <=> socket[t] = p
        /\ \A p \in Humans(players) : obj[p].session \in Sockets
    BY <1>1, CloseFacts
  <1>3. SeatTypes
    BY DEF SeatInv
  <1>4. o \in Humans(players) =>
          /\ obj[o].session \in 1..joins
          /\ obj[o].disconnected <=> socket'[obj[o].session] # o
          /\ phase = "lobby" /\ obj[o].disconnected => <<o, obj[o].leaveToken>> \in leaveTimers
    <2> SUFFICES ASSUME o \in Humans(players)
                 PROVE  /\ obj[o].session \in 1..joins
                        /\ obj[o].disconnected <=> socket'[obj[o].session] # o
                        /\ phase = "lobby" /\ obj[o].disconnected => <<o, obj[o].leaveToken>> \in leaveTimers
      OBVIOUS
    <2>1. obj[o].disconnected <=> socket[obj[o].session] # o
      BY DEF SeatInv, LiveSeat
    <2>2. obj[o].session # s
      BY <1>1, <2>1
    <2>3. socket'[obj[o].session] = socket[obj[o].session]
      BY <1>2, <2>2
    <2> QED
      BY <2>1, <2>3 DEF SeatInv, SeatsMade, GraceRuns, Connected
  <1>5. ~obj[o].disconnected => obj[o].sub \in Users
    BY <1>2 DEF SeatInv, SeatsMade
  <1>6. /\ SeatInv /\ obj' \in [Objects -> Object] /\ \A p \in Objects \ {o} : obj'[p] = obj[p]
        /\ obj'[o] = obj[o] /\ leaveTimers' \in SUBSET (Objects \X Nat)
        /\ leaveTimers \subseteq leaveTimers' /\ leaveTimers' \ leaveTimers = {}
        /\ joins' \in 0..MaxJoins /\ joins <= joins'
        /\ \A p \in Humans(players) \ {o} : socket'[obj[p].session] = p <=> socket[obj[p].session] = p
    <2>1. Humans(players) \subseteq Objects
      BY <1>3, AtSeat
    <2> QED
      BY <1>1, <1>2, <1>3, <2>1 DEF SeatTypes
  <1> HIDE DEF o
  <1> QED
    BY ONLY <1>1, <1>2, <1>4, <1>5, <1>6, OneObjectChanges

\* A socket drops in the lobby: the seat is held, and its timer runs.
LEMMA DropInLobbySeat ==
    ASSUME SeatInv, NEW s \in Sockets, DropInLobby(s)
    PROVE  SeatInv'
  <1> DEFINE o == socket[s]
  <1>1. /\ o # 0 /\ Close(s) /\ obj[o].session = s /\ ~obj[o].disconnected
        /\ UNCHANGED <<phase, players, kickedSubs, joins>>
        /\ obj' = [obj EXCEPT ![o].disconnected = TRUE, ![o].leaveToken = @ + 1]
        /\ leaveTimers' = leaveTimers \cup {<<o, obj[o].leaveToken + 1>>}
    BY DEF DropInLobby, Current, HoldSeat
  <1>2. /\ o \in Objects /\ socket' \in [Sockets -> 0..MaxJoins] /\ socket'[s] = 0
        /\ \A p \in Objects \ {o}, t \in Sockets : socket'[t] = p <=> socket[t] = p
        /\ \A p \in Humans(players) : obj[p].session \in Sockets
    BY <1>1, CloseFacts
  <1>3. SeatTypes /\ Humans(players) \subseteq Objects
    BY AtSeat DEF SeatInv
  <1> DEFINE token == obj[o].leaveToken + 1
             new == [[obj[o] EXCEPT !.disconnected = TRUE] EXCEPT !.leaveToken = token]
  <1>4. obj \in [Objects -> Object] /\ obj[o] \in Object /\ token \in Nat
    BY <1>2, <1>3 DEF SeatTypes, Object
  <1>5. obj' = [obj EXCEPT ![o] = new]
    BY <1>1, <1>2, <1>4 DEF Object
  <1>6. /\ new \in Object /\ new.sub = obj[o].sub /\ new.index = obj[o].index
        /\ new.ready = obj[o].ready /\ new.session = obj[o].session
        /\ new.disconnected /\ new.leaveToken = token
    <2> HIDE DEF token, o
    <2> QED
      BY <1>4 DEF Object
  <1> HIDE DEF new
  <1>7. /\ obj' \in [Objects -> Object] /\ obj'[o] = new
        /\ \A p \in Objects \ {o} : obj'[p] = obj[p]
    BY <1>2, <1>4, <1>5, <1>6
  <1>8. obj[o].sub \in Users
    BY <1>1, <1>2 DEF SeatInv, SeatsMade
  <1>9. /\ leaveTimers' \in SUBSET (Objects \X Nat) /\ leaveTimers \subseteq leaveTimers'
        /\ \A timer \in leaveTimers' \ leaveTimers : timer[1] = o /\ obj[o].sub \in Users
        /\ <<o, obj'[o].leaveToken>> \in leaveTimers'
    BY <1>1, <1>2, <1>3, <1>4, <1>6, <1>7, <1>8 DEF SeatTypes
  <1>10. /\ SeatInv /\ joins' \in 0..MaxJoins /\ joins <= joins' /\ joins' = joins
         /\ obj'[o].sub = obj[o].sub /\ obj'[o].index = obj[o].index
         /\ obj'[o].ready = obj[o].ready /\ obj'[o].session = s /\ obj'[o].disconnected
         /\ socket'[s] # o
         /\ \A p \in Humans(players) \ {o} : socket'[obj[p].session] = p <=> socket[obj[p].session] = p
    BY <1>1, <1>2, <1>3, <1>6, <1>7 DEF SeatTypes
  <1>11. o \in Humans(players) => obj'[o].session \in 1..joins'
    BY <1>1, <1>10 DEF SeatInv, SeatsMade
  <1>12. UNCHANGED <<phase, players, kickedSubs>>
    BY <1>1
  <1> HIDE DEF o, token
  <1> QED
    BY ONLY <1>2, <1>7, <1>8, <1>9, <1>10, <1>11, <1>12, OneObjectChanges

\* A socket drops in a game: the seat is kept.
LEMMA DropInGameSeat ==
    ASSUME SeatInv, NEW s \in Sockets, DropInGame(s)
    PROVE  SeatInv'
  <1> DEFINE o == socket[s]
  <1>1. /\ o # 0 /\ Close(s) /\ obj[o].session = s /\ ~obj[o].disconnected
        /\ UNCHANGED <<phase, players, kickedSubs, joins, leaveTimers>> /\ phase = "playing"
        /\ obj' = [obj EXCEPT ![o].disconnected = TRUE]
    BY DEF DropInGame, Current
  <1>2. /\ o \in Objects /\ socket' \in [Sockets -> 0..MaxJoins] /\ socket'[s] = 0
        /\ \A p \in Objects \ {o}, t \in Sockets : socket'[t] = p <=> socket[t] = p
        /\ \A p \in Humans(players) : obj[p].session \in Sockets
    BY <1>1, CloseFacts
  <1>3. SeatTypes /\ Humans(players) \subseteq Objects
    BY AtSeat DEF SeatInv
  <1> DEFINE new == [obj[o] EXCEPT !.disconnected = TRUE]
  <1>4. obj \in [Objects -> Object] /\ obj[o] \in Object
    BY <1>2, <1>3 DEF SeatTypes
  <1>5. obj' = [obj EXCEPT ![o] = new]
    BY <1>1, <1>2, <1>4
  <1>6. /\ new \in Object /\ new.sub = obj[o].sub /\ new.index = obj[o].index
        /\ new.ready = obj[o].ready /\ new.session = obj[o].session /\ new.disconnected
    <2> HIDE DEF o
    <2> QED
      BY <1>4 DEF Object
  <1> HIDE DEF new
  <1>7. /\ obj' \in [Objects -> Object] /\ obj'[o] = new
        /\ \A p \in Objects \ {o} : obj'[p] = obj[p]
    BY <1>2, <1>4, <1>5, <1>6
  <1>8. /\ leaveTimers' \in SUBSET (Objects \X Nat) /\ leaveTimers \subseteq leaveTimers'
        /\ leaveTimers' \ leaveTimers = {} /\ phase # "lobby"
    BY <1>1, <1>3 DEF SeatTypes
  <1>9. /\ SeatInv /\ joins' \in 0..MaxJoins /\ joins <= joins' /\ joins' = joins
        /\ obj'[o].sub = obj[o].sub /\ obj'[o].index = obj[o].index
        /\ obj'[o].ready = obj[o].ready /\ obj'[o].session = s /\ obj'[o].disconnected
        /\ socket'[s] # o
        /\ \A p \in Humans(players) \ {o} : socket'[obj[p].session] = p <=> socket[obj[p].session] = p
    BY <1>1, <1>2, <1>3, <1>6, <1>7 DEF SeatTypes
  <1>10. o \in Humans(players) => obj'[o].session \in 1..joins'
    BY <1>1, <1>9 DEF SeatInv, SeatsMade
  <1>11. UNCHANGED <<phase, players, kickedSubs>>
    BY <1>1
  <1> HIDE DEF o
  <1> QED
    BY ONLY <1>2, <1>7, <1>8, <1>9, <1>10, <1>11, OneObjectChanges

\* A player says to be ready, or not: never the host, who is.
LEMMA SetReadySeat ==
    ASSUME SeatInv, NEW o \in Objects, NEW r \in BOOLEAN, SetReady(o, r)
    PROVE  SeatInv'
  <1>1. /\ phase = "lobby" /\ obj[o].index # 0 /\ obj' = [obj EXCEPT ![o].ready = r]
        /\ UNCHANGED <<phase, players, kickedSubs, socket, joins, leaveTimers>>
    BY DEF SetReady, netVars
  <1>2. SeatTypes
    BY DEF SeatInv
  <1> DEFINE new == [obj[o] EXCEPT !.ready = r]
  <1>3. obj \in [Objects -> Object] /\ obj[o] \in Object
    BY <1>2 DEF SeatTypes
  <1>4. obj' = [obj EXCEPT ![o] = new]
    BY <1>1, <1>3
  <1>5. /\ new \in Object /\ new.sub = obj[o].sub /\ new.index = obj[o].index
        /\ new.session = obj[o].session /\ new.disconnected = obj[o].disconnected
        /\ new.leaveToken = obj[o].leaveToken
    BY <1>3 DEF Object
  <1> HIDE DEF new
  <1>6. /\ obj' \in [Objects -> Object] /\ obj'[o] = new
        /\ \A p \in Objects \ {o} : obj'[p] = obj[p]
    BY <1>3, <1>4, <1>5
  <1>7. /\ obj'[o].sub = obj[o].sub /\ obj'[o].index = obj[o].index /\ obj[o].index # 0
        /\ obj'[o].session = obj[o].session /\ obj'[o].disconnected = obj[o].disconnected
        /\ obj'[o].leaveToken = obj[o].leaveToken
    BY <1>1, <1>5, <1>6
  <1>8. /\ leaveTimers' \in SUBSET (Objects \X Nat) /\ leaveTimers \subseteq leaveTimers'
        /\ leaveTimers' \ leaveTimers = {}
        /\ joins' \in 0..MaxJoins /\ joins <= joins' /\ socket' \in [Sockets -> 0..MaxJoins]
    BY <1>1, <1>2 DEF SeatTypes
  <1>9. o \in Humans(players) =>
          /\ obj[o].session \in 1..joins
          /\ obj[o].disconnected <=> socket[obj[o].session] # o
          /\ phase = "lobby" /\ obj[o].disconnected => <<o, obj[o].leaveToken>> \in leaveTimers
    BY DEF SeatInv, SeatsMade, LiveSeat, GraceRuns, Connected
  <1>10. SeatInv /\ (~obj'[o].disconnected => obj[o].sub \in Users)
    BY <1>7 DEF SeatInv, SeatsMade
  <1> QED
    BY ONLY <1>1, <1>6, <1>7, <1>8, <1>9, <1>10, OneObjectChanges

Newcomer(u, r, n, s) ==
    [NoObject EXCEPT !.sub = u, !.ready = r, !.disconnected = FALSE, !.index = n, !.session = s]

\* The object a join makes.
LEMMA NewcomerFacts ==
    ASSUME NEW u \in Users, NEW r \in BOOLEAN, NEW n \in Seats, NEW s \in 0..MaxJoins
    PROVE  /\ Newcomer(u, r, n, s) \in Object
           /\ Newcomer(u, r, n, s).sub = u /\ Newcomer(u, r, n, s).index = n
           /\ Newcomer(u, r, n, s).session = s /\ Newcomer(u, r, n, s).ready = r
           /\ Newcomer(u, r, n, s).disconnected = FALSE
  <1> DEFINE r1 == [NoObject EXCEPT !.sub = u]
             r2 == [r1 EXCEPT !.ready = r]
             r3 == [r2 EXCEPT !.disconnected = FALSE]
             r4 == [r3 EXCEPT !.index = n]
             r5 == [r4 EXCEPT !.session = s]
  <1>1. NoObject \in Object
    BY RoomAssumption DEF NoObject, Object, Seats
  <1>2. r1 \in Object /\ r1.sub = u
    BY <1>1 DEF Object
  <1> HIDE DEF r1
  <1>3. r2 \in Object /\ r2.sub = u /\ r2.ready = r
    BY <1>2 DEF Object
  <1> HIDE DEF r2
  <1>4. r3 \in Object /\ r3.sub = u /\ r3.ready = r /\ r3.disconnected = FALSE
    BY <1>3 DEF Object
  <1> HIDE DEF r3
  <1>5. r4 \in Object /\ r4.sub = u /\ r4.ready = r /\ r4.disconnected = FALSE /\ r4.index = n
    BY <1>4 DEF Object
  <1> HIDE DEF r4
  <1>6. /\ r5 \in Object /\ r5.sub = u /\ r5.ready = r /\ r5.disconnected = FALSE /\ r5.index = n
        /\ r5.session = s
    BY <1>5 DEF Object
  <1>7. Newcomer(u, r, n, s) = r5
    BY DEF Newcomer, r1, r2, r3, r4
  <1> HIDE DEF r5
  <1> QED
    BY <1>6, <1>7

\* A newcomer takes the seat after the last one.
LEMMA TakeSeatSeat ==
    ASSUME SeatInv, NEW u \in Users, TakeSeat(u)
    PROVE  SeatInv'
  <1>1. SeatTypes /\ MaxJoins \in Nat \ {0} /\ joins \in Nat /\ joins < MaxJoins
    BY RoomAssumption DEF SeatInv, SeatTypes, TakeSeat, MayConnect
  <1> DEFINE s == joins + 1
             n == Len(players)
             first == players = <<>>
             new == Newcomer(u, first, n, s)
  <1>2. s \in Sockets /\ s \in Objects /\ s \in Nat /\ s # Bot
    BY <1>1 DEF Sockets, Objects, Bot
  <1>3. /\ phase = "lobby" /\ u \notin SubsOf(Humans(players)) /\ u \notin kickedSubs /\ n < MaxPlayers
        /\ joins' = s /\ socket' = [socket EXCEPT ![s] = s]
        /\ players' = Append(players, s)
        /\ obj' = [obj EXCEPT ![s] = new]
        /\ UNCHANGED <<phase, kickedSubs, leaveTimers>>
    BY DEF TakeSeat, Welcome, Open, Newcomer
  <1>4. /\ n \in Seats /\ s \in 0..MaxJoins /\ first \in BOOLEAN /\ n \in Nat
        /\ u \in Users
    BY <1>1, <1>2, <1>3, RoomAssumption DEF Seats, Sockets, SeatTypes
  <1>5. /\ new \in Object /\ new.sub = u /\ new.index = n /\ new.session = s
        /\ (players = <<>> => new.ready) /\ ~new.disconnected
    <2> HIDE DEF s, n, first
    <2>0. \A v \in Users, r \in BOOLEAN, m \in Seats, t \in 0..MaxJoins :
             /\ Newcomer(v, r, m, t) \in Object
             /\ Newcomer(v, r, m, t).sub = v /\ Newcomer(v, r, m, t).index = m
             /\ Newcomer(v, r, m, t).session = t /\ Newcomer(v, r, m, t).ready = r
             /\ Newcomer(v, r, m, t).disconnected = FALSE
      BY NewcomerFacts
    <2>1. \A r \in BOOLEAN :
             /\ Newcomer(u, r, n, s) \in Object
             /\ Newcomer(u, r, n, s).sub = u /\ Newcomer(u, r, n, s).index = n
             /\ Newcomer(u, r, n, s).session = s /\ Newcomer(u, r, n, s).ready = r
             /\ Newcomer(u, r, n, s).disconnected = FALSE
      BY ONLY <1>4, <2>0
    <2>2. new \in Object /\ new.sub = u /\ new.index = n /\ new.session = s
      BY <1>4, <2>1, Zenon
    <2>3. new.ready = first /\ new.disconnected = FALSE
      BY <1>4, <2>1, Zenon
    <2> QED
      BY <2>2, <2>3 DEF first
  <1> HIDE DEF new
  <1>6. /\ obj' \in [Objects -> Object] /\ obj'[s] = new
        /\ \A p \in Objects \ {s} : obj'[p] = obj[p]
    BY <1>1, <1>2, <1>3, <1>5 DEF SeatTypes
  <1>7. /\ joins' \in 0..MaxJoins /\ s \in 1..joins' /\ joins <= joins'
        /\ socket' \in [Sockets -> 0..MaxJoins] /\ socket'[s] = s
        /\ \A t \in 1..joins : socket'[t] = socket[t] /\ t \in 1..joins'
    BY <1>1, <1>2, <1>3, <1>4 DEF SeatTypes, Sockets
  <1>8. /\ DOMAIN players' = 1..(n + 1) /\ players'[n + 1] = s
        /\ \A i \in DOMAIN players : i \in 1..n /\ players'[i] = players[i]
        /\ \A i \in DOMAIN players' : i = n + 1 \/ i \in DOMAIN players
        /\ players' \in Seq(Objects \cup {Bot}) /\ Len(players') = n + 1
    BY <1>1, <1>2, <1>3 DEF SeatTypes
  <1>9. \A o \in Humans(players) : /\ o \in Objects \ {s} /\ o <= joins /\ obj[o].sub \in Users
                                   /\ obj[o].session \in 1..joins
    <2>1. \A o \in Humans(players) : o \in Objects /\ o <= joins /\ obj[o].sub \in Users /\ obj[o].session \in 1..joins
      BY <1>1, AtSeat DEF SeatInv, SeatsMade
    <2> QED
      BY <1>1, <2>1 DEF Objects
  <1>10. \A i \in DOMAIN players : players[i] \in Humans(players) /\ players[i] # Bot
    BY <1>3, <1>1, AtSeat DEF SeatInv, NoBotsInLobby
  <1>11. \A o : o \in Humans(players') <=> o \in Humans(players) \/ o = s
    BY <1>2, <1>4, <1>8 DEF Humans
  <1> HIDE DEF s, n
  <1>12. SeatTypes'
    BY <1>1, <1>3, <1>4, <1>6, <1>7, <1>8, RoomAssumption DEF SeatTypes
  <1>13. RosterOK'
    <2>1. \A i \in DOMAIN players' : obj'[players'[i]].index = i - 1
      <3>1. \A i \in DOMAIN players : obj[players[i]].index = i - 1
        BY <1>10 DEF SeatInv, RosterOK
      <3> QED
        BY <1>4, <1>5, <1>6, <1>8, <1>9, <1>10, <3>1
    <2>2. \A o, p \in Humans(players') : obj'[o].sub = obj'[p].sub => o = p
      <3>1. \A o, p \in Humans(players) : obj[o].sub = obj[p].sub => o = p
        BY DEF SeatInv, RosterOK
      <3>2. \A o \in Humans(players) : obj[o].sub # u
        BY <1>3 DEF SubsOf
      <3>3. \A o \in Humans(players') : (o = s /\ obj'[o].sub = u)
                                         \/ (o \in Humans(players) /\ obj'[o].sub = obj[o].sub)
        BY <1>5, <1>6, <1>9, <1>11
      <3> QED
        BY ONLY <3>1, <3>2, <3>3
    <2>3. players'[1] # Bot /\ obj'[players'[1]].ready
      <3>1. CASE players = <<>>
        BY <1>2, <1>5, <1>6, <1>8, <3>1 DEF n
      <3>2. CASE players # <<>>
        <4>1. 1 \in DOMAIN players /\ obj[players[1]].ready
          BY <1>1, <1>3, <3>2 DEF SeatInv, RosterOK, SeatTypes
        <4> QED
          BY <4>1, <1>6, <1>8, <1>9, <1>10
      <3> QED
        BY <3>1, <3>2
    <2> QED
      BY <1>3, <2>1, <2>2, <2>3 DEF RosterOK
  <1>14. LiveSeat'
    <2>1. \A o \in Humans(players) : obj[o].disconnected <=> socket[obj[o].session] # o
      BY DEF SeatInv, LiveSeat
    <2>2. \A o \in Humans(players') : obj'[o].disconnected <=> socket'[obj'[o].session] # o
      BY <1>5, <1>6, <1>7, <1>9, <1>11, <2>1
    <2> QED
      BY <2>2 DEF LiveSeat
  <1>15. GraceRuns'
    <2>1. \A o \in Humans(players) : obj[o].disconnected => <<o, obj[o].leaveToken>> \in leaveTimers
      BY <1>3 DEF SeatInv, GraceRuns, Connected
    <2>2. \A o \in Humans(players') : obj'[o].disconnected => <<o, obj'[o].leaveToken>> \in leaveTimers'
      BY <1>3, <1>5, <1>6, <1>9, <1>11, <2>1
    <2> QED
      BY <2>2 DEF GraceRuns, Connected
  <1>16. KickedHasNoSeat'
    <2>1. \A o \in Humans(players') : obj'[o].sub \notin kickedSubs'
      BY <1>3, <1>5, <1>6, <1>9, <1>11 DEF SeatInv, KickedHasNoSeat, SubsOf
    <2> QED
      BY <2>1 DEF KickedHasNoSeat, SubsOf
  <1>17. SeatsMade'
    <2>1. \A o \in Humans(players') : o <= joins' /\ obj'[o].sub \in Users /\ obj'[o].session \in 1..joins'
      <3>1. joins \in Int /\ joins' \in Int /\ \A o \in Humans(players) : o \in Int
        BY <1>1, <1>7, <1>9 DEF Objects
      <3>2. s <= joins'
        BY <1>7, <3>1
      <3> QED
        BY <1>5, <1>6, <1>7, <1>9, <1>11, <3>1, <3>2
    <2>2. \A o \in Objects : ~obj'[o].disconnected => obj'[o].sub \in Users
      BY <1>5, <1>6 DEF SeatInv, SeatsMade
    <2>3. \A timer \in leaveTimers' : timer[1] \in Objects /\ obj[timer[1]].sub \in Users
      BY <1>1, <1>3 DEF SeatInv, SeatsMade, SeatTypes
    <2>4. \A timer \in leaveTimers' : obj'[timer[1]].sub \in Users
      BY <1>5, <1>6, <2>3
    <2> QED
      BY <2>1, <2>2, <2>4 DEF SeatsMade
  <1>18. NoBotsInLobby'
    BY <1>2, <1>8, <1>10 DEF NoBotsInLobby
  <1> QED
    BY <1>12, <1>13, <1>14, <1>15, <1>16, <1>17, <1>18 DEF SeatInv

\* A player leaves.
LEMMA LeaveSeat ==
    ASSUME SeatInv, NEW o \in Objects, Leave(o)
    PROVE  /\ SeatInv' /\ \A p \in Humans(players) \ {o} : p \in Humans(players')
           /\ obj'[o].disconnected /\ phase = "lobby" /\ o \in Humans(players)
  <1> DEFINE ob == [obj EXCEPT ![o].disconnected = TRUE, ![o].leaveToken = @ + 1]
             token == obj[o].leaveToken + 1
             new == [[obj[o] EXCEPT !.disconnected = TRUE] EXCEPT !.leaveToken = token]
  <1>1. /\ phase = "lobby" /\ o \in Humans(players) /\ Freed(o, ob)
        /\ UNCHANGED <<phase, kickedSubs, socket, joins, leaveTimers>>
    BY DEF Leave, Seated, RemoveSeat, Freed, netVars
  <1>2. obj \in [Objects -> Object] /\ obj[o] \in Object /\ token \in Nat /\ kickedSubs \in SUBSET Users
    BY DEF SeatInv, SeatTypes, Object
  <1>3. ob = [obj EXCEPT ![o] = new]
    BY <1>2 DEF Object
  <1>4. /\ new \in Object /\ new.sub = obj[o].sub /\ new.session = obj[o].session /\ new.disconnected
    <2> HIDE DEF token
    <2> QED
      BY <1>2 DEF Object
  <1> HIDE DEF new, ob
  <1>5. /\ ob \in [Objects -> Object] /\ ob[o] = new
        /\ \A p \in Objects \ {o} : ob[p] = obj[p]
    BY <1>2, <1>3, <1>4
  <1>6. \A p \in Humans(players) : obj[p].sub \notin kickedSubs'
    BY <1>1 DEF SeatInv, KickedHasNoSeat, SubsOf
  <1>7. /\ SeatInv /\ ob[o].sub = obj[o].sub /\ ob[o].session = obj[o].session /\ ob[o].disconnected
        /\ leaveTimers' \in SUBSET leaveTimers /\ leaveTimers \ leaveTimers' = {}
        /\ kickedSubs' \in SUBSET Users
    BY <1>1, <1>2, <1>4, <1>5
  <1> QED
    BY ONLY <1>1, <1>5, <1>6, <1>7, RemoveSeatInv

\* The host throws a player out.
LEMMA KickSeat ==
    ASSUME SeatInv, NEW h \in Objects, NEW o \in Objects, Kick(h, o)
    PROVE  /\ SeatInv' /\ \A p \in Humans(players) \ {o} : p \in Humans(players')
           /\ obj'[o].disconnected /\ phase = "lobby" /\ o \in Humans(players)
  <1> DEFINE ob == [obj EXCEPT ![o].disconnected = TRUE, ![o].leaveToken = @ + 1]
             token == obj[o].leaveToken + 1
             new == [[obj[o] EXCEPT !.disconnected = TRUE] EXCEPT !.leaveToken = token]
  <1>1. /\ phase = "lobby" /\ o \in Humans(players) /\ Freed(o, ob)
        /\ kickedSubs' = kickedSubs \cup {obj[o].sub}
        /\ UNCHANGED <<phase, socket, joins, leaveTimers>>
    BY DEF Kick, Seated, RemoveSeat, Freed, netVars
  <1>2. /\ obj \in [Objects -> Object] /\ obj[o] \in Object /\ token \in Nat
        /\ kickedSubs \in SUBSET Users /\ obj[o].sub \in Users
    BY <1>1 DEF SeatInv, SeatTypes, Object, SeatsMade
  <1>3. ob = [obj EXCEPT ![o] = new]
    BY <1>2 DEF Object
  <1>4. /\ new \in Object /\ new.sub = obj[o].sub /\ new.session = obj[o].session /\ new.disconnected
    <2> HIDE DEF token
    <2> QED
      BY <1>2 DEF Object
  <1> HIDE DEF new, ob
  <1>5. /\ ob \in [Objects -> Object] /\ ob[o] = new
        /\ \A p \in Objects \ {o} : ob[p] = obj[p]
    BY <1>2, <1>3, <1>4
  <1>6. \A p \in Humans(players) \ {o} : obj[p].sub \notin kickedSubs'
    <2>1. \A p \in Humans(players) : obj[p].sub = obj[o].sub => p = o
      BY <1>1 DEF SeatInv, RosterOK
    <2>2. \A p \in Humans(players) : obj[p].sub \notin kickedSubs
      BY DEF SeatInv, KickedHasNoSeat, SubsOf
    <2> QED
      BY <1>1, <2>1, <2>2
  <1>7. /\ SeatInv /\ ob[o].sub = obj[o].sub /\ ob[o].session = obj[o].session /\ ob[o].disconnected
        /\ leaveTimers' \in SUBSET leaveTimers /\ leaveTimers \ leaveTimers' = {}
        /\ kickedSubs' \in SUBSET Users
    BY <1>1, <1>2, <1>4, <1>5
  <1> QED
    BY ONLY <1>1, <1>5, <1>6, <1>7, RemoveSeatInv

\* The grace period of a seat ends.
LEMMA LeaveTimerSeat ==
    ASSUME SeatInv, NEW o, NEW token, LeaveTimerFires(o, token)
    PROVE  /\ SeatInv' /\ \A p \in Humans(players) \ {o} : p \in Humans(players')
           /\ obj'[o].disconnected /\ phase = "lobby" /\ o \in Objects /\ obj[o].sub \in Users
  <1>1. /\ phase = "lobby" /\ <<o, token>> \in leaveTimers /\ obj[o].disconnected
        /\ leaveTimers' = leaveTimers \ {<<o, token>>}
        /\ Freed(o, obj)
        /\ UNCHANGED <<phase, kickedSubs, socket, joins>>
    BY DEF LeaveTimerFires, Expired, RemoveSeat, Freed, netVars
  <1>2. o \in Objects /\ obj[o].sub \in Users
    BY <1>1 DEF SeatInv, SeatsMade, SeatTypes
  <1>3. /\ obj \in [Objects -> Object] /\ kickedSubs' \in SUBSET Users
        /\ leaveTimers' \in SUBSET leaveTimers
        /\ \A timer \in leaveTimers \ leaveTimers' : timer[1] = o
    BY <1>1 DEF SeatInv, SeatTypes
  <1>4. \A p \in Humans(players) : obj[p].sub \notin kickedSubs'
    BY <1>1 DEF SeatInv, KickedHasNoSeat, SubsOf
  <1>5. SeatInv
    OBVIOUS
  <1> QED
    BY ONLY <1>1, <1>2, <1>3, <1>4, <1>5, RemoveSeatInv

\* Some of the connected players stay: their seats hold them once, in order.
LEMMA StayFacts ==
    ASSUME SeatInv, NEW stay \in SUBSET Connected(players)
    PROVE  LET kept == Kept(players, stay) IN
           /\ kept \in Seq(Objects) /\ Len(kept) <= MaxPlayers /\ Len(kept) \in Nat
           /\ \A k \in DOMAIN kept : /\ kept[k] \in stay /\ kept[k] \in Humans(players) /\ kept[k] # Bot
                                     /\ kept[k] \in Objects /\ ~obj[kept[k]].disconnected
           /\ \A o \in stay : o \in Humans(kept)
           /\ \A k, l \in DOMAIN kept : kept[k] = kept[l] => k = l
  <1> DEFINE kept == Kept(players, stay)
             X == Objects \cup {Bot}
  <1>1. SeatTypes /\ RosterOK /\ players \in Seq(X) /\ Len(players) <= MaxPlayers
    BY DEF SeatInv, SeatTypes
  <1>2. \A o \in stay : o \in Humans(players) /\ ~obj[o].disconnected /\ o # Bot /\ o \in Objects
    BY <1>1, AtSeat DEF Connected
  <1>3. \A i, j \in DOMAIN players : players[i] = players[j] /\ players[i] \in stay => i = j
    BY <1>1, <1>2, OneSeat
  <1>4. /\ kept \in Seq(X) /\ Len(kept) <= Len(players)
        /\ \A k \in DOMAIN kept : kept[k] \in stay /\ \E i \in DOMAIN players : players[i] = kept[k]
        /\ \A i \in DOMAIN players : players[i] \in stay => \E k \in DOMAIN kept : kept[k] = players[i]
        /\ \A k, l \in DOMAIN kept : kept[k] = kept[l] => k = l
    <2> HIDE DEF X
    <2> QED
      BY ONLY <1>1, <1>3, KeptFacts
  <1> HIDE DEF kept
  <1>5. \A k \in DOMAIN kept : /\ kept[k] \in stay /\ kept[k] \in Humans(players) /\ kept[k] # Bot
                               /\ kept[k] \in Objects /\ ~obj[kept[k]].disconnected
    BY <1>2, <1>4
  <1>6. kept \in Seq(Objects) /\ Len(kept) \in Nat
    BY <1>4, <1>5
  <1>7. Len(kept) <= MaxPlayers
    BY <1>1, <1>4, <1>6, AtSeat, RoomAssumption
  <1>8. \A o \in stay : o \in Humans(kept)
    <2> SUFFICES ASSUME NEW o \in stay PROVE o \in Humans(kept)
      OBVIOUS
    <2>1. PICK i \in DOMAIN players : players[i] = o
      BY <1>1, <1>2, AtSeat
    <2>2. PICK k \in DOMAIN kept : kept[k] = o
      BY <1>4, <2>1
    <2> QED
      BY <1>2, <2>2 DEF Humans
  <1> QED
    BY <1>4, <1>5, <1>6, <1>7, <1>8 DEF kept

\* The host starts the game: the connected players are dealt in, bots fill up.
LEMMA StartGameSeat ==
    ASSUME SeatInv, NEW h \in Objects, StartGame(h)
    PROVE  SeatInv'
  <1> DEFINE stay == Connected(players)
             kept == Kept(players, stay)
             dropped == Humans(players) \ stay
             bots == [i \in 1..(MaxPlayers - Len(kept)) |-> Bot]
             ob == [p \in Objects |->
                      IF p \in dropped THEN [obj[p] EXCEPT !.leaveToken = @ + 1] ELSE obj[p]]
  <1>1. /\ phase = "lobby" /\ phase' = "playing"
        /\ players' = kept \o bots /\ obj' = Compact(kept, ob)
        /\ UNCHANGED <<kickedSubs, socket, joins, leaveTimers>>
    BY DEF StartGame, netVars
  <1>2. /\ kept \in Seq(Objects) /\ Len(kept) <= MaxPlayers /\ Len(kept) \in Nat
        /\ \A k \in DOMAIN kept : /\ kept[k] \in stay /\ kept[k] \in Humans(players) /\ kept[k] # Bot
                                  /\ kept[k] \in Objects /\ ~obj[kept[k]].disconnected
        /\ \A k, l \in DOMAIN kept : kept[k] = kept[l] => k = l
    <2> HIDE DEF stay
    <2>1. stay \in SUBSET Connected(players)
      BY DEF stay
    <2> QED
      BY <2>1, StayFacts
  <1>3. obj \in [Objects -> Object] /\ kickedSubs \in SUBSET Users
    BY DEF SeatInv, SeatTypes
  <1> HIDE DEF kept
  <1>4. \A p \in Objects : /\ ob[p] \in Object /\ ob[p].sub = obj[p].sub /\ ob[p].session = obj[p].session
                           /\ ob[p].disconnected = obj[p].disconnected
                           /\ p \in stay => ob[p].leaveToken = obj[p].leaveToken
    <2> SUFFICES ASSUME NEW p \in Objects
                 PROVE  /\ ob[p] \in Object /\ ob[p].sub = obj[p].sub /\ ob[p].session = obj[p].session
                        /\ ob[p].disconnected = obj[p].disconnected
                        /\ p \in stay => ob[p].leaveToken = obj[p].leaveToken
      OBVIOUS
    <2>1. obj[p] \in Object
      BY <1>3
    <2>2. ob[p] = IF p \in dropped THEN [obj[p] EXCEPT !.leaveToken = @ + 1] ELSE obj[p]
      OBVIOUS
    <2> HIDE DEF ob, stay
    <2> QED
      BY <2>1, <2>2 DEF Object
  <1>5. ob \in [Objects -> Object]
    BY <1>4
  <1> HIDE DEF ob, stay
  <1>6. /\ obj' \in [Objects -> Object]
        /\ \A i \in DOMAIN kept : obj'[kept[i]].index = i - 1
        /\ \A p \in Objects : /\ obj'[p].sub = ob[p].sub /\ obj'[p].session = ob[p].session
                              /\ obj'[p].disconnected = ob[p].disconnected
                              /\ obj'[p].leaveToken = ob[p].leaveToken
    BY <1>1, <1>2, <1>5, CompactFacts
  <1>7. /\ bots \in Seq({Bot}) /\ Len(bots) = MaxPlayers - Len(kept)
        /\ \A i \in DOMAIN bots : bots[i] = Bot
    BY <1>2, RoomAssumption
  <1> HIDE DEF bots
  <1>8. /\ players' \in Seq(Objects \cup {Bot}) /\ Len(players') = MaxPlayers
        /\ DOMAIN players' = 1..MaxPlayers
        /\ \A i \in DOMAIN players' : players'[i] # Bot => i \in DOMAIN kept /\ players'[i] = kept[i]
    <2>1. kept \in Seq(Objects \cup {Bot}) /\ bots \in Seq(Objects \cup {Bot})
      BY <1>2, <1>7
    <2>2. players' \in Seq(Objects \cup {Bot}) /\ Len(players') = MaxPlayers
      BY <1>1, <1>2, <1>7, <2>1, RoomAssumption
    <2>3. ASSUME NEW i \in DOMAIN players', players'[i] # Bot
          PROVE  i \in DOMAIN kept /\ players'[i] = kept[i]
      <3>1. i \in 1..MaxPlayers /\ DOMAIN kept = 1..Len(kept) /\ DOMAIN bots = 1..(MaxPlayers - Len(kept))
        BY <1>2, <1>7, <2>2, RoomAssumption
      <3>2. ASSUME i > Len(kept) PROVE players'[i] = Bot
        <4>1. players'[i] = bots[i - Len(kept)] /\ i - Len(kept) \in DOMAIN bots
          BY <1>1, <1>2, <1>7, <2>1, <3>1, <3>2
        <4> QED
          BY <4>1, <1>7
      <3>3. i <= Len(kept)
        BY <1>2, <2>3, <3>1, <3>2
      <3> QED
        BY <1>1, <1>2, <2>1, <3>1, <3>3
    <2> QED
      BY <2>2, <2>3, RoomAssumption
  <1>9. \A p \in Objects : /\ obj'[p].sub = obj[p].sub /\ obj'[p].session = obj[p].session
                           /\ ~obj'[p].disconnected => ~obj[p].disconnected
    BY <1>4, <1>6
  <1>10. \A p \in Humans(players) : obj[p].sub \notin kickedSubs'
    BY <1>1 DEF SeatInv, KickedHasNoSeat, SubsOf
  <1>11. \A i \in DOMAIN players' : players'[i] # Bot =>
               /\ players'[i] \in Humans(players)
               /\ obj'[players'[i]].index = i - 1
               /\ obj'[players'[i]].disconnected = obj[players'[i]].disconnected
               /\ obj'[players'[i]].leaveToken = obj[players'[i]].leaveToken
               /\ obj[players'[i]].sub \notin kickedSubs'
    BY <1>2, <1>4, <1>6, <1>8, <1>10
  <1>12. /\ SeatInv /\ phase' # "lobby" /\ phase' \in {"lobby", "playing"} /\ Len(players') <= MaxPlayers
         /\ kickedSubs' \in SUBSET Users /\ leaveTimers' \in SUBSET leaveTimers
         /\ socket' = socket /\ joins' = joins
    BY <1>1, <1>3, <1>8, RoomAssumption
  <1> QED
    BY ONLY <1>6, <1>8, <1>9, <1>11, <1>12, SeatsGivenUp

\* Some of the connected players go back to the lobby, the others lose the seat.
LEMMA ReturnSeat ==
    ASSUME SeatInv, NEW stay \in SUBSET Connected(players), NEW removed,
           ReturnToWaitingRoom(Kept(players, stay), removed)
    PROVE  SeatInv'
  <1> DEFINE kept == Kept(players, stay)
  <1>1. /\ phase' = "lobby" /\ players' = kept
        /\ obj' = [o \in Objects |->
                     IF o \in Humans(kept)
                     THEN [obj[o] EXCEPT !.index = Position(kept, o) - 1,
                                         !.ready = Position(kept, o) = 1]
                     ELSE obj[o]]
        /\ UNCHANGED <<kickedSubs, socket, joins, leaveTimers>>
    BY DEF ReturnToWaitingRoom, netVars
  <1>2. /\ kept \in Seq(Objects) /\ Len(kept) <= MaxPlayers /\ Len(kept) \in Nat
        /\ \A k \in DOMAIN kept : /\ kept[k] \in stay /\ kept[k] \in Humans(players) /\ kept[k] # Bot
                                  /\ kept[k] \in Objects /\ ~obj[kept[k]].disconnected
        /\ \A k, l \in DOMAIN kept : kept[k] = kept[l] => k = l
    BY StayFacts
  <1> HIDE DEF kept
  <1>3. obj \in [Objects -> Object] /\ kickedSubs \in SUBSET Users
    BY DEF SeatInv, SeatTypes
  <1>4. /\ DOMAIN kept = 1..Len(kept)
        /\ \A k \in DOMAIN kept : Position(kept, kept[k]) = k /\ kept[k] \in Humans(kept)
    BY <1>2 DEF Position, Humans
  <1>5. \A o \in Humans(kept) : Position(kept, o) - 1 \in Seats
    <2> SUFFICES ASSUME NEW o \in Humans(kept) PROVE Position(kept, o) - 1 \in Seats
      OBVIOUS
    <2>1. PICK k \in DOMAIN kept : kept[k] = o
      BY DEF Humans
    <2> QED
      BY <1>2, <1>4, <2>1, RoomAssumption DEF Seats
  <1>6. ASSUME NEW o \in Objects
        PROVE  /\ obj'[o] \in Object /\ obj'[o].sub = obj[o].sub /\ obj'[o].session = obj[o].session
               /\ obj'[o].disconnected = obj[o].disconnected /\ obj'[o].leaveToken = obj[o].leaveToken
               /\ o \in Humans(kept) => /\ obj'[o].index = Position(kept, o) - 1
                                        /\ Position(kept, o) = 1 => obj'[o].ready
    <2>1. obj[o] \in Object
      BY <1>3
    <2>2. CASE o \in Humans(kept)
      <3> DEFINE place == Position(kept, o) - 1
                 first == Position(kept, o) = 1
      <3>1. place \in Seats /\ first \in BOOLEAN
        BY <1>5, <2>2
      <3>2. obj'[o] = [obj[o] EXCEPT !.index = place, !.ready = first]
        BY <1>1, <2>2
      <3> HIDE DEF place, first
      <3>3. /\ obj'[o] \in Object /\ obj'[o].sub = obj[o].sub /\ obj'[o].session = obj[o].session
            /\ obj'[o].disconnected = obj[o].disconnected /\ obj'[o].leaveToken = obj[o].leaveToken
            /\ obj'[o].index = place /\ obj'[o].ready = first
        BY <2>1, <3>1, <3>2 DEF Object
      <3> QED
        BY <3>3 DEF place, first
    <2>3. CASE o \notin Humans(kept)
      BY <1>1, <2>1, <2>3
    <2> QED
      BY <2>2, <2>3
  <1>7. obj' \in [Objects -> Object]
    <2>1. obj' = [o \in Objects |-> obj'[o]]
      BY <1>1
    <2> QED
      BY <1>6, <2>1
  <1>8. \A p \in Humans(players) : obj[p].sub \notin kickedSubs'
    BY <1>1 DEF SeatInv, KickedHasNoSeat, SubsOf
  <1>9. /\ players' = kept /\ phase' = "lobby"
         /\ kickedSubs' = kickedSubs /\ leaveTimers' = leaveTimers /\ socket' = socket /\ joins' = joins
    BY <1>1
  <1>10. \A k \in DOMAIN kept :
               /\ obj'[kept[k]].index = k - 1
               /\ k = 1 => obj'[kept[k]].ready
               /\ obj'[kept[k]].disconnected = obj[kept[k]].disconnected
               /\ obj'[kept[k]].leaveToken = obj[kept[k]].leaveToken
               /\ obj[kept[k]].sub \notin kickedSubs'
    BY ONLY <1>2, <1>4, <1>6, <1>8
  <1>11. \A i \in DOMAIN players' :
               /\ players'[i] # Bot /\ players'[i] \in Humans(players)
               /\ obj'[players'[i]].index = i - 1
               /\ i = 1 => obj'[players'[i]].ready
               /\ obj'[players'[i]].disconnected = obj[players'[i]].disconnected
               /\ obj'[players'[i]].leaveToken = obj[players'[i]].leaveToken
               /\ ~obj[players'[i]].disconnected
               /\ obj[players'[i]].sub \notin kickedSubs'
    BY ONLY <1>2, <1>9, <1>10
  <1>12. \A p \in Objects : /\ obj'[p].sub = obj[p].sub /\ obj'[p].session = obj[p].session
                            /\ ~obj'[p].disconnected => ~obj[p].disconnected
    BY <1>6
  <1>13. /\ SeatInv /\ phase' # "playing" /\ phase' \in {"lobby", "playing"} /\ Len(players') <= MaxPlayers
         /\ players' \in Seq(Objects \cup {Bot})
         /\ kickedSubs' \in SUBSET Users /\ leaveTimers' \in SUBSET leaveTimers
         /\ socket' = socket /\ joins' = joins
    <2>1. SeatInv
      OBVIOUS
    <2>2. kept \in Seq(Objects \cup {Bot})
      BY ONLY <1>2
    <2> QED
      BY ONLY <1>2, <1>3, <1>9, <2>1, <2>2
  <1> QED
    BY ONLY <1>7, <1>11, <1>12, <1>13, SeatsGivenUp

\* The countdown ends and nobody has voted: the seats are cleared.
LEMMA UnvotedSeat ==
    ASSUME SeatInv, NEW token, RematchTimeoutUnvoted(token)
    PROVE  SeatInv'
  <1>1. players' = <<>> /\ UNCHANGED <<phase, obj, kickedSubs, socket, joins, leaveTimers>>
    BY DEF RematchTimeoutUnvoted, netVars
  <1>2. /\ SeatInv /\ phase' \in {"lobby", "playing"} /\ obj' \in [Objects -> Object]
        /\ kickedSubs' \in SUBSET Users /\ leaveTimers' \in SUBSET leaveTimers
        /\ socket' = socket /\ joins' = joins
    BY <1>1 DEF SeatInv, SeatTypes
  <1>3. /\ players' \in Seq(Objects \cup {Bot}) /\ Len(players') = 0 /\ Len(players') <= MaxPlayers
        /\ DOMAIN players' = {}
    BY <1>1, RoomAssumption
  <1>4. \A p \in Objects : /\ obj'[p].sub = obj[p].sub /\ obj'[p].session = obj[p].session
                           /\ ~obj'[p].disconnected => ~obj[p].disconnected
    BY <1>1
  <1> QED
    BY ONLY <1>2, <1>3, <1>4, SeatsGivenUp

\* A grace timer that was superseded finds nothing to free: the seat, if it is
\* still held, is held by a later timer.
LEMMA LeaveTimerIgnoredSeat ==
    ASSUME SeatInv, NEW o, NEW token, LeaveTimerIgnored(o, token)
    PROVE  SeatInv'
  <1>1. /\ ~(phase = "lobby" /\ token = obj[o].leaveToken /\ obj[o].disconnected)
        /\ leaveTimers' = leaveTimers \ {<<o, token>>}
        /\ UNCHANGED <<phase, players, obj, kickedSubs, socket, joins>>
    BY DEF LeaveTimerIgnored, Expired, netVars
  <1>2. GraceRuns'
    <2>1. phase = "lobby" => \A p \in Humans(players) :
              obj[p].disconnected => <<p, obj[p].leaveToken>> \in leaveTimers
      BY DEF SeatInv, GraceRuns, Connected
    <2>2. phase = "lobby" => \A p \in Humans(players) :
              obj[p].disconnected => <<p, obj[p].leaveToken>> \in leaveTimers'
      BY <1>1, <2>1
    <2> QED
      BY <1>1, <2>2 DEF GraceRuns, Connected
  <1>3. SeatTypes' /\ RosterOK' /\ LiveSeat' /\ KickedHasNoSeat' /\ SeatsMade' /\ NoBotsInLobby'
    BY <1>1 DEF SeatInv, SeatTypes, RosterOK, LiveSeat, KickedHasNoSeat, SeatsMade, NoBotsInLobby,
                Humans, SubsOf
  <1> QED
    BY <1>2, <1>3 DEF SeatInv

\* No step breaks the agreement of seats, objects, sockets and grace timers.
LEMMA SeatStep ==
    ASSUME SeatInv, [Next]_vars
    PROVE  SeatInv'
  <1> USE DEF tableVars, voteVars, lifeVars, netVars
  <1>1. CASE UNCHANGED vars
    <2>1. UNCHANGED seatVars
      BY <1>1 DEF vars, seatVars
    <2> QED
      BY <2>1, SeatUnchanged
  <1>2. CASE Joining
    BY <1>2, ReattachSeat, TakeSeatSeat DEF Joining
  <1>3. CASE Dropping
    BY <1>3, DropStaleSeat, DropInLobbySeat, DropInGameSeat DEF Dropping
  <1>4. CASE Lobby
    <2>1. ASSUME NEW o \in Objects, NEW r \in BOOLEAN, SetReady(o, r) PROVE SeatInv'
      BY <2>1, SetReadySeat
    <2>2. ASSUME NEW o \in Objects, Leave(o) PROVE SeatInv'
      BY <2>2, LeaveSeat
    <2>3. ASSUME NEW o \in Objects, NEW target \in Objects, Kick(o, target) PROVE SeatInv'
      BY <2>3, KickSeat
    <2>4. ASSUME NEW o \in Objects, StartGame(o) PROVE SeatInv'
      BY <2>4, StartGameSeat
    <2>5. CASE Teardown
      <3>1. UNCHANGED seatVars
        BY <2>5 DEF Teardown, seatVars
      <3> QED
        BY <3>1, SeatUnchanged
    <2> QED
      BY <1>4, <2>1, <2>2, <2>3, <2>4, <2>5 DEF Lobby
  <1>5. CASE Timers
    <2>1. ASSUME NEW o, NEW token, LeaveTimerFires(o, token) PROVE SeatInv'
      BY <2>1, LeaveTimerSeat
    <2>2. ASSUME NEW o, NEW token, LeaveTimerIgnored(o, token) PROVE SeatInv'
      <3>1. ~Expired(o, token)
        BY <2>2 DEF LeaveTimerIgnored
      <3> QED
        BY <2>2, <3>1, LeaveTimerIgnoredSeat
    <2>3. ASSUME NEW token, RematchTimeout(token) PROVE SeatInv'
      <3>1. Voters \in SUBSET Connected(players)
        BY DEF Voters
      <3>2. ReturnToWaitingRoom(Kept(players, Voters), Connected(players) \ Voters)
        BY <2>3 DEF RematchTimeout
      <3> QED
        BY <3>1, <3>2, ReturnSeat
    <2>4. ASSUME NEW token, RematchTimeoutUnvoted(token) PROVE SeatInv'
      BY <2>4, UnvotedSeat
    <2>5. ASSUME NEW token, RematchTimeoutIgnored(token) PROVE SeatInv'
      <3>1. UNCHANGED seatVars
        BY <2>5 DEF RematchTimeoutIgnored, seatVars
      <3> QED
        BY <3>1, SeatUnchanged
    <2> QED
      BY <1>5, <2>1, <2>2, <2>3, <2>4, <2>5 DEF Timers
  <1>6. CASE LastMove
    <2>1. UNCHANGED seatVars
      BY <1>6 DEF LastMove, seatVars
    <2> QED
      BY <2>1, SeatUnchanged
  <1>7. CASE Saving
    <2>1. UNCHANGED seatVars
      BY <1>7 DEF Saving, SaveRead, SaveWrite, SaveStatus, Announce, seatVars
    <2> QED
      BY <2>1, SeatUnchanged
  <1>8. CASE Results
    <2>1. ASSUME NEW o \in Objects, VoteCounted(o) PROVE SeatInv'
      <3>1. UNCHANGED seatVars
        BY <2>1 DEF VoteCounted, seatVars
      <3> QED
        BY <3>1, SeatUnchanged
    <2>2. ASSUME NEW o \in Objects, VoteStarts(o) PROVE SeatInv'
      <3>1. UNCHANGED seatVars
        BY <2>2 DEF VoteStarts, seatVars
      <3> QED
        BY <3>1, SeatUnchanged
    <2>3. ASSUME NEW o \in Objects, GoToWaitingRoom(o) PROVE SeatInv'
      <3>1. Connected(players) \in SUBSET Connected(players)
        OBVIOUS
      <3>2. ReturnToWaitingRoom(Kept(players, Connected(players)), Humans(players) \ Connected(players))
        BY <2>3 DEF GoToWaitingRoom
      <3> QED
        BY <3>1, <3>2, ReturnSeat
    <2> QED
      BY <1>8, <2>1, <2>2, <2>3 DEF Results
  <1> QED
    BY <1>1, <1>2, <1>3, <1>4, <1>5, <1>6, <1>7, <1>8 DEF Next

-----------------------------------------------------------------------------
(* The countdowns and the calls.                                           *)

\* No timer has a token that was not given yet.
TokensGiven == \A token \in rematchTimers : token <= rematchToken

\* Everything TypeOK says of the game, its result and the rematch, in a form a
\* step keeps; a game that runs was dealt.
Pcs == {"idle", "read", "write", "status", "announce", "done", "panic"}
GameTypes ==
    /\ table \in {"none", "live", "over"}
    /\ deals \in 0..MaxDeals /\ savedGame \in 0..MaxDeals
    /\ votes \in SUBSET Seats
    /\ rematchToken \in Nat /\ rematchArmed \in BOOLEAN
    /\ rematchTimers \in SUBSET Nat
    /\ emptied \in BOOLEAN /\ torn \in BOOLEAN
    /\ saver \in [Deals -> [pc : Pcs, game : 0..MaxDeals]]
    /\ phase = "playing" => deals >= 1

RoomInv ==
    /\ SeatInv /\ GameTypes /\ sent \in SUBSET Calls
    /\ CountdownOnlyAtResults /\ TokensGiven

\* The variables of the countdowns.
countVars == <<phase, table, rematchToken, rematchArmed, rematchTimers>>

\* No step leaves a countdown running that does not belong to the results screen.
LEMMA CountdownStep ==
    ASSUME RoomInv, [Next]_vars
    PROVE  CountdownOnlyAtResults' /\ TokensGiven'
  <1> USE DEF tableVars, voteVars, lifeVars, netVars
  <1> DEFINE Goal == CountdownOnlyAtResults' /\ TokensGiven'
  <1>1. /\ rematchToken \in Nat /\ rematchTimers \in SUBSET Nat /\ rematchArmed \in BOOLEAN
        /\ CountdownOnlyAtResults /\ TokensGiven
    BY DEF RoomInv, GameTypes
  <1>2. ASSUME UNCHANGED countVars PROVE Goal
    BY <1>1, <1>2 DEF countVars, CountdownOnlyAtResults, TokensGiven
  \* A countdown is stopped: its token is given up.
  <1>3. ASSUME rematchToken' \in {rematchToken + 1, rematchToken + 2}, rematchArmed' = FALSE,
               rematchTimers' \subseteq rematchTimers \cup (IF rematchToken' = rematchToken + 2
                                                          THEN {rematchToken + 1} ELSE {})
        PROVE  Goal
    <2>1. \A token \in rematchTimers' : token \in Nat /\ token < rematchToken'
      BY <1>1, <1>3 DEF TokensGiven
    <2>2. rematchToken' \in Nat
      BY <1>1, <1>3
    <2> QED
      BY <1>3, <2>1, <2>2 DEF CountdownOnlyAtResults, TokensGiven
  <1>4. CASE UNCHANGED vars
    BY <1>2, <1>4 DEF vars, countVars
  <1>5. CASE Joining
    <2>1. UNCHANGED countVars
      BY <1>5 DEF Joining, Reattach, TakeSeat, countVars
    <2> QED
      BY <1>2, <2>1
  <1>6. CASE Dropping
    <2>1. ASSUME NEW s \in Sockets, DropStale(s) \/ DropInLobby(s) PROVE Goal
      <3>1. UNCHANGED countVars
        BY <2>1 DEF DropStale, DropInLobby, countVars
      <3> QED
        BY <1>2, <3>1
    <2>2. ASSUME NEW s \in Sockets, DropInGame(s) PROVE Goal
      <3> DEFINE active == table = "over" /\ rematchArmed
      <3>1. /\ phase' = phase /\ table' = table /\ rematchTimers' = rematchTimers
            /\ rematchToken' = IF active THEN rematchToken + 1 ELSE rematchToken
            /\ rematchArmed' = (rematchArmed /\ ~active)
        BY <2>2 DEF DropInGame
      <3>2. CASE active
        BY <1>3, <3>1, <3>2
      <3>3. CASE ~active
        BY <1>1, <1>2, <3>1, <3>3 DEF countVars, CountdownOnlyAtResults
      <3> QED
        BY <3>2, <3>3
    <2> QED
      BY <1>6, <2>1, <2>2 DEF Dropping
  <1>7. CASE Lobby
    <2>1. ASSUME NEW o \in Objects, NEW r \in BOOLEAN, SetReady(o, r) PROVE Goal
      <3>1. UNCHANGED countVars
        BY <2>1 DEF SetReady, countVars
      <3> QED
        BY <1>2, <3>1
    <2>2. ASSUME NEW o \in Objects, Leave(o) PROVE Goal
      <3>1. UNCHANGED countVars
        BY <2>2 DEF Leave, countVars
      <3> QED
        BY <1>2, <3>1
    <2>3. ASSUME NEW o \in Objects, NEW target \in Objects, Kick(o, target) PROVE Goal
      <3>1. UNCHANGED countVars
        BY <2>3 DEF Kick, countVars
      <3> QED
        BY <1>2, <3>1
    <2>4. ASSUME NEW o \in Objects, StartGame(o) PROVE Goal
      <3>1. phase = "lobby" /\ UNCHANGED <<rematchToken, rematchArmed, rematchTimers>>
        BY <2>4 DEF StartGame
      <3> QED
        BY <1>1, <3>1 DEF CountdownOnlyAtResults, TokensGiven
    <2>5. CASE Teardown
      <3>1. UNCHANGED countVars
        BY <2>5 DEF Teardown, countVars
      <3> QED
        BY <1>2, <3>1
    <2> QED
      BY <1>7, <2>1, <2>2, <2>3, <2>4, <2>5 DEF Lobby
  <1>8. CASE Timers
    <2>1. ASSUME NEW o, NEW token, LeaveTimerFires(o, token) \/ LeaveTimerIgnored(o, token) PROVE Goal
      <3>1. UNCHANGED countVars
        BY <2>1 DEF LeaveTimerFires, LeaveTimerIgnored, countVars
      <3> QED
        BY <1>2, <3>1
    <2>2. ASSUME NEW token, RematchTimeout(token) PROVE Goal
      <3>1. /\ rematchTimers' = rematchTimers \ {token} /\ rematchToken' = rematchToken + 1
            /\ rematchArmed' = FALSE
        BY <2>2 DEF RematchTimeout, ReturnToWaitingRoom
      <3> QED
        BY <1>3, <3>1
    <2>3. ASSUME NEW token, RematchTimeoutUnvoted(token) PROVE Goal
      <3>1. /\ rematchTimers' = rematchTimers \ {token} /\ token = rematchToken
            /\ rematchToken' = rematchToken /\ rematchArmed' = FALSE
        BY <2>3 DEF RematchTimeoutUnvoted
      <3> QED
        BY <1>1, <3>1 DEF CountdownOnlyAtResults, TokensGiven
    <2>4. ASSUME NEW token, RematchTimeoutIgnored(token) PROVE Goal
      <3>1. /\ rematchTimers' = rematchTimers \ {token} /\ phase' = phase /\ table' = table
            /\ rematchToken' = rematchToken /\ rematchArmed' = (rematchArmed /\ token # rematchToken)
        BY <2>4 DEF RematchTimeoutIgnored
      <3> QED
        BY <1>1, <3>1 DEF CountdownOnlyAtResults, TokensGiven
    <2> QED
      BY <1>8, <2>1, <2>2, <2>3, <2>4 DEF Timers
  <1>9. CASE LastMove
    <2>1. /\ phase = "playing" /\ phase' = phase /\ table' = "over"
          /\ UNCHANGED <<rematchToken, rematchArmed, rematchTimers>>
      BY <1>9 DEF LastMove
    <2> QED
      BY <1>1, <2>1 DEF CountdownOnlyAtResults, TokensGiven
  <1>10. CASE Saving
    <2>1. UNCHANGED countVars
      BY <1>10 DEF Saving, SaveRead, SaveWrite, SaveStatus, Announce, countVars
    <2> QED
      BY <1>2, <2>1
  <1>11. CASE Results
    <2>1. ASSUME NEW o \in Objects, VoteCounted(o) PROVE Goal
      <3>1. phase = "playing" /\ table = "over" /\ phase' = phase /\ table' = table
        BY <2>1 DEF VoteCounted
      <3>2. CASE OpenCountdown
        <4>1. /\ rematchToken' = rematchToken + 1 /\ rematchArmed' = TRUE
              /\ rematchTimers' = rematchTimers \cup {rematchToken + 1}
          BY <3>2 DEF OpenCountdown
        <4> QED
          BY <1>1, <3>1, <4>1 DEF CountdownOnlyAtResults, TokensGiven
      <3>3. CASE UNCHANGED <<rematchToken, rematchArmed, rematchTimers>>
        BY <1>2, <3>1, <3>3 DEF countVars
      <3> QED
        BY <2>1, <3>2, <3>3 DEF VoteCounted
    <2>2. ASSUME NEW o \in Objects, VoteStarts(o) PROVE Goal
      <3>1. StopCountdown
        BY <2>2 DEF VoteStarts
      <3> QED
        BY <1>1, <1>3, <3>1 DEF StopCountdown
    <2>3. ASSUME NEW o \in Objects, GoToWaitingRoom(o) PROVE Goal
      <3>1. /\ rematchTimers' = rematchTimers /\ rematchToken' = rematchToken + 1
            /\ rematchArmed' = FALSE
        BY <2>3 DEF GoToWaitingRoom, ReturnToWaitingRoom
      <3> QED
        BY <1>3, <3>1
    <2> QED
      BY <1>11, <2>1, <2>2, <2>3 DEF Results
  <1> QED
    BY <1>4, <1>5, <1>6, <1>7, <1>8, <1>9, <1>10, <1>11 DEF Next

gameVars == <<phase, table, deals, savedGame, votes, rematchToken, rematchArmed, rematchTimers,
              emptied, torn, saver>>

\* The calls a step makes are about members and games of this room.
LEMMA CallFacts ==
    ASSUME SeatInv, MaxDeals \in Nat
    PROVE  /\ \A s \in Statuses, d \in Deals : SetStatus(s, d) \in Calls
           /\ \A o \in Objects : \A kind \in {"remove", "kick"} :
                 obj[o].sub \in Users => [kind |-> kind, user |-> obj[o].sub, of |-> o] \in Calls
           /\ \A objects \in SUBSET Humans(players) : Removes(objects) \in SUBSET Calls
  <1>1. \A s \in Statuses, d \in Deals : SetStatus(s, d) \in Calls
    BY DEF SetStatus, Calls
  <1>2. \A o \in Objects : \A kind \in {"remove", "kick"} :
                 obj[o].sub \in Users => [kind |-> kind, user |-> obj[o].sub, of |-> o] \in Calls
    BY DEF Calls
  <1>3. \A o \in Humans(players) : o \in Objects /\ obj[o].sub \in Users
    BY AtSeat DEF SeatInv, SeatsMade
  <1>4. \A objects \in SUBSET Humans(players) : Removes(objects) \in SUBSET Calls
    BY <1>2, <1>3 DEF Removes
  <1> QED
    BY <1>1, <1>2, <1>4

\* The game, its result and the calls keep their types.
LEMMA TypesStep ==
    ASSUME RoomInv, [Next]_vars
    PROVE  GameTypes' /\ sent' \in SUBSET Calls
  <1> USE DEF tableVars, voteVars, lifeVars, netVars
  <1> DEFINE Goal == GameTypes' /\ sent' \in SUBSET Calls
  <1>1. /\ SeatInv /\ GameTypes /\ sent \in SUBSET Calls
        /\ MaxDeals \in Nat \ {0} /\ MaxPlayers \in Nat \ {0}
        /\ rematchToken \in Nat /\ rematchArmed \in BOOLEAN /\ rematchTimers \in SUBSET Nat
    BY RoomAssumption DEF RoomInv, GameTypes
  <1>2. /\ \A s \in Statuses, d \in Deals : SetStatus(s, d) \in Calls
        /\ \A o \in Objects : \A kind \in {"remove", "kick"} :
              obj[o].sub \in Users => [kind |-> kind, user |-> obj[o].sub, of |-> o] \in Calls
        /\ \A objects \in SUBSET Humans(players) : Removes(objects) \in SUBSET Calls
        /\ {} \in SUBSET Calls
    BY <1>1, CallFacts
  <1>3. \A o \in Objects : obj[o].index \in Seats
    BY <1>1 DEF SeatInv, SeatTypes, Object
  <1>4. ASSUME UNCHANGED gameVars PROVE GameTypes'
    BY <1>1, <1>4 DEF gameVars, GameTypes
  \* A seat is given up.
  <1>5. ASSUME NEW o \in Objects, NEW ob, NEW kind \in {"remove", "kick"}, RemoveSeat(o, ob, kind),
               ob[o].sub = obj[o].sub, obj[o].sub \in Users,
               UNCHANGED <<phase, table, deals, savedGame, votes, rematchToken, rematchArmed,
                           rematchTimers, saver>>
        PROVE  Goal
    <2>1. /\ sent' = {[kind |-> kind, user |-> obj[o].sub, of |-> o]}
          /\ emptied' \in BOOLEAN /\ torn' = torn
      BY <1>1, <1>5 DEF RemoveSeat, GameTypes
    <2>2. GameTypes'
      BY <1>1, <1>5, <2>1 DEF GameTypes
    <2>3. [kind |-> kind, user |-> obj[o].sub, of |-> o] \in Calls
      BY <1>2, <1>5
    <2> QED
      BY <2>1, <2>2, <2>3
  \* The room goes back to the lobby.
  <1>6. ASSUME NEW kept, NEW removed \in SUBSET Humans(players), ReturnToWaitingRoom(kept, removed),
               rematchTimers' \in SUBSET rematchTimers, phase = "playing"
        PROVE  Goal
    <2>1. /\ phase' = "lobby" /\ table' = "none" /\ votes' = {} /\ rematchToken' = rematchToken + 1
          /\ rematchArmed' = FALSE
          /\ sent' = Removes(removed) \cup {SetStatus("waiting", deals)}
          /\ UNCHANGED <<deals, savedGame, saver, emptied, torn>>
      BY <1>6 DEF ReturnToWaitingRoom
    <2>2. GameTypes'
      <3>1. rematchTimers' \in SUBSET Nat
        BY <1>1, <1>6
      <3>2. rematchToken' \in Nat
        BY <1>1, <2>1
      <3>3. rematchArmed' \in BOOLEAN
        BY <2>1
      <3> QED
        BY <1>1, <2>1, <3>1, <3>2, <3>3 DEF GameTypes
    <2>3. SetStatus("waiting", deals) \in Calls
      BY <1>1, <1>2, <1>6 DEF GameTypes, Statuses, Deals
    <2>4. Removes(removed) \in SUBSET Calls
      BY <1>2, <1>6
    <2> QED
      BY <2>1, <2>2, <2>3, <2>4
  <1>7. CASE UNCHANGED vars
    BY <1>1, <1>4, <1>7 DEF vars, gameVars
  <1>8. CASE Joining
    <2>1. UNCHANGED gameVars /\ sent' = {}
      BY <1>8 DEF Joining, Reattach, TakeSeat, gameVars
    <2> QED
      BY <1>2, <1>4, <2>1
  <1>9. CASE Dropping
    <2>1. ASSUME NEW s \in Sockets, DropStale(s) \/ DropInLobby(s) PROVE Goal
      <3>1. UNCHANGED gameVars /\ sent' = {}
        BY <2>1 DEF DropStale, DropInLobby, gameVars
      <3> QED
        BY <1>2, <1>4, <3>1
    <2>2. ASSUME NEW s \in Sockets, DropInGame(s) PROVE Goal
      <3>1. /\ votes' \in SUBSET votes /\ rematchToken' \in {rematchToken, rematchToken + 1}
            /\ rematchArmed' \in BOOLEAN /\ sent' = {}
            /\ UNCHANGED <<phase, table, deals, savedGame, saver, rematchTimers, emptied, torn>>
        BY <2>2 DEF DropInGame
      <3> QED
        BY <1>1, <1>2, <3>1 DEF GameTypes
    <2> QED
      BY <1>9, <2>1, <2>2 DEF Dropping
  <1>10. CASE Lobby
    <2>1. ASSUME NEW o \in Objects, NEW r \in BOOLEAN, SetReady(o, r) PROVE Goal
      <3>1. UNCHANGED gameVars /\ sent' = {}
        BY <2>1 DEF SetReady, gameVars
      <3> QED
        BY <1>2, <1>4, <3>1
    <2>2. ASSUME NEW o \in Objects, Leave(o) PROVE Goal
      <3> DEFINE ob == [obj EXCEPT ![o].disconnected = TRUE, ![o].leaveToken = @ + 1]
      <3>1. o \in Humans(players) /\ RemoveSeat(o, ob, "remove")
            /\ UNCHANGED <<phase, table, deals, savedGame, votes, rematchToken, rematchArmed,
                           rematchTimers, saver>>
        BY <2>2 DEF Leave, Seated
      <3>2. ob[o].sub = obj[o].sub /\ obj[o].sub \in Users
        BY <1>1, <3>1 DEF SeatInv, SeatsMade, SeatTypes, Object
      <3> HIDE DEF ob
      <3> QED
        BY <1>5, <3>1, <3>2
    <2>3. ASSUME NEW o \in Objects, NEW target \in Objects, Kick(o, target) PROVE Goal
      <3> DEFINE ob == [obj EXCEPT ![target].disconnected = TRUE, ![target].leaveToken = @ + 1]
      <3>1. target \in Humans(players) /\ RemoveSeat(target, ob, "kick")
            /\ UNCHANGED <<phase, table, deals, savedGame, votes, rematchToken, rematchArmed,
                           rematchTimers, saver>>
        BY <2>3 DEF Kick, Seated
      <3>2. ob[target].sub = obj[target].sub /\ obj[target].sub \in Users
        BY <1>1, <3>1 DEF SeatInv, SeatsMade, SeatTypes, Object
      <3> HIDE DEF ob
      <3> QED
        BY <1>5, <3>1, <3>2
    <2>4. ASSUME NEW o \in Objects, StartGame(o) PROVE Goal
      <3> DEFINE dropped == Humans(players) \ Connected(players)
      <3>1. /\ phase' = "playing" /\ Deal
            /\ sent' = Removes(dropped) \cup {SetStatus("in_progress", deals')}
            /\ UNCHANGED <<votes, rematchToken, rematchArmed, rematchTimers, emptied, torn>>
        BY <2>4 DEF StartGame
      <3>2. GameTypes' /\ deals' \in Deals
        BY <1>1, <3>1 DEF GameTypes, Deal, Deals
      <3>3. Removes(dropped) \in SUBSET Calls /\ SetStatus("in_progress", deals') \in Calls
        BY <1>2, <3>2 DEF Statuses
      <3> QED
        BY <3>1, <3>2, <3>3
    <2>5. CASE Teardown
      <3>1. torn' = TRUE /\ sent' = {}
            /\ UNCHANGED <<phase, table, deals, savedGame, votes, rematchToken, rematchArmed,
                           rematchTimers, saver, emptied>>
        BY <2>5 DEF Teardown
      <3> QED
        BY <1>1, <1>2, <3>1 DEF GameTypes
    <2> QED
      BY <1>10, <2>1, <2>2, <2>3, <2>4, <2>5 DEF Lobby
  <1>11. CASE Timers
    <2>1. ASSUME NEW o, NEW token, LeaveTimerFires(o, token) PROVE Goal
      <3>1. o \in Objects /\ obj[o].sub \in Users
        BY <1>1, <2>1, LeaveTimerSeat
      <3>2. RemoveSeat(o, obj, "remove")
            /\ UNCHANGED <<phase, table, deals, savedGame, votes, rematchToken, rematchArmed,
                           rematchTimers, saver>>
        BY <2>1 DEF LeaveTimerFires
      <3> QED
        BY <1>5, <3>1, <3>2
    <2>2. ASSUME NEW o, NEW token, LeaveTimerIgnored(o, token) PROVE Goal
      <3>1. UNCHANGED gameVars /\ sent' = {}
        BY <2>2 DEF LeaveTimerIgnored, gameVars
      <3> QED
        BY <1>2, <1>4, <3>1
    <2>3. ASSUME NEW token, RematchTimeout(token) PROVE Goal
      <3>1. /\ rematchTimers' \in SUBSET rematchTimers
            /\ token = rematchToken /\ token \in rematchTimers
            /\ ReturnToWaitingRoom(Kept(players, Voters), Connected(players) \ Voters)
        BY <2>3 DEF RematchTimeout
      <3>2. phase = "playing"
        BY <3>1 DEF RoomInv, CountdownOnlyAtResults
      <3>3. Connected(players) \ Voters \in SUBSET Humans(players)
        BY DEF Connected
      <3> QED
        BY <1>6, <3>1, <3>2, <3>3
    <2>4. ASSUME NEW token, RematchTimeoutUnvoted(token) PROVE Goal
      <3>1. /\ rematchTimers' \in SUBSET rematchTimers /\ votes' = {} /\ rematchArmed' = FALSE
            /\ sent' = {} /\ UNCHANGED <<phase, table, deals, savedGame, saver, rematchToken, emptied, torn>>
        BY <2>4 DEF RematchTimeoutUnvoted
      <3> QED
        BY <1>1, <1>2, <3>1 DEF GameTypes
    <2>5. ASSUME NEW token, RematchTimeoutIgnored(token) PROVE Goal
      <3>1. /\ rematchTimers' \in SUBSET rematchTimers /\ rematchArmed' \in BOOLEAN
            /\ sent' = {}
            /\ UNCHANGED <<phase, table, deals, savedGame, saver, votes, rematchToken, emptied, torn>>
        BY <2>5 DEF RematchTimeoutIgnored
      <3> QED
        BY <1>1, <1>2, <3>1 DEF GameTypes
    <2> QED
      BY <1>11, <2>1, <2>2, <2>3, <2>4, <2>5 DEF Timers
  <1>12. CASE LastMove
    <2>1. /\ phase = "playing" /\ phase' = phase /\ table' = "over"
          /\ saver' = [saver EXCEPT ![deals] = [pc |-> "read", game |-> 0]]
          /\ sent' = {}
          /\ UNCHANGED <<deals, savedGame, votes, rematchToken, rematchArmed, rematchTimers, emptied, torn>>
      BY <1>12 DEF LastMove
    <2>2. [pc |-> "read", game |-> 0] \in [pc : Pcs, game : 0..MaxDeals]
      BY <1>1 DEF Pcs
    <2>3. saver' \in [Deals -> [pc : Pcs, game : 0..MaxDeals]]
      BY <1>1, <2>1, <2>2 DEF GameTypes
    <2> QED
      BY <1>1, <1>2, <2>1, <2>3 DEF GameTypes
  <1>13. CASE Saving
    <2>1. ASSUME NEW d \in Deals, SaveRead(d) PROVE Goal
      <3> DEFINE next == IF table = "none" THEN [pc |-> "panic", game |-> 0]
                                           ELSE [pc |-> "write", game |-> deals]
      <3>1. /\ saver' = [saver EXCEPT ![d] = next] /\ sent' = {}
            /\ UNCHANGED <<phase, table, deals, savedGame, votes, rematchToken, rematchArmed,
                           rematchTimers, emptied, torn>>
        BY <2>1 DEF SaveRead
      <3>2. next \in [pc : Pcs, game : 0..MaxDeals]
        BY <1>1 DEF Pcs, GameTypes
      <3> HIDE DEF next
      <3>3. saver' \in [Deals -> [pc : Pcs, game : 0..MaxDeals]]
        BY <1>1, <3>1, <3>2 DEF GameTypes
      <3> QED
        BY <1>1, <1>2, <3>1, <3>3 DEF GameTypes
    <2>2. ASSUME NEW d \in Deals, NEW pc \in Pcs, SaveGoto(d, pc)
          PROVE  saver' \in [Deals -> [pc : Pcs, game : 0..MaxDeals]]
      <3> DEFINE next == [saver[d] EXCEPT !.pc = pc]
      <3>1. saver \in [Deals -> [pc : Pcs, game : 0..MaxDeals]]
        BY <1>1 DEF GameTypes
      <3>2. next \in [pc : Pcs, game : 0..MaxDeals]
        BY <3>1
      <3>3. saver' = [saver EXCEPT ![d] = next]
        BY <2>2, <3>1 DEF SaveGoto
      <3> HIDE DEF next
      <3> QED
        BY <3>1, <3>2, <3>3
    <2>3. ASSUME NEW d \in Deals, SaveWrite(d) PROVE Goal
      <3>1. /\ SaveGoto(d, "status") /\ sent' = {}
            /\ savedGame' \in {saver[d].game, savedGame}
            /\ UNCHANGED <<phase, table, deals, votes, rematchToken, rematchArmed,
                           rematchTimers, emptied, torn>>
        BY <2>3 DEF SaveWrite
      <3>2. saver' \in [Deals -> [pc : Pcs, game : 0..MaxDeals]] /\ saver[d].game \in 0..MaxDeals
        BY <1>1, <2>2, <3>1 DEF Pcs, GameTypes
      <3> QED
        BY <1>1, <1>2, <3>1, <3>2 DEF GameTypes
    <2>4. ASSUME NEW d \in Deals, SaveStatus(d) PROVE Goal
      <3>1. /\ SaveGoto(d, "announce") /\ sent' = {SetStatus("finished", d)}
            /\ UNCHANGED <<phase, table, deals, savedGame, votes, rematchToken, rematchArmed,
                           rematchTimers, emptied, torn>>
        BY <2>4 DEF SaveStatus
      <3>2. saver' \in [Deals -> [pc : Pcs, game : 0..MaxDeals]]
        BY <2>2, <3>1 DEF Pcs
      <3>3. SetStatus("finished", d) \in Calls
        BY <1>2 DEF Statuses
      <3> QED
        BY <1>1, <3>1, <3>2, <3>3 DEF GameTypes
    <2>5. ASSUME NEW d \in Deals, Announce(d) PROVE Goal
      <3> DEFINE pc == IF table = "none" THEN "panic" ELSE "done"
      <3>1. /\ SaveGoto(d, pc) /\ sent' = {} /\ votes' = {}
            /\ UNCHANGED <<phase, table, deals, savedGame, rematchToken, rematchArmed,
                           rematchTimers, emptied, torn>>
        BY <2>5 DEF Announce
      <3>2. pc \in Pcs
        BY DEF Pcs
      <3> HIDE DEF pc
      <3>3. saver' \in [Deals -> [pc : Pcs, game : 0..MaxDeals]]
        BY <2>2, <3>1, <3>2
      <3> QED
        BY <1>1, <1>2, <3>1, <3>3 DEF GameTypes
    <2> QED
      BY <1>13, <2>1, <2>3, <2>4, <2>5 DEF Saving
  <1>14. CASE Results
    <2>1. ASSUME NEW o \in Objects, VoteCounted(o) PROVE Goal
      <3>1. /\ votes' = votes \cup {obj[o].index} /\ sent' = {}
            /\ OpenCountdown \/ UNCHANGED <<rematchToken, rematchArmed, rematchTimers>>
            /\ UNCHANGED <<phase, table, deals, savedGame, saver, emptied, torn>>
        BY <2>1 DEF VoteCounted
      <3>2. rematchToken' \in Nat
        BY <1>1, <3>1 DEF OpenCountdown
      <3>3. rematchArmed' \in BOOLEAN
        BY <1>1, <3>1 DEF OpenCountdown
      <3>4. rematchTimers' \in SUBSET Nat
        <4>1. rematchToken + 1 \in Nat
          BY <1>1
        <4>2. rematchTimers' \subseteq rematchTimers \cup {rematchToken + 1}
          BY <3>1 DEF OpenCountdown
        <4> QED
          BY <1>1, <4>1, <4>2
      <3> QED
        BY <1>1, <1>2, <1>3, <3>1, <3>2, <3>3, <3>4 DEF GameTypes
    <2>2. ASSUME NEW o \in Objects, VoteStarts(o) PROVE Goal
      <3>1. /\ phase = "playing" /\ votes' = {} /\ StopCountdown /\ Deal
            /\ sent' = {SetStatus("in_progress", deals')}
            /\ UNCHANGED <<phase, emptied, torn>>
        BY <2>2 DEF VoteStarts
      <3>2. rematchToken' \in Nat
        BY <1>1, <3>1 DEF StopCountdown
      <3>3. rematchArmed' \in BOOLEAN
        BY <1>1, <3>1 DEF StopCountdown
      <3>4. rematchTimers' \in SUBSET Nat
        BY <1>1, <3>1 DEF StopCountdown
      <3>5. GameTypes' /\ deals' \in Deals
        BY <1>1, <3>1, <3>2, <3>3, <3>4 DEF GameTypes, Deal, Deals
      <3>6. SetStatus("in_progress", deals') \in Calls
        BY <1>2, <3>5 DEF Statuses
      <3> QED
        BY <3>1, <3>5, <3>6
    <2>3. ASSUME NEW o \in Objects, GoToWaitingRoom(o) PROVE Goal
      <3>1. /\ phase = "playing" /\ rematchTimers' = rematchTimers
            /\ ReturnToWaitingRoom(Kept(players, Connected(players)), Humans(players) \ Connected(players))
        BY <2>3 DEF GoToWaitingRoom
      <3>2. /\ rematchTimers' \in SUBSET rematchTimers
            /\ Humans(players) \ Connected(players) \in SUBSET Humans(players)
        BY <3>1
      <3> QED
        BY <1>6, <3>1, <3>2
    <2> QED
      BY <1>14, <2>1, <2>2, <2>3 DEF Results
  <1> QED
    BY <1>7, <1>8, <1>9, <1>10, <1>11, <1>12, <1>13, <1>14 DEF Next

-----------------------------------------------------------------------------
(* What is proved of a room.                                               *)

\* A new room satisfies the invariant.
LEMMA RoomStart == Init => RoomInv
  <1> SUFFICES ASSUME Init PROVE RoomInv
    OBVIOUS
  <1> USE RoomAssumption DEF Init
  <1>1. NoObject \in Object
    BY DEF NoObject, Object, Seats
  <1>2. Humans(players) = {} /\ DOMAIN players = {} /\ players \in Seq(Objects \cup {Bot}) /\ Len(players) = 0
    BY DEF Humans
  <1>3. SeatTypes
    BY <1>1, <1>2 DEF SeatTypes
  <1>4. RosterOK /\ LiveSeat /\ GraceRuns /\ KickedHasNoSeat /\ NoBotsInLobby
    BY <1>2 DEF RosterOK, LiveSeat, GraceRuns, KickedHasNoSeat, SubsOf, NoBotsInLobby
  <1>5. SeatsMade
    <2>1. \A o \in Objects : obj[o].disconnected = TRUE
      BY DEF NoObject
    <2> QED
      BY <1>2, <2>1 DEF SeatsMade
  <1>6. GameTypes
    <2>1. [pc |-> "idle", game |-> 0] \in [pc : Pcs, game : 0..MaxDeals]
      BY DEF Pcs
    <2>2. saver \in [Deals -> [pc : Pcs, game : 0..MaxDeals]]
      BY <2>1
    <2>3. rematchArmed \in BOOLEAN /\ emptied \in BOOLEAN /\ torn \in BOOLEAN
      OBVIOUS
    <2>4. deals \in 0..MaxDeals /\ savedGame \in 0..MaxDeals /\ rematchToken \in Nat
      OBVIOUS
    <2>5. votes \in SUBSET Seats /\ rematchTimers \in SUBSET Nat /\ phase # "playing" /\ table = "none"
      OBVIOUS
    <2> QED
      BY ONLY <2>2, <2>3, <2>4, <2>5 DEF GameTypes
  <1>7. CountdownOnlyAtResults /\ TokensGiven /\ sent \in SUBSET Calls
    BY DEF CountdownOnlyAtResults, TokensGiven
  <1> QED
    BY <1>3, <1>4, <1>5, <1>6, <1>7 DEF RoomInv, SeatInv

\* No step of a room leaves the inductive invariant.
LEMMA RoomInvStep ==
    ASSUME RoomInv, [Next]_vars
    PROVE  RoomInv'
  <1>1. SeatInv'
    BY SeatStep DEF RoomInv
  <1>2. CountdownOnlyAtResults' /\ TokensGiven'
    BY CountdownStep
  <1>3. GameTypes' /\ sent' \in SUBSET Calls
    BY TypesStep
  <1> QED
    BY <1>1, <1>2, <1>3 DEF RoomInv

\* Every state of a room, whatever joins, drops, kicks, timers, saves and votes
\* led to it, is a state of the inductive invariant.
THEOREM RoomInvariant == Spec => []RoomInv
  <1>1. Init => RoomInv
    BY RoomStart
  <1>2. RoomInv /\ [Next]_vars => RoomInv'
    BY RoomInvStep
  <1> QED
    BY <1>1, <1>2, PTL DEF Spec

\* For every room: one seat per identity, indices that are positions, a host who
\* is ready; a seat shown as connected exactly while the socket that joined last
\* for it is open; a grace timer for every seat held in the lobby; no seat for a
\* kicked identity (seatLocked, removeLobbyPlayerLocked, handleDisconnect,
\* handleKick, finalizeLobbyLeave).
THEOREM SeatsAgree == Spec => []SeatsOK
  <1>1. RoomInv => SeatsOK
    <2> SUFFICES ASSUME RoomInv PROVE SeatsOK
      OBVIOUS
    <2>1. SeatInv /\ GameTypes /\ sent \in SUBSET Calls
      BY DEF RoomInv
    <2>2. TypeOK
      BY <2>1 DEF TypeOK, SeatInv, SeatTypes, GameTypes, Pcs
    <2> QED
      BY <2>1, <2>2 DEF SeatsOK, SeatInv
  <1> QED
    BY <1>1, RoomInvariant, PTL

\* For every room: the timer that ends a rematch countdown never fires into the
\* next game or the lobby, and a countdown that is shown has its timer
\* (startRematchTimerLocked, stopRematchTimerLocked, handleRematchTimeout).
THEOREM CountdownsEndInTime == Spec => []ResultsOK
  <1>1. RoomInv => ResultsOK
    BY DEF RoomInv, SeatInv, ResultsOK
  <1> QED
    BY <1>1, RoomInvariant, PTL

\* A lobby step takes the seat of nobody but a user who is gone.
LEMMA SeatsLost ==
    ASSUME RoomInv, [Next]_vars, phase = "lobby", phase' = "lobby"
    PROVE  \A o \in Humans(players) \ Humans(players') : obj'[o].disconnected
  <1> USE DEF tableVars, voteVars, lifeVars, netVars
  <1> DEFINE Goal == \A o \in Humans(players) \ Humans(players') : obj'[o].disconnected
  <1>1. SeatInv /\ SeatTypes
    BY DEF RoomInv, SeatInv
  <1>2. ASSUME players' = players PROVE Goal
    BY <1>2
  <1>3. ASSUME NEW o, obj'[o].disconnected, \A p \in Humans(players) \ {o} : p \in Humans(players') PROVE Goal
    BY <1>3
  <1>4. ASSUME NEW token \in rematchTimers, token = rematchToken PROVE FALSE
    BY <1>4 DEF RoomInv, CountdownOnlyAtResults
  <1>5. CASE UNCHANGED vars
    BY <1>2, <1>5 DEF vars
  <1>6. CASE Joining
    <2>1. ASSUME NEW u \in Users, Reattach(u) PROVE Goal
      <3>1. players' = players
        BY <2>1 DEF Reattach
      <3> QED
        BY <1>2, <3>1
    <2>2. ASSUME NEW u \in Users, TakeSeat(u) PROVE Goal
      <3>1. players' = Append(players, joins + 1) /\ players \in Seq(Objects \cup {Bot})
        BY <1>1, <2>2 DEF TakeSeat, SeatTypes
      <3>2. \A i \in DOMAIN players : i \in DOMAIN players' /\ players'[i] = players[i]
        <4> HIDE DEF Goal
        <4> QED
          BY <3>1, <1>1, AtSeat DEF TakeSeat
      <3>3. \A o \in Humans(players) : o \in Humans(players')
        BY <3>2 DEF Humans
      <3> QED
        BY <3>3
    <2> QED
      BY <1>6, <2>1, <2>2 DEF Joining
  <1>7. CASE Dropping
    <2>1. players' = players
      BY <1>7 DEF Dropping, DropStale, DropInLobby, DropInGame
    <2> QED
      BY <1>2, <2>1
  <1>8. CASE Lobby
    <2>1. ASSUME NEW o \in Objects, NEW r \in BOOLEAN, SetReady(o, r) PROVE Goal
      BY <1>2, <2>1 DEF SetReady
    <2>2. ASSUME NEW o \in Objects, Leave(o) PROVE Goal
      BY <1>1, <1>3, <2>2, LeaveSeat
    <2>3. ASSUME NEW o \in Objects, NEW target \in Objects, Kick(o, target) PROVE Goal
      BY <1>1, <1>3, <2>3, KickSeat
    <2>4. ASSUME NEW o \in Objects, StartGame(o) PROVE FALSE
      BY <2>4 DEF StartGame
    <2>5. CASE Teardown
      BY <1>2, <2>5 DEF Teardown
    <2> QED
      BY <1>8, <2>1, <2>2, <2>3, <2>4, <2>5 DEF Lobby
  <1>9. CASE Timers
    <2>1. ASSUME NEW o, NEW token, LeaveTimerFires(o, token) PROVE Goal
      BY <1>1, <1>3, <2>1, LeaveTimerSeat
    <2>2. ASSUME NEW o, NEW token, LeaveTimerIgnored(o, token) PROVE Goal
      BY <1>2, <2>2 DEF LeaveTimerIgnored
    <2>3. ASSUME NEW token, RematchTimeout(token) \/ RematchTimeoutUnvoted(token) PROVE FALSE
      BY <1>4, <2>3 DEF RematchTimeout, RematchTimeoutUnvoted
    <2>4. ASSUME NEW token, RematchTimeoutIgnored(token) PROVE Goal
      BY <1>2, <2>4 DEF RematchTimeoutIgnored
    <2> QED
      BY <1>9, <2>1, <2>2, <2>3, <2>4 DEF Timers
  <1>10. CASE LastMove
    BY <1>2, <1>10 DEF LastMove
  <1>11. CASE Saving
    <2>1. players' = players
      BY <1>11 DEF Saving, SaveRead, SaveWrite, SaveStatus, Announce
    <2> QED
      BY <1>2, <2>1
  <1>12. CASE Results
    BY <1>12 DEF Results, VoteCounted, VoteStarts, GoToWaitingRoom
  <1> QED
    BY <1>5, <1>6, <1>7, <1>8, <1>9, <1>10, <1>11, <1>12 DEF Next

\* For every room: from one lobby state to the next, a seat is lost only by a
\* user who left, was kicked, or did not come back; no timer of an earlier drop,
\* of the lobby or of a rematch, takes the seat of a player who is there
\* (finalizeLobbyLeave, handleLobbyLeave, handleKick, handleRematchTimeout).
THEOREM SeatsKept == Spec => SeatsAreKept
  <1>1. RoomInv /\ [Next]_vars =>
          [phase = "lobby" /\ phase' = "lobby" =>
              \A o \in Humans(players) \ Humans(players') : obj'[o].disconnected]_vars
    BY SeatsLost
  <1> QED
    BY <1>1, RoomInvariant, PTL DEF Spec, SeatsAreKept

-----------------------------------------------------------------------------
(* What is proved of a room with the API that lists it.                    *)

\* The room's invariant, and what the API has stored.
RowsInv ==
    /\ RoomInv
    /\ rows \in SUBSET Users /\ kickedRows \in SUBSET Users
    /\ status \in Statuses \cup {"deleted"}
    /\ admitting \in SUBSET Users /\ counted \in SUBSET Users
    /\ calls \in SUBSET Calls
    /\ DeletedRoomIsEmpty

\* A call that is served leaves the rows within their types, deletes no room
\* that somebody is a member of, and lets nobody in.
LEMMA ServeFacts ==
    ASSUME RowsInv, NEW call \in Calls, Serve(call)
    PROVE  /\ rows' \in SUBSET rows /\ kickedRows' \in SUBSET Users
           /\ status' \in Statuses \cup {"deleted"}
           /\ DeletedRoomIsEmpty'
  <1>1. /\ rows \in SUBSET Users /\ kickedRows \in SUBSET Users
        /\ status \in Statuses \cup {"deleted"} /\ (status = "deleted" => rows = {})
    BY DEF RowsInv, DeletedRoomIsEmpty
  <1>2. CASE ServeRemove(call)
    BY <1>1, <1>2 DEF ServeRemove, DeletedRoomIsEmpty
  <1>3. CASE ServeKick(call)
    <2>1. call.user \in Users
      BY <1>3 DEF ServeKick, Calls
    <2> QED
      BY <1>1, <1>3, <2>1 DEF ServeKick, DeletedRoomIsEmpty
  <1>4. CASE ServeStatus(call)
    <2>1. call.to \in Statuses
      BY <1>4 DEF ServeStatus, Calls
    <2>2. /\ NextStatus(status, call.to) \in {status, call.to}
          /\ status = "deleted" => NextStatus(status, call.to) = "deleted"
      BY DEF NextStatus, Transitions
    <2>3. /\ status' \in {status, call.to} /\ (status = "deleted" => status' = "deleted")
          /\ rows' = rows /\ kickedRows' = kickedRows
      BY <1>4, <2>2 DEF ServeStatus
    <2>4. status' = "deleted" => status = "deleted"
      BY <2>1, <2>3 DEF Statuses
    <2> QED
      BY <1>1, <2>1, <2>3, <2>4 DEF DeletedRoomIsEmpty
  <1> QED
    BY <1>2, <1>3, <1>4 DEF Serve

\* So does a room the API has just created.
LEMMA RowsStart == ApiInit => RowsInv
  <1> SUFFICES ASSUME ApiInit PROVE RowsInv
    OBVIOUS
  <1>1. RoomInv
    BY RoomStart DEF ApiInit
  <1> QED
    BY <1>1 DEF ApiInit, RowsInv, DeletedRoomIsEmpty, Statuses

\* A step of the room keeps the room's invariant, and what it does to the rows
\* is a call served, or nothing.
LEMMA RoomStepFacts ==
    ASSUME RowsInv, RoomStep
    PROVE  RowsInv' /\ rows' \subseteq rows /\ UNCHANGED <<admitting, counted>>
  <1>1. RoomInv'
    BY RoomInvStep DEF RowsInv, RoomStep
  <1>2. sent' \in SUBSET Calls
    BY <1>1 DEF RoomInv
  <1>3. calls' \in SUBSET Calls /\ UNCHANGED <<admitting, counted>>
    BY <1>2 DEF RowsInv, RoomStep
  <1>4. \/ \E call \in Calls : Serve(call)
        \/ UNCHANGED <<rows, kickedRows, status>>
    BY <1>2 DEF RoomStep, Awaited, Lost
  <1>5. /\ rows' \in SUBSET rows /\ kickedRows' \in SUBSET Users
        /\ status' \in Statuses \cup {"deleted"} /\ DeletedRoomIsEmpty'
    <2>1. CASE \E call \in Calls : Serve(call)
      BY <2>1, ServeFacts
    <2>2. CASE UNCHANGED <<rows, kickedRows, status>>
      BY <2>2 DEF RowsInv, DeletedRoomIsEmpty
    <2> QED
      BY <1>4, <2>1, <2>2
  <1> QED
    BY <1>1, <1>3, <1>5 DEF RowsInv

\* No step of the API, a join or a call that arrives, changes the room.
LEMMA RowsStep ==
    ASSUME RowsInv, [ApiNext]_allVars
    PROVE  RowsInv'
  <1>1. CASE UNCHANGED allVars
    <2>1. RoomInv'
      BY <1>1, RoomInvStep DEF allVars, RowsInv
    <2> QED
      BY <1>1, <2>1 DEF allVars, apiVars, RowsInv, DeletedRoomIsEmpty
  <1>2. CASE RoomStep
    BY <1>2, RoomStepFacts
  <1>3. ASSUME NEW u \in Users, AdmitCheck(u) \/ AdmitCount(u) \/ AdmitInsert(u) PROVE RowsInv'
    <2>1. RoomInv'
      BY <1>3, RoomInvStep DEF AdmitCheck, AdmitCount, AdmitInsert, RowsInv
    <2>2. CASE AdmitCheck(u)
      BY <2>1, <2>2 DEF AdmitCheck, RowsInv, DeletedRoomIsEmpty
    <2>3. CASE AdmitCount(u)
      BY <2>1, <2>3 DEF AdmitCount, RowsInv, DeletedRoomIsEmpty
    <2>4. CASE AdmitInsert(u)
      BY <2>1, <2>4 DEF AdmitInsert, RoomWaits, RowsInv, DeletedRoomIsEmpty
    <2> QED
      BY <1>3, <2>2, <2>3, <2>4
  <1>4. ASSUME NEW call \in calls, Arrive(call) PROVE RowsInv'
    <2>1. RoomInv'
      BY <1>4, RoomInvStep DEF Arrive, RowsInv
    <2>2. call \in Calls /\ calls' \in SUBSET Calls /\ UNCHANGED <<admitting, counted>>
      BY <1>4 DEF Arrive, RowsInv
    <2>3. Serve(call) \/ UNCHANGED <<rows, kickedRows, status>>
      BY <1>4 DEF Arrive, Lost
    <2>4. /\ rows' \in SUBSET rows /\ kickedRows' \in SUBSET Users
          /\ status' \in Statuses \cup {"deleted"} /\ DeletedRoomIsEmpty'
      <3>1. CASE Serve(call)
        BY <2>2, <3>1, ServeFacts
      <3>2. CASE UNCHANGED <<rows, kickedRows, status>>
        BY <3>2 DEF RowsInv, DeletedRoomIsEmpty
      <3> QED
        BY <2>3, <3>1, <3>2
    <2> QED
      BY <2>1, <2>2, <2>4 DEF RowsInv
  <1> QED
    BY <1>1, <1>2, <1>3, <1>4 DEF ApiNext

\* For every room and every order in which its calls arrive, or fail: the
\* members of a room the API has deleted are none, so no join that was under way
\* lands in it (AddPlayerToRoom, RemovePlayerFromRoom, UpdateRoomStatus).
THEOREM RowsFitTheRoom == ApiSpec => []RowsOK
  <1>1. ApiInit => RowsInv
    BY RowsStart
  <1>2. RowsInv /\ [ApiNext]_allVars => RowsInv'
    BY RowsStep
  <1>3. RowsInv => RowsOK
    <2> SUFFICES ASSUME RowsInv PROVE RowsOK
      OBVIOUS
    <2>1. TypeOK
      BY DEF RowsInv, RoomInv, TypeOK, SeatInv, SeatTypes, GameTypes, Pcs
    <2> QED
      BY <2>1 DEF RowsInv, RowsOK, ApiTypeOK
  <1> QED
    BY <1>1, <1>2, <1>3, PTL DEF ApiSpec

\* For every room: the API lets no kicked user in that is out of the room and
\* has no join under way, whatever calls of the room arrive late
\* (AddPlayerToRoom, KickPlayerFromRoom).
THEOREM KickedUsersStayOut == ApiSpec => KickedNeverReturns
  <1> DEFINE reach == rows \cup admitting \cup counted
  <1>1. RowsInv /\ [ApiNext]_allVars => [\A u \in kickedRows \ reach : u \notin reach']_allVars
    <2> SUFFICES ASSUME RowsInv, ApiNext PROVE \A u \in kickedRows \ reach : u \notin reach'
      OBVIOUS
    <2>1. CASE RoomStep
      BY <2>1, RoomStepFacts
    <2>2. ASSUME NEW v \in Users, AdmitCheck(v) \/ AdmitCount(v) \/ AdmitInsert(v)
          PROVE  \A u \in kickedRows \ reach : u \notin reach'
      BY <2>2 DEF AdmitCheck, AdmitCount, AdmitInsert, NotKicked
    <2>3. ASSUME NEW call \in calls, Arrive(call)
          PROVE  \A u \in kickedRows \ reach : u \notin reach'
      <3>1. call \in Calls /\ UNCHANGED <<admitting, counted>>
        BY <2>3 DEF Arrive, RowsInv
      <3>2. Serve(call) \/ rows' = rows
        BY <2>3 DEF Arrive, Lost
      <3>3. rows' \subseteq rows
        BY <3>1, <3>2, ServeFacts
      <3> QED
        BY <3>1, <3>3
    <2> QED
      BY <2>1, <2>2, <2>3 DEF ApiNext
  <1>2. ApiInit => RowsInv
    BY RowsStart
  <1>3. RowsInv /\ [ApiNext]_allVars => RowsInv'
    BY RowsStep
  <1> QED
    BY <1>1, <1>2, <1>3, PTL DEF ApiSpec, KickedNeverReturns, reach

=============================================================================
