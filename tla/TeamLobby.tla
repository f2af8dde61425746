------------------------------- MODULE TeamLobby -------------------------------
(***************************************************************************)
(* The waiting room of a 2v2 game (services/ws/internal/room/lobby.go):    *)
(* players take places in team 0, choose a team while they are not ready,   *)
(* and the host's start fills the places left with bots of the smallest     *)
(* team.  Room has the rest of the lobby; here a seat is its team, its     *)
(* ready flag and its connection, the first seat being the host's.         *)
(***************************************************************************)
EXTENDS Integers, Sequences, FiniteSets, SequencesExt

CONSTANTS
    TeamSeats,      \* room.maxPlayers(): 4 or 6 in team mode
    TeamMin         \* startThresholdLocked

ASSUME TeamAssumption ==
    /\ TeamSeats \in Nat /\ TeamSeats % 2 = 0 /\ TeamSeats > 0
    /\ TeamMin \in 1..TeamSeats

NumTeams == TeamSeats \div 2
Teams == 0..(NumTeams - 1)
TeamCap == 2

VARIABLES
    places,         \* room.players
    underway        \* room.phase = phasePlaying

teamVars == <<places, underway>>

Seat == [team : Teams, ready : BOOLEAN, connected : BOOLEAN, bot : BOOLEAN]

Members(roster, t) == {i \in DOMAIN roster : roster[i].team = t}
Size(roster, t) == Cardinality(Members(roster, t))

\* The first seat is the host's and always ready.
HostReady(roster) ==
    IF roster = <<>> THEN roster ELSE [roster EXCEPT ![1].ready = TRUE]

-----------------------------------------------------------------------------
\* A mutant of HasRoom: one seat too many.
HasRoomForOneMore == Len(places) <= TeamSeats

HasRoom == Len(places) < TeamSeats

\* addLobbyPlayerLocked: the team of a new player object is 0.
Join ==
    /\ ~underway /\ HasRoom
    /\ places' = Append(places, [team |-> 0, ready |-> places = <<>>,
                               connected |-> TRUE, bot |-> FALSE])
    /\ UNCHANGED underway

\* A socket drops or comes back; the seat is held.
Drop(i) ==
    /\ ~underway /\ places[i].connected
    /\ places' = [places EXCEPT ![i].connected = FALSE]
    /\ UNCHANGED underway

Resume(i) ==
    /\ ~underway /\ ~places[i].connected
    /\ places' = [places EXCEPT ![i].connected = TRUE]
    /\ UNCHANGED underway

\* A leave, a kick or the end of the grace period frees the seat.
Leave(i) ==
    /\ ~underway
    /\ places' = HostReady(RemoveAt(places, i))
    /\ UNCHANGED underway

SetReady(i, r) ==
    /\ ~underway /\ places[i].connected
    /\ i # 1
    /\ places' = [places EXCEPT ![i].ready = r]
    /\ UNCHANGED underway

\* A mutant of TeamIsFull: the third member is let in.
TeamIsOverfull(i, t) == Cardinality(Members(places, t) \ {i}) > TeamCap

TeamIsFull(i, t) == Cardinality(Members(places, t) \ {i}) >= TeamCap

SetTeam(i, t) ==
    /\ ~underway /\ places[i].connected
    /\ ~places[i].ready
    /\ ~TeamIsFull(i, t)
    /\ places' = [places EXCEPT ![i].team = t]
    /\ UNCHANGED underway

-----------------------------------------------------------------------------
\* A mutant of BotTeam: every bot joins the first team.
BotTeamFirst(roster) == 0

\* The first of the smallest teams.
BotTeam(roster) ==
    CHOOSE t \in Teams :
        /\ \A u \in Teams : Size(roster, t) <= Size(roster, u)
        /\ \A u \in 0..(t - 1) : Size(roster, t) < Size(roster, u)

\* The roster with one more bot.
WithBot(roster) ==
    Append(roster, [team |-> BotTeam(roster), ready |-> TRUE, connected |-> TRUE, bot |-> TRUE])

\* The roster once the bots have taken those that are free, one after the other.
Filled(roster) ==
    LET fill[n \in Nat] == IF n = 0 THEN roster ELSE WithBot(fill[n - 1])
    IN  fill[TeamSeats - Len(roster)]

\* A mutant of TeamsManned: the empty team is only looked for among all places,
\* the disconnected ones that are about to be dropped included.
TeamsMannedByAll == \A t \in Teams : Size(places, t) > 0

TeamsManned ==
    \A t \in Teams : \E i \in Members(places, t) : places[i].connected

\* Who stays when the game starts, in the order they sit.
Connected ==
    LET at == {i \in DOMAIN places : places[i].connected}
    IN  [k \in 1..Cardinality(at) |->
            places[CHOOSE i \in at : Cardinality(at \cap 1..i) = k]]

\* handleStartGame.
Start ==
    /\ ~underway
    /\ places # <<>> /\ places[1].connected
    /\ \A i \in DOMAIN places : places[i].connected => places[i].ready
    /\ Len(Connected) >= TeamMin
    /\ TeamsManned
    /\ places' = Filled(Connected)
    /\ underway' = TRUE

TeamInit == places = <<>> /\ underway = FALSE

TeamNext ==
    \/ Join \/ Start
    \/ \E i \in DOMAIN places :
          \/ Drop(i) \/ Resume(i) \/ Leave(i)
          \/ \E r \in BOOLEAN : SetReady(i, r)
          \/ \E t \in Teams : SetTeam(i, t)

TeamSpec == TeamInit /\ [][TeamNext]_teamVars

-----------------------------------------------------------------------------
(* Properties.                                                             *)

TeamTypeOK ==
    /\ places \in Seq(Seat) /\ Len(places) <= TeamSeats
    /\ underway \in BOOLEAN

HumanSize(t) == Cardinality({i \in Members(places, t) : ~places[i].bot})

\* The start places a full table with a human in every team, whoever dropped
\* before it; and the bots even the teams out: when the humans left room for two
\* in each team, every team has two (handleStartGame's fill).
StartIsBalanced ==
    underway =>
        /\ Len(places) = TeamSeats
        /\ \A t \in Teams : HumanSize(t) > 0
        /\ (\A t \in Teams : HumanSize(t) <= TeamCap)
              => \A t \in Teams : Size(places, t) = TeamCap

\* Only the team that newcomers are put in can hold more than two: no order of
\* choices, departures and returns overfills another (handleSetTeam's cap).
OnlyTeamZeroOverflows ==
    \A t \in Teams \ {0} : HumanSize(t) <= TeamCap

\* A 2v2 lobby keeps to its seats, its start is balanced, and only the team
\* of the newcomers outgrows its two places (handleSetTeam, handleStartGame).
TeamsSound == TeamTypeOK /\ StartIsBalanced /\ OnlyTeamZeroOverflows

\* --- a statement of the documents that does not hold ---

\* "Each team has exactly 2 members" (docs/specs/custom-game-modes.md), of a
\* game that has started.
TeamsOfTwo == underway => \A t \in Teams : Size(places, t) = 2
=============================================================================
