----------------------------- MODULE DailyLogin -----------------------------
(***************************************************************************)
(* The daily login of the lobby page: the card with its button, the GETs    *)
(* that fill it when the page loads and when its window is focused, and the *)
(* claim, whose day the API reads from its clock before it waits for the    *)
(* user's row.                                                              *)
(***************************************************************************)
EXTENDS Naturals, FiniteSets, FiniteSetsExt

CONSTANTS LastDay,      \* days go by from 1 to LastDay (a bound)
          Claims        \* claims under way at a time (a bound)

ASSUME LoginAssumption == LastDay \in Nat \ {0}

VARIABLES day,          \* the API's clock
          enabled,      \* the setting daily_login
          row,          \* user_login_progress
          paid,         \* how often a day's XP was added to user_stats
          claim,        \* claims under way
          load,         \* the newest GET; answers of older ones are ignored
          card,         \* the page: what the card shows
          late          \* history: claims committed after one of a later day

loginVars == <<day, enabled, row, paid, claim, load, card, late>>

Days == 1..LastDay
NoClaim == [st |-> "none", day |-> 0, mounted |-> FALSE]
NoLoad  == [st |-> "none", claimed |-> FALSE, enabled |-> FALSE]
FreshCard == [shows |-> "loading", claimed |-> FALSE, enabled |-> FALSE, claiming |-> FALSE]

-----------------------------------------------------------------------------
(* The API.                                                                *)

Midnight ==
  /\ day < LastDay /\ day' = day + 1
  /\ UNCHANGED <<enabled, row, paid, claim, load, card, late>>

SwitchSetting ==
  /\ enabled' = ~enabled
  /\ UNCHANGED <<day, row, paid, claim, load, card, late>>

ServeLoad ==
  /\ load.st = "sent"
  /\ load' = [st |-> "done", claimed |-> row.last = day, enabled |-> enabled]
  /\ UNCHANGED <<day, enabled, row, paid, claim, card, late>>

\* The handler passes time.Now() to ClaimDailyLogin, ...
ClaimIsStamped(c) ==
  /\ claim[c].st = "sent"
  /\ claim' = [claim EXCEPT ![c].st = "stamped", ![c].day = day]
  /\ UNCHANGED <<day, enabled, row, paid, load, card, late>>

\* Mutant: a claim of the row's own day goes on from it.
GrownAgain(d) ==
  LET streak == IF row.last \in {d, d - 1} /\ row.last # 0 THEN row.streak + 1 ELSE 1
  IN [last |-> d, streak |-> streak, best |-> Max({row.best, streak})]

\* Claims on consecutive days grow the streak, a gap starts it again.
Grown(d) ==
  LET streak == IF row.last = d THEN row.streak
                ELSE IF row.last # 0 /\ row.last = d - 1 THEN row.streak + 1 ELSE 1
  IN [last |-> d, streak |-> streak, best |-> Max({row.best, streak})]

\* ... which takes the setting and the row's lock, and pays unless the row has
\* the day.
ClaimCommits(c) ==
  LET d == claim[c].day
  IN /\ claim[c].st = "stamped"
     /\ IF ~enabled THEN claim' = [claim EXCEPT ![c].st = "disabled"] /\ UNCHANGED <<row, paid, late>>
        ELSE /\ row' = Grown(d)
             /\ paid' = IF row.last = d THEN paid ELSE [paid EXCEPT ![d] = @ + 1]
             /\ late' = IF d < row.last THEN late + 1 ELSE late
             /\ claim' = [claim EXCEPT ![c].st = "done"]
     /\ UNCHANGED <<day, enabled, load, card>>

\* The answer, or the request before it is served, gets lost.
ClaimIsLost(c) ==
  /\ claim[c].st \notin {"none", "failed"}
  /\ claim' = [claim EXCEPT ![c].st = "failed"]
  /\ UNCHANGED <<day, enabled, row, paid, load, card, late>>

-----------------------------------------------------------------------------
(* The page.                                                               *)

LoadLogin ==
  /\ card.shows # "away"
  /\ load' = [NoLoad EXCEPT !.st = "sent"]
  /\ UNCHANGED <<day, enabled, row, paid, claim, card, late>>

LoadArrives ==
  /\ load.st \in {"sent", "done"}
  /\ card' = IF load.st = "sent" THEN [card EXCEPT !.shows = "error"]
             ELSE [card EXCEPT !.shows = "progress", !.claimed = load.claimed, !.enabled = load.enabled]
  /\ load' = NoLoad
  /\ UNCHANGED <<day, enabled, row, paid, claim, late>>

ClickClaim(c) ==
  /\ card.shows = "progress" /\ card.enabled /\ ~card.claimed /\ ~card.claiming
  /\ claim[c].st = "none"
  /\ claim' = [claim EXCEPT ![c] = [NoClaim EXCEPT !.st = "sent", !.mounted = TRUE]]
  /\ card' = [card EXCEPT !.claiming = TRUE]
  /\ UNCHANGED <<day, enabled, row, paid, load, late>>

\* The answer of a claim goes to the card whatever was asked or answered since.
ClaimReturns(c) ==
  /\ claim[c].st \in {"done", "disabled", "failed"}
  /\ claim' = [claim EXCEPT ![c] = NoClaim]
  /\ card' = LET rest == [card EXCEPT !.claiming = FALSE]
             IN CASE ~claim[c].mounted -> card
                  [] claim[c].mounted /\ claim[c].st = "failed" -> rest
                  [] claim[c].mounted /\ claim[c].st = "disabled" -> [rest EXCEPT !.enabled = FALSE]
                  [] claim[c].mounted /\ claim[c].st = "done" ->
                       [rest EXCEPT !.shows = "progress", !.claimed = TRUE, !.enabled = TRUE]
  /\ UNCHANGED <<day, enabled, row, paid, load, late>>

\* Leaving the page forgets the card and its flag, not the claims.
LeavePage ==
  /\ card.shows # "away"
  /\ card' = [FreshCard EXCEPT !.shows = "away"]
  /\ load' = NoLoad
  /\ claim' = [c \in Claims |-> [claim[c] EXCEPT !.mounted = FALSE]]
  /\ UNCHANGED <<day, enabled, row, paid, late>>

OpenPage ==
  /\ card.shows = "away"
  /\ card' = FreshCard
  /\ load' = [NoLoad EXCEPT !.st = "sent"]
  /\ UNCHANGED <<day, enabled, row, paid, claim, late>>

-----------------------------------------------------------------------------
LoginInit ==
  /\ day = 1 /\ enabled = TRUE
  /\ row = [last |-> 0, streak |-> 0, best |-> 0]
  /\ paid = [d \in Days |-> 0]
  /\ claim = [c \in Claims |-> NoClaim]
  /\ load = NoLoad
  /\ card = [FreshCard EXCEPT !.shows = "away"]
  /\ late = 0

LoginNext ==
  \/ Midnight \/ SwitchSetting \/ ServeLoad
  \/ LoadLogin \/ LoadArrives \/ LeavePage \/ OpenPage
  \/ \E c \in Claims : ClaimIsStamped(c) \/ ClaimCommits(c) \/ ClaimIsLost(c) \/ ClickClaim(c) \/ ClaimReturns(c)

LoginSpec == LoginInit /\ [][LoginNext]_loginVars

-----------------------------------------------------------------------------
Claimed == {d \in Days : paid[d] > 0}
Runs == {d \in Claimed \X Claimed : d[1]..d[2] \subseteq Claimed}
Lengths(runs) == {0} \union {d[2] + 1 - d[1] : d \in runs}

\* A day pays once, and the streak is as long as the unbroken days up to the
\* last one claimed, however often a card that is stale, a lost answer, a second
\* visit or a second claim under way makes the player claim again.  What breaks
\* this is a claim stamped before midnight that commits after one stamped later:
\* it takes the row's day back, and each such claim lets a day pay once more.
StreakIsEarned ==
  /\ \A d \in Days : paid[d] <= 1 + late
  /\ late = 0 => /\ row.last = Max({0} \union Claimed)
                 /\ row.streak = Max(Lengths({r \in Runs : r[2] = row.last}))
                 /\ row.best = Max(Lengths(Runs))

\* --- what the lock of the row and the page's counter are for, and do not hold ---

\* A day pays once, however claims cross.
PaidOnceADay == \A d \in Days : paid[d] <= 1

\* A card that says the day is claimed does not take it back on the same day:
\* the claim does not count as a request, so a load sent before it still lands.
ClaimedStaysClaimed ==
  [][card.shows = "progress" /\ card.claimed /\ row.last = day /\ day' = day
       => card'.shows # "progress" \/ card'.claimed]_loginVars
=============================================================================
