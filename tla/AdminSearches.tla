---------------------------- MODULE AdminSearches ----------------------------
(***************************************************************************)
(* The pages of the admin console that search records by filters, a page at *)
(* a time: users, rooms and games, and the audit log.  The first three keep *)
(* filters and offset in their state, ask in a timer of their own, and keep *)
(* the old rows until the answer is there.  The audit log has them in its   *)
(* address, is mounted anew for every address, and asks at once.  A filter  *)
(* is a model value; an offset is the number of a page of PageSize rows.    *)
(***************************************************************************)
EXTENDS Naturals

CONSTANTS Filters,      \* choices of filters
          PageSize,     \* rows of a full page
          MaxRows,      \* bound on the records of a filter
          MaxCalls      \* bound on the requests under way

ASSUME SearchAssumption == PageSize \in Nat \ {0} /\ MaxRows \in Nat /\ MaxCalls \in Nat \ {0}

VARIABLES found,        \* how many records the API has for each filter
          search,       \* the state of the page, of one of the two kinds
          asked         \* its requests, the cancelled ones too

searchVars == <<found, search, asked>>

\* The last page that MaxRows let the pager reach.
LastPage  == MaxRows \div PageSize + 1
Questions == [filter : Filters, page : 0..LastPage]
NoRows    == [filter |-> "none", page |-> 0]
Calls     == 1..MaxCalls
NoCall    == [st |-> "none", of |-> NoRows, live |-> FALSE, count |-> 0]

\* The rows of a page of the records a filter finds.
Count(question) ==
  LET before == question.page * PageSize
      after  == IF found[question.filter] > before THEN found[question.filter] - before ELSE 0
  IN IF after > PageSize THEN PageSize ELSE after

-----------------------------------------------------------------------------
(* The API.                                                                *)

ServeSearch(c) ==
  /\ asked[c].st = "sent"
  /\ asked' \in {[asked EXCEPT ![c].st = "answered", ![c].count = Count(asked[c].of)],
                 [asked EXCEPT ![c].st = "failed"]}
  /\ UNCHANGED <<found, search>>

RecordAdded(f) ==
  /\ found[f] < MaxRows
  /\ found' = [found EXCEPT ![f] = @ + 1]
  /\ UNCHANGED <<search, asked>>

-----------------------------------------------------------------------------
(* The pages.                                                              *)

\* Mutant: requests are left to themselves.
LeftAlone == asked

Cancelled == [c \in Calls |-> IF asked[c].st = "none" THEN NoCall ELSE [asked[c] EXCEPT !.live = FALSE]]

\* A request leaves: whatever was asked before is no longer waited for.
Send(question) ==
  \E c \in Calls :
    /\ asked[c].st = "none"
    /\ asked' = [Cancelled EXCEPT ![c] = [NoCall EXCEPT !.st = "sent", !.of = question, !.live = TRUE]]

\* The effect runs for a new question or a new access token.  Investigations
\* arm their timer and wait with everything else; the audit log starts over.
AskFor(question) ==
  IF search.audit
  THEN /\ search' = [search EXCEPT !.asked = question, !.rows = NoRows, !.count = 0,
                                   !.loading = TRUE, !.failed = FALSE, !.exporting = FALSE]
       /\ Send(question)
  ELSE /\ search' = [search EXCEPT !.asked = question, !.timer = TRUE]
       /\ asked' = Cancelled

ChangeFilters(f) ==
  /\ f # search.asked.filter \/ (search.audit /\ search.asked.page # 0)
  /\ AskFor([filter |-> f, page |-> 0]) /\ UNCHANGED found

\* The pager: the audit log has none while it loads or after an error.
MayTurn  == ~search.loading /\ (search.audit => ~search.failed)

PreviousPage ==
  /\ MayTurn /\ search.asked.page > 0
  /\ AskFor([search.asked EXCEPT !.page = @ - 1]) /\ UNCHANGED found

NextPage ==
  /\ MayTurn /\ search.count = PageSize
  /\ search.asked.page < LastPage
  /\ AskFor([search.asked EXCEPT !.page = @ + 1]) /\ UNCHANGED found

\* A new token asks again, and takes nothing away.
TokenIsRefreshed ==
  /\ IF search.audit THEN Send(search.asked) /\ UNCHANGED search
     ELSE search' = [search EXCEPT !.timer = TRUE] /\ asked' = Cancelled
  /\ UNCHANGED found

TimerFires ==
  /\ search.timer
  /\ search' = [search EXCEPT !.timer = FALSE, !.loading = TRUE]
  /\ Send(search.asked) /\ UNCHANGED found

\* The answer to a request; only the one still waited for is shown.  The audit
\* log does not clear an error when a later answer is good.
Arrives(c) ==
  /\ asked[c].st \in {"answered", "failed"}
  /\ asked' = [asked EXCEPT ![c] = NoCall]
  /\ search' = IF ~asked[c].live THEN search
               ELSE IF asked[c].st = "failed"
               THEN [search EXCEPT !.loading = FALSE, !.failed = TRUE]
               ELSE [search EXCEPT !.loading = FALSE, !.failed = @ /\ search.audit,
                                   !.rows = asked[c].of, !.count = asked[c].count]
  /\ UNCHANGED found

\* Exporting the audit log clears the error first; it reports its own.  The
\* filters are taken to have a range of dates the export accepts.
Export ==
  /\ search.audit /\ ~search.exporting
  /\ search' = [search EXCEPT !.exporting = TRUE, !.failed = FALSE]
  /\ UNCHANGED <<found, asked>>

ExportEnds ==
  /\ search.exporting
  /\ \E failed \in BOOLEAN :
       search' = [search EXCEPT !.exporting = FALSE, !.failed = @ \/ failed]
  /\ UNCHANGED <<found, asked>>

-----------------------------------------------------------------------------
SearchesInit ==
  /\ found \in [Filters -> 0..MaxRows]
  /\ \E audit \in BOOLEAN, f \in Filters :
       LET question == [filter |-> f, page |-> 0]
       IN /\ search = [audit |-> audit, asked |-> question, rows |-> NoRows, count |-> 0,
                       timer |-> ~audit, loading |-> TRUE, failed |-> FALSE, exporting |-> FALSE]
          /\ asked = [c \in Calls |-> IF audit /\ c = 1
                                      THEN [NoCall EXCEPT !.st = "sent", !.of = question, !.live = TRUE]
                                      ELSE NoCall]

SearchesNext ==
  \/ \E c \in Calls : ServeSearch(c) \/ Arrives(c)
  \/ \E f \in Filters : RecordAdded(f) \/ ChangeFilters(f)
  \/ PreviousPage \/ NextPage \/ TokenIsRefreshed \/ TimerFires
  \/ Export \/ ExportEnds

SearchesSpec == SearchesInit /\ [][SearchesNext]_searchVars

-----------------------------------------------------------------------------
Waiting == search.timer \/ \E c \in Calls : asked[c].live

View == INSTANCE LatestAnswer WITH Questions <- Questions, Nothing <- NoRows,
          asked <- search.asked, shown <- search.rows, settled <- ~Waiting

\* However requests and answers cross, a search page shows nothing or the
\* answer to a question it asked, and goes on only to that of the latest.
ShowsLatestAnswer == View!Spec

\* --- what a user of the console would expect, and does not hold ---

\* "No audit events match" is said of an answer, not of a request that failed.
EmptyMeansNone ==
  search.audit /\ ~search.loading /\ ~search.failed /\ search.count = 0 => search.rows # NoRows

\* A page is turned from the page that is shown.
TurnsFromShown ==
  [][search'.asked.filter = search.asked.filter /\ search'.asked.page = search.asked.page + 1
       => search.rows = search.asked]_searchVars
=============================================================================
