------------------------- MODULE AdminConsoleProofs -------------------------
(***************************************************************************)
(* The admin console, for every number of items, records, requests under    *)
(* way and versions, each page by itself.  A search implements the abstract *)
(* view, and a page of a list that is paged in the browser is not empty     *)
(* while the list is not.  A save of the settings leaves numbers that fit   *)
(* together; a skin that is on has an image of its own that is published;   *)
(* each change of an event is recorded once and, as each rename of a user,  *)
(* is of what the administrator saw; an invitation makes one account.  Each *)
(* part has an invariant of its own, which its steps keep.                  *)
(***************************************************************************)
EXTENDS AdminSearches, AdminCatalogs, AdminSettings, AdminSkins, AdminEvents, AdminDossiers, AdminStaff,
        Integers, TLAPS, FiniteSetTheorems

-----------------------------------------------------------------------------
(* Searches.                                                               *)

Shown == Questions \cup {NoRows}

Asked == [st : {"none", "sent", "answered", "failed"}, of : Shown, live : BOOLEAN, count : Int]

Pages == [audit : BOOLEAN, asked : Questions, rows : Shown, count : Int,
          timer : BOOLEAN, loading : BOOLEAN, failed : BOOLEAN, exporting : BOOLEAN]

SearchTypes ==
  /\ found \in [Filters -> Int]
  /\ search \in Pages
  /\ asked \in [Calls -> Asked]
  /\ \A c \in Calls : asked[c].st # "none" => asked[c].of \in Questions

\* The request that is waited for asks the question of now, and then no timer
\* is armed that would ask again.
LiveIsLatest ==
  \A c \in Calls : asked[c].live => /\ asked[c].st # "none"
                                    /\ asked[c].of = search.asked
                                    /\ ~search.timer

AuditHasNoTimer == search.audit => ~search.timer

OneIsLive == \A c, d \in Calls : asked[c].live /\ asked[d].live => c = d

SearchInv == SearchTypes /\ AuditHasNoTimer /\ LiveIsLatest /\ OneIsLive

\* A page is counted in whole numbers.
LEMMA CountType ==
    ASSUME found \in [Filters -> Int], NEW question \in Questions
    PROVE  Count(question) \in Int
  <1>1. PageSize \in Int /\ question.filter \in Filters
    BY SearchAssumption DEF Questions
  <1>2. question.page \in Int
    BY DEF Questions
  <1>3. question.page * PageSize \in Int
    BY <1>1, <1>2
  <1>4. found[question.filter] \in Int
    BY <1>1
  <1> QED
    BY <1>1, <1>3, <1>4 DEF Count

LEMMA FirstPage ==
    ASSUME NEW f \in Filters
    PROVE  [filter |-> f, page |-> 0] \in Questions
  <1>1. LastPage \in Int /\ LastPage >= 0
    BY SearchAssumption DEF LastPage
  <1> QED
    BY <1>1 DEF Questions

LEMMA ShownType == Questions \subseteq Shown /\ NoRows \in Shown
  BY DEF Shown

LEMMA NoCallType == NoCall \in Asked
  BY ShownType DEF NoCall, Asked

LEMMA SentType ==
    ASSUME NEW r \in Asked, NEW q \in Shown
    PROVE  LET fresh == [r EXCEPT !.st = "sent", !.of = q, !.live = TRUE]
           IN fresh \in Asked /\ fresh.live /\ fresh.st = "sent" /\ fresh.of = q
  BY DEF Asked

LEMMA CancelledType ==
    ASSUME SearchTypes
    PROVE  /\ Cancelled \in [Calls -> Asked]
           /\ \A c \in Calls : /\ ~Cancelled[c].live
                               /\ Cancelled[c].st # "none" => Cancelled[c].of \in Questions
  BY NoCallType DEF SearchTypes, Cancelled, Asked, NoCall

\* What is left of the requests once a new one is under way.
LEMMA SendOne ==
    ASSUME SearchTypes, NEW question \in Questions, Send(question)
    PROVE  /\ asked' \in [Calls -> Asked]
           /\ \A c \in Calls : asked'[c].st # "none" => asked'[c].of \in Questions
           /\ \E c \in Calls : /\ asked'[c].live /\ asked'[c].st # "none" /\ asked'[c].of = question
                               /\ \A d \in Calls : asked'[d].live => d = c
  <1>1. PICK c \in Calls : asked' = [Cancelled EXCEPT ![c] = [NoCall EXCEPT !.st = "sent", !.of = question, !.live = TRUE]]
    BY DEF Send
  <1> DEFINE fresh == [NoCall EXCEPT !.st = "sent", !.of = question, !.live = TRUE]
  <1>2. fresh \in Asked /\ fresh.live /\ fresh.st = "sent" /\ fresh.of = question
    BY NoCallType, ShownType, SentType
  <1> HIDE DEF fresh
  <1>3. asked' = [Cancelled EXCEPT ![c] = fresh]
    BY <1>1 DEF fresh
  <1>4. asked' \in [Calls -> Asked]
    BY <1>2, <1>3, CancelledType
  <1>5. asked'[c] = fresh /\ \A d \in Calls \ {c} : asked'[d] = Cancelled[d]
    BY <1>3, CancelledType
  <1>6. \A d \in Calls : asked'[d].st # "none" => asked'[d].of \in Questions
    BY <1>2, <1>5, CancelledType
  <1>7. \A d \in Calls : asked'[d].live => d = c
    BY <1>5, CancelledType
  <1>8. asked'[c].live /\ asked'[c].st # "none" /\ asked'[c].of = question
    BY <1>2, <1>5
  <1>9. \E e \in Calls : /\ asked'[e].live /\ asked'[e].st # "none" /\ asked'[e].of = question
                         /\ \A d \in Calls : asked'[d].live => d = e
    BY <1>7, <1>8
  <1> QED
    BY <1>4, <1>6, <1>9

LEMMA SearchInitInv == SearchesInit => SearchInv
  <1> SUFFICES ASSUME SearchesInit PROVE SearchInv
    OBVIOUS
  <1>1. PICK audit \in BOOLEAN, f \in Filters :
          /\ search = [audit |-> audit, asked |-> [filter |-> f, page |-> 0], rows |-> NoRows, count |-> 0,
                       timer |-> ~audit, loading |-> TRUE, failed |-> FALSE, exporting |-> FALSE]
          /\ asked = [c \in Calls |-> IF audit /\ c = 1
                                      THEN [NoCall EXCEPT !.st = "sent", !.of = [filter |-> f, page |-> 0], !.live = TRUE]
                                      ELSE NoCall]
    BY DEF SearchesInit
  <1>2. [filter |-> f, page |-> 0] \in Questions
    BY FirstPage
  <1>3. found \in [Filters -> Int]
    BY DEF SearchesInit
  <1>4. SearchTypes
    BY <1>1, <1>2, <1>3, NoCallType, ShownType DEF SearchTypes, Pages, Asked, NoCall
  <1>5. AuditHasNoTimer /\ LiveIsLatest /\ OneIsLive
    BY <1>1 DEF AuditHasNoTimer, LiveIsLatest, OneIsLive, NoCall
  <1> QED
    BY <1>4, <1>5 DEF SearchInv

LEMMA ServeInv ==
    ASSUME SearchInv, NEW c \in Calls, ServeSearch(c)
    PROVE  /\ SearchInv'
           /\ \A d \in Calls : asked'[d].live = asked[d].live
  <1>1. asked[c].of \in Questions /\ asked \in [Calls -> Asked]
    BY DEF SearchInv, SearchTypes, ServeSearch
  <1>2. Count(asked[c].of) \in Int
    BY <1>1, CountType DEF SearchInv, SearchTypes
  <1> DEFINE n == Count(asked[c].of)
  <1>3. \/ asked' = [asked EXCEPT ![c].st = "answered", ![c].count = n]
        \/ asked' = [asked EXCEPT ![c].st = "failed"]
    BY DEF ServeSearch
  <1>4. n \in Int
    BY <1>2
  <1> HIDE DEF n
  <1>5. asked' \in [Calls -> Asked]
    BY <1>1, <1>3, <1>4 DEF Asked
  <1>6. \A d \in Calls : /\ asked'[d].live = asked[d].live /\ asked'[d].of = asked[d].of
                         /\ asked'[d].st = "none" => asked[d].st = "none"
                         /\ asked[d].st = "none" => asked'[d].st = "none"
    BY <1>1, <1>3 DEF Asked, ServeSearch
  <1> QED
    BY <1>5, <1>6 DEF SearchInv, SearchTypes, AuditHasNoTimer, LiveIsLatest, OneIsLive, ServeSearch

\* What the pages do to their state, for any state of its type.
LEMMA NewQuestionType ==
    ASSUME NEW r \in Pages, NEW q \in Questions
    PROVE  LET over == [r EXCEPT !.asked = q, !.rows = NoRows, !.count = 0,
                                 !.loading = TRUE, !.failed = FALSE, !.exporting = FALSE]
           IN /\ over \in Pages /\ over.asked = q /\ over.rows = NoRows
              /\ over.timer = r.timer
  <1> DEFINE over == [r EXCEPT !.asked = q, !.rows = NoRows, !.count = 0,
                               !.loading = TRUE, !.failed = FALSE, !.exporting = FALSE]
  <1>1. over.asked = q /\ over.rows = NoRows /\ over.timer = r.timer
    BY DEF Pages
  <1>2. \A nothing \in Shown, none \in Int :
           [r EXCEPT !.asked = q, !.rows = nothing, !.count = none] \in Pages
    BY DEF Pages
  <1> NoRows \in Shown /\ 0 \in Int
    BY ShownType
  <1>3. [r EXCEPT !.asked = q, !.rows = NoRows, !.count = 0] \in Pages
    BY <1>2, Zenon
  <1>4. \A p \in Pages : [p EXCEPT !.loading = TRUE, !.failed = FALSE, !.exporting = FALSE] \in Pages
    BY DEF Pages
  <1>5. over = [[r EXCEPT !.asked = q, !.rows = NoRows, !.count = 0]
                  EXCEPT !.loading = TRUE, !.failed = FALSE, !.exporting = FALSE]
    OBVIOUS
  <1>6. over \in Pages
    BY <1>3, <1>4, <1>5
  <1> QED
    BY <1>1, <1>6

LEMMA FailureType ==
    ASSUME NEW r \in Pages
    PROVE  LET refused == [r EXCEPT !.loading = FALSE, !.failed = TRUE]
           IN /\ refused \in Pages /\ refused.asked = r.asked /\ refused.rows = r.rows
              /\ refused.timer = r.timer /\ refused.audit = r.audit
  BY DEF Pages

LEMMA TimerType ==
    ASSUME NEW r \in Pages
    PROVE  /\ LET armed == [r EXCEPT !.timer = TRUE]
              IN armed \in Pages /\ armed.asked = r.asked /\ armed.rows = r.rows
                 /\ armed.timer = TRUE /\ armed.audit = r.audit
           /\ LET fired == [r EXCEPT !.timer = FALSE, !.loading = TRUE]
              IN fired \in Pages /\ fired.asked = r.asked /\ fired.rows = r.rows
                 /\ fired.timer = FALSE /\ fired.audit = r.audit
  BY DEF Pages

\* A new question, or the question of now asked again, on either kind of page.
LEMMA AskForInv ==
    ASSUME SearchInv, NEW question \in Questions, AskFor(question), found' = found
    PROVE  SearchInv' /\ View!Ask(question)
  <1>1. search \in Pages /\ SearchTypes /\ found \in [Filters -> Int]
    BY DEF SearchInv, SearchTypes
  <1>2. CASE search.audit
    <2>a. search' = [search EXCEPT !.asked = question, !.rows = NoRows, !.count = 0,
                                   !.loading = TRUE, !.failed = FALSE, !.exporting = FALSE]
      BY <1>2 DEF AskFor
    <2>b. /\ search' \in Pages /\ search'.asked = question /\ search'.rows = NoRows
          /\ search'.timer = search.timer
      BY <2>a, <1>1, NewQuestionType
    <2>1. /\ search' \in Pages /\ search'.asked = question /\ search'.rows = NoRows
          /\ ~search'.timer
      BY <2>b, <1>2 DEF SearchInv, AuditHasNoTimer
    <2>2. Send(question)
      BY <1>2 DEF AskFor
    <2>3. PICK e \in Calls : /\ asked'[e].live /\ asked'[e].st # "none" /\ asked'[e].of = question
                            /\ \A d \in Calls : asked'[d].live => d = e
      BY <2>2, <1>1, SendOne
    <2>4. SearchTypes'
      BY <2>1, <2>2, <1>1, SendOne DEF SearchTypes
    <2>5. AuditHasNoTimer' /\ LiveIsLatest' /\ OneIsLive'
      BY <2>1, <2>3 DEF AuditHasNoTimer, LiveIsLatest, OneIsLive
    <2>6. Waiting'
      BY <2>3 DEF Waiting
    <2>7. View!Ask(question)
      BY <2>1, <2>6 DEF View!Ask
    <2> QED
      BY <2>4, <2>5, <2>7 DEF SearchInv
  <1>3. CASE ~search.audit
    <2>1. /\ search' \in Pages /\ search'.asked = question /\ search'.rows = search.rows
          /\ search'.timer /\ ~search'.audit /\ asked' = Cancelled
      BY <1>1, <1>3 DEF AskFor, Pages
    <2>2. SearchTypes'
      BY <2>1, <1>1, CancelledType DEF SearchTypes
    <2>3. AuditHasNoTimer' /\ LiveIsLatest' /\ OneIsLive'
      BY <2>1, <1>1, CancelledType DEF AuditHasNoTimer, LiveIsLatest, OneIsLive
    <2>4. Waiting'
      BY <2>1 DEF Waiting
    <2>5. View!Ask(question)
      BY <2>1, <2>4 DEF View!Ask
    <2> QED
      BY <2>2, <2>3, <2>5 DEF SearchInv
  <1> QED
    BY <1>2, <1>3

\* A new token asks the question of now again.
LEMMA TokenInv ==
    ASSUME SearchInv, TokenIsRefreshed
    PROVE  SearchInv' /\ View!Ask(search.asked)
  <1>1. search \in Pages /\ SearchTypes /\ found' = found
    BY DEF SearchInv, SearchTypes, TokenIsRefreshed
  <1>2. search.asked \in Questions
    BY <1>1 DEF Pages
  <1>3. CASE search.audit
    <2>1. Send(search.asked) /\ search' = search /\ ~search.timer
      BY <1>3 DEF TokenIsRefreshed, SearchInv, AuditHasNoTimer
    <2>2. PICK e \in Calls : /\ asked'[e].live /\ asked'[e].st # "none" /\ asked'[e].of = search.asked
                            /\ \A d \in Calls : asked'[d].live => d = e
      BY <2>1, <1>1, <1>2, SendOne
    <2>3. SearchTypes'
      BY <2>1, <1>1, <1>2, SendOne DEF SearchTypes
    <2>4. AuditHasNoTimer' /\ LiveIsLatest' /\ OneIsLive'
      BY <2>1, <2>2 DEF AuditHasNoTimer, LiveIsLatest, OneIsLive
    <2>5. Waiting'
      BY <2>2 DEF Waiting
    <2>6. View!Ask(search.asked)
      BY <2>1, <2>5 DEF View!Ask
    <2> QED
      BY <2>3, <2>4, <2>6 DEF SearchInv
  <1>4. CASE ~search.audit
    <2>1. search' = [search EXCEPT !.timer = TRUE] /\ asked' = Cancelled
      BY <1>4 DEF TokenIsRefreshed
    <2>2. /\ search' \in Pages /\ search'.asked = search.asked /\ search'.rows = search.rows
          /\ search'.timer /\ ~search'.audit
      BY <2>1, <1>1, <1>4, TimerType
    <2>3. SearchTypes'
      BY <2>1, <2>2, <1>1, CancelledType DEF SearchTypes
    <2>4. AuditHasNoTimer' /\ LiveIsLatest' /\ OneIsLive'
      BY <2>1, <2>2, <1>1, CancelledType DEF AuditHasNoTimer, LiveIsLatest, OneIsLive
    <2>5. Waiting'
      BY <2>2 DEF Waiting
    <2>6. View!Ask(search.asked)
      BY <2>2, <2>5 DEF View!Ask
    <2> QED
      BY <2>3, <2>4, <2>6 DEF SearchInv
  <1> QED
    BY <1>3, <1>4

\* The timer was waited for; now its request is.
LEMMA TimerInv ==
    ASSUME SearchInv, TimerFires
    PROVE  SearchInv' /\ UNCHANGED View!vars
  <1>1. search \in Pages /\ SearchTypes /\ search.timer /\ Send(search.asked)
    BY DEF SearchInv, SearchTypes, TimerFires
  <1>2. search.asked \in Questions
    BY <1>1 DEF Pages
  <1>3. /\ search' \in Pages /\ search'.asked = search.asked /\ search'.rows = search.rows
        /\ ~search'.timer
    BY <1>1, TimerType DEF TimerFires
  <1>4. PICK e \in Calls : /\ asked'[e].live /\ asked'[e].st # "none" /\ asked'[e].of = search.asked
                          /\ \A d \in Calls : asked'[d].live => d = e
    BY <1>1, <1>2, SendOne
  <1>5. SearchTypes'
    BY <1>1, <1>2, <1>3, SendOne DEF SearchTypes, TimerFires
  <1>6. AuditHasNoTimer' /\ LiveIsLatest' /\ OneIsLive'
    BY <1>3, <1>4 DEF AuditHasNoTimer, LiveIsLatest, OneIsLive
  <1>7. Waiting /\ Waiting'
    BY <1>1, <1>4 DEF Waiting
  <1> QED
    BY <1>3, <1>5, <1>6, <1>7 DEF SearchInv, View!vars

\* An answer that is waited for settles the question; any other changes nothing.
LEMMA ArrivesInv ==
    ASSUME SearchInv, NEW c \in Calls, Arrives(c)
    PROVE  SearchInv' /\ (View!Answer \/ View!Fail \/ UNCHANGED View!vars)
  <1>1. /\ search \in Pages /\ found \in [Filters -> Int] /\ asked \in [Calls -> Asked]
        /\ asked[c] \in Asked /\ asked[c].of \in Questions /\ found' = found
    BY DEF SearchInv, SearchTypes, Arrives
  <1>2. asked' = [asked EXCEPT ![c] = NoCall]
    BY DEF Arrives
  <1>3. /\ asked' \in [Calls -> Asked]
        /\ asked'[c] = NoCall /\ \A d \in Calls \ {c} : asked'[d] = asked[d]
    BY <1>1, <1>2, NoCallType
  <1>4. ~asked'[c].live /\ asked'[c].st = "none"
    BY <1>3 DEF NoCall
  <1>5. CASE asked[c].live
    <2>1. asked[c].of = search.asked /\ ~search.timer
      BY <1>5 DEF SearchInv, LiveIsLatest
    <2>2. \A d \in Calls : ~asked'[d].live
      BY <1>3, <1>4, <1>5 DEF SearchInv, OneIsLive
    <2>3. Waiting
      BY <1>5 DEF Waiting
    <2>4. \A d \in Calls : asked'[d].st # "none" => asked'[d].of \in Questions
      BY <1>3, <1>4 DEF SearchInv, SearchTypes
    <2>5. CASE asked[c].st = "failed"
      <3>1. search' = [search EXCEPT !.loading = FALSE, !.failed = TRUE]
        BY <1>5, <2>5 DEF Arrives
      <3>2. /\ search' \in Pages /\ search'.asked = search.asked /\ search'.rows = search.rows
            /\ ~search'.timer
        BY <3>1, <1>1, <2>1, FailureType
      <3>3. ~Waiting'
        BY <3>2, <2>2 DEF Waiting
      <3>4. View!Fail
        BY <3>2, <3>3, <2>3 DEF View!Fail
      <3>5. SearchInv'
        BY <1>1, <1>3, <2>2, <2>4, <3>2
           DEF SearchInv, SearchTypes, AuditHasNoTimer, LiveIsLatest, OneIsLive
      <3> QED
        BY <3>4, <3>5
    <2>6. CASE asked[c].st # "failed"
      <3>1. search' = [search EXCEPT !.loading = FALSE, !.failed = @ /\ search.audit,
                                     !.rows = asked[c].of, !.count = asked[c].count]
        BY <1>5, <2>6 DEF Arrives
      <3>2. asked[c].of \in Shown /\ asked[c].count \in Int
        BY <1>1, ShownType DEF Asked
      <3> DEFINE failed == search.failed /\ search.audit
      <3>a. search' = [search EXCEPT !.loading = FALSE, !.failed = failed,
                                     !.rows = asked[c].of, !.count = asked[c].count]
        BY <3>1
      <3>b. failed \in BOOLEAN
        OBVIOUS
      <3> HIDE DEF failed
      <3>3. /\ search' \in Pages /\ search'.asked = search.asked /\ search'.rows = search.asked
            /\ ~search'.timer
        BY <3>a, <3>b, <3>2, <1>1, <2>1 DEF Pages
      <3>4. ~Waiting'
        BY <3>3, <2>2 DEF Waiting
      <3>5. View!Answer
        BY <3>3, <3>4, <2>3 DEF View!Answer
      <3>6. SearchInv'
        BY <1>1, <1>3, <2>2, <2>4, <3>3
           DEF SearchInv, SearchTypes, AuditHasNoTimer, LiveIsLatest, OneIsLive
      <3> QED
        BY <3>5, <3>6
    <2> QED
      BY <2>5, <2>6
  <1>6. CASE ~asked[c].live
    <2>1. search' = search
      BY <1>6 DEF Arrives
    <2>2. \A d \in Calls : (asked'[d].live <=> asked[d].live)
      BY <1>3, <1>4, <1>6
    <2>3. \A d \in Calls : asked'[d].live => asked'[d] = asked[d]
      BY <1>3, <1>4
    <2>4. \A d \in Calls : asked'[d].st # "none" => asked'[d].of \in Questions
      BY <1>3, <1>4 DEF SearchInv, SearchTypes
    <2>5. SearchInv'
      BY <1>1, <1>3, <2>1, <2>2, <2>3, <2>4
         DEF SearchInv, SearchTypes, AuditHasNoTimer, LiveIsLatest, OneIsLive
    <2>6. Waiting' <=> Waiting
      BY <2>1, <2>2 DEF Waiting
    <2>7. UNCHANGED View!vars
      BY <2>1, <2>6 DEF View!vars, Waiting
    <2> QED
      BY <2>5, <2>7
  <1> QED
    BY <1>5, <1>6

\* A step that leaves the question, the rows and what is waited for alone.
LEMMA AsideStutters ==
    ASSUME search'.asked = search.asked, search'.rows = search.rows,
           search'.timer = search.timer, \A d \in Calls : asked'[d].live = asked[d].live
    PROVE  UNCHANGED View!vars
  <1>1. Waiting' <=> Waiting
    BY DEF Waiting
  <1>2. (~Waiting)' = ~Waiting
    BY <1>1 DEF Waiting
  <1> QED
    BY <1>2 DEF View!vars

\* The export of the audit log is no question, and a new record no answer.
LEMMA ExportInv ==
    ASSUME SearchInv, Export \/ ExportEnds
    PROVE  SearchInv' /\ UNCHANGED View!vars
  <1>1. search \in Pages /\ found' = found /\ asked' = asked
    BY DEF SearchInv, SearchTypes, Export, ExportEnds
  <1>2. PICK b \in BOOLEAN, failed \in BOOLEAN :
          search' = [search EXCEPT !.exporting = b, !.failed = failed]
    <2>1. CASE Export
      BY <2>1 DEF Export
    <2>2. CASE ExportEnds
      <3>1. PICK failed \in BOOLEAN : search' = [search EXCEPT !.exporting = FALSE, !.failed = search.failed \/ failed]
        BY <2>2 DEF ExportEnds
      <3> DEFINE either == search.failed \/ failed
      <3>2. search' = [search EXCEPT !.exporting = FALSE, !.failed = either] /\ either \in BOOLEAN
        BY <3>1
      <3> HIDE DEF either
      <3> QED
        BY <3>2
    <2> QED
      BY <2>1, <2>2
  <1>3. /\ search' \in Pages /\ search'.asked = search.asked /\ search'.rows = search.rows
        /\ search'.timer = search.timer /\ search'.audit = search.audit
    BY <1>1, <1>2 DEF Pages
  <1>4. SearchInv'
    BY <1>1, <1>3 DEF SearchInv, SearchTypes, AuditHasNoTimer, LiveIsLatest, OneIsLive
  <1> QED
    BY <1>1, <1>3, <1>4, AsideStutters

LEMMA RecordInv ==
    ASSUME SearchInv, NEW f \in Filters, RecordAdded(f)
    PROVE  SearchInv' /\ UNCHANGED View!vars
  <1>1. found \in [Filters -> Int] /\ search' = search /\ asked' = asked
    BY DEF SearchInv, SearchTypes, RecordAdded
  <1>2. found' \in [Filters -> Int]
    BY <1>1 DEF RecordAdded
  <1>3. SearchInv'
    BY <1>1, <1>2 DEF SearchInv, SearchTypes, AuditHasNoTimer, LiveIsLatest, OneIsLive
  <1> QED
    BY <1>1, <1>3, AsideStutters

\* The page before and the page after are pages of the same filter.
LEMMA NeighbourType ==
    ASSUME NEW q \in Questions
    PROVE  /\ q.page > 0 => [q EXCEPT !.page = @ - 1] \in Questions
           /\ q.page < LastPage => [q EXCEPT !.page = @ + 1] \in Questions
  <1>1. LastPage \in Int
    BY SearchAssumption DEF LastPage
  <1>2. q.page \in 0..LastPage
    BY DEF Questions
  <1>3. \A n \in 0..LastPage : [q EXCEPT !.page = n] \in Questions
    BY DEF Questions
  <1>4. q.page > 0 => q.page - 1 \in 0..LastPage
    BY <1>1, <1>2
  <1>5. q.page < LastPage => q.page + 1 \in 0..LastPage
    BY <1>1, <1>2
  <1> QED
    BY <1>3, <1>4, <1>5, Zenon

\* Every step keeps the invariant and is a step of the view, or none.
LEMMA SearchStep ==
    ASSUME SearchInv, [SearchesNext]_searchVars
    PROVE  SearchInv' /\ [View!Next]_View!vars
  <1>1. ASSUME NEW c \in Calls, ServeSearch(c)
        PROVE  SearchInv' /\ [View!Next]_View!vars
    <2>1. SearchInv' /\ (\A d \in Calls : asked'[d].live = asked[d].live) /\ search' = search
      BY <1>1, ServeInv DEF ServeSearch
    <2> QED
      BY <2>1, AsideStutters
  <1>2. ASSUME NEW c \in Calls, Arrives(c)
        PROVE  SearchInv' /\ [View!Next]_View!vars
    BY <1>2, ArrivesInv DEF View!Next
  <1>3. ASSUME NEW f \in Filters, RecordAdded(f)
        PROVE  SearchInv' /\ [View!Next]_View!vars
    BY <1>3, RecordInv
  <1>4. ASSUME NEW f \in Filters, ChangeFilters(f)
        PROVE  SearchInv' /\ [View!Next]_View!vars
    <2>1. PICK question \in Questions : AskFor(question) /\ found' = found
      BY <1>4, FirstPage DEF ChangeFilters
    <2> QED
      BY <2>1, AskForInv DEF View!Next
  <1>5. CASE PreviousPage \/ NextPage
    <2>1. search.asked \in Questions
      BY DEF SearchInv, SearchTypes, Pages
    <2>2. PICK question \in Questions : AskFor(question) /\ found' = found
      BY <1>5, <2>1, NeighbourType DEF PreviousPage, NextPage
    <2> QED
      BY <2>2, AskForInv DEF View!Next
  <1>6. CASE TokenIsRefreshed
    <2>1. search.asked \in Questions
      BY DEF SearchInv, SearchTypes, Pages
    <2> QED
      BY <1>6, <2>1, TokenInv DEF View!Next
  <1>7. CASE TimerFires
    BY <1>7, TimerInv
  <1>8. CASE Export \/ ExportEnds
    BY <1>8, ExportInv
  <1>9. CASE UNCHANGED searchVars
    <2>1. found' = found /\ search' = search /\ asked' = asked
      BY <1>9 DEF searchVars
    <2>2. SearchInv'
      BY <2>1 DEF SearchInv, SearchTypes, AuditHasNoTimer, LiveIsLatest, OneIsLive
    <2> QED
      BY <2>1, <2>2, AsideStutters
  <1> QED
    BY <1>1, <1>2, <1>3, <1>4, <1>5, <1>6, <1>7, <1>8, <1>9 DEF SearchesNext

LEMMA SearchInitView == SearchesInit => View!Init
  <1> SUFFICES ASSUME SearchesInit PROVE View!Init
    OBVIOUS
  <1>1. PICK audit \in BOOLEAN, f \in Filters :
          /\ search = [audit |-> audit, asked |-> [filter |-> f, page |-> 0], rows |-> NoRows, count |-> 0,
                       timer |-> ~audit, loading |-> TRUE, failed |-> FALSE, exporting |-> FALSE]
          /\ asked = [c \in Calls |-> IF audit /\ c = 1
                                      THEN [NoCall EXCEPT !.st = "sent", !.of = [filter |-> f, page |-> 0], !.live = TRUE]
                                      ELSE NoCall]
    BY DEF SearchesInit
  <1>2. search.asked \in Questions /\ search.rows = NoRows
    BY <1>1, FirstPage
  <1>3. 1 \in Calls
    BY SearchAssumption DEF Calls
  <1>4. audit => asked[1].live
    BY <1>1, <1>3 DEF NoCall
  <1>5. Waiting
    BY <1>1, <1>3, <1>4 DEF Waiting
  <1> QED
    BY <1>2, <1>5 DEF View!Init

\* However many filters, pages and requests there are: what a search of the
\* console does is what the abstract view may do, step by step, so the rows
\* shown never change to the answer of a question that was given up.
THEOREM SearchesImplementLatestAnswer == SearchesSpec => ShowsLatestAnswer
  <1>1. SearchesInit => SearchInv /\ View!Init
    BY SearchInitInv, SearchInitView
  <1>2. SearchInv /\ [SearchesNext]_searchVars => SearchInv' /\ [View!Next]_View!vars
    BY SearchStep
  <1> QED
    BY <1>1, <1>2, PTL DEF SearchesSpec, ShowsLatestAnswer, View!Spec

-----------------------------------------------------------------------------
(* Lists.                                                                  *)

Stocks == [Choices -> Nat]

CatalogTypes ==
  /\ items \in Stocks
  /\ catalog \in [filter : Choices, page : Nat \ {0}, loading : BOOLEAN, failed : BOOLEAN, items : Stocks]
  /\ loads \in [Loads -> [st : {"none", "sent", "answered", "failed"}, items : Stocks]]

\* The last page, and so every page up to it, begins within the items.
LEMMA PageBegins ==
    ASSUME NEW s \in Nat \ {0}, NEW n \in Nat \ {0}, NEW p \in Nat \ {0},
           p <= (n + s - 1) \div s
    PROVE  (p - 1) * s < n
  <1> DEFINE t == (n + s - 1) \div s
  <1>1. t \in Int /\ t * s <= n + s - 1
    OBVIOUS
  <1> HIDE DEF t
  <1>2. p <= t
    BY DEF t
  <1>3. p * s <= t * s
    BY <1>1, <1>2
  <1>4. (p - 1) * s = p * s - s
    OBVIOUS
  <1>5. p * s \in Int /\ t * s \in Int
    BY <1>1
  <1> QED
    BY <1>1, <1>3, <1>4, <1>5

LEMMA CurrentPageType ==
    ASSUME CatalogTypes
    PROVE  /\ Filtered \in Nat /\ TotalPages \in Nat \ {0} /\ CurrentPage \in Nat \ {0}
           /\ CurrentPage <= TotalPages /\ TotalPages \in Nat
  <1>1. Filtered \in Nat /\ catalog.page \in Nat \ {0} /\ ShelfSize \in Nat \ {0}
    BY CatalogAssumption DEF CatalogTypes, Stocks, Filtered
  <1>2. Filtered # 0 => (Filtered + ShelfSize - 1) \div ShelfSize \in Nat \ {0}
    BY <1>1
  <1>3. TotalPages \in Nat \ {0}
    BY <1>2 DEF TotalPages
  <1> QED
    BY <1>1, <1>3 DEF CurrentPage

LEMMA CatalogTypesHaveItems == CatalogTypes => PageHasItems
  <1> SUFFICES ASSUME CatalogTypes, Filtered > 0 PROVE Visible # {}
    BY DEF PageHasItems
  <1>1. /\ Filtered \in Nat \ {0} /\ CurrentPage \in Nat \ {0} /\ ShelfSize \in Nat \ {0}
        /\ CurrentPage <= TotalPages
    BY CurrentPageType, CatalogAssumption
  <1>2. CurrentPage <= (Filtered + ShelfSize - 1) \div ShelfSize
    BY <1>1 DEF TotalPages
  <1> DEFINE before == (CurrentPage - 1) * ShelfSize
             after  == CurrentPage * ShelfSize
  <1>3. before < Filtered
    BY <1>1, <1>2, PageBegins
  <1>4. before \in Nat /\ after \in Nat /\ after = before + ShelfSize
    BY <1>1
  <1>5. before + 1 \in 1..Filtered /\ before < before + 1 /\ before + 1 <= after
    <2> HIDE DEF before, after
    <2> QED
      BY <1>1, <1>3, <1>4
  <1>6. before + 1 \in Visible
    BY <1>5 DEF Visible
  <1> QED
    BY <1>6

LEMMA CatalogInitTypes == CatalogsInit => CatalogTypes
  BY CatalogAssumption DEF CatalogsInit, CatalogTypes, Stocks, NoLoad

LEMMA CatalogStep == CatalogTypes /\ [CatalogsNext]_catalogVars => CatalogTypes'
  <1> SUFFICES ASSUME CatalogTypes, [CatalogsNext]_catalogVars PROVE CatalogTypes'
    OBVIOUS
  <1>1. ASSUME NEW l \in Loads, ServeList(l) PROVE CatalogTypes'
    BY <1>1 DEF CatalogTypes, ServeList
  <1>2. ASSUME NEW l \in Loads, ListArrives(l) PROVE CatalogTypes'
    <2>1. NoLoad \in [st : {"none", "sent", "answered", "failed"}, items : Stocks]
      BY DEF NoLoad, Stocks
    <2>2. loads[l].items \in Stocks
      BY DEF CatalogTypes
    <2> QED
      BY <1>2, <2>1, <2>2 DEF CatalogTypes, ListArrives
  <1>3. ASSUME NEW f \in Choices, ItemsChange(f) PROVE CatalogTypes'
    BY <1>3, CatalogAssumption DEF CatalogTypes, ItemsChange, Stocks
  <1>4. ASSUME NEW f \in Choices, Choose(f) PROVE CatalogTypes'
    <2>1. PICK n \in Nat \ {0} : catalog' = [catalog EXCEPT !.filter = f, !.page = n]
      <3>1. 1 \in Nat \ {0}
        OBVIOUS
      <3> QED
        BY <1>4, <3>1, Zenon DEF Choose
    <2> QED
      BY <1>4, <2>1 DEF CatalogTypes, Choose
  <1>5. CASE LoadAgain
    BY <1>5 DEF CatalogTypes, LoadAgain
  <1>6. CASE PreviousShelf \/ NextShelf
    <2>1. PICK n \in Nat \ {0} : catalog' = [catalog EXCEPT !.page = n]
      BY <1>6, CurrentPageType DEF PreviousShelf, NextShelf
    <2> QED
      BY <1>6, <2>1 DEF CatalogTypes, PreviousShelf, NextShelf
  <1>7. CASE UNCHANGED catalogVars
    BY <1>7 DEF CatalogTypes, catalogVars
  <1> QED
    BY <1>1, <1>2, <1>3, <1>4, <1>5, <1>6, <1>7 DEF CatalogsNext

\* Whatever the list becomes under its pager, and however late the answer: a
\* list with items is never shown as an empty page.
THEOREM ListsNeverShowAnEmptyPage == CatalogsSpec => []PageHasItems
  BY CatalogInitTypes, CatalogStep, CatalogTypesHaveItems, PTL DEF CatalogsSpec

-----------------------------------------------------------------------------
(* Settings.                                                               *)

Configs == [on : BOOLEAN, base : 1..MaxXP, step : 0..1, max : 1..MaxXP]

SaveStates == {"idle", "sent", "checked", "refused", "written", "lost"}

SettingTypes ==
    /\ stored \in Configs
    /\ settings \in [loading : BOOLEAN, known : BOOLEAN, edit : Configs, kept : Configs]
    /\ reading \in [st : {"idle", "sent", "answered", "failed"}, config : Configs, fresh : BOOLEAN]
    /\ save \in [st : SaveStates, todo : Seq(Fields), target : Configs]
    /\ straight \in BOOLEAN
    /\ UnderWay => Len(save.todo) >= 1

\* The place of a setting among the PUTs of a save: a maximum goes before the
\* numbers it bounds if it rises, and after them otherwise.
Rank(field, target, kept) ==
    CASE field = "max"  -> IF target.max > kept.max THEN 1 ELSE 4
      [] field = "base" -> 2
      [] field = "step" -> 3
      [] field = "on"   -> 5

\* The settings of a list of PUTs, from one of them on.
FieldsFrom(todo, n) == {todo[i] : i \in n..Len(todo)}

InOrder(todo, target, kept) ==
    \A i, j \in 1..Len(todo) : i < j => Rank(todo[i], target, kept) < Rank(todo[j], target, kept)

\* A save in order that nothing crossed: what was put is as it should become,
\* the rest as the page last knew it.
OnItsWay ==
    straight /\ save.st \in {"sent", "checked", "written"} =>
      LET target == save.target
          kept   == settings.kept
          rest   == FieldsFrom(save.todo, IF save.st = "written" THEN 2 ELSE 1)
      IN /\ InOrder(save.todo, target, kept)
         /\ "max" \in FieldsFrom(save.todo, 1) => target.max # kept.max
         /\ \A f \in Fields : stored[f] = IF f \in rest THEN kept[f] ELSE target[f]

FreshIsStored == reading.st = "answered" /\ reading.fresh => reading.config = stored

SettingInv == SettingTypes /\ KeptIsStored /\ OnItsWay /\ FreshIsStored

LEMMA ConfigFields ==
    ASSUME NEW c \in Configs, NEW d \in Configs
    PROVE  /\ c["on"] = c.on /\ c["base"] = c.base /\ c["step"] = c.step /\ c["max"] = c.max
           /\ \A f \in Fields : c[f] \in Values(f)
           /\ (\A f \in Fields : c[f] = d[f]) => c = d
<1>1. c["on"] = c.on /\ c["base"] = c.base /\ c["step"] = c.step /\ c["max"] = c.max
  BY DEF Configs
<1>2. \A f \in Fields : c[f] \in Values(f)
  BY <1>1 DEF Configs, Fields, Values
<1>3. (\A f \in Fields : c[f] = d[f]) => c = d
  BY DEF Configs, Fields
<1> QED
  BY <1>1, <1>2, <1>3

LEMMA ConfigUpdate ==
    ASSUME NEW c \in Configs, NEW f \in Fields, NEW v \in Values(f)
    PROVE  /\ [c EXCEPT ![f] = v] \in Configs
           /\ \A g \in Fields : [c EXCEPT ![f] = v][g] = IF g = f THEN v ELSE c[g]
<1>1. [c EXCEPT ![f] = v] \in Configs
  BY DEF Configs, Fields, Values
<1>2. ASSUME NEW g \in Fields PROVE [c EXCEPT ![f] = v][g] = IF g = f THEN v ELSE c[g]
  BY DEF Configs, Fields, Values
<1> QED
  BY <1>1, <1>2

\* One more PUT at the end of some that are in order.
LEMMA PutInOrder ==
    ASSUME NEW target \in Configs, NEW kept \in Configs, NEW s \in Seq(Fields), NEW f \in Fields,
           InOrder(s, target, kept),
           \A g \in FieldsFrom(s, 1) : Rank(g, target, kept) < Rank(f, target, kept)
    PROVE  /\ s \o <<f>> \in Seq(Fields) /\ InOrder(s \o <<f>>, target, kept)
           /\ FieldsFrom(s \o <<f>>, 1) = FieldsFrom(s, 1) \cup {f}
<1> DEFINE t == s \o <<f>>
<1>1. /\ t \in Seq(Fields) /\ Len(t) = Len(s) + 1 /\ Len(s) \in Nat
      /\ \A i \in 1..Len(s) : t[i] = s[i]
      /\ t[Len(s) + 1] = f
  OBVIOUS
<1> HIDE DEF t
<1>2. FieldsFrom(t, 1) = FieldsFrom(s, 1) \cup {f}
  BY <1>1, SMT DEF FieldsFrom
<1>3. InOrder(t, target, kept)
  <2> SUFFICES ASSUME NEW i \in 1..Len(t), NEW j \in 1..Len(t), i < j
               PROVE  Rank(t[i], target, kept) < Rank(t[j], target, kept)
    BY DEF InOrder
  <2>1. i \in 1..Len(s) /\ t[i] = s[i]
    BY <1>1, SMT
  <2>2. CASE j = Len(s) + 1
    BY <1>1, <2>1, <2>2 DEF FieldsFrom
  <2>3. CASE j # Len(s) + 1
    <3>1. j \in 1..Len(s) /\ t[j] = s[j]
      BY <1>1, <2>3, SMT
    <3> QED
      BY <2>1, <3>1 DEF InOrder
  <2> QED
    BY <2>2, <2>3
<1> QED
  BY <1>1, <1>2, <1>3 DEF t

\* The PUTs of a save are those of the settings that change, in order.
LEMMA UpdatesInRank ==
    ASSUME NEW target \in Configs, NEW kept \in Configs
    PROVE  LET todo == Updates(target, kept)
           IN  /\ todo \in Seq(Fields) /\ InOrder(todo, target, kept)
               /\ FieldsFrom(todo, 1) = {f \in Fields : target[f] # kept[f]}
<1> DEFINE Write(wanted, field) == IF wanted THEN <<field>> ELSE <<>>
           up   == target.max > kept.max
           down == target.max < kept.max
           R(f) == Rank(f, target, kept)
           s0 == <<>>
           s1 == s0 \o Write(up, "max")
           s2 == s1 \o Write(target.base # kept.base, "base")
           s3 == s2 \o Write(target.step # kept.step, "step")
           s4 == s3 \o Write(down, "max")
           s5 == s4 \o Write(target.on # kept.on, "on")
           Good(s, S) == s \in Seq(Fields) /\ InOrder(s, target, kept) /\ FieldsFrom(s, 1) = S
           S1 == IF up THEN {"max"} ELSE {}
           S2 == S1 \cup IF target.base # kept.base THEN {"base"} ELSE {}
           S3 == S2 \cup IF target.step # kept.step THEN {"step"} ELSE {}
           S4 == S3 \cup IF down THEN {"max"} ELSE {}
           S5 == S4 \cup IF target.on # kept.on THEN {"on"} ELSE {}
<1>1. target.max \in Int /\ kept.max \in Int
  BY DEF Configs
<1>2. /\ up => R("max") = 1
      /\ down => R("max") = 4
      /\ R("base") = 2 /\ R("step") = 3 /\ R("on") = 5
      /\ {"on", "base", "step", "max"} = Fields
  BY <1>1 DEF Rank, Fields
<1>3. R("max") \in {1, 4}
  BY DEF Rank
<1>4. \A s, S : Good(s, S) => s \o <<>> = s
  OBVIOUS
<1>5. \A s, S : \A f \in Fields : Good(s, S) /\ (\A g \in S : R(g) < R(f)) => Good(s \o <<f>>, S \cup {f})
  BY PutInOrder
<1>6. ~(up /\ down)
  BY <1>1
<1> HIDE DEF R, Good, up, down
<1>7. Good(s0, {})
  BY DEF InOrder, FieldsFrom, Good
<1>8. Good(s1, S1)
  <2>1. CASE up
    <3>1. {} \cup {"max"} = S1 /\ s1 = s0 \o <<"max">>
      BY <2>1
    <3> HIDE DEF s0, s1, S1
    <3> QED
      BY <1>2, <1>5, <1>7, <3>1
  <2>2. CASE ~up
    <3>1. S1 = {} /\ s1 = s0 \o <<>>
      BY <2>2
    <3> HIDE DEF s0, s1, S1
    <3> QED
      BY <1>4, <1>7, <3>1
  <2> QED
    BY <2>1, <2>2
<1>9. Good(s2, S2)
  <2>1. CASE target.base # kept.base
    <3>1. S2 = S1 \cup {"base"} /\ s2 = s1 \o <<"base">>
      BY <2>1
    <3>2. \A g \in S1 : R(g) < R("base")
      BY <1>2, <1>3, <1>6, <2>1
    <3> HIDE DEF s1, s2, S1, S2
    <3> QED
      BY <1>2, <1>5, <1>8, <3>1, <3>2
  <2>2. CASE ~(target.base # kept.base)
    <3>1. S2 = S1 /\ s2 = s1 \o <<>>
      BY <2>2
    <3> HIDE DEF s1, s2, S1, S2
    <3> QED
      BY <1>4, <1>8, <3>1
  <2> QED
    BY <2>1, <2>2
<1>10. Good(s3, S3)
  <2>1. CASE target.step # kept.step
    <3>1. S3 = S2 \cup {"step"} /\ s3 = s2 \o <<"step">>
      BY <2>1
    <3>2. \A g \in S2 : R(g) < R("step")
      BY <1>2, <1>3, <1>6, <2>1
    <3> HIDE DEF s2, s3, S2, S3
    <3> QED
      BY <1>2, <1>5, <1>9, <3>1, <3>2
  <2>2. CASE ~(target.step # kept.step)
    <3>1. S3 = S2 /\ s3 = s2 \o <<>>
      BY <2>2
    <3> HIDE DEF s2, s3, S2, S3
    <3> QED
      BY <1>4, <1>9, <3>1
  <2> QED
    BY <2>1, <2>2
<1>11. Good(s4, S4)
  <2>1. CASE down
    <3>1. S4 = S3 \cup {"max"} /\ s4 = s3 \o <<"max">>
      BY <2>1
    <3>2. \A g \in S3 : R(g) < R("max")
      BY <1>2, <1>3, <1>6, <2>1
    <3> HIDE DEF s3, s4, S3, S4
    <3> QED
      BY <1>2, <1>5, <1>10, <3>1, <3>2
  <2>2. CASE ~(down)
    <3>1. S4 = S3 /\ s4 = s3 \o <<>>
      BY <2>2
    <3> HIDE DEF s3, s4, S3, S4
    <3> QED
      BY <1>4, <1>10, <3>1
  <2> QED
    BY <2>1, <2>2
<1>12. Good(s5, S5)
  <2>1. CASE target.on # kept.on
    <3>1. S5 = S4 \cup {"on"} /\ s5 = s4 \o <<"on">>
      BY <2>1
    <3>2. \A g \in S4 : R(g) < R("on")
      BY <1>2, <1>3, <1>6, <2>1
    <3> HIDE DEF s4, s5, S4, S5
    <3> QED
      BY <1>2, <1>5, <1>11, <3>1, <3>2
  <2>2. CASE ~(target.on # kept.on)
    <3>1. S5 = S4 /\ s5 = s4 \o <<>>
      BY <2>2
    <3> HIDE DEF s4, s5, S4, S5
    <3> QED
      BY <1>4, <1>11, <3>1
  <2> QED
    BY <2>1, <2>2
<1>13. S5 = {f \in Fields : target[f] # kept[f]}
  BY <1>1, ConfigFields DEF Fields, up, down
<1>14. Updates(target, kept) = s5
  <2>1. s1 = Write(up, "max")
    BY DEF s1, s0, Write, up
  <2> QED
    BY <2>1 DEF Updates, s5, s4, s3, s2, Write, up, down
<1> QED
  BY <1>12, <1>13, <1>14 DEF Good

LEMMA InitSettings == SettingsInit => SettingInv
<1> SUFFICES ASSUME SettingsInit PROVE SettingInv
  OBVIOUS
<1>1. MaxXP \in Nat \ {0}
  BY MaxXPAssumption
<1>2. 1 \in 1..MaxXP /\ MaxXP \in 1..MaxXP
  BY <1>1, SMT
<1>3. Initially \in Configs
  BY <1>2 DEF Initially, Configs
<1>4. <<>> \in Seq(Fields)
  OBVIOUS
<1>5. SettingTypes
  BY <1>3, <1>4 DEF SettingTypes, SettingsInit, FreshPage, LoadSettings, NotReading, IdleSave,
                    UnderWay, SaveStates
<1>6. KeptIsStored /\ OnItsWay /\ FreshIsStored
  BY DEF SettingsInit, FreshPage, LoadSettings, NotReading, IdleSave,
         UnderWay, KeptIsStored, OnItsWay, FreshIsStored
<1> QED
  BY <1>5, <1>6 DEF SettingInv

\* From numbers that fit together to others that do, no PUT of a save on its
\* way is refused.
LEMMA NoneRefused ==
    ASSUME SettingInv, straight, save.st = "sent", Legal(settings.kept), Legal(save.target),
           Head(save.todo) # "on"
    PROVE  Legal(Written)
<1> DEFINE f == Head(save.todo)
           target == save.target
           kept == settings.kept
           R(g) == Rank(g, target, kept)
<1>1. /\ stored \in Configs /\ target \in Configs /\ kept \in Configs
      /\ save.todo \in Seq(Fields) /\ Len(save.todo) >= 1
  BY DEF SettingInv, SettingTypes, UnderWay
<1>2. f = save.todo[1] /\ f \in Fields /\ Len(save.todo) \in Nat
  BY <1>1
<1>3. /\ InOrder(save.todo, target, kept)
      /\ "max" \in FieldsFrom(save.todo, 1) => target.max # kept.max
      /\ \A g \in Fields : stored[g] = IF g \in FieldsFrom(save.todo, 1) THEN kept[g] ELSE target[g]
  BY DEF SettingInv, OnItsWay
<1>4. \A g \in FieldsFrom(save.todo, 1) : g = f \/ R(f) < R(g)
  <2> SUFFICES ASSUME NEW i \in 1..Len(save.todo) PROVE save.todo[i] = f \/ R(f) < R(save.todo[i])
    BY DEF FieldsFrom
  <2>1. i = 1 \/ 1 < i
    BY <1>2, SMT
  <2>2. 1 \in 1..Len(save.todo)
    BY <1>1, <1>2, SMT
  <2> QED
    BY <1>2, <1>3, <2>1, <2>2 DEF InOrder
<1>5. f \in FieldsFrom(save.todo, 1)
  <2>1. 1 \in 1..Len(save.todo)
    BY <1>1, <1>2, SMT
  <2> QED
    BY <1>2, <2>1 DEF FieldsFrom
<1>6. target[f] \in Values(f)
  BY <1>1, <1>2, ConfigFields
<1>7. \A g \in Fields : Written[g] = IF g = f THEN target[g]
                                     ELSE IF g \in FieldsFrom(save.todo, 1) THEN kept[g] ELSE target[g]
  <2>1. Written = [stored EXCEPT ![f] = target[f]]
    BY DEF Written
  <2> QED
    BY <1>1, <1>2, <1>3, <1>6, <2>1, ConfigUpdate
<1>8. Written \in Configs
  BY <1>1, <1>2, <1>6, ConfigUpdate DEF Written
<1>9. /\ Written.step = Written["step"] /\ Written.base = Written["base"] /\ Written.max = Written["max"]
      /\ target.step = target["step"] /\ target.base = target["base"] /\ target.max = target["max"]
      /\ kept.step = kept["step"] /\ kept.base = kept["base"] /\ kept.max = kept["max"]
  BY <1>1, <1>8, ConfigFields
<1>10. /\ target.step > 0 /\ target.max >= target.base /\ kept.step > 0 /\ kept.max >= kept.base
       /\ {target.base, target.max, kept.base, kept.max} \subseteq Int
  BY <1>1 DEF Legal, Configs
<1>11. {"step", "base", "max"} \subseteq Fields /\ f \in {"step", "base", "max"}
  BY <1>2 DEF Fields
<1>12. /\ R("base") = 2 /\ R("step") = 3
       /\ R("max") = IF target.max > kept.max THEN 1 ELSE 4
  BY DEF Rank
<1> HIDE DEF f, R, target, kept
<1>13. Written.step > 0
  BY <1>7, <1>9, <1>10, <1>11
<1>14. Written.max >= Written.base
  <2>1. CASE f = "max"
    <3>1. Written.max = target.max /\ target.max # kept.max
      BY <1>3, <1>5, <1>7, <1>9, <1>11, <2>1
    <3>2. CASE target.max > kept.max
      BY <1>7, <1>9, <1>10, <1>11, <2>1, <3>1, <3>2
    <3>3. CASE target.max < kept.max
      <4>1. "base" \notin FieldsFrom(save.todo, 1)
        BY <1>4, <1>10, <1>12, <2>1, <3>3
      <4> QED
        BY <1>7, <1>9, <1>10, <1>11, <2>1, <3>1, <4>1
    <3> QED
      BY <1>10, <3>1, <3>2, <3>3
  <2>2. CASE f = "base"
    <3>1. Written.base = target.base
      BY <1>7, <1>9, <1>11, <2>2
    <3>2. CASE "max" \in FieldsFrom(save.todo, 1)
      <4>1. ~(target.max > kept.max)
        BY <1>4, <1>12, <2>2, <3>2
      <4> QED
        BY <1>7, <1>9, <1>10, <1>11, <2>2, <3>1, <3>2, <4>1
    <3>3. CASE "max" \notin FieldsFrom(save.todo, 1)
      BY <1>7, <1>9, <1>10, <1>11, <2>2, <3>1, <3>3
    <3> QED
      BY <3>2, <3>3
  <2>3. CASE f = "step"
    <3>1. "base" \notin FieldsFrom(save.todo, 1)
      BY <1>4, <1>12, <2>3
    <3>2. Written.base = target.base
      BY <1>7, <1>9, <1>11, <2>3, <3>1
    <3>3. CASE "max" \in FieldsFrom(save.todo, 1)
      <4>1. ~(target.max > kept.max)
        BY <1>4, <1>12, <2>3, <3>3
      <4> QED
        BY <1>7, <1>9, <1>10, <1>11, <2>3, <3>2, <3>3, <4>1
    <3>4. CASE "max" \notin FieldsFrom(save.todo, 1)
      BY <1>7, <1>9, <1>10, <1>11, <2>3, <3>2, <3>4
    <3> QED
      BY <3>3, <3>4
  <2> QED
    BY <1>11, <2>1, <2>2, <2>3
<1> QED
  BY <1>13, <1>14 DEF Legal

\* A step that leaves a save on its way, its settings and what is stored alone.
LEMMA SaveStays ==
    ASSUME OnItsWay, UNCHANGED <<stored, save>>, settings'.kept = settings.kept,
           straight' => straight
    PROVE  OnItsWay'
BY DEF OnItsWay, InOrder, FieldsFrom

LEMMA ServeSettingsKeeps == SettingInv /\ ServeSettings => SettingInv'
<1> SUFFICES ASSUME SettingInv, ServeSettings PROVE SettingInv'
  OBVIOUS
<1>1. UNCHANGED <<stored, settings, save, straight>> /\ stored \in Configs
  BY DEF SettingInv, SettingTypes, ServeSettings
<1>2. reading' \in [st : {"idle", "sent", "answered", "failed"}, config : Configs, fresh : BOOLEAN]
  <2>1. (~UnderWay) \in BOOLEAN
    BY DEF UnderWay
  <2> QED
    BY <1>1, <2>1 DEF SettingInv, SettingTypes, ServeSettings
<1>3. FreshIsStored'
  BY <1>1 DEF SettingInv, SettingTypes, ServeSettings, FreshIsStored
<1> QED
  BY <1>1, <1>2, <1>3, SaveStays DEF SettingInv, SettingTypes, UnderWay, KeptIsStored

LEMMA OtherAdminSavesKeeps == SettingInv /\ OtherAdminSaves => SettingInv'
<1> SUFFICES ASSUME SettingInv, OtherAdminSaves PROVE SettingInv'
  OBVIOUS
<1>1. stored' \in Configs
  <2>1. stored \in Configs
    BY DEF SettingInv, SettingTypes
  <2>2. PICK field \in Fields : \E value \in Values(field) : stored' = [stored EXCEPT ![field] = value]
    BY DEF OtherAdminSaves
  <2> QED
    BY <2>1, <2>2 DEF Configs, Fields, Values
<1>2. /\ UNCHANGED <<settings, save>> /\ straight' = FALSE
      /\ reading' = [reading EXCEPT !.fresh = FALSE]
  BY DEF OtherAdminSaves
<1>3. reading' \in [st : {"idle", "sent", "answered", "failed"}, config : Configs, fresh : BOOLEAN]
      /\ ~reading'.fresh
  BY <1>2 DEF SettingInv, SettingTypes
<1> QED
  BY <1>1, <1>2, <1>3 DEF SettingInv, SettingTypes, UnderWay, KeptIsStored, OnItsWay, FreshIsStored

LEMMA TokenChangesKeeps == SettingInv /\ TokenChanges => SettingInv'
<1> SUFFICES ASSUME SettingInv, TokenChanges PROVE SettingInv'
  OBVIOUS
<1>1. UNCHANGED <<stored, settings, save, straight>>
  BY DEF TokenChanges
<1>2. Initially \in Configs
  <2>1. 1 \in 1..MaxXP /\ MaxXP \in 1..MaxXP
    BY MaxXPAssumption, SMT
  <2> QED
    BY <2>1 DEF Initially, Configs
<1>3. /\ reading' \in [st : {"idle", "sent", "answered", "failed"}, config : Configs, fresh : BOOLEAN]
      /\ reading'.st = "sent"
  BY <1>2 DEF TokenChanges, LoadSettings, NotReading
<1> QED
  BY <1>1, <1>3, SaveStays DEF SettingInv, SettingTypes, UnderWay, KeptIsStored, FreshIsStored

LEMMA SettingsArriveKeeps == SettingInv /\ SettingsArrive => SettingInv'
<1> SUFFICES ASSUME SettingInv, SettingsArrive PROVE SettingInv'
  OBVIOUS
<1>1. UNCHANGED <<stored, save>> /\ reading' = NotReading
  BY DEF SettingsArrive
<1>2. Initially \in Configs
  <2>1. 1 \in 1..MaxXP /\ MaxXP \in 1..MaxXP
    BY MaxXPAssumption, SMT
  <2> QED
    BY <2>1 DEF Initially, Configs
<1>3. /\ reading' \in [st : {"idle", "sent", "answered", "failed"}, config : Configs, fresh : BOOLEAN]
      /\ reading'.st = "idle"
  BY <1>1, <1>2 DEF NotReading
<1>4. CASE reading.st = "failed"
  <2>1. /\ settings' = [settings EXCEPT !.loading = FALSE] /\ straight' = straight
        /\ settings' \in [loading : BOOLEAN, known : BOOLEAN, edit : Configs, kept : Configs]
        /\ settings'.kept = settings.kept /\ settings'.known = settings.known
    BY <1>4 DEF SettingInv, SettingTypes, SettingsArrive
  <2> QED
    BY <1>1, <1>3, <2>1, SaveStays DEF SettingInv, SettingTypes, UnderWay, KeptIsStored, FreshIsStored
<1>5. CASE reading.st = "answered"
  <2>1. /\ settings' = [loading |-> FALSE, known |-> TRUE, edit |-> reading.config, kept |-> reading.config]
        /\ straight' = (reading.fresh /\ ~UnderWay)
    BY <1>5 DEF SettingsArrive
  <2>2. reading.config \in Configs
    BY DEF SettingInv, SettingTypes
  <2>3. /\ settings' \in [loading : BOOLEAN, known : BOOLEAN, edit : Configs, kept : Configs]
        /\ settings'.kept = reading.config
    BY <2>1, <2>2
  <2>4. straight' \in BOOLEAN
    BY <2>1 DEF SettingInv, SettingTypes, UnderWay
  <2>5. straight' => save.st = "idle" /\ stored = reading.config
    BY <1>5, <2>1 DEF SettingInv, FreshIsStored, UnderWay
  <2> QED
    BY <1>1, <1>3, <2>3, <2>4, <2>5
    DEF SettingInv, SettingTypes, UnderWay, KeptIsStored, OnItsWay, FreshIsStored
<1> QED
  BY <1>4, <1>5 DEF SettingsArrive

LEMMA EditKeeps == SettingInv /\ Edit => SettingInv'
<1> SUFFICES ASSUME SettingInv, Edit PROVE SettingInv'
  OBVIOUS
<1>1. UNCHANGED <<stored, reading, save, straight>>
  BY DEF Edit
<1>2. settings.edit \in Configs
  BY DEF SettingInv, SettingTypes
<1>3. PICK field \in Fields : \E value \in Values(field) : settings' = [settings EXCEPT !.edit[field] = value]
  BY DEF Edit
<1>4. PICK value \in Values(field) : settings' = [settings EXCEPT !.edit[field] = value]
  BY <1>3
<1>5. [settings.edit EXCEPT ![field] = value] \in Configs
  BY <1>2, ConfigUpdate
<1>6. /\ settings' \in [loading : BOOLEAN, known : BOOLEAN, edit : Configs, kept : Configs]
      /\ settings'.kept = settings.kept /\ settings'.known = settings.known
  BY <1>4, <1>5 DEF SettingInv, SettingTypes
<1> QED
  BY <1>1, <1>6, SaveStays DEF SettingInv, SettingTypes, UnderWay, KeptIsStored, FreshIsStored

LEMMA SaveKeeps == SettingInv /\ Save => SettingInv'
<1> SUFFICES ASSUME SettingInv, Save PROVE SettingInv'
  OBVIOUS
<1> DEFINE target == settings.edit
           kept == settings.kept
           todo == Updates(target, kept)
<1>1. /\ UNCHANGED <<stored, settings, reading, straight>> /\ target # kept /\ settings.known
      /\ save.st = "idle" /\ save' = [st |-> "sent", target |-> target, todo |-> todo]
  BY DEF Save, CanEdit
<1>2. target \in Configs /\ kept \in Configs
  BY DEF SettingInv, SettingTypes
<1>3. /\ todo \in Seq(Fields) /\ InOrder(todo, target, kept)
      /\ FieldsFrom(todo, 1) = {f \in Fields : target[f] # kept[f]}
  BY <1>2, UpdatesInRank
<1> HIDE DEF todo
<1>4. Len(todo) >= 1
  <2>1. PICK f \in Fields : target[f] # kept[f]
    BY <1>1, <1>2, ConfigFields
  <2> QED
    BY <1>3, <2>1 DEF FieldsFrom
<1>5. /\ save' \in [st : SaveStates, todo : Seq(Fields), target : Configs]
      /\ save'.st = "sent" /\ save'.todo = todo /\ save'.target = target
  BY <1>1, <1>2, <1>3 DEF SaveStates
<1>6. OnItsWay'
  <2>1. SUFFICES ASSUME straight
                 PROVE  /\ InOrder(todo, target, kept)
                        /\ "max" \in FieldsFrom(todo, 1) => target.max # kept.max
                        /\ \A f \in Fields : stored[f] = IF f \in FieldsFrom(todo, 1) THEN kept[f] ELSE target[f]
    BY <1>1, <1>5 DEF OnItsWay
  <2>2. stored = kept
    BY <1>1, <2>1 DEF SettingInv, KeptIsStored, UnderWay
  <2>3. target["max"] = target.max /\ kept["max"] = kept.max
    BY <1>2, ConfigFields
  <2> QED
    BY <1>3, <2>2, <2>3
<1> QED
  BY <1>1, <1>4, <1>5, <1>6 DEF SettingInv, SettingTypes, UnderWay, KeptIsStored, FreshIsStored

LEMMA CheckSettingKeeps == SettingInv /\ CheckSetting => SettingInv'
<1> SUFFICES ASSUME SettingInv, CheckSetting PROVE SettingInv'
  OBVIOUS
<1>1. /\ UNCHANGED <<stored, settings, reading, straight>> /\ save.st = "sent"
      /\ save \in [st : SaveStates, todo : Seq(Fields), target : Configs]
      /\ \E st \in {"checked", "refused"} : save' = [save EXCEPT !.st = st]
  BY DEF SettingInv, SettingTypes, CheckSetting
<1>2. /\ save' \in [st : SaveStates, todo : Seq(Fields), target : Configs]
      /\ save'.st \in {"checked", "refused"} /\ save'.todo = save.todo /\ save'.target = save.target
  BY <1>1 DEF SaveStates
<1>3. OnItsWay'
  BY <1>1, <1>2 DEF SettingInv, OnItsWay, InOrder, FieldsFrom
<1> QED
  BY <1>1, <1>2, <1>3 DEF SettingInv, SettingTypes, UnderWay, KeptIsStored, FreshIsStored

LEMMA WriteSettingKeeps == SettingInv /\ WriteSetting => SettingInv'
<1> SUFFICES ASSUME SettingInv, WriteSetting PROVE SettingInv'
  OBVIOUS
<1> DEFINE f == Head(save.todo)
           target == save.target
           kept == settings.kept
<1>1. /\ UNCHANGED <<settings, straight>> /\ save.st = "checked" /\ stored' = Written
      /\ reading' = [reading EXCEPT !.fresh = FALSE]
      /\ save \in [st : SaveStates, todo : Seq(Fields), target : Configs]
      /\ save.todo \in Seq(Fields) /\ Len(save.todo) >= 1 /\ stored \in Configs /\ target \in Configs
      /\ \E st \in {"written", "lost"} : save' = [save EXCEPT !.st = st]
  BY DEF SettingInv, SettingTypes, WriteSetting, UnderWay
<1>2. /\ save' \in [st : SaveStates, todo : Seq(Fields), target : Configs]
      /\ save'.st \in {"written", "lost"} /\ save'.todo = save.todo /\ save'.target = target
  BY <1>1 DEF SaveStates
<1>3. f = save.todo[1] /\ f \in Fields /\ Len(save.todo) \in Nat
  BY <1>1
<1>4. target[f] \in Values(f)
  BY <1>1, <1>3, ConfigFields
<1>5. /\ stored' \in Configs
      /\ \A g \in Fields : stored'[g] = IF g = f THEN target[g] ELSE stored[g]
  <2>1. stored' = [stored EXCEPT ![f] = target[f]]
    BY <1>1 DEF Written
  <2> DEFINE v == target[f]
  <2>2. v \in Values(f) /\ stored' = [stored EXCEPT ![f] = v] /\ f \in Fields /\ stored \in Configs
    BY <1>1, <1>3, <1>4, <2>1
  <2> HIDE DEF v, f
  <2>3. /\ [stored EXCEPT ![f] = v] \in Configs
        /\ \A g \in Fields : [stored EXCEPT ![f] = v][g] = IF g = f THEN v ELSE stored[g]
    BY <2>2 DEF Configs, Fields, Values
  <2> QED
    BY <2>2, <2>3 DEF v
<1>6. /\ reading' \in [st : {"idle", "sent", "answered", "failed"}, config : Configs, fresh : BOOLEAN]
      /\ ~reading'.fresh
  BY <1>1 DEF SettingInv, SettingTypes
<1>7. OnItsWay'
  <2> DEFINE todo == save.todo
  <2>1. SUFFICES ASSUME straight, save'.st = "written"
                 PROVE  /\ InOrder(todo, target, kept)
                        /\ "max" \in FieldsFrom(todo, 1) => target.max # kept.max
                        /\ \A g \in Fields : stored'[g] = IF g \in FieldsFrom(todo, 2) THEN kept[g] ELSE target[g]
    BY <1>1, <1>2 DEF OnItsWay
  <2>2. /\ InOrder(todo, target, kept)
        /\ "max" \in FieldsFrom(todo, 1) => target.max # kept.max
        /\ \A g \in Fields : stored[g] = IF g \in FieldsFrom(todo, 1) THEN kept[g] ELSE target[g]
    BY <1>1, <2>1 DEF SettingInv, OnItsWay
  <2>3. FieldsFrom(todo, 1) = FieldsFrom(todo, 2) \cup {f}
    <3> HIDE DEF f
    <3> QED
      BY <1>1, <1>3, SMT DEF FieldsFrom
  <2>4. f \notin FieldsFrom(todo, 2)
    <3> SUFFICES ASSUME NEW i \in 2..Len(todo), todo[i] = f PROVE FALSE
      BY DEF FieldsFrom
    <3>1. 1 < i /\ 1 \in 1..Len(todo) /\ i \in 1..Len(todo)
      BY <1>1, <1>3, SMT
    <3>2. Rank(f, target, kept) < Rank(f, target, kept)
      BY <1>3, <2>2, <3>1 DEF InOrder
    <3>3. Rank(f, target, kept) \in Int
      BY <1>3 DEF Rank, Fields
    <3> HIDE DEF f
    <3> QED
      BY <3>2, <3>3, SMT
  <2> HIDE DEF f, target, kept
  <2> QED
    BY <1>5, <2>2, <2>3, <2>4
<1> QED
  BY <1>1, <1>2, <1>5, <1>6, <1>7 DEF SettingInv, SettingTypes, UnderWay, KeptIsStored, FreshIsStored

LEMMA SaveGoesOnKeeps == SettingInv /\ SaveGoesOn => SettingInv'
<1> SUFFICES ASSUME SettingInv, SaveGoesOn PROVE SettingInv'
  OBVIOUS
<1> DEFINE todo == save.todo
           rest == Tail(save.todo)
           target == save.target
           kept == settings.kept
<1>1. /\ UNCHANGED <<stored, settings, reading, straight>> /\ save.st = "written"
      /\ save \in [st : SaveStates, todo : Seq(Fields), target : Configs]
      /\ todo \in Seq(Fields) /\ Len(todo) > 1
      /\ save' = [save EXCEPT !.st = "sent", !.todo = rest]
  BY DEF SettingInv, SettingTypes, SaveGoesOn
<1>2. /\ rest \in Seq(Fields) /\ Len(rest) = Len(todo) - 1 /\ Len(todo) \in Nat
      /\ \A i \in 1..Len(rest) : rest[i] = todo[i + 1]
  BY <1>1
<1>3. /\ save' \in [st : SaveStates, todo : Seq(Fields), target : Configs]
      /\ save'.st = "sent" /\ save'.todo = rest /\ save'.target = target
  BY <1>1, <1>2 DEF SaveStates
<1> HIDE DEF rest
<1>4. Len(rest) >= 1
  BY <1>1, <1>2, SMT
<1>5. OnItsWay'
  <2>1. SUFFICES ASSUME straight
                 PROVE  /\ InOrder(rest, target, kept)
                        /\ "max" \in FieldsFrom(rest, 1) => target.max # kept.max
                        /\ \A g \in Fields : stored[g] = IF g \in FieldsFrom(rest, 1) THEN kept[g] ELSE target[g]
    BY <1>1, <1>3 DEF OnItsWay
  <2>2. /\ InOrder(todo, target, kept)
        /\ "max" \in FieldsFrom(todo, 1) => target.max # kept.max
        /\ \A g \in Fields : stored[g] = IF g \in FieldsFrom(todo, 2) THEN kept[g] ELSE target[g]
    BY <1>1, <2>1 DEF SettingInv, OnItsWay
  <2>3. \A i \in 1..Len(rest) : i + 1 \in 2..Len(todo) /\ i + 1 \in 1..Len(todo)
    BY <1>2, SMT
  <2>4. FieldsFrom(rest, 1) = FieldsFrom(todo, 2)
    <3>1. ASSUME NEW x \in FieldsFrom(rest, 1) PROVE x \in FieldsFrom(todo, 2)
      BY <1>2, <2>3 DEF FieldsFrom
    <3>2. ASSUME NEW i \in 2..Len(todo) PROVE todo[i] \in FieldsFrom(rest, 1)
      <4>1. i - 1 \in 1..Len(rest) /\ (i - 1) + 1 = i
        BY <1>2, SMT
      <4>2. rest[i - 1] = todo[i]
        BY <1>2, <4>1
      <4> QED
        BY <4>1, <4>2 DEF FieldsFrom
    <3> QED
      BY <3>1, <3>2 DEF FieldsFrom
  <2>5. FieldsFrom(todo, 2) \subseteq FieldsFrom(todo, 1)
    BY <1>2, SMT DEF FieldsFrom
  <2>6. InOrder(rest, target, kept)
    <3> SUFFICES ASSUME NEW i \in 1..Len(rest), NEW j \in 1..Len(rest), i < j
                 PROVE  Rank(rest[i], target, kept) < Rank(rest[j], target, kept)
      BY DEF InOrder
    <3>1. i + 1 < j + 1
      BY <1>2, SMT
    <3> QED
      BY <1>2, <2>2, <2>3, <3>1 DEF InOrder
  <2> QED
    BY <2>2, <2>4, <2>5, <2>6
<1> QED
  BY <1>1, <1>3, <1>4, <1>5 DEF SettingInv, SettingTypes, UnderWay, KeptIsStored, FreshIsStored

LEMMA SaveEndsKeeps == SettingInv /\ SaveEnds => SettingInv'
<1> SUFFICES ASSUME SettingInv, SaveEnds PROVE SettingInv'
  OBVIOUS
<1>1. /\ UNCHANGED <<stored, reading>> /\ save' = IdleSave
      /\ straight' = (straight /\ save.st = "written") /\ straight' \in BOOLEAN
      /\ stored \in Configs /\ save.target \in Configs
      /\ settings \in [loading : BOOLEAN, known : BOOLEAN, edit : Configs, kept : Configs]
  BY DEF SettingInv, SettingTypes, SaveEnds
<1>2. Initially \in Configs
  <2>1. 1 \in 1..MaxXP /\ MaxXP \in 1..MaxXP
    BY MaxXPAssumption, SMT
  <2> QED
    BY <2>1 DEF Initially, Configs
<1>3. /\ save' \in [st : SaveStates, todo : Seq(Fields), target : Configs] /\ save'.st = "idle"
  <2>1. <<>> \in Seq(Fields)
    OBVIOUS
  <2> QED
    BY <1>1, <1>2, <2>1 DEF IdleSave, SaveStates
<1>4. CASE save.st = "written"
  <2>1. settings' = [settings EXCEPT !.kept = save.target] /\ Len(save.todo) = 1
    BY <1>4 DEF SaveEnds
  <2>2. /\ settings' \in [loading : BOOLEAN, known : BOOLEAN, edit : Configs, kept : Configs]
        /\ settings'.kept = save.target
    BY <1>1, <2>1
  <2>3. straight => stored = save.target
    <3> SUFFICES ASSUME straight PROVE stored = save.target
      OBVIOUS
    <3>1. \A f \in Fields : stored[f] = IF f \in FieldsFrom(save.todo, 2) THEN settings.kept[f] ELSE save.target[f]
      BY <1>4 DEF SettingInv, OnItsWay
    <3>2. FieldsFrom(save.todo, 2) = {}
      BY <2>1, SMT DEF FieldsFrom
    <3> QED
      BY <1>1, <3>1, <3>2, ConfigFields
  <2> QED
    BY <1>1, <1>3, <2>2, <2>3
    DEF SettingInv, SettingTypes, UnderWay, KeptIsStored, OnItsWay, FreshIsStored
<1>5. CASE save.st # "written"
  <2>1. settings' = settings /\ straight' = FALSE
    BY <1>1, <1>5 DEF SaveEnds
  <2> QED
    BY <1>1, <1>3, <2>1
    DEF SettingInv, SettingTypes, UnderWay, KeptIsStored, OnItsWay, FreshIsStored
<1> QED
  BY <1>4, <1>5

LEMMA NextSettings == SettingInv /\ [SettingsNext]_settingsVars => SettingInv'
<1> SUFFICES ASSUME SettingInv, [SettingsNext]_settingsVars PROVE SettingInv'
  OBVIOUS
<1>1. CASE UNCHANGED settingsVars
  <2>1. UNCHANGED <<stored, settings, reading, save, straight>>
    BY <1>1 DEF settingsVars
  <2> QED
    BY <2>1, SaveStays DEF SettingInv, SettingTypes, UnderWay, KeptIsStored, FreshIsStored
<1> QED
  BY <1>1, ServeSettingsKeeps, OtherAdminSavesKeeps, TokenChangesKeeps, SettingsArriveKeeps, EditKeeps,
     SaveKeeps, CheckSettingKeeps, WriteSettingKeeps, SaveGoesOnKeeps, SaveEndsKeeps DEF SettingsNext

\* SettingsSound, for numbers of any size: what the page shows as current is
\* stored when nothing crossed, and a save of numbers that fit together over
\* others that do is never refused halfway, for the order of its PUTs.
THEOREM SettingsStaySound == SettingsSpec => SettingsSound
<1> DEFINE Holds == /\ KeptIsStored'
                    /\ save.st = "sent" /\ save'.st = "refused" =>
                         ~straight \/ ~Legal(settings.kept) \/ ~Legal(save.target)
<1>1. SettingInv /\ SettingInv' /\ [SettingsNext]_settingsVars => Holds
  <2> SUFFICES ASSUME SettingInv, SettingInv', [SettingsNext]_settingsVars PROVE Holds
    OBVIOUS
  <2>1. KeptIsStored'
    BY DEF SettingInv
  <2>2. ASSUME save.st = "sent", save'.st = "refused", straight, Legal(settings.kept), Legal(save.target)
        PROVE  FALSE
    <3>1. save \in [st : SaveStates, todo : Seq(Fields), target : Configs]
      BY DEF SettingInv, SettingTypes
    <3>2. CheckSetting
      BY <2>2, <3>1 DEF SettingsNext, settingsVars, ServeSettings, OtherAdminSaves, TokenChanges,
                        SettingsArrive, Edit, Save, CanEdit, WriteSetting, SaveGoesOn, SaveEnds
    <3>3. ~(Head(save.todo) = "on" \/ Legal(Written))
      BY <2>2, <3>1, <3>2 DEF CheckSetting
    <3> QED
      BY <2>2, <3>3, NoneRefused
  <2> QED
    BY <2>1, <2>2
<1> HIDE DEF Holds
<1>2. SettingsSpec => [][Holds]_settingsVars
  BY <1>1, InitSettings, NextSettings, PTL DEF SettingsSpec
<1> QED
  BY <1>2 DEF Holds, SettingsSound

-----------------------------------------------------------------------------
(* Skins.                                                                  *)

SkinRows  == [exists : BOOLEAN, enabled : BOOLEAN, asset : Images \cup {Nobody}, granted : BOOLEAN]
ImageRows == [skin : Skins \cup {Nobody}, st : {"none", "issued", "on", "gone"}]
SkinViews == [id : Skins \cup {Nobody}, enabled : BOOLEAN, locked : BOOLEAN, on : SUBSET Images]
SkinPages == [at : Skins \cup {Nobody}, shown : SkinViews, edited : BOOLEAN, preview : Images \cup {Nobody}]
SkinLoads == [st : {"idle", "sent", "answered"}, shown : SkinViews]
SkinKinds == {"none", "create", "upload", "publish", "update", "disable", "grant", "revoke"}
SkinCalls == [st : {"idle", "sent", "done", "failed"}, kind : SkinKinds, here : BOOLEAN,
              id : Skins \cup {Nobody}, image : Images \cup {Nobody},
              enabled : BOOLEAN, rules : BOOLEAN, locked : BOOLEAN, on : SUBSET Images]

SkinTypes ==
    /\ skins \in [Skins -> SkinRows]
    /\ images \in [Images -> ImageRows]
    /\ page \in SkinPages
    /\ load \in SkinLoads
    /\ call \in SkinCalls

\* A call names the skin and the image it is about, and a page loads one.
CallSound(c) ==
    /\ c.st = "sent" /\ c.kind # "create" => c.id # Nobody
    /\ c.st = "done" => c.id # Nobody
    /\ c.st \in {"sent", "done"} /\ c.kind \in {"publish", "disable", "grant", "revoke"} => c.image # Nobody
    /\ c.st = "done" /\ c.kind = "upload" => c.image # Nobody

\* An enabled skin has an image; the image of a skin was uploaded for it and
\* published, so that no two skins share one.
ImagesOwned ==
    \A s \in Skins :
      /\ skins[s].enabled => skins[s].asset # Nobody
      /\ skins[s].asset # Nobody => /\ images[skins[s].asset].skin = s
                                    /\ images[skins[s].asset].st = "on"

SkinInv ==
    /\ SkinTypes /\ ImagesOwned /\ CallSound(call)
    /\ load.st = "sent" => page.at # Nobody

LEMMA SkinConstants == 1 \in Skins /\ Nobody \notin Skins /\ Nobody \notin Images
BY SkinsAssumption DEF Nobody

LEMMA IdleCallType == IdleCall \in SkinCalls /\ CallSound(IdleCall)
BY DEF IdleCall, SkinCalls, SkinKinds, CallSound

LEMMA NoSkinType == NoSkin \in SkinViews
BY DEF NoSkin, SkinViews

LEMMA InitSkins == SkinsInit => SkinInv
<1> SUFFICES ASSUME SkinsInit PROVE SkinInv
  OBVIOUS
<1>1. Draft \in SkinRows /\ Absent \in SkinRows /\ ~Draft.enabled /\ ~Absent.enabled
      /\ Draft.asset = Nobody /\ Absent.asset = Nobody
  BY DEF Draft, Absent, SkinRows
<1>2. skins \in [Skins -> SkinRows] /\ \A s \in Skins : ~skins[s].enabled /\ skins[s].asset = Nobody
  BY <1>1 DEF SkinsInit
<1>3. images \in [Images -> ImageRows]
  BY DEF SkinsInit, ImageRows
<1>4. page \in SkinPages /\ page.at = 1
  BY SkinConstants, NoSkinType DEF SkinsInit, FreshDetail, SkinPages
<1>5. load \in SkinLoads
  BY NoSkinType DEF SkinsInit, IdleLoad, SkinLoads
<1>6. call \in SkinCalls /\ CallSound(call)
  BY IdleCallType DEF SkinsInit
<1>7. page.at # Nobody
  BY <1>4, SkinConstants
<1> QED
  BY <1>2, <1>3, <1>4, <1>5, <1>6, <1>7 DEF SkinInv, SkinTypes, ImagesOwned

-----------------------------------------------------------------------------
(* What the API answers.                                                   *)

LEMMA RefusedCall ==
    ASSUME call \in SkinCalls, Refused
    PROVE  call' \in SkinCalls /\ CallSound(call')
BY DEF Refused, SkinCalls, IdleCall, CallSound, SkinKinds

\* An answer that names its skin and, if it is about an image, the image.
LEMMA AnsweredCall ==
    ASSUME call \in SkinCalls, NEW c \in SkinCalls, c.id # Nobody,
           c.kind \in {"upload", "publish", "disable", "grant", "revoke"} => c.image # Nobody,
           Answer(c)
    PROVE  call' \in SkinCalls /\ CallSound(call')
<1>1. CASE call' = [c EXCEPT !.st = "done"]
  <2>1. /\ call' \in SkinCalls /\ call'.st = "done" /\ call'.kind = c.kind
        /\ call'.id = c.id /\ call'.image = c.image
    BY <1>1 DEF SkinCalls
  <2> QED
    BY <2>1 DEF CallSound
<1>2. CASE Refused
  BY <1>2, RefusedCall
<1> QED
  BY <1>1, <1>2 DEF Answer

\* The rows after a handler that did its work or refused.
RowsSound == skins' \in [Skins -> SkinRows] /\ images' \in [Images -> ImageRows] /\ ImagesOwned'

LEMMA SameSkinRows == SkinInv /\ UNCHANGED <<skins, images>> => RowsSound
BY DEF SkinInv, SkinTypes, RowsSound, ImagesOwned

\* A skin whose row changes to one with no image, or with an image of its own,
\* while no image of another skin changes.
LEMMA SkinChanges ==
    ASSUME SkinInv, NEW s \in Skins, NEW row \in SkinRows, skins' = [skins EXCEPT ![s] = row],
           images' \in [Images -> ImageRows],
           row.enabled => row.asset # Nobody,
           row.asset # Nobody => images'[row.asset].skin = s /\ images'[row.asset].st = "on",
           \A k \in Images : images[k].st = "on" /\ images[k].skin # s => images'[k] = images[k]
    PROVE  RowsSound
<1>1. skins \in [Skins -> SkinRows] /\ ImagesOwned
  BY DEF SkinInv, SkinTypes
<1>2. skins' \in [Skins -> SkinRows]
  BY <1>1
<1>3. ASSUME NEW t \in Skins
      PROVE  /\ skins'[t].enabled => skins'[t].asset # Nobody
             /\ skins'[t].asset # Nobody => /\ images'[skins'[t].asset].skin = t
                                            /\ images'[skins'[t].asset].st = "on"
  <2>1. CASE t = s
    BY <1>1, <2>1
  <2>2. CASE t # s
    <3>1. skins'[t] = skins[t] /\ skins[t].asset \in Images \cup {Nobody}
      BY <1>1, <2>2 DEF SkinRows
    <3> QED
      BY <1>1, <2>2, <3>1 DEF ImagesOwned
  <2> QED
    BY <2>1, <2>2
<1> QED
  BY <1>2, <1>3 DEF RowsSound, ImagesOwned

LEMMA CreateSkinKeeps ==
    ASSUME SkinInv, CreateSkin
    PROVE  RowsSound /\ call' \in SkinCalls /\ (call.kind = "create" => CallSound(call'))
<1>1. call \in SkinCalls /\ images \in [Images -> ImageRows]
  BY DEF SkinInv, SkinTypes
<1>2. CASE Refuse
  BY <1>1, <1>2, SameSkinRows, RefusedCall DEF Refuse
<1>3. ASSUME NEW s \in Skins, skins' = [skins EXCEPT ![s] = Draft],
             Answer([call EXCEPT !.id = s]), UNCHANGED images
      PROVE  RowsSound /\ call' \in SkinCalls /\ (call.kind = "create" => CallSound(call'))
  <2>1. Draft \in SkinRows /\ ~Draft.enabled /\ Draft.asset = Nobody
    BY DEF Draft, SkinRows
  <2>2. RowsSound
    BY <1>1, <1>3, <2>1, SkinChanges
  <2> DEFINE c == [call EXCEPT !.id = s]
  <2>3. c \in SkinCalls /\ c.id = s /\ c.kind = call.kind /\ s # Nobody
    BY <1>1, SkinConstants DEF SkinCalls
  <2>4. call' = [c EXCEPT !.st = "done"] \/ Refused
    BY <1>3 DEF Answer
  <2>5. call' \in SkinCalls
    <3>1. [c EXCEPT !.st = "done"] \in SkinCalls
      BY <2>3 DEF SkinCalls
    <3> QED
      BY <1>1, <2>4, <3>1, RefusedCall
  <2>6. call.kind = "create" => CallSound(call')
    <3> HIDE DEF c
    <3> QED
      BY <1>1, <1>3, <2>3, AnsweredCall DEF c
  <2> QED
    BY <2>2, <2>5, <2>6
<1> QED
  BY <1>2, <1>3 DEF CreateSkin

LEMMA UploadKeeps ==
    ASSUME SkinInv, UploadSkinAsset, call.st = "sent", call.kind = "upload"
    PROVE  RowsSound /\ call' \in SkinCalls /\ CallSound(call')
<1>1. /\ call \in SkinCalls /\ images \in [Images -> ImageRows] /\ call.id \in Skins
      /\ skins \in [Skins -> SkinRows]
  BY DEF SkinInv, SkinTypes, CallSound, SkinCalls
<1>2. CASE Refuse
  BY <1>1, <1>2, SameSkinRows, RefusedCall DEF Refuse
<1>3. ASSUME NEW k \in Images, images[k].st = "none",
             images' = [images EXCEPT ![k] = [skin |-> call.id, st |-> "issued"]],
             Answer([call EXCEPT !.image = k]), UNCHANGED skins
      PROVE  RowsSound /\ call' \in SkinCalls /\ CallSound(call')
  <2>1. images' \in [Images -> ImageRows]
    BY <1>1, <1>3 DEF ImageRows
  <2>2. RowsSound
    BY <1>1, <1>3, <2>1 DEF SkinInv, ImagesOwned, RowsSound, SkinRows
  <2> DEFINE c == [call EXCEPT !.image = k]
  <2>3. c \in SkinCalls /\ c.id = call.id /\ c.image = k /\ k # Nobody /\ call.id # Nobody
    BY <1>1, SkinConstants DEF SkinCalls
  <2> HIDE DEF c
  <2> QED
    BY <1>1, <1>3, <2>2, <2>3, AnsweredCall DEF c
<1> QED
  BY <1>2, <1>3 DEF UploadSkinAsset

LEMMA PublishKeeps ==
    ASSUME SkinInv, PublishSkinRevision, call.st = "sent", call.kind = "publish"
    PROVE  RowsSound /\ call' \in SkinCalls /\ CallSound(call')
<1> DEFINE k == call.image
           s == call.id
<1>1. /\ call \in SkinCalls /\ images \in [Images -> ImageRows] /\ s \in Skins /\ k \in Images
      /\ skins \in [Skins -> SkinRows] /\ s # Nobody /\ k # Nobody
  BY SkinConstants DEF SkinInv, SkinTypes, CallSound, SkinCalls
<1>2. CASE Refuse
  BY <1>1, <1>2, SameSkinRows, RefusedCall DEF Refuse
<1>3. CASE /\ images[k] = [skin |-> s, st |-> "issued"]
           /\ images' = [images EXCEPT ![k].st = "on"]
           /\ skins' = [skins EXCEPT ![s].asset = k]
           /\ Answer(call)
  <2>1. images[k].skin = s /\ images[k].st = "issued"
    BY <1>3
  <2> DEFINE row == [skins[s] EXCEPT !.asset = k]
  <2>2. row \in SkinRows /\ row.asset = k
    BY <1>1 DEF SkinRows
  <2>3. skins' = [skins EXCEPT ![s] = row]
    BY <1>1, <1>3
  <2>4. [images[k] EXCEPT !.st = "on"] \in ImageRows
        /\ [images[k] EXCEPT !.st = "on"].skin = s /\ [images[k] EXCEPT !.st = "on"].st = "on"
    BY <1>1, <2>1 DEF ImageRows
  <2>5. /\ images' \in [Images -> ImageRows] /\ images'[k].skin = s /\ images'[k].st = "on"
        /\ \A j \in Images \ {k} : images'[j] = images[j]
    BY <1>1, <1>3, <2>4
  <2> HIDE DEF row, k, s
  <2>6. RowsSound
    BY <1>1, <2>1, <2>2, <2>3, <2>5, SkinChanges
  <2> QED
    BY <1>1, <1>3, <2>6, AnsweredCall DEF k, s
<1>4. CASE /\ images[k] = [skin |-> s, st |-> "issued"]
           /\ images' = [images EXCEPT ![k] = Gone]
           /\ Refused /\ UNCHANGED skins
  <2>1. images[k].skin = s /\ images[k].st = "issued"
    BY <1>4
  <2>2. Gone \in ImageRows
    BY DEF Gone, ImageRows
  <2>3. images' \in [Images -> ImageRows] /\ \A j \in Images \ {k} : images'[j] = images[j]
    BY <1>1, <1>4, <2>2
  <2>4. RowsSound
    BY <1>1, <1>4, <2>1, <2>3 DEF SkinInv, ImagesOwned, RowsSound, SkinRows
  <2> QED
    BY <1>1, <1>4, <2>4, RefusedCall
<1> QED
  BY <1>2, <1>3, <1>4 DEF PublishSkinRevision

LEMMA UpdateKeeps ==
    ASSUME SkinInv, UpdateSkin, call.st = "sent", call.kind = "update"
    PROVE  RowsSound /\ call' \in SkinCalls /\ CallSound(call')
<1> DEFINE s == call.id
<1>1. /\ call \in SkinCalls /\ images \in [Images -> ImageRows] /\ s \in Skins /\ s # Nobody
      /\ skins \in [Skins -> SkinRows] /\ ImagesOwned
  BY SkinConstants DEF SkinInv, SkinTypes, CallSound, SkinCalls
<1>2. CASE Refuse
  BY <1>1, <1>2, SameSkinRows, RefusedCall DEF Refuse
<1>3. ASSUME NEW granted \in BOOLEAN, ~(call.enabled /\ ~Current(s)),
             skins' = [skins EXCEPT ![s].enabled = call.enabled, ![s].granted = granted],
             Answer([call EXCEPT !.locked = granted]), UNCHANGED images
      PROVE  RowsSound /\ call' \in SkinCalls /\ CallSound(call')
  <2> DEFINE row == [skins[s] EXCEPT !.enabled = call.enabled, !.granted = granted]
             c == [call EXCEPT !.locked = granted]
  <2>1. row \in SkinRows /\ row.asset = skins[s].asset /\ row.enabled = call.enabled
    BY <1>1 DEF SkinRows, SkinCalls
  <2>2. skins' = [skins EXCEPT ![s] = row]
    BY <1>1, <1>3
  <2>3. c \in SkinCalls /\ c.id = s /\ c.kind = "update"
    BY <1>1 DEF SkinCalls
  <2>4. row.enabled => row.asset # Nobody
    BY <1>3, <2>1 DEF Current
  <2>5. row.asset # Nobody => images'[row.asset].skin = s /\ images'[row.asset].st = "on"
    BY <1>1, <1>3, <2>1 DEF ImagesOwned
  <2> HIDE DEF row, c, s
  <2>6. RowsSound
    BY <1>1, <1>3, <2>1, <2>2, <2>4, <2>5, SkinChanges
  <2> QED
    BY <1>1, <1>3, <2>3, <2>6, AnsweredCall DEF c
<1>4. skins[s].granted \in BOOLEAN
  BY <1>1 DEF SkinRows
<1> QED
  BY <1>2, <1>3, <1>4 DEF UpdateSkin

LEMMA DisableKeeps ==
    ASSUME SkinInv, DisableSkinRevision, call.st = "sent", call.kind = "disable"
    PROVE  RowsSound /\ call' \in SkinCalls /\ CallSound(call')
<1> DEFINE k == call.image
           s == call.id
<1>1. /\ call \in SkinCalls /\ images \in [Images -> ImageRows] /\ s \in Skins /\ k \in Images
      /\ skins \in [Skins -> SkinRows] /\ s # Nobody /\ k # Nobody /\ ImagesOwned
  BY SkinConstants DEF SkinInv, SkinTypes, CallSound, SkinCalls
<1>2. CASE Refuse
  BY <1>1, <1>2, SameSkinRows, RefusedCall DEF Refuse
<1>3. CASE /\ images[k] = [skin |-> s, st |-> "on"]
           /\ images' = [images EXCEPT ![k] = Gone]
           /\ skins' = IF skins[s].asset # k THEN skins
                       ELSE [skins EXCEPT ![s].asset = Nobody, ![s].enabled = FALSE]
           /\ Answer(call)
  <2>1. images[k].skin = s /\ images[k].st = "on"
    BY <1>3
  <2>2. Gone \in ImageRows
    BY DEF Gone, ImageRows
  <2>3. images' \in [Images -> ImageRows] /\ \A j \in Images \ {k} : images'[j] = images[j]
    BY <1>1, <1>3, <2>2
  <2> DEFINE row == IF skins[s].asset # k THEN skins[s]
                    ELSE [skins[s] EXCEPT !.asset = Nobody, !.enabled = FALSE]
  <2>4. /\ row \in SkinRows /\ row.asset # k
        /\ row.asset = Nobody \/ row = skins[s]
        /\ row.enabled => row = skins[s]
    BY <1>1 DEF SkinRows
  <2>5. skins' = [skins EXCEPT ![s] = row]
    BY <1>1, <1>3
  <2>6. row.enabled => row.asset # Nobody
    BY <1>1, <2>4 DEF ImagesOwned
  <2> HIDE DEF row, k, s
  <2>7. row.asset # Nobody => images'[row.asset].skin = s /\ images'[row.asset].st = "on"
    BY <1>1, <2>3, <2>4 DEF ImagesOwned, SkinRows
  <2>8. RowsSound
    BY <1>1, <2>1, <2>3, <2>4, <2>5, <2>6, <2>7, SkinChanges
  <2> QED
    BY <1>1, <1>3, <2>8, AnsweredCall DEF k, s
<1> QED
  BY <1>2, <1>3 DEF DisableSkinRevision

LEMMA EntitlementKeeps ==
    ASSUME SkinInv, ChangeSkinEntitlement, call.st = "sent", call.kind \in {"grant", "revoke"}
    PROVE  RowsSound /\ call' \in SkinCalls /\ CallSound(call')
<1> DEFINE s == call.id
<1>1. /\ call \in SkinCalls /\ images \in [Images -> ImageRows] /\ s \in Skins /\ call.image \in Images
      /\ skins \in [Skins -> SkinRows] /\ s # Nobody /\ call.image # Nobody /\ ImagesOwned
  BY SkinConstants DEF SkinInv, SkinTypes, CallSound, SkinCalls
<1>2. CASE Refuse
  BY <1>1, <1>2, SameSkinRows, RefusedCall DEF Refuse
<1>3. CASE skins' = [skins EXCEPT ![s].granted = TRUE] /\ Answer(call) /\ UNCHANGED images
  <2> DEFINE row == [skins[s] EXCEPT !.granted = TRUE]
  <2>1. row \in SkinRows /\ row.asset = skins[s].asset /\ row.enabled = skins[s].enabled
    BY <1>1 DEF SkinRows
  <2>2. skins' = [skins EXCEPT ![s] = row]
    BY <1>1, <1>3
  <2>3. /\ row.enabled => row.asset # Nobody
        /\ row.asset # Nobody => images'[row.asset].skin = s /\ images'[row.asset].st = "on"
        /\ images' = images
    BY <1>1, <1>3, <2>1 DEF ImagesOwned
  <2> HIDE DEF row, s
  <2>4. RowsSound
    BY <1>1, <2>1, <2>2, <2>3, SkinChanges
  <2> QED
    BY <1>1, <1>3, <2>4, AnsweredCall DEF s
<1> QED
  BY <1>2, <1>3 DEF ChangeSkinEntitlement

LEMMA ServeKeeps == SkinInv /\ Serve => SkinInv'
<1> SUFFICES ASSUME SkinInv, Serve PROVE SkinInv'
  OBVIOUS
<1>1. RowsSound /\ call' \in SkinCalls /\ CallSound(call')
  BY CreateSkinKeeps, UploadKeeps, PublishKeeps, UpdateKeeps, DisableKeeps, EntitlementKeeps DEF Serve
<1>2. UNCHANGED <<page, load>>
  BY DEF Serve
<1> QED
  BY <1>1, <1>2 DEF SkinInv, SkinTypes, RowsSound, CallSound

\* A step of a page: it leaves the rows alone.
LEMMA SkinPageStep ==
    ASSUME SkinInv, UNCHANGED <<skins, images>>,
           page' \in SkinPages, load' \in SkinLoads, call' \in SkinCalls, CallSound(call'),
           load'.st = "sent" => page'.at # Nobody
    PROVE  SkinInv'
BY SameSkinRows DEF SkinInv, SkinTypes, RowsSound, CallSound

LEMMA SkinParts ==
    ASSUME SkinInv
    PROVE  /\ page \in SkinPages /\ load \in SkinLoads /\ call \in SkinCalls /\ CallSound(call)
           /\ skins \in [Skins -> SkinRows]
           /\ load.st = "sent" => page.at # Nobody
BY DEF SkinInv, SkinTypes

LEMMA IdleLoadType ==
    /\ IdleLoad \in SkinLoads /\ IdleLoad.st = "idle"
    /\ [IdleLoad EXCEPT !.st = "sent"] \in SkinLoads
BY NoSkinType DEF IdleLoad, SkinLoads

LEMMA FreshDetailType ==
    ASSUME NEW s \in Skins \cup {Nobody}
    PROVE  FreshDetail(s) \in SkinPages /\ FreshDetail(s).at = s
BY NoSkinType DEF FreshDetail, SkinPages

\* Loading a skin, going from one to another, and coming from another page.
LEMMA LoadsKeep ==
    ASSUME SkinInv, ServeSkin \/ SkinArrives \/ OpenCreatePage \/ \E s \in Skins : GoTo(s) \/ OpenDetail(s)
    PROVE  SkinInv'
<1>1. CASE ServeSkin
  <2>1. /\ UNCHANGED <<skins, images, page, call>> /\ page.at \in Skins
        /\ load' = [st |-> "answered", shown |-> IF skins[page.at].exists THEN Stored(page.at) ELSE NoSkin]
    BY <1>1, SkinParts DEF ServeSkin, SkinPages
  <2>2. Stored(page.at) \in SkinViews
    BY <2>1, SkinParts DEF Stored, SkinViews, SkinRows, Revisions
  <2>3. load' \in SkinLoads /\ load'.st = "answered"
    BY <2>1, <2>2, NoSkinType DEF SkinLoads
  <2> QED
    BY <2>1, <2>3, SkinParts, SkinPageStep
<1>2. CASE SkinArrives
  <2>1. /\ UNCHANGED <<skins, images, call>> /\ load' = IdleLoad
        /\ page' = [page EXCEPT !.shown = load.shown, !.edited = FALSE]
    BY <1>2 DEF SkinArrives
  <2>2. page' \in SkinPages
    BY <2>1, SkinParts DEF SkinPages, SkinLoads
  <2> QED
    BY <2>1, <2>2, SkinParts, IdleLoadType, SkinPageStep
<1>3. CASE OpenCreatePage
  <2>1. /\ UNCHANGED <<skins, images>> /\ load' = IdleLoad /\ page' = FreshDetail(Nobody)
        /\ call' = [call EXCEPT !.here = FALSE]
    BY <1>3 DEF OpenCreatePage, CreatePage
  <2>2. call' \in SkinCalls /\ CallSound(call')
    BY <2>1, SkinParts DEF SkinCalls, CallSound
  <2> QED
    BY <2>1, <2>2, IdleLoadType, FreshDetailType, SkinPageStep
<1>4. ASSUME NEW s \in Skins, GoTo(s) PROVE SkinInv'
  <2>1. /\ UNCHANGED <<skins, images, call>> /\ load' = [IdleLoad EXCEPT !.st = "sent"]
        /\ page' = [page EXCEPT !.at = s]
    BY <1>4 DEF GoTo
  <2>2. page' \in SkinPages /\ page'.at = s /\ s # Nobody
    BY <2>1, SkinParts, SkinConstants DEF SkinPages
  <2> QED
    BY <2>1, <2>2, SkinParts, IdleLoadType, SkinPageStep
<1>5. ASSUME NEW s \in Skins, OpenDetail(s) PROVE SkinInv'
  <2>1. /\ UNCHANGED <<skins, images, call>> /\ load' = [IdleLoad EXCEPT !.st = "sent"]
        /\ page' = FreshDetail(s)
    BY <1>5 DEF OpenDetail
  <2>2. page' \in SkinPages /\ page'.at = s /\ s # Nobody
    BY <2>1, FreshDetailType, SkinConstants
  <2> QED
    BY <2>1, <2>2, SkinParts, IdleLoadType, SkinPageStep
<1> QED
  BY <1>1, <1>2, <1>3, <1>4, <1>5

LEMMA EditsKeep ==
    ASSUME SkinInv, ToggleEnabled \/ EditRules
    PROVE  SkinInv'
<1>1. UNCHANGED <<skins, images, load, call>>
  BY DEF ToggleEnabled, EditRules
<1>2. /\ page.shown \in SkinViews /\ page.shown.enabled \in BOOLEAN /\ page.edited \in BOOLEAN
      /\ [page.shown EXCEPT !.enabled = ~@] \in SkinViews
  BY SkinParts DEF SkinPages, SkinViews
<1>3. page' \in SkinPages /\ page'.at = page.at
  BY <1>2, SkinParts DEF ToggleEnabled, EditRules, SkinPages
<1> QED
  BY <1>1, <1>3, SkinParts, SkinPageStep

\* A mutation is sent of the skin that is shown.
LEMMA MutateKeeps ==
    ASSUME SkinInv, NEW c \in SkinCalls, Mutate(c),
           c.kind # "create" => page.shown.id # Nobody,
           c.kind \in {"publish", "disable", "grant", "revoke"} => c.image # Nobody
    PROVE  SkinInv'
<1>1. /\ UNCHANGED <<skins, images, page, load>>
      /\ call' = [c EXCEPT !.st = "sent", !.here = TRUE, !.id = page.shown.id]
  BY DEF Mutate
<1>2. page.shown.id \in Skins \cup {Nobody}
  BY SkinParts DEF SkinPages, SkinViews
<1>3. /\ call' \in SkinCalls /\ call'.st = "sent" /\ call'.id = page.shown.id
      /\ call'.kind = c.kind /\ call'.image = c.image
  BY <1>1, <1>2 DEF SkinCalls
<1>4. CallSound(call')
  BY <1>3 DEF CallSound
<1> QED
  BY <1>1, <1>3, <1>4, SkinParts, SkinPageStep

LEMMA ClicksOnSkin ==
    ASSUME SkinInv,
           \/ ClickUpdate \/ ClickUpload \/ ClickPublish \/ ClickDisable \/ ClickEntitlement \/ SubmitCreate
    PROVE  SkinInv'
<1>1. /\ page \in SkinPages /\ page.shown \in SkinViews /\ page.shown.on \subseteq Images
      /\ page.preview \in Images \cup {Nobody} /\ page.edited \in BOOLEAN
      /\ page.shown.enabled \in BOOLEAN /\ page.shown.locked \in BOOLEAN
  BY SkinParts DEF SkinPages, SkinViews
<1>2. IdleCall \in SkinCalls
  BY IdleCallType
<1>3. Showing => page.shown.id # Nobody
  BY DEF Showing
<1>4. CASE ClickUpdate
  <2> DEFINE rules == ~page.shown.locked /\ page.edited
             c == [IdleCall EXCEPT !.kind = "update", !.enabled = page.shown.enabled,
                                   !.on = page.shown.on, !.locked = page.shown.locked, !.rules = rules]
  <2>1. rules \in BOOLEAN /\ Mutate(c) /\ Showing
    BY <1>1, <1>4 DEF ClickUpdate
  <2> HIDE DEF rules
  <2>2. c \in SkinCalls /\ c.kind = "update"
    BY <1>1, <1>2, <2>1 DEF SkinCalls, SkinKinds
  <2> HIDE DEF c
  <2> QED
    BY <1>3, <2>1, <2>2, MutateKeeps
<1>5. CASE ClickUpload
  <2> DEFINE c == [IdleCall EXCEPT !.kind = "upload"]
  <2>1. Mutate(c) /\ Showing
    BY <1>5 DEF ClickUpload
  <2>2. c \in SkinCalls /\ c.kind = "upload"
    BY <1>2 DEF SkinCalls, SkinKinds
  <2> HIDE DEF c
  <2> QED
    BY <1>3, <2>1, <2>2, MutateKeeps
<1>6. ASSUME NEW k \in Images, NEW kind \in {"publish", "disable", "grant", "revoke"}, Showing,
             Mutate([IdleCall EXCEPT !.kind = kind, !.image = k])
      PROVE  SkinInv'
  <2> DEFINE c == [IdleCall EXCEPT !.kind = kind, !.image = k]
  <2>1. c \in SkinCalls /\ c.kind = kind /\ c.image = k /\ k # Nobody
    BY <1>2, SkinConstants DEF SkinCalls, SkinKinds
  <2>2. Mutate(c)
    BY <1>6
  <2> HIDE DEF c
  <2> QED
    BY <1>3, <1>6, <2>1, <2>2, MutateKeeps
<1>7. CASE ClickPublish
  BY <1>1, <1>6, <1>7 DEF ClickPublish
<1>8. CASE ClickDisable
  BY <1>1, <1>6, <1>8 DEF ClickDisable
<1>9. CASE ClickEntitlement
  BY <1>1, <1>6, <1>9 DEF ClickEntitlement
<1>10. CASE SubmitCreate
  <2> DEFINE c == [IdleCall EXCEPT !.kind = "create"]
  <2>1. Mutate(c)
    BY <1>10 DEF SubmitCreate
  <2>2. c \in SkinCalls /\ c.kind = "create"
    BY <1>2 DEF SkinCalls, SkinKinds
  <2> HIDE DEF c
  <2> QED
    BY <2>1, <2>2, MutateKeeps
<1> QED
  BY <1>4, <1>5, <1>7, <1>8, <1>9, <1>10

LEMMA DetailReturnsKeeps == SkinInv /\ DetailReturns => SkinInv'
<1> SUFFICES ASSUME SkinInv, DetailReturns PROVE SkinInv'
  OBVIOUS
<1>1. /\ UNCHANGED <<skins, images, load>> /\ call' = IdleCall
      /\ page' = page \/ (call.st = "done" /\ page' = After(call))
  BY DEF DetailReturns
<1>2. page \in SkinPages /\ call \in SkinCalls /\ CallSound(call)
  BY SkinParts
<1>3. ASSUME call.st = "done" PROVE After(call) \in SkinPages /\ After(call).at = page.at
  <2>1. /\ call.id \in Skins \cup {Nobody} /\ call.image \in Images \cup {Nobody}
        /\ call.kind \in {"upload", "publish", "disable"} => call.image \in Images
        /\ call.enabled \in BOOLEAN /\ call.locked \in BOOLEAN /\ call.on \subseteq Images
        /\ page.shown \in SkinViews
    BY <1>2, <1>3 DEF CallSound, SkinCalls, SkinPages
  <2>2. CASE call.kind = "update"
    <3> DEFINE view == [id |-> call.id, enabled |-> call.enabled, locked |-> call.locked, on |-> call.on]
    <3>1. view \in SkinViews
      BY <2>1 DEF SkinViews
    <3>2. After(call) = [page EXCEPT !.edited = FALSE, !.shown = view]
      BY <2>2 DEF After
    <3> HIDE DEF view
    <3> QED
      BY <1>2, <3>1, <3>2 DEF SkinPages
  <2>3. CASE call.kind = "upload"
    <3>1. After(call) = [page EXCEPT !.preview = call.image]
      BY <2>3 DEF After
    <3> QED
      BY <1>2, <2>1, <3>1 DEF SkinPages
  <2>4. CASE call.kind = "publish"
    <3> DEFINE on == IF Showing THEN page.shown.on \union {call.image} ELSE page.shown.on
               view == [page.shown EXCEPT !.on = on]
    <3>1. on \subseteq Images
      BY <2>1, <2>4 DEF SkinViews
    <3>2. view \in SkinViews
      BY <2>1, <3>1 DEF SkinViews
    <3>3. After(call) = [page EXCEPT !.preview = Nobody, !.shown = view]
      BY <1>2, <2>4 DEF After, SkinPages
    <3> HIDE DEF view
    <3> QED
      BY <1>2, <3>2, <3>3 DEF SkinPages
  <2>5. CASE call.kind = "disable"
    <3> DEFINE view == [page.shown EXCEPT !.on = page.shown.on \ {call.image}]
    <3>1. view \in SkinViews
      BY <2>1 DEF SkinViews
    <3>2. After(call) = [page EXCEPT !.shown = view]
      BY <1>2, <2>5 DEF After, SkinPages
    <3> HIDE DEF view
    <3> QED
      BY <1>2, <3>1, <3>2 DEF SkinPages
  <2>6. CASE call.kind \notin {"update", "upload", "publish", "disable"}
    BY <1>2, <2>6 DEF After
  <2> QED
    BY <2>2, <2>3, <2>4, <2>5, <2>6
<1>4. page' \in SkinPages /\ page'.at = page.at
  BY <1>1, <1>2, <1>3
<1> QED
  BY <1>1, <1>4, SkinParts, IdleCallType, SkinPageStep

\* The create page goes on to its next step.
LEMMA StepSound ==
    ASSUME call \in SkinCalls, call.id # Nobody, NEW kind \in {"upload", "publish", "update"},
           kind = "publish" => call.image # Nobody
    PROVE  /\ Step(kind) \in SkinCalls /\ CallSound(Step(kind))
           /\ [Step(kind) EXCEPT !.rules = TRUE] \in SkinCalls
           /\ CallSound([Step(kind) EXCEPT !.rules = TRUE])
<1> DEFINE c == Step(kind)
           d == [c EXCEPT !.rules = TRUE]
<1>1. c \in SkinCalls /\ c.st = "sent" /\ c.kind = kind /\ c.id = call.id /\ c.image = call.image
  BY DEF Step, SkinCalls, SkinKinds
<1> HIDE DEF c
<1>2. d \in SkinCalls /\ d.st = "sent" /\ d.kind = kind /\ d.id = call.id /\ d.image = call.image
  BY <1>1 DEF SkinCalls
<1> HIDE DEF d
<1>3. CallSound(c) /\ CallSound(d)
  BY <1>1, <1>2 DEF CallSound
<1> QED
  BY <1>1, <1>2, <1>3 DEF c, d

LEMMA CreateReturnsKeeps == SkinInv /\ CreateReturns => SkinInv'
<1> SUFFICES ASSUME SkinInv, CreateReturns PROVE SkinInv'
  OBVIOUS
<1>1. UNCHANGED <<skins, images>> /\ call.st \in {"done", "failed"}
  BY DEF CreateReturns
<1>2. CASE call' = IdleCall /\ UNCHANGED <<page, load>>
  BY <1>1, <1>2, SkinParts, IdleCallType, SkinPageStep
<1>3. CASE /\ call.st = "done" /\ UNCHANGED <<page, load>>
           /\ \/ call.kind = "create"  /\ call' = Step("upload")
              \/ call.kind = "upload"  /\ call' = Step("publish")
              \/ call.kind = "publish" /\ call' = [Step("update") EXCEPT !.rules = TRUE]
  <2>1. call \in SkinCalls /\ call.id # Nobody /\ (call.kind = "upload" => call.image # Nobody)
    BY <1>3, SkinParts DEF CallSound
  <2>2. call' \in SkinCalls /\ CallSound(call')
    BY <1>3, <2>1, StepSound
  <2> QED
    BY <1>1, <1>3, <2>2, SkinParts, SkinPageStep
<1>4. CASE /\ call.st = "done" /\ call' = IdleCall /\ page' = FreshDetail(call.id)
           /\ load' = [IdleLoad EXCEPT !.st = "sent"]
  <2>1. call.id \in Skins /\ call.id # Nobody
    BY <1>4, SkinParts DEF CallSound, SkinCalls
  <2> QED
    BY <1>1, <1>4, <2>1, IdleCallType, IdleLoadType, FreshDetailType, SkinPageStep
<1> QED
  BY <1>1, <1>2, <1>3, <1>4 DEF CreateReturns

LEMMA NextSkins == SkinInv /\ [SkinsNext]_skinsVars => SkinInv'
<1> SUFFICES ASSUME SkinInv, [SkinsNext]_skinsVars PROVE SkinInv'
  OBVIOUS
<1>1. CASE UNCHANGED skinsVars
  <2>1. UNCHANGED <<skins, images, page, load, call>>
    BY <1>1 DEF skinsVars
  <2> QED
    BY <2>1, SkinParts, SkinPageStep
<1> QED
  BY <1>1, ServeKeeps, LoadsKeep, EditsKeep, ClicksOnSkin, DetailReturnsKeeps, CreateReturnsKeeps DEF SkinsNext

\* ImagesSound, for any skins and uploads: an enabled skin has an image that
\* was uploaded for it and not withdrawn, whichever skin the page showed when
\* a step of it was sent, and whatever failed or was lost in between.
THEOREM ImagesStaySound == SkinsSpec => []ImagesSound
<1>1. SkinInv => ImagesSound
  BY DEF SkinInv, ImagesOwned, ImagesSound, EnabledHasImage, OwnImagesOnly, Current
<1> QED
  BY <1>1, InitSkins, NextSkins, PTL DEF SkinsSpec

-----------------------------------------------------------------------------
(* AdminEvents.                                                            *)

EventRows == [id : Events \cup {0}, st : {"none", "draft", "scheduled", "published", "archived"},
              ver : 0..MaxVersion, rev : 1..MaxVersion, text : 0..MaxVersion]
RevisionTexts == [1..MaxVersion -> 0..MaxVersion]

\* A row and what is recorded of it.  A revision is a version or less, and of
\* those after the row's nothing is recorded, so that a change after
\* publication finds its revision free.
RowSound(e, row, texts) ==
    /\ row \in EventRows /\ texts \in RevisionTexts
    /\ row.st = "none" => row.ver = 0 /\ texts[1] = 0 /\ row.rev = 1
    /\ row.st # "none" => row.id = e /\ 1 <= row.ver /\ row.rev <= row.ver
    /\ \A r \in 1..MaxVersion : row.rev < r => texts[r] = 0
    /\ row.st = "published" => texts[row.rev] = row.text
    /\ row.st \in {"draft", "scheduled"} => texts[row.rev] = 0

LEMMA UpdateIsSound ==
    ASSUME NEW e \in Events, NEW row, NEW texts, RowSound(e, row, texts),
           row.st # "none", row.ver < MaxVersion
    PROVE  /\ RowSound(e, UpdateEvent(row), texts)
           /\ UpdateEvent(row).ver = row.ver + 1 /\ UpdateEvent(row).st # "none"
           /\ UpdateEvent(row).id = e
<1> DEFINE new == UpdateEvent(row)
           out == row.st = "published"
<1>1. row \in EventRows /\ texts \in RevisionTexts /\ MaxVersion \in Nat
  BY EventsAssumption DEF RowSound
<1>2. /\ new.id = row.id /\ new.ver = row.ver + 1 /\ new.text = row.ver + 1
      /\ new.st = (IF out THEN "draft" ELSE row.st)
      /\ new.rev = (IF out THEN row.rev + 1 ELSE row.rev)
  BY <1>1 DEF UpdateEvent, EventRows
<1>3. row.ver \in 1..(MaxVersion - 1) /\ row.rev \in 1..row.ver /\ row.id = e
  BY <1>1, SMT DEF RowSound, EventRows
<1>4. new.rev \in 1..MaxVersion /\ new.ver \in 1..MaxVersion /\ new.rev <= new.ver
  BY <1>1, <1>2, <1>3, SMT
<1>5. new \in EventRows
  <2>1. /\ (IF out THEN "draft" ELSE row.st) \in {"none", "draft", "scheduled", "published", "archived"}
        /\ (IF out THEN row.rev + 1 ELSE row.rev) \in 1..MaxVersion
        /\ row.ver + 1 \in 0..MaxVersion
    BY <1>1, <1>3, SMT DEF EventRows
  <2> QED
    BY <1>1, <2>1 DEF EventRows, UpdateEvent
<1> HIDE DEF new
<1>6. \A r \in 1..MaxVersion : new.rev < r => texts[r] = 0
  BY <1>1, <1>2, <1>3, SMT DEF RowSound
<1>7. texts[new.rev] = 0 \/ ~(new.st \in {"draft", "scheduled"})
  BY <1>1, <1>2, <1>3, <1>4, SMT DEF RowSound
<1>8. new.st # "none" /\ new.st # "published"
  BY <1>2, SMT
<1>9. RowSound(e, new, texts)
  BY <1>1, <1>2, <1>3, <1>4, <1>5, <1>6, <1>7, <1>8 DEF RowSound
<1> QED
  BY <1>2, <1>3, <1>8, <1>9 DEF new

LEMMA TransitionIsSound ==
    ASSUME NEW e \in Events, NEW row, NEW texts, RowSound(e, row, texts),
           NEW kind \in {"schedule", "publish", "archive"},
           row.st \in From(kind), row.ver < MaxVersion
    PROVE  /\ RowSound(e, TransitionEvent(row, kind),
                       IF kind = "publish" THEN [texts EXCEPT ![row.rev] = row.text] ELSE texts)
           /\ TransitionEvent(row, kind).ver = row.ver + 1
           /\ TransitionEvent(row, kind).st # "none"
           /\ TransitionEvent(row, kind).id = e
           /\ TransitionEvent(row, kind).rev = row.rev
           /\ TransitionEvent(row, kind).text = row.text
<1> DEFINE new == TransitionEvent(row, kind)
           kept == IF kind = "publish" THEN [texts EXCEPT ![row.rev] = row.text] ELSE texts
<1>1. row \in EventRows /\ texts \in RevisionTexts /\ MaxVersion \in Nat
  BY EventsAssumption DEF RowSound
<1>2. /\ row.st \in {"draft", "scheduled", "published"}
      /\ To(kind) \in {"scheduled", "published", "archived"}
      /\ To(kind) = "published" <=> kind = "publish"
      /\ kind \in {"schedule", "publish"} => row.st \in {"draft", "scheduled"}
      /\ To(kind) = "scheduled" => kind = "schedule"
  BY DEF From, To
<1>3. row.ver \in 1..(MaxVersion - 1) /\ row.rev \in 1..row.ver /\ row.id = e /\ row.st # "none"
  BY <1>1, <1>2, SMT DEF RowSound, EventRows
<1>4. /\ new.id = row.id /\ new.ver = row.ver + 1 /\ new.text = row.text
      /\ new.st = To(kind) /\ new.rev = row.rev
  BY <1>1 DEF TransitionEvent, EventRows
<1>5. new \in EventRows
  <2>1. row.ver + 1 \in 0..MaxVersion
    BY <1>1, <1>3, SMT
  <2> QED
    BY <1>1, <1>2, <2>1 DEF EventRows, TransitionEvent
<1>6. row.rev \in 1..MaxVersion /\ row.text \in 0..MaxVersion
  BY <1>1 DEF EventRows
<1>7. kept \in RevisionTexts
  BY <1>1, <1>6 DEF RevisionTexts
<1>8. \A r \in 1..MaxVersion : kept[r] = IF kind = "publish" /\ r = row.rev THEN row.text ELSE texts[r]
  BY <1>1 DEF RevisionTexts
<1> HIDE DEF new, kept
<1>9. \A r \in 1..MaxVersion : new.rev < r => kept[r] = 0
  BY <1>1, <1>3, <1>4, <1>8, SMT DEF RowSound
<1>10. new.st = "published" => kept[new.rev] = new.text
  BY <1>2, <1>4, <1>6, <1>8
<1>11. new.st \in {"draft", "scheduled"} => kept[new.rev] = 0
  BY <1>2, <1>4, <1>6, <1>8 DEF RowSound
<1>12. new.st # "none" /\ new.rev <= new.ver /\ 1 <= new.ver
  BY <1>2, <1>3, <1>4, SMT
<1>13. RowSound(e, new, kept)
  BY <1>3, <1>4, <1>5, <1>7, <1>9, <1>10, <1>11, <1>12 DEF RowSound
<1> QED
  BY <1>3, <1>4, <1>12, <1>13 DEF new, kept

LEMMA NoEventIsRow == NoEvent \in EventRows
<1>1. MaxVersion \in Nat \ {0}
  BY EventsAssumption
<1>2. 1 \in 1..MaxVersion /\ 0 \in 0..MaxVersion
  BY <1>1, SMT
<1> QED
  BY <1>2 DEF NoEvent, EventRows

\* What the create page makes.
DraftOf(e) == [NoEvent EXCEPT !.id = e, !.st = "draft", !.ver = 1, !.text = 1]

LEMMA DraftIsSound ==
    ASSUME NEW e \in Events, NEW row, NEW texts, RowSound(e, row, texts), row.st = "none"
    PROVE  RowSound(e, DraftOf(e), texts) /\ DraftOf(e).ver = 1 /\ DraftOf(e).st = "draft" /\ DraftOf(e).id = e
<1>1. row \in EventRows /\ texts \in RevisionTexts /\ MaxVersion \in Nat \ {0}
  BY EventsAssumption DEF RowSound
<1>2. NoEvent \in EventRows /\ NoEvent.rev = 1
  BY NoEventIsRow DEF NoEvent
<1>3. 1 \in 1..MaxVersion /\ 1 \in 0..MaxVersion
  BY <1>1, SMT
<1>4. DraftOf(e) \in EventRows
  BY <1>2, <1>3 DEF EventRows, DraftOf
<1>5. DraftOf(e).id = e /\ DraftOf(e).st = "draft" /\ DraftOf(e).ver = 1 /\ DraftOf(e).rev = 1
  BY <1>2 DEF EventRows, DraftOf
<1>6. texts[1] = 0 /\ \A r \in 1..MaxVersion : 1 < r => texts[r] = 0
  BY DEF RowSound
<1> QED
  BY <1>1, <1>4, <1>5, <1>6, SMT DEF RowSound

-----------------------------------------------------------------------------
(* What the pages and their requests know of the rows.                     *)

\* A row as it is or was: with the version it has now it is the row of now.
Past(row) ==
    /\ row \in EventRows /\ row.id \in Events
    /\ event[row.id].st # "none" /\ row.ver <= event[row.id].ver
    /\ row.ver = event[row.id].ver => row = event[row.id]

Known(e) == e \in Events /\ event[e].st # "none"

Desks == [mode : {"detail", "edit", "new"}, at : Events \cup {0}, shown : EventRows, typed : BOOLEAN]
EventGets == [st : {"none", "sent", "done", "failed"}, at : Events \cup {0}, row : EventRows]
EventPosts == [st : {"none", "sent", "done", "failed"}, here : BOOLEAN,
               kind : {"save", "create", "schedule", "publish", "archive"}, seen : EventRows]

\* The desk: only the create page has no event, and only what was loaded or is
\* being created is typed into.
DeskSound ==
    /\ desk.mode # "new" => Known(desk.at)
    /\ desk.shown = NoEvent \/ Past(desk.shown)
    /\ desk.typed => desk.mode = "new" \/ (desk.mode = "edit" /\ Past(desk.shown))

FetchSound(f) ==
    /\ fetch[f].st # "none" => Known(fetch[f].at)
    /\ fetch[f].st = "done" => Past(fetch[f].row)

ChangeSound(c) ==
    /\ change[c].st = "sent" /\ change[c].kind # "create" => Past(change[c].seen)
    /\ change[c].st = "done" => Past(change[c].seen)

EventTypes ==
    /\ event \in [Events -> EventRows]
    /\ recorded \in [Events -> RevisionTexts]
    /\ desk \in Desks
    /\ fetch \in [Fetches -> EventGets]
    /\ change \in [Changes -> EventPosts]

RowsAreSound == \A e \in Events : RowSound(e, event[e], recorded[e])

\* The inductive invariant: the rows are sound, and whatever a page shows or a
\* request carries is a row as it is or was.
EventInv ==
    /\ EventTypes
    /\ RowsAreSound
    /\ DeskSound
    /\ \A f \in Fetches : FetchSound(f)
    /\ \A c \in Changes : ChangeSound(c)

LEMMA InitEvents == EventsInit => EventInv
<1> SUFFICES ASSUME EventsInit PROVE EventInv
  OBVIOUS
<1>1. MaxVersion \in Nat \ {0} /\ 1 \in Fetches /\ 0 \notin Events /\ 1 \in Events
  BY EventsAssumption
<1>2. 1 \in 1..MaxVersion /\ 0 \in 0..MaxVersion /\ 1 \in 0..MaxVersion
  BY <1>1, SMT
<1> DEFINE draft == DraftOf(1)
           none == [r \in 1..MaxVersion |-> 0]
<1>3. NoEvent \in EventRows /\ none \in RevisionTexts
  BY <1>2, NoEventIsRow DEF RevisionTexts
<1>4. \A e \in Events : RowSound(e, NoEvent, none)
  BY <1>1, <1>2, <1>3, SMT DEF RowSound, NoEvent
<1>5. RowSound(1, draft, none) /\ draft.st = "draft" /\ draft.id = 1
  <2>1. RowSound(1, NoEvent, none) /\ NoEvent.st = "none"
    BY <1>1, <1>4 DEF NoEvent
  <2> HIDE DEF none
  <2> QED
    BY <1>1, <2>1, DraftIsSound
<1> HIDE DEF draft, none
<1>6. draft \in EventRows
  BY <1>5 DEF RowSound
<1>7. event = [e \in Events |-> IF e = 1 THEN draft ELSE NoEvent]
  BY DEF EventsInit, draft, DraftOf
<1>8. recorded = [e \in Events |-> none]
  BY DEF EventsInit, none
<1>9. event \in [Events -> EventRows] /\ recorded \in [Events -> RevisionTexts]
  BY <1>3, <1>6, <1>7, <1>8
<1>10. RowsAreSound
  BY <1>4, <1>5, <1>7, <1>8 DEF RowsAreSound
<1>11. Known(1)
  BY <1>1, <1>5, <1>7, SMT DEF Known
<1>12. /\ desk \in Desks /\ desk.mode = "detail" /\ desk.at = 1 /\ desk.shown = NoEvent
       /\ desk.typed = FALSE
  BY <1>1, <1>3 DEF EventsInit, Desks
<1>13. DeskSound
  BY <1>11, <1>12 DEF DeskSound
<1>14. NoFetch \in EventGets /\ [NoFetch EXCEPT !.st = "sent", !.at = 1] \in EventGets
  BY <1>1, <1>3 DEF NoFetch, EventGets
<1>15. /\ fetch \in [Fetches -> EventGets]
       /\ \A f \in Fetches : fetch[f].st = "none" \/ (fetch[f].st = "sent" /\ fetch[f].at = 1)
  BY <1>1, <1>14 DEF EventsInit, NoFetches, NoFetch
<1>16. \A f \in Fetches : FetchSound(f)
  BY <1>11, <1>15 DEF FetchSound
<1>17. NoChange \in EventPosts
  BY <1>3 DEF NoChange, EventPosts
<1>18. change \in [Changes -> EventPosts] /\ \A c \in Changes : change[c].st = "none"
  BY <1>17 DEF EventsInit, NoChange
<1>19. \A c \in Changes : ChangeSound(c)
  BY <1>18 DEF ChangeSound
<1> QED
  BY <1>9, <1>10, <1>12, <1>13, <1>15, <1>16, <1>18, <1>19 DEF EventInv, EventTypes

-----------------------------------------------------------------------------
(* The steps.                                                              *)

\* The rows change to later versions only.
Grown ==
    /\ event \in [Events -> EventRows] /\ event' \in [Events -> EventRows]
    /\ \A e \in Events : \/ event'[e] = event[e]
                         \/ event'[e].st # "none" /\ event[e].ver < event'[e].ver

LEMMA PastStays ==
    ASSUME Grown, NEW row
    PROVE  /\ Past(row) => Past(row)'
           /\ Known(row) => Known(row)'
<1>1. ASSUME Past(row) PROVE Past(row)'
  <2> DEFINE e == row.id
  <2>1. e \in Events /\ row \in EventRows
    BY <1>1 DEF Past
  <2>2. CASE event'[e] = event[e]
    BY <1>1, <2>2 DEF Past
  <2>3. CASE event'[e].st # "none" /\ event[e].ver < event'[e].ver
    <3>1. /\ row.ver \in 0..MaxVersion /\ event[e].ver \in 0..MaxVersion /\ event'[e].ver \in 0..MaxVersion
          /\ row.ver <= event[e].ver
      BY <1>1, <2>1 DEF Past, Grown, EventRows
    <3>2. row.ver <= event'[e].ver /\ row.ver # event'[e].ver
      BY <2>3, <3>1, EventsAssumption, SMT
    <3> QED
      BY <2>1, <2>3, <3>2 DEF Past
  <2> QED
    BY <2>1, <2>2, <2>3 DEF Grown
<1>2. ASSUME Known(row) PROVE Known(row)'
  BY <1>2 DEF Known, Grown
<1> QED
  BY <1>1, <1>2

\* A POST or PUT goes on as it was, its page perhaps left.
SameCall(c) ==
    /\ change'[c].st = change[c].st /\ change'[c].kind = change[c].kind
    /\ change'[c].seen = change[c].seen

LEMMA SameRowsGrow == EventInv /\ event' = event => Grown
BY DEF EventInv, EventTypes, Grown

\* What the pages and requests know stays right when rows change.
LEMMA PagesStay ==
    ASSUME EventInv, Grown
    PROVE  /\ UNCHANGED desk => DeskSound'
           /\ UNCHANGED fetch => \A f \in Fetches : FetchSound(f)'
           /\ \A c \in Changes : SameCall(c) => ChangeSound(c)'
<1>1. \A row : (Past(row) => Past(row)') /\ (Known(row) => Known(row)')
  BY PastStays
<1>2. UNCHANGED desk => DeskSound'
  <2> SUFFICES ASSUME UNCHANGED desk PROVE DeskSound'
    OBVIOUS
  <2>1. DeskSound
    BY DEF EventInv
  <2>2. (Past(desk.shown) => Past(desk.shown)') /\ (Known(desk.at) => Known(desk.at)')
    BY <1>1
  <2> QED
    BY <2>1, <2>2 DEF DeskSound
<1>3. UNCHANGED fetch => \A f \in Fetches : FetchSound(f)'
  BY <1>1 DEF EventInv, FetchSound
<1>4. \A c \in Changes : SameCall(c) => ChangeSound(c)'
  BY <1>1 DEF EventInv, ChangeSound, SameCall
<1> QED
  BY <1>2, <1>3, <1>4

\* A row that is stored is a later version of the one it replaces.
LEMMA StoreGrows ==
    ASSUME EventInv, NEW e \in Events, NEW row, NEW kind, row.id = e, row.st # "none",
           event[e].ver < row.ver, Store(row, kind),
           RowSound(e, row, IF kind = "publish" THEN [recorded[e] EXCEPT ![row.rev] = row.text]
                            ELSE recorded[e])
    PROVE  /\ Grown /\ RowsAreSound' /\ Past(row)'
           /\ event' \in [Events -> EventRows] /\ recorded' \in [Events -> RevisionTexts]
<1> DEFINE texts == IF kind = "publish" THEN [recorded[e] EXCEPT ![row.rev] = row.text]
                    ELSE recorded[e]
<1>1. /\ event \in [Events -> EventRows] /\ recorded \in [Events -> RevisionTexts]
      /\ \A x \in Events : RowSound(x, event[x], recorded[x])
  BY DEF EventInv, EventTypes, RowsAreSound
<1>2. row \in EventRows /\ texts \in RevisionTexts
  BY DEF RowSound
<1>3. event' = [event EXCEPT ![e] = row]
  BY DEF Store
<1>4. recorded' = [recorded EXCEPT ![e] = texts]
  <2>1. CASE kind = "publish"
    BY <1>1, <2>1 DEF Store
  <2>2. CASE kind # "publish"
    BY <1>1, <2>2 DEF Store
  <2> QED
    BY <2>1, <2>2
<1>5. RowSound(e, row, texts)
  OBVIOUS
<1> HIDE DEF texts
<1>6. event' \in [Events -> EventRows] /\ recorded' \in [Events -> RevisionTexts]
  BY <1>1, <1>2, <1>3, <1>4
<1>7. \A x \in Events : /\ event'[x] = IF x = e THEN row ELSE event[x]
                        /\ recorded'[x] = IF x = e THEN texts ELSE recorded[x]
  BY <1>1, <1>3, <1>4
<1>8. RowsAreSound'
  BY <1>1, <1>5, <1>7 DEF RowsAreSound
<1>9. Grown
  BY <1>1, <1>6, <1>7 DEF Grown
<1>10. Past(row)'
  <2>1. row.ver <= row.ver
    BY <1>2, SMT DEF EventRows
  <2> QED
    BY <1>2, <1>7, <2>1 DEF Past
<1> QED
  BY <1>6, <1>8, <1>9, <1>10

\* The row that a change makes of an event, if it is accepted.
ChangeOf(kind, row) == IF kind = "save" THEN UpdateEvent(row) ELSE TransitionEvent(row, kind)

LEMMA ChangedRow ==
    ASSUME EventInv, NEW e \in Events,
           NEW kind \in {"save", "schedule", "publish", "archive"},
           event[e].st # "none", event[e].ver < MaxVersion,
           kind # "save" => event[e].st \in From(kind)
    PROVE  LET row == ChangeOf(kind, event[e])
           IN  /\ row.id = e /\ row.st # "none" /\ event[e].ver < row.ver
               /\ RowSound(e, row, IF kind = "publish" THEN [recorded[e] EXCEPT ![row.rev] = row.text]
                                   ELSE recorded[e])
<1>1. RowSound(e, event[e], recorded[e]) /\ event[e].ver \in Nat
  BY EventsAssumption, SMT DEF EventInv, EventTypes, RowsAreSound, EventRows
<1>2. event[e].ver < event[e].ver + 1
  BY <1>1, SMT
<1>3. CASE kind = "save"
  BY <1>1, <1>2, <1>3, UpdateIsSound DEF ChangeOf
<1>4. CASE kind # "save"
  <2>1. kind \in {"schedule", "publish", "archive"} /\ event[e].st \in From(kind)
    BY <1>4
  <2> DEFINE row == TransitionEvent(event[e], kind)
  <2>2. /\ RowSound(e, row, IF kind = "publish" THEN [recorded[e] EXCEPT ![event[e].rev] = event[e].text]
                            ELSE recorded[e])
        /\ row.ver = event[e].ver + 1 /\ row.st # "none" /\ row.id = e
        /\ row.rev = event[e].rev /\ row.text = event[e].text
    BY <1>1, <2>1, TransitionIsSound
  <2>3. ChangeOf(kind, event[e]) = row
    BY <1>4 DEF ChangeOf
  <2> HIDE DEF row
  <2> QED
    BY <1>2, <2>2, <2>3
<1> QED
  BY <1>3, <1>4

\* A POST or PUT that is answered: with the row that is there now, or failed.
LEMMA AnsweredChange ==
    ASSUME EventInv, EventTypes', RowsAreSound', Grown, UNCHANGED <<desk, fetch>>,
           NEW c \in Changes, \A d \in Changes \ {c} : change'[d] = change[d],
           NEW row, change'[c].st = "failed" \/ (change'[c].st = "done" /\ change'[c].seen = row /\ Past(row)')
    PROVE  EventInv'
<1>1. DeskSound' /\ \A f \in Fetches : FetchSound(f)'
  BY PagesStay
<1>2. ASSUME NEW d \in Changes PROVE ChangeSound(d)'
  <2>1. CASE d = c
    BY <2>1 DEF ChangeSound
  <2>2. CASE d # c
    BY <2>2, PagesStay DEF SameCall
  <2> QED
    BY <2>1, <2>2
<1> QED
  BY <1>1, <1>2 DEF EventInv

\* The row of a change, stored, and its answer.
LEMMA StoredChange ==
    ASSUME EventInv, NEW c \in Changes, NEW e \in Events, NEW row, NEW kind,
           row.id = e, row.st # "none", event[e].ver < row.ver, Store(row, kind),
           RowSound(e, row, IF kind = "publish" THEN [recorded[e] EXCEPT ![row.rev] = row.text]
                            ELSE recorded[e]),
           Changed(c, row), UNCHANGED <<desk, fetch>>
    PROVE  EventInv'
<1>1. /\ Grown /\ RowsAreSound' /\ Past(row)'
      /\ event' \in [Events -> EventRows] /\ recorded' \in [Events -> RevisionTexts]
  BY StoreGrows
<1>2. /\ desk \in Desks /\ fetch \in [Fetches -> EventGets] /\ change \in [Changes -> EventPosts]
      /\ row \in EventRows
  BY DEF EventInv, EventTypes, RowSound
<1>3. /\ [change[c] EXCEPT !.st = "done", !.seen = row] \in EventPosts
      /\ [change[c] EXCEPT !.st = "failed"] \in EventPosts
  BY <1>2 DEF EventPosts
<1>4. change'[c] \in {[change[c] EXCEPT !.st = "done", !.seen = row], [change[c] EXCEPT !.st = "failed"]}
  BY <1>2 DEF Changed
<1>5. /\ \A d \in Changes \ {c} : change'[d] = change[d]
      /\ change' = [change EXCEPT ![c] = change'[c]]
  BY <1>2, <1>4 DEF Changed
<1>6. change' \in [Changes -> EventPosts]
  BY <1>2, <1>3, <1>4, <1>5
<1>7. EventTypes'
  BY <1>1, <1>2, <1>6 DEF EventTypes
<1>8. change'[c].st = "failed" \/ (change'[c].st = "done" /\ change'[c].seen = row)
  BY <1>2, <1>4 DEF EventPosts
<1> QED
  BY <1>1, <1>5, <1>7, <1>8, AnsweredChange

LEMMA ServeChangeKeeps ==
    ASSUME EventInv, NEW c \in Changes, ServeChange(c)
    PROVE  EventInv'
<1> DEFINE kind == change[c].kind
           seen == change[c].seen
           was == event[seen.id]
           row == IF kind = "save" THEN UpdateEvent(was) ELSE TransitionEvent(was, kind)
<1>1. /\ event \in [Events -> EventRows] /\ recorded \in [Events -> RevisionTexts]
      /\ desk \in Desks /\ fetch \in [Fetches -> EventGets] /\ change \in [Changes -> EventPosts]
      /\ UNCHANGED <<desk, fetch>> /\ change[c].st = "sent" /\ RowsAreSound
  BY DEF EventInv, EventTypes, ServeChange
<1>2. CASE change' = [change EXCEPT ![c].st = "failed"] /\ UNCHANGED <<event, recorded>>
  <2>1. [change[c] EXCEPT !.st = "failed"] \in EventPosts /\ change'[c].st = "failed"
    BY <1>1, <1>2 DEF EventPosts
  <2>2. change' \in [Changes -> EventPosts] /\ \A d \in Changes \ {c} : change'[d] = change[d]
    BY <1>1, <1>2, <2>1
  <2>3. EventTypes' /\ RowsAreSound'
    BY <1>1, <1>2, <2>2 DEF EventTypes, RowsAreSound
  <2> QED
    BY <1>1, <1>2, <2>1, <2>2, <2>3, SameRowsGrow, AnsweredChange
<1>3. CASE kind # "create" /\ Accepts(kind, seen) /\ Store(row, kind) /\ Changed(c, row)
  <2>1. Past(seen) /\ seen.id \in Events /\ was.st # "none"
    BY <1>1, <1>3 DEF EventInv, ChangeSound, Past
  <2>2. /\ kind \in {"save", "schedule", "publish", "archive"} /\ was.ver < MaxVersion
        /\ kind # "save" => was.st \in From(kind)
    BY <1>1, <1>3 DEF Accepts, UpToDate, EventPosts
  <2>3. row = ChangeOf(kind, was)
    BY DEF ChangeOf
  <2> DEFINE e == seen.id
  <2> HIDE DEF row, kind
  <2>4. /\ row.id = e /\ row.st # "none" /\ event[e].ver < row.ver
        /\ RowSound(e, row, IF kind = "publish" THEN [recorded[e] EXCEPT ![row.rev] = row.text]
                            ELSE recorded[e])
    BY <2>1, <2>2, <2>3, ChangedRow
  <2> HIDE DEF e
  <2> QED
    BY <1>1, <1>3, <2>1, <2>4, StoredChange DEF e
<1>4. ASSUME NEW e \in Events, kind = "create", event[e].st = "none",
             Store(DraftOf(e), kind), Changed(c, DraftOf(e))
      PROVE  EventInv'
  <2>1. RowSound(e, event[e], recorded[e])
    BY <1>1 DEF RowsAreSound
  <2>2. /\ RowSound(e, DraftOf(e), recorded[e])
        /\ DraftOf(e).ver = 1 /\ DraftOf(e).st = "draft" /\ DraftOf(e).id = e
    BY <1>4, <2>1, DraftIsSound
  <2>3. event[e].ver = 0
    BY <1>4, <2>1 DEF RowSound
  <2>4. event[e].ver < DraftOf(e).ver
    BY <2>2, <2>3, SMT
  <2>5. kind # "publish"
    BY <1>4
  <2> HIDE DEF kind
  <2> QED
    BY <1>1, <1>4, <2>2, <2>4, <2>5, StoredChange
<1> QED
  BY <1>2, <1>3, <1>4 DEF ServeChange, DraftOf

LEMMA ServeEventKeeps ==
    ASSUME EventInv, NEW f \in Fetches, ServeEvent(f)
    PROVE  EventInv'
<1>1. /\ event \in [Events -> EventRows] /\ recorded \in [Events -> RevisionTexts]
      /\ desk \in Desks /\ fetch \in [Fetches -> EventGets] /\ change \in [Changes -> EventPosts]
      /\ UNCHANGED <<event, recorded, desk, change>> /\ fetch[f].st = "sent" /\ RowsAreSound
  BY DEF EventInv, EventTypes, ServeEvent
<1> DEFINE e == fetch[f].at
           ok == [fetch[f] EXCEPT !.st = "done", !.row = event[e]]
           ko == [fetch[f] EXCEPT !.st = "failed"]
<1>2. Known(e)
  BY <1>1 DEF EventInv, FetchSound
<1>3. event[e] \in EventRows /\ event[e].id = e /\ event[e].st # "none" /\ e \in Events
  BY <1>1, <1>2 DEF Known, RowsAreSound, RowSound
<1>4. Past(event[e])
  <2>1. event[e].ver <= event[e].ver
    BY <1>3, EventsAssumption, SMT DEF EventRows
  <2> QED
    BY <1>3, <2>1 DEF Past
<1>5. ok \in EventGets /\ ko \in EventGets /\ ok.at = e /\ ko.at = e
      /\ ok.row = event[e] /\ ok.st = "done" /\ ko.st = "failed"
  BY <1>1, <1>3 DEF EventGets
<1>6. fetch' \in {[fetch EXCEPT ![f] = ok], [fetch EXCEPT ![f] = ko]}
  BY <1>1 DEF ServeEvent
<1> HIDE DEF ok, ko
<1>7. /\ fetch' \in [Fetches -> EventGets] /\ fetch'[f] \in {ok, ko}
      /\ \A g \in Fetches \ {f} : fetch'[g] = fetch[g]
  BY <1>1, <1>5, <1>6
<1>8. EventTypes' /\ RowsAreSound'
  BY <1>1, <1>7 DEF EventTypes, RowsAreSound
<1>9. Grown
  BY <1>1, SameRowsGrow
<1>10. DeskSound' /\ \A c \in Changes : ChangeSound(c)'
  BY <1>1, <1>9, PagesStay DEF SameCall
<1>11. \A row : (Past(row) => Past(row)') /\ (Known(row) => Known(row)')
  BY <1>9, PastStays
<1>12. ASSUME NEW g \in Fetches PROVE FetchSound(g)'
  <2>1. CASE g = f
    BY <1>2, <1>4, <1>5, <1>7, <1>11, <2>1 DEF FetchSound
  <2>2. CASE g # f
    BY <1>7, <1>11, <2>2 DEF EventInv, FetchSound
  <2> QED
    BY <2>1, <2>2
<1> QED
  BY <1>8, <1>10, <1>12 DEF EventInv

LEMMA OtherAdminChangesKeeps ==
    ASSUME EventInv, NEW e \in Events, OtherAdminChanges(e)
    PROVE  EventInv'
<1>1. /\ desk \in Desks /\ fetch \in [Fetches -> EventGets] /\ change \in [Changes -> EventPosts]
      /\ UNCHANGED <<desk, fetch, change>> /\ event[e].st # "none" /\ event[e].ver < MaxVersion
  BY DEF EventInv, EventTypes, OtherAdminChanges
<1>2. ASSUME NEW kind \in {"save", "schedule", "publish", "archive"}, NEW row,
             kind # "save" => event[e].st \in From(kind),
             row = ChangeOf(kind, event[e]), Store(row, kind)
      PROVE  EventInv'
  <2>1. /\ row.id = e /\ row.st # "none" /\ event[e].ver < row.ver
        /\ RowSound(e, row, IF kind = "publish" THEN [recorded[e] EXCEPT ![row.rev] = row.text]
                            ELSE recorded[e])
    BY <1>1, <1>2, ChangedRow
  <2>2. /\ Grown /\ RowsAreSound'
        /\ event' \in [Events -> EventRows] /\ recorded' \in [Events -> RevisionTexts]
    BY <1>2, <2>1, StoreGrows
  <2>3. EventTypes'
    BY <1>1, <2>2 DEF EventTypes
  <2>4. DeskSound' /\ (\A f \in Fetches : FetchSound(f)') /\ (\A c \in Changes : ChangeSound(c)')
    BY <1>1, <2>2, PagesStay DEF SameCall
  <2> QED
    BY <2>2, <2>3, <2>4 DEF EventInv
<1>3. CASE Store(UpdateEvent(event[e]), "save")
  BY <1>2, <1>3 DEF ChangeOf
<1>4. ASSUME NEW kind \in {"schedule", "publish", "archive"}, event[e].st \in From(kind),
             Store(TransitionEvent(event[e], kind), kind)
      PROVE  EventInv'
  <2>1. kind # "save" /\ ChangeOf(kind, event[e]) = TransitionEvent(event[e], kind)
    BY DEF ChangeOf
  <2> QED
    BY <1>2, <1>4, <2>1
<1> QED
  BY <1>3, <1>4 DEF OtherAdminChanges

\* A step of a page: it leaves the rows alone.
LEMMA PageStep ==
    ASSUME EventInv, UNCHANGED <<event, recorded>>,
           desk' \in Desks, fetch' \in [Fetches -> EventGets], change' \in [Changes -> EventPosts],
           UNCHANGED desk \/ DeskSound',
           \A f \in Fetches : fetch'[f] = fetch[f] \/ FetchSound(f)',
           \A c \in Changes : SameCall(c) \/ ChangeSound(c)'
    PROVE  EventInv'
<1>1. Grown
  BY SameRowsGrow
<1>2. EventTypes' /\ RowsAreSound'
  BY DEF EventInv, EventTypes, RowsAreSound
<1>3. DeskSound' /\ \A c \in Changes : ChangeSound(c)'
  BY <1>1, PagesStay
<1>4. \A row : (Past(row) => Past(row)') /\ (Known(row) => Known(row)')
  BY <1>1, PastStays
<1>5. \A f \in Fetches : FetchSound(f)'
  BY <1>4 DEF EventInv, FetchSound
<1> QED
  BY <1>2, <1>3, <1>5 DEF EventInv

\* Asking for an event.
LEMMA FetchAsks ==
    ASSUME EventInv, NEW e, Known(e), UNCHANGED event, NEW fetches \in [Fetches -> EventGets],
           \A f \in Fetches : fetches[f] = fetch[f] \/ fetches[f].st = "none", Fetch(fetches, e)
    PROVE  /\ fetch' \in [Fetches -> EventGets]
           /\ \A f \in Fetches : fetch'[f] = fetch[f] \/ FetchSound(f)'
<1> DEFINE sent == [NoFetch EXCEPT !.st = "sent", !.at = e]
<1>1. PICK f \in Fetches : fetch' = [fetches EXCEPT ![f] = sent]
  BY DEF Fetch
<1>2. e \in Events /\ Known(e)'
  BY DEF Known
<1>3. sent \in EventGets /\ sent.st = "sent" /\ sent.at = e
  BY <1>2, NoEventIsRow DEF NoFetch, EventGets
<1> HIDE DEF sent
<1>4. fetch' \in [Fetches -> EventGets]
  BY <1>1, <1>3
<1>5. ASSUME NEW g \in Fetches PROVE fetch'[g] = fetch[g] \/ FetchSound(g)'
  <2>1. CASE g = f
    BY <1>1, <1>2, <1>3, <2>1 DEF FetchSound
  <2>2. CASE g # f
    BY <1>1, <2>2 DEF FetchSound
  <2> QED
    BY <2>1, <2>2
<1> QED
  BY <1>4, <1>5

LEMMA ShowKeeps ==
    ASSUME EventInv, UNCHANGED <<event, recorded>>, NEW mode \in {"detail", "edit", "new"}, NEW e,
           (mode = "new" /\ e = 0) \/ (mode # "new" /\ Known(e)),
           NEW calls \in [Changes -> EventPosts],
           \A c \in Changes : calls[c] = change[c] \/ calls[c].st = "none",
           Show(mode, e, calls)
    PROVE  EventInv'
<1> DEFINE stays == mode = "detail" /\ desk.mode = "detail"
           fetches == IF stays THEN fetch ELSE NoFetches
<1>1. desk \in Desks /\ fetch \in [Fetches -> EventGets] /\ DeskSound /\ e \in Events \cup {0}
  BY DEF EventInv, EventTypes, Known
<1>2. NoFetch \in EventGets /\ NoFetch.st = "none"
  BY NoEventIsRow DEF NoFetch, EventGets
<1>3. desk' \in Desks
  BY <1>1, NoEventIsRow DEF Show, Desks
<1>4. DeskSound'
  <2>1. /\ desk'.mode = mode /\ desk'.at = e
        /\ desk'.shown = NoEvent \/ desk'.shown = desk.shown
        /\ desk'.typed => desk.typed /\ stays
    BY <1>1 DEF Show, Desks
  <2>2. \A row : Past(row) => Past(row)'
    BY SameRowsGrow, PastStays
  <2>3. Known(e) => Known(e)'
    BY SameRowsGrow, PastStays
  <2>4. ~desk'.typed
    BY <1>1, <2>1 DEF DeskSound
  <2> QED
    BY <1>1, <2>1, <2>2, <2>3, <2>4 DEF DeskSound
<1>5. fetches \in [Fetches -> EventGets] /\ \A f \in Fetches : fetches[f] = fetch[f] \/ fetches[f].st = "none"
  BY <1>1, <1>2 DEF NoFetches
<1>6. /\ fetch' \in [Fetches -> EventGets]
      /\ \A f \in Fetches : fetch'[f] = fetch[f] \/ FetchSound(f)'
  <2>1. CASE mode = "new"
    <3>1. fetch' = fetches
      BY <2>1 DEF Show
    <3> HIDE DEF fetches
    <3> QED
      BY <1>5, <3>1 DEF FetchSound
  <2>2. CASE mode # "new"
    <3>1. Fetch(fetches, e) /\ Known(e)
      BY <2>2 DEF Show
    <3> HIDE DEF fetches
    <3> QED
      BY <1>5, <3>1, FetchAsks
  <2> QED
    BY <2>1, <2>2
<1>7. /\ change' \in [Changes -> EventPosts]
      /\ \A c \in Changes : SameCall(c) \/ change'[c].st = "none"
  <2>1. change \in [Changes -> EventPosts]
    BY DEF EventInv, EventTypes
  <2>2. \A c \in Changes : /\ [calls[c] EXCEPT !.here = FALSE] \in EventPosts
                           /\ [calls[c] EXCEPT !.here = FALSE].st = calls[c].st
                           /\ [calls[c] EXCEPT !.here = FALSE].kind = calls[c].kind
                           /\ [calls[c] EXCEPT !.here = FALSE].seen = calls[c].seen
    BY DEF EventPosts
  <2>3. change' = calls \/ change' = [k \in Changes |-> [calls[k] EXCEPT !.here = FALSE]]
    BY DEF Show, Left
  <2> QED
    BY <2>1, <2>2, <2>3 DEF SameCall
<1>8. \A c \in Changes : SameCall(c) \/ ChangeSound(c)'
  BY <1>7 DEF ChangeSound
<1> QED
  BY <1>3, <1>4, <1>6, <1>7, <1>8, PageStep

LEMMA NavigateKeeps ==
    ASSUME EventInv, Navigate
    PROVE  EventInv'
<1>1. change \in [Changes -> EventPosts] /\ UNCHANGED <<event, recorded>>
  BY DEF EventInv, EventTypes, Navigate
<1>2. ASSUME NEW mode \in {"detail", "edit"}, NEW e \in Events, event[e].st # "none", Show(mode, e, change)
      PROVE  EventInv'
  <2>1. Known(e) /\ mode # "new" /\ mode \in {"detail", "edit", "new"}
    BY <1>2 DEF Known
  <2> QED
    BY <1>1, <1>2, <2>1, ShowKeeps
<1>3. CASE Show("new", 0, change)
  BY <1>1, <1>3, ShowKeeps
<1> QED
  BY <1>2, <1>3 DEF Navigate

LEMMA TokenRefreshedKeeps ==
    ASSUME EventInv, TokenRefreshed
    PROVE  EventInv'
<1>1. /\ desk \in Desks /\ fetch \in [Fetches -> EventGets] /\ change \in [Changes -> EventPosts]
      /\ UNCHANGED <<event, recorded, desk, change>> /\ Fetch(fetch, desk.at) /\ Known(desk.at)
  BY DEF EventInv, EventTypes, TokenRefreshed, DeskSound
<1>2. /\ fetch' \in [Fetches -> EventGets]
      /\ \A f \in Fetches : fetch'[f] = fetch[f] \/ FetchSound(f)'
  BY <1>1, FetchAsks
<1> QED
  BY <1>1, <1>2, PageStep DEF SameCall

LEMMA EventArrivesKeeps ==
    ASSUME EventInv, NEW f \in Fetches, EventArrives(f)
    PROVE  EventInv'
<1>1. /\ desk \in Desks /\ fetch \in [Fetches -> EventGets] /\ change \in [Changes -> EventPosts]
      /\ UNCHANGED <<event, recorded, change>> /\ DeskSound /\ FetchSound(f)
      /\ fetch[f].st \in {"done", "failed"} /\ fetch' = [fetch EXCEPT ![f] = NoFetch]
  BY DEF EventInv, EventTypes, EventArrives
<1>2. NoFetch \in EventGets /\ NoFetch.st = "none"
  BY NoEventIsRow DEF NoFetch, EventGets
<1>3. /\ fetch' \in [Fetches -> EventGets]
      /\ \A g \in Fetches : fetch'[g] = fetch[g] \/ FetchSound(g)'
  BY <1>1, <1>2 DEF FetchSound
<1>4. \A row : (Past(row) => Past(row)') /\ (Known(row) => Known(row)')
  BY <1>1, SameRowsGrow, PastStays
<1>5. desk' \in Desks /\ (UNCHANGED desk \/ DeskSound')
  <2>1. CASE fetch[f].st = "failed"
    BY <1>1, <2>1 DEF EventArrives
  <2>2. CASE fetch[f].st = "done"
    <3>1. desk' = [desk EXCEPT !.shown = fetch[f].row, !.typed = FALSE] /\ Past(fetch[f].row)
      BY <1>1, <2>2 DEF EventArrives, FetchSound
    <3>2. /\ desk' \in Desks /\ desk'.mode = desk.mode /\ desk'.at = desk.at
          /\ desk'.shown = fetch[f].row /\ desk'.typed = FALSE
      BY <1>1, <3>1 DEF Desks, Past
    <3> QED
      BY <1>1, <1>4, <3>1, <3>2 DEF DeskSound
  <2> QED
    BY <1>1, <2>1, <2>2
<1> QED
  BY <1>1, <1>3, <1>5, PageStep DEF SameCall

LEMMA TypeKeeps ==
    ASSUME EventInv, Type
    PROVE  EventInv'
<1>1. /\ desk \in Desks /\ fetch \in [Fetches -> EventGets] /\ change \in [Changes -> EventPosts]
      /\ UNCHANGED <<event, recorded, fetch, change>> /\ DeskSound
      /\ desk' = [desk EXCEPT !.typed = TRUE]
      /\ desk.mode = "new" \/ (desk.mode = "edit" /\ desk.shown.id # 0)
  BY DEF EventInv, EventTypes, Type
<1>2. /\ desk' \in Desks /\ desk'.mode = desk.mode /\ desk'.at = desk.at /\ desk'.shown = desk.shown
  BY <1>1 DEF Desks
<1>3. \A row : (Past(row) => Past(row)') /\ (Known(row) => Known(row)')
  BY <1>1, SameRowsGrow, PastStays
<1>4. desk.mode = "new" \/ (desk.mode = "edit" /\ Past(desk.shown))
  <2>1. NoEvent.id = 0
    BY DEF NoEvent
  <2> QED
    BY <1>1, <2>1 DEF DeskSound
<1>5. DeskSound'
  BY <1>1, <1>2, <1>3, <1>4 DEF DeskSound
<1> QED
  BY <1>1, <1>2, <1>5, PageStep DEF SameCall

LEMMA SendChangeKeeps ==
    ASSUME EventInv, NEW kind \in {"save", "create", "schedule", "publish", "archive"},
           SendChange(kind), kind # "create" => Past(desk.shown)
    PROVE  EventInv'
<1>1. /\ desk \in Desks /\ fetch \in [Fetches -> EventGets] /\ change \in [Changes -> EventPosts]
      /\ UNCHANGED <<event, recorded, desk, fetch>>
  BY DEF EventInv, EventTypes, SendChange
<1> DEFINE sent == [st |-> "sent", here |-> TRUE, kind |-> kind, seen |-> desk.shown]
<1>2. PICK c \in Changes : change' = [change EXCEPT ![c] = sent]
  BY DEF SendChange
<1>3. sent \in EventPosts /\ sent.st = "sent" /\ sent.kind = kind /\ sent.seen = desk.shown
  BY <1>1 DEF EventPosts, Desks
<1> HIDE DEF sent
<1>4. /\ change' \in [Changes -> EventPosts] /\ change'[c] = sent
      /\ \A d \in Changes \ {c} : change'[d] = change[d]
  BY <1>1, <1>2, <1>3
<1>5. kind # "create" => Past(desk.shown)'
  BY <1>1, SameRowsGrow, PastStays
<1>6. \A d \in Changes : SameCall(d) \/ ChangeSound(d)'
  <2>1. SUFFICES ASSUME NEW d \in Changes PROVE SameCall(d) \/ ChangeSound(d)'
    OBVIOUS
  <2>2. CASE d = c
    BY <1>1, <1>3, <1>4, <1>5, <2>2 DEF ChangeSound
  <2>3. CASE d # c
    BY <1>4, <2>3 DEF SameCall
  <2> QED
    BY <2>2, <2>3
<1> QED
  BY <1>1, <1>4, <1>6, PageStep

LEMMA ClicksKeep ==
    ASSUME EventInv, ClickTransition \/ Submit
    PROVE  EventInv'
<1>1. DeskSound /\ desk \in Desks /\ NoEvent.st = "none"
  BY DEF EventInv, EventTypes, NoEvent
<1>2. ASSUME NEW kind \in {"schedule", "publish", "archive"}, desk.shown.st \in From(kind), SendChange(kind)
      PROVE  EventInv'
  <2>1. desk.shown.st # "none"
    BY <1>2 DEF From
  <2>2. Past(desk.shown)
    BY <1>1, <2>1 DEF DeskSound
  <2> QED
    BY <1>2, <2>2, SendChangeKeeps
<1>3. CASE Submit
  <2>1. /\ desk.typed /\ desk.mode # "new" => Past(desk.shown)
        /\ SendChange(IF desk.mode = "new" THEN "create" ELSE "save")
    BY <1>1, <1>3 DEF DeskSound, Submit
  <2> QED
    BY <1>3, <2>1, SendChangeKeeps DEF Submit
<1> QED
  BY <1>2, <1>3 DEF ClickTransition

LEMMA ChangeReturnsKeeps ==
    ASSUME EventInv, NEW c \in Changes, ChangeReturns(c)
    PROVE  EventInv'
<1> DEFINE rest == [change EXCEPT ![c] = NoChange]
           kind == change[c].kind
           row == change[c].seen
<1>1. /\ desk \in Desks /\ fetch \in [Fetches -> EventGets] /\ change \in [Changes -> EventPosts]
      /\ UNCHANGED <<event, recorded>> /\ DeskSound /\ ChangeSound(c)
      /\ change[c].st \in {"done", "failed"}
  BY DEF EventInv, EventTypes, ChangeReturns
<1>2. NoChange \in EventPosts /\ NoChange.st = "none"
  BY NoEventIsRow DEF NoChange, EventPosts
<1>3. /\ rest \in [Changes -> EventPosts] /\ rest[c].st = "none"
      /\ \A d \in Changes \ {c} : rest[d] = change[d]
  BY <1>1, <1>2
<1> HIDE DEF rest
<1>4. change' = rest => /\ change' \in [Changes -> EventPosts]
                        /\ \A d \in Changes : SameCall(d) \/ ChangeSound(d)'
  BY <1>1, <1>3 DEF SameCall, ChangeSound
<1>5. \A x : (Past(x) => Past(x)') /\ (Known(x) => Known(x)')
  BY <1>1, SameRowsGrow, PastStays
<1>6. CASE change' = rest /\ UNCHANGED <<desk, fetch>>
  BY <1>1, <1>4, <1>6, PageStep
<1>7. CASE change[c].st = "done" /\ Show("detail", row.id, rest)
  <2>1. Known(row.id)
    BY <1>1, <1>7 DEF ChangeSound, Past, Known
  <2>2. \A d \in Changes : rest[d] = change[d] \/ rest[d].st = "none"
    BY <1>3
  <2> QED
    BY <1>1, <1>3, <1>7, <2>1, <2>2, ShowKeeps
<1>8. CASE /\ change[c].st = "done" /\ change' = rest /\ UNCHANGED fetch
           /\ desk' = [desk EXCEPT !.shown = row]
  <2>1. Past(row) /\ row \in EventRows
    BY <1>1, <1>8 DEF ChangeSound, Past
  <2>2. /\ desk' \in Desks /\ desk'.mode = desk.mode /\ desk'.at = desk.at
        /\ desk'.shown = row /\ desk'.typed = desk.typed
    BY <1>1, <1>8, <2>1 DEF Desks
  <2>3. DeskSound'
    BY <1>1, <1>5, <2>1, <2>2 DEF DeskSound
  <2> QED
    BY <1>1, <1>4, <1>8, <2>2, <2>3, PageStep
<1> QED
  BY <1>1, <1>6, <1>7, <1>8 DEF ChangeReturns, rest

LEMMA NextEvents == EventInv /\ [EventsNext]_eventVars => EventInv'
<1> SUFFICES ASSUME EventInv, [EventsNext]_eventVars PROVE EventInv'
  OBVIOUS
<1>1. ASSUME NEW c \in Changes, ServeChange(c) PROVE EventInv'
  BY <1>1, ServeChangeKeeps
<1>2. ASSUME NEW c \in Changes, ChangeReturns(c) PROVE EventInv'
  BY <1>2, ChangeReturnsKeeps
<1>3. ASSUME NEW f \in Fetches, ServeEvent(f) PROVE EventInv'
  BY <1>3, ServeEventKeeps
<1>4. ASSUME NEW f \in Fetches, EventArrives(f) PROVE EventInv'
  BY <1>4, EventArrivesKeeps
<1>5. ASSUME NEW e \in Events, OtherAdminChanges(e) PROVE EventInv'
  BY <1>5, OtherAdminChangesKeeps
<1>6. CASE Navigate
  BY <1>6, NavigateKeeps
<1>7. CASE TokenRefreshed
  BY <1>7, TokenRefreshedKeeps
<1>8. CASE Type
  BY <1>8, TypeKeeps
<1>9. CASE ClickTransition \/ Submit
  BY <1>9, ClicksKeep
<1>10. CASE UNCHANGED eventVars
  <2>1. UNCHANGED <<event, recorded, desk, fetch, change>>
    BY <1>10 DEF eventVars
  <2> QED
    BY <2>1, PageStep DEF SameCall, EventInv, EventTypes
<1> QED
  BY <1>1, <1>2, <1>3, <1>4, <1>5, <1>6, <1>7, <1>8, <1>9, <1>10 DEF EventsNext

\* RevisionsAreRecordedOnce, whatever the events and however requests, pages
\* and administrators cross: publishing records a revision nothing was recorded
\* of, and players read what was recorded.
THEOREM RevisionsRecorded == EventsSpec => []RevisionsAreRecordedOnce
<1>1. EventInv => RevisionsAreRecordedOnce
  BY DEF EventInv, RowsAreSound, RowSound, RevisionsAreRecordedOnce
<1> QED
  BY <1>1, InitEvents, NextEvents, PTL DEF EventsSpec

\* ChangesWhatWasShown, whatever the events: the version a change is accepted
\* by stands for the whole row, for no two rows of an event have one version.
THEOREM ChangesAreOfWhatWasShown == EventsSpec => ChangesWhatWasShown
<1> DEFINE Holds == \A c \in Changes :
                      change[c].st = "sent" /\ change[c].kind # "create" /\ event' # event
                        /\ change'[c].st # "sent" => event[change[c].seen.id] = change[c].seen
<1>1. EventInv /\ [EventsNext]_eventVars => Holds
  <2> SUFFICES ASSUME EventInv, [EventsNext]_eventVars, NEW c \in Changes, change[c].st = "sent",
                      change[c].kind # "create", event' # event, change'[c].st # "sent"
               PROVE  event[change[c].seen.id] = change[c].seen
    OBVIOUS
  <2>1. Past(change[c].seen) /\ change \in [Changes -> EventPosts]
    BY DEF EventInv, EventTypes, ChangeSound
  <2>2. PICK d \in Changes : ServeChange(d)
    <3>1. ~(UNCHANGED <<event, recorded>>) /\ ~(UNCHANGED event) /\ ~(UNCHANGED change)
      BY <2>1
    <3> QED
      BY <3>1 DEF EventsNext, eventVars, ChangeReturns, ServeEvent, EventArrives, OtherAdminChanges,
                  Navigate, TokenRefreshed, Type, ClickTransition, Submit, SendChange
  <2>3. d = c
    BY <2>1, <2>2 DEF ServeChange, Changed
  <2>4. Accepts(change[c].kind, change[c].seen)
    BY <2>2, <2>3 DEF ServeChange
  <2> QED
    BY <2>1, <2>4 DEF Past, Accepts, UpToDate
<1> HIDE DEF Holds
<1>2. EventsSpec => [][Holds]_eventVars
  BY <1>1, InitEvents, NextEvents, PTL DEF EventsSpec
<1> QED
  BY <1>2 DEF Holds, ChangesWhatWasShown

-----------------------------------------------------------------------------
(* Dossiers.                                                               *)

RecordRows == [id : Records \cup {0}, ver : Nat, flag : BOOLEAN]
ActKinds   == {"none", "suspend", "reinstate", "rename", "annotate", "save", "save rules", "grant", "revoke"}
ReadCalls  == [st : {"none", "sent", "done"}, live : BOOLEAN, row : RecordRows]
ActCalls   == [st : {"none", "sent", "done", "conflict", "reread", "reread done"}, kind : ActKinds,
               row : RecordRows, base : RecordRows]

RecordsSound == record \in [Records -> RecordRows] /\ \A id \in Records : record[id].id = id

\* A record as it was at some time, or a version of it that is older still.
Was(row) == row.id \in Records /\ row.ver <= record[row.id].ver

PageSound == /\ dossier \in [kind : Kinds, at : Records, shown : RecordRows]
             /\ dossier.shown.id # 0 => Was(dossier.shown)

ReadsSound == /\ read \in [Reads -> ReadCalls]
              /\ \A r \in Reads : read[r].st # "none" => Was(read[r].row)

\* A rename is of the record it is based on; once it is refused that has gone on.
ActSound == /\ act \in ActCalls
            /\ act.st # "none" => Was(act.row)
            /\ act.st # "none" /\ act.kind = "rename" => Was(act.base) /\ act.base.id = act.row.id
            /\ act.st \in {"conflict", "reread"} /\ act.kind = "rename" =>
                 act.base.ver < record[act.row.id].ver
            /\ act.st = "reread done" /\ act.kind = "rename" => act.base.ver < act.row.ver

DossierInv == RecordsSound /\ PageSound /\ ReadsSound /\ ActSound

LEMMA RecordConstants ==
    /\ 0 \notin Records
    /\ NoRecord \in RecordRows /\ NoRecord.id = 0 /\ NoRecord.ver = 0
    /\ NoRead \in ReadCalls /\ NoRead.st = "none"
    /\ NoAct \in ActCalls /\ NoAct.st = "none"
<1>1. 0 \notin Records
  BY DossierAssumption
<1>2. NoRecord \in RecordRows /\ NoRecord.id = 0 /\ NoRecord.ver = 0
  BY DEF NoRecord, RecordRows
<1>3. NoRead \in ReadCalls /\ NoRead.st = "none"
  BY <1>2 DEF NoRead, ReadCalls
<1>4. NoAct \in ActCalls /\ NoAct.st = "none"
  BY <1>2 DEF NoAct, ActCalls, ActKinds
<1> QED
  BY <1>1, <1>2, <1>3, <1>4

\* The row of a request that has not come back names its record.
LEMMA NamedRow ==
    ASSUME RecordsSound, NEW id \in Records
    PROVE  /\ [NoRecord EXCEPT !.id = id] \in RecordRows /\ [NoRecord EXCEPT !.id = id].id = id
           /\ Was([NoRecord EXCEPT !.id = id])
<1> DEFINE row == [NoRecord EXCEPT !.id = id]
<1>1. row \in RecordRows /\ row.id = id /\ row.ver = 0
  BY RecordConstants DEF RecordRows
<1> HIDE DEF row
<1>2. record[id].ver \in Nat
  BY DEF RecordsSound, RecordRows
<1>3. 0 <= record[id].ver
  BY <1>2, SMT
<1> QED
  BY <1>1, <1>3 DEF Was, row

LEMMA InitDossiers == DossiersInit => DossierInv
<1> SUFFICES ASSUME DossiersInit PROVE DossierInv
  OBVIOUS
<1>1. RecordsSound
  <2>1. record \in [Records -> [id : Records, ver : {1}, flag : BOOLEAN]] /\ \A id \in Records : record[id].id = id
    BY DEF DossiersInit
  <2>2. \A row \in [id : Records, ver : {1}, flag : BOOLEAN] : row \in RecordRows
    BY DEF RecordRows
  <2> QED
    BY <2>1, <2>2 DEF RecordsSound
<1>2. PICK kind \in Kinds, id \in Records :
        /\ dossier = [kind |-> kind, at |-> id, shown |-> NoRecord]
        /\ read = [r \in Reads |-> IF r # 1 THEN NoRead
                                  ELSE [st |-> "sent", live |-> TRUE, row |-> [NoRecord EXCEPT !.id = id]]]
  BY DEF DossiersInit
<1>3. PageSound
  BY <1>2, RecordConstants DEF PageSound
<1> DEFINE row == [NoRecord EXCEPT !.id = id]
<1>4. row \in RecordRows /\ Was(row)
  BY <1>1, NamedRow
<1> HIDE DEF row
<1>5. read = [r \in Reads |-> IF r # 1 THEN NoRead ELSE [st |-> "sent", live |-> TRUE, row |-> row]]
  BY <1>2 DEF row
<1>6. [st |-> "sent", live |-> TRUE, row |-> row] \in ReadCalls
  BY <1>4 DEF ReadCalls
<1>7. ReadsSound
  BY <1>4, <1>5, <1>6, RecordConstants DEF ReadsSound
<1>8. ActSound
  BY RecordConstants DEF DossiersInit, ActSound
<1> QED
  BY <1>1, <1>3, <1>7, <1>8 DEF DossierInv

\* Records go on to later versions, and what is known of them stays right.
RecordsGrow ==
    /\ RecordsSound /\ RecordsSound'
    /\ \A id \in Records : record[id].ver <= record'[id].ver

LEMMA PutGrows ==
    ASSUME RecordsSound, NEW id \in Records, NEW row \in RecordRows, row.id = id,
           record[id].ver <= row.ver, Put(row)
    PROVE  RecordsGrow /\ Was(row)'
<1>1. record' = [record EXCEPT ![id] = row]
  BY DEF Put
<1>2. \A x \in Records : record[x].ver \in Nat
  BY DEF RecordsSound, RecordRows
<1> \A n \in Nat : n <= n
  BY SMT
<1>3. \A x \in Records : record[x].ver <= record[x].ver
  BY <1>2, Zenon
<1>4. row.ver <= row.ver
  BY SMT DEF RecordRows
<1>5. RecordsSound' /\ record'[id] = row /\ \A x \in Records \ {id} : record'[x] = record[x]
  BY <1>1 DEF RecordsSound
<1>6. \A x \in Records : record[x].ver <= record'[x].ver
  BY <1>3, <1>5
<1> QED
  BY <1>4, <1>5, <1>6 DEF RecordsGrow, Was

LEMMA SameRecords == RecordsSound /\ UNCHANGED record => RecordsGrow
<1>1. RecordsSound => \A x \in Records : record[x].ver \in Nat
  BY DEF RecordsSound, RecordRows
<1> \A n \in Nat : n <= n
  BY SMT
<1>2. RecordsSound => \A x \in Records : record[x].ver <= record[x].ver
  BY <1>1, Zenon
<1> QED
  BY <1>2 DEF RecordsGrow, RecordsSound

LEMMA WasStays ==
    ASSUME RecordsGrow, NEW row \in RecordRows, Was(row)
    PROVE  Was(row)'
<1>1. /\ row.id \in Records /\ row.ver \in Nat /\ record[row.id].ver \in Nat /\ record'[row.id].ver \in Nat
      /\ row.ver <= record[row.id].ver /\ record[row.id].ver <= record'[row.id].ver
  BY DEF RecordsGrow, RecordsSound, RecordRows, Was
<1>2. row.ver <= record'[row.id].ver
  BY <1>1, SMT
<1> QED
  BY <1>1, <1>2 DEF Was

LEMMA PartsStay ==
    ASSUME DossierInv, RecordsGrow
    PROVE  /\ UNCHANGED dossier => PageSound'
           /\ UNCHANGED read => ReadsSound'
           /\ UNCHANGED act => ActSound'
<1>1. ASSUME UNCHANGED dossier PROVE PageSound'
  <2>1. dossier.shown \in RecordRows /\ dossier'.shown = dossier.shown
    BY <1>1 DEF DossierInv, PageSound
  <2>2. \A row \in RecordRows : Was(row) => Was(row)'
    BY WasStays
  <2> QED
    BY <1>1, <2>1, <2>2 DEF DossierInv, PageSound
<1>2. ASSUME UNCHANGED read PROVE ReadsSound'
  <2>1. \A r \in Reads : read[r].row \in RecordRows
    BY DEF DossierInv, ReadsSound, ReadCalls
  <2>2. \A row \in RecordRows : Was(row) => Was(row)'
    BY WasStays
  <2> QED
    BY <1>2, <2>1, <2>2 DEF DossierInv, ReadsSound
<1>3. ASSUME UNCHANGED act PROVE ActSound'
  <2>1. act.row \in RecordRows /\ act.base \in RecordRows /\ ActSound
    BY DEF DossierInv, ActSound, ActCalls
  <2>2. \A row \in RecordRows : Was(row) => Was(row)'
    BY WasStays
  <2>3. act.st \in {"conflict", "reread"} /\ act.kind = "rename" => act.base.ver < record'[act.row.id].ver
    <3> SUFFICES ASSUME act.st \in {"conflict", "reread"}, act.kind = "rename"
                 PROVE  act.base.ver < record'[act.row.id].ver
      OBVIOUS
    <3>1. /\ act.row.id \in Records /\ act.base.ver < record[act.row.id].ver
          /\ record[act.row.id].ver <= record'[act.row.id].ver
          /\ act.base.ver \in Nat /\ record[act.row.id].ver \in Nat /\ record'[act.row.id].ver \in Nat
      BY <2>1 DEF ActSound, Was, RecordsGrow, RecordsSound, RecordRows
    <3> QED
      BY <3>1, SMT
  <2> QED
    BY <1>3, <2>1, <2>2, <2>3 DEF ActSound
<1> QED
  BY <1>1, <1>2, <1>3

LEMMA OthersWriteKeeps ==
    ASSUME DossierInv, NEW id \in Records, OthersWrite(id)
    PROVE  DossierInv'
<1>1. RecordsSound /\ UNCHANGED <<dossier, read, act>> /\ record[id] \in RecordRows /\ record[id].id = id
  BY DEF DossierInv, RecordsSound, OthersWrite
<1>2. PICK flag \in BOOLEAN : Put([record[id] EXCEPT !.ver = record[id].ver + 1, !.flag = flag])
  BY DEF OthersWrite, Flags
<1> DEFINE row == [record[id] EXCEPT !.ver = record[id].ver + 1, !.flag = flag]
<1>a. record[id].ver \in Nat /\ record[id].ver + 1 \in Nat
  BY <1>1, SMT DEF RecordRows
<1>b. \A new \in Nat, r \in RecordRows :
        LET q == [r EXCEPT !.ver = new, !.flag = flag]
        IN  q \in RecordRows /\ q.id = r.id /\ q.ver = new
  BY <1>2, Zenon DEF RecordRows
<1>3. row \in RecordRows /\ row.id = id /\ row.ver = record[id].ver + 1 /\ record[id].ver \in Nat
  BY <1>1, <1>a, <1>b
<1>4. Put(row)
  BY <1>2
<1> HIDE DEF row
<1>5. record[id].ver <= row.ver
  BY <1>3, SMT
<1>6. RecordsGrow
  BY <1>1, <1>3, <1>4, <1>5, PutGrows
<1> QED
  BY <1>1, <1>6, PartsStay DEF DossierInv, RecordsGrow

\* The answer to a call: of the record as it is, or, to a rename, as it was made.
LEMMA SucceedsKeeps ==
    ASSUME DossierInv, NEW id \in Records, id = act.row.id, act.st = "sent", UNCHANGED <<dossier, read>>,
           NEW row \in RecordRows, row.id = id, record[id].ver <= row.ver, Succeeds(row)
    PROVE  DossierInv'
<1>1. /\ RecordsSound /\ Put(row) /\ act \in ActCalls /\ Was(act.row) /\ act.row \in RecordRows
      /\ act.kind = "rename" => Was(act.base) /\ act.base.id = act.row.id
      /\ act.base \in RecordRows
  BY DEF DossierInv, ActSound, Succeeds, ActCalls
<1>2. RecordsGrow /\ Was(row)'
  BY <1>1, PutGrows
<1>3. \A x \in RecordRows : Was(x) => Was(x)'
  BY <1>2, WasStays
<1>4. CASE act' = NoAct
  <2>1. ActSound'
    BY <1>4, RecordConstants DEF ActSound
  <2> QED
    BY <1>2, <2>1, PartsStay DEF DossierInv, RecordsGrow
<1>5. CASE act' = [act EXCEPT !.st = "done", !.row = IF act.kind = "rename" THEN row ELSE @]
  <2> DEFINE answer == IF act.kind = "rename" THEN row ELSE act.row
  <2>1. /\ answer \in RecordRows /\ answer.id = act.row.id
        /\ answer.id \in Records /\ answer.ver <= record'[answer.id].ver
    <3>1. row.id \in Records /\ row.ver <= record'[row.id].ver
      BY <1>2 DEF Was
    <3>2. act.row.id \in Records /\ act.row.ver <= record'[act.row.id].ver
      BY <1>1, <1>3 DEF Was
    <3> QED
      BY <1>1, <3>1, <3>2
  <2>2. act' = [act EXCEPT !.st = "done", !.row = answer]
    BY <1>1, <1>5 DEF ActCalls
  <2> HIDE DEF answer
  <2>3. /\ act' \in ActCalls /\ act'.st = "done" /\ act'.row = answer /\ act'.base = act.base
        /\ act'.kind = act.kind
    BY <1>1, <2>1, <2>2 DEF ActCalls
  <2>4. act.kind = "rename" => /\ act.base.id \in Records /\ act.base.ver <= record'[act.base.id].ver
                               /\ act.base.id = answer.id
    BY <1>1, <1>3, <2>1 DEF Was
  <2>5. ActSound'
    BY <2>1, <2>3, <2>4 DEF ActSound, Was
  <2> QED
    BY <1>2, <2>5, PartsStay DEF DossierInv, RecordsGrow
<1> QED
  BY <1>4, <1>5 DEF Succeeds

LEMMA ServeActKeeps == DossierInv /\ ServeAct => DossierInv'
<1> SUFFICES ASSUME DossierInv, ServeAct PROVE DossierInv'
  OBVIOUS
<1> DEFINE id == act.row.id
           row == record[id]
<1>1. /\ RecordsSound /\ UNCHANGED <<dossier, read>> /\ act \in ActCalls /\ act.st = "sent"
      /\ Was(act.row) /\ id \in Records /\ ActSound
  BY DEF DossierInv, ActSound, ServeAct, Was
<1>2. row \in RecordRows /\ row.id = id /\ row.ver \in Nat
  BY <1>1 DEF RecordsSound, RecordRows
<1>3. CASE act' = NoAct /\ UNCHANGED record
  <2>1. ActSound'
    BY <1>3, RecordConstants DEF ActSound
  <2> QED
    BY <1>1, <1>3, <2>1, SameRecords, PartsStay DEF DossierInv, RecordsGrow
<1>4. ASSUME NEW flag \in BOOLEAN, Succeeds([row EXCEPT !.flag = flag]) PROVE DossierInv'
  <2> DEFINE new == [row EXCEPT !.flag = flag]
  <2>1. new \in RecordRows /\ new.id = id /\ new.ver = row.ver
    BY <1>2 DEF RecordRows
  <2>2. Succeeds(new)
    BY <1>4
  <2> HIDE DEF new
  <2>3. record[id].ver <= new.ver
    BY <1>2, <2>1, SMT
  <2> HIDE DEF id
  <2> QED
    BY <1>1, <2>1, <2>2, <2>3, SucceedsKeeps DEF id
<1>5. ASSUME Succeeds([row EXCEPT !.ver = @ + 1]) PROVE DossierInv'
  <2> DEFINE new == [row EXCEPT !.ver = @ + 1]
  <2>1. new \in RecordRows /\ new.id = id /\ new.ver = row.ver + 1
    BY <1>2 DEF RecordRows
  <2>2. Succeeds(new)
    BY <1>5
  <2> HIDE DEF new
  <2>3. record[id].ver <= new.ver
    BY <1>2, <2>1, SMT
  <2> HIDE DEF id
  <2> QED
    BY <1>1, <2>1, <2>2, <2>3, SucceedsKeeps DEF id
<1>6. CASE /\ act.kind = "rename" /\ row.ver # act.base.ver
           /\ act' = [act EXCEPT !.st = "conflict"] /\ UNCHANGED record
  <2>1. /\ act.base \in RecordRows /\ Was(act.base) /\ act.base.id = id
    BY <1>1, <1>6 DEF ActSound, ActCalls
  <2>2. act.base.ver < row.ver
    <3>1. act.base.ver \in Nat /\ act.base.ver <= row.ver
      BY <2>1 DEF RecordRows, Was
    <3> QED
      BY <1>2, <1>6, <3>1, SMT
  <2>3. /\ act' \in ActCalls /\ act'.st = "conflict" /\ act'.row = act.row /\ act'.base = act.base
        /\ act'.kind = act.kind
    BY <1>1, <1>6 DEF ActCalls
  <2>4. ActSound'
    BY <1>1, <1>6, <2>1, <2>2, <2>3 DEF ActSound, Was
  <2> QED
    BY <1>1, <1>6, <2>4, SameRecords, PartsStay DEF DossierInv, RecordsGrow
<1>7. (act.kind = "suspend") \in BOOLEAN
  OBVIOUS
<1>8. CASE act.kind \in {"suspend", "reinstate"} /\ Succeeds([row EXCEPT !.flag = act.kind = "suspend"])
  <2> DEFINE flag == act.kind = "suspend"
  <2>1. flag \in BOOLEAN /\ Succeeds([row EXCEPT !.flag = flag])
    BY <1>7, <1>8
  <2> HIDE DEF flag
  <2> QED
    BY <1>4, <2>1
<1> HIDE DEF row
<1> QED
  BY <1>3, <1>4, <1>5, <1>6, <1>8 DEF ServeAct, UpdateUserDisplayName, UpdateAchievement, row

\* A step of a page or of a request: it leaves the records alone.
LEMMA RecordsStay ==
    ASSUME DossierInv, UNCHANGED record,
           UNCHANGED dossier \/ PageSound', UNCHANGED read \/ ReadsSound', UNCHANGED act \/ ActSound'
    PROVE  DossierInv'
BY SameRecords, PartsStay DEF DossierInv, RecordsGrow

LEMMA SameWas == UNCHANGED record => \A row : Was(row)' <=> Was(row)
BY DEF Was

LEMMA ServeReadKeeps ==
    ASSUME DossierInv, NEW r \in Reads, ServeRead(r)
    PROVE  DossierInv'
<1>1. /\ RecordsSound /\ ReadsSound /\ UNCHANGED <<record, dossier, act>> /\ read \in [Reads -> ReadCalls]
      /\ Was(read[r].row)
  BY DEF DossierInv, ReadsSound, ServeRead
<1> DEFINE id == read[r].row.id
           e == [read[r] EXCEPT !.st = "done", !.row = record[id]]
<1>2. record[id] \in RecordRows /\ record[id].id = id /\ record[id].ver \in Nat /\ id \in Records
  BY <1>1 DEF RecordsSound, RecordRows, Was
<1>3. Was(record[id])
  <2>1. record[id].ver <= record[id].ver
    BY <1>2, SMT
  <2> QED
    BY <1>2, <2>1 DEF Was
<1>4. e \in ReadCalls /\ e.row = record[id]
  BY <1>1, <1>2 DEF ReadCalls
<1>5. PICK f \in {e, NoRead} : read' = [read EXCEPT ![r] = f]
  BY <1>1 DEF ServeRead
<1>6. f \in ReadCalls /\ (f.st # "none" => Was(f.row))
  BY <1>3, <1>4, <1>5, RecordConstants
<1>7. ReadsSound'
  BY <1>1, <1>5, <1>6, SameWas DEF ReadsSound
<1> QED
  BY <1>1, <1>7, RecordsStay

LEMMA LoadKeeps ==
    ASSUME DossierInv, NEW id \in Records, LoadDossier(id), UNCHANGED <<record, act>>,
           UNCHANGED dossier \/ dossier' = [dossier EXCEPT !.at = id]
    PROVE  DossierInv'
<1>1. RecordsSound /\ PageSound /\ ReadsSound /\ read \in [Reads -> ReadCalls]
  BY DEF DossierInv, ReadsSound
<1> DEFINE row == [NoRecord EXCEPT !.id = id]
           e == [st |-> "sent", live |-> TRUE, row |-> row]
<1>2. row \in RecordRows /\ Was(row)
  BY <1>1, NamedRow
<1>3. PICK r \in Reads : read' = [Dropped EXCEPT ![r] = e]
  BY DEF LoadDossier
<1> HIDE DEF row
<1>4. e \in ReadCalls /\ e.row = row
  BY <1>2 DEF ReadCalls
<1> HIDE DEF e
<1>5. \A q \in Reads : /\ Dropped[q] \in ReadCalls /\ Dropped[q].st = read[q].st
                       /\ Dropped[q].row = read[q].row
  BY <1>1 DEF Dropped, ReadCalls
<1>6. Dropped \in [Reads -> ReadCalls]
  <2>1. Dropped = [q \in Reads |-> Dropped[q]]
    BY DEF Dropped
  <2> QED
    BY <1>5, <2>1
<1>7. /\ read' \in [Reads -> ReadCalls]
      /\ \A q \in Reads : read'[q] = IF q = r THEN e ELSE Dropped[q]
  BY <1>3, <1>4, <1>6
<1>8. ReadsSound'
  BY <1>1, <1>2, <1>4, <1>5, <1>7, SameWas DEF ReadsSound
<1>9. UNCHANGED dossier \/ PageSound'
  BY <1>1, SameWas DEF PageSound
<1> QED
  BY <1>8, <1>9, RecordsStay

LEMMA DossierArrivesKeeps ==
    ASSUME DossierInv, NEW r \in Reads, DossierArrives(r)
    PROVE  DossierInv'
<1>1. /\ PageSound /\ ReadsSound /\ UNCHANGED <<record, act>> /\ read \in [Reads -> ReadCalls]
      /\ read[r].st = "done" /\ Was(read[r].row) /\ read[r].row \in RecordRows
      /\ read' = [read EXCEPT ![r] = NoRead]
      /\ dossier' = dossier \/ dossier' = [dossier EXCEPT !.shown = read[r].row]
  BY DEF DossierInv, ReadsSound, ReadCalls, DossierArrives
<1>2. ReadsSound'
  BY <1>1, RecordConstants, SameWas DEF ReadsSound
<1>3. UNCHANGED dossier \/ PageSound'
  BY <1>1, SameWas DEF PageSound
<1> QED
  BY <1>1, <1>2, <1>3, RecordsStay

LEMMA StartKeeps ==
    ASSUME DossierInv, NEW kind \in ActKinds, NEW id, Start(kind, id),
           id = dossier.shown.id \/ (kind # "rename" /\ id = dossier.at)
    PROVE  DossierInv'
<1>1. /\ UNCHANGED <<record, dossier, read>> /\ RecordsSound /\ dossier.shown \in RecordRows
      /\ dossier.shown.id # 0 /\ Was(dossier.shown) /\ dossier.at \in Records
  BY DEF DossierInv, PageSound, Start, IsShown
<1>2. id \in Records
  BY <1>1 DEF Was
<1> DEFINE row == [NoRecord EXCEPT !.id = id]
           base == IF kind \in {"grant", "revoke", "suspend", "reinstate"} THEN NoRecord ELSE dossier.shown
<1>3. row \in RecordRows /\ row.id = id /\ Was(row)
  BY <1>1, <1>2, NamedRow
<1>4. base \in RecordRows /\ (kind = "rename" => base = dossier.shown)
  BY <1>1, RecordConstants
<1>5. act' = [st |-> "sent", kind |-> kind, row |-> row, base |-> base]
  BY DEF Start
<1> HIDE DEF row, base
<1>6. /\ act' \in ActCalls /\ act'.st = "sent" /\ act'.kind = kind /\ act'.row = row /\ act'.base = base
  BY <1>3, <1>4, <1>5 DEF ActCalls
<1>7. \A x : Was(x)' <=> Was(x)
  BY <1>1, SameWas
<1>8. ActSound'
  BY <1>1, <1>3, <1>4, <1>6, <1>7 DEF ActSound, Was
<1> QED
  BY <1>1, <1>8, RecordsStay

LEMMA ClicksOnRecordKeep ==
    ASSUME DossierInv, ClickSuspension \/ ClickRename \/ ClickAnnotate \/ ClickSave \/ ClickGrant
    PROVE  DossierInv'
<1>1. CASE ClickSuspension
  <2> DEFINE kind == IF dossier.shown.flag THEN "reinstate" ELSE "suspend"
  <2>1. kind \in ActKinds /\ Start(kind, dossier.shown.id)
    BY <1>1 DEF ClickSuspension, ActKinds
  <2> HIDE DEF kind
  <2> QED
    BY <2>1, StartKeeps
<1>2. CASE ClickRename
  BY <1>2, StartKeeps DEF ClickRename, ActKinds
<1>3. CASE ClickAnnotate
  BY <1>3, StartKeeps DEF ClickAnnotate, ActKinds
<1>4. CASE ClickSave
  <2>1. PICK kind \in {"save", "save rules"} : Start(kind, dossier.shown.id)
    BY <1>4 DEF ClickSave
  <2> QED
    BY <2>1, StartKeeps DEF ActKinds
<1>5. CASE ClickGrant
  BY <1>5, StartKeeps DEF ClickGrant, ActKinds
<1> QED
  BY <1>1, <1>2, <1>3, <1>4, <1>5

LEMMA AnswersKeep ==
    ASSUME DossierInv, ServeReread \/ ActReturns \/ RereadReturns
    PROVE  DossierInv'
<1>1. /\ ActSound /\ PageSound /\ RecordsSound /\ act \in ActCalls /\ UNCHANGED <<record, read>>
      /\ act.row \in RecordRows /\ act.base \in RecordRows
  BY DEF DossierInv, ActSound, ActCalls, ServeReread, ActReturns, RereadReturns
<1>2. \A x : Was(x)' <=> Was(x)
  BY <1>1, SameWas
<1>3. CASE act' = NoAct /\ UNCHANGED dossier
  <2>1. ActSound'
    BY <1>3, RecordConstants DEF ActSound
  <2> QED
    BY <1>1, <1>3, <2>1, RecordsStay
<1>4. CASE ServeReread /\ act' = [act EXCEPT !.st = "reread done", !.row = record[act.row.id]]
  <2> DEFINE id == act.row.id
             row == record[id]
  <2>1. UNCHANGED dossier /\ act.st = "reread" /\ Was(act.row) /\ id \in Records
    BY <1>1, <1>4 DEF ServeReread, ActSound, Was
  <2>2. row \in RecordRows /\ row.id = id /\ row.ver \in Nat
    BY <1>1, <2>1 DEF RecordsSound, RecordRows
  <2>3. row.ver <= row.ver
    BY <2>2, SMT
  <2>4. Was(row)
    BY <2>1, <2>2, <2>3 DEF Was
  <2>5. /\ act' \in ActCalls /\ act'.st = "reread done" /\ act'.kind = act.kind /\ act'.row = row
        /\ act'.base = act.base
    BY <1>1, <1>4, <2>2 DEF ActCalls
  <2>6. ActSound'
    BY <1>1, <1>2, <2>1, <2>2, <2>4, <2>5 DEF ActSound
  <2> QED
    BY <1>1, <2>1, <2>6, RecordsStay
<1>5. CASE ActReturns /\ act' = [act EXCEPT !.st = "reread"] /\ UNCHANGED dossier
  <2>1. /\ act' \in ActCalls /\ act'.st = "reread" /\ act'.kind = act.kind /\ act'.row = act.row
        /\ act'.base = act.base /\ act.st \in {"done", "conflict"}
        /\ act.kind = "rename" => act.st = "conflict"
    BY <1>1, <1>5 DEF ActCalls, ActReturns, NoAct
  <2>2. ActSound'
    BY <1>1, <1>2, <2>1 DEF ActSound
  <2> QED
    BY <1>1, <1>5, <2>2, RecordsStay
<1>6. ASSUME NEW row \in RecordRows, Was(row), act' = NoAct, dossier' = [dossier EXCEPT !.shown = row]
      PROVE  DossierInv'
  <2>1. PageSound'
    BY <1>1, <1>2, <1>6 DEF PageSound
  <2>2. ActSound'
    BY <1>6, RecordConstants DEF ActSound
  <2> QED
    BY <1>1, <2>1, <2>2, RecordsStay
<1>7. CASE RereadReturns
  <2>1. Was(act.row)
    BY <1>1, <1>7 DEF ActSound, RereadReturns
  <2> QED
    BY <1>1, <1>6, <1>7, <2>1 DEF RereadReturns
<1>8. CASE ActReturns /\ act' = NoAct /\ dossier' = [dossier EXCEPT !.shown = [act.row EXCEPT !.flag = FALSE]]
  <2> DEFINE row == [act.row EXCEPT !.flag = FALSE]
  <2>1. row \in RecordRows /\ row.id = act.row.id /\ row.ver = act.row.ver
    BY <1>1 DEF RecordRows
  <2>2. Was(act.row)
    BY <1>1, <1>8 DEF ActSound, ActReturns
  <2>3. Was(row)
    BY <2>1, <2>2 DEF Was
  <2> HIDE DEF row
  <2> QED
    BY <1>6, <1>8, <2>1, <2>3 DEF row
<1> QED
  BY <1>3, <1>4, <1>5, <1>7, <1>8 DEF ServeReread, ActReturns

LEMMA NextDossiers == DossierInv /\ [DossiersNext]_dossierVars => DossierInv'
<1> SUFFICES ASSUME DossierInv, [DossiersNext]_dossierVars PROVE DossierInv'
  OBVIOUS
<1>1. CASE UNCHANGED dossierVars
  <2>1. UNCHANGED <<record, dossier, read, act>>
    BY <1>1 DEF dossierVars
  <2> QED
    BY <2>1, RecordsStay
<1>2. ASSUME NEW id \in Records, Visit(id) PROVE DossierInv'
  BY <1>2, LoadKeeps DEF Visit
<1>3. CASE TokenIsNew
  <2>1. dossier.at \in Records
    BY DEF DossierInv, PageSound
  <2> QED
    BY <1>3, <2>1, LoadKeeps DEF TokenIsNew
<1> QED
  BY <1>1, <1>2, <1>3, OthersWriteKeeps, ServeReadKeeps, DossierArrivesKeeps, ServeActKeeps, AnswersKeep,
     ClicksOnRecordKeep DEF DossiersNext

\* RenamesWhatWasShown, for any records and versions: the name that is replaced
\* is the one the administrator saw, and after a refusal the page shows one
\* that came later.
THEOREM RenamesOfWhatWasShown == DossiersSpec => RenamesWhatWasShown
<1> DEFINE Holds == act.kind = "rename" =>
                      /\ record' # record /\ act.st = "sent" /\ act'.st # "sent" => record[act.row.id].ver = act.base.ver
                      /\ RereadReturns => dossier'.shown.ver > act.base.ver
<1>1. DossierInv /\ [DossiersNext]_dossierVars => Holds
  <2> SUFFICES ASSUME DossierInv, [DossiersNext]_dossierVars, act.kind = "rename" PROVE Holds
    OBVIOUS
  <2>1. ASSUME record' # record, act.st = "sent", act'.st # "sent"
        PROVE  record[act.row.id].ver = act.base.ver
    <3>1. ~(UNCHANGED record) /\ ~(UNCHANGED act)
      BY <2>1
    <3>2. ServeAct
      BY <3>1 DEF DossiersNext, dossierVars, OthersWrite, Visit, ServeRead, DossierArrives, ServeReread,
                  TokenIsNew, ClickSuspension, ClickRename, ClickAnnotate, ClickSave, ClickGrant, Start,
                  ActReturns, RereadReturns
    <3>3. UpdateUserDisplayName(record[act.row.id])
      BY <3>1, <3>2 DEF ServeAct
    <3> QED
      BY <3>1, <3>3 DEF UpdateUserDisplayName
  <2>2. ASSUME RereadReturns PROVE dossier'.shown.ver > act.base.ver
    <3>1. act.st = "reread done" /\ act.base.ver < act.row.ver
      BY <2>2 DEF RereadReturns, DossierInv, ActSound
    <3>2. dossier'.shown = act.row
      BY <2>2 DEF RereadReturns, DossierInv, PageSound
    <3>3. act.base.ver \in Nat /\ act.row.ver \in Nat
      BY DEF DossierInv, ActSound, ActCalls, RecordRows
    <3>4. \A m, n \in Nat : m < n => n > m
      BY SMT
    <3>5. act.row.ver > act.base.ver
      BY <3>1, <3>3, <3>4, Zenon
    <3> QED
      BY <3>2, <3>5, Zenon
  <2> QED
    BY <2>1, <2>2
<1> HIDE DEF Holds
<1>2. DossiersSpec => [][Holds]_dossierVars
  BY <1>1, InitDossiers, NextDossiers, PTL DEF DossiersSpec
<1> QED
  BY <1>2 DEF Holds, RenamesWhatWasShown

-----------------------------------------------------------------------------
(* Staff.                                                                  *)

Accounts   == {"none", "active", "disabled"}
LinkRows   == [st : {"none", "open", "revoked", "accepted"}, current : BOOLEAN, link : Nat]
StaffKinds == {"none", "invite", "reissue", "revoke", "status", "role", "permissions"}
Errands    == [st : {"none", "sent", "checked", "done"}, kind : StaffKinds, id : Invitations \cup {0},
               value : BOOLEAN, row : LinkRows]
Listings   == [st : {"none", "sent", "done"}, rows : [Invitations -> LinkRows], account : Accounts,
               grant : BOOLEAN]
Persons    == [account : Accounts, session : {"none", "checked", "live"}, grant : BOOLEAN]
Offices    == [at : {"people", "roles", "login"}, rows : [Invitations -> LinkRows], account : Accounts,
               grant : BOOLEAN, loaded : BOOLEAN, link : Nat]

StaffTypes ==
    /\ invitation \in [Invitations -> LinkRows]
    /\ links \in Nat
    /\ person \in Persons
    /\ office \in Offices
    /\ listing \in [Lists -> Listings]
    /\ errand \in [StaffCalls -> Errands]

Accepted(i) == invitation[i].st = "accepted"
HasAccount  == person.account # "none"

\* An account has the one invitation it was made from.
OneInvitation ==
    /\ HasAccount => \E i \in Invitations : Accepted(i) /\ \A j \in Invitations : Accepted(j) => j = i
    /\ ~HasAccount => \A i \in Invitations : ~Accepted(i)

\* Whoever knows of an account is right, for none is removed: a change of its
\* status finds it.
AccountIsKnown ==
    /\ office.account # "none" => HasAccount
    /\ \A w \in Lists : listing[w].account # "none" => HasAccount

\* A call about an invitation names one.
ErrandSound(e) ==
    /\ e.st # "none" => e.kind # "none"
    /\ e.kind = "status" => HasAccount
    /\ e.kind \in {"reissue", "revoke"} => e.id \in Invitations

StaffInv ==
    StaffTypes /\ OneInvitation /\ AccountIsKnown /\ \A c \in StaffCalls : ErrandSound(errand[c])

LEMMA StaffConstants ==
    /\ NoInvitation \in LinkRows /\ NoInvitation.st = "none"
    /\ NoErrand \in Errands /\ NoErrand.kind = "none" /\ NoErrand.st = "none"
    /\ NoListing \in Listings /\ NoListing.account = "none"
<1>1. NoInvitation \in LinkRows /\ NoInvitation.st = "none"
  BY DEF NoInvitation, LinkRows
<1>2. NoErrand \in Errands /\ NoErrand.kind = "none" /\ NoErrand.st = "none"
  BY <1>1 DEF NoErrand, Errands, StaffKinds
<1>3. NoListing \in Listings /\ NoListing.account = "none"
  BY <1>1 DEF NoListing, Listings, Accounts
<1> QED
  BY <1>1, <1>2, <1>3

LEMMA InitStaff == StaffInit => StaffInv
<1> SUFFICES ASSUME StaffInit PROVE StaffInv
  OBVIOUS
<1>1. PICK at \in {"people", "roles"} :
       /\ person = [account |-> IF at = "people" THEN "none" ELSE "active", session |-> "none", grant |-> FALSE]
       /\ \E st \in IF at = "people" THEN {"none", "open"} ELSE {"accepted"} :
            invitation = [i \in Invitations |-> IF i = Earlier THEN [NoInvitation EXCEPT !.st = st, !.current = st = "open"]
                                                 ELSE NoInvitation]
       /\ office = [at |-> at, rows |-> [i \in Invitations |-> NoInvitation], account |-> "none",
                    grant |-> FALSE, loaded |-> FALSE, link |-> 0]
       /\ listing = [w \in Lists |-> IF w = "people" \/ at = "people"
                                     THEN [NoListing EXCEPT !.st = "sent"] ELSE NoListing]
  BY DEF StaffInit
<1>2. Earlier \in Invitations
  BY StaffAssumption DEF Earlier
<1>3. PICK st \in IF at = "people" THEN {"none", "open"} ELSE {"accepted"} :
            invitation = [i \in Invitations |-> IF i = Earlier THEN [NoInvitation EXCEPT !.st = st, !.current = st = "open"]
                                                 ELSE NoInvitation]
  BY <1>1
<1> DEFINE first == [NoInvitation EXCEPT !.st = st, !.current = st = "open"]
<1>4. first \in LinkRows /\ first.st = st
  <2>1. (st = "open") \in BOOLEAN
    OBVIOUS
  <2> QED
    BY <2>1, StaffConstants DEF LinkRows
<1> HIDE DEF first
<1>5. /\ invitation \in [Invitations -> LinkRows]
      /\ \A i \in Invitations : invitation[i].st = IF i = Earlier THEN st ELSE "none"
  BY <1>3, <1>4, StaffConstants DEF first
<1>6. person \in Persons /\ person.account = IF at = "people" THEN "none" ELSE "active"
  BY <1>1 DEF Persons, Accounts
<1>7. office \in Offices /\ office.account = "none"
  BY <1>1, StaffConstants DEF Offices, Accounts
<1>8. /\ [NoListing EXCEPT !.st = "sent"] \in Listings
      /\ [NoListing EXCEPT !.st = "sent"].account = "none"
  BY StaffConstants DEF Listings
<1>9. listing \in [Lists -> Listings] /\ \A w \in Lists : listing[w].account = "none"
  BY <1>1, <1>8, StaffConstants
<1>10. links \in Nat /\ errand = [c \in StaffCalls |-> NoErrand]
  BY DEF StaffInit
<1>11. OneInvitation
  BY <1>2, <1>3, <1>5, <1>6 DEF OneInvitation, HasAccount, Accepted
<1>12. AccountIsKnown /\ \A c \in StaffCalls : ErrandSound(errand[c])
  BY <1>7, <1>9, <1>10, StaffConstants DEF AccountIsKnown, ErrandSound
<1> QED
  BY <1>5, <1>6, <1>7, <1>9, <1>10, <1>11, <1>12, StaffConstants DEF StaffInv, StaffTypes

\* What a step must leave: types, the accepted invitations, the account.
LEMMA StaffStep ==
    ASSUME StaffInv, StaffTypes',
           \A i \in Invitations : Accepted(i)' <=> Accepted(i),
           HasAccount' <=> HasAccount,
           office'.account # "none" => HasAccount,
           \A w \in Lists : listing'[w].account # "none" => HasAccount,
           \A c \in StaffCalls : ErrandSound(errand'[c])
    PROVE  StaffInv'
BY DEF StaffInv, OneInvitation, AccountIsKnown, ErrandSound

LEMMA StaffParts ==
    ASSUME StaffInv
    PROVE  /\ invitation \in [Invitations -> LinkRows] /\ links \in Nat /\ person \in Persons
           /\ office \in Offices /\ listing \in [Lists -> Listings] /\ errand \in [StaffCalls -> Errands]
           /\ office.account # "none" => HasAccount
           /\ \A w \in Lists : listing[w].account # "none" => HasAccount
           /\ \A c \in StaffCalls : ErrandSound(errand[c])
BY DEF StaffInv, StaffTypes, AccountIsKnown, ErrandSound

\* A call that goes on as what it is, with the invitation it was sent for or
\* another.
LEMMA ErrandGoesOn ==
    ASSUME StaffInv, NEW c \in StaffCalls, NEW e \in Errands, errand' = [errand EXCEPT ![c] = e],
           ErrandSound(e)
    PROVE  /\ errand' \in [StaffCalls -> Errands]
           /\ \A d \in StaffCalls : ErrandSound(errand'[d])
BY StaffParts

\* An invitation that is not accepted changes, and is not accepted then.
LEMMA InvitationChanges ==
    ASSUME StaffInv, NEW i \in Invitations, NEW row \in LinkRows, ~Accepted(i), row.st # "accepted",
           invitation' = [invitation EXCEPT ![i] = row]
    PROVE  /\ invitation' \in [Invitations -> LinkRows]
           /\ \A j \in Invitations : Accepted(j)' <=> Accepted(j)
BY StaffParts DEF Accepted

LEMMA IssueKeeps ==
    ASSUME StaffInv, NEW c \in StaffCalls, NEW i \in Invitations, ~Accepted(i), Issue(c, i),
           errand[c].st # "none"
    PROVE  StaffInv'
<1>1. /\ links' = links + 1 /\ links' \in Nat /\ UNCHANGED <<person, office, listing, guest>>
      /\ invitation' = [invitation EXCEPT ![i] = Fresh]
      /\ errand' = [errand EXCEPT ![c].st = "done", ![c].id = i, ![c].row = Fresh]
  BY StaffParts DEF Issue
<1>2. Fresh \in LinkRows /\ Fresh.st = "open"
  <2>1. links + 1 \in Nat
    BY StaffParts
  <2> QED
    BY <2>1 DEF Fresh, LinkRows
<1> DEFINE e == [errand[c] EXCEPT !.st = "done", !.id = i, !.row = Fresh]
<1>3. e \in Errands /\ e.kind = errand[c].kind /\ e.id = i
  BY <1>2, StaffParts DEF Errands
<1>4. errand' = [errand EXCEPT ![c] = e]
  BY <1>1, StaffParts
<1> HIDE DEF e
<1>5. /\ errand' \in [StaffCalls -> Errands]
      /\ \A d \in StaffCalls : ErrandSound(errand'[d])
  <2>1. ErrandSound(e)
    BY <1>3, StaffParts DEF ErrandSound
  <2> QED
    BY <1>3, <1>4, <2>1, ErrandGoesOn
<1>6. /\ invitation' \in [Invitations -> LinkRows]
      /\ \A j \in Invitations : Accepted(j)' <=> Accepted(j)
  BY <1>1, <1>2, InvitationChanges
<1>7. StaffTypes' /\ (HasAccount' <=> HasAccount)
  BY <1>1, <1>5, <1>6, StaffParts DEF StaffTypes, HasAccount
<1> QED
  BY <1>1, <1>5, <1>6, <1>7, StaffParts, StaffStep

LEMMA InvitationCallsKeep ==
    ASSUME StaffInv, NEW c \in StaffCalls,
           CheckInvitation(c) \/ CreateInvitation(c) \/ ReissueInvitation(c) \/ RevokeInvitation(c)
    PROVE  StaffInv'
<1>1. CASE CheckInvitation(c)
  <2>1. /\ UNCHANGED <<invitation, links, person, office, listing, guest>>
        /\ errand' = [errand EXCEPT ![c].st = "checked"]
    BY <1>1 DEF CheckInvitation
  <2> DEFINE e == [errand[c] EXCEPT !.st = "checked"]
  <2>2. e \in Errands /\ e.kind = errand[c].kind /\ e.id = errand[c].id
    BY StaffParts DEF Errands
  <2>3. errand' = [errand EXCEPT ![c] = e]
    BY <2>1, StaffParts
  <2> HIDE DEF e
  <2>4. /\ errand' \in [StaffCalls -> Errands]
        /\ \A d \in StaffCalls : ErrandSound(errand'[d])
    <3>1. ErrandSound(e)
      BY <1>1, <2>2, StaffParts DEF CheckInvitation, ErrandSound
    <3> QED
      BY <2>2, <2>3, <3>1, ErrandGoesOn
  <2>5. StaffTypes' /\ (HasAccount' <=> HasAccount) /\ \A i \in Invitations : Accepted(i)' <=> Accepted(i)
    BY <2>1, <2>4, StaffParts DEF StaffTypes, HasAccount, Accepted
  <2> QED
    BY <2>1, <2>4, <2>5, StaffParts, StaffStep
<1>2. CASE CreateInvitation(c)
  BY <1>2, IssueKeeps DEF CreateInvitation, Accepted
<1>3. CASE ReissueInvitation(c)
  <2>1. errand[c].id \in Invitations /\ ~Accepted(errand[c].id) /\ Issue(c, errand[c].id)
    BY <1>3, StaffParts DEF ReissueInvitation, Open, Accepted, ErrandSound
  <2> QED
    BY <1>3, <2>1, IssueKeeps DEF ReissueInvitation
<1>4. CASE RevokeInvitation(c)
  <2> DEFINE i == errand[c].id
             row == [invitation[i] EXCEPT !.st = "revoked"]
             e == [errand[c] EXCEPT !.st = "done"]
  <2>1. /\ i \in Invitations /\ ~Accepted(i) /\ UNCHANGED <<links, person, office, listing, guest>>
        /\ invitation' = [invitation EXCEPT ![i].st = "revoked"]
        /\ errand' = [errand EXCEPT ![c].st = "done"]
    BY <1>4, StaffParts DEF RevokeInvitation, Active, Open, Accepted, ErrandSound
  <2>2. row \in LinkRows /\ row.st = "revoked"
    BY <2>1, StaffParts DEF LinkRows
  <2>3. e \in Errands /\ e.kind = errand[c].kind /\ e.id = i
    BY StaffParts DEF Errands
  <2>4. invitation' = [invitation EXCEPT ![i] = row] /\ errand' = [errand EXCEPT ![c] = e]
    BY <2>1, StaffParts
  <2> HIDE DEF row, e
  <2>5. /\ invitation' \in [Invitations -> LinkRows]
        /\ \A j \in Invitations : Accepted(j)' <=> Accepted(j)
    <3> HIDE DEF i
    <3> QED
      BY <2>1, <2>2, <2>4, InvitationChanges
  <2>6. /\ errand' \in [StaffCalls -> Errands]
        /\ \A d \in StaffCalls : ErrandSound(errand'[d])
    <3>1. ErrandSound(e)
      BY <1>4, <2>1, <2>3, StaffParts DEF RevokeInvitation, ErrandSound
    <3> QED
      BY <2>3, <2>4, <3>1, ErrandGoesOn
  <2>7. StaffTypes' /\ (HasAccount' <=> HasAccount)
    BY <2>1, <2>5, <2>6, StaffParts DEF StaffTypes, HasAccount
  <2> QED
    BY <2>1, <2>5, <2>6, <2>7, StaffParts, StaffStep
<1> QED
  BY <1>1, <1>2, <1>3, <1>4

\* A change of the person that leaves the account there or not there.
LEMMA ErrandsKeep ==
    ASSUME StaffInv, NEW c \in StaffCalls, ServeErrand(c) \/ ErrandFails(c)
    PROVE  StaffInv'
<1>1. UNCHANGED <<invitation, links, office, listing, guest>>
  BY DEF ServeErrand, ErrandFails
<1>2. PICK e \in {NoErrand, [errand[c] EXCEPT !.st = "done"]} : errand' = [errand EXCEPT ![c] = e]
  BY StaffParts DEF ServeErrand, ErrandFails
<1>3. /\ e \in Errands /\ errand[c].st # "none"
      /\ e = NoErrand \/ (e.kind = errand[c].kind /\ e.id = errand[c].id)
  BY <1>2, StaffParts, StaffConstants DEF Errands, ServeErrand, ErrandFails
<1>4. /\ errand' \in [StaffCalls -> Errands]
      /\ \A d \in StaffCalls : ErrandSound(errand'[d])
  <2>1. ErrandSound(e)
    BY <1>3, StaffParts, StaffConstants DEF ErrandSound
  <2> QED
    BY <1>2, <1>3, <2>1, ErrandGoesOn
<1>5. person' \in Persons /\ (HasAccount' <=> HasAccount)
  <2>1. CASE UNCHANGED person
    BY <2>1, StaffParts DEF HasAccount
  <2>2. CASE ServeErrand(c)
    <3> DEFINE session == IF person.session = "live" THEN "none" ELSE person.session
               cut == [person EXCEPT !.session = session]
    <3>1. CutOff(person) = cut
      BY StaffParts DEF CutOff, Persons
    <3>2. session \in {"none", "checked", "live"}
      BY StaffParts DEF Persons
    <3> HIDE DEF session
    <3>3. cut \in Persons /\ cut.account = person.account
      BY <3>2, StaffParts DEF Persons
    <3> HIDE DEF cut
    <3>4. CASE person' = CutOff(person)
      BY <3>1, <3>3, <3>4 DEF HasAccount
    <3>5. CASE errand[c].kind = "permissions" /\ person' = UpdateRolePermissions(errand[c].value)
      <4>1. errand[c].value \in BOOLEAN
        BY StaffParts DEF Errands
      <4>2. person' = [cut EXCEPT !.grant = errand[c].value]
        BY <3>1, <3>5 DEF UpdateRolePermissions
      <4>3. person' \in Persons /\ person'.account = person.account
        BY <3>3, <4>1, <4>2 DEF Persons
      <4> QED
        BY <4>3 DEF HasAccount
    <3>6. CASE errand[c].kind = "status" /\ person' = SetAdminStatus(errand[c].value)
      <4>1. person' = [person EXCEPT !.account = "active"] \/ person' = [cut EXCEPT !.account = "disabled"]
        BY <3>1, <3>6 DEF SetAdminStatus
      <4>2. person' \in Persons /\ person'.account # "none"
        BY <3>3, <4>1, StaffParts DEF Persons, Accounts
      <4> QED
        BY <3>6, <4>2, StaffParts DEF HasAccount, ErrandSound
    <3> QED
      BY <2>2, <3>4, <3>5, <3>6 DEF ServeErrand
  <2> QED
    BY <2>1, <2>2 DEF ErrandFails
<1>6. StaffTypes' /\ \A i \in Invitations : Accepted(i)' <=> Accepted(i)
  BY <1>1, <1>4, <1>5, StaffParts DEF StaffTypes, Accepted
<1> QED
  BY <1>1, <1>4, <1>5, <1>6, StaffParts, StaffStep

LEMMA ListingsKeep ==
    ASSUME StaffInv, NEW w \in Lists, ServeListing(w) \/ ListingArrives(w)
    PROVE  StaffInv'
<1>1. UNCHANGED <<invitation, links, person, errand, guest>>
  BY DEF ServeListing, ListingArrives
<1>2. PICK l \in {NoListing, [NoListing EXCEPT !.st = "done", !.rows = invitation],
                  [NoListing EXCEPT !.st = "done", !.account = person.account, !.grant = person.grant]} :
         listing' = [listing EXCEPT ![w] = l]
  BY DEF ServeListing, ListingArrives
<1>3. l \in Listings /\ (l.account = "none" \/ l.account = person.account)
  BY <1>2, StaffConstants, StaffParts DEF Listings, Persons
<1>4. listing' \in [Lists -> Listings] /\ \A v \in Lists : listing'[v].account # "none" => HasAccount
  BY <1>2, <1>3, StaffParts DEF HasAccount
<1>5. office' \in Offices /\ (office'.account # "none" => HasAccount)
  <2>1. CASE UNCHANGED office
    BY <2>1, StaffParts
  <2>2. CASE ListingArrives(w)
    <3>1. /\ listing[w].rows \in [Invitations -> LinkRows] /\ listing[w].account \in Accounts
          /\ listing[w].grant \in BOOLEAN /\ (listing[w].account # "none" => HasAccount)
      BY StaffParts DEF Listings
    <3>2. \/ office' = office
          \/ office' = [office EXCEPT !.rows = listing[w].rows]
          \/ office' = [office EXCEPT !.account = listing[w].account, !.loaded = TRUE]
          \/ office' = [office EXCEPT !.grant = listing[w].grant, !.loaded = TRUE]
      BY <2>2 DEF ListingArrives
    <3> QED
      BY <3>1, <3>2, StaffParts DEF Offices
  <2> QED
    BY <2>1, <2>2 DEF ServeListing
<1>6. /\ StaffTypes' /\ (HasAccount' <=> HasAccount)
      /\ \A i \in Invitations : Accepted(i)' <=> Accepted(i)
  BY <1>1, <1>4, <1>5, StaffParts DEF StaffTypes, HasAccount, Accepted
<1> QED
  BY <1>1, <1>4, <1>5, <1>6, StaffParts, StaffStep

\* A step of a page, which changes no row and asks no more than it knows.
LEMMA StaffPageStep ==
    ASSUME StaffInv, UNCHANGED <<invitation, links, person>>,
           office' \in Offices, office'.account # "none" => HasAccount,
           listing' \in [Lists -> Listings],
           \A w \in Lists : listing'[w].account # "none" => HasAccount,
           errand' \in [StaffCalls -> Errands],
           \A c \in StaffCalls : ErrandSound(errand'[c])
    PROVE  StaffInv'
<1>1. /\ StaffTypes' /\ (HasAccount' <=> HasAccount)
      /\ \A i \in Invitations : Accepted(i)' <=> Accepted(i)
  BY StaffParts DEF StaffTypes, HasAccount, Accepted
<1> QED
  BY <1>1, StaffStep

LEMMA ClickKeeps ==
    ASSUME StaffInv, NEW kind \in StaffKinds \ {"none"}, NEW id \in Invitations \cup {0}, NEW value \in BOOLEAN,
           Click(kind, id, value),
           kind = "status" => HasAccount,
           kind \in {"reissue", "revoke"} => id \in Invitations
    PROVE  StaffInv'
<1> DEFINE e == [NoErrand EXCEPT !.st = "sent", !.kind = kind, !.id = id, !.value = value]
<1>1. UNCHANGED <<invitation, links, person, office, listing, guest>>
  BY DEF Click
<1>2. PICK c \in StaffCalls : errand' = [errand EXCEPT ![c] = e]
  BY DEF Click
<1>3. e \in Errands /\ e.kind = kind /\ e.id = id
  BY StaffConstants DEF Errands
<1> HIDE DEF e
<1>4. /\ errand' \in [StaffCalls -> Errands]
      /\ \A d \in StaffCalls : ErrandSound(errand'[d])
  BY <1>2, <1>3, ErrandGoesOn DEF ErrandSound
<1> QED
  BY <1>1, <1>4, StaffParts, StaffPageStep

LEMMA ClicksOfStaffKeep ==
    ASSUME StaffInv,
           \/ ClickInvite \/ ClickStatus \/ ClickRole \/ SaveRole
           \/ \E i \in Invitations : ClickInvitation(i)
    PROVE  StaffInv'
<1>1. office \in Offices /\ (office.account # "none" => HasAccount) /\ office.grant \in BOOLEAN
  BY StaffParts DEF Offices
<1>2. CASE ClickInvite
  BY <1>2, ClickKeeps DEF ClickInvite, StaffKinds
<1>3. CASE ClickStatus
  <2>1. /\ HasAccount /\ "status" \in StaffKinds \ {"none"} /\ 0 \in Invitations \cup {0}
        /\ (office.account = "disabled") \in BOOLEAN
    BY <1>1, <1>3 DEF ClickStatus, StaffKinds
  <2>2. Click("status", 0, office.account = "disabled")
    BY <1>3 DEF ClickStatus
  <2> DEFINE value == office.account = "disabled"
  <2>3. value \in BOOLEAN /\ Click("status", 0, value)
    BY <2>1, <2>2
  <2> HIDE DEF value
  <2> QED
    BY <2>1, <2>3, ClickKeeps
<1>4. CASE ClickRole
  BY <1>4, ClickKeeps DEF ClickRole, StaffKinds
<1>5. CASE SaveRole
  BY <1>1, <1>5, ClickKeeps DEF SaveRole, StaffKinds
<1>6. ASSUME NEW i \in Invitations, ClickInvitation(i) PROVE StaffInv'
  BY <1>6, ClickKeeps DEF ClickInvitation, StaffKinds
<1> QED
  BY <1>2, <1>3, <1>4, <1>5, <1>6

LEMMA ErrandReturnsKeeps ==
    ASSUME StaffInv, NEW c \in StaffCalls, ErrandReturns(c)
    PROVE  StaffInv'
<1> DEFINE e == errand[c]
<1>1. /\ UNCHANGED <<invitation, links, person, listing, guest>>
      /\ errand' = [errand EXCEPT ![c] = NoErrand] /\ e \in Errands /\ office \in Offices
      /\ office.account # "none" => HasAccount
      /\ e.kind # "none" /\ (e.kind = "status" => HasAccount)
  BY StaffParts DEF ErrandReturns, ErrandSound
<1>2. /\ errand' \in [StaffCalls -> Errands]
      /\ \A d \in StaffCalls : ErrandSound(errand'[d])
  BY <1>1, ErrandGoesOn, StaffConstants DEF ErrandSound
<1>3. office' \in Offices /\ (office'.account # "none" => HasAccount)
  <2>1. CASE office' = office \/ office' = [office EXCEPT !.at = "login"]
    BY <1>1, <2>1 DEF Offices
  <2>2. CASE office' = [office EXCEPT !.rows[e.id] = e.row, !.link = e.row.link]
    <3>1. /\ [office.rows EXCEPT ![e.id] = e.row] \in [Invitations -> LinkRows] /\ e.row.link \in Nat
      BY <1>1 DEF Offices, Errands, LinkRows
    <3>2. office' = [office EXCEPT !.rows = [office.rows EXCEPT ![e.id] = e.row], !.link = e.row.link]
      BY <1>1, <2>2 DEF Offices
    <3> QED
      BY <1>1, <3>1, <3>2 DEF Offices
  <2>3. CASE office' = [office EXCEPT !.rows[e.id].st = "revoked"]
    <3> DEFINE rows == [office.rows EXCEPT ![e.id].st = "revoked"]
    <3>1. rows \in [Invitations -> LinkRows]
      <4>1. office.rows \in [Invitations -> LinkRows]
        BY <1>1 DEF Offices
      <4>2. \A i \in Invitations : [office.rows[i] EXCEPT !.st = "revoked"] \in LinkRows
        BY <4>1 DEF LinkRows
      <4> QED
        BY <4>1, <4>2
    <3>2. office' = [office EXCEPT !.rows = rows]
      BY <1>1, <2>3 DEF Offices
    <3> HIDE DEF rows
    <3> QED
      BY <1>1, <3>1, <3>2 DEF Offices
  <2>4. CASE /\ e.kind = "status"
             /\ office' = [office EXCEPT !.account = IF e.value THEN "active" ELSE "disabled"]
    BY <1>1, <2>4 DEF Offices, Accounts
  <2>5. e.kind \in {"invite", "reissue", "revoke", "status", "role", "permissions"}
    BY <1>1 DEF Errands, StaffKinds
  <2> QED
    BY <1>1, <2>1, <2>2, <2>3, <2>4, <2>5 DEF ErrandReturns
<1> QED
  BY <1>1, <1>2, <1>3, StaffParts, StaffPageStep

LEMMA OtherPagesKeep ==
    ASSUME StaffInv,
           \/ TokenIsReplaced \/ TogglePermission
           \/ OpenLink \/ SubmitPassword \/ SubmitFails \/ CloseLink
    PROVE  StaffInv'
<1>1. UNCHANGED <<invitation, links, person, errand>>
  BY DEF TokenIsReplaced, TogglePermission, OpenLink, SubmitPassword, SubmitFails, CloseLink
<1>2. CASE TokenIsReplaced
  <2>1. /\ [NoListing EXCEPT !.st = "sent"] \in Listings
        /\ [NoListing EXCEPT !.st = "sent"].account = "none"
    BY StaffConstants DEF Listings
  <2>2. /\ UNCHANGED office /\ listing' \in [Lists -> Listings]
        /\ \A w \in Lists : listing'[w].account = "none"
    BY <1>2, <2>1, StaffConstants DEF TokenIsReplaced
  <2> QED
    BY <1>1, <2>2, StaffParts, StaffPageStep
<1>3. CASE TogglePermission
  <2>1. office' \in Offices /\ office'.account = office.account /\ UNCHANGED listing
    <3>1. office \in Offices /\ office.grant \in BOOLEAN /\ (~office.grant) \in BOOLEAN
      BY StaffParts DEF Offices
    <3>2. office' = [office EXCEPT !.grant = ~office.grant] /\ UNCHANGED listing
      BY <1>3, <3>1 DEF TogglePermission, Offices
    <3> DEFINE grant == ~office.grant
    <3>3. grant \in BOOLEAN /\ office' = [office EXCEPT !.grant = grant]
      BY <3>1, <3>2
    <3> HIDE DEF grant
    <3> QED
      BY <3>1, <3>2, <3>3 DEF Offices
  <2> QED
    BY <1>1, <2>1, StaffParts, StaffPageStep
<1>4. CASE OpenLink \/ SubmitPassword \/ SubmitFails \/ CloseLink
  <2>1. UNCHANGED <<office, listing>>
    BY <1>4 DEF OpenLink, SubmitPassword, SubmitFails, CloseLink
  <2> QED
    BY <1>1, <2>1, StaffParts, StaffPageStep
<1> QED
  BY <1>2, <1>3, <1>4

LEMMA InvitationExpiresKeeps ==
    ASSUME StaffInv, NEW i \in Invitations, InvitationExpires(i)
    PROVE  StaffInv'
<1> DEFINE row == [invitation[i] EXCEPT !.current = FALSE]
<1>1. /\ UNCHANGED <<links, person, office, listing, errand, guest>> /\ invitation[i].st = "open"
      /\ invitation' = [invitation EXCEPT ![i] = row]
  BY StaffParts DEF InvitationExpires, Active, Open
<1>2. row \in LinkRows /\ row.st = "open" /\ ~Accepted(i)
  BY <1>1, StaffParts DEF LinkRows, Accepted
<1> HIDE DEF row
<1>3. /\ invitation' \in [Invitations -> LinkRows]
      /\ \A j \in Invitations : Accepted(j)' <=> Accepted(j)
  BY <1>1, <1>2, InvitationChanges
<1>4. StaffTypes' /\ (HasAccount' <=> HasAccount)
  BY <1>1, <1>3, StaffParts DEF StaffTypes, HasAccount
<1> QED
  BY <1>1, <1>3, <1>4, StaffParts, StaffStep

\* The one step that makes an account: it makes it from one invitation, and
\* there was none before.
LEMMA AcceptKeeps == StaffInv /\ AcceptInvitation => StaffInv'
<1> SUFFICES ASSUME StaffInv, AcceptInvitation PROVE StaffInv'
  OBVIOUS
<1>1. UNCHANGED <<links, office, listing, errand>> /\ person' = [person EXCEPT !.account = "active"]
  BY DEF AcceptInvitation
<1>2. PICK i \in Invitations : ~HasAccount /\ invitation' = [invitation EXCEPT ![i].st = "accepted"]
  BY DEF AcceptInvitation, HasAccount
<1> DEFINE row == [invitation[i] EXCEPT !.st = "accepted"]
<1>3. row \in LinkRows /\ row.st = "accepted" /\ invitation' = [invitation EXCEPT ![i] = row]
  BY <1>2, StaffParts DEF LinkRows
<1> HIDE DEF row
<1>4. /\ invitation' \in [Invitations -> LinkRows] /\ Accepted(i)'
      /\ \A j \in Invitations : Accepted(j)' => j = i
  BY <1>2, <1>3, StaffParts DEF Accepted, StaffInv, OneInvitation
<1>5. person' \in Persons /\ HasAccount'
  BY <1>1, StaffParts DEF Persons, Accounts, HasAccount
<1>6. OneInvitation'
  BY <1>4, <1>5 DEF OneInvitation
<1> QED
  BY <1>1, <1>4, <1>5, <1>6, StaffParts DEF StaffInv, StaffTypes, AccountIsKnown, ErrandSound

LEMMA LoginKeeps == StaffInv /\ (LoginReads \/ IssueSession) => StaffInv'
<1> SUFFICES ASSUME StaffInv, LoginReads \/ IssueSession PROVE StaffInv'
  OBVIOUS
<1>1. /\ UNCHANGED <<invitation, links, office, listing, errand>>
      /\ \E session \in {"checked", "live"} : person' = [person EXCEPT !.session = session]
  BY DEF LoginReads, IssueSession
<1>2. person' \in Persons /\ person'.account = person.account
  BY <1>1, StaffParts DEF Persons
<1>3. /\ StaffTypes' /\ (HasAccount' <=> HasAccount)
      /\ \A i \in Invitations : Accepted(i)' <=> Accepted(i)
  BY <1>1, <1>2, StaffParts DEF StaffTypes, HasAccount, Accepted
<1> QED
  BY <1>1, <1>3, StaffParts, StaffStep

LEMMA NextStaff == StaffInv /\ [StaffNext]_staffVars => StaffInv'
<1> SUFFICES ASSUME StaffInv, [StaffNext]_staffVars PROVE StaffInv'
  OBVIOUS
<1>1. CASE UNCHANGED staffVars
  <2>1. UNCHANGED <<invitation, links, person, office, listing, errand, guest>>
    BY <1>1 DEF staffVars
  <2> QED
    BY <2>1, StaffParts, StaffPageStep
<1> QED
  BY <1>1, InvitationCallsKeep, ErrandsKeep, ErrandReturnsKeeps, ListingsKeep, InvitationExpiresKeeps,
     ClicksOfStaffKeep, AcceptKeeps, LoginKeeps, OtherPagesKeep DEF StaffNext

\* OneAccountPerLink, for any number of invitations, links and calls: an
\* account comes from one invitation, though several for its address may be
\* open at once and an accepted one still be listed as open.
THEOREM AccountsComeFromOneLink == StaffSpec => []OneAccountPerLink
<1>1. StaffInv => OneAccountPerLink
  <2> SUFFICES ASSUME StaffInv PROVE OneAccountPerLink
    OBVIOUS
  <2> DEFINE S == {i \in Invitations : invitation[i].st = "accepted"}
  <2>1. CASE HasAccount
    <3>1. PICK i \in Invitations : Accepted(i) /\ \A j \in Invitations : Accepted(j) => j = i
      BY <2>1 DEF StaffInv, OneInvitation
    <3>2. S = {i}
      BY <3>1 DEF Accepted
    <3> HIDE DEF S
    <3>3. Cardinality(S) = 1
      BY <3>2, FS_Singleton
    <3> QED
      BY <2>1, <3>3 DEF OneAccountPerLink, HasAccount, S
  <2>2. CASE ~HasAccount
    <3>1. S = {}
      BY <2>2 DEF StaffInv, OneInvitation, Accepted
    <3> HIDE DEF S
    <3>2. Cardinality(S) = 0
      BY <3>1, FS_EmptySet
    <3> QED
      BY <2>2, <3>2 DEF OneAccountPerLink, HasAccount, S
  <2> QED
    BY <2>1, <2>2
<1> QED
  BY <1>1, InitStaff, NextStaff, PTL DEF StaffSpec

=============================================================================
