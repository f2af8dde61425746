-------------------------- MODULE AdminSessionProofs --------------------------
(***************************************************************************)
(* An administrator's session in one tab, for any number of requests of     *)
(* pages and of session rows.  The token and the administrator are held     *)
(* together, one refresh is under way for a session, requests wait only     *)
(* for a call that will answer, and are sent again only under the session   *)
(* they were sent under.  The deepest result is that the wrapper does not   *)
(* give up a session that its cookie could go on with; it rests on what     *)
(* the rows of the calls under way have to do with the token of now.        *)
(***************************************************************************)
EXTENDS AdminSession, TLAPS, FiniteSetTheorems

-----------------------------------------------------------------------------
(* The invariant.                                                          *)

UnderWay(r) == ref[r].st # "idle"

\* The shared refresh is the one whose answer the provider still wants.
SharedIsCurrent ==
  /\ \A r \in Refs : ref[r].current <=> tab.shared = r
  /\ \A r \in Refs : ref[r].current => UnderWay(r)
  /\ tab.shared # None => tab.loading \/ tab.admin # None
  /\ tab.pending \in {None, tab.shared}

\* Until the first refresh has answered, nothing else goes on.
AloneAtBoot ==
  tab.loading => /\ tab.admin = None /\ tab.shared # None /\ tab.pending = None
                 /\ form.st = "idle" /\ out.st = "idle"
                 /\ \A c \in Requests : req[c].st = "idle"
                 /\ \A r \in Refs : UnderWay(r) => r = tab.shared

RequestsFit ==
  \A c \in Requests :
    /\ req[c].st = "idle" <=> req[c].row = None
    /\ req[c].mine => req[c].st # "idle" /\ tab.admin # None
    /\ req[c].st = "waiting" => req[c].wait \in Refs /\ UnderWay(req[c].wait)
    /\ req[c].answer # "none" => req[c].st \in {"answered", "reanswered"}

CallsFit ==
  /\ \A r \in Refs : /\ ~UnderWay(r) => ref[r].carry = None
                     /\ ref[r].row # None => /\ ref[r].st = "answered"
                                             /\ ref[r].carry # None /\ ~ref[r].lost
  /\ form.st # "idle" => tab.admin = None /\ ~tab.loading
  /\ form.row # None => form.st = "answered"
  /\ out.st = "idle" => out.carry = None

ShapeInv ==
  /\ TypeOK /\ HeldTogether
  /\ SharedIsCurrent /\ AloneAtBoot /\ RequestsFit /\ CallsFit

\* Nobody holds a row that was not created.
RowsExist ==
  /\ {tab.access, cookie, out.carry, form.row} \subseteq 0..server.used
  /\ \A c \in Requests : req[c].row <= server.used
  /\ \A r \in Refs : ref[r].carry <= server.used /\ ref[r].row <= server.used
  /\ server.live \union server.stale \subseteq 1..server.used
  /\ \A row \in 1..server.used : server.family[row] <= server.used

\* A new row is known to nobody but the answer that brings it.
Untouched(row) ==
  /\ row \notin {None, tab.access, cookie, out.carry} /\ row \notin server.stale
  /\ \A c \in Requests : req[c].row # row
  /\ \A r \in Refs : ref[r].carry # row

AnswersAreNew ==
  /\ \A r \in Refs : ref[r].row # None =>
       /\ Untouched(ref[r].row) /\ ref[r].row # form.row
       /\ \A s \in Refs \ {r} : ref[s].row # ref[r].row
       /\ server.family[ref[r].row] = server.family[ref[r].carry]
  /\ form.row # None =>
       /\ Untouched(form.row)
       /\ \A row \in 1..server.used :
            row # form.row => server.family[row] # server.family[form.row]

\* A row that was refused, or that a logout ends, is not accepted again.
RefusedForGood ==
  /\ \A c \in Requests : req[c].answer = "refused" => ~Accepts(req[c].row)
  /\ tab.access # None => tab.access # out.carry

RowInv == RowsExist /\ AnswersAreNew /\ RefusedForGood

Family(row) == server.family[row]

\* Two refreshes are never of one family; one whose answer is not wanted any
\* more is of neither the token's family nor the cookie's.
FamiliesApart ==
  /\ \A r, s \in Refs : /\ r # s /\ ref[r].carry # None /\ ref[s].carry # None
                        => Family(ref[r].carry) # Family(ref[s].carry)
  /\ \A r \in Refs : ref[r].carry # None /\ ~ref[r].current /\ tab.access # None =>
       /\ Family(ref[r].carry) # Family(tab.access)
       /\ cookie # None => Family(ref[r].carry) # Family(cookie)

\* A refresh without a cookie: what cookie came since is not the session's.
NoCookie ==
  \A r \in Refs : /\ ref[r].lost => ref[r].carry = None
                  /\ UnderWay(r) /\ ref[r].current /\ ref[r].carry = None /\ tab.access # None =>
                       cookie = None \/ Family(cookie) # Family(tab.access)

Dead == server.live = {}

\* What the shared refresh brings is accepted, unless all rows are dead.
AnswerIsGood ==
  \A r \in Refs : ref[r].current /\ ref[r].row # None => Dead \/ ref[r].row \in server.live

\* Nothing under way can change a token that is accepted.
Settles == Dead \/ (Accepts(tab.access) /\ tab.shared = None)

SecondTry ==
  \A c \in Requests : req[c].mine =>
    /\ req[c].st \in {"sent", "answered"} /\ req[c].row # tab.access => Settles
    /\ req[c].st = "resent" => Dead \/ (Settles /\ req[c].row = tab.access)
    /\ req[c].st = "reanswered" /\ req[c].answer = "refused" => Dead

CalmInv == ~fault => FamiliesApart /\ NoCookie /\ AnswerIsGood /\ SecondTry

SessionInv == ShapeInv /\ RowInv /\ CalmInv

-----------------------------------------------------------------------------
(* What the steps do, field by field.                                      *)

Numbers == Rows \union {None}

Tabs == [admin : Numbers, access : Numbers, loading : BOOLEAN, challenge : BOOLEAN,
         shared : Refs \union {None}, pending : Refs \union {None}]

Asks == [st : {"idle", "sent", "answered", "waiting", "resent", "reanswered"}, mine : BOOLEAN,
         row : Numbers, wait : Refs \union {None}, 
         answer : {"none", "ok", "ended", "refused", "denied"}]

Refreshes == [st : {"idle", "sent", "answered"}, carry : Numbers, row : Numbers,
              current : BOOLEAN, lost : BOOLEAN]

Forms == [st : {"idle", "sent", "answered"}, current : BOOLEAN, mfa : BOOLEAN,
          row : Numbers, challenge : BOOLEAN]

Logouts == [st : {"idle", "sent", "answered"}, carry : Numbers]

Servers == [live : SUBSET Rows, stale : SUBSET Rows, used : 0..MaxRows, family : [Rows -> Rows]]

LEMMA Typed ==
  TypeOK <=> /\ tab \in Tabs /\ req \in [Requests -> Asks] /\ ref \in [Refs -> Refreshes]
             /\ form \in Forms /\ out \in Logouts /\ server \in Servers
             /\ cookie \in Numbers /\ fault \in BOOLEAN
BY DEF TypeOK, Tabs, Asks, Refreshes, Forms, Logouts, Servers, Numbers

LEMMA TypedNext ==
  TypeOK' <=> /\ tab' \in Tabs /\ req' \in [Requests -> Asks] /\ ref' \in [Refs -> Refreshes]
              /\ form' \in Forms /\ out' \in Logouts /\ server' \in Servers
              /\ cookie' \in Numbers /\ fault' \in BOOLEAN
BY DEF TypeOK, Tabs, Asks, Refreshes, Forms, Logouts, Servers, Numbers

\* Rows are numbers, and those that exist have a family.
LEMMA RowFacts ==
  ASSUME TypeOK
  PROVE  /\ server.used \in Nat /\ server.used <= MaxRows /\ MaxRows \in Nat
         /\ 1..server.used \subseteq Rows /\ Rows \subseteq Nat /\ None \in Nat /\ None \notin Rows
         /\ \A row \in 1..server.used : server.family[row] \in Rows
         /\ tab.access \in Nat /\ cookie \in Nat /\ out.carry \in Nat /\ form.row \in Nat
         /\ \A c \in Requests : req[c].row \in Nat
         /\ \A r \in Refs : ref[r].carry \in Nat /\ ref[r].row \in Nat
<1>1. server.used \in Nat /\ server.used <= MaxRows /\ MaxRows \in Nat
  BY Typed, BoundsAssumption DEF Servers
<1>2. 1..server.used \subseteq Rows /\ Rows \subseteq Nat /\ None \in Nat /\ None \notin Rows
  BY <1>1 DEF Rows, None
<1>3. \A row \in 1..server.used : server.family[row] \in Rows
  BY <1>2, Typed DEF Servers
<1>4. tab.access \in Nat /\ cookie \in Nat /\ out.carry \in Nat /\ form.row \in Nat
  BY <1>2, Typed DEF Tabs, Logouts, Forms, Numbers
<1>5. \A c \in Requests : req[c].row \in Nat
  BY <1>2, Typed DEF Asks, Numbers
<1>6. \A r \in Refs : ref[r].carry \in Nat /\ ref[r].row \in Nat
  BY <1>2, Typed DEF Refreshes, Numbers
<1> QED
  BY <1>1, <1>2, <1>3, <1>4, <1>5, <1>6

\* What a row that goes, or a new one, leaves of the server.
LEMMA WithoutRows ==
  ASSUME NEW s \in Servers, NEW rows
  PROVE  /\ Without(s, rows) \in Servers
         /\ Without(s, rows).live = s.live \ rows /\ Without(s, rows).stale = s.stale \ rows
         /\ Without(s, rows).used = s.used /\ Without(s, rows).family = s.family
BY DEF Without, Servers

LEMMA NewRowIsNew ==
  ASSUME server \in Servers, NEW family \in Rows, server.used < MaxRows
  PROVE  LET s == NewRow(family)
         IN /\ s \in Servers /\ s.used = server.used + 1 /\ s.used \in Rows
            /\ s.live = server.live \union {server.used + 1} /\ s.stale = server.stale
            /\ s.family[server.used + 1] = family
            /\ \A row \in Rows : row # server.used + 1 => s.family[row] = server.family[row]
<1> USE BoundsAssumption
<1>1. server.used + 1 \in Rows
  BY DEF Servers, Rows
<1>2. server.used \in Nat /\ server.family \in [Rows -> Rows]
  BY DEF Servers
<1> DEFINE new == server.used + 1
           table == [server.family EXCEPT ![new] = family]
<1>3. NewRow(family) = [server EXCEPT !.used = new, !.live = @ \union {new}, !.family = table]
  BY DEF NewRow, Servers
<1>4. /\ table \in [Rows -> Rows] /\ table[new] = family
      /\ \A row \in Rows : row # new => table[row] = server.family[row]
  BY <1>1, <1>2
<1>5. server.live \union {new} \in SUBSET Rows /\ new \in 0..MaxRows
  BY <1>1 DEF Servers, Rows
<1> HIDE DEF new, table
<1>6. /\ NewRow(family) \in Servers /\ NewRow(family).used = new
      /\ NewRow(family).live = server.live \union {new} /\ NewRow(family).stale = server.stale
      /\ NewRow(family).family = table
  BY <1>3, <1>4, <1>5 DEF Servers
<1> QED
  BY <1>1, <1>4, <1>6 DEF new

LEMMA RotatedRow ==
  ASSUME server \in Servers, NEW row \in server.live, server.used < MaxRows
  PROVE  LET s == Rotated(row)
         IN /\ s \in Servers /\ s.used = server.used + 1 /\ s.used \in Rows
            /\ s.live = (server.live \union {server.used + 1}) \ {row}
            /\ s.stale = server.stale \ {row}
            /\ s.family[server.used + 1] = server.family[row]
            /\ \A x \in Rows : x # server.used + 1 => s.family[x] = server.family[x]
<1>1. row \in Rows /\ server.family[row] \in Rows
  BY DEF Servers
<1> QED
  BY <1>1, NewRowIsNew, WithoutRows DEF Rotated

-----------------------------------------------------------------------------
(* Each step keeps the invariant.  The server first.                       *)

LEMMA ServeRequestKeeps ==
  ASSUME SessionInv, NEW c \in Requests, ServeRequest(c)
  PROVE  SessionInv'
<1>1. PICK answer \in {"ok", "ended", "refused", "denied"} :
        /\ answer = "refused" <=> ~Accepts(req[c].row)
        /\ req' = [req EXCEPT ![c].st = IF @ = "sent" THEN "answered" ELSE "reanswered",
                              ![c].answer = answer]
        /\ server' = IF answer = "ended" THEN Without(server, Rows) ELSE server
  BY DEF ServeRequest
<1>2. /\ req[c].st \in {"sent", "resent"}
      /\ UNCHANGED <<tab, ref, form, out, cookie, fault>>
  BY DEF ServeRequest
<1>3. TypeOK
  BY DEF SessionInv, ShapeInv
<1> DEFINE next == IF req[c].st = "sent" THEN "answered" ELSE "reanswered"
           ask == [req[c] EXCEPT !.st = next, !.answer = answer]
<1>a. req \in [Requests -> Asks] /\ req[c] \in Asks
  BY <1>3, Typed
<1>b. /\ ask \in Asks /\ ask.st = next /\ ask.answer = answer
      /\ ask.row = req[c].row /\ ask.mine = req[c].mine /\ ask.wait = req[c].wait
  BY <1>a DEF Asks
<1>c. req' = [req EXCEPT ![c] = ask]
  BY <1>1, <1>a DEF Asks
<1> HIDE DEF ask
<1>4. /\ \A d \in Requests : req[d] \in Asks
      /\ \A d \in Requests \ {c} : req'[d] = req[d]
      /\ req'[c].st = next /\ req'[c].answer = answer
      /\ req'[c].row = req[c].row /\ req'[c].mine = req[c].mine /\ req'[c].wait = req[c].wait
  BY <1>a, <1>b, <1>c
<1>5. req' \in [Requests -> Asks]
  BY <1>a, <1>b, <1>c
<1>6. /\ server' \in Servers /\ server'.used = server.used /\ server'.family = server.family
      /\ \/ answer # "ended" /\ server' = server
         \/ answer = "ended" /\ server'.live = {} /\ server'.stale = {}
  <2>1. CASE answer = "ended"
    BY <2>1, <1>1, <1>3, Typed, WithoutRows DEF Servers
  <2>2. CASE answer # "ended"
    BY <2>2, <1>1, <1>3, Typed
  <2> QED
    BY <2>1, <2>2
<1>7. TypeOK'
  BY <1>2, <1>3, <1>5, <1>6, Typed, TypedNext
<1>8. ShapeInv'
  <2>1. HeldTogether' /\ SharedIsCurrent' /\ CallsFit'
    BY <1>2 DEF SessionInv, ShapeInv, HeldTogether, SharedIsCurrent, CallsFit, UnderWay
  <2>2. AloneAtBoot'
    BY <1>2 DEF SessionInv, ShapeInv, AloneAtBoot, UnderWay
  <2>3. RequestsFit'
    BY <1>2, <1>4 DEF SessionInv, ShapeInv, RequestsFit, UnderWay
  <2> QED
    BY <1>7, <2>1, <2>2, <2>3 DEF ShapeInv
<1>9. RowInv'
  <2>1. RowsExist'
    BY <1>2, <1>4, <1>6 DEF SessionInv, RowInv, RowsExist
  <2>2. \A row : Untouched(row) => Untouched(row)'
    BY <1>2, <1>4, <1>6 DEF Untouched
  <2>3. AnswersAreNew'
    BY <1>2, <1>6, <2>2 DEF SessionInv, RowInv, AnswersAreNew
  <2>4. RefusedForGood'
    BY <1>1, <1>2, <1>4, <1>6 DEF SessionInv, RowInv, RefusedForGood, Accepts
  <2> QED
    BY <2>1, <2>3, <2>4 DEF RowInv
<1>10. CalmInv'
  <2> SUFFICES ASSUME ~fault' PROVE CalmInv'
    BY DEF CalmInv
  <2>1. FamiliesApart /\ NoCookie /\ AnswerIsGood /\ SecondTry
    BY <1>2 DEF SessionInv, CalmInv
  <2>2. FamiliesApart' /\ NoCookie'
    BY <2>1, <1>2, <1>6 DEF FamiliesApart, NoCookie, Family, UnderWay
  <2>3. AnswerIsGood'
    BY <2>1, <1>2, <1>6 DEF AnswerIsGood, Dead
  <2>4. (Dead => Dead') /\ (Settles => Settles')
    BY <1>2, <1>6 DEF Dead, Settles, Accepts
  <2>5. SecondTry'
    <3> SUFFICES ASSUME NEW d \in Requests, req'[d].mine
                 PROVE  /\ req'[d].st \in {"sent", "answered"} /\ req'[d].row # tab.access => Settles'
                        /\ req'[d].st = "resent" => Dead' \/ (Settles' /\ req'[d].row = tab.access)
                        /\ req'[d].st = "reanswered" /\ req'[d].answer = "refused" => Dead'
      BY <1>2 DEF SecondTry
    <3>1. CASE d # c
      BY <3>1, <2>1, <2>4, <1>4 DEF SecondTry
    <3>2. CASE d = c
      <4>1. answer = "refused" => ~Accepts(req[c].row)
        BY <1>1
      <4> QED
        BY <3>2, <4>1, <2>1, <2>4, <1>2, <1>4 DEF SecondTry, Settles
    <3> QED
      BY <3>1, <3>2
  <2> QED
    BY <2>2, <2>3, <2>5 DEF CalmInv
<1> QED
  BY <1>8, <1>9, <1>10 DEF SessionInv

\* Rows that go, or a token that expires, with nothing else changed.
LEMMA FewerRowsKeep ==
  ASSUME SessionInv, UNCHANGED <<tab, req, ref, form, cookie, fault>>,
         out' \in Logouts, out'.carry = out.carry, out'.st = "idle" <=> out.st = "idle",
         server' \in Servers, server'.used = server.used, server'.family = server.family,
         server'.live \subseteq server.live,
         server'.stale \subseteq server.stale \union {tab.access},
         \A row : Accepts(row)' => Accepts(row),
         \A r \in Refs : ref[r].row # None /\ ref[r].row \in server.live =>
                           Dead' \/ ref[r].row \in server'.live,
         \/ Settles => Settles'
         \/ \A c \in Requests : req[c].mine => /\ req[c].st \in {"sent", "answered"}
                                               /\ req[c].row = tab.access
  PROVE  SessionInv'
<1>1. TypeOK
  BY DEF SessionInv, ShapeInv
<1>2. TypeOK'
  BY <1>1, Typed, TypedNext
<1>3. ShapeInv'
  <2>1. HeldTogether' /\ SharedIsCurrent'
    BY DEF SessionInv, ShapeInv, HeldTogether, SharedIsCurrent, UnderWay
  <2>2. AloneAtBoot'
    BY DEF SessionInv, ShapeInv, AloneAtBoot, UnderWay
  <2>3. RequestsFit'
    BY DEF SessionInv, ShapeInv, RequestsFit, UnderWay
  <2>4. CallsFit'
    BY DEF SessionInv, ShapeInv, CallsFit, UnderWay
  <2> QED
    BY <1>2, <2>1, <2>2, <2>3, <2>4 DEF ShapeInv
<1>4. RowInv'
  <2>1. RowsExist'
    <3>1. tab.access \in server.stale \union {None} \union 1..server.used
      BY <1>1, Typed DEF SessionInv, RowInv, RowsExist, Tabs, Numbers, Rows, None, Servers
    <3>2. tab.access = None => tab.access \notin server'.stale
      BY DEF Servers, Rows, None
    <3> QED
      BY <3>1, <3>2 DEF SessionInv, RowInv, RowsExist
  <2>2. \A row : Untouched(row) => Untouched(row)'
    BY DEF Untouched
  <2>3. AnswersAreNew'
    BY <2>2 DEF SessionInv, RowInv, AnswersAreNew
  <2>4. RefusedForGood'
    BY DEF SessionInv, RowInv, RefusedForGood
  <2> QED
    BY <2>1, <2>3, <2>4 DEF RowInv
<1>5. CalmInv'
  <2> SUFFICES ASSUME ~fault' PROVE CalmInv'
    BY DEF CalmInv
  <2>1. FamiliesApart /\ NoCookie /\ AnswerIsGood /\ SecondTry
    BY DEF SessionInv, CalmInv
  <2>2. FamiliesApart' /\ NoCookie'
    BY <2>1 DEF FamiliesApart, NoCookie, Family, UnderWay
  <2>3. Dead => Dead'
    BY DEF Dead
  <2>4. AnswerIsGood'
    BY <2>1, <2>3 DEF AnswerIsGood, Dead
  <2>5. SecondTry'
    BY <2>1, <2>3 DEF SecondTry
  <2> QED
    BY <2>2, <2>4, <2>5 DEF CalmInv
<1> QED
  BY <1>3, <1>4, <1>5 DEF SessionInv

LEMMA ServeLogoutKeeps ==
  ASSUME SessionInv, ServeLogout
  PROVE  SessionInv'
<1>1. /\ TypeOK /\ RowInv /\ HeldTogether
      /\ server \in Servers /\ out \in Logouts /\ tab \in Tabs
  BY Typed DEF SessionInv, ShapeInv
<1>2. /\ UNCHANGED <<tab, req, ref, form, cookie, fault>>
      /\ server' = Without(server, {out.carry})
      /\ out.st = "sent" /\ out' = [out EXCEPT !.st = "answered"]
  BY DEF ServeLogout
<1>3. out' \in Logouts /\ out'.carry = out.carry /\ out'.st = "answered"
  BY <1>1, <1>2 DEF Logouts
<1>4. /\ server' \in Servers /\ server'.used = server.used /\ server'.family = server.family
      /\ server'.live = server.live \ {out.carry} /\ server'.stale = server.stale \ {out.carry}
  BY <1>1, <1>2, WithoutRows
<1>5. \A row : Accepts(row)' => Accepts(row)
  BY <1>4 DEF Accepts
<1>6. \A r \in Refs : ref[r].row # None => ref[r].row # out.carry
  BY <1>1 DEF RowInv, AnswersAreNew, Untouched
<1>7. Settles => Settles'
  <2>1. server.live \subseteq Rows /\ None \notin Rows
    BY <1>1 DEF Servers, Rows, None
  <2>2. Accepts(tab.access) => tab.access # out.carry
    BY <1>1, <2>1 DEF RowInv, RefusedForGood, Accepts
  <2> QED
    BY <2>2, <1>2, <1>4 DEF Settles, Dead, Accepts
<1> QED
  BY <1>2, <1>3, <1>4, <1>5, <1>6, <1>7, FewerRowsKeep

LEMMA AccessExpiresKeeps ==
  ASSUME SessionInv, AccessExpires
  PROVE  SessionInv'
<1>1. /\ TypeOK /\ RowInv /\ RequestsFit
      /\ server \in Servers /\ out \in Logouts /\ tab \in Tabs
  BY Typed DEF SessionInv, ShapeInv
<1>2. /\ UNCHANGED <<tab, req, ref, form, out, cookie, fault>>
      /\ server' = [server EXCEPT !.stale = @ \union {tab.access}]
      /\ tab.access \in server.live
      /\ \A c \in Requests : \/ req[c].st = "idle"
                             \/ req[c].st \in {"sent", "answered"} /\ req[c].row = tab.access
  BY DEF AccessExpires, Accepts
<1>4. /\ server' \in Servers /\ server'.used = server.used /\ server'.family = server.family
      /\ server'.live = server.live /\ server'.stale = server.stale \union {tab.access}
  BY <1>1, <1>2 DEF Servers
<1>5. \A row : Accepts(row)' => Accepts(row)
  BY <1>4 DEF Accepts
<1>6. \A c \in Requests : req[c].mine => /\ req[c].st \in {"sent", "answered"}
                                         /\ req[c].row = tab.access
  BY <1>1, <1>2 DEF RequestsFit
<1> QED
  BY <1>1, <1>2, <1>4, <1>5, <1>6, FewerRowsKeep

LEMMA RevokedElsewhereKeeps ==
  ASSUME SessionInv, RevokedElsewhere
  PROVE  SessionInv'
<1>1. /\ TypeOK
      /\ server \in Servers /\ out \in Logouts /\ tab \in Tabs
  BY Typed DEF SessionInv, ShapeInv
<1>2. /\ UNCHANGED <<tab, req, ref, form, out, cookie, fault>>
      /\ server' = Without(server, Rows)
  BY DEF RevokedElsewhere
<1>4. /\ server' \in Servers /\ server'.used = server.used /\ server'.family = server.family
      /\ server'.live = {} /\ server'.stale = {}
  BY <1>1, <1>2, WithoutRows DEF Servers
<1>5. \A row : Accepts(row)' => Accepts(row)
  BY <1>4 DEF Accepts
<1>6. Dead' /\ Settles'
  BY <1>4 DEF Dead, Settles
<1> QED
  BY <1>1, <1>2, <1>4, <1>5, <1>6, FewerRowsKeep

\* While nobody is signed in, and the first refresh has answered, no refresh is
\* wanted and no request is of the session of now.
LEMMA NobodySignedIn ==
  ASSUME ShapeInv, tab.admin = None, ~tab.loading
  PROVE  /\ tab.access = None /\ tab.shared = None /\ tab.pending = None
         /\ \A r \in Refs : ~ref[r].current
         /\ \A c \in Requests : ~req[c].mine
BY DEF ShapeInv, HeldTogether, SharedIsCurrent, RequestsFit, Refs, None

\* A form is answered: with a new row, a challenge, or a refusal.
LEMMA ServeFormKeeps ==
  ASSUME SessionInv, ServeForm
  PROVE  SessionInv'
<1>1. /\ TypeOK /\ ShapeInv /\ RowsExist /\ AnswersAreNew /\ RefusedForGood
      /\ server \in Servers /\ form \in Forms /\ tab \in Tabs
  BY Typed DEF SessionInv, ShapeInv, RowInv
<1>2. form.st = "sent" /\ UNCHANGED <<tab, req, ref, out, cookie, fault>>
  BY DEF ServeForm
<1>3. /\ tab.admin = None /\ ~tab.loading /\ tab.access = None /\ tab.shared = None
      /\ \A r \in Refs : ~ref[r].current
      /\ \A c \in Requests : ~req[c].mine
  BY <1>1, <1>2, NobodySignedIn DEF ShapeInv, CallsFit
<1>4. form.row = None
  BY <1>1, <1>2 DEF ShapeInv, CallsFit
<1> DEFINE new == server.used + 1
<1>5. \/ /\ form' \in Forms /\ form'.st = "answered" /\ form'.row = None /\ server' = server
      \/ /\ form' \in Forms /\ form'.st = "answered" /\ form'.row = new /\ server.used < MaxRows
         /\ server' = NewRow(new)
  <2>1. CASE /\ server.used < MaxRows
             /\ server' = NewRow(server.used + 1)
             /\ form' = [form EXCEPT !.st = "answered", !.row = server'.used]
    <3>1. new \in Rows
      BY <2>1, <1>1, BoundsAssumption DEF Servers, Rows
    <3>2. server'.used = new
      BY <2>1, <1>1, <3>1, NewRowIsNew
    <3> QED
      BY <2>1, <3>1, <3>2, <1>1 DEF Forms, Numbers
  <2>2. CASE /\ server' = server
             /\ \/ form' = [form EXCEPT !.st = "answered", !.challenge = TRUE]
                \/ form' = [form EXCEPT !.st = "answered"]
    BY <2>2, <1>1, <1>4 DEF Forms
  <2> QED
    BY <2>1, <2>2 DEF ServeForm
<1>6. /\ server' \in Servers /\ server.used \in Nat
      /\ \/ form'.row = None /\ server' = server
         \/ /\ form'.row = new /\ new \in Rows /\ server'.used = new
            /\ server'.live = server.live \union {new} /\ server'.stale = server.stale
            /\ server'.family[new] = new
            /\ \A row \in Rows : row # new => server'.family[row] = server.family[row]
  <2>1. server.used < MaxRows => new \in Rows
    BY <1>1, BoundsAssumption DEF Servers, Rows
  <2>2. server.used \in Nat
    BY <1>1 DEF Servers
  <2> QED
    BY <2>1, <2>2, <1>1, <1>5, NewRowIsNew
<1>7. TypeOK'
  BY <1>1, <1>2, <1>5, <1>6, Typed, TypedNext
<1>8. ShapeInv'
  <2>1. HeldTogether' /\ SharedIsCurrent'
    BY <1>1, <1>2 DEF ShapeInv, HeldTogether, SharedIsCurrent, UnderWay
  <2>2. AloneAtBoot'
    BY <1>2, <1>3 DEF AloneAtBoot
  <2>3. RequestsFit'
    BY <1>1, <1>2 DEF ShapeInv, RequestsFit, UnderWay
  <2>4. CallsFit'
    BY <1>1, <1>2, <1>3, <1>5 DEF ShapeInv, CallsFit, UnderWay
  <2> QED
    BY <1>7, <2>1, <2>2, <2>3, <2>4 DEF ShapeInv
<1> HIDE DEF new
<1>9. CASE form'.row = None /\ server' = server
  <2>1. RowInv'
    <3>1. RowsExist'
      BY <1>1, <1>2, <1>4, <1>9 DEF RowsExist
    <3>2. \A row : Untouched(row) => Untouched(row)'
      BY <1>2, <1>9 DEF Untouched
    <3>3. AnswersAreNew'
      BY <3>2, <1>1, <1>2, <1>4, <1>9 DEF AnswersAreNew
    <3>4. RefusedForGood'
      BY <1>1, <1>2, <1>9 DEF RefusedForGood, Accepts
    <3> QED
      BY <3>1, <3>3, <3>4 DEF RowInv
  <2>2. CalmInv'
    BY <1>2, <1>9 DEF SessionInv, CalmInv, FamiliesApart, NoCookie, AnswerIsGood, SecondTry, Settles,
       Dead, Accepts, Family, UnderWay
  <2> QED
    BY <1>8, <2>1, <2>2 DEF SessionInv
<1>10. CASE form'.row # None
  <2>0. /\ server.used \in Nat /\ new = server.used + 1 /\ new \in Rows /\ server'.used = new
        /\ form'.row = new
        /\ server'.live = server.live \union {new} /\ server'.stale = server.stale
        /\ server'.family[new] = new
        /\ \A row \in 1..server.used : row # new /\ server'.family[row] = server.family[row]
    <3>1. 1..server.used \subseteq Rows
      BY <1>1, BoundsAssumption DEF Servers, Rows
    <3> QED
      BY <1>6, <1>10, <3>1 DEF new
  <2>a. /\ \A c \in Requests : req[c].row \in Nat
        /\ \A r \in Refs : ref[r].carry \in Nat /\ ref[r].row \in Nat
    BY <1>1, BoundsAssumption, Typed DEF Asks, Refreshes, Numbers, Rows, None
  <2>1. /\ new \notin {None, tab.access, cookie, out.carry} /\ new \notin server.stale
        /\ \A c \in Requests : req[c].row # new
        /\ \A r \in Refs : ref[r].carry # new /\ ref[r].row # new
    BY <2>0, <2>a, <1>1 DEF RowsExist, None
  <2>2. RowsExist'
    <3>1. {tab.access, cookie, out.carry, form'.row} \subseteq 0..new
      BY <2>0, <1>1 DEF RowsExist
    <3>2. /\ \A c \in Requests : req[c].row <= new
          /\ \A r \in Refs : ref[r].carry <= new /\ ref[r].row <= new
      BY <2>0, <2>a, <1>1 DEF RowsExist
    <3>3. server'.live \union server'.stale \subseteq 1..new
      BY <2>0, <1>1 DEF RowsExist
    <3>4. \A row \in 1..new : server'.family[row] <= new
      <4>1. \A row \in 1..server.used : server'.family[row] \in Nat /\ server'.family[row] <= server.used
        BY <2>0, <1>1, RowFacts DEF RowsExist
      <4> QED
        BY <4>1, <2>0
    <3> QED
      BY <3>1, <3>2, <3>3, <3>4, <2>0, <1>2 DEF RowsExist
  <2>4. ASSUME NEW r \in Refs, ref[r].row # None
        PROVE  /\ ref[r].row \in 1..server.used /\ ref[r].carry \in 1..server.used
               /\ ref[r].row # form'.row
    <3>1. ref[r].carry # None /\ ref[r] \in Refreshes
      BY <2>4, <1>1, Typed DEF ShapeInv, CallsFit
    <3>2. ref[r].row <= server.used /\ ref[r].carry <= server.used
      BY <1>1 DEF RowsExist
    <3> QED
      BY <2>0, <2>4, <3>1, <3>2 DEF Refreshes, Numbers, Rows, None
  <2>5. AnswersAreNew'
    <3>1. ASSUME NEW r \in Refs, ref[r].row # None
          PROVE  /\ Untouched(ref[r].row)' /\ ref[r].row # form'.row
                 /\ \A s \in Refs \ {r} : ref[s].row # ref[r].row
                 /\ server'.family[ref[r].row] = server'.family[ref[r].carry]
      <4>1. Untouched(ref[r].row)
        BY <3>1, <1>1 DEF AnswersAreNew
      <4>2. Untouched(ref[r].row)'
        BY <4>1, <2>0, <1>2 DEF Untouched
      <4> QED
        BY <3>1, <4>2, <2>0, <2>4, <1>1 DEF AnswersAreNew
    <3>2. \A row \in 1..server'.used :
             row # form'.row => server'.family[row] # server'.family[form'.row]
      <4>1. \A row \in 1..server.used : server'.family[row] \in Nat /\ server'.family[row] <= server.used
        BY <2>0, <1>1, RowFacts DEF RowsExist
      <4> QED
        BY <4>1, <2>0
    <3>3. Untouched(form.row)'
      BY <2>0, <2>1, <1>2 DEF Untouched
    <3> QED
      BY <3>1, <3>2, <3>3, <1>2 DEF AnswersAreNew
  <2>6. RefusedForGood'
    <3>1. \A c \in Requests : req[c].row # new
      BY <2>0, <1>1 DEF RowsExist
    <3> QED
      BY <3>1, <2>0, <1>1, <1>2, <1>3 DEF RefusedForGood, Accepts
  <2>7. CalmInv'
    <3> SUFFICES ASSUME ~fault' PROVE CalmInv'
      BY DEF CalmInv
    <3>1. FamiliesApart /\ NoCookie
      BY <1>2 DEF SessionInv, CalmInv
    <3>2. \A r \in Refs : ref[r].carry # None => ref[r].carry \in 1..server.used
      BY <1>1, Typed DEF RowsExist, Refreshes, Numbers, Rows, None, Servers
    <3>3. FamiliesApart'
      BY <3>1, <3>2, <2>0, <1>2, <1>3 DEF FamiliesApart, Family
    <3>4. NoCookie' /\ AnswerIsGood' /\ SecondTry'
      BY <3>1, <1>2, <1>3 DEF NoCookie, AnswerIsGood, SecondTry
    <3> QED
      BY <3>3, <3>4 DEF CalmInv
  <2> QED
    BY <1>8, <2>2, <2>5, <2>6, <2>7 DEF SessionInv, RowInv
<1> QED
  BY <1>1, <1>6, <1>9, <1>10, RowFacts

\* A refresh that is under way and has its answer, or loses it.
LEMMA AnsweredRefreshFits ==
  ASSUME SessionInv, NEW r \in Refs, UnderWay(r), NEW new \in Refreshes, new.st = "answered",
         new.carry = ref[r].carry, new.current = ref[r].current,
         new.row # None => new.carry # None /\ ~new.lost,
         ref' = [ref EXCEPT ![r] = new], UNCHANGED <<tab, req, form, out, cookie>>,
         server' \in Servers, fault' \in BOOLEAN
  PROVE  ShapeInv' /\ ref'[r] = new /\ \A s \in Refs \ {r} : ref'[s] = ref[s]
<1>1. TypeOK /\ ShapeInv /\ ref \in [Refs -> Refreshes]
  BY Typed DEF SessionInv, ShapeInv
<1>2. /\ ref' \in [Refs -> Refreshes] /\ ref'[r] = new /\ \A s \in Refs \ {r} : ref'[s] = ref[s]
  BY <1>1
<1>3. TypeOK'
  BY <1>1, <1>2, Typed, TypedNext
<1>4. \A s \in Refs : /\ UnderWay(s)' <=> UnderWay(s)
                      /\ ref'[s].current = ref[s].current /\ ref'[s].carry = ref[s].carry
  BY <1>2 DEF UnderWay
<1>5. HeldTogether' /\ SharedIsCurrent'
  BY <1>1, <1>4 DEF ShapeInv, HeldTogether, SharedIsCurrent
<1>6. AloneAtBoot'
  BY <1>1, <1>4 DEF ShapeInv, AloneAtBoot
<1>7. RequestsFit'
  BY <1>1, <1>4 DEF ShapeInv, RequestsFit
<1>8. CallsFit'
  BY <1>1, <1>2, <1>4 DEF ShapeInv, CallsFit
<1> QED
  BY <1>1, <1>2, <1>3, <1>5, <1>6, <1>7, <1>8 DEF ShapeInv

\* The row is not new to those who hold another one.
LEMMA RotationKeepsRows ==
  ASSUME SessionInv, NEW carry \in server.live, server.used < MaxRows, server' = Rotated(carry),
         carry # form.row, UNCHANGED <<tab, req, form, out>>,
         cookie' \in {cookie, server.used + 1},
         \A r \in Refs : /\ ref'[r].carry = ref[r].carry
                         /\ \/ ref'[r].row = ref[r].row
                            \/ cookie' = cookie /\ carry = ref[r].carry /\ ref'[r].row = server.used + 1,
         \A r, s \in Refs : ref'[r].row = server.used + 1 /\ ref'[s].row = server.used + 1 => r = s
  PROVE  /\ RowInv' /\ server.used + 1 \in Rows /\ carry \in 1..server.used
         /\ server' \in Servers /\ server'.used = server.used + 1
         /\ server'.live = (server.live \union {server.used + 1}) \ {carry}
         /\ server'.stale = server.stale \ {carry}
         /\ \A row \in 1..server.used : server'.family[row] = server.family[row]
         /\ server'.family[server.used + 1] = server.family[carry]
<1> DEFINE new == server.used + 1
<1>1. TypeOK /\ RowsExist /\ AnswersAreNew /\ RefusedForGood /\ server \in Servers
  BY Typed DEF SessionInv, ShapeInv, RowInv
<1>2. /\ server' \in Servers /\ server'.used = new /\ new \in Rows
      /\ server'.live = (server.live \union {new}) \ {carry} /\ server'.stale = server.stale \ {carry}
      /\ server'.family[new] = server.family[carry]
      /\ \A row \in Rows : row # new => server'.family[row] = server.family[row]
  BY <1>1, RotatedRow
<1>3. /\ server.used \in Nat /\ 1..server.used \subseteq Rows /\ None = 0
      /\ \A row \in 1..server.used : server.family[row] \in Nat /\ server.family[row] <= server.used
      /\ tab.access \in Nat /\ cookie \in Nat /\ out.carry \in Nat /\ form.row \in Nat
      /\ \A c \in Requests : req[c].row \in Nat
      /\ \A r \in Refs : ref[r].carry \in Nat /\ ref[r].row \in Nat
  BY <1>1, RowFacts DEF RowsExist, None
<1>4. /\ carry \in 1..server.used /\ carry # new
      /\ \A row \in 1..server.used : row # new /\ server'.family[row] = server.family[row]
  BY <1>1, <1>2, <1>3 DEF RowsExist
<1>5. /\ new \notin {None, tab.access, cookie, out.carry, form.row} /\ new \notin server.stale
      /\ \A c \in Requests : req[c].row # new
      /\ \A r \in Refs : ref[r].carry # new /\ ref[r].row # new
  BY <1>1, <1>3 DEF RowsExist
<1>6. RowsExist'
  <2>1. {tab.access, cookie', out.carry, form.row} \subseteq 0..new
    BY <1>1, <1>3 DEF RowsExist
  <2>2. /\ \A c \in Requests : req[c].row <= new
        /\ \A r \in Refs : ref'[r].carry <= new /\ ref'[r].row <= new
    BY <1>1, <1>3 DEF RowsExist
  <2>3. server'.live \union server'.stale \subseteq 1..new
    BY <1>1, <1>2, <1>3 DEF RowsExist
  <2>4. \A row \in 1..new : server'.family[row] <= new
    BY <1>2, <1>3, <1>4
  <2> QED
    BY <2>1, <2>2, <2>3, <2>4, <1>2 DEF RowsExist
<1>7. ASSUME NEW r \in Refs, ref[r].row # None
      PROVE  /\ ref[r].row \in 1..server.used /\ ref[r].carry \in 1..server.used
  BY <1>7, <1>1, <1>3 DEF RowsExist, SessionInv, ShapeInv, CallsFit
<1>8. AnswersAreNew'
  <2>1. ASSUME NEW row, Untouched(row), row # new
        PROVE  Untouched(row)'
    BY <2>1, <1>2, <1>5 DEF Untouched
  <2>2. ASSUME NEW r \in Refs, ref'[r].row # None
        PROVE  /\ Untouched(ref[r].row)' /\ ref'[r].row # form.row
               /\ \A s \in Refs \ {r} : ref'[s].row # ref'[r].row
               /\ server'.family[ref'[r].row] = server'.family[ref'[r].carry]
    <3>1. CASE ref'[r].row = new
      <4>1. carry = ref[r].carry /\ cookie' = cookie
        BY <3>1, <1>5
      <4>2. /\ new \notin {None, tab.access, cookie', out.carry} /\ new \notin server'.stale
            /\ \A c \in Requests : req[c].row # new
            /\ \A s \in Refs : ref'[s].carry # new
        BY <4>1, <1>2, <1>5
      <4>3. Untouched(ref[r].row)'
        BY <3>1, <4>2 DEF Untouched
      <4> QED
        BY <3>1, <4>1, <4>3, <1>2, <1>4, <1>5
    <3>2. CASE ref'[r].row # new
      <4>1. ref'[r].row = ref[r].row
        BY <3>2, <2>2
      <4>2. Untouched(ref[r].row) /\ Untouched(ref[r].row)'
        BY <4>1, <2>2, <1>1, <1>2, <1>5 DEF AnswersAreNew, Untouched
      <4>3. \A s \in Refs \ {r} : ref'[s].row # ref'[r].row
        BY <4>1, <3>2, <2>2, <1>1 DEF AnswersAreNew
      <4> QED
        BY <4>1, <4>2, <4>3, <2>2, <1>1, <1>4, <1>7 DEF AnswersAreNew
    <3> QED
      BY <3>1, <3>2
  <2>3. ASSUME form.row # None
        PROVE  /\ Untouched(form.row)'
               /\ \A row \in 1..server'.used :
                     row # form.row => server'.family[row] # server'.family[form.row]
    <3>1. Untouched(form.row)'
      BY <2>3, <1>1, <1>2, <1>5 DEF AnswersAreNew, Untouched
    <3>2. form.row \in 1..server.used
      BY <2>3, <1>1, <1>3 DEF RowsExist
    <3>3. server.family[carry] # server.family[form.row]
      BY <2>3, <1>1, <1>4 DEF AnswersAreNew
    <3>4. \A row \in 1..server.used :
             row # form.row => server'.family[row] # server'.family[form.row]
      BY <2>3, <3>2, <1>1, <1>4 DEF AnswersAreNew
    <3> QED
      BY <3>1, <3>2, <3>3, <3>4, <1>2, <1>3, <1>4
  <2> QED
    BY <2>2, <2>3 DEF AnswersAreNew
<1>9. RefusedForGood'
  BY <1>1, <1>2, <1>5 DEF RefusedForGood, Accepts
<1> QED
  BY <1>2, <1>4, <1>6, <1>8, <1>9 DEF RowInv

\* The server rotates the row of a refresh.
LEMMA RotatedRefreshKeeps ==
  ASSUME SessionInv, NEW r \in Refs, ref[r].st = "sent", ref[r].carry \in server.live,
         server.used < MaxRows, server' = Rotated(ref[r].carry),
         ref' = [ref EXCEPT ![r].st = "answered", ![r].row = server'.used, ![r].lost = FALSE],
         UNCHANGED <<tab, req, form, out, cookie, fault>>
  PROVE  SessionInv'
<1> DEFINE carry == ref[r].carry
           n     == server.used + 1
           new   == [ref[r] EXCEPT !.st = "answered", !.row = n, !.lost = FALSE]
<1>1. /\ TypeOK /\ ShapeInv /\ RowsExist /\ AnswersAreNew /\ ref \in [Refs -> Refreshes]
      /\ server \in Servers /\ ref[r] \in Refreshes /\ fault \in BOOLEAN
  BY Typed DEF SessionInv, ShapeInv, RowInv
<1>2. n \in Rows /\ server'.used = n /\ server' \in Servers
  BY <1>1, RotatedRow
<1>3. /\ new \in Refreshes /\ new.st = "answered" /\ new.carry = carry /\ new.row = n /\ ~new.lost
      /\ new.current = ref[r].current /\ ref' = [ref EXCEPT ![r] = new]
  BY <1>1, <1>2 DEF Refreshes, Numbers
<1>4. carry # None /\ carry # form.row
  <2>1. carry # None
    BY <1>1, RowFacts DEF Servers
  <2> QED
    BY <2>1, <1>1 DEF AnswersAreNew, Untouched
<1>5. UnderWay(r)
  BY DEF UnderWay
<1> HIDE DEF new, n
<1>6. ShapeInv' /\ ref'[r] = new /\ \A s \in Refs \ {r} : ref'[s] = ref[s]
  BY <1>1, <1>2, <1>3, <1>4, <1>5, AnsweredRefreshFits
<1>7. \A s \in Refs : ref[s].row # n
  BY <1>1, RowFacts DEF RowsExist, n
<1>8. /\ \A s \in Refs : /\ ref'[s].carry = ref[s].carry
                         /\ \/ ref'[s].row = ref[s].row
                            \/ cookie' = cookie /\ carry = ref[s].carry /\ ref'[s].row = n
      /\ \A s, t \in Refs : ref'[s].row = n /\ ref'[t].row = n => s = t
  <2>1. ref'[r].carry = carry /\ ref'[r].row = n
    BY <1>3, <1>6
  <2> QED
    BY <2>1, <1>6, <1>7
<1> HIDE DEF carry
<1>9. /\ RowInv' /\ carry \in 1..server.used
      /\ server'.live = (server.live \union {n}) \ {carry} /\ server'.stale = server.stale \ {carry}
      /\ \A row \in 1..server.used : server'.family[row] = server.family[row]
      /\ server'.family[n] = server.family[carry]
  <2>1. n = server.used + 1 /\ carry = ref[r].carry
    BY DEF n, carry
  <2>2. carry \in server.live /\ server' = Rotated(carry) /\ cookie' \in {cookie, server.used + 1}
    BY <2>1
  <2>3. /\ \A s \in Refs : /\ ref'[s].carry = ref[s].carry
                           /\ \/ ref'[s].row = ref[s].row
                              \/ /\ cookie' = cookie /\ carry = ref[s].carry
                                 /\ ref'[s].row = server.used + 1
        /\ \A s, t \in Refs : ref'[s].row = server.used + 1 /\ ref'[t].row = server.used + 1 => s = t
    BY <2>1, <1>8
  <2> QED
    BY <2>1, <2>2, <2>3, <1>4, RotationKeepsRows
<1>10. CalmInv'
  <2> SUFFICES ASSUME ~fault' PROVE CalmInv'
    BY DEF CalmInv
  <2>0. /\ FamiliesApart /\ NoCookie /\ AnswerIsGood /\ SecondTry
        /\ carry = ref[r].carry /\ carry \in server.live
    BY DEF SessionInv, CalmInv, carry
  <2>1. ~Dead
    BY DEF Dead
  <2>2. /\ \A s \in Refs : ref[s].carry # None => ref[s].carry \in 1..server.used
        /\ tab.access # None => tab.access \in 1..server.used
        /\ cookie # None => cookie \in 1..server.used
    BY <1>1, RowFacts DEF RowsExist, None
  <2>3. \A s \in Refs : /\ ref'[s].carry = ref[s].carry /\ ref'[s].current = ref[s].current
                        /\ UnderWay(s)' <=> UnderWay(s)
    BY <1>3, <1>5, <1>6, <2>0 DEF UnderWay
  <2>4. FamiliesApart'
    <3>1. ASSUME NEW s \in Refs, NEW t \in Refs, s # t, ref[s].carry # None, ref[t].carry # None
          PROVE  server'.family[ref[s].carry] # server'.family[ref[t].carry]
      BY <3>1, <2>0, <2>2, <1>9 DEF FamiliesApart, Family
    <3>2. ASSUME NEW s \in Refs, ref[s].carry # None, ~ref[s].current, tab.access # None
          PROVE  /\ server'.family[ref[s].carry] # server'.family[tab.access]
                 /\ cookie # None => server'.family[ref[s].carry] # server'.family[cookie]
      BY <3>2, <2>0, <2>2, <1>9 DEF FamiliesApart, Family
    <3> QED
      BY ONLY <3>1, <3>2, <2>3, cookie' = cookie, tab' = tab DEF FamiliesApart, Family
  <2>5. NoCookie'
    <3>1. \A s \in Refs : ref'[s].lost => ref[s].carry = None
      BY <2>0, <1>3, <1>6 DEF NoCookie
    <3>2. ASSUME NEW s \in Refs, UnderWay(s), ref[s].current, ref[s].carry = None,
                 tab.access # None, cookie # None
          PROVE  server'.family[cookie] # server'.family[tab.access]
      <4>1. server.family[cookie] # server.family[tab.access]
        BY ONLY <3>2, <2>0 DEF NoCookie, Family
      <4> QED
        BY ONLY <3>2, <4>1, <2>2, <1>9
    <3> QED
      BY ONLY <3>1, <3>2, <2>3, cookie' = cookie, tab' = tab DEF NoCookie, Family
  <2>6. AnswerIsGood'
    <3> SUFFICES ASSUME NEW s \in Refs, ref'[s].current, ref'[s].row # None
                 PROVE  ref'[s].row \in server'.live
      BY DEF AnswerIsGood
    <3>1. CASE s = r
      BY ONLY <3>1, <1>1, <1>3, <1>6, <1>9, RowFacts DEF n
    <3>2. CASE s # r
      <4>1. ref'[s].row = ref[s].row /\ ref[s].current
        BY <3>2, <1>6
      <4>2. ref[s].row \in server.live /\ ref[s].row # carry
        BY <4>1, <2>0, <2>1, <1>1 DEF AnswerIsGood, AnswersAreNew, Untouched
      <4> QED
        BY <4>1, <4>2, <1>9
    <3> QED
      BY <3>1, <3>2
  <2>7. tab.access # None /\ Settles => Settles'
    <3> SUFFICES ASSUME tab.access # None, Settles PROVE Settles'
      OBVIOUS
    <3>1. Accepts(tab.access) /\ tab.shared = None
      BY <2>1 DEF Settles
    <3>2. ~ref[r].current
      BY <3>1, <1>1 DEF ShapeInv, SharedIsCurrent, Refs, None
    <3>3. carry # tab.access
      BY <3>2, <2>0, <1>4 DEF FamiliesApart
    <3> QED
      BY <3>1, <3>3, <1>9 DEF Settles, Accepts
  <2>8. SecondTry'
    BY <2>0, <2>1, <2>7, <1>1 DEF SecondTry, ShapeInv, RequestsFit, HeldTogether
  <2> QED
    BY <2>4, <2>5, <2>6, <2>8 DEF CalmInv
<1> QED
  BY <1>6, <1>9, <1>10 DEF SessionInv

\* The server refuses a refresh, whose family ends.
LEMMA RefusedRefreshKeeps ==
  ASSUME SessionInv, NEW r \in Refs, ref[r].st = "sent", ref[r].carry \notin server.live,
         server' = IF ref[r].carry = None THEN server ELSE EndedFamily(ref[r].carry),
         ref' = [ref EXCEPT ![r].st = "answered", ![r].row = None, ![r].lost = (ref[r].carry = None)],
         UNCHANGED <<tab, req, form, out, cookie, fault>>
  PROVE  SessionInv'
<1> DEFINE carry == ref[r].carry
           new   == [ref[r] EXCEPT !.st = "answered", !.row = None, !.lost = (carry = None)]
<1>1. /\ TypeOK /\ ShapeInv /\ RowsExist /\ AnswersAreNew /\ RefusedForGood
      /\ ref \in [Refs -> Refreshes]
      /\ server \in Servers /\ ref[r] \in Refreshes /\ fault \in BOOLEAN
  BY Typed DEF SessionInv, ShapeInv, RowInv
<1>2. /\ server' \in Servers /\ server'.used = server.used /\ server'.family = server.family
      /\ server'.live \subseteq server.live /\ server'.stale \subseteq server.stale
      /\ \A row : Accepts(row)' => Accepts(row)
      /\ \A row \in server.live :
           row \notin server'.live => carry # None /\ Family(row) = Family(carry)
      /\ \A row : Accepts(row) /\ row \in server'.live => Accepts(row)'
  <2>1. CASE carry = None
    BY <2>1, <1>1 DEF Accepts
  <2>2. CASE carry # None
    <3> DEFINE ended == {row \in Rows : server.family[row] = server.family[carry]}
    <3>1. /\ server' \in Servers /\ server'.used = server.used /\ server'.family = server.family
          /\ server'.live = server.live \ ended /\ server'.stale = server.stale \ ended
      BY <2>2, <1>1, WithoutRows DEF EndedFamily
    <3> QED
      BY <3>1, <2>2 DEF Accepts, Family
  <2> QED
    BY <2>1, <2>2
<1>3. /\ new \in Refreshes /\ new.st = "answered" /\ new.carry = carry /\ new.row = None
      /\ new.lost = (carry = None)
      /\ new.current = ref[r].current /\ ref' = [ref EXCEPT ![r] = new]
  BY <1>1 DEF Refreshes, Numbers
<1>5. UnderWay(r)
  BY DEF UnderWay
<1> HIDE DEF new
<1>6. ShapeInv' /\ ref'[r] = new /\ \A s \in Refs \ {r} : ref'[s] = ref[s]
  BY <1>1, <1>2, <1>3, <1>5, AnsweredRefreshFits
<1>7. \A s \in Refs : /\ ref'[s].carry = ref[s].carry /\ ref'[s].current = ref[s].current
                      /\ UnderWay(s)' <=> UnderWay(s)
                      /\ ref'[s].row \in {None, ref[s].row}
                      /\ ref'[s].row # None => s # r
  BY <1>3, <1>5, <1>6 DEF UnderWay
<1>8. RowInv'
  <2>1. RowsExist'
    <3>1. \A s \in Refs : ref'[s].row <= server.used
      BY <1>1, <1>7, RowFacts DEF RowsExist, None
    <3> QED
      BY <3>1, <1>1, <1>2, <1>7 DEF RowsExist
  <2>2. \A row : Untouched(row) => Untouched(row)'
    BY <1>2, <1>7 DEF Untouched
  <2>3. AnswersAreNew'
    <3>1. ASSUME NEW s \in Refs, ref'[s].row # None
          PROVE  /\ Untouched(ref[s].row)' /\ ref'[s].row # form.row
                 /\ \A t \in Refs \ {s} : ref'[t].row # ref'[s].row
                 /\ server'.family[ref'[s].row] = server'.family[ref'[s].carry]
      <4>1. ref'[s].row = ref[s].row
        BY <3>1, <1>7
      <4>2. Untouched(ref[s].row)
        BY <3>1, <4>1, <1>1 DEF AnswersAreNew
      <4>3. Untouched(ref[s].row)'
        BY <4>1, <4>2, <1>2, <1>7 DEF Untouched
      <4> QED
        BY <3>1, <4>1, <4>3, <1>1, <1>2, <1>7 DEF AnswersAreNew
    <3>2. form.row # None => Untouched(form.row)'
      BY <1>1, <1>2, <1>7 DEF AnswersAreNew, Untouched
    <3> QED
      BY <3>1, <3>2, <1>1, <1>2 DEF AnswersAreNew
  <2>4. RefusedForGood'
    BY <1>1, <1>2 DEF RefusedForGood
  <2> QED
    BY <2>1, <2>3, <2>4 DEF RowInv
<1>9. CalmInv'
  <2> SUFFICES ASSUME ~fault' PROVE CalmInv'
    BY DEF CalmInv
  <2>0. /\ FamiliesApart /\ NoCookie /\ AnswerIsGood /\ SecondTry
        /\ carry = ref[r].carry
    BY DEF SessionInv, CalmInv
  <2> HIDE DEF carry
  <2>1. FamiliesApart'
    <3>1. \A s, t \in Refs : s # t /\ ref'[s].carry # None /\ ref'[t].carry # None
                             => server'.family[ref'[s].carry] # server'.family[ref'[t].carry]
      BY ONLY <2>0, <1>2, <1>7 DEF FamiliesApart, Family
    <3>2. ASSUME NEW s \in Refs, ref[s].carry # None, ~ref[s].current, tab.access # None
          PROVE  /\ server'.family[ref[s].carry] # server'.family[tab.access]
                 /\ cookie # None => server'.family[ref[s].carry] # server'.family[cookie]
      BY <3>2, <2>0, <1>2 DEF FamiliesApart, Family
    <3> QED
      BY ONLY <3>1, <3>2, <1>7, cookie' = cookie, tab' = tab DEF FamiliesApart, Family
  <2>2. NoCookie'
    <3>1. \A s \in Refs : ref'[s].lost => ref[s].carry = None
      BY <2>0, <1>3, <1>6 DEF NoCookie
    <3> QED
      BY ONLY <3>1, <2>0, <1>2, <1>7, cookie' = cookie, tab' = tab DEF NoCookie, Family
  <2>3. Dead => Dead'
    BY <1>2 DEF Dead
  <2>4. AnswerIsGood'
    <3> SUFFICES ASSUME NEW s \in Refs, ref'[s].current, ref'[s].row # None, ~Dead'
                 PROVE  ref'[s].row \in server'.live
      BY DEF AnswerIsGood
    <3>1. s # r /\ ref'[s].row = ref[s].row /\ ref[s].current
      BY <1>7
    <3>2. ref[s].row \in server.live
      BY <3>1, <2>0, <2>3 DEF AnswerIsGood
    <3>3. ref[s].carry # None /\ Family(ref[s].row) = Family(ref[s].carry)
      BY <3>1, <1>1 DEF AnswersAreNew, ShapeInv, CallsFit, Family
    <3>4. carry # None => Family(ref[s].carry) # Family(carry)
      BY <3>1, <3>3, <2>0 DEF FamiliesApart
    <3> QED
      BY <3>1, <3>2, <3>3, <3>4, <1>2
  <2>5. tab.access # None /\ Settles => Settles'
    <3> SUFFICES ASSUME tab.access # None, Settles, ~Dead PROVE Settles'
      BY <2>3 DEF Settles
    <3>1. Accepts(tab.access) /\ tab.shared = None
      BY DEF Settles
    <3>2. ~ref[r].current
      BY <3>1, <1>1 DEF ShapeInv, SharedIsCurrent, Refs, None
    <3>3. carry # None => Family(carry) # Family(tab.access)
      BY <3>2, <2>0 DEF FamiliesApart
    <3>4. tab.access \in server'.live
      BY <3>1, <3>3, <1>2 DEF Accepts
    <3> QED
      BY <3>1, <3>4, <1>2 DEF Settles
  <2>6. SecondTry'
    BY <2>0, <2>3, <2>5, <1>1 DEF SecondTry, ShapeInv, RequestsFit, HeldTogether
  <2> QED
    BY <2>1, <2>2, <2>4, <2>6 DEF CalmInv
<1> QED
  BY <1>6, <1>8, <1>9 DEF SessionInv

\* An answer that is not one, or does not come, is a fault.
LEMMA LostRefreshKeeps ==
  ASSUME SessionInv, NEW r \in Refs, UnderWay(r), NEW new \in Refreshes, new.st = "answered",
         new.carry = ref[r].carry, new.current = ref[r].current, new.row = None,
         ref' = [ref EXCEPT ![r] = new],
         UNCHANGED <<tab, req, form, out, server, cookie>>, fault' = TRUE
  PROVE  SessionInv'
<1>1. /\ TypeOK /\ ShapeInv /\ RowsExist /\ AnswersAreNew /\ RefusedForGood /\ server \in Servers
  BY Typed DEF SessionInv, ShapeInv, RowInv
<1>2. ShapeInv' /\ ref'[r] = new /\ \A s \in Refs \ {r} : ref'[s] = ref[s]
  BY <1>1, AnsweredRefreshFits
<1>3. \A s \in Refs : /\ ref'[s].carry = ref[s].carry
                      /\ ref'[s].row = ref[s].row \/ ref'[s].row = None
  BY <1>2
<1>4. RowsExist'
  <2>1. \A s \in Refs : ref'[s].row <= server.used
    BY <1>1, <1>3, RowFacts DEF RowsExist, None
  <2> QED
    BY <2>1, <1>1, <1>3 DEF RowsExist
<1>5. AnswersAreNew'
  <2>1. ASSUME NEW s \in Refs, ref'[s].row # None
        PROVE  /\ Untouched(ref[s].row)' /\ ref'[s].row # form.row
               /\ \A t \in Refs \ {s} : ref'[t].row # ref'[s].row
               /\ server.family[ref'[s].row] = server.family[ref'[s].carry]
    <3>1. ref'[s].row = ref[s].row
      BY <2>1, <1>3
    <3>2. Untouched(ref[s].row)'
      BY <3>1, <2>1, <1>1, <1>3 DEF AnswersAreNew, Untouched
    <3> QED
      BY <2>1, <3>1, <3>2, <1>1, <1>3 DEF AnswersAreNew
  <2>2. form.row # None => Untouched(form.row)'
    BY <1>1, <1>3 DEF AnswersAreNew, Untouched
  <2> QED
    BY <2>1, <2>2, <1>1 DEF AnswersAreNew
<1>6. RefusedForGood'
  BY <1>1 DEF RefusedForGood, Accepts
<1> QED
  BY <1>2, <1>4, <1>5, <1>6 DEF SessionInv, RowInv, CalmInv

LEMMA ServeRefreshKeeps ==
  ASSUME SessionInv, NEW r \in Refs, ServeRefresh(r)
  PROVE  SessionInv'
<1>1. ref[r].st = "sent" /\ UnderWay(r) /\ UNCHANGED <<tab, req, form, out, cookie>>
  BY DEF ServeRefresh, UnderWay
<1>2. ref \in [Refs -> Refreshes] /\ ref[r] \in Refreshes
  BY Typed DEF SessionInv, ShapeInv
<1>3. CASE /\ ref[r].carry \in server.live /\ server.used < MaxRows
           /\ server' = Rotated(ref[r].carry)
           /\ ref' = [ref EXCEPT ![r].st = "answered", ![r].row = server'.used, ![r].lost = FALSE]
           /\ UNCHANGED fault
  BY <1>1, <1>3, RotatedRefreshKeeps
<1>4. CASE /\ ref[r].carry \notin server.live
           /\ server' = IF ref[r].carry = None THEN server ELSE EndedFamily(ref[r].carry)
           /\ ref' = [ref EXCEPT ![r].st = "answered", ![r].row = None,
                                 ![r].lost = (ref[r].carry = None)]
           /\ UNCHANGED fault
  BY <1>1, <1>4, RefusedRefreshKeeps
<1>5. ASSUME NEW lost \in BOOLEAN, fault' = TRUE, UNCHANGED server,
             ref' = [ref EXCEPT ![r].st = "answered", ![r].row = None, ![r].lost = lost]
      PROVE  SessionInv'
  <2> DEFINE new == [ref[r] EXCEPT !.st = "answered", !.row = None, !.lost = lost]
  <2>1. /\ new \in Refreshes /\ new.st = "answered" /\ new.row = None
        /\ new.carry = ref[r].carry /\ new.current = ref[r].current
        /\ ref' = [ref EXCEPT ![r] = new]
    BY <1>2, <1>5 DEF Refreshes, Numbers
  <2> HIDE DEF new
  <2> QED
    BY <2>1, <1>1, <1>5, LostRefreshKeeps
<1> QED
  BY <1>3, <1>4, <1>5 DEF ServeRefresh

LEMMA RefreshLostKeeps ==
  ASSUME SessionInv, NEW r \in Refs, RefreshLost(r)
  PROVE  SessionInv'
<1>1. /\ ref[r].st = "answered" /\ UnderWay(r) /\ fault' = TRUE
      /\ UNCHANGED <<tab, req, form, out, server, cookie>>
      /\ ref' = [ref EXCEPT ![r].row = None, ![r].lost = TRUE]
  BY DEF RefreshLost, UnderWay
<1>2. ref \in [Refs -> Refreshes] /\ ref[r] \in Refreshes
  BY Typed DEF SessionInv, ShapeInv
<1> DEFINE new == [ref[r] EXCEPT !.row = None, !.lost = TRUE]
<1>3. /\ new \in Refreshes /\ new.st = "answered" /\ new.row = None
      /\ new.carry = ref[r].carry /\ new.current = ref[r].current
      /\ ref' = [ref EXCEPT ![r] = new]
  BY <1>1, <1>2 DEF Refreshes, Numbers
<1> HIDE DEF new
<1> QED
  BY <1>1, <1>3, LostRefreshKeeps

LEMMA OtherTabRefreshesKeeps ==
  ASSUME SessionInv, OtherTabRefreshes
  PROVE  SessionInv'
<1>1. /\ cookie \in server.live /\ server.used < MaxRows /\ server' = Rotated(cookie)
      /\ cookie' = server'.used /\ fault' = TRUE
      /\ UNCHANGED <<tab, req, ref, form, out>>
  BY DEF OtherTabRefreshes
<1>2. TypeOK /\ ShapeInv /\ RowsExist /\ AnswersAreNew /\ server \in Servers
  BY Typed DEF SessionInv, ShapeInv, RowInv
<1>3. cookie' = server.used + 1 /\ cookie' \in Rows
  BY <1>1, <1>2, RotatedRow
<1>4. cookie # form.row
  BY <1>1, <1>2, RowFacts DEF AnswersAreNew, Untouched, Servers
<1>5. \A r, s \in Refs : ref'[r].row = server.used + 1 /\ ref'[s].row = server.used + 1 => r = s
  BY <1>1, <1>2, RowFacts DEF RowsExist
<1>6. RowInv' /\ server' \in Servers
  BY <1>1, <1>3, <1>4, <1>5, RotationKeepsRows
<1>7. TypeOK'
  BY <1>1, <1>2, <1>3, <1>6, Typed, TypedNext DEF Numbers
<1>8. HeldTogether' /\ SharedIsCurrent'
  BY <1>1, <1>2 DEF ShapeInv, HeldTogether, SharedIsCurrent, UnderWay
<1>9. AloneAtBoot'
  BY <1>1, <1>2 DEF ShapeInv, AloneAtBoot, UnderWay
<1>10. RequestsFit'
  BY <1>1, <1>2 DEF ShapeInv, RequestsFit, UnderWay
<1>11. CallsFit'
  BY <1>1, <1>2 DEF ShapeInv, CallsFit, UnderWay
<1> QED
  BY <1>1, <1>6, <1>7, <1>8, <1>9, <1>10, <1>11 DEF SessionInv, ShapeInv, CalmInv

-----------------------------------------------------------------------------
(* The steps of the tab.                                                   *)

LEMMA LogoutReturnsKeeps ==
  ASSUME SessionInv, LogoutReturns
  PROVE  SessionInv'
<1>1. /\ out.st = "answered" /\ out' = IdleLogout /\ cookie' = None
      /\ UNCHANGED <<tab, req, ref, form, server, fault>>
  BY DEF LogoutReturns
<1>2. TypeOK /\ ShapeInv /\ RowsExist /\ AnswersAreNew /\ RefusedForGood
  BY DEF SessionInv, ShapeInv, RowInv
<1>3. out' \in Logouts /\ out'.st = "idle" /\ out'.carry = None
  BY <1>1 DEF IdleLogout, Logouts, Numbers
<1>4. TypeOK'
  BY <1>1, <1>2, <1>3, Typed, TypedNext DEF Numbers
<1>5. HeldTogether' /\ SharedIsCurrent'
  BY <1>1, <1>2 DEF ShapeInv, HeldTogether, SharedIsCurrent, UnderWay
<1>6. AloneAtBoot'
  BY <1>1, <1>2, <1>3 DEF ShapeInv, AloneAtBoot, UnderWay
<1>7. RequestsFit'
  BY <1>1, <1>2 DEF ShapeInv, RequestsFit, UnderWay
<1>8. CallsFit'
  BY <1>1, <1>2, <1>3 DEF ShapeInv, CallsFit, UnderWay
<1>9. RowsExist'
  BY <1>1, <1>2, <1>3, RowFacts DEF RowsExist, None
<1>10. \A row : Untouched(row) => Untouched(row)'
  BY <1>1, <1>3 DEF Untouched
<1>11. AnswersAreNew' /\ RefusedForGood'
  BY <1>1, <1>2, <1>3, <1>10 DEF AnswersAreNew, RefusedForGood, Accepts
<1>12. CalmInv'
  BY <1>1 DEF SessionInv, CalmInv, FamiliesApart, NoCookie, AnswerIsGood, SecondTry, Settles, Dead,
     Accepts, Family, UnderWay
<1> QED
  BY <1>4, <1>5, <1>6, <1>7, <1>8, <1>9, <1>11, <1>12 DEF SessionInv, ShapeInv, RowInv

\* Nobody is signed in afterwards: what is under way is of an earlier session.
LEMMA NobodyAfterwards ==
  ASSUME SessionInv, UNCHANGED <<server, fault>>,
         tab' \in Tabs, tab'.admin = None, tab'.access = None, ~tab'.loading,
         tab'.shared = None, tab'.pending = None,
         req' \in [Requests -> Asks],
         \A c \in Requests :
           /\ ~req'[c].mine
           /\ req'[c].st = "waiting" => UnderWay(req[c].wait)'
           /\ \/ req'[c].st = "idle" /\ req'[c].row = None /\ req'[c].answer = "none"
              \/ /\ req'[c].st = req[c].st /\ req'[c].row = req[c].row
                 /\ req'[c].wait = req[c].wait /\ req'[c].answer = req[c].answer,
         ref' \in [Refs -> Refreshes],
         \A r \in Refs :
           /\ ~ref'[r].current
           /\ \/ ref'[r].st = "idle" /\ ref'[r].carry = None /\ ref'[r].row = None /\ ~ref'[r].lost
              \/ /\ ref'[r].st = ref[r].st /\ ref'[r].carry = ref[r].carry
                 /\ ref'[r].row = ref[r].row /\ ref'[r].lost = ref[r].lost
                 /\ ref[r].row = None \/ ref[r].row # cookie',
         form' \in Forms,
         form'.row = None \/ (form'.row = form.row /\ form'.st = form.st /\ form.row # cookie'),
         out' \in Logouts, out'.carry \in {None, out.carry, cookie},
         out'.st = "idle" => out'.carry = None,
         cookie' \in {None, cookie, form.row} \union {ref[r].row : r \in Refs}
  PROVE  SessionInv'
<1>1. /\ TypeOK /\ ShapeInv /\ RowsExist /\ AnswersAreNew /\ RefusedForGood
      /\ server.used \in Nat /\ None = 0
      /\ tab.access \in Nat /\ cookie \in Nat /\ out.carry \in Nat /\ form.row \in Nat
      /\ \A c \in Requests : req[c].row \in Nat
      /\ \A r \in Refs : ref[r].carry \in Nat /\ ref[r].row \in Nat
  BY RowFacts DEF SessionInv, ShapeInv, RowInv, None
<1>2. cookie' \in 0..server.used /\ cookie' \in Numbers
  <2>1. /\ cookie \in Numbers /\ form.row \in Numbers /\ None \in Numbers
        /\ \A r \in Refs : ref[r].row \in Numbers
    BY <1>1, Typed DEF Numbers, Forms, Refreshes
  <2>2. /\ {None, cookie, form.row} \subseteq 0..server.used
        /\ \A r \in Refs : ref[r].row \in 0..server.used
    BY <1>1 DEF RowsExist
  <2> QED
    BY <2>1, <2>2
<1>3. TypeOK'
  BY <1>1, <1>2, Typed, TypedNext
<1>4. HeldTogether' /\ SharedIsCurrent' /\ AloneAtBoot'
  BY DEF HeldTogether, SharedIsCurrent, AloneAtBoot, Refs, None
<1>5. RequestsFit'
  <2> SUFFICES ASSUME NEW c \in Requests
               PROVE  /\ req'[c].st = "idle" <=> req'[c].row = None
                      /\ req'[c].st = "waiting" => req'[c].wait \in Refs /\ UnderWay(req[c].wait)'
                                                   /\ req'[c].wait = req[c].wait
                      /\ req'[c].answer # "none" => req'[c].st \in {"answered", "reanswered"}
    BY DEF RequestsFit, UnderWay
  <2> QED
    BY <1>1 DEF ShapeInv, RequestsFit
<1>6. CallsFit'
  <2>1. ASSUME NEW r \in Refs
        PROVE  /\ ref'[r].st = "idle" => ref'[r].carry = None
               /\ ref'[r].row # None => /\ ref'[r].st = "answered"
                                        /\ ref'[r].carry # None /\ ~ref'[r].lost
    BY <1>1 DEF ShapeInv, CallsFit, UnderWay
  <2>2. form'.row # None => form'.st = "answered"
    BY <1>1 DEF ShapeInv, CallsFit
  <2> QED
    BY <2>1, <2>2 DEF CallsFit, UnderWay
<1>7. RowsExist'
  <2>1. {tab'.access, cookie', out'.carry, form'.row} \subseteq 0..server.used
    BY <1>1, <1>2 DEF RowsExist
  <2>2. /\ \A c \in Requests : req'[c].row <= server.used
        /\ \A r \in Refs : ref'[r].carry <= server.used /\ ref'[r].row <= server.used
    BY <1>1 DEF RowsExist
  <2> QED
    BY <1>1, <2>1, <2>2 DEF RowsExist
<1>8. ASSUME NEW row, Untouched(row), row # cookie'
      PROVE  Untouched(row)'
  <2>1. row \notin {None, tab'.access, cookie', out'.carry} /\ row \notin server'.stale
    BY <1>8 DEF Untouched
  <2>2. /\ \A c \in Requests : req'[c].row # row
        /\ \A r \in Refs : ref'[r].carry # row
    BY <1>8 DEF Untouched
  <2> QED
    BY <2>1, <2>2 DEF Untouched
<1>9. AnswersAreNew'
  <2>1. ASSUME NEW r \in Refs, ref'[r].row # None
        PROVE  /\ Untouched(ref[r].row)' /\ ref'[r].row # form'.row /\ ref'[r].row = ref[r].row
               /\ \A s \in Refs \ {r} : ref'[s].row # ref'[r].row
               /\ server.family[ref'[r].row] = server.family[ref'[r].carry]
    <3>1. ref'[r].row = ref[r].row /\ ref'[r].carry = ref[r].carry /\ ref[r].row # cookie'
      BY <2>1
    <3>2. Untouched(ref[r].row) /\ Untouched(ref[r].row)'
      BY <3>1, <2>1, <1>1, <1>8 DEF AnswersAreNew
    <3>3. \A s \in Refs : ref'[s].row \in {None, ref[s].row}
      OBVIOUS
    <3> QED
      BY <3>1, <3>2, <3>3, <2>1, <1>1 DEF AnswersAreNew
  <2>2. ASSUME form'.row # None
        PROVE  /\ Untouched(form.row)' /\ form'.row = form.row
               /\ \A row \in 1..server.used :
                     row # form'.row => server.family[row] # server.family[form'.row]
    BY <2>2, <1>1, <1>8 DEF AnswersAreNew
  <2> QED
    BY <2>1, <2>2 DEF AnswersAreNew, Untouched
<1>10. RefusedForGood'
  BY <1>1 DEF RefusedForGood, Accepts
<1>11. CalmInv'
  <2> SUFFICES ASSUME ~fault' PROVE CalmInv'
    BY DEF CalmInv
  <2>1. FamiliesApart /\ NoCookie
    BY DEF SessionInv, CalmInv
  <2>2. \A r \in Refs : ref'[r].carry \in {None, ref[r].carry}
    OBVIOUS
  <2>3. FamiliesApart'
    BY ONLY <2>1, <2>2, tab'.access = None, server' = server DEF FamiliesApart, Family
  <2>4. NoCookie' /\ AnswerIsGood' /\ SecondTry'
    BY <2>1 DEF NoCookie, AnswerIsGood, SecondTry
  <2> QED
    BY <2>3, <2>4 DEF CalmInv
<1> QED
  BY <1>3, <1>4, <1>5, <1>6, <1>7, <1>9, <1>10, <1>11 DEF SessionInv, ShapeInv, RowInv

LEMMA EndedTab ==
  ASSUME NEW t \in Tabs
  PROVE  /\ Ended(t) \in Tabs /\ Ended(t).admin = None /\ Ended(t).access = None
         /\ ~Ended(t).loading /\ Ended(t).shared = None /\ Ended(t).pending = None
BY DEF Ended, Tabs, Numbers

LEMMA DisownedAsks ==
  ASSUME NEW rs \in [Requests -> Asks]
  PROVE  /\ Disowned(rs) \in [Requests -> Asks]
         /\ \A c \in Requests :
              /\ ~Disowned(rs)[c].mine
              /\ Disowned(rs)[c].st = rs[c].st /\ Disowned(rs)[c].row = rs[c].row
              /\ Disowned(rs)[c].wait = rs[c].wait /\ Disowned(rs)[c].answer = rs[c].answer
BY DEF Disowned, Asks

LEMMA OutdatedRefreshes ==
  ASSUME NEW rs \in [Refs -> Refreshes]
  PROVE  /\ Outdated(rs) \in [Refs -> Refreshes]
         /\ \A r \in Refs :
              /\ ~Outdated(rs)[r].current
              /\ Outdated(rs)[r].st = rs[r].st /\ Outdated(rs)[r].carry = rs[r].carry
              /\ Outdated(rs)[r].row = rs[r].row /\ Outdated(rs)[r].lost = rs[r].lost
BY DEF Outdated, Refreshes

LEMMA OutdatedForm ==
  ASSUME form \in Forms
  PROVE  LET f == [form EXCEPT !.current = FALSE]
         IN f \in Forms /\ f.st = form.st /\ f.row = form.row
BY DEF Forms

LEMMA DoneAsks ==
  ASSUME req \in [Requests -> Asks], NEW c \in Requests
  PROVE  /\ Done(c) \in [Requests -> Asks] /\ Done(c)[c] = IdleRequest
         /\ \A d \in Requests \ {c} : Done(c)[d] = req[d]
         /\ IdleRequest.st = "idle" /\ IdleRequest.row = None /\ IdleRequest.answer = "none"
         /\ ~IdleRequest.mine
BY DEF Done, IdleRequest, Asks, Numbers

\* Every way the provider ends the session, with the requests that are left.
LEMMA ExpiredKeeps ==
  ASSUME SessionInv, NEW rs \in [Requests -> Asks], ExpireSession(tab, rs, ref),
         \A c \in Requests : \/ rs[c] = req[c]
                             \/ rs[c].st = "idle" /\ rs[c].row = None /\ rs[c].answer = "none",
         UNCHANGED <<server, cookie, fault>>,
         out' \in Logouts, out'.carry \in {None, out.carry, cookie},
         out'.st = "idle" => out'.carry = None
  PROVE  SessionInv'
<1>1. /\ TypeOK /\ ShapeInv /\ AnswersAreNew /\ tab \in Tabs /\ ref \in [Refs -> Refreshes]
      /\ form \in Forms
  BY Typed DEF SessionInv, ShapeInv, RowInv
<1>2. /\ tab' = Ended(tab) /\ req' = Disowned(rs) /\ ref' = Outdated(ref)
      /\ form' = [form EXCEPT !.current = FALSE]
  BY DEF ExpireSession
<1>3. /\ tab' \in Tabs /\ tab'.admin = None /\ tab'.access = None /\ ~tab'.loading
      /\ tab'.shared = None /\ tab'.pending = None
  BY <1>1, <1>2, EndedTab
<1>4. /\ ref' \in [Refs -> Refreshes]
      /\ \A r \in Refs : /\ ~ref'[r].current
                         /\ ref'[r].st = ref[r].st /\ ref'[r].carry = ref[r].carry
                         /\ ref'[r].row = ref[r].row /\ ref'[r].lost = ref[r].lost
                         /\ ref[r].row = None \/ ref[r].row # cookie'
  BY <1>1, <1>2, OutdatedRefreshes DEF AnswersAreNew, Untouched
<1>5. /\ form' \in Forms /\ form'.row = form.row /\ form'.st = form.st
      /\ form'.row = None \/ form.row # cookie'
  BY <1>1, <1>2, OutdatedForm DEF AnswersAreNew, Untouched
<1>6. /\ req' \in [Requests -> Asks]
      /\ \A c \in Requests :
           /\ ~req'[c].mine
           /\ req'[c].st = "waiting" => UnderWay(req[c].wait)'
           /\ \/ req'[c].st = "idle" /\ req'[c].row = None /\ req'[c].answer = "none"
              \/ /\ req'[c].st = req[c].st /\ req'[c].row = req[c].row
                 /\ req'[c].wait = req[c].wait /\ req'[c].answer = req[c].answer
  <2>1. /\ req' \in [Requests -> Asks]
        /\ \A c \in Requests :
              /\ ~req'[c].mine
              /\ req'[c].st = rs[c].st /\ req'[c].row = rs[c].row
              /\ req'[c].wait = rs[c].wait /\ req'[c].answer = rs[c].answer
    BY <1>2, DisownedAsks
  <2>2. ASSUME NEW c \in Requests, req'[c].st = "waiting"
        PROVE  UnderWay(req[c].wait)'
    <3>1. /\ req'[c].wait = req[c].wait /\ req[c].wait \in Refs /\ UnderWay(req[c].wait)
      BY <2>1, <2>2, <1>1 DEF ShapeInv, RequestsFit
    <3> QED
      BY <3>1, <1>4 DEF UnderWay
  <2> QED
    BY <2>1, <2>2
<1> QED
  BY <1>3, <1>4, <1>5, <1>6, NobodyAfterwards

LEMMA SignOutKeeps ==
  ASSUME SessionInv, SignOut
  PROVE  SessionInv'
<1>1. req \in [Requests -> Asks] /\ cookie \in Numbers
  BY Typed DEF SessionInv, ShapeInv
<1>2. /\ ExpireSession(tab, req, ref) /\ UNCHANGED <<server, cookie, fault>>
      /\ out' = [st |-> "sent", carry |-> cookie]
  BY DEF SignOut
<1>3. out' \in Logouts /\ out'.carry = cookie /\ out'.st = "sent"
  BY <1>1, <1>2 DEF Logouts
<1> QED
  BY <1>1, <1>2, <1>3, ExpiredKeeps

LEMMA DoneExpiredKeeps ==
  ASSUME SessionInv, NEW c \in Requests, ExpireSession(tab, Done(c), ref),
         UNCHANGED <<out, server, cookie, fault>>
  PROVE  SessionInv'
<1>1. req \in [Requests -> Asks] /\ out \in Logouts /\ CallsFit
  BY Typed DEF SessionInv, ShapeInv
<1>2. /\ Done(c) \in [Requests -> Asks]
      /\ \A d \in Requests : \/ Done(c)[d] = req[d]
                             \/ /\ Done(c)[d].st = "idle" /\ Done(c)[d].row = None
                                /\ Done(c)[d].answer = "none"
  BY <1>1, DoneAsks
<1>3. out' \in Logouts /\ out'.carry = out.carry /\ (out'.st = "idle" => out'.carry = None)
  BY <1>1 DEF CallsFit
<1> QED
  BY <1>1, <1>2, <1>3, ExpiredKeeps DEF CallsFit

\* A form is sent while nobody is signed in.
LEMMA SubmitFormKeeps ==
  ASSUME SessionInv, NEW mfa \in BOOLEAN, SubmitForm(mfa), tab.admin = None, ~tab.loading,
         tab' = [tab EXCEPT !.shared = None] \/ tab' = tab
  PROVE  SessionInv'
<1>1. /\ TypeOK /\ ShapeInv /\ AnswersAreNew /\ tab \in Tabs /\ ref \in [Refs -> Refreshes]
      /\ form \in Forms /\ out \in Logouts /\ req \in [Requests -> Asks]
  BY Typed DEF SessionInv, ShapeInv, RowInv
<1>2. /\ ref' = Outdated(ref) /\ UNCHANGED <<req, out, server, cookie, fault>>
      /\ form' = [IdleForm EXCEPT !.st = "sent", !.current = TRUE, !.mfa = mfa]
  BY DEF SubmitForm
<1>3. /\ tab.access = None /\ tab.shared = None /\ tab.pending = None
      /\ \A c \in Requests : ~req[c].mine
  BY <1>1, NobodySignedIn
<1>4. /\ tab' \in Tabs /\ tab'.admin = None /\ tab'.access = None /\ ~tab'.loading
      /\ tab'.shared = None /\ tab'.pending = None
  BY <1>1, <1>3 DEF Tabs
<1>5. /\ ref' \in [Refs -> Refreshes]
      /\ \A r \in Refs : /\ ~ref'[r].current
                         /\ ref'[r].st = ref[r].st /\ ref'[r].carry = ref[r].carry
                         /\ ref'[r].row = ref[r].row /\ ref'[r].lost = ref[r].lost
                         /\ ref[r].row = None \/ ref[r].row # cookie'
  BY <1>1, <1>2, OutdatedRefreshes DEF AnswersAreNew, Untouched
<1>6. form' \in Forms /\ form'.row = None
  BY <1>2 DEF IdleForm, Forms, Numbers
<1>7. \A c \in Requests : req'[c].st = "waiting" => UnderWay(req[c].wait)'
  BY <1>1, <1>2, <1>5 DEF ShapeInv, RequestsFit, UnderWay
<1>8. out' \in Logouts /\ out'.carry = out.carry /\ (out'.st = "idle" => out'.carry = None)
  BY <1>1, <1>2 DEF ShapeInv, CallsFit
<1> QED
  BY <1>1, <1>2, <1>3, <1>4, <1>5, <1>6, <1>7, <1>8, NobodyAfterwards

LEMMA SignInKeeps ==
  ASSUME SessionInv, SignIn
  PROVE  SessionInv'
BY SubmitFormKeeps DEF SignIn

LEMMA CompleteMFAKeeps ==
  ASSUME SessionInv, CompleteMFA
  PROVE  SessionInv'
BY SubmitFormKeeps DEF CompleteMFA

-----------------------------------------------------------------------------
(* Requests.                                                               *)

\* One request ends, is sent, or is sent again with the token of now.
LEMMA RequestMoves ==
  ASSUME SessionInv, NEW c \in Requests, NEW ask \in Asks, req' = [req EXCEPT ![c] = ask],
         UNCHANGED <<tab, ref, form, out, server, cookie, fault>>,
         ask.answer = "none", ask.st \in {"idle", "sent", "resent"},
         ask.st = "idle" => ask.row = None /\ ~ask.mine,
         ask.st # "idle" => ask.row = tab.access /\ tab.admin # None,
         ~fault /\ ask.st = "resent" => Settles
  PROVE  SessionInv'
<1>1. /\ TypeOK /\ ShapeInv /\ RowsExist /\ AnswersAreNew /\ RefusedForGood
      /\ req \in [Requests -> Asks]
  BY Typed DEF SessionInv, ShapeInv, RowInv
<1>2. /\ req' \in [Requests -> Asks] /\ req'[c] = ask
      /\ \A d \in Requests \ {c} : req'[d] = req[d]
  BY <1>1
<1>3. ask.st # "idle" => tab.access # None /\ ~tab.loading
  BY <1>1 DEF ShapeInv, HeldTogether, AloneAtBoot
<1>4. TypeOK'
  BY <1>1, <1>2, Typed, TypedNext
<1>5. HeldTogether' /\ SharedIsCurrent' /\ CallsFit'
  BY <1>1 DEF ShapeInv, HeldTogether, SharedIsCurrent, CallsFit, UnderWay
<1>6. AloneAtBoot'
  BY <1>1, <1>2, <1>3 DEF ShapeInv, AloneAtBoot, UnderWay
<1>7. RequestsFit'
  BY <1>1, <1>2, <1>3 DEF ShapeInv, RequestsFit, UnderWay
<1>8. RowsExist'
  BY <1>1, <1>2, RowFacts DEF RowsExist, None
<1>9. \A row : Untouched(row) => Untouched(row)'
  BY <1>2 DEF Untouched
<1>10. AnswersAreNew'
  BY <1>1, <1>9 DEF AnswersAreNew
<1>11. RefusedForGood'
  BY <1>1, <1>2 DEF RefusedForGood, Accepts
<1>12. CalmInv'
  <2> SUFFICES ASSUME ~fault' PROVE CalmInv'
    BY DEF CalmInv
  <2>1. FamiliesApart /\ NoCookie /\ AnswerIsGood /\ SecondTry /\ ~fault
    BY DEF SessionInv, CalmInv
  <2>2. FamiliesApart' /\ NoCookie' /\ AnswerIsGood'
    BY <2>1 DEF FamiliesApart, NoCookie, AnswerIsGood, Dead, Family, UnderWay
  <2>3. (Dead' <=> Dead) /\ (Settles' <=> Settles)
    BY DEF Dead, Settles, Accepts
  <2>4. SecondTry'
    BY <2>1, <2>3, <1>2 DEF SecondTry
  <2> QED
    BY <2>2, <2>4 DEF CalmInv
<1> QED
  BY <1>4, <1>5, <1>6, <1>7, <1>8, <1>10, <1>11, <1>12 DEF SessionInv, ShapeInv, RowInv

LEMMA DoneKeeps ==
  ASSUME SessionInv, NEW c \in Requests, req' = Done(c),
         UNCHANGED <<tab, ref, form, out, server, cookie, fault>>
  PROVE  SessionInv'
<1>1. /\ IdleRequest \in Asks /\ IdleRequest.st = "idle" /\ IdleRequest.answer = "none"
      /\ IdleRequest.row = None /\ ~IdleRequest.mine
  BY DEF IdleRequest, Asks, Numbers
<1> QED
  BY <1>1, RequestMoves DEF Done

LEMMA RequestSucceedsKeeps ==
  ASSUME SessionInv, NEW c \in Requests, RequestSucceeds(c)
  PROVE  SessionInv'
BY DoneKeeps, DoneExpiredKeeps DEF RequestSucceeds

LEMMA RequestRefusedKeeps ==
  ASSUME SessionInv, NEW c \in Requests, RequestRefused(c)
  PROVE  SessionInv'
BY DoneKeeps, DoneExpiredKeeps DEF RequestRefused

LEMMA RefusedAgainKeeps ==
  ASSUME SessionInv, NEW c \in Requests, RefusedAgain(c)
  PROVE  SessionInv'
BY DoneExpiredKeeps DEF RefusedAgain

LEMMA SendRequestKeeps ==
  ASSUME SessionInv, NEW c \in Requests, SendRequest(c)
  PROVE  SessionInv'
<1> DEFINE ask == [IdleRequest EXCEPT !.st = "sent", !.mine = TRUE, !.row = tab.access]
<1>1. tab.access \in Numbers
  BY Typed DEF SessionInv, ShapeInv, Tabs
<1>2. /\ ask \in Asks /\ ask.st = "sent" /\ ask.answer = "none" /\ ask.row = tab.access
  BY <1>1 DEF IdleRequest, Asks, Numbers
<1>3. /\ req' = [req EXCEPT ![c] = ask] /\ tab.admin # None
      /\ UNCHANGED <<tab, ref, form, out, server, cookie, fault>>
  BY DEF SendRequest
<1> HIDE DEF ask
<1> QED
  BY <1>2, <1>3, RequestMoves

LEMMA SendAgainKeeps ==
  ASSUME SessionInv, NEW c \in Requests, SendAgain(c)
  PROVE  SessionInv'
<1> DEFINE ask == [req[c] EXCEPT !.st = "resent", !.row = tab.access, !.answer = "none"]
<1>1. tab.access \in Numbers /\ req \in [Requests -> Asks] /\ req[c] \in Asks /\ RequestsFit
  BY Typed DEF SessionInv, ShapeInv, Tabs
<1>2. /\ req[c].st = "answered" /\ req[c].mine /\ tab.access # req[c].row
      /\ req' = [req EXCEPT ![c].st = "resent", ![c].row = tab.access, ![c].answer = "none"]
      /\ UNCHANGED <<tab, ref, form, out, server, cookie, fault>>
  BY DEF SendAgain
<1>3. /\ ask \in Asks /\ ask.st = "resent" /\ ask.answer = "none" /\ ask.row = tab.access
      /\ req' = [req EXCEPT ![c] = ask]
  BY <1>1, <1>2 DEF Asks
<1>4. tab.admin # None
  BY <1>1, <1>2 DEF RequestsFit
<1>5. ~fault => Settles
  BY <1>2 DEF SessionInv, CalmInv, SecondTry
<1> HIDE DEF ask
<1> QED
  BY <1>2, <1>3, <1>4, <1>5, RequestMoves

-----------------------------------------------------------------------------
(* Refreshes.                                                              *)

\* What asking for a refresh does: the call under way, or a new one.
LEMMA RefreshingFits ==
  ASSUME SessionInv, tab.access # None, NEW pending \in BOOLEAN, Refreshing(pending)
  PROVE  \E r \in Refs :
           /\ tab' = [tab EXCEPT !.shared = r, !.pending = IF pending THEN r ELSE @]
           /\ \/ tab.shared = r /\ ref' = ref
              \/ /\ tab.shared = None /\ ref[r].st = "idle"
                 /\ ref' = [ref EXCEPT ![r] = [IdleRefresh EXCEPT !.st = "sent", !.carry = cookie,
                                                                  !.current = TRUE]]
<1>1. tab \in Tabs
  BY Typed DEF SessionInv, ShapeInv
<1>2. CASE tab.shared # None
  <2>1. tab.shared \in Refs /\ ref' = ref
        /\ tab' = [tab EXCEPT !.pending = IF pending THEN tab.shared ELSE @]
    BY <1>1, <1>2 DEF Refreshing, Tabs
  <2>2. tab' = [tab EXCEPT !.shared = tab.shared, !.pending = IF pending THEN tab.shared ELSE @]
    BY <1>1, <2>1 DEF Tabs
  <2> QED
    BY <2>1, <2>2
<1>3. CASE tab.shared = None
  BY <1>3 DEF Refreshing
<1> QED
  BY <1>2, <1>3

\* A refresh is asked for, by a request that waits for it or not.
LEMMA RefreshingKeeps ==
  ASSUME SessionInv, tab.access # None,
         UNCHANGED <<form, out, server, cookie>>, fault' \in BOOLEAN,
         NEW pending \in BOOLEAN,
         Refreshing(pending) \/ (tab.pending # None /\ UNCHANGED <<tab, ref>>),
         req' \in [Requests -> Asks],
         \A c \in Requests :
           \/ req'[c] = req[c]
           \/ /\ req[c].st = "answered" /\ pending
              /\ req'[c].st = "waiting" /\ req'[c].wait = tab'.pending /\ req'[c].answer = "none"
              /\ req'[c].row = req[c].row /\ req'[c].mine = req[c].mine,
         ~fault' => /\ ~fault
                    /\ \A c \in Requests : req[c].mine =>
                         \/ Dead
                         \/ req[c].st = "waiting" \/ req[c].st = "reanswered"
                         \/ req[c].st \in {"sent", "answered"} /\ req[c].row = tab.access
  PROVE  SessionInv'
<1>1. /\ TypeOK /\ ShapeInv /\ RowsExist /\ AnswersAreNew /\ RefusedForGood
      /\ tab \in Tabs /\ ref \in [Refs -> Refreshes] /\ cookie \in Numbers
      /\ \A r \in Refs : ref[r] \in Refreshes
  BY Typed DEF SessionInv, ShapeInv, RowInv
<1> DEFINE fresh == [IdleRefresh EXCEPT !.st = "sent", !.carry = cookie, !.current = TRUE]
<1>2. /\ fresh \in Refreshes /\ fresh.st = "sent" /\ fresh.carry = cookie /\ fresh.row = None
      /\ fresh.current /\ ~fresh.lost
  BY <1>1 DEF IdleRefresh, Refreshes, Numbers
<1>3. PICK r \in Refs :
        /\ tab' \in Tabs /\ tab'.shared = r
        /\ tab'.admin = tab.admin /\ tab'.access = tab.access /\ tab'.loading = tab.loading
        /\ tab'.pending = IF pending THEN r ELSE tab.pending
        /\ \/ tab.shared = r /\ ref' = ref
           \/ tab.shared = None /\ ref[r].st = "idle" /\ ref' = [ref EXCEPT ![r] = fresh]
  <2>1. CASE Refreshing(pending)
    <3>1. PICK r \in Refs :
           /\ tab' = [tab EXCEPT !.shared = r, !.pending = IF pending THEN r ELSE @]
           /\ \/ tab.shared = r /\ ref' = ref
              \/ tab.shared = None /\ ref[r].st = "idle" /\ ref' = [ref EXCEPT ![r] = fresh]
      BY <2>1, RefreshingFits
    <3>2. /\ tab' \in Tabs /\ tab'.shared = r
          /\ tab'.admin = tab.admin /\ tab'.access = tab.access /\ tab'.loading = tab.loading
          /\ tab'.pending = IF pending THEN r ELSE tab.pending
      BY <1>1, <3>1 DEF Tabs
    <3> QED
      BY <3>1, <3>2
  <2>2. CASE tab.pending # None /\ UNCHANGED <<tab, ref>>
    <3>1. tab.shared \in Refs /\ tab.pending = tab.shared
      BY <1>1, <2>2 DEF ShapeInv, SharedIsCurrent, Tabs
    <3> QED
      BY <1>1, <2>2, <3>1
  <2> QED
    BY <2>1, <2>2
<1> HIDE DEF fresh
<1>4. r # None /\ ~tab.loading /\ tab.admin # None
  BY <1>1 DEF ShapeInv, HeldTogether, AloneAtBoot, Refs, None
<1>5. /\ ref' \in [Refs -> Refreshes] /\ ref'[r].st # "idle" /\ ref'[r].current
      /\ \A s \in Refs \ {r} : ref'[s] = ref[s] /\ ~ref[s].current
      /\ \/ ref'[r] = ref[r]
         \/ ref[r].st = "idle" /\ ref'[r] = fresh /\ tab.shared = None
  <2>1. \A s \in Refs : /\ ref[s].current <=> tab.shared = s
                        /\ ref[s].current => ref[s].st # "idle"
    BY <1>1 DEF ShapeInv, SharedIsCurrent, UnderWay
  <2>2. \A s \in Refs : s # None
    BY DEF Refs, None
  <2>3. CASE tab.shared = r /\ ref' = ref
    <3>1. ref[r].current /\ ref[r].st # "idle"
      BY <2>1, <2>3, Zenon
    <3>2. \A s \in Refs \ {r} : ~ref[s].current
      BY <2>1, <2>3, Zenon
    <3> QED
      BY <3>1, <3>2, <2>3, <1>1
  <2>4. CASE tab.shared = None /\ ref[r].st = "idle" /\ ref' = [ref EXCEPT ![r] = fresh]
    <3>1. ref' \in [Refs -> Refreshes] /\ ref'[r] = fresh /\ \A s \in Refs \ {r} : ref'[s] = ref[s]
      BY ONLY <2>4, <1>1, <1>2, r \in Refs
    <3>2. \A s \in Refs \ {r} : ~ref[s].current
      BY <2>1, <2>2, <2>4, Zenon
    <3> QED
      BY <3>1, <3>2, <2>4, <1>2
  <2> QED
    BY <2>3, <2>4, <1>3
<1>6. TypeOK'
  BY <1>1, <1>3, <1>5, Typed, TypedNext
<1>7. HeldTogether' /\ AloneAtBoot'
  BY <1>1, <1>3, <1>4 DEF ShapeInv, HeldTogether, AloneAtBoot
<1>8. SharedIsCurrent'
  BY <1>1, <1>3, <1>4, <1>5 DEF ShapeInv, SharedIsCurrent, UnderWay
<1>9. \A s \in Refs : UnderWay(s) => UnderWay(s)'
  BY <1>5 DEF UnderWay
<1>10. RequestsFit'
  <2> SUFFICES ASSUME NEW c \in Requests
               PROVE  /\ req'[c].st = "idle" <=> req'[c].row = None
                      /\ req'[c].mine => req'[c].st # "idle"
                      /\ req'[c].st = "waiting" => req'[c].wait \in Refs /\ ref'[req'[c].wait].st # "idle"
                      /\ req'[c].answer # "none" => req'[c].st \in {"answered", "reanswered"}
    BY <1>3, <1>4 DEF RequestsFit, UnderWay
  <2>1. CASE req'[c] = req[c]
    BY <2>1, <1>1, <1>9 DEF ShapeInv, RequestsFit, UnderWay
  <2>2. CASE req'[c] # req[c]
    <3>1. /\ req[c].st = "answered" /\ pending
          /\ req'[c].st = "waiting" /\ req'[c].wait = r /\ req'[c].answer = "none"
          /\ req'[c].row = req[c].row /\ req'[c].mine = req[c].mine
      BY <2>2, <1>3
    <3> QED
      BY <3>1, <1>1, <1>5 DEF ShapeInv, RequestsFit, UnderWay
  <2> QED
    BY <2>1, <2>2
<1>11. CallsFit'
  BY ONLY <1>1, <1>2, <1>3, <1>5, UNCHANGED <<form, out>> DEF ShapeInv, CallsFit, UnderWay
<1>12. \A c \in Requests : req'[c].row = req[c].row
  OBVIOUS
<1>13. /\ \A s \in Refs : /\ ref'[s].row = ref[s].row \/ ref'[s].row = None
                          /\ ref'[s].carry = ref[s].carry \/ ref'[s].carry = cookie
       /\ \A s \in Refs : ref'[s].row # None => ref'[s] = ref[s]
  BY ONLY <1>1, <1>2, <1>5
<1>14. RowsExist'
  <2>1. \A s \in Refs : ref'[s].row <= server.used /\ ref'[s].carry <= server.used
    BY <1>1, <1>13, RowFacts DEF RowsExist, None
  <2> QED
    BY <2>1, <1>1, <1>3, <1>12 DEF RowsExist
<1>15. ASSUME NEW row, Untouched(row)
       PROVE  Untouched(row)'
  BY <1>15, <1>3, <1>12, <1>13 DEF Untouched
<1>16. AnswersAreNew'
  <2>1. ASSUME NEW s \in Refs, ref'[s].row # None
        PROVE  /\ Untouched(ref[s].row)' /\ ref'[s] = ref[s] /\ ref[s].row # form.row
               /\ \A t \in Refs \ {s} : ref'[t].row # ref'[s].row
               /\ server.family[ref[s].row] = server.family[ref[s].carry]
    BY <2>1, <1>1, <1>13, <1>15 DEF AnswersAreNew
  <2>2. form.row # None => Untouched(form.row)'
    BY <1>1, <1>15 DEF AnswersAreNew
  <2> QED
    BY <2>1, <2>2, <1>1 DEF AnswersAreNew, Untouched
<1>17. RefusedForGood'
  BY <1>1, <1>3, <1>12 DEF RefusedForGood, Accepts
<1>18. CalmInv'
  <2> SUFFICES ASSUME ~fault' PROVE CalmInv'
    BY DEF CalmInv
  <2>1. FamiliesApart /\ NoCookie /\ AnswerIsGood /\ SecondTry
    BY DEF SessionInv, CalmInv
  <2>2. FamiliesApart'
    <3>1. \A s \in Refs \ {r} : /\ ref'[s].carry = ref[s].carry
                                /\ ref[s].carry # None => Family(ref[s].carry) # Family(tab.access)
                                /\ ref[s].carry # None /\ cookie # None =>
                                     Family(ref[s].carry) # Family(cookie)
      BY <2>1, <1>5 DEF FamiliesApart
    <3>2. ASSUME NEW s \in Refs, NEW t \in Refs, s # t, ref'[s].carry # None, ref'[t].carry # None
          PROVE  Family(ref'[s].carry) # Family(ref'[t].carry)
      <4>1. CASE ref'[r] = ref[r]
        BY <3>1, <3>2, <4>1, <2>1 DEF FamiliesApart
      <4>2. CASE ref'[r] = fresh
        BY ONLY <3>1, <3>2, <4>2, <2>1, <1>2, <1>5 DEF FamiliesApart
      <4> QED
        BY <4>1, <4>2, <1>5
    <3> QED
      BY ONLY <3>1, <3>2, <1>3, <1>5, server' = server, cookie' = cookie DEF FamiliesApart, Family
  <2>3. NoCookie'
    <3> SUFFICES ASSUME NEW s \in Refs
                 PROVE  /\ ref'[s].lost => ref'[s].carry = None
                        /\ ref'[s].st # "idle" /\ ref'[s].current /\ ref'[s].carry = None =>
                             cookie = None \/ Family(cookie) # Family(tab.access)
      BY <1>3, Zenon DEF NoCookie, Family, UnderWay
    <3>1. CASE s = r /\ ref'[r] = fresh
      BY ONLY <3>1, <1>2
    <3>2. CASE ref'[s] = ref[s]
      BY ONLY <3>2, <2>1, s \in Refs, tab.access # None DEF NoCookie, UnderWay
    <3> QED
      BY ONLY <3>1, <3>2, <1>5, s \in Refs
  <2>4. AnswerIsGood'
    BY <2>1, <1>5, <1>13 DEF AnswerIsGood, Dead
  <2>5. SecondTry'
    <3>1. CASE Dead
      BY <3>1 DEF SecondTry, Settles, Dead
    <3>2. CASE ~Dead
      <4>1. ASSUME NEW c \in Requests, req'[c].mine
            PROVE  /\ ~(req'[c].st \in {"sent", "answered"} /\ req'[c].row # tab.access)
                   /\ req'[c].st # "resent"
                   /\ ~(req'[c].st = "reanswered" /\ req'[c].answer = "refused")
        <5>1. req[c].mine
          BY <4>1
        <5>2. \/ req[c].st = "waiting" \/ req[c].st = "reanswered"
              \/ req[c].st \in {"sent", "answered"} /\ req[c].row = tab.access
          BY <5>1, <3>2
        <5>3. ~(req[c].st = "reanswered" /\ req[c].answer = "refused")
          BY <5>1, <3>2, <2>1 DEF SecondTry
        <5> QED
          BY <5>2, <5>3
      <4> QED
        BY <4>1, <1>3 DEF SecondTry
    <3> QED
      BY <3>1, <3>2
  <2> QED
    BY <2>2, <2>3, <2>4, <2>5 DEF CalmInv
<1> QED
  BY <1>6, <1>7, <1>8, <1>10, <1>11, <1>14, <1>16, <1>17, <1>18 DEF SessionInv, ShapeInv, RowInv

LEMMA RefreshDirectlyKeeps ==
  ASSUME SessionInv, RefreshDirectly
  PROVE  SessionInv'
<1>1. /\ tab.access # None /\ Refreshing(FALSE) /\ UNCHANGED <<req, form, out, server, cookie>>
      /\ fault' = (fault \/ \E c \in Requests : \/ req[c].st = "resent"
                                                \/ req[c].row \notin {None, tab.access})
  BY DEF RefreshDirectly, Crosses
<1>2. req \in [Requests -> Asks] /\ fault \in BOOLEAN /\ RequestsFit
  BY Typed DEF SessionInv, ShapeInv
<1>3. ASSUME ~fault', NEW c \in Requests, req[c].mine
      PROVE  /\ ~fault
             /\ \/ req[c].st = "waiting" \/ req[c].st = "reanswered"
                \/ req[c].st \in {"sent", "answered"} /\ req[c].row = tab.access
  BY <1>1, <1>2, <1>3 DEF RequestsFit, Asks
<1>4. ~fault' => ~fault
  BY <1>1
<1>5. fault' \in BOOLEAN
  BY <1>1, <1>2
<1> QED
  BY <1>1, <1>2, <1>3, <1>4, <1>5, RefreshingKeeps

LEMMA RecoverKeeps ==
  ASSUME SessionInv, NEW c \in Requests, Recover(c)
  PROVE  SessionInv'
<1>1. /\ req[c].st = "answered" /\ req[c].answer \in {"refused", "denied"} /\ req[c].mine
      /\ tab.access = req[c].row
      /\ Refreshing(TRUE) \/ (tab.pending # None /\ UNCHANGED <<tab, ref>>)
      /\ req' = [req EXCEPT ![c].st = "waiting", ![c].wait = tab'.pending, ![c].answer = "none"]
      /\ UNCHANGED <<form, out, server, cookie>>
      /\ fault' = (fault \/ (req[c].answer = "denied" /\ Crosses))
  BY DEF Recover, Refused
<1>2. /\ req \in [Requests -> Asks] /\ req[c] \in Asks /\ fault \in BOOLEAN /\ tab \in Tabs
      /\ RequestsFit /\ HeldTogether /\ RefusedForGood
  BY Typed DEF SessionInv, ShapeInv, RowInv
<1>3. tab.access # None /\ (req[c].answer = "refused" => ~Accepts(tab.access))
  BY <1>1, <1>2 DEF RequestsFit, RefusedForGood
<1>4. tab'.pending \in Refs \union {None}
  <2>1. CASE Refreshing(TRUE)
    <3>1. PICK r \in Refs : tab' = [tab EXCEPT !.shared = r, !.pending = r]
      BY <2>1, <1>3, RefreshingFits
    <3> QED
      BY <3>1, <1>2 DEF Tabs
  <2>2. CASE UNCHANGED <<tab, ref>>
    BY <2>2, <1>2 DEF Tabs
  <2> QED
    BY <2>1, <2>2, <1>1
<1> DEFINE ask == [req[c] EXCEPT !.st = "waiting", !.wait = tab'.pending, !.answer = "none"]
<1>5. /\ ask \in Asks /\ ask.st = "waiting" /\ ask.wait = tab'.pending /\ ask.answer = "none"
      /\ ask.row = req[c].row /\ ask.mine = req[c].mine
      /\ req' = [req EXCEPT ![c] = ask]
  BY <1>1, <1>2, <1>4 DEF Asks
<1> HIDE DEF ask
<1>6. /\ req' \in [Requests -> Asks] /\ req'[c] = ask
      /\ \A d \in Requests \ {c} : req'[d] = req[d]
  BY <1>2, <1>5
<1>7. ASSUME ~fault', NEW d \in Requests, req[d].mine
      PROVE  \/ Dead
             \/ req[d].st = "waiting" \/ req[d].st = "reanswered"
             \/ req[d].st \in {"sent", "answered"} /\ req[d].row = tab.access
  <2>1. /\ req[d].st \in {"sent", "answered", "waiting", "resent", "reanswered"}
        /\ req[d].row # None
    BY <1>2, <1>7 DEF RequestsFit, Asks
  <2>2. CASE req[c].answer = "refused"
    <3>1. SecondTry
      BY <1>1, <1>7 DEF SessionInv, CalmInv
    <3>2. Settles => Dead
      BY <1>3, <2>2 DEF Settles
    <3> QED
      BY <2>1, <3>1, <3>2, <1>7 DEF SecondTry
  <2>3. CASE req[c].answer = "denied"
    <3>1. ~Crosses
      BY <1>1, <1>7, <2>3
    <3> QED
      BY <2>1, <3>1 DEF Crosses
  <2> QED
    BY <1>1, <2>2, <2>3
<1>8. \A d \in Requests :
         \/ req'[d] = req[d]
         \/ /\ req[d].st = "answered"
            /\ req'[d].st = "waiting" /\ req'[d].wait = tab'.pending /\ req'[d].answer = "none"
            /\ req'[d].row = req[d].row /\ req'[d].mine = req[d].mine
  BY <1>1, <1>5, <1>6
<1>9. fault' \in BOOLEAN
  BY <1>1, <1>2
<1>10. ~fault' => ~fault
  BY <1>1
<1>11. ~fault' => /\ ~fault
                  /\ \A d \in Requests : req[d].mine =>
                       \/ Dead
                       \/ req[d].st = "waiting" \/ req[d].st = "reanswered"
                       \/ req[d].st \in {"sent", "answered"} /\ req[d].row = tab.access
  BY <1>7, <1>10
<1>12. UNCHANGED <<form, out, server, cookie>>
  BY <1>1
<1>13. Refreshing(TRUE) \/ (tab.pending # None /\ UNCHANGED <<tab, ref>>)
  BY <1>1
<1>14. tab.access # None /\ req' \in [Requests -> Asks]
  BY <1>3, <1>6
<1> QED
  BY ONLY SessionInv, <1>8, <1>9, <1>11, <1>12, <1>13, <1>14, RefreshingKeeps

-----------------------------------------------------------------------------
(* The provider signs in.                                                  *)

\* What the first page of a session does to the requests.
LEMMA FirstRequestFits ==
  ASSUME req \in [Requests -> Asks], NEW row \in Numbers, FirstRequest(row)
  PROVE  /\ req' \in [Requests -> Asks]
         /\ \A c \in Requests :
              /\ ~req'[c].mine
              /\ \/ /\ req'[c].st = req[c].st /\ req'[c].row = req[c].row
                    /\ req'[c].wait = req[c].wait /\ req'[c].answer = req[c].answer
                 \/ req'[c].st = "sent" /\ req'[c].row = row /\ req'[c].answer = "none"
<1> DEFINE rs == Disowned(req)
           first == [IdleRequest EXCEPT !.st = "sent", !.row = row]
<1>1. /\ rs \in [Requests -> Asks]
      /\ \A c \in Requests :
           /\ ~rs[c].mine
           /\ rs[c].st = req[c].st /\ rs[c].row = req[c].row
           /\ rs[c].wait = req[c].wait /\ rs[c].answer = req[c].answer
  BY DisownedAsks
<1>2. /\ first \in Asks /\ ~first.mine /\ first.st = "sent" /\ first.row = row
      /\ first.answer = "none"
  BY DEF IdleRequest, Asks, Numbers
<1>3. req' = rs \/ \E c \in Requests : req' = [rs EXCEPT ![c] = first]
  BY DEF FirstRequest
<1> HIDE DEF rs, first
<1>4. CASE req' = rs
  BY <1>1, <1>4
<1>5. ASSUME NEW d \in Requests, req' = [rs EXCEPT ![d] = first]
      PROVE  /\ req' \in [Requests -> Asks] /\ req'[d] = first
             /\ \A c \in Requests \ {d} : req'[c] = rs[c]
  BY <1>1, <1>2, <1>5
<1> QED
  BY <1>1, <1>2, <1>3, <1>4, <1>5

\* A session begins with a row that nobody else knows; calls of an earlier one
\* may still be under way.
LEMMA SessionBegins ==
  ASSUME SessionInv, UNCHANGED <<server, out, fault>>,
         NEW row \in 1..server.used, Untouched(row), cookie' = row,
         tab' \in Tabs, tab'.admin = server.family[row], tab'.access = row, ~tab'.loading,
         tab'.shared = None, tab'.pending = None,
         FirstRequest(row),
         \A c \in Requests : req[c].st = "waiting" => ref'[req[c].wait].st # "idle",
         ref' \in [Refs -> Refreshes],
         \A r \in Refs :
           /\ ~ref'[r].current
           /\ \/ ref'[r].st = "idle" /\ ref'[r].carry = None /\ ref'[r].row = None /\ ~ref'[r].lost
              \/ /\ ref'[r].st = ref[r].st /\ ref'[r].carry = ref[r].carry
                 /\ ref'[r].row = ref[r].row /\ ref'[r].lost = ref[r].lost
                 /\ ref[r].row # row
                 /\ ref[r].carry # None => Family(ref[r].carry) # Family(row),
         form' \in Forms, form'.st = "idle", form'.row = None
  PROVE  SessionInv'
<1>1. /\ TypeOK /\ ShapeInv /\ RowsExist /\ AnswersAreNew /\ RefusedForGood
      /\ req \in [Requests -> Asks] /\ server.family[row] \in Rows /\ row \in Rows
      /\ row \in Nat /\ row # None /\ None \notin Rows
  BY RowFacts, Typed DEF SessionInv, ShapeInv, RowInv
<1>2. /\ req' \in [Requests -> Asks]
      /\ \A c \in Requests :
           /\ ~req'[c].mine
           /\ \/ /\ req'[c].st = req[c].st /\ req'[c].row = req[c].row
                 /\ req'[c].wait = req[c].wait /\ req'[c].answer = req[c].answer
              \/ req'[c].st = "sent" /\ req'[c].row = row /\ req'[c].answer = "none"
  BY <1>1, FirstRequestFits DEF Numbers
<1>3. TypeOK'
  BY <1>1, <1>2, Typed, TypedNext DEF Numbers
<1>4. HeldTogether' /\ SharedIsCurrent' /\ AloneAtBoot'
  BY <1>1 DEF HeldTogether, SharedIsCurrent, AloneAtBoot, Refs, None
<1>5. RequestsFit'
  <2> SUFFICES ASSUME NEW c \in Requests
               PROVE  /\ req'[c].st = "idle" <=> req'[c].row = None
                      /\ req'[c].st = "waiting" => /\ req'[c].wait \in Refs
                                                   /\ ref'[req[c].wait].st # "idle"
                                                   /\ req'[c].wait = req[c].wait
                      /\ req'[c].answer # "none" => req'[c].st \in {"answered", "reanswered"}
    BY <1>2 DEF RequestsFit, UnderWay
  <2> QED
    BY <1>1, <1>2 DEF ShapeInv, RequestsFit
<1>6. CallsFit'
  <2>1. ASSUME NEW r \in Refs
        PROVE  /\ ref'[r].st = "idle" => ref'[r].carry = None
               /\ ref'[r].row # None => /\ ref'[r].st = "answered"
                                        /\ ref'[r].carry # None /\ ~ref'[r].lost
    BY <1>1 DEF ShapeInv, CallsFit, UnderWay
  <2>2. out.st = "idle" => out.carry = None
    BY <1>1 DEF ShapeInv, CallsFit
  <2> QED
    BY <2>1, <2>2 DEF CallsFit, UnderWay
<1>7. RowsExist'
  <2>1. {tab'.access, cookie', out'.carry, form'.row} \subseteq 0..server.used
    BY <1>1, RowFacts DEF RowsExist, None
  <2>2. /\ \A c \in Requests : req'[c].row <= server.used
        /\ \A r \in Refs : ref'[r].carry <= server.used /\ ref'[r].row <= server.used
    BY <1>1, <1>2, RowFacts DEF RowsExist, None
  <2> QED
    BY <1>1, <2>1, <2>2 DEF RowsExist
<1>8. ASSUME NEW x, Untouched(x), x # row
      PROVE  Untouched(x)'
  <2>1. x \notin {None, tab'.access, cookie', out'.carry} /\ x \notin server'.stale
    BY <1>8 DEF Untouched
  <2>2. /\ \A c \in Requests : req'[c].row # x
        /\ \A r \in Refs : ref'[r].carry # x
    BY <1>8, <1>2 DEF Untouched
  <2> QED
    BY <2>1, <2>2 DEF Untouched
<1>9. AnswersAreNew'
  <2>1. ASSUME NEW r \in Refs, ref'[r].row # None
        PROVE  /\ Untouched(ref[r].row)' /\ ref'[r].row = ref[r].row
               /\ \A s \in Refs \ {r} : ref'[s].row # ref'[r].row
               /\ server.family[ref'[r].row] = server.family[ref'[r].carry]
    <3>1. ref'[r].row = ref[r].row /\ ref'[r].carry = ref[r].carry /\ ref[r].row # row
      BY <2>1
    <3>2. Untouched(ref[r].row) /\ Untouched(ref[r].row)'
      BY <3>1, <2>1, <1>1, <1>8 DEF AnswersAreNew
    <3>3. \A s \in Refs : ref'[s].row \in {None, ref[s].row}
      OBVIOUS
    <3> QED
      BY <3>1, <3>2, <3>3, <2>1, <1>1 DEF AnswersAreNew
  <2> QED
    BY <2>1 DEF AnswersAreNew
<1>10. RefusedForGood'
  <2>1. row # out.carry
    BY DEF Untouched
  <2> QED
    BY <2>1, <1>1, <1>2 DEF RefusedForGood, Accepts
<1>11. CalmInv'
  <2> SUFFICES ASSUME ~fault' PROVE CalmInv'
    BY DEF CalmInv
  <2>1. FamiliesApart /\ NoCookie
    BY DEF SessionInv, CalmInv
  <2>2. \A r \in Refs : /\ ref'[r].carry \in {None, ref[r].carry}
                        /\ ref'[r].carry # None => Family(ref'[r].carry) # Family(row)
    OBVIOUS
  <2>3. FamiliesApart'
    BY ONLY <2>1, <2>2, tab'.access = row, cookie' = row, server' = server
       DEF FamiliesApart, Family
  <2>4. NoCookie'
    BY <2>1 DEF NoCookie
  <2>5. AnswerIsGood' /\ SecondTry'
    BY <1>2 DEF AnswerIsGood, SecondTry
  <2> QED
    BY <2>3, <2>4, <2>5 DEF CalmInv
<1> QED
  BY <1>3, <1>4, <1>5, <1>6, <1>7, <1>9, <1>10, <1>11 DEF SessionInv, ShapeInv, RowInv

LEMMA SignedInTab ==
  ASSUME server \in Servers, NEW t \in Tabs, NEW row \in Rows
  PROVE  LET s == SignedIn(t, row)
         IN /\ s \in Tabs /\ s.admin = server.family[row] /\ s.access = row /\ s.pending = None
            /\ s.loading = t.loading /\ s.shared = t.shared /\ s.challenge = t.challenge
<1>1. server.family[row] \in Rows
  BY DEF Servers
<1> QED
  BY <1>1 DEF SignedIn, Tabs, Numbers

\* The answer to a form: a session begins, or nobody is signed in still.
LEMMA FormReturnsKeeps ==
  ASSUME SessionInv, FormReturns
  PROVE  SessionInv'
<1>1. /\ TypeOK /\ ShapeInv /\ RowsExist /\ AnswersAreNew
      /\ server \in Servers /\ form \in Forms /\ tab \in Tabs /\ req \in [Requests -> Asks]
      /\ ref \in [Refs -> Refreshes] /\ out \in Logouts
  BY Typed DEF SessionInv, ShapeInv, RowInv
<1>2. /\ form.st = "answered" /\ form' = IdleForm
      /\ cookie' = IF form.row = None THEN cookie ELSE form.row
      /\ UNCHANGED <<ref, out, server, fault>>
  BY DEF FormReturns
<1>3. /\ tab.admin = None /\ ~tab.loading /\ tab.access = None /\ tab.shared = None
      /\ tab.pending = None
      /\ \A r \in Refs : ~ref[r].current
      /\ \A c \in Requests : ~req[c].mine
  BY <1>1, <1>2, NobodySignedIn DEF ShapeInv, CallsFit
<1>4. form' \in Forms /\ form'.st = "idle" /\ form'.row = None
  BY <1>2 DEF IdleForm, Forms, Numbers
<1>5. \A r \in Refs : ref[r].row = None \/ ref[r].row # cookie'
  BY <1>1, <1>2 DEF AnswersAreNew, Untouched
<1>6. \A c \in Requests : req[c].st = "waiting" => ref'[req[c].wait].st # "idle"
  BY <1>1, <1>2 DEF ShapeInv, RequestsFit, UnderWay
<1>7. CASE ~form.current \/ form.row = None
  <2>1. /\ req' = req
        /\ tab' \in Tabs /\ tab'.admin = None /\ tab'.access = None /\ ~tab'.loading
        /\ tab'.shared = None /\ tab'.pending = None
    <3>1. CASE ~form.current
      BY <3>1, <1>1, <1>3 DEF FormReturns
    <3>2. CASE form.current
      <4>1. tab' = [tab EXCEPT !.challenge = @ \/ form.challenge] /\ UNCHANGED req
        BY <3>2, <1>7 DEF FormReturns
      <4>2. (tab.challenge \/ form.challenge) \in BOOLEAN
        OBVIOUS
      <4> QED
        BY <4>1, <4>2, <1>1, <1>3 DEF Tabs
    <3> QED
      BY <3>1, <3>2
  <2>2. out' \in Logouts /\ out'.carry = out.carry /\ (out'.st = "idle" => out'.carry = None)
    BY <1>1, <1>2 DEF ShapeInv, CallsFit
  <2>3. \A c \in Requests : req'[c].st = "waiting" => UnderWay(req[c].wait)'
    BY <2>1, <1>6 DEF UnderWay
  <2>4. cookie' \in {None, cookie, form.row} \union {ref[r].row : r \in Refs}
    BY <1>2
  <2> QED
    BY <2>1, <2>2, <2>3, <2>4, <1>1, <1>2, <1>3, <1>4, <1>5, NobodyAfterwards
<1>8. CASE form.current /\ form.row # None
  <2>1. form.row \in 1..server.used /\ Untouched(form.row) /\ cookie' = form.row
        /\ form.row \in Rows
    BY <1>1, <1>2, <1>8, RowFacts DEF RowsExist, AnswersAreNew, None
  <2>2. FirstRequest(form.row)
    BY <1>8 DEF FormReturns
  <2>3. /\ tab' \in Tabs /\ tab'.admin = server.family[form.row] /\ tab'.access = form.row
        /\ ~tab'.loading /\ tab'.shared = None /\ tab'.pending = None
    <3>1. tab' = [SignedIn(tab, form.row) EXCEPT !.challenge = @ /\ ~form.mfa]
      BY <1>8 DEF FormReturns
    <3>2. /\ SignedIn(tab, form.row) \in Tabs
          /\ SignedIn(tab, form.row).admin = server.family[form.row]
          /\ SignedIn(tab, form.row).access = form.row /\ SignedIn(tab, form.row).pending = None
          /\ SignedIn(tab, form.row).loading = tab.loading
          /\ SignedIn(tab, form.row).shared = tab.shared
      BY <1>1, <2>1, SignedInTab
    <3> HIDE DEF SignedIn
    <3>3. (SignedIn(tab, form.row).challenge /\ ~form.mfa) \in BOOLEAN
      OBVIOUS
    <3> QED
      BY <3>1, <3>2, <3>3, <1>3 DEF Tabs
  <2>4. ASSUME NEW r \in Refs
        PROVE  /\ ~ref[r].current /\ ref[r].row # form.row
               /\ ref[r].carry # None => Family(ref[r].carry) # Family(form.row)
    <3>1. ref[r].row # form.row /\ ref[r].carry # form.row
      BY <1>1, <1>8, <2>1 DEF AnswersAreNew, Untouched
    <3>2. ref[r].carry # None => ref[r].carry \in 1..server.used
      BY <1>1, RowFacts DEF RowsExist, None
    <3> QED
      BY <3>1, <3>2, <1>1, <1>3, <1>8 DEF AnswersAreNew, Family
  <2> QED
    BY <2>1, <2>2, <2>3, <2>4, <1>1, <1>2, <1>4, <1>6, SessionBegins
<1> QED
  BY <1>7, <1>8

-----------------------------------------------------------------------------
(* The answer of a refresh.                                                *)

\* What becomes of the requests that waited for a refresh.
LEMMA SettledAsks ==
  ASSUME req \in [Requests -> Asks], NEW r \in Refs, NEW row \in Numbers
  PROVE  /\ Settled(r, row) \in [Requests -> Asks]
         /\ \A c \in Requests :
              \/ /\ Settled(r, row)[c] = req[c]
                 /\ ~(req[c].st = "waiting" /\ req[c].wait = r)
              \/ /\ req[c].st = "waiting" /\ req[c].wait = r /\ req[c].mine /\ row # None
                 /\ Settled(r, row)[c].st = "resent" /\ Settled(r, row)[c].row = row
                 /\ Settled(r, row)[c].mine /\ Settled(r, row)[c].answer = req[c].answer
              \/ /\ req[c].st = "waiting" /\ req[c].wait = r
                 /\ Settled(r, row)[c] = IdleRequest
<1>1. IdleRequest \in Asks
  BY DEF IdleRequest, Asks, Numbers
<1>2. ASSUME NEW c \in Requests
      PROVE  LET again == [req[c] EXCEPT !.st = "resent", !.row = row, !.wait = None]
             IN /\ again \in Asks /\ again.st = "resent" /\ again.row = row
                /\ again.mine = req[c].mine /\ again.answer = req[c].answer
  BY DEF Asks
<1>3. ASSUME NEW c \in Requests
      PROVE  Settled(r, row)[c] = IF req[c].st # "waiting" \/ req[c].wait # r THEN req[c]
                                  ELSE IF req[c].mine /\ row # None
                                  THEN [req[c] EXCEPT !.st = "resent", !.row = row, !.wait = None]
                                  ELSE IdleRequest
  BY DEF Settled
<1>4. ASSUME NEW c \in Requests
      PROVE  Settled(r, row)[c] \in Asks
  <2>1. req[c] \in Asks
    OBVIOUS
  <2> QED
    BY <2>1, <1>1, <1>2, <1>3
<1>5. Settled(r, row) \in [Requests -> Asks]
  <2>1. \E f : Settled(r, row) = [c \in Requests |-> f[c]]
    <3>1. Settled(r, row) = [c \in Requests |-> Settled(r, row)[c]]
      BY DEF Settled
    <3> QED
      BY <3>1
  <2> QED
    BY <2>1, <1>4
<1> QED
  BY <1>2, <1>3, <1>5

\* The refresh that has answered is gone, the others stay as they were.
LEMMA FreedRefreshes ==
  ASSUME ref \in [Refs -> Refreshes], NEW r \in Refs
  PROVE  LET free == [ref EXCEPT ![r] = IdleRefresh]
         IN /\ free \in [Refs -> Refreshes]
            /\ free[r].st = "idle" /\ free[r].carry = None /\ free[r].row = None
            /\ ~free[r].current /\ ~free[r].lost
            /\ \A s \in Refs \ {r} : free[s] = ref[s]
<1>1. /\ IdleRefresh \in Refreshes /\ IdleRefresh.st = "idle" /\ IdleRefresh.carry = None
      /\ IdleRefresh.row = None /\ ~IdleRefresh.current /\ ~IdleRefresh.lost
  BY DEF IdleRefresh, Refreshes, Numbers
<1> QED
  BY <1>1

\* At boot: nobody is signed in, or a session begins.
LEMMA BootReturnsKeeps ==
  ASSUME SessionInv, NEW r \in Refs, RefreshReturns(r), tab.loading
  PROVE  SessionInv'
<1>1. /\ TypeOK /\ ShapeInv /\ RowsExist /\ AnswersAreNew
      /\ server \in Servers /\ form \in Forms /\ tab \in Tabs /\ req \in [Requests -> Asks]
      /\ ref \in [Refs -> Refreshes] /\ out \in Logouts
  BY Typed DEF SessionInv, ShapeInv, RowInv
<1>2. /\ ref[r].st = "answered" /\ cookie' = IF ref[r].lost THEN cookie ELSE ref[r].row
      /\ UNCHANGED <<form, out, server, fault>>
  BY DEF RefreshReturns
<1>3. /\ tab.admin = None /\ tab.access = None /\ tab.pending = None
      /\ form.st = "idle" /\ form.row = None
      /\ \A c \in Requests : req[c].st = "idle" /\ ~req[c].mine
      /\ \A s \in Refs : ref[s].st # "idle" => s = r
  BY <1>1, <1>2 DEF ShapeInv, HeldTogether, AloneAtBoot, RequestsFit, CallsFit, UnderWay
<1>4. tab.shared = r /\ ref[r].current
  BY <1>1, <1>2 DEF ShapeInv, AloneAtBoot, SharedIsCurrent, UnderWay
<1> DEFINE t == [tab EXCEPT !.shared = IF @ = r THEN None ELSE @]
           free == [ref EXCEPT ![r] = IdleRefresh]
<1>5. /\ t \in Tabs /\ t.admin = None /\ t.access = None /\ t.pending = None /\ t.shared = None
      /\ t.loading
  BY <1>1, <1>3, <1>4 DEF Tabs
<1>6. /\ ref' = free
      /\ \/ /\ ref[r].row = None
            /\ tab' = [t EXCEPT !.loading = FALSE] /\ UNCHANGED req
         \/ /\ ref[r].row # None
            /\ tab' = [SignedIn(t, ref[r].row) EXCEPT !.loading = FALSE]
            /\ FirstRequest(ref[r].row)
  BY <1>4 DEF RefreshReturns
<1>7. /\ free \in [Refs -> Refreshes]
      /\ free[r].st = "idle" /\ free[r].carry = None /\ free[r].row = None
      /\ ~free[r].current /\ ~free[r].lost
      /\ \A s \in Refs \ {r} : free[s] = ref[s]
  BY <1>1, FreedRefreshes
<1>8. \A s \in Refs \ {r} : ref[s].st = "idle" /\ ref[s].row = None /\ ref[s].carry = None
                            /\ ~ref[s].current
  BY <1>1, <1>3 DEF ShapeInv, SharedIsCurrent, CallsFit, UnderWay
<1> HIDE DEF t, free
<1>9. CASE ref[r].row = None
  <2>1. /\ tab' \in Tabs /\ tab'.admin = None /\ tab'.access = None /\ ~tab'.loading
        /\ tab'.shared = None /\ tab'.pending = None /\ req' = req
    BY <1>5, <1>6, <1>9 DEF Tabs
  <2>2. out' \in Logouts /\ out'.carry = out.carry /\ (out'.st = "idle" => out'.carry = None)
    BY <1>1, <1>2 DEF ShapeInv, CallsFit
  <2>3. cookie' \in {None, cookie, form.row} \union {ref[s].row : s \in Refs}
    BY <1>2
  <2>4. /\ ref' \in [Refs -> Refreshes]
        /\ \A s \in Refs :
             /\ ~ref'[s].current
             /\ \/ ref'[s].st = "idle" /\ ref'[s].carry = None /\ ref'[s].row = None /\ ~ref'[s].lost
                \/ /\ ref'[s].st = ref[s].st /\ ref'[s].carry = ref[s].carry
                   /\ ref'[s].row = ref[s].row /\ ref'[s].lost = ref[s].lost
                   /\ ref[s].row = None
    BY <1>6, <1>7, <1>8
  <2>5. form' \in Forms /\ form'.row = None
    BY <1>1, <1>2, <1>3
  <2> QED
    BY ONLY SessionInv, <1>2, <2>1, <2>2, <2>3, <2>4, <2>5, <1>1, <1>3,
       NobodyAfterwards
<1>10. CASE ref[r].row # None
  <2> DEFINE row == ref[r].row
  <2>1. row \in 1..server.used /\ Untouched(row) /\ cookie' = row /\ row \in Rows
    BY <1>1, <1>2, <1>10, RowFacts DEF RowsExist, AnswersAreNew, ShapeInv, CallsFit, None
  <2>2. FirstRequest(row)
    BY <1>6, <1>10
  <2>3. /\ tab' \in Tabs /\ tab'.admin = server.family[row] /\ tab'.access = row
        /\ ~tab'.loading /\ tab'.shared = None /\ tab'.pending = None
    <3>1. tab' = [SignedIn(t, row) EXCEPT !.loading = FALSE]
      BY <1>6, <1>10
    <3>2. /\ SignedIn(t, row) \in Tabs /\ SignedIn(t, row).admin = server.family[row]
          /\ SignedIn(t, row).access = row /\ SignedIn(t, row).pending = None
          /\ SignedIn(t, row).shared = t.shared
      BY <1>1, <1>5, <2>1, SignedInTab
    <3> HIDE DEF SignedIn, row
    <3> QED
      BY <3>1, <3>2, <1>5 DEF Tabs
  <2> HIDE DEF row
  <2>4. /\ ref' \in [Refs -> Refreshes]
        /\ \A s \in Refs :
             /\ ~ref'[s].current
             /\ \/ ref'[s].st = "idle" /\ ref'[s].carry = None /\ ref'[s].row = None /\ ~ref'[s].lost
                \/ /\ ref'[s].st = ref[s].st /\ ref'[s].carry = ref[s].carry
                   /\ ref'[s].row = ref[s].row /\ ref'[s].lost = ref[s].lost
                   /\ ref[s].row # row
                   /\ ref[s].carry # None => Family(ref[s].carry) # Family(row)
    <3>1. row # None
      BY <1>10 DEF row
    <3> QED
      BY <3>1, <1>6, <1>7, <1>8
  <2>5. form' \in Forms /\ form'.st = "idle" /\ form'.row = None
    BY <1>1, <1>2, <1>3
  <2>6. \A c \in Requests : req[c].st # "waiting"
    BY <1>3
  <2> QED
    BY ONLY SessionInv, <1>2, <2>1, <2>2, <2>3, <2>4, <2>5, <2>6,
       SessionBegins
<1> QED
  BY <1>9, <1>10

\* A recovery that brought no token: the session is given up.
LEMMA GivenUpKeeps ==
  ASSUME SessionInv, NEW r \in Refs, RefreshReturns(r), ~tab.loading, tab.pending = r,
         ~ref[r].current \/ ref[r].row = None
  PROVE  SessionInv'
<1>1. /\ TypeOK /\ ShapeInv /\ RowsExist /\ AnswersAreNew
      /\ server \in Servers /\ form \in Forms /\ tab \in Tabs /\ req \in [Requests -> Asks]
      /\ ref \in [Refs -> Refreshes] /\ out \in Logouts /\ r # None
  BY Typed DEF SessionInv, ShapeInv, RowInv, Refs, None
<1>2. /\ ref[r].st = "answered" /\ cookie' = IF ref[r].lost THEN cookie ELSE ref[r].row
      /\ UNCHANGED <<out, server, fault>>
  BY DEF RefreshReturns
<1>3. tab.shared = r /\ ref[r].row = None /\ tab.admin # None
  BY <1>1 DEF ShapeInv, SharedIsCurrent
<1> DEFINE t == [tab EXCEPT !.shared = IF @ = r THEN None ELSE @]
           free == [ref EXCEPT ![r] = IdleRefresh]
<1>4. ExpireSession(t, Settled(r, None), free)
  BY <1>3 DEF RefreshReturns
<1>5. /\ tab' \in Tabs /\ tab'.admin = None /\ tab'.access = None /\ ~tab'.loading
      /\ tab'.shared = None /\ tab'.pending = None
  <2>1. t \in Tabs /\ tab' = Ended(t)
    BY <1>1, <1>4 DEF Tabs, ExpireSession
  <2> HIDE DEF t
  <2> QED
    BY <2>1, EndedTab
<1>6. /\ free \in [Refs -> Refreshes]
      /\ free[r].st = "idle" /\ free[r].carry = None /\ free[r].row = None /\ ~free[r].lost
      /\ \A s \in Refs \ {r} : free[s] = ref[s]
  BY <1>1, FreedRefreshes
<1>7. ref' = Outdated(free)
  BY <1>4 DEF ExpireSession
<1> HIDE DEF free
<1>8. /\ ref' \in [Refs -> Refreshes]
      /\ \A s \in Refs : /\ ~ref'[s].current
                         /\ ref'[s].st = free[s].st /\ ref'[s].carry = free[s].carry
                         /\ ref'[s].row = free[s].row /\ ref'[s].lost = free[s].lost
  BY <1>6, <1>7, OutdatedRefreshes
<1>9. /\ cookie' \in {None, cookie}
      /\ \A s \in Refs : ref[s].row = None \/ ref[s].row # cookie'
  BY <1>1, <1>2, <1>3 DEF AnswersAreNew, Untouched
<1>10. form' \in Forms /\ form'.row = None
  <2>1. form' = [form EXCEPT !.current = FALSE]
    BY <1>4 DEF ExpireSession
  <2>2. form.row = None
    BY <1>1, <1>3 DEF ShapeInv, CallsFit
  <2> QED
    BY <2>1, <2>2, <1>1, OutdatedForm
<1>11. /\ req' \in [Requests -> Asks]
       /\ \A c \in Requests :
            /\ ~req'[c].mine
            /\ req'[c].st = "waiting" => ref'[req'[c].wait].st # "idle"
            /\ \/ req'[c].st = "idle" /\ req'[c].row = None /\ req'[c].answer = "none"
               \/ /\ req'[c].st = req[c].st /\ req'[c].row = req[c].row
                  /\ req'[c].wait = req[c].wait /\ req'[c].answer = req[c].answer
  <2>1. /\ Settled(r, None) \in [Requests -> Asks]
        /\ \A c \in Requests :
             \/ /\ Settled(r, None)[c] = req[c]
                /\ ~(req[c].st = "waiting" /\ req[c].wait = r)
             \/ Settled(r, None)[c] = IdleRequest
    BY <1>1, SettledAsks DEF Numbers
  <2>2. IdleRequest.st = "idle" /\ IdleRequest.row = None /\ IdleRequest.answer = "none"
    BY DEF IdleRequest
  <2>3. req' = Disowned(Settled(r, None))
    BY <1>4 DEF ExpireSession
  <2> HIDE DEF Settled
  <2>4. /\ req' \in [Requests -> Asks]
        /\ \A c \in Requests :
             /\ ~req'[c].mine
             /\ req'[c].st = Settled(r, None)[c].st /\ req'[c].row = Settled(r, None)[c].row
             /\ req'[c].wait = Settled(r, None)[c].wait
             /\ req'[c].answer = Settled(r, None)[c].answer
    BY <2>1, <2>3, DisownedAsks
  <2>5. ASSUME NEW c \in Requests, req'[c].st = "waiting"
        PROVE  ref'[req'[c].wait].st # "idle"
    <3>1. req[c].st = "waiting" /\ req[c].wait # r /\ req'[c].wait = req[c].wait
      BY <2>1, <2>2, <2>4, <2>5
    <3>2. req[c].wait \in Refs /\ ref[req[c].wait].st # "idle"
      BY <3>1, <1>1 DEF ShapeInv, RequestsFit, UnderWay
    <3> QED
      BY <3>1, <3>2, <1>6, <1>8
  <2> QED
    BY <2>1, <2>2, <2>4, <2>5
<1>12. \A c \in Requests : req'[c].st = "waiting" => UnderWay(req[c].wait)'
  BY <1>11 DEF UnderWay
<1>13. \A s \in Refs :
         /\ ~ref'[s].current
         /\ \/ ref'[s].st = "idle" /\ ref'[s].carry = None /\ ref'[s].row = None /\ ~ref'[s].lost
            \/ /\ ref'[s].st = ref[s].st /\ ref'[s].carry = ref[s].carry
               /\ ref'[s].row = ref[s].row /\ ref'[s].lost = ref[s].lost
               /\ ref[s].row = None \/ ref[s].row # cookie'
  BY <1>6, <1>8, <1>9
<1>14. out' \in Logouts /\ out'.carry = out.carry /\ (out'.st = "idle" => out'.carry = None)
  BY <1>1, <1>2 DEF ShapeInv, CallsFit
<1> QED
  BY ONLY SessionInv, <1>2, <1>5, <1>8, <1>9, <1>10, <1>11, <1>12, <1>13,
     <1>14, NobodyAfterwards

\* The session goes on: with the new row the refresh brought, or, when its
\* answer is of an earlier session or brought none, with the token it had.
LEMMA SettledTab ==
  ASSUME SessionInv, NEW r \in Refs, RefreshReturns(r), ~tab.loading,
         (ref[r].current /\ ref[r].row # None) \/ tab.pending # r
  PROVE  LET row == IF ref[r].current THEN ref[r].row ELSE None
         IN /\ row \in Numbers /\ req' = Settled(r, row)
            /\ tab' \in Tabs /\ tab'.admin = tab.admin /\ ~tab'.loading
            /\ tab'.access = IF row = None THEN tab.access ELSE row
            /\ tab'.shared = IF tab.shared = r THEN None ELSE tab.shared
            /\ tab'.pending = IF tab.pending = r THEN None ELSE tab.pending
            /\ ref' \in [Refs -> Refreshes]
            /\ ref'[r].st = "idle" /\ ref'[r].carry = None /\ ref'[r].row = None
            /\ ~ref'[r].current /\ ~ref'[r].lost
            /\ \A s \in Refs \ {r} : ref'[s] = ref[s]
            /\ UNCHANGED <<form, out, server, fault>>
            /\ cookie' = IF ref[r].lost THEN cookie ELSE ref[r].row
<1> DEFINE row == IF ref[r].current THEN ref[r].row ELSE None
<1>1. /\ tab \in Tabs /\ ref \in [Refs -> Refreshes] /\ row \in Numbers
  BY Typed DEF SessionInv, ShapeInv, Refreshes, Numbers
<1> DEFINE t == [tab EXCEPT !.shared = IF @ = r THEN None ELSE @]
<1>2. /\ tab' = [t EXCEPT !.access  = IF row = None THEN @ ELSE row,
                          !.pending = IF @ = r THEN None ELSE @]
      /\ req' = Settled(r, row) /\ ref' = [ref EXCEPT ![r] = IdleRefresh]
  BY DEF RefreshReturns
<1>3. /\ UNCHANGED <<form, out, server, fault>>
      /\ cookie' = IF ref[r].lost THEN cookie ELSE ref[r].row
  BY DEF RefreshReturns
<1> HIDE DEF row
<1>4. /\ tab' \in Tabs /\ tab'.admin = tab.admin /\ ~tab'.loading
      /\ tab'.access = IF row = None THEN tab.access ELSE row
      /\ tab'.shared = IF tab.shared = r THEN None ELSE tab.shared
      /\ tab'.pending = IF tab.pending = r THEN None ELSE tab.pending
  BY <1>1, <1>2 DEF Tabs
<1>5. /\ ref' \in [Refs -> Refreshes]
      /\ ref'[r].st = "idle" /\ ref'[r].carry = None /\ ref'[r].row = None
      /\ ~ref'[r].current /\ ~ref'[r].lost
      /\ \A s \in Refs \ {r} : ref'[s] = ref[s]
  BY <1>1, <1>2, FreedRefreshes
<1> QED
  BY ONLY <1>1, <1>2, <1>3, <1>4, <1>5 DEF row

\* The parts that both answers share.
LEMMA SettledShape ==
  ASSUME SessionInv, NEW r \in Refs, ref[r].st = "answered", ~tab.loading, NEW row \in Numbers,
         row \in {None, ref[r].row}, row # None => ref[r].current,
         req' = Settled(r, row),
         tab' \in Tabs, tab'.admin = tab.admin, ~tab'.loading,
         tab'.access = IF row = None THEN tab.access ELSE row,
         tab'.shared = IF tab.shared = r THEN None ELSE tab.shared,
         tab'.pending = IF tab.pending = r THEN None ELSE tab.pending,
         ref' \in [Refs -> Refreshes],
         ref'[r].st = "idle", ref'[r].carry = None, ref'[r].row = None,
         ~ref'[r].current, ~ref'[r].lost,
         \A s \in Refs \ {r} : ref'[s] = ref[s],
         UNCHANGED <<form, out, server, fault>>,
         cookie' \in {None, cookie, ref[r].row}
  PROVE  ShapeInv' /\ RowInv'
<1>1. /\ TypeOK /\ ShapeInv /\ RowsExist /\ AnswersAreNew /\ RefusedForGood
      /\ req \in [Requests -> Asks] /\ r # None
  BY Typed DEF SessionInv, ShapeInv, RowInv, Refs, None
<1>2. /\ req' \in [Requests -> Asks]
      /\ \A c \in Requests :
           \/ /\ req'[c] = req[c] /\ ~(req[c].st = "waiting" /\ req[c].wait = r)
           \/ /\ req[c].st = "waiting" /\ req[c].wait = r /\ req[c].mine /\ row # None
              /\ req'[c].st = "resent" /\ req'[c].row = row
              /\ req'[c].mine /\ req'[c].answer = req[c].answer
           \/ /\ req[c].st = "waiting" /\ req[c].wait = r /\ req'[c] = IdleRequest
  BY <1>1, SettledAsks
<1>3. /\ IdleRequest.st = "idle" /\ IdleRequest.row = None /\ IdleRequest.answer = "none"
      /\ ~IdleRequest.mine
  BY DEF IdleRequest
<1>4. \A c \in Requests : req[c].st = "waiting" => req[c].answer = "none"
  BY <1>1 DEF ShapeInv, RequestsFit
<1>5. TypeOK'
  <2>1. cookie' \in Numbers
    BY <1>1, Typed DEF Refreshes, Numbers
  <2> QED
    BY <1>1, <1>2, <2>1, Typed, TypedNext
<1>6. row # None => tab.shared = r /\ tab.admin # None
  BY <1>1 DEF ShapeInv, SharedIsCurrent
<1>7. HeldTogether' /\ AloneAtBoot'
  BY <1>1, <1>6 DEF ShapeInv, HeldTogether, AloneAtBoot
<1>8. SharedIsCurrent'
  <2>1. /\ \A s \in Refs : ref[s].current <=> tab.shared = s
        /\ \A s \in Refs : ref[s].current => ref[s].st # "idle"
        /\ tab.shared # None => tab.admin # None
        /\ tab.pending \in {None, tab.shared}
    BY <1>1 DEF ShapeInv, SharedIsCurrent, UnderWay
  <2>2. ASSUME NEW s \in Refs
        PROVE  (ref'[s].current <=> tab'.shared = s) /\ (ref'[s].current => ref'[s].st # "idle")
    <3>1. CASE s = r
      BY <3>1, <1>1
    <3>2. CASE s # r
      <4>1. ref'[s] = ref[s] /\ (tab'.shared = s <=> tab.shared = s)
        BY <3>2 DEF Refs, None
      <4>2. (ref[s].current <=> tab.shared = s) /\ (ref[s].current => ref[s].st # "idle")
        BY <2>1
      <4> QED
        BY ONLY <4>1, <4>2
    <3> QED
      BY <3>1, <3>2
  <2>3. /\ tab'.shared # None => tab'.admin # None
        /\ tab'.pending \in {None, tab'.shared}
    BY <2>1
  <2> QED
    BY <2>2, <2>3 DEF SharedIsCurrent, UnderWay
<1>9. RequestsFit'
  <2> SUFFICES ASSUME NEW c \in Requests
               PROVE  /\ req'[c].st = "idle" <=> req'[c].row = None
                      /\ req'[c].mine => req'[c].st # "idle" /\ tab'.admin # None
                      /\ req'[c].st = "waiting" => /\ req'[c].wait \in Refs
                                                   /\ ref'[req'[c].wait].st # "idle"
                      /\ req'[c].answer # "none" => req'[c].st \in {"answered", "reanswered"}
    BY DEF RequestsFit, UnderWay
  <2>1. /\ req[c].st = "idle" <=> req[c].row = None
        /\ req[c].mine => req[c].st # "idle" /\ tab.admin # None
        /\ req[c].st = "waiting" => req[c].wait \in Refs /\ ref[req[c].wait].st # "idle"
        /\ req[c].answer # "none" => req[c].st \in {"answered", "reanswered"}
    BY <1>1 DEF ShapeInv, RequestsFit, UnderWay
  <2>2. CASE req'[c] = req[c] /\ ~(req[c].st = "waiting" /\ req[c].wait = r)
    BY <2>1, <2>2
  <2>3. CASE /\ req[c].st = "waiting" /\ req[c].wait = r /\ req[c].mine /\ row # None
             /\ req'[c].st = "resent" /\ req'[c].row = row
             /\ req'[c].mine /\ req'[c].answer = req[c].answer
    BY <2>3, <1>4, <1>6
  <2>4. CASE req'[c] = IdleRequest
    BY <2>4, <1>3
  <2> QED
    BY <1>2, <2>2, <2>3, <2>4
<1>10. CallsFit'
  <2>1. ASSUME NEW s \in Refs
        PROVE  /\ ref'[s].st = "idle" => ref'[s].carry = None
               /\ ref'[s].row # None => /\ ref'[s].st = "answered"
                                        /\ ref'[s].carry # None /\ ~ref'[s].lost
    BY <1>1 DEF ShapeInv, CallsFit, UnderWay
  <2>2. /\ form'.st # "idle" => tab'.admin = None /\ ~tab'.loading
        /\ form'.row # None => form'.st = "answered"
        /\ out'.st = "idle" => out'.carry = None
    BY <1>1 DEF ShapeInv, CallsFit
  <2> QED
    BY <2>1, <2>2 DEF CallsFit, UnderWay
<1>11. RowsExist'
  <2>1. row <= server.used /\ row \in 0..server.used /\ ref[r].row \in 0..server.used
    BY <1>1, RowFacts DEF RowsExist, None
  <2>2. {tab'.access, cookie', out'.carry, form'.row} \subseteq 0..server.used
    BY <1>1, <2>1, RowFacts DEF RowsExist, None
  <2>3. /\ \A c \in Requests : req'[c].row <= server.used
        /\ \A s \in Refs : ref'[s].carry <= server.used /\ ref'[s].row <= server.used
    BY <1>1, <1>2, <1>3, <2>1, RowFacts DEF RowsExist, None
  <2> QED
    BY <1>1, <2>2, <2>3 DEF RowsExist
<1>12. ASSUME NEW x, Untouched(x), x # ref[r].row
       PROVE  Untouched(x)'
  <2>1. x \notin {None, tab'.access, cookie', out'.carry} /\ x \notin server'.stale
    BY <1>12 DEF Untouched
  <2>2. /\ \A c \in Requests : req'[c].row # x
        /\ \A s \in Refs : ref'[s].carry # x
    BY <1>12, <1>2, <1>3 DEF Untouched
  <2> QED
    BY <2>1, <2>2 DEF Untouched
<1>13. AnswersAreNew'
  <2>1. ASSUME NEW s \in Refs, ref'[s].row # None
        PROVE  /\ Untouched(ref[s].row)' /\ ref'[s].row = ref[s].row /\ ref[s].row # form.row
               /\ \A u \in Refs \ {s} : ref'[u].row # ref'[s].row
               /\ server.family[ref'[s].row] = server.family[ref'[s].carry]
    <3>1. s # r /\ ref'[s] = ref[s]
      BY <2>1
    <3>2. Untouched(ref[s].row) /\ ref[s].row # ref[r].row
      BY <3>1, <2>1, <1>1 DEF AnswersAreNew
    <3>3. Untouched(ref[s].row)'
      BY <3>1, <3>2, <1>12
    <3>4. \A u \in Refs : ref'[u].row \in {None, ref[u].row}
      OBVIOUS
    <3> QED
      BY <3>1, <3>3, <3>4, <2>1, <1>1 DEF AnswersAreNew
  <2>2. form.row # None => Untouched(form.row)'
    <3>1. form.row # None => form.row # ref[r].row /\ Untouched(form.row)
      BY <1>1 DEF AnswersAreNew
    <3> QED
      BY <3>1, <1>12
  <2> QED
    BY <2>1, <2>2, <1>1 DEF AnswersAreNew
<1>14. RefusedForGood'
  <2>1. tab'.access # None => tab'.access # out.carry
    BY <1>1 DEF RefusedForGood, AnswersAreNew, Untouched
  <2>2. ASSUME NEW c \in Requests, req'[c].answer = "refused"
        PROVE  req'[c] = req[c]
    BY <2>2, <1>2, <1>3, <1>4
  <2> QED
    BY <2>1, <2>2, <1>1 DEF RefusedForGood, Accepts
<1> QED
  BY <1>5, <1>7, <1>8, <1>9, <1>10, <1>11, <1>13, <1>14 DEF ShapeInv, RowInv

\* An answer that changes no token: the cookie it sets is of another family
\* than the token, or it sets none.
LEMMA IgnoredAnswerKeepsCalm ==
  ASSUME SessionInv, NEW r \in Refs, ~ref[r].current \/ ref[r].row = None,
         req' = Settled(r, None),
         tab'.access = tab.access,
         tab'.shared = IF tab.shared = r THEN None ELSE tab.shared,
         ref'[r].st = "idle", ref'[r].carry = None, ref'[r].row = None,
         ~ref'[r].current, ~ref'[r].lost,
         \A s \in Refs \ {r} : ref'[s] = ref[s],
         UNCHANGED <<form, out, server, fault>>,
         cookie' \in {None, cookie, ref[r].row}
  PROVE  CalmInv'
<1> SUFFICES ASSUME ~fault' PROVE CalmInv'
  BY DEF CalmInv
<1>1. /\ FamiliesApart /\ NoCookie /\ AnswerIsGood /\ SecondTry
      /\ ShapeInv /\ AnswersAreNew /\ req \in [Requests -> Asks]
  BY Typed DEF SessionInv, CalmInv, ShapeInv, RowInv
<1>2. \A c \in Requests : req'[c] = req[c] \/ ~req'[c].mine
  <2>1. ~IdleRequest.mine
    BY DEF IdleRequest
  <2> QED
    BY <2>1, <1>1, SettledAsks DEF Numbers
<1>3. /\ ref[r].row # None => ~ref[r].current /\ ref[r].carry # None
      /\ ref[r].row # None => Family(ref[r].row) = Family(ref[r].carry)
  BY <1>1 DEF ShapeInv, CallsFit, AnswersAreNew, Family
<1>4. FamiliesApart'
  <2>1. ASSUME NEW s \in Refs, NEW u \in Refs, s # u, ref'[s].carry # None, ref'[u].carry # None
        PROVE  Family(ref'[s].carry) # Family(ref'[u].carry)
    <3>1. s # r /\ u # r /\ ref'[s] = ref[s] /\ ref'[u] = ref[u]
      BY <2>1
    <3> QED
      BY <3>1, <2>1, <1>1 DEF FamiliesApart
  <2>2. ASSUME NEW s \in Refs, ref'[s].carry # None, ~ref'[s].current, tab.access # None
        PROVE  /\ Family(ref'[s].carry) # Family(tab.access)
               /\ cookie' # None => Family(ref'[s].carry) # Family(cookie')
    <3>1. s # r /\ ref'[s] = ref[s]
      BY <2>2
    <3>2. /\ Family(ref[s].carry) # Family(tab.access)
          /\ cookie # None => Family(ref[s].carry) # Family(cookie)
      BY <3>1, <2>2, <1>1 DEF FamiliesApart
    <3>3. ref[r].row # None => Family(ref[s].carry) # Family(ref[r].row)
      BY <3>1, <2>2, <1>1, <1>3 DEF FamiliesApart
    <3> QED
      BY ONLY <3>1, <3>2, <3>3, cookie' \in {None, cookie, ref[r].row}
  <2> QED
    BY ONLY <2>1, <2>2, tab'.access = tab.access, UNCHANGED <<form, out, server, fault>>
       DEF FamiliesApart, Family
<1>5. NoCookie'
  <2>1. ASSUME NEW s \in Refs
        PROVE  /\ ref'[s].lost => ref'[s].carry = None
               /\ (ref'[s].st # "idle" /\ ref'[s].current /\ ref'[s].carry = None
                   /\ tab.access # None) =>
                     cookie' = None \/ Family(cookie') # Family(tab.access)
    <3>1. CASE s = r
      BY <3>1
    <3>2. CASE s # r
      <4>1. ref'[s] = ref[s]
        BY <3>2
      <4>2. /\ ref[s].lost => ref[s].carry = None
            /\ (ref[s].st # "idle" /\ ref[s].current /\ ref[s].carry = None
                /\ tab.access # None) =>
                  cookie = None \/ Family(cookie) # Family(tab.access)
        BY <1>1 DEF NoCookie, UnderWay
      <4>3. ref[r].row # None /\ tab.access # None => Family(ref[r].row) # Family(tab.access)
        BY <1>1, <1>3 DEF FamiliesApart
      <4> QED
        BY ONLY <4>1, <4>2, <4>3, cookie' \in {None, cookie, ref[r].row}
    <3> QED
      BY <3>1, <3>2
  <2> QED
    BY ONLY <2>1, tab'.access = tab.access, UNCHANGED <<form, out, server, fault>>
       DEF NoCookie, UnderWay, Family
<1>6. AnswerIsGood'
  <2>1. \A s \in Refs : ref'[s].current => ref'[s] = ref[s]
    OBVIOUS
  <2> QED
    BY <2>1, <1>1 DEF AnswerIsGood, Dead
<1>7. SecondTry'
  <2>1. (Dead => Dead') /\ (Settles => Settles')
    BY DEF Dead, Settles, Accepts
  <2>2. ASSUME NEW c \in Requests, req'[c].mine
        PROVE  req'[c] = req[c] /\ req[c].mine
    BY <2>2, <1>2
  <2>3. \A c \in Requests : req[c].mine =>
          /\ req[c].st \in {"sent", "answered"} /\ req[c].row # tab.access => Settles
          /\ req[c].st = "resent" => Dead \/ (Settles /\ req[c].row = tab.access)
          /\ req[c].st = "reanswered" /\ req[c].answer = "refused" => Dead
    BY <1>1 DEF SecondTry
  <2> QED
    BY ONLY <2>1, <2>2, <2>3, tab'.access = tab.access DEF SecondTry
<1> QED
  BY <1>4, <1>5, <1>6, <1>7 DEF CalmInv

\* An answer that changes the token: nothing under way can change it again,
\* and it is accepted unless all rows are dead.
LEMMA NewTokenKeepsCalm ==
  ASSUME SessionInv, NEW r \in Refs, ref[r].current, ref[r].row # None,
         req' = Settled(r, ref[r].row),
         tab'.access = ref[r].row, tab'.shared = None,
         ref'[r].st = "idle", ref'[r].carry = None, ref'[r].row = None,
         ~ref'[r].current, ~ref'[r].lost,
         \A s \in Refs \ {r} : ref'[s] = ref[s],
         UNCHANGED <<form, out, server, fault>>,
         cookie' = ref[r].row
  PROVE  CalmInv'
<1> SUFFICES ASSUME ~fault' PROVE CalmInv'
  BY DEF CalmInv
<1>1. /\ FamiliesApart /\ NoCookie /\ AnswerIsGood /\ SecondTry
      /\ ShapeInv /\ AnswersAreNew /\ req \in [Requests -> Asks] /\ ref[r].row \in Numbers
      /\ r # None
  BY Typed DEF SessionInv, CalmInv, ShapeInv, RowInv, Refreshes, Refs, None
<1>2. tab.shared = r /\ \A s \in Refs \ {r} : ~ref[s].current
  <2>1. \A s \in Refs : ref[s].current <=> tab.shared = s
    BY <1>1 DEF ShapeInv, SharedIsCurrent
  <2> QED
    BY <2>1
<1>3. ref[r].carry # None /\ Family(ref[r].row) = Family(ref[r].carry)
  BY <1>1 DEF ShapeInv, CallsFit, AnswersAreNew, Family
<1>4. \A c \in Requests :
        \/ req'[c] = req[c]
        \/ /\ req'[c].st = "resent" /\ req'[c].row = ref[r].row
           /\ req'[c].mine
        \/ ~req'[c].mine
  <2>1. ~IdleRequest.mine
    BY DEF IdleRequest
  <2> QED
    BY <2>1, <1>1, SettledAsks
<1>5. FamiliesApart'
  <2>1. ASSUME NEW s \in Refs, NEW u \in Refs, s # u, ref'[s].carry # None, ref'[u].carry # None
        PROVE  Family(ref'[s].carry) # Family(ref'[u].carry)
    <3>1. s # r /\ u # r /\ ref'[s] = ref[s] /\ ref'[u] = ref[u]
      BY <2>1
    <3> QED
      BY <3>1, <2>1, <1>1 DEF FamiliesApart
  <2>2. ASSUME NEW s \in Refs, ref'[s].carry # None
        PROVE  Family(ref'[s].carry) # Family(ref[r].row)
    <3>1. s # r /\ ref'[s] = ref[s]
      BY <2>2
    <3> QED
      BY <3>1, <2>2, <1>1, <1>3 DEF FamiliesApart
  <2> QED
    BY ONLY <2>1, <2>2, tab'.access = ref[r].row, cookie' = ref[r].row,
       UNCHANGED <<form, out, server, fault>>
       DEF FamiliesApart, Family
<1>6. \A s \in Refs : ~ref'[s].current
  BY <1>2
<1>7. NoCookie'
  <2>1. ASSUME NEW s \in Refs, ref'[s].lost
        PROVE  ref'[s].carry = None
    <3>1. s # r /\ ref'[s] = ref[s]
      BY <2>1
    <3> QED
      BY <3>1, <2>1, <1>1 DEF NoCookie
  <2> QED
    BY <2>1, <1>6 DEF NoCookie
<1>8. AnswerIsGood'
  BY <1>6 DEF AnswerIsGood
<1>9. SecondTry'
  <2>1. Settles'
    <3>1. Dead \/ ref[r].row \in server.live
      BY <1>1 DEF AnswerIsGood
    <3>2. ref[r].row \notin server.stale
      BY <1>1 DEF AnswersAreNew, Untouched
    <3> QED
      BY <3>1, <3>2 DEF Settles, Dead, Accepts
  <2>2. Settles => Dead
    BY <1>1, <1>2 DEF Settles
  <2>3. Dead => Dead'
    BY DEF Dead
  <2>4. ASSUME NEW c \in Requests, req'[c].mine
        PROVE  /\ req'[c].st = "resent" => Dead \/ req'[c].row = ref[r].row
               /\ req'[c].st = "reanswered" /\ req'[c].answer = "refused" => Dead
    <3>1. CASE req'[c] = req[c]
      BY <3>1, <2>2, <2>4, <1>1 DEF SecondTry
    <3>2. CASE req'[c].st = "resent" /\ req'[c].row = ref[r].row
      BY <3>2
    <3> QED
      BY <3>1, <3>2, <2>4, <1>4
  <2> QED
    BY <2>1, <2>3, <2>4 DEF SecondTry
<1> QED
  BY <1>5, <1>7, <1>8, <1>9 DEF CalmInv

LEMMA RefreshReturnsKeeps ==
  ASSUME SessionInv, NEW r \in Refs, RefreshReturns(r)
  PROVE  SessionInv'
<1>1. CASE tab.loading
  BY <1>1, BootReturnsKeeps
<1>2. CASE ~tab.loading /\ tab.pending = r /\ ~(ref[r].current /\ ref[r].row # None)
  BY <1>2, GivenUpKeeps
<1>3. CASE ~tab.loading /\ ((ref[r].current /\ ref[r].row # None) \/ tab.pending # r)
  <2> DEFINE row == IF ref[r].current THEN ref[r].row ELSE None
  <2>1. /\ row \in Numbers /\ req' = Settled(r, row)
        /\ tab' \in Tabs /\ tab'.admin = tab.admin /\ ~tab'.loading
        /\ tab'.access = IF row = None THEN tab.access ELSE row
        /\ tab'.shared = IF tab.shared = r THEN None ELSE tab.shared
        /\ tab'.pending = IF tab.pending = r THEN None ELSE tab.pending
        /\ ref' \in [Refs -> Refreshes]
        /\ ref'[r].st = "idle" /\ ref'[r].carry = None /\ ref'[r].row = None
        /\ ~ref'[r].current /\ ~ref'[r].lost
        /\ \A s \in Refs \ {r} : ref'[s] = ref[s]
        /\ UNCHANGED <<form, out, server, fault>>
        /\ cookie' = IF ref[r].lost THEN cookie ELSE ref[r].row
    BY <1>3, SettledTab
  <2>2. ref[r].st = "answered"
    BY DEF RefreshReturns
  <2>3. row \in {None, ref[r].row} /\ (row # None => ref[r].current)
    OBVIOUS
  <2> HIDE DEF row
  <2>4. ShapeInv' /\ RowInv'
    BY ONLY SessionInv, <1>3, <2>1, <2>2, <2>3, SettledShape
  <2>5. CASE row = None
    <3>1. ~ref[r].current \/ ref[r].row = None
      BY <2>5 DEF row
    <3>2. cookie' \in {None, cookie, ref[r].row}
      BY <2>1
    <3>3. CalmInv'
      BY ONLY SessionInv, <2>1, <2>5, <3>1, <3>2, IgnoredAnswerKeepsCalm
    <3> QED
      BY <3>3, <2>4 DEF SessionInv
  <2>6. CASE row # None
    <3>1. ref[r].current /\ ref[r].row # None /\ row = ref[r].row
      BY <2>6 DEF row
    <3>2. tab'.shared = None /\ ~ref[r].lost
      BY <3>1, <2>1 DEF SessionInv, ShapeInv, SharedIsCurrent, CallsFit
    <3>3. tab'.access = ref[r].row /\ cookie' = ref[r].row /\ req' = Settled(r, ref[r].row)
      BY <3>1, <3>2, <2>1
    <3>4. CalmInv'
      BY ONLY SessionInv, <2>1, <3>1, <3>2, <3>3, NewTokenKeepsCalm
    <3> QED
      BY <3>4, <2>4 DEF SessionInv
  <2> QED
    BY <2>5, <2>6
<1> QED
  BY <1>1, <1>2, <1>3

-----------------------------------------------------------------------------
(* The theorems.                                                           *)

LEMMA InitKeeps ==
  ASSUME Init
  PROVE  SessionInv
<1>1. /\ tab = [admin |-> None, access |-> None, loading |-> TRUE, challenge |-> FALSE,
               shared |-> 1, pending |-> None]
      /\ req = [c \in Requests |-> IdleRequest]
      /\ form = IdleForm /\ out = IdleLogout /\ fault = FALSE
      /\ cookie \in {None, 1}
  BY DEF Init
<1>2. PICK live \in SUBSET {1} :
        server = [live |-> live, stale |-> {}, used |-> 1, family |-> [row \in Rows |-> 1]]
  BY DEF Init
<1>3. 1 \in Rows /\ None \notin Rows /\ 1 \in 0..MaxRows /\ cookie \in Numbers
  BY <1>1, BoundsAssumption DEF Rows, None, Numbers
<1> DEFINE first == [IdleRefresh EXCEPT !.st = "sent", !.carry = cookie, !.current = TRUE]
<1>4. /\ first \in Refreshes /\ first.st = "sent" /\ first.carry = cookie /\ first.row = None
      /\ first.current /\ ~first.lost
      /\ IdleRefresh \in Refreshes /\ IdleRefresh.st = "idle" /\ IdleRefresh.carry = None
      /\ IdleRefresh.row = None /\ ~IdleRefresh.current /\ ~IdleRefresh.lost
  BY <1>3 DEF IdleRefresh, Refreshes, Numbers
<1>5. ref = [r \in Refs |-> IF r = 1 THEN first ELSE IdleRefresh]
  BY DEF Init
<1> HIDE DEF first
<1>6. ref \in [Refs -> Refreshes] /\ 1 \in Refs /\ ref[1] = first /\ ref[2] = IdleRefresh
      /\ Refs = {1, 2}
  BY <1>4, <1>5 DEF Refs
<1>7. /\ IdleRequest \in Asks /\ IdleForm \in Forms /\ IdleLogout \in Logouts
      /\ IdleRequest.st = "idle" /\ IdleRequest.row = None /\ ~IdleRequest.mine
      /\ IdleRequest.answer = "none"
      /\ IdleForm.st = "idle" /\ IdleForm.row = None
      /\ IdleLogout.st = "idle" /\ IdleLogout.carry = None
  BY DEF IdleRequest, IdleForm, IdleLogout, Asks, Forms, Logouts, Numbers
<1>8. \A c \in Requests : req[c] = IdleRequest
  BY <1>1
<1>9. /\ server \in Servers /\ server.used = 1 /\ server.live \subseteq {1} /\ server.stale = {}
      /\ \A row \in Rows : server.family[row] = 1
  BY <1>2, <1>3 DEF Servers
<1>10. TypeOK
  <2>1. tab \in Tabs /\ req \in [Requests -> Asks]
    BY <1>1, <1>6, <1>7 DEF Tabs, Numbers
  <2> QED
    BY <2>1, <1>1, <1>3, <1>6, <1>7, <1>9, Typed
<1>11. ShapeInv
  <2>1. HeldTogether /\ SharedIsCurrent
    BY <1>1, <1>4, <1>6 DEF HeldTogether, SharedIsCurrent, UnderWay, None
  <2>2. AloneAtBoot
    BY <1>1, <1>4, <1>6, <1>7, <1>8 DEF AloneAtBoot, UnderWay, None
  <2>3. RequestsFit
    BY <1>7, <1>8 DEF RequestsFit
  <2>4. CallsFit
    BY <1>1, <1>4, <1>6, <1>7 DEF CallsFit, UnderWay
  <2> QED
    BY <1>10, <2>1, <2>2, <2>3, <2>4 DEF ShapeInv
<1>12. RowInv
  <2>1. RowsExist
    <3>1. {tab.access, cookie, out.carry, form.row} \subseteq 0..1
      BY <1>1, <1>7 DEF None
    <3>2. \A c \in Requests : req[c].row <= 1
      BY <1>7, <1>8 DEF None
    <3>3. \A r \in Refs : ref[r].carry <= 1 /\ ref[r].row <= 1
      BY <1>1, <1>4, <1>6 DEF None
    <3>4. server.live \union server.stale \subseteq 1..1
      BY <1>9
    <3>5. \A row \in 1..1 : server.family[row] <= 1
      BY <1>3, <1>9
    <3> QED
      BY ONLY <3>1, <3>2, <3>3, <3>4, <3>5, <1>9 DEF RowsExist
  <2>2. AnswersAreNew /\ RefusedForGood
    BY <1>1, <1>4, <1>6, <1>7, <1>8 DEF AnswersAreNew, RefusedForGood
  <2> QED
    BY <2>1, <2>2 DEF RowInv
<1>13. CalmInv
  <2>1. FamiliesApart
    <3>1. \A r \in Refs : ref[r].carry # None => r = 1
      BY <1>4, <1>6
    <3> QED
      BY <3>1, <1>1 DEF FamiliesApart
  <2>2. NoCookie /\ AnswerIsGood
    BY <1>1, <1>4, <1>6 DEF NoCookie, AnswerIsGood
  <2>3. SecondTry
    BY <1>7, <1>8 DEF SecondTry
  <2> QED
    BY <2>1, <2>2, <2>3 DEF CalmInv
<1> QED
  BY <1>11, <1>12, <1>13 DEF SessionInv

LEMMA NextKeeps ==
  ASSUME SessionInv, [Next]_vars
  PROVE  SessionInv'
<1>1. CASE Server
  BY <1>1, ServeRefreshKeeps, ServeRequestKeeps, ServeFormKeeps, ServeLogoutKeeps DEF Server
<1>2. CASE Trouble
  BY <1>2, AccessExpiresKeeps, RevokedElsewhereKeeps, OtherTabRefreshesKeeps, RefreshLostKeeps
     DEF Trouble
<1>3. CASE Answers
  BY <1>3, FormReturnsKeeps, LogoutReturnsKeeps, RefreshReturnsKeeps, RequestSucceedsKeeps,
     RequestRefusedKeeps, SendAgainKeeps, RecoverKeeps, RefusedAgainKeeps DEF Answers
<1>4. CASE User
  BY <1>4, SignInKeeps, CompleteMFAKeeps, SignOutKeeps, RefreshDirectlyKeeps, SendRequestKeeps
     DEF User
<1>5. CASE UNCHANGED vars
  BY <1>5 DEF vars, SessionInv, ShapeInv, TypeOK, HeldTogether, SharedIsCurrent, AloneAtBoot,
     RequestsFit, CallsFit, UnderWay, RowInv, RowsExist, AnswersAreNew, Untouched, RefusedForGood,
     Accepts, CalmInv, FamiliesApart, Family, NoCookie, AnswerIsGood, Dead, Settles, SecondTry
<1> QED
  BY <1>1, <1>2, <1>3, <1>4, <1>5 DEF Next

\* The strengthened invariant holds in every state.
THEOREM SessionInvariant == Spec => []SessionInv
<1>1. Init => SessionInv
  BY InitKeeps
<1>2. SessionInv /\ [Next]_vars => SessionInv'
  BY NextKeeps
<1> QED
  BY <1>1, <1>2, PTL DEF Spec

\* For every number of requests and rows the token and the administrator are
\* held together, and one refresh is under way for a session (AuthProvider
\* and getRefreshPromise), with the types.
THEOREM SessionStaysSound == Spec => []SessionSound
<1>1. ASSUME SessionInv PROVE SessionSound
  <2>1. TypeOK /\ HeldTogether /\ \A r \in Refs : ref[r].current => tab.shared = r
    BY <1>1 DEF SessionInv, ShapeInv, SharedIsCurrent
  <2> DEFINE asked == {r \in Refs : ref[r].st # "idle" /\ ref[r].current}
  <2>2. asked = {} \/ asked = {tab.shared}
    BY <2>1
  <2>3. Cardinality({}) = 0 /\ Cardinality({tab.shared}) = 1
    BY FS_EmptySet, FS_Singleton
  <2>4. Cardinality(asked) <= 1
    <3> HIDE DEF asked
    <3> QED
      BY ONLY <2>2, <2>3
  <2> QED
    BY <2>1, <2>4 DEF SessionSound, OneRefresh
<1> QED
  BY <1>1, SessionInvariant, PTL

\* A request that waits for a recovery waits for a call under way: whatever
\* session has begun since, the answer of that call lets it go on.
THEOREM WaitersHaveACall == Spec => []WaitsForACall
<1>1. ASSUME SessionInv PROVE WaitsForACall
  BY <1>1 DEF SessionInv, ShapeInv, RequestsFit, UnderWay, WaitsForACall
<1> QED
  BY <1>1, SessionInvariant, PTL

\* Signing out, or in, sends nothing again.
LEMMA ExpireSendsNothing ==
  ASSUME NEW rs \in [Requests -> Asks], NEW t, NEW fs, ExpireSession(t, rs, fs)
  PROVE  \A c \in Requests : req'[c].st = rs[c].st
<1>1. req' = Disowned(rs)
  BY DEF ExpireSession
<1> QED
  BY <1>1, DisownedAsks

LEMMA SentAgainStep ==
  ASSUME SessionInv, Next, NEW c \in Requests,
         req[c].st \in {"answered", "waiting"}, req'[c].st = "resent"
  PROVE  /\ req[c].mine /\ req'[c].row = tab'.access /\ req'[c].row # req[c].row
         /\ tab.admin # None /\ tab'.admin = tab.admin
<1>1. /\ ShapeInv /\ AnswersAreNew /\ req \in [Requests -> Asks] /\ tab \in Tabs
      /\ ref \in [Refs -> Refreshes]
  BY Typed DEF SessionInv, ShapeInv, RowInv
<1>2. req[c] \in Asks
  BY <1>1
<1>3. req' # req
  OBVIOUS
<1>4. ASSUME NEW d \in Requests, ServeRequest(d)
      PROVE  FALSE
  <2>1. PICK answer \in {"ok", "ended", "refused", "denied"} :
          req' = [req EXCEPT ![d].st = IF @ = "sent" THEN "answered" ELSE "reanswered",
                             ![d].answer = answer]
    BY <1>4 DEF ServeRequest
  <2>2. CASE c = d
    BY <2>1, <2>2, <1>1, <1>2 DEF Asks
  <2>3. CASE c # d
    BY <2>1, <2>3, <1>1
  <2> QED
    BY <2>2, <2>3
<1>5. ASSUME FormReturns
      PROVE  FALSE
  <2>1. FirstRequest(form.row)
    BY <1>3, <1>5 DEF FormReturns
  <2>2. form.row \in Numbers
    BY Typed DEF SessionInv, ShapeInv, Forms, Numbers
  <2> QED
    BY <2>1, <2>2, <1>1, FirstRequestFits
<1>6. ASSUME SignOut
      PROVE  FALSE
  BY <1>1, <1>6, ExpireSendsNothing DEF SignOut
<1>7. ASSUME NEW d \in Requests,
             ExpireSession(tab, Done(d), ref) \/ req' = Done(d)
      PROVE  FALSE
  <2>1. /\ Done(d) \in [Requests -> Asks] /\ Done(d)[d] = IdleRequest
        /\ \A x \in Requests \ {d} : Done(d)[x] = req[x] /\ IdleRequest.st = "idle"
        /\ IdleRequest.st = "idle"
    BY <1>1, DoneAsks
  <2>2. req'[c].st = Done(d)[c].st
    BY <1>7, <2>1, ExpireSendsNothing
  <2> QED
    BY <2>1, <2>2
<1>8. ASSUME NEW d \in Requests, SendRequest(d)
      PROVE  FALSE
  <2>1. req[d].st = "idle"
        /\ req' = [req EXCEPT ![d] = [IdleRequest EXCEPT !.st = "sent", !.mine = TRUE,
                                                         !.row = tab.access]]
    BY <1>8 DEF SendRequest
  <2> QED
    BY <2>1, <1>1
<1>9. ASSUME NEW d \in Requests, Recover(d)
      PROVE  FALSE
  <2>1. req' = [req EXCEPT ![d].st = "waiting", ![d].wait = tab'.pending, ![d].answer = "none"]
    BY <1>9 DEF Recover
  <2>2. CASE c = d
    BY <2>1, <2>2, <1>1, <1>2 DEF Asks
  <2>3. CASE c # d
    BY <2>1, <2>3, <1>1
  <2> QED
    BY <2>2, <2>3
<1>10. ASSUME NEW d \in Requests, SendAgain(d)
       PROVE  /\ req[c].mine /\ req'[c].row = tab'.access /\ req'[c].row # req[c].row
              /\ tab.admin # None /\ tab'.admin = tab.admin
  <2>1. /\ req[d].mine /\ tab.access # req[d].row /\ tab' = tab
        /\ req' = [req EXCEPT ![d].st = "resent", ![d].row = tab.access, ![d].answer = "none"]
    BY <1>10 DEF SendAgain
  <2>2. c = d
    BY <2>1, <1>1
  <2>3. req'[c].row = tab.access
    BY <2>1, <2>2, <1>1, <1>2 DEF Asks
  <2>4. tab.admin # None
    BY <2>1, <2>2, <1>1 DEF ShapeInv, RequestsFit
  <2> QED
    BY <2>1, <2>2, <2>3, <2>4
<1>11. ASSUME NEW r \in Refs, RefreshReturns(r)
       PROVE  /\ req[c].mine /\ req'[c].row = tab'.access /\ req'[c].row # req[c].row
              /\ tab.admin # None /\ tab'.admin = tab.admin
  <2>1. ASSUME NEW row \in Numbers
        PROVE  \/ Settled(r, row)[c].st = req[c].st
               \/ /\ req[c].st = "waiting" /\ req[c].mine /\ row # None
                  /\ Settled(r, row)[c].st = "resent" /\ Settled(r, row)[c].row = row
               \/ Settled(r, row)[c].st = "idle"
    BY <1>1, SettledAsks DEF IdleRequest
  <2>2. ~tab.loading
    BY <1>1 DEF ShapeInv, AloneAtBoot
  <2>3. CASE tab.pending = r /\ ~(ref[r].current /\ ref[r].row # None)
    <3>1. PICK t, fs : ExpireSession(t, Settled(r, None), fs)
      BY <1>11, <2>2, <2>3 DEF RefreshReturns
    <3>2. Settled(r, None) \in [Requests -> Asks] /\ None \in Numbers
      BY <1>1, SettledAsks DEF Numbers
    <3>3. req'[c].st = Settled(r, None)[c].st
      BY <3>1, <3>2, ExpireSendsNothing
    <3> QED
      BY <2>1, <3>2, <3>3
  <2>4. CASE (ref[r].current /\ ref[r].row # None) \/ tab.pending # r
    <3> DEFINE row == IF ref[r].current THEN ref[r].row ELSE None
    <3>1. /\ row \in Numbers /\ req' = Settled(r, row) /\ tab'.admin = tab.admin
          /\ tab'.access = IF row = None THEN tab.access ELSE row
      BY <1>11, <2>2, <2>4, SettledTab
    <3>2. row # None => row = ref[r].row
      OBVIOUS
    <3> HIDE DEF row
    <3>3. req[c].mine /\ row # None /\ req'[c].row = row
      BY <2>1, <3>1
    <3>4. req[c].row # row
      BY <3>2, <3>3, <1>1 DEF AnswersAreNew, Untouched
    <3>5. tab.admin # None
      BY <3>3, <1>1 DEF ShapeInv, RequestsFit
    <3> QED
      BY <3>1, <3>3, <3>4, <3>5
  <2> QED
    BY <2>3, <2>4
<1>12. Server => FALSE
  BY <1>3, <1>4 DEF Server, ServeRefresh, ServeForm, ServeLogout
<1>13. Trouble => FALSE
  BY <1>3 DEF Trouble, AccessExpires, RevokedElsewhere, OtherTabRefreshes, RefreshLost
<1>14. User => FALSE
  BY <1>3, <1>6, <1>8 DEF User, SignIn, CompleteMFA, SubmitForm, RefreshDirectly
<1>15. ASSUME NEW d \in Requests,
              RequestSucceeds(d) \/ RequestRefused(d) \/ RefusedAgain(d)
       PROVE  FALSE
  BY <1>7, <1>15 DEF RequestSucceeds, RequestRefused, RefusedAgain
<1>16. ~LogoutReturns
  BY <1>3 DEF LogoutReturns
<1> QED
  BY <1>5, <1>9, <1>10, <1>11, <1>12, <1>13, <1>14, <1>15, <1>16 DEF Next, Answers

\* A request is sent again with a token newer than the one it was refused
\* with, and only within the session it was sent under: no answer to it, and
\* none of a refresh, crosses into the next one.
THEOREM SentAgainWithinASession == Spec => SentAgainUnderSameSession
<1>1. SessionInv /\ [Next]_vars =>
        [\A c \in Requests : req[c].st \in {"answered", "waiting"} /\ req'[c].st = "resent" =>
           /\ req[c].mine /\ req'[c].row = tab'.access /\ req'[c].row # req[c].row
           /\ tab.admin # None /\ tab'.admin = tab.admin]_vars
  BY SentAgainStep
<1> QED
  BY <1>1, SessionInvariant, PTL DEF Spec, SentAgainUnderSameSession

LEMMA GivesUpStep ==
  ASSUME SessionInv, GivenUp,
         \/ \E r \in Refs : RefreshReturns(r)
         \/ \E c \in Requests : RefusedAgain(c) /\ req[c].answer = "refused"
  PROVE  ~GoesOn
<1>0. tab.admin # None /\ tab'.admin = None /\ ~fault
  BY DEF GivenUp
<1>1. /\ ShapeInv /\ NoCookie /\ SecondTry /\ TypeOK /\ server \in Servers
  BY <1>0, Typed DEF SessionInv, CalmInv, ShapeInv
<1>2. None \notin server.live
  BY <1>1, RowFacts DEF Servers
<1>3. ASSUME NEW c \in Requests, RefusedAgain(c), req[c].answer = "refused"
      PROVE  server.live = {}
  BY <1>1, <1>3 DEF RefusedAgain, SecondTry, Dead
<1>4. ASSUME NEW r \in Refs, RefreshReturns(r)
      PROVE  cookie' = None \/ server.family[cookie'] # server.family[tab.access]
  <2>1. ~tab.loading /\ tab.access # None
    BY <1>0, <1>1 DEF ShapeInv, AloneAtBoot, HeldTogether
  <2>2. tab.pending = r /\ ~(ref[r].current /\ ref[r].row # None)
    <3>1. (ref[r].current /\ ref[r].row # None) \/ tab.pending # r => tab'.admin = tab.admin
      BY <1>4, <2>1, SettledTab
    <3> QED
      BY <1>0, <3>1
  <2>3. tab.shared = r /\ r # None
    BY <1>1, <2>2 DEF ShapeInv, SharedIsCurrent, Refs, None
  <2>4. ref[r].current /\ ref[r].row = None
    BY <1>1, <2>2, <2>3 DEF ShapeInv, SharedIsCurrent
  <2>5. ref[r].st = "answered" /\ cookie' = IF ref[r].lost THEN cookie ELSE ref[r].row
    BY <1>4 DEF RefreshReturns
  <2>6. CASE ref[r].lost
    <3>1. cookie = None \/ server.family[cookie] # server.family[tab.access]
      BY <1>1, <2>1, <2>4, <2>5, <2>6 DEF NoCookie, UnderWay, Family
    <3> QED
      BY <3>1, <2>5, <2>6
  <2>7. CASE ~ref[r].lost
    BY <2>4, <2>5, <2>7
  <2> QED
    BY <2>6, <2>7
<1> QED
  BY <1>2, <1>3, <1>4 DEF GoesOn

\* Unless an answer was lost or refreshes crossed, the wrapper gives a session
\* up, after a refresh that brought no token or a token that was refused twice,
\* only when the cookie that is left does not continue it.  A wrong code is not
\* a refused token: it ends a session that goes on.
THEOREM GivesUpOnlyADeadSession == Spec => GivesUpOnlyWhenDead
<1>1. SessionInv /\ [Next]_vars =>
        [(\/ \E r \in Refs : RefreshReturns(r)
          \/ \E c \in Requests : RefusedAgain(c) /\ req[c].answer = "refused")
         /\ GivenUp => ~GoesOn]_vars
  BY GivesUpStep
<1> QED
  BY <1>1, SessionInvariant, PTL DEF Spec, GivesUpOnlyWhenDead
=============================================================================
