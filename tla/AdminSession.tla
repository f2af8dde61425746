----------------------------- MODULE AdminSession -----------------------------
(***************************************************************************)
(* An administrator's session in one tab of the admin console: the React    *)
(* provider that holds the signed-in administrator, the shared refresh      *)
(* call, and the request wrapper that answers a 401 by refreshing the       *)
(* session and sending the request again.  The admin API keeps one row per  *)
(* issued refresh cookie; a refresh replaces the row, and the access token  *)
(* of a replaced row is refused.  A cookie that was already replaced ends   *)
(* its whole family of rows.  The server handles a call in one step and its *)
(* answer reaches the tab in a later one, so that answers overtake.         *)
(***************************************************************************)
EXTENDS Naturals, FiniteSets

CONSTANTS Requests,     \* requests of pages under way at a time
          MaxRows,      \* bound on the session rows ever created
          Faulty        \* answers get lost and another tab shares the cookie

ASSUME BoundsAssumption == MaxRows \in Nat \ {0}
ASSUME FaultyAssumption == Faulty \in BOOLEAN

VARIABLES tab,      \* the state and refs of AuthProvider and of the client
          req,      \* the requests of pages
          ref,      \* the calls to /auth/refresh, two at most
          form,     \* the sign-in or MFA form that was submitted
          out,      \* the call to /auth/logout
          server,   \* the rows of admin_sessions
          cookie,   \* the row whose refresh token the browser holds
          fault     \* an answer was lost or refreshes crossed

vars == <<tab, req, ref, form, out, server, cookie, fault>>

None == 0
Rows == 1..MaxRows
Refs == {1, 2}

\* "mine" says that the recovery a request found registered still is;
\* "current" that the provider's generation is still the one a call began in.
IdleRequest == [st |-> "idle", mine |-> FALSE, row |-> None, wait |-> None, answer |-> "none"]
IdleRefresh == [st |-> "idle", carry |-> None, row |-> None, current |-> FALSE, lost |-> FALSE]
IdleForm    == [st |-> "idle", current |-> FALSE, mfa |-> FALSE, row |-> None, challenge |-> FALSE]
IdleLogout  == [st |-> "idle", carry |-> None]

TypeOK ==
  /\ tab \in [admin : Rows \union {None}, access : Rows \union {None}, loading : BOOLEAN,
              challenge : BOOLEAN, shared : Refs \union {None}, pending : Refs \union {None}]
  /\ req \in [Requests -> [st : {"idle", "sent", "answered", "waiting", "resent", "reanswered"},
                           mine : BOOLEAN, row : Rows \union {None}, wait : Refs \union {None},
                           answer : {"none", "ok", "ended", "refused", "denied"}]]
  /\ ref \in [Refs -> [st : {"idle", "sent", "answered"}, carry : Rows \union {None},
                       row : Rows \union {None}, current : BOOLEAN, lost : BOOLEAN]]
  /\ form \in [st : {"idle", "sent", "answered"}, current : BOOLEAN, mfa : BOOLEAN,
               row : Rows \union {None}, challenge : BOOLEAN]
  /\ out \in [st : {"idle", "sent", "answered"}, carry : Rows \union {None}]
  /\ server \in [live : SUBSET Rows, stale : SUBSET Rows, used : 0..MaxRows,
                 family : [Rows -> Rows]]
  /\ cookie \in Rows \union {None}
  /\ fault \in BOOLEAN

-----------------------------------------------------------------------------
(* The admin API.                                                          *)

Accepts(row) == row \in server.live \ server.stale

NewRow(family) ==
  [server EXCEPT !.used = @ + 1, !.live = @ \union {server.used + 1},
                 !.family[server.used + 1] = family]

Without(s, rows) == [s EXCEPT !.live = @ \ rows, !.stale = @ \ rows]

Rotated(row) == Without(NewRow(server.family[row]), {row})

\* A cookie that was replaced or revoked: whoever presents it ends the family.
EndedFamily(row) ==
  Without(server, {r \in Rows : server.family[r] = server.family[row]})

\* A refresh that fails inside the server leaves the rows alone; the cookie is
\* cleared when it was the store that failed.
ServeRefresh(r) ==
  /\ ref[r].st = "sent"
  /\ LET carry == ref[r].carry
         answer(row, lost) == [ref EXCEPT ![r].st = "answered", ![r].row = row, ![r].lost = lost]
     IN \/ /\ carry \in server.live /\ server.used < MaxRows
           /\ server' = Rotated(carry)
           /\ ref' = answer(server'.used, FALSE) /\ UNCHANGED fault
        \/ /\ carry \notin server.live
           /\ server' = IF carry = None THEN server ELSE EndedFamily(carry)
           /\ ref' = answer(None, carry = None) /\ UNCHANGED fault
        \/ /\ Faulty \/ server.used = MaxRows
           /\ \E lost \in BOOLEAN : ref' = answer(None, lost)
           /\ fault' = TRUE /\ UNCHANGED server
  /\ UNCHANGED <<tab, req, form, out, cookie>>

\* A request that ends this session, by revoking it or by changing the rights
\* of a role its administrator has, ends all rows of the administrator.  One
\* that confirms a second factor with a wrong code is denied with the status of
\* a request whose token is not accepted.
ServeRequest(c) ==
  /\ req[c].st \in {"sent", "resent"}
  /\ \E answer \in IF Accepts(req[c].row) THEN {"ok", "ended", "denied"} ELSE {"refused"} :
       /\ req' = [req EXCEPT ![c].st = IF @ = "sent" THEN "answered" ELSE "reanswered",
                             ![c].answer = answer]
       /\ server' = IF answer = "ended" THEN Without(server, Rows) ELSE server
  /\ UNCHANGED <<tab, ref, form, out, cookie, fault>>

\* A password or a code is right, needs a second factor, or is refused.
ServeForm ==
  /\ form.st = "sent"
  /\ \/ /\ server.used < MaxRows
        /\ server' = NewRow(server.used + 1)
        /\ form' = [form EXCEPT !.st = "answered", !.row = server'.used]
     \/ /\ ~form.mfa /\ form' = [form EXCEPT !.st = "answered", !.challenge = TRUE]
        /\ UNCHANGED server
     \/ form' = [form EXCEPT !.st = "answered"] /\ UNCHANGED server
  /\ UNCHANGED <<tab, req, ref, out, cookie, fault>>

ServeLogout ==
  /\ out.st = "sent"
  /\ server' = Without(server, {out.carry})
  /\ out' = [out EXCEPT !.st = "answered"]
  /\ UNCHANGED <<tab, req, ref, form, cookie, fault>>

\* The quarter of an hour of an access token is over.  It is longer than a
\* request takes that was under way when the token was issued.
AccessExpires ==
  /\ Accepts(tab.access)
  /\ \A c \in Requests : \/ req[c].st = "idle"
                         \/ req[c].st \in {"sent", "answered"} /\ req[c].row = tab.access
  /\ server' = [server EXCEPT !.stale = @ \union {tab.access}]
  /\ UNCHANGED <<tab, req, ref, form, out, cookie, fault>>

\* Another administrator revokes the sessions, disables the account or
\* changes its roles.
RevokedElsewhere ==
  /\ server.live # {}
  /\ server' = Without(server, Rows)
  /\ UNCHANGED <<tab, req, ref, form, out, cookie, fault>>

OtherTabRefreshes ==
  /\ Faulty /\ cookie \in server.live /\ server.used < MaxRows
  /\ server' = Rotated(cookie)
  /\ cookie' = server'.used /\ fault' = TRUE
  /\ UNCHANGED <<tab, req, ref, form, out>>

\* The answer of a refresh is lost: the rows changed, the cookie did not.
RefreshLost(r) ==
  /\ Faulty /\ ref[r].st = "answered" /\ fault' = TRUE
  /\ ref' = [ref EXCEPT ![r].row = None, ![r].lost = TRUE]
  /\ UNCHANGED <<tab, req, form, out, server, cookie>>

-----------------------------------------------------------------------------
(* The provider.                                                           *)

\* A new generation: answers to the calls of the last one are ignored.
Outdated(rs) == [r \in Refs |-> [rs[r] EXCEPT !.current = FALSE]]

\* expireSession, with the effect that registers a new recovery.
Ended(t)  == [t EXCEPT !.admin = None, !.access = None, !.loading = FALSE,
                       !.challenge = FALSE, !.shared = None, !.pending = None]
Disowned(rs) == [c \in Requests |-> [rs[c] EXCEPT !.mine = FALSE]]

ExpireSession(t, rs, fs) ==
  /\ tab' = Ended(t) /\ req' = Disowned(rs)
  /\ ref' = Outdated(fs) /\ form' = [form EXCEPT !.current = FALSE]

\* The first page of a session mounts before the provider's effect runs, so
\* its first request finds no recovery registered.
FirstRequest(row) ==
  LET rs == Disowned(req)
  IN IF \A c \in Requests : rs[c].st # "idle" THEN req' = rs
     ELSE \E c \in Requests :
            /\ rs[c].st = "idle"
            /\ req' = [rs EXCEPT ![c] = [IdleRequest EXCEPT !.st = "sent", !.row = row]]

SignedIn(t, row) == [t EXCEPT !.admin = server.family[row], !.access = row, !.pending = None]

\* getRefreshPromise: the call under way, or a new one with today's cookie.
Refreshing(pending) ==
  IF tab.shared # None
  THEN tab' = [tab EXCEPT !.pending = IF pending THEN tab.shared ELSE @] /\ UNCHANGED ref
  ELSE \E r \in Refs :
         /\ ref[r].st = "idle"
         /\ ref' = [ref EXCEPT ![r] = [IdleRefresh EXCEPT !.st = "sent", !.carry = cookie, !.current = TRUE]]
         /\ tab' = [tab EXCEPT !.shared = r, !.pending = IF pending THEN r ELSE @]

\* A new generation for the form; what the last one still awaits is ignored.
SubmitForm(mfa) ==
  /\ form.st = "idle"
  /\ ref' = Outdated(ref)
  /\ form' = [IdleForm EXCEPT !.st = "sent", !.current = TRUE, !.mfa = mfa]
  /\ UNCHANGED <<req, out, server, cookie, fault>>

\* The login page, there when nobody is signed in and no code is asked for.
SignIn ==
  /\ tab.admin = None /\ ~tab.loading /\ ~tab.challenge
  /\ SubmitForm(FALSE)
  /\ tab' = [tab EXCEPT !.shared = None]

\* The page of the second factor.
CompleteMFA ==
  /\ tab.admin = None /\ ~tab.loading /\ tab.challenge
  /\ SubmitForm(TRUE)
  /\ UNCHANGED tab

FormReturns ==
  /\ form.st = "answered" /\ form' = IdleForm
  /\ cookie' = IF form.row = None THEN cookie ELSE form.row
  /\ IF ~form.current THEN UNCHANGED <<tab, req>>
     ELSE IF form.row = None
     THEN tab' = [tab EXCEPT !.challenge = @ \/ form.challenge] /\ UNCHANGED req
     ELSE /\ tab' = [SignedIn(tab, form.row) EXCEPT !.challenge = @ /\ ~form.mfa]
          /\ FirstRequest(form.row)
  /\ UNCHANGED <<ref, out, server, fault>>

SignOut ==
  /\ tab.admin # None /\ out.st = "idle"
  /\ ExpireSession(tab, req, ref)
  /\ out' = [st |-> "sent", carry |-> cookie]
  /\ UNCHANGED <<server, cookie, fault>>

LogoutReturns ==
  /\ out.st = "answered" /\ out' = IdleLogout /\ cookie' = None
  /\ UNCHANGED <<tab, req, ref, form, server, fault>>

\* A refresh that is asked for now, though the token is accepted, overtakes a
\* request that was sent with another token or is on its second attempt.
Crosses == \E c \in Requests : req[c].st = "resent" \/ req[c].row \notin {None, tab.access}

\* The security page asks for a new token after MFA was enrolled.
RefreshDirectly ==
  /\ tab.access # None
  /\ Refreshing(FALSE)
  /\ fault' = (fault \/ Crosses)
  /\ UNCHANGED <<req, form, out, server, cookie>>

-----------------------------------------------------------------------------
(* The request wrapper.                                                    *)

SendRequest(c) ==
  /\ tab.admin # None /\ req[c].st = "idle"
  /\ req' = [req EXCEPT ![c] = [IdleRequest EXCEPT !.st = "sent", !.mine = TRUE, !.row = tab.access]]
  /\ UNCHANGED <<tab, ref, form, out, server, cookie, fault>>

\* Both are a 401 to the wrapper, which does not read what else they say.
Refused(c) == req[c].answer \in {"refused", "denied"}

Done(c) == [req EXCEPT ![c] = IdleRequest]

\* Success: the page that ended its own session says so to the provider.
RequestSucceeds(c) ==
  /\ req[c].answer \in {"ok", "ended"}
  /\ IF req[c].answer = "ended" THEN ExpireSession(tab, Done(c), ref)
     ELSE req' = Done(c) /\ UNCHANGED <<tab, ref, form>>
  /\ UNCHANGED <<out, server, cookie, fault>>

\* Refused, and the session it was sent under is over: no second attempt.
\* The dashboard then ends the session of now, whichever it had asked under.
RequestRefused(c) ==
  /\ Refused(c) /\ ~req[c].mine
  /\ \/ ExpireSession(tab, Done(c), ref)
     \/ req' = Done(c) /\ UNCHANGED <<tab, ref, form>>
  /\ UNCHANGED <<out, server, cookie, fault>>

\* Mutant: whoever is signed in now.
SendAgainAnyway(c) ==
  /\ req[c].st = "answered" /\ Refused(c)
  /\ tab.access # None /\ tab.access # req[c].row
  /\ req' = [req EXCEPT ![c].st = "resent", ![c].row = tab.access, ![c].answer = "none"]
  /\ UNCHANGED <<tab, ref, form, out, server, cookie, fault>>

\* Refused, and the token has changed since: send it again.
SendAgain(c) ==
  /\ req[c].st = "answered" /\ Refused(c) /\ req[c].mine
  /\ tab.access # req[c].row
  /\ req' = [req EXCEPT ![c].st = "resent", ![c].row = tab.access, ![c].answer = "none"]
  /\ UNCHANGED <<tab, ref, form, out, server, cookie, fault>>

\* Refused with the current token: wait for the one recovery.
Recover(c) ==
  /\ req[c].st = "answered" /\ Refused(c) /\ req[c].mine
  /\ tab.access = req[c].row
  /\ IF tab.pending # None THEN UNCHANGED <<tab, ref>> ELSE Refreshing(TRUE)
  /\ req' = [req EXCEPT ![c].st = "waiting", ![c].wait = tab'.pending, ![c].answer = "none"]
  /\ fault' = (fault \/ (req[c].answer = "denied" /\ Crosses))
  /\ UNCHANGED <<form, out, server, cookie>>

\* Mutant: one refusal is enough.
RefusedOnce(c) ==
  /\ req[c].st \in {"answered", "reanswered"} /\ Refused(c) /\ req[c].mine
  /\ ExpireSession(tab, Done(c), ref)
  /\ UNCHANGED <<out, server, cookie, fault>>

\* Refused twice: the session is given up.
RefusedAgain(c) ==
  /\ req[c].st = "reanswered" /\ Refused(c) /\ req[c].mine
  /\ ExpireSession(tab, Done(c), ref)
  /\ UNCHANGED <<out, server, cookie, fault>>

\* Mutant: requests of an earlier session are not told.
SettledOwn(r, row) ==
  [c \in Requests |->
     IF req[c].st # "waiting" \/ req[c].wait # r \/ ~req[c].mine THEN req[c]
     ELSE IF row # None THEN [req[c] EXCEPT !.st = "resent", !.row = row, !.wait = None]
     ELSE IdleRequest]

\* What became of the requests that waited for refresh r.
Settled(r, row) ==
  [c \in Requests |->
     IF req[c].st # "waiting" \/ req[c].wait # r THEN req[c]
     ELSE IF req[c].mine /\ row # None
     THEN [req[c] EXCEPT !.st = "resent", !.row = row, !.wait = None]
     ELSE IdleRequest]

\* Mutant: the answer counts, whatever the provider did meanwhile.
LateRefreshReturns(r) ==
  /\ ref[r].st = "answered"
  /\ cookie' = IF ref[r].lost THEN cookie ELSE ref[r].row
  /\ LET row == ref[r].row
     IN /\ tab' = [tab EXCEPT !.shared  = IF @ = r THEN None ELSE @,
                              !.access  = IF row = None THEN @ ELSE row,
                              !.pending = IF @ = r THEN None ELSE @,
                              !.loading = FALSE]
        /\ req' = Settled(r, row) /\ ref' = [ref EXCEPT ![r] = IdleRefresh]
  /\ UNCHANGED <<form, out, server, fault>>

\* The answer of a refresh.  It sets a cookie, clears it, or was lost; it is
\* the provider's first at boot, and what a recovery waits for afterwards.
RefreshReturns(r) ==
  /\ ref[r].st = "answered"
  /\ cookie' = IF ref[r].lost THEN cookie ELSE ref[r].row
  /\ LET row  == IF ref[r].current THEN ref[r].row ELSE None
         t    == [tab EXCEPT !.shared = IF @ = r THEN None ELSE @]
         free == [ref EXCEPT ![r] = IdleRefresh]
     IN IF tab.loading
        THEN IF row = None
             THEN tab' = [t EXCEPT !.loading = FALSE] /\ ref' = free /\ UNCHANGED <<req, form>>
             ELSE /\ tab' = [SignedIn(t, row) EXCEPT !.loading = FALSE]
                  /\ FirstRequest(row) /\ ref' = free /\ UNCHANGED form
        ELSE IF row = None /\ tab.pending = r
        THEN ExpireSession(t, Settled(r, None), free)
        ELSE /\ tab' = [t EXCEPT !.access  = IF row = None THEN @ ELSE row,
                                 !.pending = IF @ = r THEN None ELSE @]
             /\ req' = Settled(r, row) /\ ref' = free /\ UNCHANGED form
  /\ UNCHANGED <<out, server, fault>>

-----------------------------------------------------------------------------
\* The console is opened; a cookie may be left from an earlier visit.
Init ==
  /\ tab = [admin |-> None, access |-> None, loading |-> TRUE, challenge |-> FALSE,
            shared |-> 1, pending |-> None]
  /\ req = [c \in Requests |-> IdleRequest]
  /\ form = IdleForm /\ out = IdleLogout /\ fault = FALSE
  /\ \E live \in SUBSET {1} :
       server = [live |-> live, stale |-> {}, used |-> 1, family |-> [row \in Rows |-> 1]]
  /\ cookie \in {None, 1}
  /\ ref = [r \in Refs |-> IF r = 1 THEN [IdleRefresh EXCEPT !.st = "sent", !.carry = cookie,
                                                             !.current = TRUE]
                           ELSE IdleRefresh]

Server  == \/ \E r \in Refs : ServeRefresh(r)
           \/ \E c \in Requests : ServeRequest(c)
           \/ ServeForm \/ ServeLogout
Trouble == \/ AccessExpires \/ RevokedElsewhere \/ OtherTabRefreshes
           \/ \E r \in Refs : RefreshLost(r)
Answers == \/ FormReturns \/ LogoutReturns
           \/ \E r \in Refs : RefreshReturns(r)
           \/ \E c \in Requests : \/ RequestSucceeds(c) \/ RequestRefused(c) \/ SendAgain(c)
                                  \/ Recover(c) \/ RefusedAgain(c)
User    == \/ SignIn \/ CompleteMFA
           \/ SignOut \/ RefreshDirectly
           \/ \E c \in Requests : SendRequest(c)

Next == Server \/ Trouble \/ Answers \/ User

\* Calls are served and their answers arrive: a browser gives a call up in the
\* end, which is an answer that was lost.
Fairness == /\ \A r \in Refs : WF_vars(ServeRefresh(r)) /\ WF_vars(RefreshReturns(r))
            /\ \A c \in Requests : /\ WF_vars(ServeRequest(c))
                                   /\ WF_vars(RequestSucceeds(c) \/ RequestRefused(c) \/ SendAgain(c)
                                              \/ Recover(c) \/ RefusedAgain(c))

Spec     == Init /\ [][Next]_vars
FairSpec == Spec /\ Fairness

-----------------------------------------------------------------------------
\* The administrator the pages show and the access token in the provider's ref
\* are set and dropped together: no late answer leaves a token behind a
\* sign-out, or an administrator without a token.
HeldTogether == (tab.admin = None) <=> (tab.access = None)

\* However many requests are refused at once, one refresh is under way for a
\* session: a second one with the same cookie would end the family.
OneRefresh ==
  Cardinality({r \in Refs : ref[r].st # "idle" /\ ref[r].current}) <= 1

\* With the types, the two of them are what a tab's session rests on.
SessionSound == TypeOK /\ HeldTogether /\ OneRefresh

\* A request is sent a second time with a token newer than the one it was
\* refused with, and only for as long as the session it was sent under lasts.
SentAgainUnderSameSession ==
  [][\A c \in Requests : req[c].st \in {"answered", "waiting"} /\ req'[c].st = "resent" =>
        /\ req[c].mine /\ req'[c].row = tab'.access /\ req'[c].row # req[c].row
        /\ tab.admin # None /\ tab'.admin = tab.admin]_vars

\* The provider ends a session though nothing that the tab could not tell has
\* happened to it; and the browser's cookie still goes on with that session.
GivenUp == tab.admin # None /\ tab'.admin = None /\ ~fault
GoesOn  == cookie' \in server.live /\ server.family[cookie'] = server.family[tab.access]

\* The wrapper gives a session up only when the browser's cookie does not go on
\* with it either, as long as no answer was lost, no other tab refreshed and no
\* refresh that nobody needed overtook a request.  The cookie may be of an
\* earlier session: the answer of a refresh that was under way at a sign-out can
\* arrive last.  It is about tokens that are not accepted: a second factor that
\* is confirmed with a wrong code ends a session that goes on.
GivesUpOnlyWhenDead ==
  [][(\/ \E r \in Refs : RefreshReturns(r)
      \/ \E c \in Requests : RefusedAgain(c) /\ req[c].answer = "refused")
     /\ GivenUp => ~GoesOn]_vars

\* A request that waits for a recovery waits for a call that is under way, so
\* that the answer, or its loss, lets it go on whatever session has begun.
WaitsForACall ==
  \A c \in Requests : req[c].st = "waiting" => ref[req[c].wait].st # "idle"

\* A request that was refused does not wait for ever.
EveryRequestEnds ==
  \A c \in Requests : req[c].st = "waiting" ~> req[c].st # "waiting"

\* --- what a user of the console would expect, and does not hold ---

\* A code that is typed wrong costs nobody the session.
WrongCodeEndsNothing ==
  [][(\E c \in Requests : RefusedAgain(c) /\ req[c].answer = "denied") /\ GivenUp => ~GoesOn]_vars

\* An answer to a request of an earlier session does not end a later one.
LaterSessionSurvives ==
  [][\A c \in Requests : RequestRefused(c) /\ tab'.admin # tab.admin =>
                           server.family[req[c].row] = tab.admin]_vars

\* The token the provider holds is of the administrator the pages show.
TokenOfTheAdmin == tab.access # None => server.family[tab.access] = tab.admin

\* A sign-out that was served ends the session of the cookie it went with.
SignedOutIsOver ==
  out.st = "answered" /\ out.carry # None =>
    \A row \in server.live : server.family[row] # server.family[out.carry]
=============================================================================
