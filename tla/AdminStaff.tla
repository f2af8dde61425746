----------------------------- MODULE AdminStaff -----------------------------
(***************************************************************************)
(* Who may work in the admin console: the page of the administrators and    *)
(* their invitations, the page of the roles, the page behind an invitation  *)
(* link, and the admin API behind them.  One person is invited here, under  *)
(* one e-mail address.  Invitations have links; reissuing one replaces its  *)
(* link.  The person's role grants a permission or does not; the roles page *)
(* edits that.  The page of the administrators has no guard of its own: its *)
(* calls and those of others overlap.                                       *)
(***************************************************************************)
EXTENDS Naturals, FiniteSets

CONSTANTS Invitations,  \* rows of admin_invitations for the address
          StaffCalls,   \* calls of the pages under way at a time
          MaxLinks      \* bound on the links ever made

ASSUME StaffAssumption == Invitations # {} /\ IsFiniteSet(Invitations) /\ MaxLinks \in Nat

VARIABLES invitation,   \* the rows: state, not yet expired, link
          links,        \* links made so far
          person,       \* the account, its session, and what its role grants
          office,       \* the administrators' page, or the roles' page
          listing,      \* the two GETs of the effect of the page
          errand,       \* the calls of the page
          guest         \* the page behind a link, and its request

staffVars == <<invitation, links, person, office, listing, errand, guest>>

NoInvitation == [st |-> "none", current |-> FALSE, link |-> 0]
NoErrand     == [st |-> "none", kind |-> "none", id |-> 0, value |-> FALSE, row |-> NoInvitation]
Lists        == {"people", "invitations"}
NoListing    == [st |-> "none", rows |-> [i \in Invitations |-> NoInvitation], account |-> "none", grant |-> FALSE]

Open(i)   == invitation[i].st = "open"
Active(i) == Open(i) /\ invitation[i].current
Fresh     == [st |-> "open", current |-> TRUE, link |-> links + 1]
CutOff(p) == [p EXCEPT !.session = IF @ = "live" THEN "none" ELSE @]

-----------------------------------------------------------------------------
(* The admin API.                                                          *)

\* Administrator and active invitation are looked up before the row is
\* written, without a lock: another creation may come in between.
CheckInvitation(c) ==
  /\ errand[c].st = "sent" /\ errand[c].kind = "invite"
  /\ person.account = "none" /\ ~\E i \in Invitations : Active(i)
  /\ errand' = [errand EXCEPT ![c].st = "checked"]
  /\ UNCHANGED <<invitation, links, person, office, listing, guest>>

Issue(c, i) ==
  /\ links < MaxLinks
  /\ links' = links + 1
  /\ invitation' = [invitation EXCEPT ![i] = Fresh]
  /\ errand' = [errand EXCEPT ![c].st = "done", ![c].id = i, ![c].row = Fresh]
  /\ UNCHANGED <<person, office, listing, guest>>

CreateInvitation(c) ==
  /\ errand[c].st = "checked"
  /\ \E i \in Invitations : invitation[i].st = "none" /\ Issue(c, i)

\* An invitation that has expired can be reissued as well.
ReissueInvitation(c) ==
  /\ errand[c].st = "sent" /\ errand[c].kind = "reissue"
  /\ Open(errand[c].id)
  /\ Issue(c, errand[c].id)

RevokeInvitation(c) ==
  /\ errand[c].st = "sent" /\ errand[c].kind = "revoke"
  /\ Active(errand[c].id)
  /\ invitation' = [invitation EXCEPT ![errand[c].id].st = "revoked"]
  /\ errand' = [errand EXCEPT ![c].st = "done"]
  /\ UNCHANGED <<links, person, office, listing, guest>>

\* Disabling an account and changing a role's permissions or an account's
\* role end the sessions they concern.
SetAdminStatus(active) ==
  IF active THEN [person EXCEPT !.account = "active"] ELSE [CutOff(person) EXCEPT !.account = "disabled"]

UpdateRolePermissions(grant) == [CutOff(person) EXCEPT !.grant = grant]

ServeErrand(c) ==
  /\ errand[c].st = "sent"
  /\ \/ errand[c].kind = "status" /\ person' = SetAdminStatus(errand[c].value)
     \/ errand[c].kind = "role" /\ person' = CutOff(person)
     \/ errand[c].kind = "permissions" /\ person' = UpdateRolePermissions(errand[c].value)
  /\ errand' = [errand EXCEPT ![c].st = "done"]
  /\ UNCHANGED <<invitation, links, office, listing, guest>>

\* What is refused, or fails, or whose answer is lost: the page only says so.
ErrandFails(c) ==
  /\ errand[c].st # "none"
  /\ errand' = [errand EXCEPT ![c] = NoErrand]
  /\ UNCHANGED <<invitation, links, person, office, listing, guest>>

ServeListing(w) ==
  /\ listing[w].st = "sent"
  /\ \/ listing' = [listing EXCEPT ![w] = NoListing]
     \/ listing' = [listing EXCEPT ![w] =
          IF w = "invitations" THEN [NoListing EXCEPT !.st = "done", !.rows = invitation]
          ELSE [NoListing EXCEPT !.st = "done", !.account = person.account, !.grant = person.grant]]
  /\ UNCHANGED <<invitation, links, person, office, errand, guest>>

InvitationExpires(i) ==
  /\ Active(i)
  /\ invitation' = [invitation EXCEPT ![i].current = FALSE]
  /\ UNCHANGED <<links, person, office, listing, errand, guest>>

\* Mutant: an address may have several accounts.
AcceptAnyInvitation ==
  /\ guest.st = "submitted"
  /\ \E i \in Invitations :
       /\ Active(i) /\ invitation[i].link = guest.link
       /\ invitation' = [invitation EXCEPT ![i].st = "accepted"]
  /\ person' = [person EXCEPT !.account = "active"]
  /\ guest' \in {[guest EXCEPT !.st = "accepted"], [guest EXCEPT !.st = "shown"]}
  /\ UNCHANGED <<links, office, listing, errand>>

\* The row with the link of the request is locked; the address is unique
\* among the accounts, so a second invitation for it cannot be accepted.
AcceptInvitation ==
  /\ guest.st = "submitted"
  /\ \E i \in Invitations :
       /\ Active(i) /\ invitation[i].link = guest.link
       /\ person.account = "none"
       /\ invitation' = [invitation EXCEPT ![i].st = "accepted"]
  /\ person' = [person EXCEPT !.account = "active"]
  /\ guest' \in {[guest EXCEPT !.st = "accepted"], [guest EXCEPT !.st = "shown"]}
  /\ UNCHANGED <<links, office, listing, errand>>

\* Signing in reads the account, then makes the session.
LoginReads ==
  /\ person.account = "active" /\ person.session = "none"
  /\ person' = [person EXCEPT !.session = "checked"]
  /\ UNCHANGED <<invitation, links, office, listing, errand, guest>>

IssueSession ==
  /\ person.session = "checked"
  /\ person' = [person EXCEPT !.session = "live"]
  /\ UNCHANGED <<invitation, links, office, listing, errand, guest>>

-----------------------------------------------------------------------------
(* The pages.                                                              *)

\* A new token starts the effect again; the answers of the one before it are
\* cancelled.
TokenIsReplaced ==
  /\ office.at # "login"
  /\ listing' = [w \in Lists |-> IF w = "people" \/ office.at = "people"
                                 THEN [NoListing EXCEPT !.st = "sent"] ELSE NoListing]
  /\ UNCHANGED <<invitation, links, person, office, errand, guest>>

ListingArrives(w) ==
  /\ listing[w].st = "done"
  /\ office' = IF office.at = "login" THEN office
               ELSE IF w = "invitations" THEN [office EXCEPT !.rows = listing[w].rows]
               ELSE IF office.at = "people" THEN [office EXCEPT !.account = listing[w].account, !.loaded = TRUE]
               ELSE [office EXCEPT !.grant = listing[w].grant, !.loaded = TRUE]
  /\ listing' = [listing EXCEPT ![w] = NoListing]
  /\ UNCHANGED <<invitation, links, person, errand, guest>>

Click(kind, id, value) ==
  /\ \E c \in StaffCalls :
       /\ errand[c].st = "none"
       /\ errand' = [errand EXCEPT ![c] = [NoErrand EXCEPT !.st = "sent", !.kind = kind, !.id = id, !.value = value]]
  /\ UNCHANGED <<invitation, links, person, office, listing, guest>>

ClickInvite ==
  office.at = "people" /\ office.loaded /\ Click("invite", 0, FALSE)

ClickInvitation(i) ==
  /\ office.at = "people" /\ office.rows[i].st = "open" /\ office.rows[i].current
  /\ \E kind \in {"reissue", "revoke"} : Click(kind, i, FALSE)

ClickStatus ==
  office.at = "people" /\ office.account # "none" /\ Click("status", 0, office.account = "disabled")

ClickRole ==
  office.at = "people" /\ office.account # "none" /\ Click("role", 0, FALSE)

\* The permissions of the roles page can be edited while they are saved.
TogglePermission ==
  /\ office.at = "roles" /\ office.loaded
  /\ office' = [office EXCEPT !.grant = ~@]
  /\ UNCHANGED <<invitation, links, person, listing, errand, guest>>

SaveRole ==
  /\ office.at = "roles" /\ office.loaded
  /\ \A c \in StaffCalls : errand[c].st = "none"
  /\ Click("permissions", 0, office.grant)

\* Whoever saved a role of theirs has to sign in again.
ErrandReturns(c) ==
  /\ errand[c].st = "done"
  /\ LET e == errand[c]
     IN office' \in
          IF office.at = "login" THEN {office}
          ELSE CASE e.kind \in {"invite", "reissue"} ->
                      {[office EXCEPT !.rows[e.id] = e.row, !.link = e.row.link]}
                 [] e.kind = "revoke" -> {[office EXCEPT !.rows[e.id].st = "revoked"]}
                 [] e.kind = "status" -> {[office EXCEPT !.account = IF e.value THEN "active" ELSE "disabled"]}
                 [] e.kind = "role" -> {office}
                 [] e.kind = "permissions" -> {office, [office EXCEPT !.at = "login"]}
  /\ errand' = [errand EXCEPT ![c] = NoErrand]
  /\ UNCHANGED <<invitation, links, person, listing, guest>>

\* The link comes from the administrators' page, by whatever way; the page
\* behind it refuses one that is of no active invitation.
OpenLink ==
  /\ guest.st = "away" /\ office.link # 0
  /\ \E i \in Invitations : Active(i) /\ invitation[i].link = office.link
  /\ guest' = [st |-> "shown", link |-> office.link]
  /\ UNCHANGED <<invitation, links, person, office, listing, errand>>

SubmitPassword ==
  /\ guest.st = "shown"
  /\ guest' = [guest EXCEPT !.st = "submitted"]
  /\ UNCHANGED <<invitation, links, person, office, listing, errand>>

SubmitFails ==
  /\ guest.st = "submitted"
  /\ guest' = [guest EXCEPT !.st = "shown"]
  /\ UNCHANGED <<invitation, links, person, office, listing, errand>>

CloseLink ==
  /\ guest.st = "shown"
  /\ guest' = [st |-> "away", link |-> 0]
  /\ UNCHANGED <<invitation, links, person, office, listing, errand>>

-----------------------------------------------------------------------------
\* An invitation of before, whose link (0 stands for it) nobody has anymore:
\* there is none, it is open, or the account was made from it.
Earlier == CHOOSE i \in Invitations : TRUE

StaffInit ==
  /\ links = 0
  /\ \E at \in {"people", "roles"} :
       /\ person = [account |-> IF at = "people" THEN "none" ELSE "active", session |-> "none", grant |-> FALSE]
       /\ \E st \in IF at = "people" THEN {"none", "open"} ELSE {"accepted"} :
            invitation = [i \in Invitations |-> IF i = Earlier THEN [NoInvitation EXCEPT !.st = st, !.current = st = "open"]
                                                 ELSE NoInvitation]
       /\ office = [at |-> at, rows |-> [i \in Invitations |-> NoInvitation], account |-> "none",
                    grant |-> FALSE, loaded |-> FALSE, link |-> 0]
       /\ listing = [w \in Lists |-> IF w = "people" \/ at = "people"
                                     THEN [NoListing EXCEPT !.st = "sent"] ELSE NoListing]
  /\ errand = [c \in StaffCalls |-> NoErrand]
  /\ guest = [st |-> "away", link |-> 0]

StaffNext ==
  \/ \E c \in StaffCalls :
       \/ CheckInvitation(c) \/ CreateInvitation(c) \/ ReissueInvitation(c) \/ RevokeInvitation(c)
       \/ ServeErrand(c) \/ ErrandFails(c) \/ ErrandReturns(c)
  \/ \E w \in Lists : ServeListing(w) \/ ListingArrives(w)
  \/ \E i \in Invitations : InvitationExpires(i) \/ ClickInvitation(i)
  \/ AcceptInvitation \/ LoginReads \/ IssueSession
  \/ TokenIsReplaced \/ ClickInvite \/ ClickStatus \/ ClickRole \/ TogglePermission \/ SaveRole
  \/ OpenLink \/ SubmitPassword \/ SubmitFails \/ CloseLink

StaffSpec == StaffInit /\ [][StaffNext]_staffVars

-----------------------------------------------------------------------------
\* An account comes from one invitation and an accepted invitation made one,
\* though two invitations for an address can be open at once: two creations
\* pass their checks together, or an expired one is reissued beside a new one.
OneAccountPerLink ==
  Cardinality({i \in Invitations : invitation[i].st = "accepted"}) = IF person.account = "none" THEN 0 ELSE 1

\* --- what a user of the console would expect, and does not hold ---

\* The link on the page is that of an invitation, or was replaced by nobody
\* else.
ShownLinkWorks ==
  (\A c \in StaffCalls : errand[c].st = "none") /\ office.link # 0
    => \E i \in Invitations : invitation[i].link = office.link

\* An address has one invitation that can be accepted.
OneOpenInvitation == Cardinality({i \in Invitations : Active(i)}) <= 1

\* A disabled account has no session that works once it is enabled again.
DisabledHasNoSession == person.account = "disabled" => person.session # "live"
=============================================================================
