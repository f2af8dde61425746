---------------------------- MODULE MCAdminSession ----------------------------
(***************************************************************************)
(* AdminSession with two requests.  States are taken for one that differ   *)
(* only in which request or call is which, in how a request was refused    *)
(* when that no longer counts, or in a form whose answer nobody wants.     *)
(***************************************************************************)
EXTENDS AdminSession

SessionView ==
  LET Call(r)  == IF r = None THEN {} ELSE {<<ref[r], r = tab.shared, r = tab.pending>>}
      Answer(c) == IF Refused(c) /\ (fault \/ ~req[c].mine) THEN "refused" ELSE req[c].answer
      Ask(c)   == <<[req[c] EXCEPT !.wait = None, !.answer = Answer(c)], Call(req[c].wait)>>
  IN <<{Ask(c) : c \in Requests}, Cardinality({req[c].wait : c \in Requests}),
       {Call(r) : r \in Refs}, [tab EXCEPT !.shared = None, !.pending = None],
       IF form.current THEN form ELSE [form EXCEPT !.mfa = FALSE, !.challenge = FALSE],
       out, server, cookie, fault>>
=============================================================================
