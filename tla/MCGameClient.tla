----------------------------- MODULE MCGameClient -----------------------------
(***************************************************************************)
(* GameClient with two sockets of one tab and a small message queue.  The  *)
(* cards chosen on the page and in the floating window decide only whether *)
(* a place_facedown may go, which it also may from a board at rest: outside*)
(* such states, and on the other pages, states that differ in nothing else  *)
(* are taken for one.  So are states that differ in the name of the socket  *)
(* the page has, in how it was lost, or in what only the other page uses.  *)
(***************************************************************************)
EXTENDS GameClient

ClientView ==
  LET atRest == Settled /\ page = "game"
      first  == IF hook.cur = None THEN {} ELSE {hook.cur}
      Of(ss) == {<<socks[s], room.conn = s>> : s \in ss}
      used   == IF page = "game" THEN <<hook.kind, hook.voted, hook.left>> ELSE <<hook.lobby>>
      status == IF hook.status = "error" THEN "closed" ELSE hook.status
  IN <<page, hook.phase, hook.over, hook.closed, hook.retry, hook.turn, used, status,
       Of(first), Of(Sockets \ first), [room EXCEPT !.conn = @ # None],
       ui.was, ui.asked, ui.dirty,
       IF atRest THEN <<ui.picked, ui.pip, ui.pipPicked>> ELSE <<>> >>
=============================================================================
