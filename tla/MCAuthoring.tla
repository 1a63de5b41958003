---------------------------- MODULE MCAuthoring ----------------------------
(* A draft of three questions, so that two orders can mix to a third, edited *)
(* by a few requests.  New ids sort before, between and after those it has.  *)
EXTENDS Authoring

Draft == <<2, 3, 5>>
New == <<<<1>>, <<6>>, <<4>>>>
\* Three whose steps can wait in a circle, or mix; and with a question added or deleted.
SomeLists == {<<3, 2, 5>>, <<2, 5, 3>>, <<5, 3, 2>>, <<3, 5, 1, 2>>, <<5, 2>>}
Endpoints == DOMAIN FirstStep
=============================================================================
