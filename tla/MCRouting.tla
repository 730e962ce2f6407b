----------------------------- MODULE MCRouting -----------------------------
(***************************************************************************)
(* Three clients, of one type or of two: the loops need two survivors of a *)
(* removal, or three removals in one vector, to go wrong.                  *)
(***************************************************************************)
EXTENDS Routing
=============================================================================
