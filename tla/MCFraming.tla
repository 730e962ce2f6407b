----------------------------- MODULE MCFraming -----------------------------
(***************************************************************************)
(* A header of three bytes (two of delimiter, one of size), messages with  *)
(* an empty, a short and a long payload, one of which does not fit.        *)
(***************************************************************************)
EXTENDS Framing

MCN == 4
MCSize == <<1, 0, 2, 5>>
MCStart == <<0, 4, 7, 12, 20>>
=============================================================================
