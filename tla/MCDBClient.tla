----------------------------- MODULE MCDBClient -----------------------------
(***************************************************************************)
(* Queries of files and typed ones on two workers; the first item of the   *)
(* first plan may find the socket full.                                    *)
(***************************************************************************)
EXTENDS DBClient

MCCongested == {Msg("item", 1, 1)}
=============================================================================
