---------------------------- MODULE MCTCPServer ----------------------------
(***************************************************************************)
(* Three connections (two in the larger deployment) whose first two answer *)
(* with the same uuid, which is what DBClient does by leaving it 0.        *)
(***************************************************************************)
EXTENDS TCPServer

CONSTANTS c1, c2, c3
MCUuidOf == [c \in Conn |-> IF c = c3 THEN 1 ELSE 0]
=============================================================================
