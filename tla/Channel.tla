------------------------------- MODULE Channel -------------------------------
(***************************************************************************)
(* What a connection promises the callbacks of its receiver: the messages  *)
(* its peer sends arrive whole, once each and in the order of sending,     *)
(* until the connection ends, after which nothing arrives any more.        *)
(***************************************************************************)
EXTENDS Naturals, Sequences

CONSTANT Message    \* the messages the peer sends, in order

VARIABLES offered,      \* how many messages the peer has sent
          delivered,    \* the messages handed to the callbacks
          ended         \* the receiver has left its loop

vars == <<offered, delivered, ended>>

Init == offered = 0 /\ delivered = <<>> /\ ended = FALSE

Offer ==
    /\ offered < Len(Message)
    /\ offered' = offered + 1
    /\ UNCHANGED <<delivered, ended>>

Deliver ==
    /\ ~ended
    /\ Len(delivered) < offered
    /\ delivered' = Append(delivered, Message[Len(delivered) + 1])
    /\ UNCHANGED <<offered, ended>>

End ==
    /\ ended' = TRUE
    /\ UNCHANGED <<offered, delivered>>

Next == Offer \/ Deliver \/ End

Spec == Init /\ [][Next]_vars
=============================================================================
