------------------------------- MODULE Routing -------------------------------
(***************************************************************************)
(* The operations of src/cpp/code/src/server/TCPServer.cpp that walk the   *)
(* client vectors while sends fail and clients are erased under them: one  *)
(* thread runs them, one loop iteration per step, while peers leave and    *)
(* receivers notice it.  (TCPServer.tla has the threads among themselves.) *)
(*                                                                         *)
(* A client stands for its ClientInfo*.  Of a vector the model keeps the   *)
(* memory: erase shifts the later elements down and leaves the last slot   *)
(* as it was, and some loops below read it.                                *)
(***************************************************************************)
EXTENDS Naturals, Sequences, FiniteSets

CONSTANTS Client,       \* the clients, named by their uuids
          Nobody,       \* no client
          Types,        \* how many unit types there are, in map order 1, 2, ...
          SlowPeers     \* a peer may not take its data fast enough

ASSUME NobodyIsNobody == Nobody \notin Client
ASSUME TypesType == Types \in Nat \ {0}
ASSUME SlowPeersType == SlowPeers \in BOOLEAN

VARIABLES slots,    \* the memory of each vector of clientMap
          size,     \* its size
          uuids,    \* the clients in clientUuidMap
          gone,     \* peers that have left
          aborted,  \* infos with abort set
          freed,    \* infos deleted
          got,      \* whole copies each client was sent by the operation
          torn,     \* clients that were sent a part of one
          op,       \* the operation running: its arguments, its loop variables,
                    \* and the infos that were out of use when it began
          last,     \* the operation that returned last, what it returned, the
                    \* clients registered then and the infos it deleted
          fault     \* undefined behaviour has happened

vecVars == <<slots, size, uuids>>
infoVars == <<aborted, freed>>
sentVars == <<got, torn>>
vars == <<vecVars, infoVars, gone, sentVars, op, last, fault>>

Type == 1..Types
Idle == [name |-> "idle", type |-> 0, orig |-> Nobody,
         i |-> 0, end |-> 0, first |-> 0, list |-> <<>>, before |-> {}]

Nothing == [name |-> "idle", type |-> 0, orig |-> Nobody, ok |-> FALSE,
            before |-> {}, left |-> [t \in Type |-> {}], deleted |-> {}]

\* The vector itself.
Vec(t) == {slots[t][i] : i \in 1..size[t]}
Registered == UNION {Vec(t) : t \in Type}
HasClients == \E t \in Type : size[t] > 0

OpNames == {"idle", "all", "ofType", "any", "reroute", "clear"}

Frame == [name : OpNames, type : 0..Types, orig : Client \cup {Nobody},
          i : Nat, end : Nat, first : Nat, list : Seq(Client), before : SUBSET Client]

Report == [name : OpNames, type : 0..Types, orig : Client \cup {Nobody}, ok : BOOLEAN,
           before : SUBSET Client, left : [Type -> SUBSET Client], deleted : SUBSET Client]

TypeOK ==
    /\ slots \in [Type -> Seq(Client)]
    /\ size \in [Type -> Nat] /\ \A t \in Type : size[t] <= Len(slots[t])
    /\ {uuids, gone, aborted, freed, torn} \subseteq SUBSET Client
    /\ got \in [Client -> Nat]
    /\ op \in Frame
    /\ last \in Report
    /\ fault \in BOOLEAN

Init ==
    /\ slots = [t \in Type |-> <<>>]
    /\ size = [t \in Type |-> 0]
    /\ uuids = {} /\ gone = {} /\ aborted = {} /\ freed = {}
    /\ got = [c \in Client |-> 0]
    /\ torn = {}
    /\ op = Idle
    /\ last = Nothing
    /\ fault = FALSE

-----------------------------------------------------------------------------
(* Peers, receivers and the accept thread                                  *)

\* What the last operation sent and returned is remembered until something
\* happens after it.
NothingSent == got' = [c \in Client |-> 0] /\ torn' = {}

Forget ==
    IF op.name = "idle" THEN NothingSent /\ last' = Nothing
                        ELSE UNCHANGED <<sentVars, last>>

\* push_back, into the slot an erased client may have left.
Connect(c, t) ==
    /\ op.name = "idle"
    /\ c \notin Registered \cup freed
    /\ LET n == size[t] + 1
       IN  /\ slots' = [slots EXCEPT ![t] = IF n <= Len(@) THEN [@ EXCEPT ![n] = c]
                                                           ELSE Append(@, c)]
           /\ size' = [size EXCEPT ![t] = n]
    /\ uuids' = uuids \cup {c}
    /\ Forget
    /\ UNCHANGED <<infoVars, gone, op, fault>>

Leave(c) ==
    /\ c \in Registered \ gone
    /\ gone' = gone \cup {c}
    /\ Forget
    /\ UNCHANGED <<vecVars, infoVars, op, fault>>

\* recv returns 0 and abort is set.  (A receiver whose recv fails leaves its
\* loop without setting abort, which changes nothing here.)
ReceiverEnds(c) ==
    /\ c \in (Registered \cap gone) \ aborted
    /\ aborted' = aborted \cup {c}
    /\ Forget
    /\ UNCHANGED <<vecVars, freed, gone, op, fault>>

-----------------------------------------------------------------------------
(* Sending and removing                                                    *)

\* A send to a peer that has left may still succeed; EAGAIN fails one to a
\* healthy peer.
MayFail(c) == SlowPeers \/ c \in gone

\* send takes the whole message, or only what fits into the socket's buffer;
\* neither is a failure.
Sent(c) ==
    \/ got' = [got EXCEPT ![c] = @ + 1] /\ UNCHANGED torn
    \/ SlowPeers /\ torn' = torn \cup {c} /\ UNCHANGED got

\* Mutant: the deleted info stays in its vector.
RemovedKeepsSlot(t, c) ==
    /\ aborted' = aborted \cup {c}
    /\ freed' = freed \cup {c}
    /\ uuids' = uuids \ {c}
    /\ UNCHANGED <<slots, size>>

\* Mutant: the uuid stays in its map.
RemovedKeepsUuid(t, c) ==
    LET p == CHOOSE i \in 1..Len(slots[t]) : slots[t][i] = c
    IN  /\ aborted' = aborted \cup {c}
        /\ freed' = freed \cup {c}
        /\ slots' = [slots EXCEPT ![t] = [i \in 1..Len(@) |->
                        IF i \in p..(size[t] - 1) THEN @[i + 1] ELSE @[i]]]
        /\ size' = [size EXCEPT ![t] = @ - 1]
        /\ UNCHANGED uuids

\* removeClient(type, info): nothing when the info is not in the vector.
Removed(t, c) ==
    IF c \notin Vec(t)
    THEN UNCHANGED <<vecVars, infoVars>>
    ELSE LET p == CHOOSE i \in 1..size[t] : slots[t][i] = c
         IN  /\ uuids' = uuids \ {c}
             /\ aborted' = aborted \cup {c}
             /\ freed' = freed \cup {c}
             /\ slots' = [slots EXCEPT ![t] = [i \in 1..Len(@) |->
                            IF i \in p..(size[t] - 1) THEN @[i + 1] ELSE @[i]]]
             /\ size' = [size EXCEPT ![t] = @ - 1]

Break ==
    /\ fault' = TRUE
    /\ UNCHANGED <<vecVars, infoVars, gone, sentVars, op, last>>

-----------------------------------------------------------------------------
(* Beginning and ending an operation                                       *)

Begin(frame) ==
    /\ op.name = "idle"
    /\ op' = frame
    /\ NothingSent
    /\ last' = Nothing
    /\ UNCHANGED <<vecVars, infoVars, gone, fault>>

Return(ok) ==
    /\ op' = Idle
    /\ last' = [name |-> op.name, type |-> op.type, orig |-> op.orig, ok |-> ok,
                before |-> op.before, left |-> [t \in Type |-> Vec(t)],
                deleted |-> freed \ op.before]

Goto(i) == op' = [op EXCEPT !.i = i] /\ UNCHANGED last
Stay == UNCHANGED <<op, last>>

BeginAll ==
    HasClients /\ Begin([Idle EXCEPT !.name = "all", !.type = 1, !.i = 1])

BeginClear ==
    Begin([Idle EXCEPT !.name = "clear", !.type = 1, !.i = 1, !.before = aborted])

\* The loop runs over a copy of the vector.
BeginOfType(t) ==
    /\ HasClients
    /\ Begin([Idle EXCEPT !.name = "ofType", !.type = t, !.i = 1,
                          !.list = SubSeq(slots[t], 1, size[t])])

BeginAny(t) == HasClients /\ Begin([Idle EXCEPT !.name = "any", !.type = t])

\* From a random index to the end, then from the start to that index; both
\* ends are fixed now.
BeginReroute(t, c) ==
    /\ size[t] > 0
    /\ \E idx \in 1..size[t] :
         Begin([Idle EXCEPT !.name = "reroute", !.type = t, !.orig = c,
                            !.i = idx, !.end = size[t] + 1, !.first = idx,
                            !.before = freed])

-----------------------------------------------------------------------------
(* One iteration of each loop                                              *)

\* sendToAll and clear_aborted: the end of a vector leads to the next type, the
\* end of the map to the return.
AtVectorEnd == op.i > size[op.type]

NextVector ==
    /\ op.name \in {"all", "clear"} /\ AtVectorEnd
    /\ IF op.type = Types
       THEN Return(TRUE)
       ELSE op' = [op EXCEPT !.type = @ + 1, !.i = 1] /\ UNCHANGED last
    /\ UNCHANGED <<vecVars, infoVars, gone, sentVars, fault>>

\* The client the iterator stands on; after an erase that is the next one.
Current == slots[op.type][op.i]

AllSends ==
    /\ op.name = "all" /\ ~AtVectorEnd
    /\ Sent(Current)
    /\ Goto(op.i + 1)
    /\ UNCHANGED <<vecVars, infoVars, gone, fault>>

\* Mutant: the iterator moves on after an erase as well.
AllSkips ==
    /\ op.name = "all" /\ ~AtVectorEnd
    /\ MayFail(Current)
    /\ Removed(op.type, Current)
    /\ Goto(op.i + 1)
    /\ UNCHANGED <<gone, sentVars, fault>>

AllRemoves ==
    /\ op.name = "all" /\ ~AtVectorEnd
    /\ MayFail(Current)
    /\ Removed(op.type, Current)
    /\ Stay
    /\ UNCHANGED <<gone, sentVars, fault>>

ClearRemoves ==
    /\ op.name = "clear" /\ ~AtVectorEnd
    /\ Current \in aborted
    /\ Removed(op.type, Current)
    /\ Stay
    /\ UNCHANGED <<gone, sentVars, fault>>

ClearPasses ==
    /\ op.name = "clear" /\ ~AtVectorEnd
    /\ Current \notin aborted
    /\ Goto(op.i + 1)
    /\ UNCHANGED <<vecVars, infoVars, gone, sentVars, fault>>

\* sendToAllOfType: after a removal the iterator is not advanced, but the copy
\* still holds the info.
OfTypeEnds ==
    /\ op.name = "ofType" /\ op.i > Len(op.list)
    /\ Return(TRUE)
    /\ UNCHANGED <<vecVars, infoVars, gone, sentVars, fault>>

OfTypeSends ==
    /\ op.name = "ofType" /\ op.i <= Len(op.list)
    /\ op.list[op.i] \notin freed
    /\ Sent(op.list[op.i])
    /\ Goto(op.i + 1)
    /\ UNCHANGED <<vecVars, infoVars, gone, fault>>

OfTypeRemoves ==
    /\ op.name = "ofType" /\ op.i <= Len(op.list)
    /\ op.list[op.i] \notin freed /\ MayFail(op.list[op.i])
    /\ Removed(op.type, op.list[op.i])
    /\ Stay
    /\ UNCHANGED <<gone, sentVars, fault>>

\* sendTo(c) returns true, and its caller with it; or it returns false, and the
\* caller goes on as it does.
SendToTrue(c) ==
    /\ c \notin freed \cup aborted
    /\ Sent(c)
    /\ Return(TRUE)
    /\ UNCHANGED <<vecVars, infoVars, gone, fault>>

\* Mutant: a client that cannot be sent to is not removed.
SendToKeeps(c) ==
    /\ c \notin freed
    /\ c \in aborted \/ MayFail(c)
    /\ UNCHANGED <<vecVars, infoVars, gone, sentVars, fault>>

SendToFalse(c) ==
    /\ c \notin freed
    /\ c \in aborted \/ MayFail(c)
    /\ Removed(op.type, c)
    /\ UNCHANGED <<gone, sentVars, fault>>

\* sendToAnyOfType: again and again a random client of the type.
AnyTries ==
    /\ op.name = "any"
    /\ \E i \in 1..size[op.type] :
         LET c == slots[op.type][i]
         IN  SendToTrue(c) \/ (SendToFalse(c) /\ Stay)

\* Mutant: a failed send is not retried with another client.
AnyGivesUpEarly ==
    /\ op.name = "any"
    /\ Return(FALSE)
    /\ UNCHANGED <<vecVars, infoVars, gone, sentVars, fault>>

AnyGivesUp ==
    /\ op.name = "any" /\ size[op.type] = 0
    /\ Return(FALSE)
    /\ UNCHANGED <<vecVars, infoVars, gone, sentVars, fault>>

\* rerouteToAnyOfType: the slot is read by index although the vector may have
\* become shorter.
RerouteTries ==
    /\ op.name = "reroute" /\ op.i # op.end
    /\ Current \notin freed /\ Current # op.orig
    /\ SendToTrue(Current) \/ (SendToFalse(Current) /\ Goto(op.i + 1))

ReroutePasses ==
    /\ op.name = "reroute" /\ op.i # op.end
    /\ Current \notin freed /\ Current = op.orig
    /\ Goto(op.i + 1)
    /\ UNCHANGED <<vecVars, infoVars, gone, sentVars, fault>>

\* The second round ends where the first began.
RerouteEnds ==
    /\ op.name = "reroute" /\ op.i = op.end
    /\ IF op.end # op.first
       THEN op' = [op EXCEPT !.i = 1, !.end = op.first] /\ UNCHANGED last
       ELSE Return(FALSE)
    /\ UNCHANGED <<vecVars, infoVars, gone, sentVars, fault>>

\* The infos the iteration at hand may read.
Reads ==
    CASE op.name \in {"all", "clear"} -> IF AtVectorEnd THEN {} ELSE {Current}
      [] op.name = "ofType"  -> IF op.i > Len(op.list) THEN {} ELSE {op.list[op.i]}
      [] op.name = "any"     -> Vec(op.type)
      [] op.name = "reroute" -> IF op.i = op.end THEN {} ELSE {Current}
      [] OTHER               -> {}

\* One of them has been deleted: undefined behaviour.
UseAfterFree == Reads \cap freed # {} /\ Break

Iterate ==
    \/ NextVector \/ AllSends \/ AllRemoves \/ ClearRemoves \/ ClearPasses
    \/ OfTypeEnds \/ OfTypeSends \/ OfTypeRemoves
    \/ AnyTries \/ AnyGivesUp
    \/ RerouteTries \/ ReroutePasses \/ RerouteEnds
    \/ UseAfterFree

BeginSome ==
    \/ BeginAll \/ BeginClear
    \/ \E t \in Type : BeginOfType(t) \/ BeginAny(t) \/ \E c \in Client : BeginReroute(t, c)

Environment == 
    \E c \in Client :
        Leave(c) \/ ReceiverEnds(c) \/ \E t \in Type : Connect(c, t)

Next == ~fault /\ (Environment \/ BeginSome \/ Iterate)

Spec == Init /\ [][Next]_vars

\* The calling thread runs on.
FairSpec == Spec /\ WF_vars(~fault /\ Iterate)

-----------------------------------------------------------------------------
(* Properties *)

Returned(name) == op.name = "idle" /\ last.name = name

Receivers == {c \in Client : got[c] > 0} \cup torn

\* The vectors and the uuid map hold the same clients, each once and under one
\* type, and no deleted one, whatever was erased in the middle of a loop.
RegistryWhole ==
    /\ uuids = Registered
    /\ \A t \in Type : Cardinality(Vec(t)) = size[t]
    /\ \A t, u \in Type : t # u => Vec(t) \cap Vec(u) = {}
    /\ Registered \cap freed = {}

\* The two loops that erase under their own iterator reach everybody: when
\* sendToAll returns, every client registered then was sent the message, whole or
\* in part; when clear_aborted returns, no info is left that was aborted when it
\* began.  A removal, which shifts the rest of the vector, skips nobody.
LoopsReachAll ==
    \A t \in Type :
        /\ Returned("all") => \A c \in last.left[t] : got[c] = 1 \/ c \in torn
        /\ Returned("clear") => last.left[t] \cap last.before = {}

\* The two operations that look for one recipient: sendToAnyOfType sends to
\* exactly one client, once, however many retries there are, and to none only
\* when every client of the type has been removed.  rerouteToAnyOfType sends to
\* at most one and never back to the first recipient, and when no client had to
\* be removed on the way it fails only for want of another client.
OneRecipient ==
    /\ Cardinality(Receivers) <= 1 \/ ~(Returned("any") \/ Returned("reroute"))
    /\ Returned("any") =>
        IF last.ok THEN Receivers # {} /\ \A c \in Receivers : got[c] <= 1
                   ELSE Receivers = {} /\ last.left[last.type] = {}
    /\ Returned("reroute") =>
        /\ last.orig \notin Receivers
        /\ ~last.ok /\ last.deleted = {} => last.left[last.type] \subseteq {last.orig}

\* Only two of the operations can touch a deleted client.
WhereFaultsAre == fault => op.name \in {"ofType", "reroute"}

\* Every operation returns, however many clients fail under it.
OperationsReturn == op.name # "idle" ~> op.name = "idle" \/ fault
=============================================================================
