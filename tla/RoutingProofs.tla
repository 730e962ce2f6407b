---------------------------- MODULE RoutingProofs ----------------------------
(***************************************************************************)
(* Proofs about Routing for every number of clients and unit types.        *)
(* RegistryInv is what the registry keeps whatever the loops do to it;     *)
(* LoopInv, on top of it, is what the loops have done so far.              *)
(***************************************************************************)
EXTENDS Routing, SequenceTheorems, FiniteSetTheorems, TLAPS

\* No client is in two places.
SlotsOnce ==
    /\ \A t \in Type : \A i, j \in 1..size[t] : slots[t][i] = slots[t][j] => i = j
    /\ \A t, u \in Type : t # u => Vec(t) \cap Vec(u) = {}

\* The loop variables.  rerouteToAnyOfType keeps the bounds of its first round,
\* but the memory of a vector never shrinks.
InRange(i, t) == 1 <= i /\ i <= Len(slots[t]) + 1
LoopVariables ==
    /\ op.name # "idle" => op.type \in Type
    /\ op.name \in {"all", "clear", "ofType"} => 1 <= op.i
    /\ op.name = "reroute" => /\ InRange(op.first, op.type) /\ InRange(op.end, op.type)
                              /\ 1 <= op.i /\ op.i <= op.end

RegistryInv ==
    /\ TypeOK
    /\ SlotsOnce
    /\ uuids = Registered
    /\ Registered \cap freed = {}
    /\ LoopVariables
    /\ WhereFaultsAre

-----------------------------------------------------------------------------
(* What an erase does to the vectors.                                      *)

\* The part of the state the registry consists of.
Registry == <<slots, size, uuids, freed>>

\* The slots' types, one by one.
LEMMA SlotType ==
    ASSUME TypeOK, NEW t \in Type
    PROVE  /\ slots[t] \in Seq(Client) /\ Len(slots[t]) \in Nat
           /\ size[t] \in Nat /\ size[t] <= Len(slots[t])
           /\ \A i \in 1..Len(slots[t]) : slots[t][i] \in Client
           /\ \A i \in 1..size[t] : i \in 1..Len(slots[t]) /\ slots[t][i] \in Vec(t)
           /\ Vec(t) \subseteq Client
<1>1. /\ slots[t] \in Seq(Client) /\ size[t] \in Nat /\ size[t] <= Len(slots[t])
  BY DEF TypeOK
<1>2. Len(slots[t]) \in Nat /\ \A i \in 1..Len(slots[t]) : slots[t][i] \in Client
  BY <1>1, LenProperties, ElementOfSeq
<1>3. \A i \in 1..size[t] : i \in 1..Len(slots[t]) /\ slots[t][i] \in Vec(t)
  BY <1>1, <1>2 DEF Vec
<1>4. QED
  BY <1>1, <1>2, <1>3 DEF Vec

\* An erase in the middle moves the later elements one slot down.
LEMMA Erased ==
    ASSUME TypeOK, SlotsOnce, NEW t \in Type, NEW c \in Vec(t), Removed(t, c)
    PROVE  /\ \E p \in 1..size[t] :
                /\ slots[t][p] = c
                /\ \A i \in 1..(size[t] - 1) :
                      slots'[t][i] = slots[t][IF i < p THEN i ELSE i + 1]
           /\ slots' \in [Type -> Seq(Client)] /\ Len(slots'[t]) = Len(slots[t])
           /\ size' = [size EXCEPT ![t] = size[t] - 1] /\ size[t] >= 1
           /\ \A u \in Type \ {t} : slots'[u] = slots[u]
           /\ uuids' = uuids \ {c} /\ aborted' = aborted \cup {c}
           /\ freed' = freed \cup {c}
<1>. DEFINE p == CHOOSE i \in 1..size[t] : slots[t][i] = c
            v == [i \in 1..Len(slots[t]) |->
                    IF i \in p..(size[t] - 1) THEN slots[t][i + 1] ELSE slots[t][i]]
<1>1. p \in 1..size[t] /\ slots[t][p] = c
  BY DEF Vec
<1>2. slots' = [slots EXCEPT ![t] = v] /\ size' = [size EXCEPT ![t] = size[t] - 1]
  BY DEF Removed
<1>3. /\ slots[t] \in Seq(Client) /\ Len(slots[t]) \in Nat /\ size[t] \in Nat
      /\ size[t] <= Len(slots[t])
      /\ \A i \in 1..Len(slots[t]) : slots[t][i] \in Client
  BY SlotType
<1>. HIDE DEF p
<1>4. v \in [1..Len(slots[t]) -> Client]
  BY <1>1, <1>3
<1>5. v \in Seq(Client)
  BY <1>3, <1>4, SeqDef
<1>6. Len(v) = Len(slots[t])
  <2>1. DOMAIN v = 1..Len(v) /\ Len(v) \in Nat
    BY <1>5, LenProperties
  <2>2. 1..Len(v) = 1..Len(slots[t])
    BY <2>1
  <2>3. QED
    BY <1>3, <2>1, <2>2
<1>7. \A i \in 1..(size[t] - 1) : v[i] = slots[t][IF i < p THEN i ELSE i + 1]
  BY <1>1, <1>3
<1>. HIDE DEF v
<1>8. slots'[t] = v /\ \A u \in Type \ {t} : slots'[u] = slots[u]
  BY <1>2 DEF TypeOK
<1>9. slots' \in [Type -> Seq(Client)]
  BY <1>2, <1>5 DEF TypeOK
<1>10. QED
  BY <1>1, <1>2, <1>3, <1>6, <1>7, <1>8, <1>9 DEF Removed

\* An erase keeps the registry: exactly the erased client leaves it.
LEMMA RemovedKeepsRegistry ==
    ASSUME RegistryInv, NEW t \in Type, NEW c \in Client, Removed(t, c)
    PROVE  /\ slots' \in [Type -> Seq(Client)]
           /\ \A u \in Type : Len(slots'[u]) = Len(slots[u])
           /\ size' \in [Type -> Nat] /\ \A u \in Type : size'[u] <= Len(slots'[u])
           /\ Vec(t)' = Vec(t) \ {c} /\ \A u \in Type \ {t} : Vec(u)' = Vec(u)
           /\ SlotsOnce'
           /\ uuids' = Registered' /\ uuids' \subseteq Client
           /\ aborted' \subseteq Client /\ aborted \subseteq aborted'
           /\ freed' \subseteq Client /\ freed \subseteq freed'
           /\ (Registered \cap freed)' = {}
<1>. USE DEF RegistryInv
<1>1. CASE c \notin Vec(t)
  <2>1. UNCHANGED <<slots, size, uuids, aborted, freed>>
    BY <1>1 DEF Removed, vecVars, infoVars
  <2>2. \A u \in Type : Vec(u)' = Vec(u)
    BY <2>1 DEF Vec
  <2>3. Registered' = Registered
    BY <2>1, <2>2 DEF Registered
  <2>4. SlotsOnce'
    BY <2>1, <2>2 DEF SlotsOnce
  <2>5. QED
    BY <1>1, <2>1, <2>2, <2>3, <2>4 DEF TypeOK
<1>2. CASE c \in Vec(t)
  <2>1. PICK p \in 1..size[t] :
            /\ slots[t][p] = c
            /\ \A i \in 1..(size[t] - 1) :
                  slots'[t][i] = slots[t][IF i < p THEN i ELSE i + 1]
    BY <1>2, Erased
  <2>2. /\ slots' \in [Type -> Seq(Client)] /\ Len(slots'[t]) = Len(slots[t])
        /\ size' = [size EXCEPT ![t] = size[t] - 1] /\ size[t] >= 1
        /\ \A u \in Type \ {t} : slots'[u] = slots[u]
        /\ uuids' = uuids \ {c} /\ aborted' = aborted \cup {c}
        /\ freed' = freed \cup {c}
    BY <1>2, Erased
  <2>3. /\ size[t] \in Nat /\ size'[t] = size[t] - 1
        /\ \A u \in Type \ {t} : size'[u] = size[u]
    BY <2>2, SlotType DEF TypeOK
  <2>4. /\ size' \in [Type -> Nat]
        /\ \A u \in Type : size'[u] <= Len(slots'[u]) /\ Len(slots'[u]) = Len(slots[u])
    <3>1. size \in [Type -> Nat] /\ size[t] - 1 \in Nat
      BY <2>2, <2>3 DEF TypeOK
    <3>2. \A u \in Type : size[u] <= Len(slots[u]) /\ size[u] \in Nat /\ Len(slots[u]) \in Nat
      BY SlotType
    <3>. HIDE DEF RegistryInv
    <3>3. QED
      BY <2>2, <2>3, <3>1, <3>2
  <2>5. \A u \in Type \ {t} : Vec(u)' = Vec(u)
    BY <2>2, <2>3 DEF Vec
  <2>6. Vec(t)' = Vec(t) \ {c}
    <3>1. Vec(t)' \subseteq Vec(t) \ {c}
      <4>1. ASSUME NEW i \in 1..(size[t] - 1) PROVE slots'[t][i] \in Vec(t) \ {c}
        <5>1. (IF i < p THEN i ELSE i + 1) \in 1..size[t] \ {p}
          BY <2>3
        <5>2. QED
          BY <2>1, <5>1 DEF Vec, SlotsOnce
      <4>2. QED
        BY <2>3, <4>1 DEF Vec
    <3>2. ASSUME NEW j \in 1..size[t], j # p PROVE slots[t][j] \in Vec(t)'
      <4>. DEFINE i == IF j < p THEN j ELSE j - 1
      <4>1. i \in 1..(size[t] - 1) /\ (IF i < p THEN i ELSE i + 1) = j
        BY <2>3, <3>2
      <4>2. slots'[t][i] = slots[t][j]
        BY <2>1, <4>1
      <4>3. QED
        BY <2>3, <4>1, <4>2 DEF Vec
    <3>3. ASSUME NEW d \in Vec(t), d # c PROVE d \in Vec(t)'
      <4>1. PICK j \in 1..size[t] : slots[t][j] = d
        BY DEF Vec
      <4>2. j # p
        BY <2>1, <3>3, <4>1
      <4>3. QED
        BY <3>2, <4>1, <4>2
    <3>. HIDE DEF RegistryInv
    <3>4. QED
      BY <3>1, <3>3
  <2>7. SlotsOnce'
    <3>1. ASSUME NEW i \in 1..(size[t] - 1), NEW j \in 1..(size[t] - 1),
                 slots'[t][i] = slots'[t][j]
          PROVE  i = j
      <4>1. /\ (IF i < p THEN i ELSE i + 1) \in 1..size[t]
            /\ (IF j < p THEN j ELSE j + 1) \in 1..size[t]
        BY <2>3
      <4>2. (IF i < p THEN i ELSE i + 1) = (IF j < p THEN j ELSE j + 1)
        BY <2>1, <3>1, <4>1 DEF SlotsOnce
      <4>3. QED
        BY <2>3, <4>2
    <3>2. \A u \in Type : \A i, j \in 1..size'[u] : slots'[u][i] = slots'[u][j] => i = j
      <4>1. ASSUME NEW u \in Type, u # t
            PROVE  \A i, j \in 1..size'[u] : slots'[u][i] = slots'[u][j] => i = j
        <5>1. slots'[u] = slots[u] /\ size'[u] = size[u]
          BY <2>2, <2>3, <4>1
        <5>2. QED
          BY <5>1 DEF SlotsOnce
      <4>2. \A i, j \in 1..size'[t] : slots'[t][i] = slots'[t][j] => i = j
        BY <2>3, <3>1
      <4>. HIDE DEF RegistryInv
      <4>3. QED
        BY <4>1, <4>2
    <3>3. \A u, w \in Type : u # w => Vec(u)' \cap Vec(w)' = {}
      BY <2>5, <2>6 DEF SlotsOnce
    <3>4. QED
      BY <3>2, <3>3 DEF SlotsOnce
  <2>8. Registered' = Registered \ {c}
    <3>1. \A u \in Type \ {t} : c \notin Vec(u)
      BY <1>2 DEF SlotsOnce
    <3>2. QED
      BY <2>5, <2>6, <3>1 DEF Registered
  <2>9. QED
    BY <2>2, <2>4, <2>5, <2>6, <2>7, <2>8 DEF TypeOK
<1>3. QED
  BY <1>1, <1>2

-----------------------------------------------------------------------------
(* Pieces of the steps.                                                    *)

\* Sending changes nothing but what was sent.
LEMMA SentType ==
    ASSUME TypeOK, NEW c \in Client, Sent(c)
    PROVE  got' \in [Client -> Nat] /\ torn' \subseteq Client
<1>1. got \in [Client -> Nat] /\ torn \subseteq Client
  BY DEF TypeOK
<1>2. QED
  BY <1>1 DEF Sent

\* What is remembered of no operation.
LEMMA NothingType == Nothing \in Report
<1>1. 0 \in 0..Types /\ [t \in Type |-> {}] \in [Type -> SUBSET Client]
  BY TypesType
<1>2. QED
  BY <1>1 DEF Nothing, Report, OpNames

\* The end of an operation.
LEMMA ReturnType ==
    ASSUME TypeOK, NEW ok \in BOOLEAN, Return(ok)
    PROVE  /\ op' \in Frame
           /\ op'.name = "idle"
           /\ last' \in Report
<1>1. op' = Idle /\ 0 \in 0..Types /\ <<>> \in Seq(Client)
  BY EmptySeq, TypesType DEF Return
<1>2. [t \in Type |-> Vec(t)] \in [Type -> SUBSET Client]
  BY SlotType
<1>3. op.name \in OpNames /\ op.type \in 0..Types /\ op.orig \in Client \cup {Nobody}
      /\ op.before \in SUBSET Client /\ freed \ op.before \in SUBSET Client
  BY DEF TypeOK, Frame
<1>4. QED
  BY <1>1, <1>2, <1>3 DEF Return, Idle, OpNames, Frame, Report

\* The loops that change only their variables, or return.
LEMMA RegistryKept ==
    ASSUME RegistryInv, UNCHANGED vecVars, UNCHANGED infoVars
    PROVE  /\ \A u \in Type : Vec(u)' = Vec(u)
           /\ SlotsOnce' /\ uuids' = Registered' /\ (Registered \cap freed)' = {}
<1>1. UNCHANGED <<slots, size, uuids, aborted, freed>>
  BY DEF vecVars, infoVars
<1>2. \A u \in Type : Vec(u)' = Vec(u)
  BY <1>1 DEF Vec
<1>3. Registered' = Registered
  BY <1>2 DEF Registered
<1>4. QED
  BY <1>1, <1>2, <1>3 DEF RegistryInv, SlotsOnce

\* The client a loop stands on.
LEMMA CurrentType ==
    ASSUME RegistryInv,
           \/ op.name \in {"all", "clear"} /\ ~AtVectorEnd
           \/ op.name = "reroute" /\ op.i # op.end
    PROVE  /\ op.type \in Type /\ Current \in Client
           /\ op.name # "reroute" => op.i \in 1..size[op.type] /\ Current \in Vec(op.type)
<1>1. op.type \in Type /\ op.i \in Nat /\ op.end \in Nat
  BY DEF RegistryInv, LoopVariables, TypeOK, Frame
<1>2. /\ size[op.type] \in Nat /\ Len(slots[op.type]) \in Nat
      /\ \A i \in 1..Len(slots[op.type]) : slots[op.type][i] \in Client
      /\ \A i \in 1..size[op.type] : i \in 1..Len(slots[op.type])
                                     /\ slots[op.type][i] \in Vec(op.type)
  BY <1>1, SlotType DEF RegistryInv
<1>3. CASE op.name \in {"all", "clear"} /\ ~AtVectorEnd
  <2>1. op.i \in 1..size[op.type]
    BY <1>1, <1>2, <1>3 DEF AtVectorEnd, RegistryInv, LoopVariables
  <2>2. QED
    BY <1>1, <1>2, <1>3, <2>1 DEF Current
<1>4. CASE op.name = "reroute" /\ op.i # op.end
  <2>1. op.i \in 1..Len(slots[op.type])
    BY <1>1, <1>2, <1>4 DEF RegistryInv, LoopVariables, InRange
  <2>2. QED
    BY <1>1, <1>2, <1>4, <2>1 DEF Current
<1>5. QED
  BY <1>3, <1>4

-----------------------------------------------------------------------------
(* RegistryInv is inductive.                                               *)

\* RegistryInv holds at first.
LEMMA InitRegistry == Init => RegistryInv
<1>. SUFFICES ASSUME Init PROVE RegistryInv
  OBVIOUS
<1>1. /\ <<>> \in Seq(Client) /\ Len(<<>>) = 0 /\ 0 \in 0..Types
  BY EmptySeq, TypesType
<1>2. /\ slots \in [Type -> Seq(Client)] /\ size \in [Type -> Nat]
      /\ \A t \in Type : size[t] <= Len(slots[t])
      /\ {uuids, gone, aborted, freed, torn} \subseteq SUBSET Client
      /\ got \in [Client -> Nat] /\ fault \in BOOLEAN
  <2>1. slots = [t \in Type |-> <<>>] /\ size = [t \in Type |-> 0]
    BY DEF Init
  <2>2. slots \in [Type -> Seq(Client)] /\ size \in [Type -> Nat]
    BY <1>1, <2>1
  <2>3. \A t \in Type : size[t] <= Len(slots[t])
    BY <1>1, <2>1
  <2>4. QED
    BY <2>2, <2>3 DEF Init
<1>3. op \in Frame
  BY <1>1 DEF Init, Idle, OpNames, Frame
<1>4. last \in Report
  BY NothingType DEF Init
<1>5. TypeOK
  BY <1>2, <1>3, <1>4 DEF TypeOK
<1>6. \A t \in Type : Vec(t) = {}
  BY DEF Init, Vec
<1>7. Registered = {}
  BY <1>6 DEF Registered
<1>8. SlotsOnce /\ uuids = Registered /\ Registered \cap freed = {}
  BY <1>6, <1>7 DEF Init, SlotsOnce
<1>9. LoopVariables /\ WhereFaultsAre
  BY DEF Init, Idle, LoopVariables, WhereFaultsAre
<1>10. QED
  BY <1>5, <1>8, <1>9 DEF RegistryInv

\* What the last operation did is forgotten in a well-typed way.
LEMMA ForgetType ==
    ASSUME TypeOK, Forget
    PROVE  /\ got' \in [Client -> Nat] /\ torn' \subseteq Client
           /\ last' \in Report
<1>1. got \in [Client -> Nat] /\ torn \subseteq Client /\ last \in Report
  BY DEF TypeOK
<1>2. QED
  BY <1>1, NothingType DEF Forget, NothingSent, sentVars

\* A new client is in no vector yet, so it stands in one slot only.
LEMMA ConnectRegistry ==
    ASSUME RegistryInv, ~fault, NEW c \in Client, NEW t \in Type, Connect(c, t)
    PROVE  RegistryInv'
<1>. DEFINE n == size[t] + 1
            v == IF n <= Len(slots[t]) THEN [slots[t] EXCEPT ![n] = c] ELSE Append(slots[t], c)
<1>1. /\ slots' = [slots EXCEPT ![t] = v] /\ size' = [size EXCEPT ![t] = n]
      /\ uuids' = uuids \cup {c}
      /\ UNCHANGED <<aborted, freed, gone, op, fault>> /\ op.name = "idle"
      /\ c \notin Registered \cup freed
  BY DEF Connect, infoVars
<1>2. /\ slots[t] \in Seq(Client) /\ Len(slots[t]) \in Nat /\ size[t] \in Nat
      /\ size[t] <= Len(slots[t])
  BY SlotType DEF RegistryInv
<1>3. /\ v \in Seq(Client) /\ Len(v) \in Nat /\ n <= Len(v)
      /\ \A i \in 1..size[t] : v[i] = slots[t][i]
      /\ v[n] = c
  <2>1. CASE n <= Len(slots[t])
    <3>1. n \in 1..Len(slots[t])
      BY <1>2, <2>1
    <3>2. v = [slots[t] EXCEPT ![n] = c]
      BY <2>1
    <3>. HIDE DEF v
    <3>3. QED
      BY <1>2, <2>1, <3>1, <3>2, ExceptSeq
  <2>2. CASE ~(n <= Len(slots[t]))
    <3>1. v = Append(slots[t], c) /\ Len(slots[t]) = size[t]
      BY <1>2, <2>2
    <3>. HIDE DEF v
    <3>2. QED
      BY <1>2, <3>1, AppendProperties
  <2>3. QED
    BY <2>1, <2>2
<1>. HIDE DEF v
<1>4. /\ slots'[t] = v /\ size'[t] = n
      /\ \A u \in Type \ {t} : slots'[u] = slots[u] /\ size'[u] = size[u]
      /\ slots' \in [Type -> Seq(Client)] /\ size' \in [Type -> Nat]
  BY <1>1, <1>2, <1>3 DEF RegistryInv, TypeOK
<1>5. Vec(t)' = Vec(t) \cup {c} /\ \A u \in Type \ {t} : Vec(u)' = Vec(u)
  <2>1. 1..n = 1..size[t] \cup {n}
    BY <1>2
  <2>2. Vec(t)' = {v[i] : i \in 1..n}
    BY <1>4 DEF Vec
  <2>3. Vec(t)' = Vec(t) \cup {c}
    BY <1>3, <2>1, <2>2 DEF Vec
  <2>4. \A u \in Type \ {t} : Vec(u)' = Vec(u)
    BY <1>4 DEF Vec
  <2>5. QED
    BY <2>3, <2>4
<1>6. Registered' = Registered \cup {c} /\ \A u \in Type : c \notin Vec(u)
  BY <1>1, <1>5 DEF Registered
<1>7. SlotsOnce'
  <2>1. \A i \in 1..size[t] : slots[t][i] # c
    BY <1>6 DEF Vec
  <2>2. \A i, j \in 1..n : v[i] = v[j] => i = j
    BY <1>2, <1>3, <2>1 DEF RegistryInv, SlotsOnce
  <2>3. \A u \in Type : \A i, j \in 1..size'[u] : slots'[u][i] = slots'[u][j] => i = j
    <3>1. ASSUME NEW u \in Type, u # t
          PROVE  \A i, j \in 1..size'[u] : slots'[u][i] = slots'[u][j] => i = j
      <4>1. slots'[u] = slots[u] /\ size'[u] = size[u]
        BY <1>4, <3>1
      <4>2. QED
        BY <4>1 DEF RegistryInv, SlotsOnce
    <3>2. \A i, j \in 1..size'[t] : slots'[t][i] = slots'[t][j] => i = j
      BY <1>4, <2>2
    <3>3. QED
      BY <3>1, <3>2
  <2>4. \A u, w \in Type : u # w => Vec(u)' \cap Vec(w)' = {}
    BY <1>5, <1>6 DEF RegistryInv, SlotsOnce
  <2>5. QED
    BY <2>3, <2>4 DEF SlotsOnce
<1>8. TypeOK'
  <2>1. \A u \in Type : size'[u] <= Len(slots'[u])
    <3>1. \A u \in Type : size[u] <= Len(slots[u])
      BY SlotType DEF RegistryInv
    <3>2. QED
      BY <1>3, <1>4, <3>1
  <2>2. /\ got' \in [Client -> Nat] /\ torn' \subseteq Client
        /\ last' \in Report
    BY ForgetType DEF Connect, RegistryInv
  <2>3. QED
    BY <1>1, <1>4, <2>1, <2>2 DEF RegistryInv, TypeOK
<1>9. QED
  BY <1>1, <1>6, <1>7, <1>8 DEF RegistryInv, LoopVariables, WhereFaultsAre

\* Peers that leave, and their receivers.
LEMMA PeersRegistry ==
    ASSUME RegistryInv, ~fault, NEW c \in Client, Leave(c) \/ ReceiverEnds(c)
    PROVE  RegistryInv'
<1>1. /\ UNCHANGED <<slots, size, uuids, freed, op, fault>>
      /\ gone' \in {gone, gone \cup {c}} /\ aborted' \in {aborted, aborted \cup {c}}
  BY DEF Leave, ReceiverEnds, vecVars, infoVars
<1>2. TypeOK'
  <2>1. /\ got' \in [Client -> Nat] /\ torn' \subseteq Client
        /\ last' \in Report
    BY ForgetType DEF Leave, ReceiverEnds, RegistryInv
  <2>2. QED
    BY <1>1, <2>1 DEF RegistryInv, TypeOK
<1>3. \A u \in Type : Vec(u)' = Vec(u)
  BY <1>1 DEF Vec
<1>4. Registered' = Registered
  BY <1>3 DEF Registered
<1>5. SlotsOnce' /\ LoopVariables' /\ WhereFaultsAre'
  BY <1>1, <1>3 DEF RegistryInv, SlotsOnce, LoopVariables, InRange, WhereFaultsAre
<1>6. QED
  BY <1>1, <1>2, <1>4, <1>5 DEF RegistryInv

\* The loops begin within their bounds.
LEMMA BeginRegistry == ASSUME RegistryInv, ~fault, BeginSome PROVE RegistryInv'
<1>1. /\ UNCHANGED vecVars /\ UNCHANGED infoVars /\ UNCHANGED <<gone, fault>>
      /\ got' = [c \in Client |-> 0] /\ torn' = {} /\ last' = Nothing
  BY DEF BeginSome, BeginAll, BeginClear, BeginOfType, BeginAny, BeginReroute, Begin,
         NothingSent
<1>2. UNCHANGED <<slots, size, uuids, aborted, freed>>
  BY <1>1 DEF vecVars, infoVars
<1>3. op' \in Frame /\ LoopVariables'
  <2>1. Idle \in Frame /\ <<>> \in Seq(Client) /\ \A t \in Type : t \in 0..Types /\ t \in Nat
    BY TypesType, EmptySeq DEF Idle, Frame, OpNames, Type
  <2>2. aborted \subseteq Client /\ freed \subseteq Client
    BY DEF RegistryInv, TypeOK
  <2>3. CASE BeginAll \/ BeginClear
    <3>1. 1 \in Type /\ 1 \in 0..Types
      BY TypesType DEF Type
    <3>2. \E name \in {"all", "clear"}, before \in {{}, aborted} :
             op' = [name |-> name, type |-> 1, orig |-> Nobody, i |-> 1, end |-> 0,
                    first |-> 0, list |-> <<>>, before |-> before]
      BY <2>3 DEF BeginAll, BeginClear, Begin, Idle
    <3>3. QED
      BY <2>1, <2>2, <3>1, <3>2 DEF Frame, OpNames, LoopVariables
  <2>4. ASSUME NEW t \in Type, BeginOfType(t) \/ BeginAny(t)
        PROVE  op' \in Frame /\ LoopVariables'
    <3>. DEFINE copy == SubSeq(slots[t], 1, size[t])
    <3>1. copy \in Seq(Client)
      <4>1. size[t] \in Int /\ \A i \in 1..size[t] : slots[t][i] \in Client
        BY SlotType DEF RegistryInv
      <4>2. QED
        BY <4>1, SubSeqProperties
    <3>2. \/ op' = [name |-> "ofType", type |-> t, orig |-> Nobody, i |-> 1, end |-> 0,
                    first |-> 0, list |-> copy, before |-> {}]
          \/ op' = [name |-> "any", type |-> t, orig |-> Nobody, i |-> 0, end |-> 0,
                    first |-> 0, list |-> <<>>, before |-> {}]
      BY <2>4 DEF BeginOfType, BeginAny, Begin, Idle
    <3>. HIDE DEF copy
    <3>3. op' \in Frame
      <4>1. t \in 0..Types
        BY <2>1
      <4>2. [name |-> "ofType", type |-> t, orig |-> Nobody, i |-> 1, end |-> 0,
             first |-> 0, list |-> copy, before |-> {}] \in Frame
        BY <3>1, <4>1 DEF Frame, OpNames
      <4>3. [name |-> "any", type |-> t, orig |-> Nobody, i |-> 0, end |-> 0,
             first |-> 0, list |-> <<>>, before |-> {}] \in Frame
        BY <2>1, <4>1 DEF Frame, OpNames
      <4>4. QED
        BY <3>2, <4>2, <4>3
    <3>4. op'.type = t /\ ((op'.name = "ofType" /\ op'.i = 1) \/ op'.name = "any")
      BY <3>2
    <3>5. QED
      BY <3>3, <3>4 DEF LoopVariables
  <2>5. ASSUME NEW t \in Type, NEW c \in Client, BeginReroute(t, c)
        PROVE  op' \in Frame /\ LoopVariables'
    <3>. HIDE DEF RegistryInv
    <3>1. PICK idx \in 1..size[t] :
             op' = [Idle EXCEPT !.name = "reroute", !.type = t, !.orig = c, !.i = idx,
                                !.end = size[t] + 1, !.first = idx, !.before = freed]
      BY <2>5 DEF BeginReroute, Begin
    <3>a. op' = [name |-> "reroute", type |-> t, orig |-> c, i |-> idx,
                 end |-> size[t] + 1, first |-> idx, list |-> <<>>, before |-> freed]
      BY <3>1 DEF Idle
    <3>2. size[t] \in Nat /\ size[t] <= Len(slots[t]) /\ Len(slots[t]) \in Nat
      BY SlotType DEF RegistryInv
    <3>3. InRange(idx, t) /\ InRange(size[t] + 1, t) /\ idx \in Nat /\ idx <= size[t] + 1
      BY <3>2 DEF InRange
    <3>4. /\ op'.name = "reroute" /\ op'.type = t /\ op'.i = idx /\ op'.end = size[t] + 1
          /\ op'.first = idx
      BY <3>a
    <3>5. op' \in Frame
      BY <2>1, <2>2, <3>a, <3>2, <3>3 DEF RegistryInv, Frame, OpNames
    <3>6. QED
      BY <1>2, <3>3, <3>4, <3>5 DEF LoopVariables, InRange
  <2>6. QED
    BY <2>3, <2>4, <2>5 DEF BeginSome
<1>4. TypeOK'
  BY <1>1, <1>2, <1>3, NothingType DEF RegistryInv, TypeOK
<1>5. SlotsOnce' /\ uuids' = Registered' /\ (Registered \cap freed)' = {}
  BY <1>1, RegistryKept
<1>6. QED
  BY <1>1, <1>3, <1>4, <1>5 DEF RegistryInv, WhereFaultsAre

\* An operation that returns leaves the registry alone.
LEMMA ReturnRegistry ==
    ASSUME RegistryInv, ~fault, UNCHANGED vecVars, UNCHANGED infoVars,
           UNCHANGED <<gone, fault>>, got' \in [Client -> Nat], torn' \subseteq Client,
           NEW ok \in BOOLEAN, Return(ok)
    PROVE  RegistryInv'
<1>1. op' \in Frame /\ op'.name = "idle" /\ last' \in Report
  BY ReturnType DEF RegistryInv
<1>2. UNCHANGED <<slots, size, uuids, aborted, freed>>
  BY DEF vecVars, infoVars
<1>3. TypeOK'
  BY <1>1, <1>2 DEF RegistryInv, TypeOK
<1>4. SlotsOnce' /\ uuids' = Registered' /\ (Registered \cap freed)' = {}
  BY RegistryKept
<1>5. QED
  BY <1>1, <1>3, <1>4 DEF RegistryInv, WhereFaultsAre, LoopVariables

\* What a loop may do to the registry: nothing, or erase one client.
Touched(t) ==
    \/ UNCHANGED vecVars /\ UNCHANGED infoVars
    \/ \E c \in Client : Removed(t, c)

\* Whatever a loop does to the registry, it stays whole.
LEMMA TouchedKeeps ==
    ASSUME RegistryInv, NEW t \in Type, Touched(t)
    PROVE  /\ slots' \in [Type -> Seq(Client)]
           /\ \A u \in Type : Len(slots'[u]) = Len(slots[u])
           /\ size' \in [Type -> Nat] /\ \A u \in Type : size'[u] <= Len(slots'[u])
           /\ SlotsOnce'
           /\ uuids' = Registered' /\ uuids' \subseteq Client
           /\ aborted' \subseteq Client /\ freed' \subseteq Client
           /\ (Registered \cap freed)' = {}
<1>1. CASE UNCHANGED vecVars /\ UNCHANGED infoVars
  <2>1. UNCHANGED <<slots, size, uuids, aborted, freed>>
    BY <1>1 DEF vecVars, infoVars
  <2>2. SlotsOnce' /\ uuids' = Registered' /\ (Registered \cap freed)' = {}
    BY <1>1, RegistryKept
  <2>3. QED
    BY <2>1, <2>2 DEF RegistryInv, TypeOK
<1>2. CASE \E c \in Client : Removed(t, c)
  BY <1>2, RemovedKeepsRegistry
<1>3. QED
  BY <1>1, <1>2 DEF Touched

\* An operation that goes on, with its next step or, after an erase, with the
\* same.
LEMMA GoOnRegistry ==
    ASSUME RegistryInv, ~fault, UNCHANGED <<gone, fault>>,
           got' \in [Client -> Nat], torn' \subseteq Client,
           op.name # "idle", Touched(op.type), Stay \/ Goto(op.i + 1),
           op.name = "reroute" => op.i # op.end
    PROVE  RegistryInv'
<1>1. op \in Frame /\ op.type \in Type /\ op.i \in Nat /\ op.end \in Nat /\ last' = last
  BY DEF RegistryInv, TypeOK, LoopVariables, Frame, Stay, Goto
<1>2. /\ slots' \in [Type -> Seq(Client)]
      /\ \A u \in Type : Len(slots'[u]) = Len(slots[u])
      /\ size' \in [Type -> Nat] /\ \A u \in Type : size'[u] <= Len(slots'[u])
      /\ SlotsOnce'
      /\ uuids' = Registered' /\ uuids' \subseteq Client
      /\ aborted' \subseteq Client /\ freed' \subseteq Client
      /\ (Registered \cap freed)' = {}
  BY <1>1, TouchedKeeps
<1>3. /\ op' \in Frame /\ op'.i \in {op.i, op.i + 1}
      /\ op'.name = op.name /\ op'.type = op.type /\ op'.end = op.end
      /\ op'.first = op.first
      /\ op.name = "reroute" => op'.i <= op.end
  <2>1. CASE Stay
    BY <1>1, <2>1 DEF Stay, RegistryInv, LoopVariables
  <2>2. CASE Goto(op.i + 1)
    <3>1. op' = [op EXCEPT !.i = op.i + 1] /\ op.i + 1 \in Nat
      BY <1>1, <2>2 DEF Goto
    <3>2. op.name = "reroute" => op.i <= op.end
      BY DEF RegistryInv, LoopVariables
    <3>3. /\ op'.i = op.i + 1 /\ op'.name = op.name /\ op'.type = op.type
          /\ op'.end = op.end /\ op'.first = op.first
      BY <1>1, <3>1 DEF Frame
    <3>4. op' \in Frame
      BY <1>1, <3>1 DEF Frame
    <3>5. QED
      BY <1>1, <3>2, <3>3, <3>4
  <2>3. QED
    BY <2>1, <2>2
<1>4. TypeOK'
  BY <1>1, <1>2, <1>3 DEF RegistryInv, TypeOK
<1>5. LoopVariables'
  BY <1>1, <1>2, <1>3 DEF RegistryInv, LoopVariables, InRange
<1>6. QED
  BY <1>2, <1>4, <1>5 DEF RegistryInv, WhereFaultsAre

\* The step to the next vector, and to the second round of rerouteToAnyOfType.
LEMMA NextRoundRegistry ==
    ASSUME RegistryInv, ~fault, NextVector \/ RerouteEnds
    PROVE  RegistryInv'
<1>1. /\ UNCHANGED vecVars /\ UNCHANGED infoVars /\ UNCHANGED <<gone, fault>>
      /\ got' = got /\ torn' = torn
  BY DEF NextVector, RerouteEnds, sentVars
<1>2. /\ got \in [Client -> Nat] /\ torn \subseteq Client
      /\ op \in Frame /\ op.type \in 0..Types /\ op.first \in Nat
  BY DEF RegistryInv, TypeOK, Frame
<1>3. CASE \E ok \in BOOLEAN : Return(ok)
  BY <1>1, <1>2, <1>3, ReturnRegistry
<1>4. CASE ~ \E ok \in BOOLEAN : Return(ok)
  <2>1. UNCHANGED <<slots, size, uuids, aborted, freed>>
    BY <1>1 DEF vecVars, infoVars
  <2>2. last' = last
    BY <1>4 DEF NextVector, RerouteEnds
  <2>3. op' \in Frame /\ LoopVariables'
    <3>1. CASE NextVector
      <4>1. /\ op' = [op EXCEPT !.type = op.type + 1, !.i = 1]
            /\ op.type # Types /\ op.name \in {"all", "clear"}
        BY <1>4, <3>1 DEF NextVector
      <4>2. op.type \in Type
        BY <4>1 DEF RegistryInv, LoopVariables
      <4>3. op.type + 1 \in Type /\ op.type + 1 \in 0..Types
        BY <4>1, <4>2, TypesType DEF Type
      <4>4. op'.name = op.name /\ op'.type = op.type + 1 /\ op'.i = 1
        BY <1>2, <4>1 DEF Frame
      <4>5. op' \in Frame
        BY <1>2, <4>1, <4>3 DEF Frame
      <4>6. QED
        BY <4>1, <4>3, <4>4, <4>5 DEF LoopVariables
    <3>2. CASE RerouteEnds
      <4>1. /\ op' = [op EXCEPT !.i = 1, !.end = op.first]
            /\ op.name = "reroute"
        BY <1>4, <3>2 DEF RerouteEnds
      <4>2. /\ op'.name = op.name /\ op'.type = op.type /\ op'.first = op.first
            /\ op'.i = 1 /\ op'.end = op.first
        BY <1>2, <4>1 DEF Frame
      <4>3. op' \in Frame
        BY <1>2, <4>1 DEF Frame
      <4>4. QED
        BY <2>1, <4>1, <4>2, <4>3 DEF RegistryInv, LoopVariables, InRange
    <3>3. QED
      BY <3>1, <3>2
  <2>4. TypeOK'
    BY <1>1, <2>1, <2>2, <2>3 DEF RegistryInv, TypeOK
  <2>5. SlotsOnce' /\ uuids' = Registered' /\ (Registered \cap freed)' = {}
    BY <1>1, RegistryKept
  <2>6. QED
    BY <1>1, <2>3, <2>4, <2>5 DEF RegistryInv, WhereFaultsAre
<1>5. QED
  BY <1>3, <1>4

\* The client an iteration is about, where the loop is not one over a vector.
LEMMA PickedType ==
    ASSUME RegistryInv
    PROVE  /\ op.name = "ofType" /\ op.i <= Len(op.list) => op.list[op.i] \in Client
           /\ op.name = "any" => \A i \in 1..size[op.type] :
                                    /\ slots[op.type][i] \in Client
                                    /\ slots[op.type][i] \in Vec(op.type)
<1>1. op.list \in Seq(Client) /\ op.i \in Nat
  BY DEF RegistryInv, TypeOK, Frame
<1>2. op.name = "ofType" /\ op.i <= Len(op.list) => op.list[op.i] \in Client
  <2>1. SUFFICES ASSUME op.name = "ofType", op.i <= Len(op.list)
                 PROVE  op.list[op.i] \in Client
    OBVIOUS
  <2>2. op.i \in 1..Len(op.list)
    BY <1>1, <2>1, LenProperties DEF RegistryInv, LoopVariables
  <2>3. QED
    BY <1>1, <2>2, ElementOfSeq
<1>3. op.name = "any" => \A i \in 1..size[op.type] :
                            /\ slots[op.type][i] \in Client
                            /\ slots[op.type][i] \in Vec(op.type)
  BY SlotType DEF RegistryInv, LoopVariables
<1>4. QED
  BY <1>2, <1>3

\* Reading a deleted info is possible only where WhereFaultsAre says so: the loops
\* over the vectors themselves find nothing deleted in them.
LEMMA FaultRegistry == ASSUME RegistryInv, ~fault, UseAfterFree PROVE RegistryInv'
<1>1. /\ UNCHANGED <<slots, size, uuids, gone, aborted, freed, got, torn, op, last>>
      /\ fault' = TRUE
  BY DEF UseAfterFree, Break, vecVars, infoVars, sentVars
<1>2. op.name \in {"ofType", "reroute"}
  <2>1. op.name \in OpNames /\ (op.name # "idle" => op.type \in Type)
    BY DEF RegistryInv, LoopVariables, TypeOK, Frame
  <2>2. \A t \in Type : Vec(t) \cap freed = {}
    BY DEF RegistryInv, Registered
  <2>3. CASE op.name \in {"all", "clear"}
    <3>1. ~AtVectorEnd => Current \notin freed
      BY <2>2, <2>3, CurrentType
    <3>2. QED
      BY <2>3, <3>1 DEF UseAfterFree, Reads
  <2>4. CASE op.name = "any"
    BY <2>1, <2>2, <2>4 DEF UseAfterFree, Reads
  <2>5. CASE op.name = "idle"
    BY <2>5 DEF UseAfterFree, Reads
  <2>6. QED
    BY <2>1, <2>3, <2>4, <2>5 DEF OpNames
<1>3. \A t \in Type : Vec(t)' = Vec(t)
  BY <1>1 DEF Vec
<1>4. Registered' = Registered /\ SlotsOnce'
  BY <1>1, <1>3 DEF Registered, RegistryInv, SlotsOnce
<1>5. TypeOK'
  BY <1>1 DEF RegistryInv, TypeOK
<1>6. LoopVariables' /\ WhereFaultsAre'
  BY <1>1, <1>2 DEF RegistryInv, LoopVariables, InRange, WhereFaultsAre
<1>7. QED
  BY <1>1, <1>4, <1>5, <1>6 DEF RegistryInv

\* Every iteration of every loop.
LEMMA IterateRegistry == ASSUME RegistryInv, ~fault, Iterate PROVE RegistryInv'
<1>1. got \in [Client -> Nat] /\ torn \subseteq Client
  BY DEF RegistryInv, TypeOK
<1>2. CASE NextVector \/ RerouteEnds
  BY <1>2, NextRoundRegistry
<1>3. CASE UseAfterFree
  BY <1>3, FaultRegistry
<1>4. CASE AllSends
  <2>1. got' \in [Client -> Nat] /\ torn' \subseteq Client
    BY <1>4, CurrentType, SentType DEF AllSends, RegistryInv
  <2>2. Touched(op.type)
    BY <1>4 DEF AllSends, Touched
  <2>3. UNCHANGED <<gone, fault>> /\ op.name = "all" /\ Goto(op.i + 1)
    BY <1>4 DEF AllSends
  <2>4. QED
    BY <2>1, <2>2, <2>3, GoOnRegistry
<1>5. CASE AllRemoves \/ ClearRemoves
  <2>1. Current \in Client
    BY <1>5, CurrentType DEF AllRemoves, ClearRemoves
  <2>2. Touched(op.type)
    BY <1>5, <2>1 DEF AllRemoves, ClearRemoves, Touched
  <2>3. UNCHANGED <<gone, got, torn, fault>> /\ op.name \in {"all", "clear"} /\ Stay
    BY <1>5 DEF AllRemoves, ClearRemoves, sentVars
  <2>4. QED
    BY <1>1, <2>2, <2>3, GoOnRegistry
<1>6. CASE ClearPasses \/ ReroutePasses
  <2>1. Touched(op.type)
    BY <1>6 DEF ClearPasses, ReroutePasses, Touched
  <2>2. /\ UNCHANGED <<gone, got, torn, fault>> /\ op.name \in {"clear", "reroute"}
        /\ Goto(op.i + 1)
        /\ op.name = "reroute" => op.i # op.end
    BY <1>6 DEF ClearPasses, ReroutePasses, sentVars
  <2>3. QED
    BY <1>1, <2>1, <2>2, GoOnRegistry
<1>7. CASE OfTypeEnds \/ AnyGivesUp
  <2>1. /\ UNCHANGED vecVars /\ UNCHANGED infoVars /\ UNCHANGED <<gone, got, torn, fault>>
        /\ \E ok \in BOOLEAN : Return(ok)
    BY <1>7 DEF OfTypeEnds, AnyGivesUp, sentVars
  <2>2. QED
    BY <1>1, <2>1, ReturnRegistry
<1>8. CASE OfTypeSends
  <2>1. got' \in [Client -> Nat] /\ torn' \subseteq Client
    BY <1>8, PickedType, SentType DEF OfTypeSends, RegistryInv
  <2>2. Touched(op.type)
    BY <1>8 DEF OfTypeSends, Touched
  <2>3. UNCHANGED <<gone, fault>> /\ op.name = "ofType" /\ Goto(op.i + 1)
    BY <1>8 DEF OfTypeSends
  <2>4. QED
    BY <2>1, <2>2, <2>3, GoOnRegistry
<1>9. CASE OfTypeRemoves
  <2>1. Touched(op.type)
    BY <1>9, PickedType DEF OfTypeRemoves, Touched
  <2>2. UNCHANGED <<gone, got, torn, fault>> /\ op.name = "ofType" /\ Stay
    BY <1>9 DEF OfTypeRemoves, sentVars
  <2>3. QED
    BY <1>1, <2>1, <2>2, GoOnRegistry
<1>10. ASSUME NEW c \in Client, SendToTrue(c) PROVE RegistryInv'
  <2>1. got' \in [Client -> Nat] /\ torn' \subseteq Client
    BY <1>10, SentType DEF SendToTrue, RegistryInv
  <2>2. QED
    BY <1>10, <2>1, ReturnRegistry DEF SendToTrue
<1>11. CASE AnyTries
  <2>1. PICK i \in 1..size[op.type] :
           \/ SendToTrue(slots[op.type][i])
           \/ SendToFalse(slots[op.type][i]) /\ Stay
    BY <1>11 DEF AnyTries
  <2>2. slots[op.type][i] \in Client /\ op.name = "any"
    BY <1>11, PickedType DEF AnyTries
  <2>3. ASSUME SendToFalse(slots[op.type][i]), Stay PROVE RegistryInv'
    <3>1. Touched(op.type)
      BY <2>2, <2>3 DEF SendToFalse, Touched
    <3>2. UNCHANGED <<gone, got, torn, fault>>
      BY <2>3 DEF SendToFalse, sentVars
    <3>3. QED
      BY <1>1, <2>2, <2>3, <3>1, <3>2, GoOnRegistry
  <2>4. QED
    BY <1>10, <2>1, <2>2, <2>3
<1>12. CASE RerouteTries
  <2>1. Current \in Client
    BY <1>12, CurrentType DEF RerouteTries
  <2>2. op.name = "reroute" /\ op.i # op.end
        /\ (SendToTrue(Current) \/ (SendToFalse(Current) /\ Goto(op.i + 1)))
    BY <1>12 DEF RerouteTries
  <2>3. ASSUME SendToFalse(Current), Goto(op.i + 1) PROVE RegistryInv'
    <3>1. Touched(op.type)
      BY <2>1, <2>3 DEF SendToFalse, Touched
    <3>2. UNCHANGED <<gone, got, torn, fault>>
      BY <2>3 DEF SendToFalse, sentVars
    <3>3. QED
      BY <1>1, <2>2, <2>3, <3>1, <3>2, GoOnRegistry
  <2>4. QED
    BY <1>10, <2>1, <2>2, <2>3
<1>13. QED
  BY <1>2, <1>3, <1>4, <1>5, <1>6, <1>7, <1>8, <1>9, <1>11, <1>12 DEF Iterate

\* Under all five loops RegistryInv holds.
THEOREM Invariance == Spec => []RegistryInv
<1>1. RegistryInv /\ [Next]_vars => RegistryInv'
  <2>. SUFFICES ASSUME RegistryInv, [Next]_vars PROVE RegistryInv'
    OBVIOUS
  <2>1. CASE UNCHANGED vars
    <3>1. UNCHANGED <<slots, size, uuids, gone, aborted, freed, got, torn, op, last, fault>>
      BY <2>1 DEF vars, vecVars, infoVars, sentVars
    <3>2. \A t \in Type : Vec(t)' = Vec(t)
      BY <3>1 DEF Vec
    <3>3. Registered' = Registered /\ SlotsOnce'
      BY <3>1, <3>2 DEF Registered, RegistryInv, SlotsOnce
    <3>4. TypeOK'
      BY <3>1 DEF RegistryInv, TypeOK
    <3>5. LoopVariables' /\ WhereFaultsAre'
      BY <3>1 DEF RegistryInv, LoopVariables, InRange, WhereFaultsAre
    <3>6. QED
      BY <3>1, <3>3, <3>4, <3>5 DEF RegistryInv
  <2>2. CASE ~fault /\ Environment
    BY <2>2, ConnectRegistry, PeersRegistry DEF Environment
  <2>3. CASE ~fault /\ BeginSome
    BY <2>3, BeginRegistry
  <2>4. CASE ~fault /\ Iterate
    BY <2>4, IterateRegistry
  <2>5. QED
    BY <2>1, <2>2, <2>3, <2>4 DEF Next
<1>2. QED
  BY <1>1, InitRegistry, PTL DEF Spec

\* Every variable keeps its type.
THEOREM TypeCorrect == Spec => []TypeOK
<1>1. RegistryInv => TypeOK
  BY DEF RegistryInv
<1>2. QED
  BY <1>1, Invariance, PTL

\* However many clients are erased in the middle of a loop, the two registries of
\* TCPServer hold the same clients, each in one place, and no deleted one.
THEOREM RegistryStaysWhole == Spec => []RegistryWhole
<1>1. RegistryInv => RegistryWhole
  <2>. SUFFICES ASSUME RegistryInv PROVE RegistryWhole
    OBVIOUS
  <2>1. ASSUME NEW t \in Type PROVE Cardinality(Vec(t)) = size[t]
    <3>. DEFINE f == [i \in 1..size[t] |-> slots[t][i]]
    <3>1. size[t] \in Nat
      BY SlotType DEF RegistryInv
    <3>2. f \in Bijection(1..size[t], Vec(t))
      <4>1. f \in [1..size[t] -> Vec(t)] /\ \A v \in Vec(t) : \E i \in 1..size[t] : f[i] = v
        BY DEF Vec
      <4>2. \A i, j \in 1..size[t] : f[i] = f[j] => i = j
        BY DEF RegistryInv, SlotsOnce
      <4>3. QED
        BY <4>1, <4>2 DEF Bijection, Injection, Surjection, IsInjective
    <3>3. ExistsBijection(1..size[t], Vec(t))
      BY <3>2 DEF ExistsBijection
    <3>4. IsFiniteSet(1..size[t]) /\ Cardinality(1..size[t]) = size[t]
      BY <3>1, FS_Interval
    <3>5. QED
      BY <3>3, <3>4, FS_Bijection
  <2>2. QED
    BY <2>1 DEF RegistryInv, SlotsOnce, RegistryWhole
<1>2. QED
  BY <1>1, Invariance, PTL

\* sendToAll, clear_aborted and sendToAnyOfType never touch a deleted client,
\* although they erase from the vector they walk.
THEOREM FaultsAreWhere == Spec => []WhereFaultsAre
<1>1. RegistryInv => WhereFaultsAre
  BY DEF RegistryInv
<1>2. QED
  BY <1>1, Invariance, PTL

-----------------------------------------------------------------------------
(* What the loops have done so far.                                        *)

\* sendToAll and clear_aborted have passed the earlier vectors and slots.
Passed(t, i) == t < op.type \/ (t = op.type /\ i < op.i)

AllLoop ==
    op.name = "all" =>
        /\ op.i <= size[op.type] + 1
        /\ \A t \in Type : \A i \in 1..size[t] :
              IF Passed(t, i) THEN got[slots[t][i]] = 1 \/ slots[t][i] \in torn
                              ELSE got[slots[t][i]] = 0

ClearLoop ==
    op.name = "clear" =>
        /\ op.i <= size[op.type] + 1
        /\ op.before \subseteq aborted
        /\ \A t \in Type : \A i \in 1..size[t] : Passed(t, i) => slots[t][i] \notin op.before

\* The operations that look for one recipient return when they have sent.
SeekLoop == op.name \in {"any", "reroute"} => Receivers = {}

\* As long as rerouteToAnyOfType had to remove nobody, the bounds of its rounds are
\* right, and every client it passed is the first recipient.
RerouteLoop ==
    op.name = "reroute" =>
        /\ op.before \subseteq freed
        /\ freed = op.before =>
             LET n == size[op.type]
             IN  /\ op.first <= n
                 /\ \/ /\ op.end = n + 1
                       /\ \A k \in op.first..(op.i - 1) : slots[op.type][k] = op.orig
                    \/ /\ op.end = op.first
                       /\ \A k \in op.first..n : slots[op.type][k] = op.orig
                       /\ \A k \in 1..(op.i - 1) : slots[op.type][k] = op.orig

LoopInv ==
    /\ AllLoop /\ ClearLoop /\ SeekLoop /\ RerouteLoop
    /\ LoopsReachAll /\ OneRecipient

\* Before the first step no operation has run.
LEMMA InitLoop == Init => LoopInv
<1>. SUFFICES ASSUME Init PROVE LoopInv
  OBVIOUS
<1>1. op.name = "idle" /\ last.name = "idle"
  BY DEF Init, Idle, Nothing
<1>2. QED
  BY <1>1 DEF LoopInv, AllLoop, ClearLoop, SeekLoop, RerouteLoop, LoopsReachAll,
              OneRecipient, Returned

\* While an operation is under way nothing is said of the one before.
LEMMA UnderWay ==
    ASSUME op'.name # "idle"
    PROVE  LoopsReachAll' /\ OneRecipient'
BY DEF LoopsReachAll, OneRecipient, Returned

\* Peers and their receivers disturb no loop.
LEMMA EnvironmentLoop ==
    ASSUME RegistryInv, LoopInv, Environment
    PROVE  LoopInv'
<1>1. CASE op.name = "idle"
  <2>1. op' = op /\ last' = Nothing
    BY <1>1 DEF Environment, Connect, Leave, ReceiverEnds, Forget
  <2>2. op'.name = "idle" /\ last'.name = "idle"
    BY <1>1, <2>1 DEF Nothing
  <2>3. QED
    BY <2>2 DEF LoopInv, AllLoop, ClearLoop, SeekLoop, RerouteLoop, LoopsReachAll,
                OneRecipient, Returned
<1>2. CASE op.name # "idle"
  <2>1. /\ UNCHANGED <<slots, size, freed, op, got, torn>>
        /\ aborted \subseteq aborted'
    BY <1>2 DEF Environment, Connect, Leave, ReceiverEnds, Forget, vecVars, infoVars, sentVars
  <2>2. LoopsReachAll' /\ OneRecipient'
    BY <1>2, <2>1, UnderWay
  <2>3. QED
    BY <2>1, <2>2 DEF LoopInv, AllLoop, ClearLoop, SeekLoop, RerouteLoop, Passed, Receivers
<1>3. QED
  BY <1>1, <1>2

\* Every loop begins with nothing passed and nothing sent.
LEMMA BeginLoop ==
    ASSUME RegistryInv, LoopInv, BeginSome
    PROVE  LoopInv'
<1>1. /\ UNCHANGED <<slots, size, aborted, freed>>
      /\ got' = [c \in Client |-> 0] /\ torn' = {}
  BY DEF BeginSome, BeginAll, BeginClear, BeginOfType, BeginAny, BeginReroute, Begin,
         NothingSent, vecVars, infoVars
<1>2. Receivers' = {}
  BY <1>1 DEF Receivers
<1>3. \A t \in Type : /\ size[t] \in Nat
                      /\ \A i \in 1..size[t] : slots[t][i] \in Client
  BY SlotType DEF RegistryInv
<1>4. CASE BeginAll
  <2>1. op'.name = "all" /\ op'.type = 1 /\ op'.i = 1
    BY <1>4 DEF BeginAll, Begin, Idle
  <2>2. \A t \in Type : \A i \in 1..size[t] : ~Passed(t, i)'
    BY <1>3, <2>1, TypesType DEF Passed, Type
  <2>3. 1 \in Type
    BY TypesType DEF Type
  <2>4. AllLoop'
    BY <1>1, <1>3, <2>1, <2>2, <2>3 DEF AllLoop
  <2>5. QED
    BY <2>1, <2>4, UnderWay DEF LoopInv, ClearLoop, SeekLoop, RerouteLoop
<1>5. CASE BeginClear
  <2>1. op'.name = "clear" /\ op'.type = 1 /\ op'.i = 1 /\ op'.before = aborted
    BY <1>5 DEF BeginClear, Begin, Idle
  <2>2. \A t \in Type : \A i \in 1..size[t] : ~Passed(t, i)'
    BY <1>3, <2>1, TypesType DEF Passed, Type
  <2>3. 1 \in Type
    BY TypesType DEF Type
  <2>4. ClearLoop'
    BY <1>1, <1>3, <2>1, <2>2, <2>3 DEF ClearLoop
  <2>5. QED
    BY <2>1, <2>4, UnderWay DEF LoopInv, AllLoop, SeekLoop, RerouteLoop
<1>6. ASSUME NEW t \in Type, BeginOfType(t) \/ BeginAny(t) PROVE LoopInv'
  <2>1. op'.name \in {"ofType", "any"}
    BY <1>6 DEF BeginOfType, BeginAny, Begin, Idle
  <2>2. QED
    BY <1>2, <2>1, UnderWay DEF LoopInv, AllLoop, ClearLoop, SeekLoop, RerouteLoop
<1>7. ASSUME NEW t \in Type, NEW c \in Client, BeginReroute(t, c) PROVE LoopInv'
  <2>1. PICK idx \in 1..size[t] :
           op' = [name |-> "reroute", type |-> t, orig |-> c, i |-> idx,
                  end |-> size[t] + 1, first |-> idx, list |-> <<>>, before |-> freed]
    BY <1>7 DEF BeginReroute, Begin, Idle
  <2>2. /\ op'.name = "reroute" /\ op'.type = t /\ op'.i = idx /\ op'.end = size[t] + 1
        /\ op'.first = idx /\ op'.before = freed
    BY <2>1
  <2>3. RerouteLoop'
    BY <1>1, <1>3, <2>2 DEF RerouteLoop
  <2>4. QED
    BY <1>2, <2>2, <2>3, UnderWay DEF LoopInv, AllLoop, ClearLoop, SeekLoop
<1>8. QED
  BY <1>4, <1>5, <1>6, <1>7 DEF BeginSome

\* What Return remembers.
LEMMA ReturnRemembers ==
    ASSUME RegistryInv, NEW ok \in BOOLEAN, Return(ok)
    PROVE  /\ op'.name = "idle" /\ last'.name = op.name /\ last'.type = op.type
           /\ last'.orig = op.orig /\ last'.ok = ok /\ last'.before = op.before
           /\ \A t \in Type : last'.left[t] = Vec(t)
           /\ last'.deleted = freed \ op.before
BY DEF Return, Idle

\* An operation that nothing is claimed of returns.
LEMMA OfTypeReturns ==
    ASSUME RegistryInv, op.name = "ofType", NEW ok \in BOOLEAN, Return(ok)
    PROVE  LoopInv'
BY ReturnRemembers DEF LoopInv, AllLoop, ClearLoop, SeekLoop, RerouteLoop, LoopsReachAll,
                       OneRecipient, Returned

\* sendToAll: the current client has been sent nothing yet, and an erase moves only
\* slots it has not passed.
LEMMA AllIterates ==
    ASSUME RegistryInv, RegistryInv', LoopInv, AllSends \/ AllRemoves
    PROVE  LoopInv'
<1>1. op.name = "all" /\ ~AtVectorEnd
  BY DEF AllSends, AllRemoves
<1>2. op.type \in Type /\ Current \in Client /\ op.i \in 1..size[op.type]
      /\ Current \in Vec(op.type)
  BY <1>1, CurrentType
<1>3. /\ op \in Frame /\ size[op.type] \in Nat /\ op.i \in Nat
      /\ got \in [Client -> Nat]
      /\ \A t \in Type : \A i \in 1..size[t] : slots[t][i] \in Vec(t) /\ slots[t][i] \in Client
  BY <1>2, SlotType DEF RegistryInv, TypeOK, Frame
<1>4. \A t \in Type : \A i \in 1..size[t] :
         slots[t][i] = Current => t = op.type /\ i = op.i
  <2>1. ASSUME NEW t \in Type, NEW i \in 1..size[t], slots[t][i] = Current
        PROVE  t = op.type /\ i = op.i
    <3>1. t = op.type
      BY <1>2, <1>3, <2>1 DEF RegistryInv, SlotsOnce
    <3>2. QED
      BY <1>2, <2>1, <3>1 DEF RegistryInv, SlotsOnce, Current
  <2>2. QED
    BY <2>1
<1>5. CASE AllSends
  <2>1. /\ op' = [op EXCEPT !.i = op.i + 1] /\ UNCHANGED <<slots, size>>
        /\ Sent(Current)
    BY <1>5 DEF AllSends, Goto, vecVars
  <2>2. op'.name = "all" /\ op'.type = op.type /\ op'.i = op.i + 1
    BY <1>1, <1>3, <2>1 DEF Frame
  <2>3. ASSUME NEW t \in Type, NEW i \in 1..size[t]
        PROVE  IF Passed(t, i)' THEN got'[slots[t][i]] = 1 \/ slots[t][i] \in torn'
                                ELSE got'[slots[t][i]] = 0
    <3>1. CASE slots[t][i] = Current
      <4>1. t = op.type /\ i = op.i
        BY <1>4, <3>1
      <4>2. Passed(t, i)'
        BY <1>3, <2>2, <4>1 DEF Passed
      <4>3. got[Current] = 0
        BY <1>1, <1>2, <1>3, <4>1 DEF LoopInv, AllLoop, Passed, Current, Type
      <4>4. got'[Current] = 1 \/ Current \in torn'
        BY <1>2, <1>3, <2>1, <4>3 DEF Sent
      <4>5. QED
        BY <3>1, <4>2, <4>4
    <3>2. CASE slots[t][i] # Current
      <4>1. ~(t = op.type /\ i = op.i)
        BY <3>2 DEF Current
      <4>2. Passed(t, i)' <=> Passed(t, i)
        BY <1>3, <2>2, <4>1 DEF Passed
      <4>3. got'[slots[t][i]] = got[slots[t][i]] /\ torn \subseteq torn'
        BY <1>2, <1>3, <2>1, <3>2 DEF Sent
      <4>4. QED
        BY <1>1, <4>2, <4>3 DEF LoopInv, AllLoop
    <3>3. QED
      BY <3>1, <3>2
  <2>4. AllLoop'
    BY <1>2, <1>3, <2>1, <2>2, <2>3 DEF AllLoop
  <2>5. QED
    BY <2>2, <2>4, UnderWay DEF LoopInv, ClearLoop, SeekLoop, RerouteLoop
<1>6. CASE AllRemoves
  <2>1. op' = op /\ UNCHANGED <<got, torn>> /\ Removed(op.type, Current)
    BY <1>6 DEF AllRemoves, Stay, sentVars
  <2>. HIDE DEF AllRemoves
  <2>a. TypeOK /\ SlotsOnce /\ op.type \in Type /\ Current \in Vec(op.type)
    BY <1>2 DEF RegistryInv
  <2>2. PICK p \in 1..size[op.type] :
           /\ slots[op.type][p] = Current
           /\ \A i \in 1..(size[op.type] - 1) :
                 slots'[op.type][i] = slots[op.type][IF i < p THEN i ELSE i + 1]
    BY <2>1, <2>a, Erased
  <2>3. p = op.i
    BY <1>2, <1>4, <2>2
  <2>4. /\ size' = [size EXCEPT ![op.type] = size[op.type] - 1]
        /\ \A u \in Type \ {op.type} : slots'[u] = slots[u]
    BY <1>2, <2>1, Erased DEF RegistryInv
  <2>5. size'[op.type] = size[op.type] - 1
        /\ \A u \in Type \ {op.type} : size'[u] = size[u]
    BY <1>2, <2>4 DEF RegistryInv, TypeOK
  <2>6. ASSUME NEW t \in Type, NEW i \in 1..size'[t]
        PROVE  IF Passed(t, i) THEN got[slots'[t][i]] = 1 \/ slots'[t][i] \in torn
                               ELSE got[slots'[t][i]] = 0
    <3>1. CASE t # op.type
      BY <1>1, <2>4, <2>5, <3>1 DEF LoopInv, AllLoop
    <3>2. CASE t = op.type
      <4>. DEFINE k == IF i < op.i THEN i ELSE i + 1
      <4>1. i \in 1..(size[t] - 1) /\ k \in 1..size[t] /\ slots'[t][i] = slots[t][k]
        BY <1>2, <1>3, <2>2, <2>3, <2>5, <3>2
      <4>2. Passed(t, i) <=> Passed(t, k)
        BY <1>2, <1>3, <3>2, <4>1 DEF Passed, Type
      <4>3. QED
        BY <1>1, <4>1, <4>2 DEF LoopInv, AllLoop
    <3>3. QED
      BY <3>1, <3>2
  <2>7. AllLoop'
    BY <1>2, <1>3, <2>1, <2>5, <2>6 DEF AllLoop, Passed
  <2>8. QED
    BY <1>1, <2>1, <2>7, UnderWay DEF LoopInv, ClearLoop, SeekLoop, RerouteLoop
<1>7. QED
  BY <1>5, <1>6

\* clear_aborted: it passes only infos that are not aborted, and what was aborted
\* when it began stays so.
LEMMA ClearIterates ==
    ASSUME RegistryInv, RegistryInv', LoopInv, ClearPasses \/ ClearRemoves
    PROVE  LoopInv'
<1>1. op.name = "clear" /\ ~AtVectorEnd
  BY DEF ClearPasses, ClearRemoves
<1>2. op.type \in Type /\ Current \in Client /\ op.i \in 1..size[op.type]
      /\ Current \in Vec(op.type)
  BY <1>1, CurrentType
<1>3. op \in Frame /\ size[op.type] \in Nat /\ op.i \in Nat
  BY <1>2, SlotType DEF RegistryInv, TypeOK, Frame
<1>4. CASE ClearPasses
  <2>1. /\ op' = [op EXCEPT !.i = op.i + 1] /\ UNCHANGED <<slots, size, aborted>>
        /\ Current \notin aborted
    BY <1>4 DEF ClearPasses, Goto, vecVars, infoVars
  <2>2. /\ op'.name = "clear" /\ op'.type = op.type /\ op'.i = op.i + 1
        /\ op'.before = op.before
    BY <1>1, <1>3, <2>1 DEF Frame
  <2>3. ASSUME NEW t \in Type, NEW i \in 1..size[t], Passed(t, i)'
        PROVE  slots[t][i] \notin op.before
    <3>1. Passed(t, i) \/ (t = op.type /\ i = op.i)
      BY <1>3, <2>2, <2>3 DEF Passed
    <3>2. QED
      BY <1>1, <2>1, <3>1 DEF LoopInv, ClearLoop, Current
  <2>4. ClearLoop'
    BY <1>1, <1>2, <1>3, <2>1, <2>2, <2>3 DEF LoopInv, ClearLoop
  <2>5. QED
    BY <2>2, <2>4, UnderWay DEF LoopInv, AllLoop, SeekLoop, RerouteLoop
<1>5. CASE ClearRemoves
  <2>1. op' = op /\ Removed(op.type, Current)
    BY <1>5 DEF ClearRemoves, Stay
  <2>2. PICK p \in 1..size[op.type] :
           /\ slots[op.type][p] = Current
           /\ \A i \in 1..(size[op.type] - 1) :
                 slots'[op.type][i] = slots[op.type][IF i < p THEN i ELSE i + 1]
    BY <1>2, <2>1, Erased DEF RegistryInv
  <2>3. p = op.i
    BY <1>2, <2>2 DEF RegistryInv, SlotsOnce, Current
  <2>4. /\ size' = [size EXCEPT ![op.type] = size[op.type] - 1]
        /\ \A u \in Type \ {op.type} : slots'[u] = slots[u]
        /\ aborted' = aborted \cup {Current}
    BY <1>2, <2>1, Erased DEF RegistryInv
  <2>5. size'[op.type] = size[op.type] - 1
        /\ \A u \in Type \ {op.type} : size'[u] = size[u]
    BY <1>2, <2>4 DEF RegistryInv, TypeOK
  <2>6. ASSUME NEW t \in Type, NEW i \in 1..size'[t], Passed(t, i)
        PROVE  slots'[t][i] \notin op.before
    <3>1. CASE t # op.type
      BY <1>1, <2>4, <2>5, <2>6, <3>1 DEF LoopInv, ClearLoop
    <3>2. CASE t = op.type
      <4>1. i < op.i
        BY <1>2, <2>6, <3>2 DEF Passed, Type
      <4>2. i \in 1..(size[t] - 1) /\ i \in 1..size[t] /\ slots'[t][i] = slots[t][i]
        BY <1>2, <1>3, <2>2, <2>3, <2>5, <3>2, <4>1
      <4>3. QED
        BY <1>1, <2>6, <4>2 DEF LoopInv, ClearLoop
    <3>3. QED
      BY <3>1, <3>2
  <2>7. ClearLoop'
    BY <1>1, <1>2, <1>3, <2>1, <2>4, <2>5, <2>6 DEF LoopInv, ClearLoop, Passed
  <2>8. QED
    BY <1>1, <2>1, <2>7, UnderWay DEF LoopInv, AllLoop, SeekLoop, RerouteLoop
<1>6. QED
  BY <1>4, <1>5

\* The next vector, or the return with all of them passed.
LEMMA NextVectorLoop ==
    ASSUME RegistryInv, RegistryInv', LoopInv, NextVector
    PROVE  LoopInv'
<1>1. /\ op.name \in {"all", "clear"} /\ op.i > size[op.type]
      /\ UNCHANGED <<slots, size, aborted, got, torn>>
  BY DEF NextVector, AtVectorEnd, vecVars, infoVars, sentVars
<1>2. op.type \in Type /\ op \in Frame /\ op.i \in Nat
  BY <1>1 DEF RegistryInv, LoopVariables, TypeOK, Frame
<1>3. \A t \in Type : size[t] \in Nat /\ \A i \in 1..size[t] : t \in Nat /\ i \in Nat
  BY SlotType DEF RegistryInv, Type
<1>4. CASE op.type = Types
  <2>1. Return(TRUE)
    BY <1>4 DEF NextVector
  <2>2. \A t \in Type : \A i \in 1..size[t] : Passed(t, i)
    BY <1>1, <1>2, <1>3, <1>4, TypesType DEF Passed, Type
  <2>3. /\ op'.name = "idle" /\ last'.name = op.name /\ last'.before = op.before
        /\ \A t \in Type : last'.left[t] = Vec(t)
    BY <2>1, ReturnRemembers
  <2>4. LoopsReachAll'
    <3>1. op.name = "all" => \A t \in Type : \A c \in Vec(t) : got[c] = 1 \/ c \in torn
      BY <2>2 DEF Vec, LoopInv, AllLoop
    <3>2. op.name = "clear" => \A t \in Type : Vec(t) \cap op.before = {}
      BY <2>2 DEF Vec, LoopInv, ClearLoop
    <3>3. QED
      BY <1>1, <2>3, <3>1, <3>2 DEF LoopsReachAll, Returned
  <2>5. QED
    BY <1>1, <2>3, <2>4 DEF LoopInv, AllLoop, ClearLoop, SeekLoop, RerouteLoop,
                            OneRecipient, Returned
<1>5. CASE op.type # Types
  <2>1. op' = [op EXCEPT !.type = op.type + 1, !.i = 1]
    BY <1>5 DEF NextVector
  <2>2. /\ op'.name = op.name /\ op'.type = op.type + 1 /\ op'.i = 1
        /\ op'.before = op.before
    BY <1>2, <2>1 DEF Frame
  <2>3. op.type + 1 \in Type
    BY <1>2, <1>5, TypesType DEF Type
  <2>4. \A t \in Type : \A i \in 1..size[t] : Passed(t, i)' <=> Passed(t, i)
    BY <1>1, <1>2, <1>3, <2>2 DEF Passed, Type
  <2>5. AllLoop' /\ ClearLoop'
    BY <1>1, <1>3, <2>2, <2>3, <2>4 DEF LoopInv, AllLoop, ClearLoop
  <2>6. QED
    BY <1>1, <2>2, <2>5, UnderWay DEF LoopInv, SeekLoop, RerouteLoop
<1>6. QED
  BY <1>4, <1>5

\* The end of an operation that looks for one recipient: no loop is under way.
LEMMA SeekReturns ==
    ASSUME op'.name = "idle", last'.name \in {"any", "reroute"}, OneRecipient'
    PROVE  LoopInv'
BY DEF LoopInv, AllLoop, ClearLoop, SeekLoop, RerouteLoop, LoopsReachAll, Returned

\* A copy, or a part of it, goes to one client more.
LEMMA SentToOne ==
    ASSUME RegistryInv, NEW c \in Client, Receivers = {}, Sent(c)
    PROVE  /\ Receivers' = {c} /\ Cardinality(Receivers') = 1 /\ got'[c] <= 1
<1>1. got \in [Client -> Nat] /\ torn \subseteq Client
  BY DEF RegistryInv, TypeOK
<1>2. torn = {} /\ \A d \in Client : got[d] = 0
  BY <1>1 DEF Receivers
<1>3. Receivers' = {c} /\ got'[c] <= 1
  BY <1>1, <1>2 DEF Sent, Receivers
<1>4. QED
  BY <1>3, FS_Singleton

\* sendToAnyOfType.
LEMMA AnyIterates ==
    ASSUME RegistryInv, RegistryInv', LoopInv, AnyTries \/ AnyGivesUp
    PROVE  LoopInv'
<1>1. op.name = "any" /\ Receivers = {} /\ op.type \in Type
  BY DEF AnyTries, AnyGivesUp, LoopInv, SeekLoop, RegistryInv, LoopVariables
<1>2. CASE AnyGivesUp
  <2>1. Return(FALSE) /\ UNCHANGED <<got, torn>> /\ size[op.type] = 0
    BY <1>2 DEF AnyGivesUp, sentVars
  <2>2. Receivers' = {} /\ Cardinality({}) = 0
    BY <1>1, <2>1, FS_EmptySet DEF Receivers
  <2>3. Vec(op.type) = {}
    BY <2>1 DEF Vec
  <2>4. /\ op'.name = "idle" /\ last'.name = "any" /\ last'.ok = FALSE
        /\ last'.type = op.type /\ last'.left[op.type] = {}
    BY <1>1, <2>1, <2>3, ReturnRemembers
  <2>5. OneRecipient'
    BY <2>2, <2>4 DEF OneRecipient, Returned
  <2>6. QED
    BY <2>4, <2>5, SeekReturns
<1>3. CASE AnyTries
  <2>1. PICK i \in 1..size[op.type] :
           \/ SendToTrue(slots[op.type][i])
           \/ SendToFalse(slots[op.type][i]) /\ Stay
    BY <1>3 DEF AnyTries
  <2>2. slots[op.type][i] \in Client
    BY <1>1, PickedType
  <2>3. CASE SendToTrue(slots[op.type][i])
    <3>1. Return(TRUE) /\ Sent(slots[op.type][i])
      BY <2>3 DEF SendToTrue
    <3>2. /\ Receivers' = {slots[op.type][i]} /\ Cardinality(Receivers') = 1
          /\ got'[slots[op.type][i]] <= 1
      BY <1>1, <2>2, <3>1, SentToOne
    <3>3. op'.name = "idle" /\ last'.name = "any" /\ last'.ok = TRUE
      BY <1>1, <3>1, ReturnRemembers
    <3>4. OneRecipient'
      BY <3>2, <3>3 DEF OneRecipient, Returned
    <3>5. QED
      BY <3>3, <3>4, SeekReturns
  <2>4. CASE SendToFalse(slots[op.type][i]) /\ Stay
    <3>1. op' = op /\ UNCHANGED <<got, torn>>
      BY <2>4 DEF SendToFalse, Stay, sentVars
    <3>2. Receivers' = {}
      BY <1>1, <3>1 DEF Receivers
    <3>3. QED
      BY <1>1, <3>1, <3>2, UnderWay DEF LoopInv, AllLoop, ClearLoop, SeekLoop, RerouteLoop
  <2>5. QED
    BY <2>1, <2>3, <2>4
<1>4. QED
  BY <1>2, <1>3

\* rerouteToAnyOfType: as long as nobody had to be removed, the rounds together
\* pass every slot.
LEMMA RerouteIterates ==
    ASSUME RegistryInv, RegistryInv', LoopInv,
           RerouteTries \/ ReroutePasses \/ RerouteEnds
    PROVE  LoopInv'
<1>1. op.name = "reroute" /\ Receivers = {} /\ op.type \in Type
  BY DEF RerouteTries, ReroutePasses, RerouteEnds, LoopInv, SeekLoop, RegistryInv,
         LoopVariables
<1>2. /\ op \in Frame /\ op.i \in Nat /\ op.end \in Nat /\ op.first \in Nat
      /\ size[op.type] \in Nat /\ op.i <= op.end /\ 1 <= op.i /\ 1 <= op.first
  BY <1>1, SlotType DEF RegistryInv, LoopVariables, InRange, TypeOK, Frame
<1>. DEFINE n == size[op.type]
<1>3. /\ op.before \subseteq freed
      /\ freed = op.before =>
           /\ op.first <= n
           /\ \/ /\ op.end = n + 1
                 /\ \A k \in op.first..(op.i - 1) : slots[op.type][k] = op.orig
              \/ /\ op.end = op.first
                 /\ \A k \in op.first..n : slots[op.type][k] = op.orig
                 /\ \A k \in 1..(op.i - 1) : slots[op.type][k] = op.orig
  BY <1>1 DEF LoopInv, RerouteLoop
<1>4. CASE ReroutePasses
  <2>1. /\ op' = [op EXCEPT !.i = op.i + 1] /\ Current = op.orig
        /\ UNCHANGED <<slots, size, freed, got, torn>>
    BY <1>4 DEF ReroutePasses, Goto, vecVars, infoVars, sentVars
  <2>2. /\ op'.name = "reroute" /\ op'.type = op.type /\ op'.i = op.i + 1
        /\ op'.end = op.end /\ op'.first = op.first /\ op'.orig = op.orig
        /\ op'.before = op.before
    BY <1>1, <1>2, <2>1 DEF Frame
  <2>3. \A k \in Nat : k <= op.i => k <= op.i - 1 \/ slots[op.type][k] = op.orig
    BY <1>2, <2>1 DEF Current
  <2>4. RerouteLoop'
    BY <1>2, <1>3, <2>1, <2>2, <2>3 DEF RerouteLoop
  <2>5. Receivers' = {}
    BY <1>1, <2>1 DEF Receivers
  <2>6. QED
    BY <2>2, <2>4, <2>5, UnderWay DEF LoopInv, AllLoop, ClearLoop, SeekLoop
<1>5. CASE RerouteEnds
  <2>1. op.i = op.end /\ UNCHANGED <<slots, size, freed, got, torn>>
    BY <1>5 DEF RerouteEnds, vecVars, infoVars, sentVars
  <2>2. Receivers' = {} /\ Cardinality({}) = 0
    BY <1>1, <2>1, FS_EmptySet DEF Receivers
  <2>3. CASE op.end # op.first
    <3>1. op' = [op EXCEPT !.i = 1, !.end = op.first]
      BY <1>5, <2>3 DEF RerouteEnds
    <3>2. /\ op'.name = "reroute" /\ op'.type = op.type /\ op'.i = 1
          /\ op'.end = op.first /\ op'.first = op.first /\ op'.orig = op.orig
          /\ op'.before = op.before
      BY <1>1, <1>2, <3>1 DEF Frame
    <3>3. RerouteLoop'
      BY <1>2, <1>3, <2>1, <2>3, <3>2 DEF RerouteLoop
    <3>4. QED
      BY <2>2, <3>2, <3>3, UnderWay DEF LoopInv, AllLoop, ClearLoop, SeekLoop
  <2>4. CASE op.end = op.first
    <3>1. Return(FALSE)
      BY <1>5, <2>4 DEF RerouteEnds
    <3>2. freed \ op.before = {} => Vec(op.type) \subseteq {op.orig}
      <4>1. SUFFICES ASSUME freed = op.before
                     PROVE  \A k \in 1..n : slots[op.type][k] = op.orig
        BY <1>3 DEF Vec
      <4>2. op.first <= n /\ op.i = op.first
        BY <1>3, <2>1, <2>4, <4>1
      <4>3. /\ \A k \in op.first..n : slots[op.type][k] = op.orig
            /\ \A k \in 1..(op.i - 1) : slots[op.type][k] = op.orig
        BY <1>2, <1>3, <2>4, <4>1, <4>2
      <4>4. QED
        BY <1>2, <4>2, <4>3
    <3>3. /\ op'.name = "idle" /\ last'.name = "reroute" /\ last'.type = op.type
          /\ last'.orig = op.orig /\ last'.deleted = freed \ op.before
          /\ last'.left[op.type] = Vec(op.type)
      BY <1>1, <3>1, ReturnRemembers
    <3>4. OneRecipient'
      BY <2>2, <3>2, <3>3 DEF OneRecipient, Returned
    <3>5. QED
      BY <3>3, <3>4, SeekReturns
  <2>5. QED
    BY <2>3, <2>4
<1>6. CASE RerouteTries
  <2>1. /\ op.i # op.end /\ Current \notin freed /\ Current # op.orig
        /\ SendToTrue(Current) \/ (SendToFalse(Current) /\ Goto(op.i + 1))
    BY <1>6 DEF RerouteTries
  <2>2. Current \in Client
    BY <1>1, <2>1, CurrentType
  <2>3. CASE SendToTrue(Current)
    <3>1. Return(TRUE) /\ Sent(Current)
      BY <2>3 DEF SendToTrue
    <3>2. Receivers' = {Current} /\ Cardinality(Receivers') = 1
      BY <1>1, <2>2, <3>1, SentToOne
    <3>3. /\ op'.name = "idle" /\ last'.name = "reroute" /\ last'.ok = TRUE
          /\ last'.orig = op.orig
      BY <1>1, <3>1, ReturnRemembers
    <3>4. OneRecipient'
      BY <2>1, <3>2, <3>3 DEF OneRecipient, Returned
    <3>5. QED
      BY <3>3, <3>4, SeekReturns
  <2>4. CASE SendToFalse(Current) /\ Goto(op.i + 1)
    <3>1. op' = [op EXCEPT !.i = op.i + 1] /\ UNCHANGED <<got, torn>>
          /\ Removed(op.type, Current)
      BY <2>4 DEF SendToFalse, Goto, sentVars
    <3>2. op'.name = "reroute" /\ op'.before = op.before
      BY <1>1, <1>2, <3>1 DEF Frame
    <3>3. op.before \subseteq freed' /\ freed' # op.before
      <4>1. CASE freed = op.before
        <5>1. op.i \in 1..n
          BY <1>2, <1>3, <2>1, <4>1
        <5>2. Current \in Vec(op.type)
          BY <5>1 DEF Current, Vec
        <5>3. freed' = freed \cup {Current}
          BY <3>1, <5>2 DEF Removed
        <5>4. QED
          BY <2>1, <4>1, <5>3
      <4>2. CASE freed # op.before
        <5>1. freed \subseteq freed'
          BY <1>1, <2>2, <3>1, RemovedKeepsRegistry
        <5>2. QED
          BY <1>3, <4>2, <5>1
      <4>3. QED
        BY <4>1, <4>2
    <3>4. RerouteLoop'
      BY <3>2, <3>3 DEF RerouteLoop
    <3>5. Receivers' = {}
      BY <1>1, <3>1 DEF Receivers
    <3>6. QED
      BY <3>2, <3>4, <3>5, UnderWay DEF LoopInv, AllLoop, ClearLoop, SeekLoop
  <2>5. QED
    BY <2>1, <2>3, <2>4
<1>7. QED
  BY <1>4, <1>5, <1>6

\* The steps nothing is claimed of: sendToAllOfType, and undefined behaviour, which
\* only happens while an operation is under way.
LEMMA OtherIterates ==
    ASSUME RegistryInv, LoopInv,
           OfTypeEnds \/ OfTypeSends \/ OfTypeRemoves \/ UseAfterFree
    PROVE  LoopInv'
<1>1. CASE OfTypeEnds
  BY <1>1, OfTypeReturns DEF OfTypeEnds
<1>2. CASE OfTypeSends \/ OfTypeRemoves
  <2>1. op.name = "ofType" /\ op \in Frame
    BY <1>2 DEF OfTypeSends, OfTypeRemoves, RegistryInv, TypeOK
  <2>2. op'.name = "ofType"
    BY <1>2, <2>1 DEF OfTypeSends, OfTypeRemoves, Goto, Stay, Frame
  <2>3. QED
    BY <2>2, UnderWay DEF LoopInv, AllLoop, ClearLoop, SeekLoop, RerouteLoop
<1>3. CASE UseAfterFree
  <2>1. UNCHANGED <<slots, size, aborted, freed, got, torn, op, last>>
    BY <1>3 DEF UseAfterFree, Break, vecVars, infoVars, sentVars
  <2>2. QED
    BY <2>1 DEF LoopInv, AllLoop, ClearLoop, SeekLoop, RerouteLoop, Passed, Receivers,
                LoopsReachAll, OneRecipient, Returned
<1>4. QED
  BY <1>1, <1>2, <1>3

\* So does what is said of a loop that is under way.
THEOREM LoopInvariance == Spec => []LoopInv
<1>1. RegistryInv /\ RegistryInv' /\ LoopInv /\ [Next]_vars => LoopInv'
  <2>. SUFFICES ASSUME RegistryInv, RegistryInv', LoopInv, [Next]_vars PROVE LoopInv'
    OBVIOUS
  <2>1. CASE UNCHANGED vars
    <3>1. UNCHANGED <<slots, size, aborted, freed, got, torn, op, last>>
      BY <2>1 DEF vars, vecVars, infoVars, sentVars
    <3>2. QED
      BY <3>1 DEF LoopInv, AllLoop, ClearLoop, SeekLoop, RerouteLoop, Passed, Receivers,
                  LoopsReachAll, OneRecipient, Returned
  <2>2. CASE Environment
    BY <2>2, EnvironmentLoop
  <2>3. CASE BeginSome
    BY <2>3, BeginLoop
  <2>4. CASE Iterate
    BY <2>4, AllIterates, ClearIterates, NextVectorLoop, AnyIterates, RerouteIterates,
       OtherIterates DEF Iterate
  <2>5. QED
    BY <2>1, <2>2, <2>3, <2>4 DEF Next
<1>2. QED
  BY <1>1, InitLoop, Invariance, PTL DEF Spec

\* sendToAll and clear_aborted, which erase under their own iterator, miss nobody.
THEOREM LoopsAreComplete == Spec => []LoopsReachAll
<1>1. LoopInv => LoopsReachAll
  BY DEF LoopInv
<1>2. QED
  BY <1>1, LoopInvariance, PTL

\* sendToAnyOfType and rerouteToAnyOfType send to one client, or fail for a reason.
THEOREM RecipientIsOne == Spec => []OneRecipient
<1>1. LoopInv => OneRecipient
  BY DEF LoopInv
<1>2. QED
  BY <1>1, LoopInvariance, PTL
=============================================================================
