---------------------------- MODULE BrokerProofs ----------------------------
(***************************************************************************)
(* Proofs about Broker for every number of clients, every scenario and any *)
(* number of refused sends.  At any time there is one copy of an item or   *)
(* of its answer on its way (OneCopy); what that copy says, and who is     *)
(* known to have had it, is ItemInv.  FollowInv is about the copies that   *)
(* monitors get of both.                                                   *)
(***************************************************************************)
EXTENDS Broker, SequenceTheorems, FiniteSetTheorems, TLAPS

-----------------------------------------------------------------------------
(* Queues of packages                                                      *)

Elems(s) == {s[k] : k \in 1..Len(s)}
Has(s, i) == \E m \in Elems(s) : m.id = i
Once(s, i) == \A k, l \in 1..Len(s) : s[k].id = i /\ s[l].id = i => k = l

\* s has no package of item i that t has not, and none twice that t has once.
Within(s, t, i) ==
    /\ \A m \in Elems(s) : m.id = i => m \in Elems(t)
    /\ Once(t, i) => Once(s, i)

\* Nothing is in an empty queue.
LEMMA EmptyQueue == \A i : Elems(<<>>) = {} /\ Once(<<>>, i)
BY DEF Elems, Once

\* An empty queue is within every queue.
LEMMA NothingWithin == \A t, i : Within(<<>>, t, i)
BY EmptyQueue DEF Within

\* A queue is within itself.
LEMMA WithinItself == \A t, i : Within(t, t, i)
BY DEF Within

\* A package at the end of a queue.
LEMMA Queued ==
    ASSUME NEW s \in Seq(Package), NEW m \in Package
    PROVE  /\ Append(s, m) \in Seq(Package)
           /\ Elems(Append(s, m)) = Elems(s) \cup {m}
           /\ \A i : m.id # i => Within(Append(s, m), s, i)
           /\ \A i : Once(s, i) /\ ~Has(s, i) => Once(Append(s, m), i)
<1>. DEFINE t == Append(s, m)
<1>1. /\ t \in Seq(Package) /\ Len(t) = Len(s) + 1 /\ Len(s) \in Nat
      /\ \A k \in 1..Len(s) : t[k] = s[k]
      /\ t[Len(s) + 1] = m
  BY AppendProperties, LenProperties
<1>. HIDE DEF t
<1>2. Elems(t) = Elems(s) \cup {m}
  <2>1. ASSUME NEW k \in 1..Len(t) PROVE t[k] \in Elems(s) \cup {m}
    <3>1. CASE k = Len(s) + 1
      BY <1>1, <3>1
    <3>2. CASE k # Len(s) + 1
      <4>1. k \in 1..Len(s) /\ t[k] = s[k]
        BY <1>1, <2>1, <3>2
      <4>2. QED
        BY <4>1 DEF Elems
    <3>3. QED
      BY <3>1, <3>2
  <2>2. ASSUME NEW k \in 1..Len(s) PROVE s[k] \in Elems(t)
    <3>1. k \in 1..Len(t) /\ t[k] = s[k]
      BY <1>1, <2>2
    <3>2. QED
      BY <3>1 DEF Elems
  <2>3. m \in Elems(t)
    <3>1. Len(s) + 1 \in 1..Len(t)
      BY <1>1
    <3>2. QED
      BY <1>1, <3>1 DEF Elems
  <2>4. QED
    BY <2>1, <2>2, <2>3 DEF Elems
<1>3. ASSUME NEW i, m.id # i, Once(s, i) PROVE Once(t, i)
  <2>. SUFFICES ASSUME NEW k \in 1..Len(t), NEW l \in 1..Len(t), t[k].id = i, t[l].id = i
                PROVE  k = l
    BY DEF Once
  <2>1. k \in 1..Len(s) /\ l \in 1..Len(s)
    BY <1>1, <1>3
  <2>2. QED
    BY <1>1, <1>3, <2>1 DEF Once
<1>4. ASSUME NEW i, Once(s, i), ~Has(s, i) PROVE Once(t, i)
  <2>. SUFFICES ASSUME NEW k \in 1..Len(t), NEW l \in 1..Len(t), t[k].id = i, t[l].id = i
                PROVE  k = l
    BY DEF Once
  <2>1. k \notin 1..Len(s) /\ l \notin 1..Len(s)
    BY <1>1, <1>4 DEF Has, Elems
  <2>2. QED
    BY <1>1, <2>1
<1>5. QED
  BY <1>1, <1>2, <1>3, <1>4 DEF Within, t

\* A queue without its first packages.
LEMMA Cut ==
    ASSUME NEW s \in Seq(Package), NEW n \in 0..Len(s)
    PROVE  /\ SubSeq(s, n + 1, Len(s)) \in Seq(Package)
           /\ \A i : Within(SubSeq(s, n + 1, Len(s)), s, i)
<1>. DEFINE t == SubSeq(s, n + 1, Len(s))
<1>1. /\ Len(s) \in Nat /\ n \in Nat /\ n <= Len(s)
      /\ \A k \in (n + 1)..Len(s) : s[k] \in Package
  BY LenProperties, ElementOfSeq
<1>2. /\ t \in Seq(Package)
      /\ Len(t) = IF n + 1 <= Len(s) THEN Len(s) - (n + 1) + 1 ELSE 0
      /\ \A k \in 1..(Len(s) - (n + 1) + 1) : t[k] = s[(n + 1) + k - 1]
  BY <1>1, SubSeqProperties
<1>. HIDE DEF t
<1>3. Len(t) = Len(s) - n /\ \A k \in 1..Len(t) : n + k \in 1..Len(s) /\ t[k] = s[n + k]
  <2>1. Len(t) = Len(s) - n
    BY <1>1, <1>2
  <2>2. ASSUME NEW k \in 1..Len(t) PROVE n + k \in 1..Len(s) /\ t[k] = s[n + k]
    <3>1. k \in 1..(Len(s) - (n + 1) + 1) /\ (n + 1) + k - 1 = n + k
      BY <1>1, <2>1
    <3>2. QED
      BY <1>1, <1>2, <2>1, <3>1
  <2>3. QED
    BY <2>1, <2>2
<1>4. Elems(t) \subseteq Elems(s)
  BY <1>3 DEF Elems
<1>5. ASSUME NEW i, Once(s, i) PROVE Once(t, i)
  <2>. SUFFICES ASSUME NEW k \in 1..Len(t), NEW l \in 1..Len(t), t[k].id = i, t[l].id = i
                PROVE  k = l
    BY DEF Once
  <2>1. n + k \in 1..Len(s) /\ n + l \in 1..Len(s) /\ s[n + k].id = i /\ s[n + l].id = i
    BY <1>3
  <2>2. n + k = n + l
    BY <1>5, <2>1 DEF Once
  <2>3. QED
    BY <1>1, <2>2
<1>6. QED
  BY <1>2, <1>4, <1>5 DEF Within, t

\* The first package leaves a queue.
LEMMA Taking ==
    ASSUME NEW s \in Seq(Package), s # <<>>
    PROVE  /\ Head(s) \in Package /\ Head(s) \in Elems(s)
           /\ Tail(s) \in Seq(Package)
           /\ \A i : Within(Tail(s), s, i)
           /\ \A i : Once(s, i) /\ Head(s).id = i => ~Has(Tail(s), i)
<1>1. /\ Len(s) \in Nat \ {0} /\ Head(s) \in Package /\ Tail(s) \in Seq(Package)
      /\ Tail(s) = SubSeq(s, 1 + 1, Len(s)) /\ Head(s) = s[1]
      /\ Len(Tail(s)) = Len(s) - 1
      /\ \A k \in 1..Len(Tail(s)) : Tail(s)[k] = s[k + 1]
  <2>1. Head(s) = s[1]
    OBVIOUS
  <2>2. QED
    BY <2>1, EmptySeq, HeadTailProperties, TailIsSubSeq
<1>2. Head(s) \in Elems(s)
  BY <1>1 DEF Elems
<1>3. \A i : Within(Tail(s), s, i)
  <2>1. 1 \in 0..Len(s)
    BY <1>1
  <2>2. \A i : Within(SubSeq(s, 1 + 1, Len(s)), s, i)
    BY <2>1, Cut
  <2>3. QED
    BY <1>1, <2>2
<1>4. ASSUME NEW i, Once(s, i), Head(s).id = i, Has(Tail(s), i) PROVE FALSE
  <2>1. PICK k \in 1..Len(Tail(s)) : Tail(s)[k].id = i
    BY <1>4 DEF Has, Elems
  <2>2. k + 1 \in 1..Len(s) /\ 1 \in 1..Len(s) /\ s[k + 1].id = i /\ s[1].id = i
    BY <1>1, <1>4, <2>1
  <2>3. k + 1 = 1
    BY <1>4, <2>2 DEF Once
  <2>4. QED
    BY <2>3
<1>5. QED
  BY <1>1, <1>2, <1>3, <1>4

-----------------------------------------------------------------------------
(* Types                                                                   *)

EnvTypes ==
    /\ script \subseteq AllMessages /\ typed \subseteq UNION {s.typed : s \in Scenarios}
    /\ up \subseteq Client
RegTypes ==
    /\ state \in [Client -> {"off", "asked", "answered", "in", "out"}]
    /\ aborted \subseteq Client
    /\ session \in [Client -> Client \cup {NoUuid}]
    /\ greeting \in Client \cup {Nobody}
NetTypes == toBroker \in [Client -> Seq(Package)] /\ inbox \in [Client -> Seq(Package)]
HandTypes == doing \in [Client -> [step : Steps, to : Uuid, msg : Package]]
SendTypes == parts \in [Computes -> 0..2] /\ refused \in 0..MaxRefused /\ fault \in BOOLEAN
GivenTypes == given \in [Ids -> SUBSET (Client \cup {Nobody})] /\ torn \subseteq Client
LogTypes ==
    /\ watching \in [Ids -> SUBSET Monitor] /\ sent \in [Ids -> {"no", "early", "in"}]
    /\ unsent \subseteq AnyId
    /\ heard \in [Planner -> Seq(Package)] /\ seen \in [Monitor -> SUBSET (TypeNames \X AnyId)]

\* TypeOK by groups of variables.
LEMMA TypeParts ==
    TypeOK <=> /\ EnvTypes /\ RegTypes /\ NetTypes /\ HandTypes /\ SendTypes
               /\ GivenTypes /\ LogTypes
BY DEF TypeOK, EnvTypes, RegTypes, NetTypes, HandTypes, SendTypes, GivenTypes, LogTypes

\* The same of the next state.
LEMMA TypePartsNext ==
    ASSUME EnvTypes', RegTypes', NetTypes', HandTypes', SendTypes', GivenTypes', LogTypes'
    PROVE  TypeOK'
BY DEF TypeOK, EnvTypes, RegTypes, NetTypes, HandTypes, SendTypes, GivenTypes, LogTypes

\* A group that does not change keeps its types.
LEMMA Frame ==
    /\ EnvTypes /\ UNCHANGED envVars => EnvTypes'
    /\ RegTypes /\ UNCHANGED regVars => RegTypes'
    /\ NetTypes /\ UNCHANGED netVars => NetTypes'
    /\ HandTypes /\ UNCHANGED doing => HandTypes'
    /\ SendTypes /\ UNCHANGED <<parts, refused, fault>> => SendTypes'
    /\ GivenTypes /\ UNCHANGED <<given, torn>> => GivenTypes'
    /\ LogTypes /\ UNCHANGED <<watching, sent, unsent, heard, seen>> => LogTypes'
BY DEF EnvTypes, RegTypes, NetTypes, HandTypes, SendTypes, GivenTypes, LogTypes,
       envVars, regVars, netVars

\* Strings that are names of package types.
LEMMA Names ==
    {"Undefined", "Work", "RerouteWork", "TaskFinished", "Text", "UuidForUnitResponse"}
        \subseteq TypeNames
<1>1. /\ Len(CppTypes) = 15 /\ CppTypes[1] = "Undefined" /\ CppTypes[2] = "Work"
      /\ CppTypes[3] = "RerouteWork" /\ CppTypes[5] = "TaskFinished"
      /\ CppTypes[6] = "Text" /\ CppTypes[14] = "UuidForUnitResponse"
  BY DEF CppTypes
<1>2. QED
  BY <1>1 DEF TypeNames

\* What a scenario may name.
LEMMA ScriptTypes ==
    /\ Client \subseteq Uuid /\ NoUuid \in Uuid /\ Nobody \in Uuid
    /\ Planner \subseteq Client /\ Computes \subseteq Client /\ Monitor \subseteq Client
    /\ Ids \subseteq AnyId /\ Items \subseteq Ids
    /\ "console" \in AnyId /\ "0_0" \in AnyId /\ Nobody \in AnyId
    /\ \A m \in AllMessages : /\ m.type \in TypeNames /\ m.id \in Ids /\ m.from \in Client
                              /\ m.src \in Uuid /\ m.tgt \in Uuid
<1>1. \A m \in AllMessages : /\ m.type \in TypeNames /\ m.id \in Ids /\ m.from \in Client
                             /\ m.src \in Uuid /\ m.tgt \in Uuid
  BY ScenarioType
<1>2. Items \subseteq Ids
  BY DEF Items, Ids
<1>3. QED
  BY <1>1, <1>2 DEF Uuid, Client, Computes, AnyId

\* A message with parts of the right types is a package.
LEMMA Packaged ==
    ASSUME NEW t \in TypeNames, NEW i \in AnyId, NEW u \in Uuid, NEW v \in Uuid
    PROVE  Message(t, i, u, v) \in Package
BY DEF Message, Package

\* The initial states have their types.
LEMMA InitTypes == Init => TypeOK
<1>. SUFFICES ASSUME Init PROVE TypeOK
  OBVIOUS
<1>1. PICK s \in Scenarios :
        /\ script = s.script /\ typed = s.typed /\ up = s.there
        /\ state = [c \in Client |-> IF c \in s.there THEN "in"
                                    ELSE IF c \in s.joins THEN "off" ELSE "out"]
  BY DEF Init
<1>2. EnvTypes
  BY <1>1, ScenarioType DEF EnvTypes, AllMessages
<1>3. RegTypes
  BY <1>1 DEF Init, RegTypes
<1>4. <<>> \in Seq(Package)
  BY EmptySeq
<1>5. NetTypes /\ LogTypes
  BY <1>4 DEF Init, NetTypes, LogTypes
<1>6. GivenTypes /\ SendTypes
  <2>1. GivenTypes
    BY DEF Init, GivenTypes
  <2>2. SendTypes
    <3>1. parts = [c \in Computes |-> 0] /\ refused = 0 /\ fault = FALSE
      BY DEF Init
    <3>2. 0 \in 0..MaxRefused /\ 0 \in 0..2
      BY MaxRefusedType
    <3>3. QED
      BY <3>1, <3>2 DEF SendTypes
  <2>3. QED
    BY <2>1, <2>2
<1>7. HandTypes
  <2>1. Message("Undefined", Nobody, Nobody, Nobody) \in Package
    <3>1. "Undefined" \in TypeNames
      BY Names
    <3>2. Nobody \in AnyId /\ Nobody \in Uuid
      BY ScriptTypes
    <3>3. QED
      BY <3>1, <3>2, Packaged
  <2>2. Idle \in [step : Steps, to : Uuid, msg : Package]
    BY <2>1, ScriptTypes DEF Idle, Steps
  <2>3. QED
    BY <2>2 DEF Init, HandTypes
<1>8. QED
  BY <1>2, <1>3, <1>5, <1>6, <1>7, TypeParts

\* A fault keeps the types.
LEMMA BreakTypes ==
    ASSUME TypeOK, Break
    PROVE  TypeOK'
<1>0. EnvTypes /\ RegTypes /\ NetTypes /\ HandTypes /\ SendTypes /\ GivenTypes /\ LogTypes
  BY TypeParts
<1>1. SendTypes'
  BY <1>0 DEF Break, SendTypes
<1>2. UNCHANGED <<envVars, regVars, netVars, doing, logVars>>
  BY DEF Break
<1>3. QED
  BY <1>0, <1>1, <1>2, Frame, TypePartsNext DEF logVars

\* The handshake keeps the types.
LEMMA ConnectingTypes ==
    ASSUME TypeOK, NEW c \in Client, Connecting(c)
    PROVE  TypeOK'
<1>0. EnvTypes /\ RegTypes /\ NetTypes /\ HandTypes /\ SendTypes /\ GivenTypes /\ LogTypes
  BY TypeParts
<1>1. CASE Connect(c)
  <2>1. EnvTypes' /\ RegTypes'
    BY <1>0, <1>1 DEF Connect, EnvTypes, RegTypes
  <2>2. UNCHANGED <<netVars, doing, parts, refused, fault, logVars>>
    BY <1>1 DEF Connect
  <2>3. QED
    BY <1>0, <2>1, <2>2, Frame, TypePartsNext DEF logVars
<1>2. CASE Answer(c)
  <2>1. RegTypes'
    BY <1>0, <1>2 DEF Answer, RegTypes
  <2>2. UNCHANGED <<envVars, netVars, doing, parts, refused, fault, logVars>>
    BY <1>2 DEF Answer
  <2>3. QED
    BY <1>0, <2>1, <2>2, Frame, TypePartsNext DEF logVars
<1>3. CASE Discard(c)
  <2>1. EnvTypes' /\ RegTypes'
    BY <1>0, <1>3 DEF Discard, EnvTypes, RegTypes
  <2>2. NetTypes'
    BY <1>0, <1>3, EmptySeq DEF Discard, NetTypes
  <2>3. UNCHANGED <<doing, parts, refused, fault, logVars>>
    BY <1>3 DEF Discard
  <2>4. QED
    BY <1>0, <2>1, <2>2, <2>3, Frame, TypePartsNext DEF logVars
<1>4. CASE Enter(c)
  <2>1. RegTypes'
    BY <1>0, <1>4 DEF Enter, RegTypes
  <2>2. PICK n \in 0..Len(toBroker[c]) :
          toBroker' = [toBroker EXCEPT ![c] = SubSeq(@, n + 1, Len(@))]
    BY <1>4 DEF Enter
  <2>3. toBroker[c] \in Seq(Package)
    BY <1>0 DEF NetTypes
  <2>4. SubSeq(toBroker[c], n + 1, Len(toBroker[c])) \in Seq(Package)
    BY <2>3, Cut
  <2>5. NetTypes'
    BY <1>0, <1>4, <2>2, <2>4 DEF Enter, NetTypes
  <2>6. UNCHANGED <<envVars, doing, parts, refused, fault, logVars>>
    BY <1>4 DEF Enter
  <2>7. QED
    BY <1>0, <2>1, <2>5, <2>6, Frame, TypePartsNext DEF logVars
<1>5. CASE GreetingBreaks(c)
  BY <1>5, BreakTypes DEF GreetingBreaks
<1>6. QED
  BY <1>1, <1>2, <1>3, <1>4, <1>5 DEF Connecting

\* So do clients that leave and receivers that end.
LEMMA ComingTypes ==
    ASSUME TypeOK, NEW c \in Client, Leave(c) \/ ReceiverEnds(c) \/ Drained(c)
                                     \/ GarbleAtBroker(c)
    PROVE  TypeOK'
<1>0. EnvTypes /\ RegTypes /\ NetTypes /\ HandTypes /\ SendTypes /\ GivenTypes /\ LogTypes
  BY TypeParts
<1>1. CASE Leave(c)
  <2>1. EnvTypes' /\ NetTypes'
    BY <1>0, <1>1, EmptySeq DEF Leave, EnvTypes, NetTypes
  <2>2. UNCHANGED <<regVars, doing, parts, refused, fault, logVars>>
    BY <1>1 DEF Leave
  <2>3. QED
    BY <1>0, <2>1, <2>2, Frame, TypePartsNext DEF logVars
<1>2. CASE ReceiverEnds(c)
  <2>1. RegTypes'
    BY <1>0, <1>2 DEF ReceiverEnds, RegTypes
  <2>2. UNCHANGED <<envVars, netVars, doing, parts, refused, fault, logVars>>
    BY <1>2 DEF ReceiverEnds
  <2>3. QED
    BY <1>0, <2>1, <2>2, Frame, TypePartsNext DEF logVars
<1>3. CASE Drained(c)
  <2>1. NetTypes'
    BY <1>0, <1>3, EmptySeq DEF Drained, GarbleAtBroker, NetTypes
  <2>2. UNCHANGED <<envVars, regVars, doing, parts, refused, fault, logVars>>
    BY <1>3 DEF Drained
  <2>3. QED
    BY <1>0, <2>1, <2>2, Frame, TypePartsNext DEF logVars
<1>4. CASE GarbleAtBroker(c)
  <2>1. toBroker[c] \in Seq(Package) /\ toBroker[c] # <<>>
    BY <1>0, <1>4 DEF GarbleAtBroker, NetTypes
  <2>2. Tail(toBroker[c]) \in Seq(Package)
    BY <2>1, Taking
  <2>3. NetTypes'
    BY <1>0, <1>4, <2>2 DEF GarbleAtBroker, Taken, NetTypes
  <2>4. UNCHANGED <<envVars, regVars, doing, parts, refused, fault, logVars>>
    BY <1>4 DEF GarbleAtBroker
  <2>5. QED
    BY <1>0, <2>3, <2>4, Frame, TypePartsNext DEF logVars
<1>5. QED
  BY <1>1, <1>2, <1>3, <1>4

\* So does a client that sends from its script.
LEMMA SendKeepsTypes ==
    ASSUME TypeOK, NEW m \in script, Send(m)
    PROVE  TypeOK'
<1>0. EnvTypes /\ RegTypes /\ NetTypes /\ HandTypes /\ SendTypes /\ GivenTypes /\ LogTypes
  BY TypeParts
<1>1. m \in AllMessages
  BY <1>0 DEF EnvTypes
<1>2. m.type \in TypeNames /\ m.id \in Ids /\ m.id \in AnyId /\ m.from \in Client
      /\ m.src \in Uuid /\ m.tgt \in Uuid
  BY <1>1, ScriptTypes
<1>3. Message(m.type, m.id, m.src, m.tgt) \in Package
  BY <1>2, Packaged
<1>4. Append(toBroker[m.from], Message(m.type, m.id, m.src, m.tgt)) \in Seq(Package)
  BY <1>0, <1>2, <1>3, Queued DEF NetTypes
<1>5. NetTypes'
  BY <1>0, <1>2, <1>4 DEF Send, NetTypes
<1>6. EnvTypes'
  BY <1>0 DEF Send, EnvTypes
<1>7. LogTypes'
  <2>1. watching' \in [Ids -> SUBSET Monitor]
    BY <1>0 DEF Send, LogTypes, MonitorsIn
  <2>2. sent' \in [Ids -> {"no", "early", "in"}]
    BY <1>0 DEF Send, LogTypes
  <2>3. UNCHANGED <<unsent, heard, seen>>
    BY DEF Send
  <2>4. QED
    BY <1>0, <2>1, <2>2, <2>3 DEF LogTypes
<1>8. UNCHANGED <<regVars, doing, parts, refused, fault, given, torn>>
  BY DEF Send
<1>9. QED
  BY <1>0, <1>5, <1>6, <1>7, <1>8, Frame, TypePartsNext

\* The head of a queue that is not empty is a package, and the rest a queue.
LEMMA ReadTypes ==
    ASSUME TypeOK, NEW c \in Client, inbox[c] # <<>>, Read(c)
    PROVE  /\ inbox' \in [Client -> Seq(Package)]
           /\ Head(inbox[c]) \in Package
           /\ \A i : Within(inbox'[c], inbox[c], i)
           /\ \A i : Once(inbox[c], i) /\ Head(inbox[c]).id = i => ~Has(inbox'[c], i)
           /\ Head(inbox[c]) \in Elems(inbox[c])
           /\ \A d \in Client \ {c} : inbox'[d] = inbox[d]
<1>1. inbox \in [Client -> Seq(Package)]
  BY DEF TypeOK
<1>2. inbox' = [inbox EXCEPT ![c] = Tail(inbox[c])]
  BY DEF Read
<1>3. /\ Head(inbox[c]) \in Package /\ Tail(inbox[c]) \in Seq(Package)
      /\ \A i : Within(Tail(inbox[c]), inbox[c], i)
      /\ \A i : Once(inbox[c], i) /\ Head(inbox[c]).id = i => ~Has(Tail(inbox[c]), i)
      /\ Head(inbox[c]) \in Elems(inbox[c])
  BY <1>1, Taking
<1>4. inbox'[c] = Tail(inbox[c]) /\ \A d \in Client \ {c} : inbox'[d] = inbox[d]
  BY <1>1, <1>2
<1>5. inbox' \in [Client -> Seq(Package)]
  BY <1>1, <1>2, <1>3
<1>6. QED
  BY <1>3, <1>4, <1>5

\* What a unit answers, and what becomes of it.
LEMMA ReplyTypes ==
    ASSUME TypeOK, NEW c \in Client, NEW w \in Package, NEW a \in Package, Reply(c, w, a)
    PROVE  /\ toBroker' \in [Client -> Seq(Package)]
           /\ refused' \in 0..MaxRefused
           /\ unsent' \subseteq AnyId /\ torn' \subseteq Client
           /\ \A d \in Client \ {c} : toBroker'[d] = toBroker[d]
           /\ toBroker'[c] \in {toBroker[c], Append(toBroker[c], a)}
<1>1. /\ toBroker \in [Client -> Seq(Package)] /\ refused \in 0..MaxRefused
      /\ unsent \subseteq AnyId /\ torn \subseteq Client
  BY DEF TypeOK
<1>2. Append(toBroker[c], a) \in Seq(Package)
  BY <1>1, Queued
<1>3. w.id \in AnyId
  BY DEF Package
<1>4. UNCHANGED toBroker \/ toBroker' = [toBroker EXCEPT ![c] = Append(toBroker[c], a)]
  BY DEF Reply
<1>5. CASE UNCHANGED toBroker
  <2>1. refused' \in 0..MaxRefused /\ unsent' \subseteq AnyId /\ torn' \subseteq Client
    BY <1>1, <1>3, MaxRefusedType DEF Reply
  <2>2. QED
    BY <1>1, <1>5, <2>1
<1>6. CASE toBroker' = [toBroker EXCEPT ![c] = Append(toBroker[c], a)]
  <2>1. refused' \in 0..MaxRefused /\ unsent' \subseteq AnyId /\ torn' \subseteq Client
    BY <1>1, <1>3, MaxRefusedType DEF Reply
  <2>2. toBroker' \in [Client -> Seq(Package)]
    BY <1>1, <1>2, <1>6
  <2>3. QED
    BY <1>1, <1>6, <2>1, <2>2
<1>7. QED
  BY <1>4, <1>5, <1>6

\* The packages that a client that computes sends back.
LEMMA AnswerTypes ==
    ASSUME NEW w \in Package, NEW c \in Client
    PROVE  Answered(c, w) \in Package /\ AnsweredByZero(w) \in Package
<1>1. "TaskFinished" \in TypeNames
  BY Names
<1>2. w.id \in AnyId /\ w.src \in Uuid
  BY DEF Package
<1>3. c \in Uuid /\ NoUuid \in Uuid /\ "0_0" \in AnyId
  BY ScriptTypes
<1>4. QED
  BY <1>1, <1>2, <1>3, Packaged DEF Answered, AnsweredByZero

\* What the clients do with what they read keeps the types.
LEMMA ReadingTypes ==
    ASSUME TypeOK, NEW c \in Client, Reading(c)
    PROVE  TypeOK'
<1>0. EnvTypes /\ RegTypes /\ NetTypes /\ HandTypes /\ SendTypes /\ GivenTypes /\ LogTypes
  BY TypeParts
<1>1. inbox[c] # <<>> /\ Read(c)
  BY DEF Reading, Compute, Garble, Hear, Watch, Pass
<1>2. inbox' \in [Client -> Seq(Package)] /\ Head(inbox[c]) \in Package
  BY <1>1, ReadTypes
<1>3. CASE Compute(c)
  <2>. DEFINE w == Head(inbox[c])
  <2>1. UNCHANGED <<envVars, regVars, doing, parts, fault, given, sent, watching, heard,
                    seen>>
    BY <1>3 DEF Compute
  <2>2. \/ UNCHANGED <<toBroker, refused, unsent, torn>>
        \/ Reply(c, w, Answered(c, w)) \/ Reply(c, w, AnsweredByZero(w))
    BY <1>3 DEF Compute
  <2>3. toBroker' \in [Client -> Seq(Package)] /\ refused' \in 0..MaxRefused
        /\ unsent' \subseteq AnyId /\ torn' \subseteq Client
    <3>1. CASE UNCHANGED <<toBroker, refused, unsent, torn>>
      BY <1>0, <3>1 DEF NetTypes, SendTypes, LogTypes, GivenTypes
    <3>2. Answered(c, w) \in Package /\ AnsweredByZero(w) \in Package
      BY <1>2, AnswerTypes
    <3>3. CASE Reply(c, w, Answered(c, w))
      BY <1>2, <3>2, <3>3, ReplyTypes
    <3>4. CASE Reply(c, w, AnsweredByZero(w))
      BY <1>2, <3>2, <3>4, ReplyTypes
    <3>5. QED
      BY <2>2, <3>1, <3>3, <3>4
  <2>4. NetTypes'
    BY <1>2, <2>3 DEF NetTypes
  <2>5. SendTypes'
    BY <1>0, <2>1, <2>3 DEF SendTypes
  <2>6. LogTypes' /\ GivenTypes'
    BY <1>0, <2>1, <2>3 DEF LogTypes, GivenTypes
  <2>7. QED
    BY <1>0, <2>1, <2>4, <2>5, <2>6, Frame, TypePartsNext
<1>4. CASE Garble(c) \/ Pass(c)
  <2>1. UNCHANGED <<envVars, regVars, toBroker, doing, parts, refused, fault, logVars>>
    BY <1>4 DEF Garble, Pass
  <2>2. NetTypes'
    BY <1>0, <1>2, <2>1 DEF NetTypes
  <2>3. QED
    BY <1>0, <2>1, <2>2, Frame, TypePartsNext DEF logVars
<1>5. CASE Hear(c)
  <2>1. /\ UNCHANGED <<envVars, regVars, toBroker, doing, parts, refused, fault, given,
                       sent, unsent, torn, watching, seen>>
        /\ c \in Planner /\ heard' = [heard EXCEPT ![c] = Append(heard[c], Head(inbox[c]))]
    BY <1>5 DEF Hear
  <2>2. NetTypes'
    BY <1>0, <1>2, <2>1 DEF NetTypes
  <2>3. heard \in [Planner -> Seq(Package)]
    BY <1>0 DEF LogTypes
  <2>4. Append(heard[c], Head(inbox[c])) \in Seq(Package)
    BY <1>2, <2>1, <2>3, Queued
  <2>5. heard' \in [Planner -> Seq(Package)]
    BY <2>1, <2>3, <2>4
  <2>6. LogTypes'
    BY <1>0, <2>1, <2>5 DEF LogTypes
  <2>7. QED
    BY <1>0, <2>1, <2>2, <2>6, Frame, TypePartsNext
<1>6. CASE Watch(c)
  <2>1. /\ UNCHANGED <<envVars, regVars, toBroker, doing, parts, refused, fault, given,
                       sent, unsent, torn, watching, heard>>
        /\ c \in Monitor
        /\ seen' = [seen EXCEPT ![c] =
                        seen[c] \cup {<<Head(inbox[c]).type, Head(inbox[c]).id>>}]
    BY <1>6 DEF Watch
  <2>2. NetTypes'
    BY <1>0, <1>2, <2>1 DEF NetTypes
  <2>3. seen \in [Monitor -> SUBSET (TypeNames \X AnyId)]
    BY <1>0 DEF LogTypes
  <2>4. <<Head(inbox[c]).type, Head(inbox[c]).id>> \in TypeNames \X AnyId
    BY <1>2 DEF Package
  <2>5. seen' \in [Monitor -> SUBSET (TypeNames \X AnyId)]
    BY <2>1, <2>3, <2>4
  <2>6. LogTypes'
    BY <1>0, <2>1, <2>5 DEF LogTypes
  <2>7. QED
    BY <1>0, <2>1, <2>2, <2>6, Frame, TypePartsNext
<1>7. QED
  BY <1>3, <1>4, <1>5, <1>6 DEF Reading

\* The receiver of c takes a package.
LEMMA TakenTypes ==
    ASSUME TypeOK, NEW c \in Client, NEW types, Receives(c, types), Taken(c)
    PROVE  /\ toBroker' \in [Client -> Seq(Package)]
           /\ Head(toBroker[c]) \in Package
           /\ \A i : Within(toBroker'[c], toBroker[c], i)
           /\ \A i : Once(toBroker[c], i) /\ Head(toBroker[c]).id = i => ~Has(toBroker'[c], i)
           /\ Head(toBroker[c]) \in Elems(toBroker[c])
           /\ \A d \in Client \ {c} : toBroker'[d] = toBroker[d]
<1>1. toBroker \in [Client -> Seq(Package)] /\ toBroker[c] # <<>>
  BY DEF TypeOK, Receives
<1>2. toBroker' = [toBroker EXCEPT ![c] = Tail(toBroker[c])]
  BY DEF Taken
<1>3. /\ Head(toBroker[c]) \in Package /\ Tail(toBroker[c]) \in Seq(Package)
      /\ \A i : Within(Tail(toBroker[c]), toBroker[c], i)
      /\ \A i : Once(toBroker[c], i) /\ Head(toBroker[c]).id = i => ~Has(Tail(toBroker[c]), i)
      /\ Head(toBroker[c]) \in Elems(toBroker[c])
  BY <1>1, Taking
<1>4. toBroker'[c] = Tail(toBroker[c]) /\ \A d \in Client \ {c} : toBroker'[d] = toBroker[d]
  BY <1>1, <1>2
<1>5. toBroker' \in [Client -> Seq(Package)]
  BY <1>1, <1>2, <1>3
<1>6. QED
  BY <1>3, <1>4, <1>5

\* given stays a set of clients.
LEMMA GaveTypes ==
    ASSUME TypeOK, NEW msg, NEW t \in Client \cup {Nobody}, Gave(msg, t)
    PROVE  given' \in [Ids -> SUBSET (Client \cup {Nobody})]
BY DEF TypeOK, Gave

\* What a callback does next has the right type.
LEMMA DoTypes ==
    ASSUME TypeOK, NEW c \in Client, NEW step \in Steps, NEW to \in Uuid,
           NEW msg \in Package, Do(c, Doing(step, to, msg))
    PROVE  HandTypes'
<1>1. Doing(step, to, msg) \in [step : Steps, to : Uuid, msg : Package]
  BY DEF Doing
<1>2. QED
  BY <1>1 DEF TypeOK, HandTypes, Do

\* Looking a client up keeps the types.
LEMMA LookUpTypes ==
    ASSUME TypeOK, NEW c \in Client, NEW u, NEW msg \in Package, LookUp(c, u, msg),
           UNCHANGED torn
    PROVE  HandTypes' /\ GivenTypes'
<1>0. HandTypes /\ GivenTypes
  BY TypeParts
<1>1. CASE UNCHANGED doing /\ Gave(msg, Nobody)
  BY <1>0, <1>1, GaveTypes, Frame DEF GivenTypes
<1>2. ASSUME NEW t \in ByUuid(u), Do(c, Doing("to", t, msg)), UNCHANGED given
      PROVE  HandTypes' /\ GivenTypes'
  <2>1. t \in Uuid /\ "to" \in Steps
    BY ScriptTypes DEF ByUuid, In, Steps
  <2>2. QED
    BY <1>0, <1>2, <2>1, DoTypes, Frame
<1>3. QED
  BY <1>1, <1>2 DEF LookUp

\* Removing clients keeps the types of the registry.
LEMMA RemovedTypes ==
    ASSUME TypeOK, NEW cs, Removed(cs), UNCHANGED <<session, greeting>>
    PROVE  RegTypes'
BY DEF TypeOK, Removed, RegTypes

\* The callbacks' first steps.
Receiving(c) ==
    \/ ForwardText(c) \/ ForwardConfig(c) \/ ForwardFinished(c) \/ ForwardWork(c)
    \/ RerouteWork(c) \/ DropTask(c)

\* The first steps of the callbacks keep the types.
LEMMA ReceivingTypes ==
    ASSUME TypeOK, NEW c \in Client, Receiving(c)
    PROVE  TypeOK'
<1>0. EnvTypes /\ RegTypes /\ NetTypes /\ HandTypes /\ SendTypes /\ GivenTypes /\ LogTypes
  BY TypeParts
<1>. DEFINE m == Head(toBroker[c])
<1>1. PICK types : Receives(c, types)
  BY DEF Receiving, ForwardText, ForwardConfig, ForwardFinished, ForwardWork,
         RerouteWork, DropTask
<1>2. Taken(c) /\ Unmoved
  BY DEF Receiving, ForwardText, ForwardConfig, ForwardFinished, ForwardWork,
         RerouteWork, DropTask
<1>3. toBroker' \in [Client -> Seq(Package)] /\ m \in Package
  BY <1>1, <1>2, TakenTypes
<1>4. EnvTypes' /\ RegTypes' /\ NetTypes' /\ SendTypes' /\ LogTypes' /\ UNCHANGED torn
  <2>1. UNCHANGED <<envVars, regVars, inbox, parts, refused, fault, sent, unsent, torn,
                    watching, heard, seen>>
    BY <1>2 DEF Unmoved
  <2>2. NetTypes'
    BY <1>0, <1>3, <2>1 DEF NetTypes
  <2>3. QED
    BY <1>0, <2>1, <2>2, Frame
<1>. HIDE DEF m
<1>5. HandTypes' /\ GivenTypes'
  <2>1. CASE \E u : LookUp(c, u, m)
    BY <1>3, <1>4, <2>1, LookUpTypes
  <2>2. CASE Dropped
    BY <1>0, <1>4, <2>2, Frame DEF Dropped
  <2>3. CASE Do(c, Doing("any", Nobody, m)) /\ UNCHANGED given
    <3>1. "any" \in Steps /\ Nobody \in Uuid
      BY ScriptTypes DEF Steps
    <3>2. QED
      BY <1>0, <1>3, <1>4, <2>3, <3>1, DoTypes, Frame
  <2>4. CASE /\ Do(c, Doing("reroute", m.src, Message("RerouteWork", m.id, m.tgt, NoUuid)))
             /\ UNCHANGED given
    <3>1. /\ "reroute" \in Steps /\ m.src \in Uuid /\ m.id \in AnyId /\ m.tgt \in Uuid
          /\ NoUuid \in Uuid
      BY <1>3, ScriptTypes DEF Steps, Package
    <3>2. Message("RerouteWork", m.id, m.tgt, NoUuid) \in Package
      BY <3>1, Names, Packaged
    <3>3. QED
      BY <1>0, <1>4, <2>4, <3>1, <3>2, DoTypes, Frame
  <2>5. QED
    BY <2>1, <2>2, <2>3, <2>4
       DEF Receiving, ForwardText, ForwardConfig, ForwardFinished, ForwardWork,
           RerouteWork, DropTask, m
<1>6. QED
  BY <1>4, <1>5, TypePartsNext

\* So do monitor_cb and uuid_per_client_cb.
LEMMA AnswerRequestTypes ==
    ASSUME TypeOK, NEW c \in Client, AnswerRequest(c)
    PROVE  TypeOK'
<1>0. EnvTypes /\ RegTypes /\ NetTypes /\ HandTypes /\ SendTypes /\ GivenTypes /\ LogTypes
  BY TypeParts
<1>. DEFINE m == Head(toBroker[c])
            answer == IF m.type = "MonitorRequest" THEN "Text" ELSE "UuidForUnitResponse"
<1>1. PICK cleared : Removed(cleared)
  BY DEF AnswerRequest
<1>2. /\ Taken(c) /\ Receives(c, {"MonitorRequest", "UuidForUnitRequest"})
      /\ LookUp(c, m.src, Message(answer, m.id, m.src, m.tgt))
      /\ UNCHANGED <<envVars, session, greeting, inbox, parts, refused, fault, sent,
                     unsent, torn, watching, heard, seen>>
  BY DEF AnswerRequest
<1>3. toBroker' \in [Client -> Seq(Package)] /\ m \in Package
  BY <1>2, TakenTypes
<1>. HIDE DEF m
<1>4. Message(answer, m.id, m.src, m.tgt) \in Package
  <2>1. answer \in TypeNames /\ m.id \in AnyId /\ m.src \in Uuid /\ m.tgt \in Uuid
    BY <1>3, Names DEF Package
  <2>2. QED
    BY <2>1, Packaged
<1>5. HandTypes' /\ GivenTypes'
  BY <1>2, <1>4, LookUpTypes
<1>6. RegTypes'
  BY <1>1, <1>2, RemovedTypes
<1>7. NetTypes'
  BY <1>0, <1>2, <1>3 DEF NetTypes
<1>8. QED
  BY <1>0, <1>2, <1>5, <1>6, <1>7, Frame, TypePartsNext

\* A delivery changes one inbox, at its end.
LEMMA DeliverTypes ==
    ASSUME TypeOK, NEW t \in Client, NEW msg \in Package, Deliver(t, msg)
    PROVE  /\ inbox' \in [Client -> Seq(Package)]
           /\ GivenTypes' /\ refused' \in 0..MaxRefused /\ torn \subseteq torn'
           /\ \A d \in Client \ {t} : inbox'[d] = inbox[d]
           /\ inbox'[t] \in {inbox[t], Append(inbox[t], msg)}
<1>1. inbox \in [Client -> Seq(Package)] /\ torn \subseteq Client /\ refused \in 0..MaxRefused
  BY DEF TypeOK
<1>2. Append(inbox[t], msg) \in Seq(Package)
  BY <1>1, Queued
<1>3. inbox' = inbox \/ inbox' = [inbox EXCEPT ![t] = Append(inbox[t], msg)]
  BY DEF Deliver
<1>4. given' \in [Ids -> SUBSET (Client \cup {Nobody})]
  BY GaveTypes DEF Deliver
<1>5. torn' \subseteq Client /\ torn \subseteq torn'
  BY <1>1 DEF Deliver
<1>6. refused' \in 0..MaxRefused
  BY <1>1, MaxRefusedType DEF Deliver
<1>7. QED
  BY <1>1, <1>2, <1>3, <1>4, <1>5, <1>6 DEF GivenTypes

\* Going on to copy keeps the types.
LEMMA CopyingTypes ==
    ASSUME TypeOK, NEW c \in Client, Copying(c)
    PROVE  HandTypes'
<1>1. "copy" \in Steps /\ Nobody \in Uuid /\ doing[c].msg \in Package
  BY ScriptTypes DEF TypeOK, Steps
<1>2. QED
  BY <1>1, DoTypes DEF Copying

\* A successful send keeps the types.
LEMMA TakesTypes ==
    ASSUME TypeOK, NEW c \in Client, NEW t \in Client, Takes(c, t)
    PROVE  TypeOK'
<1>0. EnvTypes /\ RegTypes /\ NetTypes /\ HandTypes /\ SendTypes /\ GivenTypes /\ LogTypes
  BY TypeParts
<1>1. doing[c].msg \in Package
  BY <1>0 DEF HandTypes
<1>2. /\ Deliver(t, doing[c].msg) /\ Copying(c)
      /\ UNCHANGED <<regVars, toBroker, fault, Rest>>
  BY DEF Takes
<1>3. /\ HandTypes' /\ GivenTypes' /\ inbox' \in [Client -> Seq(Package)]
      /\ refused' \in 0..MaxRefused
  BY <1>1, <1>2, DeliverTypes, CopyingTypes
<1>4. NetTypes' /\ SendTypes'
  BY <1>0, <1>2, <1>3 DEF NetTypes, SendTypes, Rest
<1>5. QED
  BY <1>0, <1>2, <1>3, <1>4, Frame, TypePartsNext DEF Rest

\* So does one for which there is nobody.
LEMMA NowhereTypes ==
    ASSUME TypeOK, NEW c \in Client, Nowhere(c)
    PROVE  TypeOK'
<1>0. EnvTypes /\ RegTypes /\ NetTypes /\ HandTypes /\ SendTypes /\ GivenTypes /\ LogTypes
  BY TypeParts
<1>1. /\ Gave(doing[c].msg, Nobody) /\ Copying(c)
      /\ UNCHANGED <<regVars, netVars, refused, fault, torn, Rest>>
  BY DEF Nowhere
<1>2. HandTypes' /\ GivenTypes'
  BY <1>0, <1>1, GaveTypes, CopyingTypes DEF GivenTypes
<1>3. QED
  BY <1>0, <1>1, <1>2, Frame, TypePartsNext DEF Rest

\* So does one that fails.
LEMMA FailsTypes ==
    ASSUME TypeOK, NEW c \in Client, NEW t \in Client, Fails(t),
           Copying(c) \/ UNCHANGED doing
    PROVE  TypeOK'
<1>0. EnvTypes /\ RegTypes /\ NetTypes /\ HandTypes /\ SendTypes /\ GivenTypes /\ LogTypes
  BY TypeParts
<1>1. /\ CanFail(t) /\ Refuse(t) /\ Removed({t})
      /\ UNCHANGED <<session, greeting, netVars, fault, given, torn, Rest>>
  BY DEF Fails
<1>2. RegTypes'
  BY <1>1, RemovedTypes
<1>3. SendTypes'
  <2>1. refused' \in 0..MaxRefused
    BY <1>0, <1>1, MaxRefusedType DEF SendTypes, CanFail, Refuse
  <2>2. QED
    BY <1>0, <1>1, <2>1 DEF SendTypes, Rest
<1>4. HandTypes'
  BY <1>0, CopyingTypes, Frame
<1>5. QED
  BY <1>0, <1>1, <1>2, <1>3, <1>4, Frame, TypePartsNext DEF Rest

\* The callbacks' sends.
Sending(c) ==
    SendToTarget(c) \/ SendToAny(c) \/ RerouteToAny(c)

\* Every way to send keeps the types.
LEMMA SendingTypes ==
    ASSUME TypeOK, NEW c \in Client, Sending(c)
    PROVE  TypeOK'
<1>1. \/ Nowhere(c)
      \/ \E t \in Client : Takes(c, t) \/ (Fails(t) /\ (Copying(c) \/ UNCHANGED doing))
  BY DEF Sending, SendToTarget, SendToAny, RerouteToAny, UnitsIn, In
<1>2. QED
  BY <1>1, NowhereTypes, TakesTypes, FailsTypes

\* What is sent to several clients is in the streams that take all of it.
LEMMA ToAllTypes ==
    ASSUME TypeOK, NEW cs, NEW failed, NEW msg \in Package, ToAll(cs, failed, msg)
    PROVE  /\ inbox' \in [Client -> Seq(Package)]
           /\ \A d \in Client : inbox'[d] \in {inbox[d], Append(inbox[d], msg)}
           /\ refused' \in 0..MaxRefused
           /\ torn' \subseteq Client /\ torn \subseteq torn'
           /\ \A d \in (Client \cap cs \cap up) \ torn' : inbox'[d] = Append(inbox[d], msg)
           /\ \A d \in Client \ cs : inbox'[d] = inbox[d]
<1>1. /\ inbox \in [Client -> Seq(Package)] /\ up \subseteq Client /\ torn \subseteq Client
      /\ refused \in 0..MaxRefused
  BY DEF TypeOK
<1>2. \A d \in Client : Append(inbox[d], msg) \in Seq(Package)
  BY <1>1, Queued
<1>3. PICK cut \in SUBSET (cs \cap up) :
        /\ refused' = refused + Cardinality(cut \cup (failed \cap up))
        /\ refused' <= MaxRefused
        /\ torn' = torn \cup cut
        /\ inbox' = [c \in Client |-> IF c \in (cs \cap up) \ cut
                                      THEN Append(inbox[c], msg) ELSE inbox[c]]
  BY DEF ToAll
<1>4. refused' \in 0..MaxRefused
  <2>1. Cardinality(cut \cup (failed \cap up)) \in Nat
    BY <1>1, ProgramsDiffer, FS_Subset, FS_CardinalityType
  <2>2. QED
    BY <1>1, <1>3, <2>1, MaxRefusedType
<1>5. QED
  BY <1>1, <1>2, <1>3, <1>4

\* Copying to the monitors keeps the types.
LEMMA CopyToMonitorsTypes ==
    ASSUME TypeOK, NEW c \in Client, CopyToMonitors(c)
    PROVE  TypeOK'
<1>0. EnvTypes /\ RegTypes /\ NetTypes /\ HandTypes /\ SendTypes /\ GivenTypes /\ LogTypes
  BY TypeParts
<1>1. doing[c].msg \in Package /\ inbox \in [Client -> Seq(Package)]
  BY <1>0 DEF HandTypes, NetTypes
<1>2. ToAll(MonitorsIn, {}, doing[c].msg)
      /\ UNCHANGED <<envVars, regVars, toBroker, parts, fault, given, sent, unsent, watching,
                     heard, seen>>
  BY DEF CopyToMonitors
<1>3. inbox' \in [Client -> Seq(Package)] /\ refused' \in 0..MaxRefused
      /\ torn' \subseteq Client
  BY <1>1, <1>2, ToAllTypes
<1>4. HandTypes'
  <2>1. Message("Undefined", Nobody, Nobody, Nobody) \in Package
    BY ScriptTypes, Names, Packaged
  <2>2. Idle \in [step : Steps, to : Uuid, msg : Package]
    BY <2>1, ScriptTypes DEF Idle, Steps
  <2>3. QED
    BY <1>0, <2>2 DEF CopyToMonitors, Do, HandTypes
<1>5. NetTypes' /\ SendTypes' /\ GivenTypes'
  BY <1>0, <1>2, <1>3 DEF NetTypes, SendTypes, GivenTypes
<1>6. QED
  BY <1>0, <1>2, <1>4, <1>5, Frame, TypePartsNext

\* All steps of the callbacks keep the types.
LEMMA CallbackTypes ==
    ASSUME TypeOK, NEW c \in Client, Callback(c)
    PROVE  TypeOK'
<1>1. Receiving(c) \/ AnswerRequest(c) \/ Sending(c) \/ CopyToMonitors(c) \/ Break
  BY DEF Callback, Receiving, Sending, CallbackBreaks
<1>2. QED
  BY <1>1, ReceivingTypes, AnswerRequestTypes, SendingTypes, CopyToMonitorsTypes, BreakTypes

\* What is typed at the console makes packages.
LEMMA ConsolePackages ==
    \A t \in TypeNames : Message(t, "console", NoUuid, NoUuid) \in Package
BY ScriptTypes, Packaged

\* The console keeps the types.
LEMMA ConsoleTypes ==
    ASSUME TypeOK, Console
    PROVE  TypeOK'
<1>0. EnvTypes /\ RegTypes /\ NetTypes /\ HandTypes /\ SendTypes /\ GivenTypes /\ LogTypes
  BY TypeParts
<1>1. CASE TypeText
  <2>1. PICK failed :
          /\ Removed(failed)
          /\ ToAll(In \ failed, failed, Message("Text", "console", NoUuid, NoUuid))
    BY <1>1 DEF TypeText
  <2>2. /\ UNCHANGED <<script, up, session, greeting, toBroker, doing, parts, fault, given,
                       sent, unsent, watching, heard, seen>>
        /\ Typed("1")
    BY <1>1 DEF TypeText
  <2>3. EnvTypes'
    BY <1>0, <2>2 DEF EnvTypes, Typed
  <2>4. RegTypes'
    BY <2>1, <2>2, RemovedTypes
  <2>5. inbox' \in [Client -> Seq(Package)] /\ refused' \in 0..MaxRefused
        /\ torn' \subseteq Client
    BY <2>1, Names, ConsolePackages, ToAllTypes
  <2>6. NetTypes' /\ SendTypes' /\ GivenTypes'
    BY <1>0, <2>2, <2>5 DEF NetTypes, SendTypes, GivenTypes
  <2>7. QED
    BY <1>0, <2>2, <2>3, <2>4, <2>6, Frame, TypePartsNext
<1>2. CASE TypeWork
  <2>1. /\ UNCHANGED <<script, up, regVars, toBroker, doing, parts, fault, given, sent, unsent,
                       watching, heard, seen>>
        /\ Typed("2") /\ ToAll(UnitsIn, {}, Message("Work", "console", NoUuid, NoUuid))
    BY <1>2 DEF TypeWork
  <2>2. EnvTypes'
    BY <1>0, <2>1 DEF EnvTypes, Typed
  <2>3. inbox' \in [Client -> Seq(Package)] /\ refused' \in 0..MaxRefused
        /\ torn' \subseteq Client
    BY <2>1, Names, ConsolePackages, ToAllTypes
  <2>4. NetTypes' /\ SendTypes' /\ GivenTypes'
    BY <1>0, <2>1, <2>3 DEF NetTypes, SendTypes, GivenTypes
  <2>5. QED
    BY <1>0, <2>1, <2>2, <2>4, Frame, TypePartsNext
<1>3. ASSUME NEW k \in 1..3, TypeSplit(k) PROVE TypeOK'
  <2>1. /\ UNCHANGED <<script, up, regVars, netVars, doing, fault, given, sent, unsent,
                       watching, heard, seen>>
        /\ Typed(Part[k])
    BY <1>3 DEF TypeSplit
  <2>a. PICK cut \in SUBSET (UnitsIn \cap up) :
          /\ refused' = refused + Cardinality(cut)
          /\ refused' <= MaxRefused
          /\ torn' = torn \cup cut \cup {c \in UnitsIn : parts[c] # k - 1}
    BY <1>3 DEF TypeSplit
  <2>b. refused' \in 0..MaxRefused
    <3>1. Cardinality(cut) \in Nat
      BY <1>0, ProgramsDiffer, FS_Subset, FS_CardinalityType DEF EnvTypes
    <3>2. QED
      BY <1>0, <2>a, <3>1, MaxRefusedType DEF SendTypes
  <2>2. EnvTypes'
    BY <1>0, <2>1 DEF EnvTypes, Typed
  <2>3. SendTypes'
    <3>1. parts \in [Computes -> 0..2] /\ UnitsIn \subseteq Computes
      BY <1>0 DEF SendTypes, UnitsIn
    <3>2. (IF k = 3 THEN 0 ELSE k) \in 0..2
      BY <1>3
    <3>3. parts' \in [Computes -> 0..2]
      BY <1>3, <3>1, <3>2 DEF TypeSplit
    <3>4. QED
      BY <1>0, <2>1, <2>b, <3>3 DEF SendTypes
  <2>4. GivenTypes'
    BY <1>0, <2>1, <2>a DEF GivenTypes, UnitsIn, In
  <2>5. QED
    BY <1>0, <2>1, <2>2, <2>3, <2>4, Frame, TypePartsNext
<1>4. CASE TypeClear
  <2>1. /\ UNCHANGED <<script, up, session, greeting, netVars, doing, parts, refused, fault,
                       logVars>>
        /\ Typed("4") /\ Removed(aborted)
    BY <1>4 DEF TypeClear
  <2>2. EnvTypes'
    BY <1>0, <2>1 DEF EnvTypes, Typed
  <2>3. RegTypes'
    BY <2>1, RemovedTypes
  <2>4. QED
    BY <1>0, <2>1, <2>2, <2>3, Frame, TypePartsNext DEF logVars
<1>5. CASE ConsoleBreaks
  BY <1>5, BreakTypes DEF ConsoleBreaks
<1>6. QED
  BY <1>1, <1>2, <1>3, <1>4, <1>5 DEF Console

\* Every step keeps the types.
LEMMA NextTypes == TypeOK /\ [Next]_vars => TypeOK'
<1>. SUFFICES ASSUME TypeOK, [Next]_vars PROVE TypeOK'
  OBVIOUS
<1>1. CASE UNCHANGED vars
  BY <1>1, TypeParts, Frame, TypePartsNext DEF vars, logVars
<1>2. ASSUME NEW c \in Client,
             \/ Connecting(c) \/ Leave(c) \/ ReceiverEnds(c) \/ Drained(c) \/ GarbleAtBroker(c)
             \/ Callback(c) \/ Reading(c)
      PROVE  TypeOK'
  BY <1>2, ConnectingTypes, ComingTypes, CallbackTypes, ReadingTypes
<1>3. ASSUME NEW m \in script, Send(m) PROVE TypeOK'
  BY <1>3, SendKeepsTypes
<1>4. CASE Console
  BY <1>4, ConsoleTypes
<1>5. QED
  BY <1>1, <1>2, <1>3, <1>4 DEF Next

\* Every variable of the broker and its clients keeps its type.
THEOREM TypeCorrect == Spec => []TypeOK
BY InitTypes, NextTypes, PTL DEF Spec

-----------------------------------------------------------------------------
(* One copy of an item                                                     *)

Active == {"to", "any", "reroute"}
InHand(c, i) == doing[c].step \in Active /\ doing[c].msg.id = i

\* Where an item or its answer can be: with its planner, on the way to the
\* broker from c, in the hands of the receiver of c, on the way to c, or heard
\* by c.  What a monitor gets, and the callback that copies to monitors has in
\* hand, does not count.
Place == {"script", "in", "hand", "out", "heard"}
At(x, c, i) ==
    \/ x = "script" /\ Item(i) \in script /\ c = Item(i).from
    \/ x = "in" /\ Has(toBroker[c], i)
    \/ x = "hand" /\ InHand(c, i)
    \/ x = "out" /\ c \notin Monitor /\ Has(inbox[c], i)
    \/ x = "heard" /\ c \in Planner /\ Has(heard[c], i)

OneCopy(i) ==
    \A x, y \in Place, c, d \in Client : At(x, c, i) /\ At(y, d, i) => x = y /\ c = d

\* A copy is the item itself, which nobody has been given, or the answer of a
\* unit that it was given to.
IsWork(m, i) == m = Message("Work", i, Item(i).src, Item(i).tgt)
IsAnswer(m, i) ==
    /\ m.type = "TaskFinished" /\ m.id = i
    /\ m.tgt = Item(i).from /\ m.src \in Unit \cap given[i]

\* t is, or was, registered under u.
Known(t) == state[t] \in {"in", "out"}
Named(t, u) == t \in Client /\ Known(t) /\ session[t] = u

InSays(c, i) ==
    /\ Once(toBroker[c], i)
    /\ \A m \in Elems(toBroker[c]) :
          m.id = i => (IsWork(m, i) /\ given[i] = {}) \/ IsAnswer(m, i)
HandSays(c, i) ==
    /\ \/ /\ IsWork(doing[c].msg, i) /\ given[i] = {}
          /\ \/ doing[c].step = "any" /\ Item(i).tgt = NoUuid
             \/ doing[c].step = "to" /\ Item(i).tgt # NoUuid
       \/ IsAnswer(doing[c].msg, i) /\ doing[c].step = "to"
    /\ doing[c].step = "to" => Named(doing[c].to, doing[c].msg.tgt)
OutSays(c, i) ==
    /\ Once(inbox[c], i)
    /\ \A m \in Elems(inbox[c]) :
          m.id = i => \/ IsWork(m, i) /\ c \in Computes \cap given[i]
                      \/ IsAnswer(m, i) /\ c = Item(i).from
HeardSays(c, i) ==
    /\ Once(heard[c], i)
    /\ \A m \in Elems(heard[c]) : m.id = i => IsAnswer(m, i) /\ c = Item(i).from

Says(x, c, i) ==
    /\ x = "script" => given[i] = {}
    /\ x = "in" => InSays(c, i)
    /\ x = "hand" => HandSays(c, i)
    /\ x = "out" => OutSays(c, i)
    /\ x = "heard" => HeardSays(c, i)

GivenOnce(i) ==
    /\ \A a, b \in given[i] : a = b
    /\ \A a \in given[i] \ {Nobody} :
          Known(a) /\ (Item(i).tgt # NoUuid => session[a] = Item(i).tgt)

ItemInv(i) ==
    /\ OneCopy(i)
    /\ \A x \in Place, c \in Client : At(x, c, i) => Says(x, c, i)
    /\ GivenOnce(i)

\* A client is registered under its own uuid, or under 0.
Sessions == \A c \in Client : session[c] \in {c, NoUuid}

BrokerInv == TypeOK /\ Sessions /\ \A i \in Items : ItemInv(i)

-----------------------------------------------------------------------------

\* What an item is, by the assumptions on scenarios.
LEMMA ItemFacts ==
    ASSUME NEW i \in Items
    PROVE  /\ Item(i) \in AllMessages /\ Item(i).type = "Work" /\ Item(i).id = i
           /\ Item(i).from \in Planner /\ Item(i).from \in Client
           /\ Item(i).src = Item(i).from /\ Item(i).tgt \in Unit \cup {NoUuid}
           /\ i \in Ids /\ i # "console" /\ i # "0_0" /\ i # Nobody
           /\ \A m \in AllMessages : m.id = i => m = Item(i)
<1>1. PICK n \in AllMessages : n.type = "Work" /\ n.id = i
  BY DEF Items
<1>2. \A m \in AllMessages : m.id = i => m = n
  BY <1>1, ItemsAreOwn
<1>3. Item(i) = n
  BY <1>1, <1>2 DEF Item
<1>4. n.from \in Planner /\ n.src = n.from /\ n.tgt \in Unit \cup {NoUuid}
  BY <1>1, ItemsAreOwn
<1>5. i \in Ids
  BY <1>1 DEF Ids
<1>6. QED
  BY <1>1, <1>2, <1>3, <1>4, <1>5, ItemsAreOwn, ScriptTypes

\* Once a client is known it stays so, under the same uuid.
Settled ==
    \A c \in Client : Known(c) => /\ Known(c)' /\ session'[c] = session[c]
                                  /\ c \in In' => c \in In
                                  /\ c \in up' => c \in up

\* Every step leaves the known clients settled.
LEMMA StaysSettled ==
    ASSUME TypeOK, [Next]_vars
    PROVE  Settled /\ (Sessions => Sessions')
<1>1. state \in [Client -> {"off", "asked", "answered", "in", "out"}]
      /\ session \in [Client -> Client \cup {NoUuid}]
  BY DEF TypeOK
<1>. DEFINE Good == Settled /\ (Sessions => Sessions')
<1>2. CASE UNCHANGED <<state, session, up>>
  BY <1>2 DEF Settled, Sessions, Known, In
<1>a. ASSUME Break PROVE UNCHANGED <<state, session, up>>
  BY <1>a DEF Break, envVars, regVars
<1>3. ASSUME NEW c \in Client, Connect(c) PROVE Good
  BY <1>1, <1>3 DEF Connect, Settled, Sessions, Known, In
<1>4. ASSUME NEW c \in Client, Answer(c) PROVE Good
  BY <1>1, <1>4 DEF Answer, Settled, Sessions, Known, In, envVars
<1>5. ASSUME NEW c \in Client, Discard(c) PROVE Good
  BY <1>1, <1>5 DEF Discard, Settled, Sessions, Known, In
<1>6. ASSUME NEW c \in Client, Enter(c) PROVE Good
  BY <1>1, <1>6 DEF Enter, Settled, Sessions, Known, In, envVars
<1>7. ASSUME NEW c \in Client, Leave(c) PROVE Good
  BY <1>1, <1>7 DEF Leave, Settled, Sessions, Known, In, regVars
<1>8. ASSUME NEW cs, Removed(cs), UNCHANGED <<session, up>> PROVE Good
  BY <1>1, <1>8 DEF Removed, Settled, Sessions, Known, In
<1>9. ASSUME NEW c \in Client, ReceiverEnds(c) \/ Drained(c) \/ GarbleAtBroker(c) \/ Reading(c)
      PROVE  UNCHANGED <<state, session, up>>
  BY <1>9 DEF ReceiverEnds, Drained, GarbleAtBroker, Reading, Compute, Garble,
              Hear, Watch, Pass, envVars, regVars
<1>10. ASSUME NEW m \in script, Send(m) PROVE UNCHANGED <<state, session, up>>
  BY <1>10 DEF Send, regVars
<1>11. ASSUME NEW c \in Client, Callback(c) PROVE Good
  <2>1. CASE Receiving(c)
    <3>1. Unmoved
      BY <2>1 DEF Receiving, ForwardText, ForwardConfig, ForwardFinished, ForwardWork,
                  RerouteWork, DropTask
    <3>2. QED
      BY <1>2, <3>1 DEF Unmoved, envVars, regVars
  <2>2. CASE AnswerRequest(c)
    BY <1>8, <2>2 DEF AnswerRequest, envVars
  <2>3. CASE Sending(c)
    <3>1. \/ \E t \in Client : Fails(t)
          \/ UNCHANGED <<state, session, up>>
      BY <2>3 DEF Sending, SendToTarget, SendToAny, RerouteToAny, UnitsIn, In, Takes,
                  Nowhere, regVars, Rest, envVars
    <3>2. QED
      BY <1>2, <1>8, <3>1 DEF Fails, Rest, envVars
  <2>4. CASE CopyToMonitors(c) \/ Break
    BY <1>2, <2>4 DEF CopyToMonitors, Break, envVars, regVars
  <2>5. QED
    BY <1>11, <2>1, <2>2, <2>3, <2>4 DEF Callback, Receiving, Sending, CallbackBreaks
<1>12. CASE Console
  <2>1. CASE TypeText
    BY <1>8, <2>1 DEF TypeText
  <2>2. CASE TypeClear
    BY <1>8, <2>2 DEF TypeClear
  <2>3. CASE TypeWork \/ ConsoleBreaks \/ \E k \in 1..3 : TypeSplit(k)
    BY <1>2, <2>3 DEF TypeWork, ConsoleBreaks, Break, TypeSplit, envVars, regVars
  <2>4. QED
    BY <1>12, <2>1, <2>2, <2>3 DEF Console
<1>13. CASE UNCHANGED vars
  BY <1>2, <1>13 DEF vars, envVars, regVars
<1>14. CASE Next
  BY <1>2, <1>a, <1>3, <1>4, <1>5, <1>6, <1>7, <1>9, <1>10, <1>11, <1>12, <1>14
     DEF Next, Connecting, GreetingBreaks
<1>15. QED
  BY <1>13, <1>14

-----------------------------------------------------------------------------
(* Steps that do not move an item                                          *)

\* Nothing is done with item i, but that copies of it may be lost.
Still(i) ==
    /\ given'[i] = given[i]
    /\ Item(i) \in script' => Item(i) \in script
    /\ \A c \in Client : Within(toBroker'[c], toBroker[c], i)
    /\ \A c \in Client \ Monitor : Within(inbox'[c], inbox[c], i)
    /\ \A p \in Planner : Within(heard'[p], heard[p], i)
    /\ \A c \in Client : InHand(c, i)' => doing'[c] = doing[c]

\* What a queue within another has, the other has.
LEMMA HasWithin == \A s, t, i : Within(s, t, i) /\ Has(s, i) => Has(t, i)
BY DEF Within, Has

\* GivenOnce holds as long as given does not change.
LEMMA GivenStays ==
    ASSUME TypeOK, NEW i \in Items, GivenOnce(i), Settled, given'[i] = given[i]
    PROVE  GivenOnce(i)'
<1>1. given[i] \subseteq Client \cup {Nobody}
  BY ScriptTypes DEF TypeOK
<1>2. QED
  BY <1>1 DEF GivenOnce, Settled

\* A step that does not move an item keeps what is said of it.
LEMMA StillKeeps ==
    ASSUME TypeOK, NEW i \in Items, ItemInv(i), Settled, Still(i)
    PROVE  ItemInv(i)'
<1>1. \A x \in Place, c \in Client : At(x, c, i)' => At(x, c, i)
  <2>. SUFFICES ASSUME NEW x \in Place, NEW c \in Client, At(x, c, i)'
                PROVE  At(x, c, i)
    OBVIOUS
  <2>1. CASE x = "script"
    BY <2>1 DEF At, Still
  <2>2. CASE x = "in"
    BY <2>2, HasWithin DEF At, Still
  <2>3. CASE x = "hand"
    BY <2>3 DEF At, Still, InHand
  <2>4. CASE x = "out"
    BY <2>4, HasWithin DEF At, Still
  <2>5. CASE x = "heard"
    BY <2>5, HasWithin DEF At, Still
  <2>6. QED
    BY <2>1, <2>2, <2>3, <2>4, <2>5 DEF Place
<1>2. OneCopy(i)'
  BY <1>1 DEF OneCopy, ItemInv
<1>3. \A m : (IsWork(m, i)' <=> IsWork(m, i)) /\ (IsAnswer(m, i)' <=> IsAnswer(m, i))
  BY DEF IsWork, IsAnswer, Still
<1>4. ASSUME NEW x \in Place, NEW c \in Client, At(x, c, i)'
      PROVE  Says(x, c, i)'
  <2>0. Says(x, c, i)
    BY <1>1, <1>4 DEF ItemInv
  <2>1. CASE x = "script"
    BY <2>0, <2>1 DEF Says, Still
  <2>2. CASE x = "in"
    <3>1. InSays(c, i) /\ Within(toBroker'[c], toBroker[c], i)
      BY <2>0, <2>2 DEF Says, Still
    <3>2. InSays(c, i)'
      BY <1>3, <3>1 DEF InSays, Still, Within
    <3>3. QED
      BY <2>2, <3>2 DEF Says
  <2>3. CASE x = "hand"
    <3>1. HandSays(c, i) /\ doing'[c] = doing[c]
      BY <1>4, <2>0, <2>3 DEF Says, Still, At
    <3>2. \A t, u : Named(t, u) => Named(t, u)'
      BY DEF Named, Settled
    <3>3. HandSays(c, i)'
      BY <1>3, <3>1, <3>2 DEF HandSays, Still
    <3>4. QED
      BY <2>3, <3>3 DEF Says
  <2>4. CASE x = "out"
    <3>1. OutSays(c, i) /\ Within(inbox'[c], inbox[c], i)
      BY <1>4, <2>0, <2>4 DEF Says, Still, At
    <3>2. OutSays(c, i)'
      BY <1>3, <3>1 DEF OutSays, Still, Within
    <3>3. QED
      BY <2>4, <3>2 DEF Says
  <2>5. CASE x = "heard"
    <3>1. HeardSays(c, i) /\ Within(heard'[c], heard[c], i)
      BY <1>4, <2>0, <2>5 DEF Says, Still, At
    <3>2. HeardSays(c, i)'
      BY <1>3, <3>1 DEF HeardSays, Still, Within
    <3>3. QED
      BY <2>5, <3>2 DEF Says
  <2>6. QED
    BY <2>1, <2>2, <2>3, <2>4, <2>5 DEF Place
<1>5. GivenOnce(i)'
  BY GivenStays DEF ItemInv, Still
<1>6. QED
  BY <1>2, <1>4, <1>5 DEF ItemInv

\* Steps of the accept thread, of connections and of monitors.
LEMMA QuietStill ==
    ASSUME TypeOK, NEW c \in Client, NEW i \in Items,
           \/ Connecting(c) \/ Leave(c) \/ ReceiverEnds(c) \/ Drained(c) \/ GarbleAtBroker(c)
           \/ Garble(c) \/ Pass(c) \/ Watch(c) \/ CopyToMonitors(c) \/ Break
    PROVE  Still(i)
<1>0. /\ toBroker \in [Client -> Seq(Package)] /\ inbox \in [Client -> Seq(Package)]
      /\ doing \in [Client -> [step : Steps, to : Uuid, msg : Package]]
  BY DEF TypeOK
<1>1. UNCHANGED <<given, script, heard>>
  BY DEF Connecting, Connect, Answer, Discard, GreetingBreaks, Enter, Leave,
         ReceiverEnds, Drained, GarbleAtBroker, Garble,
         Pass, Watch, CopyToMonitors, Break, envVars, logVars
<1>2. UNCHANGED doing \/ Do(c, Idle)
  BY DEF Connecting, Connect, Answer, Discard, GreetingBreaks, Enter, Leave,
         ReceiverEnds, Drained, GarbleAtBroker, Garble,
         Pass, Watch, CopyToMonitors, Break
<1>3. \A d \in Client : InHand(d, i)' => doing'[d] = doing[d]
  BY <1>0, <1>2 DEF InHand, Active, Do, Idle
<1>4. \A d \in Client : Within(toBroker'[d], toBroker[d], i)
  <2>1. CASE UNCHANGED toBroker
    BY <2>1, WithinItself
  <2>2. CASE toBroker' = [toBroker EXCEPT ![c] = <<>>]
    BY <1>0, <2>2, WithinItself, NothingWithin
  <2>3. CASE Enter(c)
    <3>1. PICK n \in 0..Len(toBroker[c]) :
            toBroker' = [toBroker EXCEPT ![c] = SubSeq(toBroker[c], n + 1, Len(toBroker[c]))]
      BY <2>3 DEF Enter
    <3>2. Within(SubSeq(toBroker[c], n + 1, Len(toBroker[c])), toBroker[c], i)
      BY <1>0, Cut
    <3>3. QED
      BY <1>0, <3>1, <3>2, WithinItself
  <2>a. CASE GarbleAtBroker(c)
    <3>1. /\ toBroker[c] \in Seq(Package) /\ toBroker[c] # <<>>
          /\ toBroker' = [toBroker EXCEPT ![c] = Tail(toBroker[c])]
      BY <1>0, <2>a DEF GarbleAtBroker, Taken
    <3>2. Within(Tail(toBroker[c]), toBroker[c], i)
      BY <3>1, Taking
    <3>3. QED
      BY <1>0, <3>1, <3>2, WithinItself
  <2>4. QED
    BY <2>1, <2>2, <2>3, <2>a DEF Connecting, Connect, Answer, Discard, GreetingBreaks,
                                  Leave, ReceiverEnds,
         Drained, GarbleAtBroker, Garble, Pass, Watch, CopyToMonitors, Break, netVars
<1>5. \A d \in Client \ Monitor : Within(inbox'[d], inbox[d], i)
  <2>1. CASE UNCHANGED inbox
    BY <2>1, WithinItself
  <2>2. CASE Leave(c)
    BY <1>0, <2>2, WithinItself, NothingWithin DEF Leave
  <2>3. CASE inbox[c] # <<>> /\ Read(c)
    BY <2>3, ReadTypes, WithinItself
  <2>4. CASE CopyToMonitors(c)
    <3>1. doing[c].msg \in Package /\ ToAll(MonitorsIn, {}, doing[c].msg)
      BY <1>0, <2>4 DEF CopyToMonitors
    <3>2. \A d \in Client \ MonitorsIn : inbox'[d] = inbox[d]
      BY <3>1, ToAllTypes
    <3>3. QED
      BY <3>2, WithinItself DEF MonitorsIn
  <2>5. QED
    BY <2>1, <2>2, <2>3, <2>4 DEF Connecting, Connect, Answer, Discard, GreetingBreaks, Enter,
         ReceiverEnds, Drained, GarbleAtBroker, Garble, Pass, Watch, Break, netVars
<1>6. QED
  BY <1>1, <1>3, <1>4, <1>5, WithinItself DEF Still

\* The console moves no item.
LEMMA ConsoleStill ==
    ASSUME TypeOK, Console, NEW i \in Items
    PROVE  Still(i)
<1>0. inbox \in [Client -> Seq(Package)]
  BY DEF TypeOK
<1>1. UNCHANGED <<given, script, heard, toBroker, doing>>
  BY DEF Console, TypeText, TypeWork, TypeClear, ConsoleBreaks, TypeSplit, Break,
         envVars, netVars, logVars
<1>2. \A d \in Client : Within(inbox'[d], inbox[d], i)
  <2>1. CASE UNCHANGED inbox
    BY <2>1, WithinItself
  <2>2. ASSUME NEW cs, NEW failed, NEW t \in TypeNames,
               ToAll(cs, failed, Message(t, "console", NoUuid, NoUuid))
        PROVE  \A d \in Client : Within(inbox'[d], inbox[d], i)
    <3>. DEFINE m == Message(t, "console", NoUuid, NoUuid)
    <3>1. m \in Package /\ m.id # i
      BY ConsolePackages, ItemFacts DEF Message
    <3>2. \A d \in Client : inbox'[d] \in {inbox[d], Append(inbox[d], m)}
      BY <2>2, <3>1, ToAllTypes
    <3>3. \A d \in Client : Within(Append(inbox[d], m), inbox[d], i)
      BY <1>0, <3>1, Queued
    <3>4. QED
      BY <3>2, <3>3, WithinItself
  <2>3. CASE TypeText
    BY <2>2, <2>3, Names DEF TypeText
  <2>4. CASE TypeWork
    BY <2>2, <2>4, Names DEF TypeWork
  <2>5. QED
    BY <2>1, <2>3, <2>4 DEF Console, TypeClear, ConsoleBreaks, TypeSplit, Break, netVars
<1>3. QED
  BY <1>1, <1>2, WithinItself DEF Still, InHand

-----------------------------------------------------------------------------
(* Steps that move an item                                                 *)

\* The only copy is now at one place, and says there what it should.
Arrives(i) ==
    \E y \in Place, d \in Client : \A x \in Place, c \in Client :
        At(x, c, i)' => x = y /\ c = d /\ Says(x, c, i)'

\* A copy that arrived alone and says what it should keeps ItemInv.
LEMMA Arrived ==
    ASSUME NEW i, Arrives(i), GivenOnce(i)'
    PROVE  ItemInv(i)'
BY DEF Arrives, ItemInv, OneCopy

\* While a copy is at one place there is none at the others.
LEMMA Alone ==
    ASSUME NEW i, ItemInv(i), NEW x \in Place, NEW c \in Client, At(x, c, i)
    PROVE  /\ \A y \in Place, d \in Client : At(y, d, i) => y = x /\ d = c
           /\ Says(x, c, i)
           /\ x # "script" => ~(Item(i) \in script /\ Item(i).from \in Client)
           /\ \A d \in Client : Has(toBroker[d], i) => x = "in" /\ d = c
           /\ \A d \in Client : InHand(d, i) => x = "hand" /\ d = c
           /\ \A d \in Client \ Monitor : Has(inbox[d], i) => x = "out" /\ d = c
           /\ \A p \in Planner \cap Client : Has(heard[p], i) => x = "heard" /\ p = c
<1>1. \A y \in Place, d \in Client : At(y, d, i) => y = x /\ d = c
  BY DEF ItemInv, OneCopy
<1>2. {"script", "in", "hand", "out", "heard"} \subseteq Place
  BY DEF Place
<1>3. /\ Item(i) \in script => At("script", Item(i).from, i)
      /\ \A d \in Client : Has(toBroker[d], i) => At("in", d, i)
      /\ \A d \in Client : InHand(d, i) => At("hand", d, i)
      /\ \A d \in Client \ Monitor : Has(inbox[d], i) => At("out", d, i)
      /\ \A p \in Planner \cap Client : Has(heard[p], i) => At("heard", p, i)
  BY DEF At
<1>4. QED
  BY <1>1, <1>2, <1>3 DEF ItemInv

\* Work is sent.
LEMMA SendMoves ==
    ASSUME BrokerInv, NEW m \in script, Send(m), NEW i \in Items, Settled
    PROVE  ItemInv(i)'
<1>0. /\ TypeOK /\ ItemInv(i)
      /\ toBroker \in [Client -> Seq(Package)] /\ m \in AllMessages
      /\ m.type \in TypeNames /\ m.id \in Ids /\ m.from \in Client /\ m.src \in Uuid
      /\ m.tgt \in Uuid
  BY ScriptTypes DEF BrokerInv, TypeOK
<1>. DEFINE w == Message(m.type, m.id, m.src, m.tgt)
<1>1. w \in Package /\ w.id = m.id
  BY <1>0, ScriptTypes, Packaged DEF Message
<1>2. /\ toBroker' = [toBroker EXCEPT ![m.from] = Append(toBroker[m.from], w)]
      /\ script' = script \ {m}
      /\ UNCHANGED <<given, heard, inbox, doing>>
  BY DEF Send
<1>. HIDE DEF w
<1>3. CASE m.id # i
  <2>1. \A c \in Client : Within(toBroker'[c], toBroker[c], i)
    BY <1>0, <1>1, <1>2, <1>3, Queued, WithinItself
  <2>2. Still(i)
    BY <1>2, <2>1, WithinItself DEF Still, InHand
  <2>3. QED
    BY <1>0, <2>2, StillKeeps
<1>4. CASE m.id = i
  <2>1. m = Item(i) /\ m.type = "Work" /\ m.src = m.from /\ m.from \in Planner
    BY <1>0, <1>4, ItemFacts
  <2>2. At("script", m.from, i) /\ "script" \in Place /\ "in" \in Place
    BY <2>1 DEF At, Place
  <2>3. /\ \A d \in Client : ~Has(toBroker[d], i) /\ ~InHand(d, i)
        /\ \A d \in Client \ Monitor : ~Has(inbox[d], i)
        /\ \A p \in Planner \cap Client : ~Has(heard[p], i)
        /\ given[i] = {}
    BY <1>0, <2>2, Alone DEF Says
  <2>4. IsWork(w, i)
    BY <1>4, <2>1 DEF IsWork, w
  <2>5. toBroker'[m.from] = Append(toBroker[m.from], w)
        /\ \A d \in Client \ {m.from} : toBroker'[d] = toBroker[d]
    BY <1>0, <1>2
  <2>6. InSays(m.from, i)'
    <3>1. Once(toBroker'[m.from], i)
      <4>1. Once(toBroker[m.from], i)
        BY <1>0, <2>3 DEF Once, Has, Elems
      <4>2. QED
        BY <1>0, <1>1, <2>3, <2>5, <4>1, Queued
    <3>2. \A n \in Elems(toBroker'[m.from]) : n.id = i => n = w
      BY <1>0, <1>1, <2>3, <2>5, Queued DEF Has
    <3>3. \A n : IsWork(n, i)' <=> IsWork(n, i)
      BY DEF IsWork
    <3>4. QED
      BY <1>2, <2>3, <2>4, <3>1, <3>2, <3>3 DEF InSays
  <2>7. ASSUME NEW x \in Place, NEW c \in Client, At(x, c, i)'
        PROVE  x = "in" /\ c = m.from /\ Says(x, c, i)'
    <3>1. ~InHand(c, i)' /\ Item(i) \notin script'
      BY <1>2, <2>1, <2>3 DEF InHand
    <3>2. x = "in" /\ c = m.from
      BY <1>2, <2>3, <2>5, <2>7, <3>1, ScriptTypes DEF At, Place
    <3>3. QED
      BY <2>6, <3>2 DEF Says
  <2>8. Arrives(i)
    BY <1>0, <2>2, <2>7 DEF Arrives
  <2>9. QED
    BY <1>0, <1>2, <2>8, Arrived, GivenStays DEF ItemInv
<1>5. QED
  BY <1>3, <1>4

\* A unit takes work and answers it.
LEMMA ComputeMoves ==
    ASSUME BrokerInv, NEW c \in Client, Compute(c), NEW i \in Items, Settled
    PROVE  ItemInv(i)'
<1>a. PICK w : w = Head(inbox[c])
  OBVIOUS
<1>0. /\ TypeOK /\ ItemInv(i) /\ c \in Computes /\ c \notin Monitor /\ inbox[c] # <<>>
      /\ Read(c) /\ w.type = "Work"
      /\ UNCHANGED <<script, given, heard, doing>>
      /\ toBroker \in [Client -> Seq(Package)]
      /\ \/ UNCHANGED toBroker
         \/ c \in Unit /\ w.id \in Ids /\ Reply(c, w, Answered(c, w))
         \/ c \notin Unit /\ Reply(c, w, AnsweredByZero(w))
  BY <1>a, ProgramsDiffer DEF BrokerInv, Compute, TypeOK, envVars
<1>1. /\ w \in Package /\ w \in Elems(inbox[c])
      /\ \A j : Within(inbox'[c], inbox[c], j)
      /\ \A j : Once(inbox[c], j) /\ w.id = j => ~Has(inbox'[c], j)
      /\ \A d \in Client \ {c} : inbox'[d] = inbox[d]
  BY <1>a, <1>0, ReadTypes
<1>2. /\ Answered(c, w) \in Package /\ AnsweredByZero(w) \in Package
      /\ Answered(c, w).id = w.id /\ AnsweredByZero(w).id = "0_0"
  BY <1>1, AnswerTypes DEF Answered, AnsweredByZero, Message
<1>3. /\ \A d \in Client \ {c} : toBroker'[d] = toBroker[d]
      /\ \/ toBroker'[c] = toBroker[c]
         \/ c \in Unit /\ toBroker'[c] = Append(toBroker[c], Answered(c, w))
         \/ toBroker'[c] = Append(toBroker[c], AnsweredByZero(w))
  BY <1>0, <1>1, <1>2, ReplyTypes
<1>4. i # "0_0"
  BY ItemFacts
<1>5. \A d \in Client \ Monitor : Within(inbox'[d], inbox[d], i)
  BY <1>1, WithinItself
<1>6. CASE w.id # i
  <2>1. \A d \in Client : Within(toBroker'[d], toBroker[d], i)
    <3>1. toBroker[c] \in Seq(Package)
      BY <1>0
    <3>2. /\ Within(Append(toBroker[c], Answered(c, w)), toBroker[c], i)
          /\ Within(Append(toBroker[c], AnsweredByZero(w)), toBroker[c], i)
      BY <1>2, <1>4, <1>6, <3>1, Queued
    <3>3. QED
      BY <1>3, <3>2, WithinItself
  <2>2. Still(i)
    BY <1>0, <1>5, <2>1, WithinItself DEF Still, InHand
  <2>3. QED
    BY <1>0, <2>2, StillKeeps
<1>7. CASE w.id = i
  <2>1. At("out", c, i) /\ "out" \in Place /\ "in" \in Place
    BY <1>0, <1>1, <1>7 DEF At, Place, Has
  <2>2. /\ \A d \in Client : ~Has(toBroker[d], i) /\ ~InHand(d, i)
        /\ \A d \in Client \ Monitor : Has(inbox[d], i) => d = c
        /\ \A p \in Planner \cap Client : ~Has(heard[p], i)
        /\ ~(Item(i) \in script /\ Item(i).from \in Client)
        /\ OutSays(c, i)
    BY <1>0, <2>1, Alone DEF Says
  <2>3. IsWork(w, i) /\ c \in given[i]
    BY <1>0, <1>1, <1>7, <2>2 DEF OutSays, IsAnswer
  <2>4. ~Has(inbox'[c], i)
    BY <1>1, <1>7, <2>2 DEF OutSays
  <2>5. \A d \in Client \ Monitor : ~Has(inbox'[d], i)
    BY <1>1, <2>2, <2>4
  <2>6. ASSUME NEW x \in Place, NEW d \in Client, At(x, d, i)'
        PROVE  x = "in" /\ d = c /\ Has(toBroker'[c], i)
    <3>1. ~InHand(d, i)'
      BY <1>0, <2>2 DEF InHand
    <3>2. ~(Item(i) \in script' /\ d = Item(i).from)
      BY <1>0, <2>2
    <3>3. QED
      BY <1>0, <1>3, <2>2, <2>5, <2>6, <3>1, <3>2 DEF At
  <2>7. ASSUME Has(toBroker'[c], i) PROVE InSays(c, i)'
    <3>1. Once(toBroker[c], i)
      BY <2>2 DEF Once, Has, Elems
    <3>2. c \in Unit /\ toBroker'[c] = Append(toBroker[c], Answered(c, w))
      <4>1. ~Has(Append(toBroker[c], AnsweredByZero(w)), i)
        <5>1. toBroker[c] \in Seq(Package)
          BY <1>0
        <5>2. Within(Append(toBroker[c], AnsweredByZero(w)), toBroker[c], i)
          BY <1>2, <1>4, <5>1, Queued
        <5>3. QED
          BY <2>2, <5>2, HasWithin
      <4>2. toBroker'[c] # toBroker[c]
        BY <2>2, <2>7
      <4>3. QED
        BY <1>3, <2>7, <4>1, <4>2
    <3>3. Once(toBroker'[c], i) /\ \A n \in Elems(toBroker'[c]) : n.id = i => n = Answered(c, w)
      BY <1>0, <1>2, <2>2, <3>1, <3>2, Queued DEF Has
    <3>4. IsAnswer(Answered(c, w), i)'
      <4>1. w.src = Item(i).from
        BY <2>3, ItemFacts DEF IsWork, Message
      <4>2. QED
        BY <1>0, <1>7, <2>3, <3>2, <4>1 DEF IsAnswer, Answered, Message
    <3>5. QED
      BY <3>3, <3>4 DEF InSays
  <2>8. Arrives(i)
    BY <2>1, <2>6, <2>7 DEF Arrives, Says
  <2>9. QED
    BY <1>0, <2>8, Arrived, GivenStays DEF ItemInv
<1>8. QED
  BY <1>6, <1>7

\* A planner hears of an item.
LEMMA HearMoves ==
    ASSUME BrokerInv, NEW c \in Client, Hear(c), NEW i \in Items, Settled
    PROVE  ItemInv(i)'
<1>a. PICK w : w = Head(inbox[c])
  OBVIOUS
<1>0. /\ TypeOK /\ ItemInv(i) /\ c \in Planner /\ c \notin Monitor /\ c \notin Computes
      /\ inbox[c] # <<>> /\ Read(c)
      /\ UNCHANGED <<script, given, toBroker, doing>>
      /\ heard \in [Planner -> Seq(Package)]
      /\ heard' = [heard EXCEPT ![c] = Append(heard[c], w)]
  BY <1>a, ProgramsDiffer DEF BrokerInv, Hear, TypeOK, envVars
<1>1. /\ w \in Package /\ w \in Elems(inbox[c])
      /\ \A j : Within(inbox'[c], inbox[c], j)
      /\ \A j : Once(inbox[c], j) /\ w.id = j => ~Has(inbox'[c], j)
      /\ \A d \in Client \ {c} : inbox'[d] = inbox[d]
  BY <1>a, <1>0, ReadTypes
<1>2. \A d \in Client \ Monitor : Within(inbox'[d], inbox[d], i)
  BY <1>1, WithinItself
<1>3. heard'[c] = Append(heard[c], w) /\ \A p \in Planner \ {c} : heard'[p] = heard[p]
  BY <1>0
<1>4. CASE w.id # i
  <2>1. \A p \in Planner : Within(heard'[p], heard[p], i)
    BY <1>0, <1>1, <1>3, <1>4, Queued, WithinItself
  <2>2. Still(i)
    BY <1>0, <1>2, <2>1, WithinItself DEF Still, InHand
  <2>3. QED
    BY <1>0, <2>2, StillKeeps
<1>5. CASE w.id = i
  <2>1. At("out", c, i) /\ "out" \in Place /\ "heard" \in Place
    BY <1>0, <1>1, <1>5 DEF At, Place, Has
  <2>2. /\ \A d \in Client : ~Has(toBroker[d], i) /\ ~InHand(d, i)
        /\ \A d \in Client \ Monitor : Has(inbox[d], i) => d = c
        /\ \A p \in Planner \cap Client : ~Has(heard[p], i)
        /\ ~(Item(i) \in script /\ Item(i).from \in Client)
        /\ OutSays(c, i)
    BY <1>0, <2>1, Alone DEF Says
  <2>3. IsAnswer(w, i) /\ c = Item(i).from
    BY <1>0, <1>1, <1>5, <2>2 DEF OutSays
  <2>4. ~Has(inbox'[c], i)
    BY <1>1, <1>5, <2>2 DEF OutSays
  <2>5. \A d \in Client \ Monitor : ~Has(inbox'[d], i)
    BY <1>1, <2>2, <2>4
  <2>6. ASSUME NEW x \in Place, NEW d \in Client, At(x, d, i)'
        PROVE  x = "heard" /\ d = c
    <3>1. ~InHand(d, i)'
      BY <1>0, <2>2 DEF InHand
    <3>2. ~(Item(i) \in script' /\ d = Item(i).from)
      BY <1>0, <2>2
    <3>3. QED
      BY <1>0, <1>3, <2>2, <2>5, <2>6, <3>1, <3>2 DEF At
  <2>7. HeardSays(c, i)'
    <3>1. Once(heard[c], i)
      BY <1>0, <2>2 DEF Once, Has, Elems
    <3>2. Once(heard'[c], i) /\ \A n \in Elems(heard'[c]) : n.id = i => n = w
      BY <1>0, <1>1, <1>3, <2>2, <3>1, Queued DEF Has
    <3>3. IsAnswer(w, i)'
      BY <1>0, <2>3 DEF IsAnswer
    <3>4. QED
      BY <2>3, <3>2, <3>3 DEF HeardSays
  <2>8. Arrives(i)
    BY <2>1, <2>6, <2>7 DEF Arrives, Says
  <2>9. QED
    BY <1>0, <2>8, Arrived, GivenStays DEF ItemInv
<1>6. QED
  BY <1>4, <1>5

\* A receiver takes a package from its client.
LEMMA ReceivingMoves ==
    ASSUME BrokerInv, NEW c \in Client, Receiving(c) \/ AnswerRequest(c),
           NEW i \in Items, Settled
    PROVE  ItemInv(i)'
<1>a. PICK m : m = Head(toBroker[c])
  OBVIOUS
<1>0. /\ TypeOK /\ ItemInv(i) /\ Sessions
      /\ given \in [Ids -> SUBSET (Client \cup {Nobody})]
      /\ doing \in [Client -> [step : Steps, to : Uuid, msg : Package]]
  BY DEF BrokerInv, TypeOK
<1>1. \E types : Receives(c, types)
  BY DEF Receiving, ForwardText, ForwardConfig, ForwardFinished, ForwardWork,
         RerouteWork, DropTask, AnswerRequest
<1>2. Taken(c) /\ UNCHANGED <<script, heard, inbox>>
  BY DEF Receiving, ForwardText, ForwardConfig, ForwardFinished, ForwardWork,
         RerouteWork, DropTask, AnswerRequest, Unmoved, envVars
<1>3. /\ m \in Package /\ m \in Elems(toBroker[c])
      /\ \A j : Within(toBroker'[c], toBroker[c], j)
      /\ \A j : Once(toBroker[c], j) /\ m.id = j => ~Has(toBroker'[c], j)
      /\ \A d \in Client \ {c} : toBroker'[d] = toBroker[d]
  BY <1>a, <1>0, <1>1, <1>2, TakenTypes
<1>4. \A d \in Client : Within(toBroker'[d], toBroker[d], i)
  BY <1>3, WithinItself
<1>5. CASE m.id # i
  <2>1. \/ \E u, n : LookUp(c, u, n) /\ n.id = m.id
        \/ Do(c, Doing("any", Nobody, m)) /\ UNCHANGED given
        \/ UNCHANGED <<doing, given>>
        \/ /\ Do(c, Doing("reroute", m.src, Message("RerouteWork", m.id, m.tgt, NoUuid)))
           /\ UNCHANGED given
    <3>1. CASE AnswerRequest(c)
      <4>1. \E t : LookUp(c, m.src, Message(t, m.id, m.src, m.tgt))
        BY <1>a, <3>1 DEF AnswerRequest
      <4>2. \A t : Message(t, m.id, m.src, m.tgt).id = m.id
        BY DEF Message
      <4>3. QED
        BY <4>1, <4>2
    <3>2. CASE ForwardText(c) \/ ForwardConfig(c) \/ ForwardFinished(c) \/ ForwardWork(c)
      BY <1>a, <3>2 DEF ForwardText, ForwardConfig, ForwardFinished, ForwardWork, Dropped
    <3>3. CASE RerouteWork(c) \/ DropTask(c)
      BY <1>a, <3>3 DEF RerouteWork, DropTask, Dropped
    <3>4. QED
      BY <3>1, <3>2, <3>3 DEF Receiving
  <2>2. given'[i] = given[i]
    <3>1. ASSUME NEW n, Gave(n, Nobody), n.id = m.id PROVE given'[i] = given[i]
      BY <1>0, <1>5, <3>1, ItemFacts DEF Gave
    <3>2. QED
      BY <2>1, <3>1 DEF LookUp
  <2>3. \A d \in Client : InHand(d, i)' => doing'[d] = doing[d]
    <3>1. UNCHANGED doing \/ \E step, to, n : Do(c, Doing(step, to, n)) /\ n.id = m.id
      <4>1. Message("RerouteWork", m.id, m.tgt, NoUuid).id = m.id
        BY DEF Message
      <4>2. QED
        BY <2>1, <4>1 DEF LookUp
    <3>2. ASSUME NEW step, NEW to, NEW n, Do(c, Doing(step, to, n)), n.id = m.id,
                 NEW d \in Client, InHand(d, i)'
          PROVE  doing'[d] = doing[d]
      <4>1. doing'[c] = Doing(step, to, n) /\ (d # c => doing'[d] = doing[d])
        BY <1>0, <3>2 DEF Do
      <4>2. d # c
        BY <1>5, <3>2, <4>1 DEF InHand, Doing
      <4>3. QED
        BY <4>1, <4>2
    <3>3. QED
      BY <3>1, <3>2
  <2>4. Still(i)
    BY <1>2, <1>4, <2>2, <2>3, WithinItself DEF Still
  <2>5. QED
    BY <1>0, <2>4, StillKeeps
<1>6. CASE m.id = i
  <2>1. At("in", c, i) /\ "in" \in Place /\ "hand" \in Place
    BY <1>3, <1>6 DEF At, Place, Has
  <2>2. /\ \A d \in Client : Has(toBroker[d], i) => d = c
        /\ \A d \in Client : ~InHand(d, i)
        /\ \A d \in Client \ Monitor : ~Has(inbox[d], i)
        /\ \A p \in Planner \cap Client : ~Has(heard[p], i)
        /\ ~(Item(i) \in script /\ Item(i).from \in Client)
        /\ InSays(c, i)
    BY <1>0, <2>1, Alone DEF Says
  <2>3. (IsWork(m, i) /\ given[i] = {}) \/ IsAnswer(m, i)
    BY <1>3, <1>6, <2>2 DEF InSays
  <2>4. \A d \in Client : ~Has(toBroker'[d], i)
    BY <1>3, <1>6, <2>2 DEF InSays
  <2>5. \/ ForwardFinished(c) /\ IsAnswer(m, i)
        \/ ForwardWork(c) /\ IsWork(m, i)
    <3>1. m.type = "Work" \/ m.type = "TaskFinished"
      BY <2>3 DEF IsWork, IsAnswer, Message
    <3>2. /\ ForwardText(c) => m.type = "Text"
          /\ ForwardConfig(c) =>
                m.type \in {"ConnectAction", "ConfigurationAction", "ConnectActionInfo"}
          /\ RerouteWork(c) => m.type = "RerouteWork"
          /\ DropTask(c) => m.type = "NewTask"
          /\ AnswerRequest(c) => m.type \in {"MonitorRequest", "UuidForUnitRequest"}
          /\ ForwardFinished(c) => m.type = "TaskFinished"
          /\ ForwardWork(c) => m.type = "Work"
      BY <1>a DEF ForwardText, ForwardConfig, ForwardFinished, ForwardWork,
           RerouteWork, DropTask, AnswerRequest, Receives
    <3>3. ForwardFinished(c) \/ ForwardWork(c)
      BY <3>1, <3>2 DEF Receiving
    <3>4. QED
      BY <2>3, <3>2, <3>3 DEF IsWork, IsAnswer, Message
  <2>6. \A d \in Client \ {c} : doing'[d] = doing[d]
    BY <1>0, <2>5 DEF ForwardFinished, ForwardWork, LookUp, Do
  <2>7. ASSUME NEW x \in Place, NEW d \in Client, At(x, d, i)'
        PROVE  x = "hand" /\ d = c /\ InHand(c, i)'
    <3>1. d # c => ~InHand(d, i)'
      BY <2>2, <2>6 DEF InHand
    <3>2. QED
      BY <1>2, <2>2, <2>4, <2>7, <3>1 DEF At
  <2>8. GivenOnce(i)' /\ (InHand(c, i)' => HandSays(c, i)')
    <3>1. CASE ForwardFinished(c) /\ IsAnswer(m, i)
      <4>1. LookUp(c, m.tgt, m)
        BY <1>a, <3>1 DEF ForwardFinished
      <4>2. given'[i] = given[i]
        BY <1>0, <3>1, <4>1 DEF LookUp, Gave, IsAnswer
      <4>3. InHand(c, i)' => \E t \in ByUuid(m.tgt) : doing'[c] = Doing("to", t, m)
        BY <1>0, <2>2, <4>1 DEF LookUp, Do, InHand
      <4>4. \A t \in ByUuid(m.tgt) : Named(t, m.tgt)'
        BY DEF ByUuid, In, Named, Known, Settled
      <4>5. IsAnswer(m, i)'
        BY <3>1, <4>2 DEF IsAnswer
      <4>6. InHand(c, i)' => HandSays(c, i)'
        <5>1. ASSUME NEW t \in ByUuid(m.tgt), doing'[c] = Doing("to", t, m)
              PROVE  HandSays(c, i)'
          <6>1. doing'[c].step = "to" /\ doing'[c].to = t /\ doing'[c].msg = m
            BY <5>1 DEF Doing
          <6>2. QED
            BY <4>4, <4>5, <6>1 DEF HandSays
        <5>2. QED
          BY <4>3, <5>1
      <4>7. QED
        BY <1>0, <4>2, <4>6, GivenStays DEF ItemInv
    <3>2. CASE ForwardWork(c) /\ IsWork(m, i)
      <4>1. given[i] = {} /\ m.tgt = Item(i).tgt /\ IsWork(m, i)'
        BY <2>3, <3>2 DEF IsWork, IsAnswer, Message
      <4>2. \/ m.tgt = NoUuid /\ Do(c, Doing("any", Nobody, m)) /\ UNCHANGED given
            \/ m.tgt # NoUuid /\ LookUp(c, m.tgt, m)
        BY <1>a, <3>2 DEF ForwardWork
      <4>3. CASE m.tgt = NoUuid /\ Do(c, Doing("any", Nobody, m)) /\ UNCHANGED given
        <5>1. doing'[c] = Doing("any", Nobody, m)
          BY <1>0, <4>3 DEF Do
        <5>2. HandSays(c, i)'
          BY <4>1, <4>3, <5>1 DEF HandSays, Doing
        <5>3. QED
          BY <1>0, <4>3, <5>2, GivenStays DEF ItemInv
      <4>4. CASE m.tgt # NoUuid /\ Gave(m, Nobody) /\ UNCHANGED doing
        <5>1. given'[i] \subseteq {Nobody}
          BY <1>0, <4>1, <4>4, <1>6 DEF Gave
        <5>2. ~InHand(c, i)'
          BY <2>2, <4>4 DEF InHand
        <5>3. QED
          BY <5>1, <5>2 DEF GivenOnce
      <4>5. ASSUME m.tgt # NoUuid, NEW t \in ByUuid(m.tgt), Do(c, Doing("to", t, m)),
                   UNCHANGED given
            PROVE  GivenOnce(i)' /\ HandSays(c, i)'
        <5>1. doing'[c] = Doing("to", t, m)
          BY <1>0, <4>5 DEF Do
        <5>2. Named(t, m.tgt)'
          BY <4>5 DEF ByUuid, In, Named, Known, Settled
        <5>3. HandSays(c, i)'
          BY <4>1, <4>5, <5>1, <5>2 DEF HandSays, Doing
        <5>4. QED
          BY <1>0, <4>5, <5>3, GivenStays DEF ItemInv
      <4>6. QED
        BY <4>2, <4>3, <4>4, <4>5 DEF LookUp
    <3>3. QED
      BY <2>5, <3>1, <3>2
  <2>9. Arrives(i)
    BY <2>1, <2>7, <2>8 DEF Arrives, Says
  <2>10. QED
    BY <2>8, <2>9, Arrived
<1>7. QED
  BY <1>5, <1>6

\* A callback that has an item or an answer in hand sends it.
LEMMA TakesMoves ==
    ASSUME BrokerInv, NEW c \in Client, NEW t \in Client, Takes(c, t),
           \/ doing[c].step = "to" /\ t = doing[c].to
           \/ doing[c].step \in {"any", "reroute"} /\ t \in UnitsIn,
           NEW i \in Items, Settled
    PROVE  ItemInv(i)'
<1>a. PICK m : m = doing[c].msg
  OBVIOUS
<1>0. /\ TypeOK /\ ItemInv(i) /\ Sessions /\ m \in Package
      /\ given \in [Ids -> SUBSET (Client \cup {Nobody})]
      /\ inbox \in [Client -> Seq(Package)]
      /\ doing \in [Client -> [step : Steps, to : Uuid, msg : Package]]
  BY <1>a DEF BrokerInv, TypeOK
<1>1. /\ Deliver(t, m) /\ Gave(m, t) /\ Copying(c)
      /\ UNCHANGED <<script, toBroker, heard>>
  BY <1>a DEF Takes, Deliver, Rest, envVars
<1>2. /\ \A d \in Client \ {t} : inbox'[d] = inbox[d]
      /\ inbox'[t] \in {inbox[t], Append(inbox[t], m)}
  BY <1>0, <1>1, DeliverTypes
<1>3. /\ doing'[c].step = "copy"
      /\ \A d \in Client \ {c} : doing'[d] = doing[d]
  BY <1>0, <1>1 DEF Copying, Do, Doing
<1>4. \A d \in Client : InHand(d, i)' => d # c /\ InHand(d, i)
  BY <1>3 DEF InHand, Active
<1>5. CASE m.id # i
  <2>1. \A d \in Client \ Monitor : Within(inbox'[d], inbox[d], i)
    <3>1. Within(Append(inbox[t], m), inbox[t], i)
      BY <1>0, <1>5, Queued
    <3>2. QED
      BY <1>2, <3>1, WithinItself
  <2>2. given'[i] = given[i]
    BY <1>0, <1>1, <1>5, ItemFacts DEF Gave
  <2>3. Still(i)
    BY <1>1, <1>3, <1>4, <2>1, <2>2, WithinItself DEF Still
  <2>4. QED
    BY <1>0, <2>3, StillKeeps
<1>6. CASE m.id = i
  <2>1. At("hand", c, i) /\ "hand" \in Place /\ "out" \in Place
    BY <1>a, <1>6 DEF At, Place, InHand, Active
  <2>2. /\ \A d \in Client : ~Has(toBroker[d], i)
        /\ \A d \in Client : InHand(d, i) => d = c
        /\ \A d \in Client \ Monitor : ~Has(inbox[d], i)
        /\ \A p \in Planner \cap Client : ~Has(heard[p], i)
        /\ ~(Item(i) \in script /\ Item(i).from \in Client)
        /\ HandSays(c, i)
    BY <1>0, <2>1, Alone DEF Says
  <2>3. ASSUME NEW x \in Place, NEW d \in Client, At(x, d, i)'
        PROVE  x = "out" /\ d = t /\ t \notin Monitor /\ Has(inbox'[t], i)
    <3>1. ~InHand(d, i)'
      BY <1>4, <2>2
    <3>2. QED
      BY <1>1, <1>2, <2>2, <2>3, <3>1 DEF At
  <2>4. ASSUME t \notin Monitor, Has(inbox'[t], i)
        PROVE  Once(inbox'[t], i) /\ \A n \in Elems(inbox'[t]) : n.id = i => n = m
    <3>1. ~Has(inbox[t], i) /\ Once(inbox[t], i)
      BY <2>2, <2>4 DEF Once, Has, Elems
    <3>2. inbox'[t] = Append(inbox[t], m)
      BY <1>2, <2>4, <3>1
    <3>3. QED
      BY <1>0, <3>1, <3>2, Queued DEF Has
  <2>5. GivenOnce(i)' /\ (t \notin Monitor /\ Has(inbox'[t], i) => OutSays(t, i)')
    <3>1. CASE IsWork(m, i)
      <4>1. /\ given[i] = {} /\ m.type = "Work" /\ m.tgt = Item(i).tgt
            /\ \/ doing[c].step = "any" /\ Item(i).tgt = NoUuid
               \/ doing[c].step = "to" /\ Item(i).tgt # NoUuid
        BY <1>a, <2>2, <3>1 DEF HandSays, IsWork, IsAnswer, Message
      <4>2. given'[i] = {t}
        BY <1>0, <1>1, <1>6, <4>1, ItemFacts DEF Gave
      <4>3. /\ t \in Computes /\ Known(t)
            /\ Item(i).tgt # NoUuid => session[t] = Item(i).tgt
        <5>1. CASE doing[c].step = "any" /\ Item(i).tgt = NoUuid
          BY <5>1 DEF UnitsIn, In, Known
        <5>2. CASE doing[c].step = "to" /\ Item(i).tgt # NoUuid
          <6>1. Named(t, Item(i).tgt)
            BY <1>a, <2>2, <4>1, <5>2 DEF HandSays
          <6>2. Item(i).tgt \in Unit /\ session[t] = t
            BY <1>0, <5>2, <6>1, ItemFacts DEF Named, Sessions
          <6>3. QED
            BY <6>1, <6>2 DEF Named, Computes
        <5>3. QED
          BY <4>1, <5>1, <5>2
      <4>4. GivenOnce(i)'
        BY <4>2, <4>3 DEF GivenOnce, Settled
      <4>5. IsWork(m, i)'
        BY <3>1 DEF IsWork
      <4>6. QED
        BY <2>4, <4>2, <4>3, <4>4, <4>5 DEF OutSays
    <3>2. CASE ~IsWork(m, i)
      <4>1. IsAnswer(m, i) /\ Named(t, Item(i).from)
        BY <1>a, <2>2, <3>2 DEF HandSays, IsAnswer
      <4>2. t = Item(i).from
        <5>1. session[t] \in {t, NoUuid} /\ session[t] = Item(i).from
          BY <1>0, <4>1 DEF Named, Sessions
        <5>2. Item(i).from # NoUuid
          BY ItemFacts, ProgramsDiffer
        <5>3. QED
          BY <5>1, <5>2
      <4>3. given'[i] = given[i]
        BY <1>1, <4>1 DEF Gave, IsAnswer
      <4>4. IsAnswer(m, i)'
        BY <4>1, <4>3 DEF IsAnswer
      <4>5. QED
        BY <1>0, <2>4, <4>2, <4>3, <4>4, GivenStays DEF OutSays, ItemInv
    <3>3. QED
      BY <3>1, <3>2
  <2>6. Arrives(i)
    BY <2>1, <2>3, <2>5 DEF Arrives, Says
  <2>7. QED
    BY <2>5, <2>6, Arrived
<1>7. QED
  BY <1>5, <1>6

\* There is nobody to send it to.
LEMMA NowhereMoves ==
    ASSUME BrokerInv, NEW c \in Client, Nowhere(c), doing[c].step \in {"any", "reroute"},
           NEW i \in Items, Settled
    PROVE  ItemInv(i)'
<1>a. PICK m : m = doing[c].msg
  OBVIOUS
<1>0. /\ TypeOK /\ ItemInv(i)
      /\ given \in [Ids -> SUBSET (Client \cup {Nobody})]
      /\ doing \in [Client -> [step : Steps, to : Uuid, msg : Package]]
  BY DEF BrokerInv, TypeOK
<1>1. Gave(m, Nobody) /\ Copying(c) /\ UNCHANGED <<script, toBroker, inbox, heard>>
  BY <1>a DEF Nowhere, Rest, envVars, netVars
<1>2. /\ doing'[c].step = "copy"
      /\ \A d \in Client \ {c} : doing'[d] = doing[d]
  BY <1>0, <1>1 DEF Copying, Do, Doing
<1>3. \A d \in Client : InHand(d, i)' => d # c /\ InHand(d, i)
  BY <1>2 DEF InHand, Active
<1>4. CASE m.id # i
  <2>1. given'[i] = given[i]
    BY <1>0, <1>1, <1>4, ItemFacts DEF Gave
  <2>2. Still(i)
    BY <1>1, <1>2, <1>3, <2>1, WithinItself DEF Still
  <2>3. QED
    BY <1>0, <2>2, StillKeeps
<1>5. CASE m.id = i
  <2>1. At("hand", c, i) /\ "hand" \in Place
    BY <1>a, <1>5 DEF At, Place, InHand, Active
  <2>2. /\ \A d \in Client : ~Has(toBroker[d], i)
        /\ \A d \in Client : InHand(d, i) => d = c
        /\ \A d \in Client \ Monitor : ~Has(inbox[d], i)
        /\ \A p \in Planner \cap Client : ~Has(heard[p], i)
        /\ ~(Item(i) \in script /\ Item(i).from \in Client)
        /\ HandSays(c, i)
    BY <1>0, <2>1, Alone DEF Says
  <2>3. given[i] = {}
    BY <2>2 DEF HandSays
  <2>4. given'[i] \subseteq {Nobody}
    BY <1>0, <1>1, <1>5, <2>3, ItemFacts DEF Gave
  <2>5. ASSUME NEW x \in Place, NEW d \in Client, At(x, d, i)'
        PROVE  FALSE
    <3>1. ~InHand(d, i)'
      BY <1>3, <2>2
    <3>2. QED
      BY <1>1, <2>2, <2>5, <3>1 DEF At
  <2>6. Arrives(i)
    BY <2>1, <2>5 DEF Arrives
  <2>7. GivenOnce(i)'
    BY <2>4 DEF GivenOnce
  <2>8. QED
    BY <2>6, <2>7, Arrived
<1>6. QED
  BY <1>4, <1>5

\* A send that fails gives nothing to anybody.
LEMMA FailsStill ==
    ASSUME BrokerInv, NEW c \in Client, NEW t \in Client, Fails(t),
           Copying(c) \/ UNCHANGED doing, NEW i \in Items
    PROVE  Still(i)
<1>1. doing \in [Client -> [step : Steps, to : Uuid, msg : Package]]
  BY DEF BrokerInv, TypeOK
<1>2. UNCHANGED <<script, toBroker, inbox, heard, given>>
  BY DEF Fails, Rest, envVars, netVars
<1>3. \A d \in Client : InHand(d, i)' => doing'[d] = doing[d]
  <2>1. CASE UNCHANGED doing
    BY <2>1
  <2>2. CASE Copying(c)
    <3>1. doing'[c].step = "copy" /\ \A d \in Client \ {c} : doing'[d] = doing[d]
      BY <1>1, <2>2 DEF Copying, Do, Doing
    <3>2. QED
      BY <3>1 DEF InHand, Active
  <2>3. QED
    BY <2>1, <2>2
<1>4. QED
  BY <1>2, <1>3, WithinItself DEF Still

\* Every way to send keeps what is said of an item.
LEMMA SendingMoves ==
    ASSUME BrokerInv, NEW c \in Client, Sending(c), NEW i \in Items, Settled
    PROVE  ItemInv(i)'
<1>0. TypeOK /\ ItemInv(i)
  BY DEF BrokerInv
<1>1. CASE SendToTarget(c)
  <2>1. doing[c].step = "to" /\ doing[c].to \in Client
    BY <1>1 DEF SendToTarget, In
  <2>2. Takes(c, doing[c].to) \/ (Fails(doing[c].to) /\ Copying(c))
    BY <1>1 DEF SendToTarget
  <2>3. QED
    BY <1>0, <2>1, <2>2, TakesMoves, FailsStill, StillKeeps
<1>2. CASE SendToAny(c) \/ RerouteToAny(c)
  <2>1. /\ doing[c].step \in {"any", "reroute"} /\ UnitsIn \subseteq Client
        /\ \/ Nowhere(c)
           \/ \E t \in UnitsIn : Takes(c, t) \/ (Fails(t) /\ (Copying(c) \/ UNCHANGED doing))
    BY <1>2 DEF SendToAny, RerouteToAny, UnitsIn, In
  <2>2. QED
    BY <1>0, <2>1, NowhereMoves, TakesMoves, FailsStill, StillKeeps
<1>3. QED
  BY <1>1, <1>2 DEF Sending

-----------------------------------------------------------------------------
(* One unit, one answer                                                    *)

\* BrokerInv holds at first, with all items in the script.
LEMMA InitItems == Init => BrokerInv
<1>. SUFFICES ASSUME Init PROVE BrokerInv
  OBVIOUS
<1>1. Sessions
  BY DEF Init, Sessions
<1>2. ASSUME NEW i \in Items PROVE ItemInv(i)
  <2>1. /\ given[i] = {} /\ \A c \in Client : doing[c] = Idle
        /\ \A c \in Client : toBroker[c] = <<>> /\ inbox[c] = <<>>
        /\ \A p \in Planner : heard[p] = <<>>
    BY ItemFacts DEF Init
  <2>2. \A c \in Client : /\ ~Has(toBroker[c], i) /\ ~Has(inbox[c], i) /\ ~InHand(c, i)
                          /\ c \in Planner => ~Has(heard[c], i)
    BY <2>1, EmptyQueue DEF Has, InHand, Idle, Active
  <2>3. \A x \in Place, c \in Client :
          At(x, c, i) => x = "script" /\ c = Item(i).from
    BY <2>2 DEF At
  <2>4. QED
    BY <2>1, <2>3 DEF ItemInv, OneCopy, Says, GivenOnce
<1>3. QED
  BY <1>1, <1>2, InitTypes DEF BrokerInv

\* BrokerInv is inductive.
LEMMA NextItems == BrokerInv /\ [Next]_vars => BrokerInv'
<1>. SUFFICES ASSUME BrokerInv, [Next]_vars PROVE BrokerInv'
  OBVIOUS
<1>1. TypeOK /\ TypeOK' /\ Settled /\ Sessions'
  BY NextTypes, StaysSettled DEF BrokerInv
<1>2. ASSUME NEW i \in Items PROVE ItemInv(i)'
  <2>0. ItemInv(i)
    BY DEF BrokerInv
  <2>1. CASE UNCHANGED vars
    <3>1. Still(i)
      BY <2>1, WithinItself DEF Still, vars, envVars, netVars, logVars
    <3>2. QED
      BY <1>1, <2>0, <3>1, StillKeeps
  <2>2. CASE Next
    <3>1. ASSUME NEW c \in Client, Callback(c) PROVE ItemInv(i)'
      <4>1. \/ Receiving(c) \/ AnswerRequest(c) \/ Sending(c)
            \/ CopyToMonitors(c) \/ Break
        BY <3>1 DEF Callback, Receiving, Sending, CallbackBreaks
      <4>2. QED
        BY <1>1, <2>0, <4>1, ReceivingMoves, SendingMoves, QuietStill, StillKeeps
    <3>2. ASSUME NEW c \in Client, Reading(c) PROVE ItemInv(i)'
      BY <1>1, <2>0, <3>2, ComputeMoves, HearMoves, QuietStill, StillKeeps DEF Reading
    <3>3. ASSUME NEW c \in Client, Connecting(c) \/ Leave(c) \/ ReceiverEnds(c)
                                   \/ Drained(c) \/ GarbleAtBroker(c)
          PROVE  ItemInv(i)'
      BY <1>1, <2>0, <3>3, QuietStill, StillKeeps
    <3>4. ASSUME NEW m \in script, Send(m) PROVE ItemInv(i)'
      BY <1>1, <3>4, SendMoves
    <3>5. CASE Console
      BY <1>1, <2>0, <3>5, ConsoleStill, StillKeeps
    <3>6. QED
      BY <2>2, <3>1, <3>2, <3>3, <3>4, <3>5 DEF Next
  <2>3. QED
    BY <2>1, <2>2
<1>3. QED
  BY <1>1, <1>2 DEF BrokerInv

\* The invariant of the broker is one.
THEOREM Invariance == Spec => []BrokerInv
BY InitItems, NextItems, PTL DEF Spec

\* What ItemInv says of what a planner has heard.
LEMMA HeardAnswers ==
    ASSUME BrokerInv, NEW i \in Items, NEW p \in Planner, NEW k \in Answers(p, i)
    PROVE  /\ Answers(p, i) = {k}
           /\ IsAnswer(heard[p][k], i) /\ p = Item(i).from
           /\ Has(heard[p], i)
<1>1. k \in 1..Len(heard[p]) /\ heard[p][k].id = i
  BY DEF Answers
<1>2. heard[p][k] \in Elems(heard[p]) /\ Has(heard[p], i)
  BY <1>1 DEF Elems, Has
<1>3. p \in Client /\ "heard" \in Place /\ At("heard", p, i)
  BY <1>2, ScriptTypes DEF At, Place
<1>4. HeardSays(p, i)
  BY <1>3 DEF BrokerInv, ItemInv, Says
<1>5. \A l \in Answers(p, i) : l = k
  BY <1>1, <1>4 DEF HeardSays, Once, Answers
<1>6. QED
  BY <1>1, <1>2, <1>4, <1>5 DEF HeardSays

\* Whatever is retried, refused or left, an item goes to one unit at most, the one
\* its planner named, and its planner alone hears of it, once, from that unit.
THEOREM OneOfEach == Spec => []OneUnitOneAnswer
<1>1. BrokerInv => OneUnitOneAnswer
  <2>. SUFFICES ASSUME BrokerInv, NEW i \in Items
                PROVE  /\ Cardinality(given[i]) <= 1
                       /\ Item(i).tgt # NoUuid =>
                            \A c \in given[i] \ {Nobody} : session[c] = Item(i).tgt
                       /\ \A p \in Planner :
                            /\ Cardinality(Answers(p, i)) <= 1
                            /\ \A k \in Answers(p, i) : /\ Item(i).from = p
                                                        /\ heard[p][k].src \in given[i]
    BY DEF OneUnitOneAnswer
  <2>1. GivenOnce(i)
    BY DEF BrokerInv, ItemInv
  <2>2. ASSUME NEW S, \A a, b \in S : a = b PROVE Cardinality(S) <= 1
    <3>1. CASE S = {}
      BY <3>1, FS_EmptySet
    <3>2. ASSUME NEW a \in S PROVE Cardinality(S) <= 1
      <4>1. S = {a}
        BY <2>2, <3>2
      <4>2. Cardinality({a}) = 1
        BY FS_Singleton
      <4>3. Cardinality(S) = 1
        BY <4>1, <4>2
      <4>4. QED
        BY <4>3
    <3>3. QED
      BY <3>1, <3>2
  <2>3. Cardinality(given[i]) <= 1
    BY <2>1, <2>2 DEF GivenOnce
  <2>4. ASSUME NEW p \in Planner PROVE Cardinality(Answers(p, i)) <= 1
    BY <2>2, HeardAnswers
  <2>5. ASSUME NEW p \in Planner, NEW k \in Answers(p, i)
        PROVE  Item(i).from = p /\ heard[p][k].src \in given[i]
    BY HeardAnswers DEF IsAnswer
  <2>6. QED
    BY <2>1, <2>3, <2>4, <2>5 DEF GivenOnce
<1>2. QED
  BY <1>1, Invariance, PTL

-----------------------------------------------------------------------------
(* Monitors                                                                *)

\* A callback is about to copy a package of type t, of item i, to the monitors.
IsCopied(t, i) ==
    \E c \in Client : doing[c].step = "copy" /\ doing[c].msg.type = t /\ doing[c].msg.id = i
Told(m, t, i) == <<t, i>> \in Copies(m) \/ IsCopied(t, i)

\* The answer is with the planner.
Reached(i) == Has(inbox[Item(i).from], i) \/ Has(heard[Item(i).from], i)

FollowInv ==
    \A i \in Items : \A m \in watching[i] :
        /\ Known(m)
        /\ m \in (In \cap up) \ torn =>
              /\ given[i] \cap Client # {} => Told(m, "Work", i)
              /\ Reached(i) => Told(m, "TaskFinished", i)

\* Copies(m) by the elements of the queue.
LEMMA CopiesAre ==
    \A m : Copies(m) = seen[m] \cup {<<n.type, n.id>> : n \in Elems(inbox[m])}
BY DEF Copies, Elems

\* What a copy is in a queue that grew, or from which it was read.
LEMMA CopiesGrow ==
    ASSUME TypeOK, NEW m \in Monitor,
           \/ UNCHANGED <<inbox[m], seen[m]>>
           \/ \E n \in Package : inbox'[m] = Append(inbox[m], n) /\ UNCHANGED seen[m]
           \/ Watch(m)
    PROVE  Copies(m) \subseteq Copies(m)'
<1>0. /\ inbox \in [Client -> Seq(Package)] /\ m \in Client
      /\ seen \in [Monitor -> SUBSET (TypeNames \X AnyId)]
  BY ScriptTypes DEF TypeOK
<1>1. /\ Copies(m) = seen[m] \cup {<<n.type, n.id>> : n \in Elems(inbox[m])}
      /\ Copies(m)' = seen'[m] \cup {<<n.type, n.id>> : n \in Elems(inbox'[m])}
  BY CopiesAre DEF Copies, Elems
<1>2. CASE UNCHANGED <<inbox[m], seen[m]>>
  BY <1>1, <1>2
<1>3. CASE \E n \in Package : inbox'[m] = Append(inbox[m], n) /\ UNCHANGED seen[m]
  <2>1. Elems(inbox[m]) \subseteq Elems(inbox'[m])
    BY <1>0, <1>3, Queued
  <2>2. QED
    BY <1>1, <1>3, <2>1
<1>4. CASE Watch(m)
  <2>1. /\ inbox[m] # <<>> /\ inbox'[m] = Tail(inbox[m])
        /\ seen'[m] = seen[m] \cup {<<Head(inbox[m]).type, Head(inbox[m]).id>>}
    BY <1>0, <1>4 DEF Watch, Read
  <2>2. ASSUME NEW k \in 1..Len(inbox[m])
        PROVE  inbox[m][k] = Head(inbox[m]) \/ inbox[m][k] \in Elems(Tail(inbox[m]))
    <3>1. /\ Len(inbox[m]) \in Nat \ {0} /\ Len(Tail(inbox[m])) = Len(inbox[m]) - 1
          /\ \A j \in 1..Len(Tail(inbox[m])) : Tail(inbox[m])[j] = inbox[m][j + 1]
      BY <1>0, <2>1, EmptySeq, HeadTailProperties
    <3>2. CASE k = 1
      BY <3>2
    <3>3. CASE k # 1
      <4>1. k - 1 \in 1..Len(Tail(inbox[m])) /\ (k - 1) + 1 = k
        BY <2>2, <3>1, <3>3
      <4>2. QED
        BY <3>1, <4>1 DEF Elems
    <3>4. QED
      BY <3>2, <3>3
  <2>3. Elems(inbox[m]) \subseteq {Head(inbox[m])} \cup Elems(inbox'[m])
    BY <2>1, <2>2 DEF Elems
  <2>4. QED
    BY <1>1, <2>1, <2>3
<1>5. QED
  BY <1>2, <1>3, <1>4

\* A stream with a part of a message in it keeps that part.
LEMMA TornGrows ==
    ASSUME TypeOK, [Next]_vars
    PROVE  torn \subseteq torn'
<1>0. doing \in [Client -> [step : Steps, to : Uuid, msg : Package]]
  BY DEF TypeOK
<1>1. CASE UNCHANGED torn
  BY <1>1
<1>2. ASSUME NEW c \in Client, Connecting(c) \/ Leave(c) \/ ReceiverEnds(c) \/ Drained(c)
                               \/ GarbleAtBroker(c)
      PROVE  UNCHANGED torn
  BY <1>2 DEF Connecting, Connect, Answer, Discard, GreetingBreaks, Enter, Leave, ReceiverEnds,
              Drained, GarbleAtBroker, Break, logVars
<1>3. ASSUME NEW c \in Client, Reading(c) PROVE torn \subseteq torn'
  BY <1>3 DEF Reading, Compute, Reply, Garble, Hear, Watch, Pass, logVars
<1>4. ASSUME NEW c \in Client, Callback(c) PROVE torn \subseteq torn'
  <2>1. CASE Receiving(c) \/ AnswerRequest(c) \/ Break
    BY <2>1 DEF Receiving, ForwardText, ForwardConfig, ForwardFinished, ForwardWork,
                RerouteWork, DropTask, Unmoved, AnswerRequest, Break, logVars
  <2>2. CASE Sending(c)
    <3>1. \/ Nowhere(c)
          \/ \E t \in Client : Takes(c, t) \/ Fails(t)
      BY <2>2 DEF Sending, SendToTarget, SendToAny, RerouteToAny, UnitsIn, In
    <3>2. ASSUME NEW t \in Client, Takes(c, t) PROVE torn \subseteq torn'
      BY <1>0, <3>2, DeliverTypes DEF Takes
    <3>3. QED
      BY <3>1, <3>2 DEF Nowhere, Fails
  <2>3. CASE CopyToMonitors(c)
    BY <1>0, <2>3, ToAllTypes DEF CopyToMonitors
  <2>4. QED
    BY <1>4, <2>1, <2>2, <2>3 DEF Callback, Receiving, Sending, CallbackBreaks
<1>5. ASSUME NEW n \in script, Send(n) PROVE UNCHANGED torn
  BY <1>5 DEF Send
<1>6. CASE Console
  BY <1>6 DEF Console, TypeText, TypeWork, TypeClear, ConsoleBreaks, TypeSplit, ToAll, Break,
              logVars
<1>7. CASE Next
  BY <1>1, <1>2, <1>3, <1>4, <1>5, <1>6, <1>7 DEF Next
<1>8. CASE UNCHANGED vars
  BY <1>1, <1>8 DEF vars, logVars
<1>9. QED
  BY <1>7, <1>8

\* As long as a monitor stays and its stream is whole, no copy it has been sent is
\* lost.
LEMMA CopiesRemain ==
    ASSUME TypeOK, [Next]_vars, NEW m \in Monitor, m \in up', m \notin torn'
    PROVE  Copies(m) \subseteq Copies(m)'
<1>0. /\ inbox \in [Client -> Seq(Package)] /\ m \in Client
      /\ doing \in [Client -> [step : Steps, to : Uuid, msg : Package]]
      /\ m \notin Planner /\ m \notin Computes /\ m \notin torn
  BY ScriptTypes, ProgramsDiffer, TornGrows DEF TypeOK
<1>. DEFINE Grown == \/ UNCHANGED <<inbox[m], seen[m]>>
                     \/ \E n \in Package : inbox'[m] = Append(inbox[m], n) /\ UNCHANGED seen[m]
                     \/ Watch(m)
<1>. SUFFICES Grown
  BY CopiesGrow
<1>1. CASE UNCHANGED <<inbox, seen>>
  BY <1>1
<1>2. ASSUME NEW c \in Client, Connecting(c) \/ ReceiverEnds(c) \/ Drained(c) \/ GarbleAtBroker(c)
      PROVE  Grown
  BY <1>2 DEF Connecting, Connect, Answer, Discard, GreetingBreaks, Enter, ReceiverEnds,
              Drained, GarbleAtBroker, Break, netVars, logVars
<1>3. ASSUME NEW c \in Client, Leave(c) PROVE Grown
  BY <1>0, <1>3 DEF Leave, logVars
<1>4. ASSUME NEW c \in Client, Reading(c) PROVE Grown
  <2>1. CASE Watch(c)
    <3>1. CASE c = m
      BY <2>1, <3>1
    <3>2. CASE c # m
      BY <1>0, <2>1, <3>2 DEF Watch, Read
    <3>3. QED
      BY <3>1, <3>2
  <2>2. CASE Compute(c) \/ Garble(c) \/ Hear(c) \/ Pass(c)
    <3>1. c # m
      <4>1. TypeOK /\ (c \in Computes \/ c \in torn \/ c \in Planner \/ c \notin Monitor)
        BY <2>2 DEF Compute, Garble, Hear, Pass
      <4>2. QED
        BY <1>0, <4>1 DEF TypeOK
    <3>2. Read(c) /\ UNCHANGED seen
      BY <2>2 DEF Compute, Garble, Hear, Pass, logVars
    <3>3. QED
      BY <1>0, <3>1, <3>2 DEF Read
  <2>3. QED
    BY <1>4, <2>1, <2>2 DEF Reading
<1>5. ASSUME NEW c \in Client, Callback(c) PROVE Grown
  <2>1. CASE Receiving(c) \/ AnswerRequest(c) \/ Break
    BY <2>1 DEF Receiving, ForwardText, ForwardConfig, ForwardFinished, ForwardWork,
                RerouteWork, DropTask, Unmoved, AnswerRequest, Break, netVars, logVars
  <2>2. ASSUME NEW t \in Client, Takes(c, t) PROVE Grown
    <3>1. Deliver(t, doing[c].msg) /\ UNCHANGED seen /\ doing[c].msg \in Package
      BY <1>0, <2>2 DEF Takes, Rest
    <3>2. inbox'[m] = inbox[m] \/ inbox'[m] = Append(inbox[m], doing[c].msg)
      BY <1>0, <3>1, DeliverTypes
    <3>3. QED
      BY <3>1, <3>2
  <2>3. ASSUME NEW t, Nowhere(c) \/ Fails(t) PROVE Grown
    BY <2>3 DEF Nowhere, Fails, netVars, Rest
  <2>4. CASE Sending(c)
    <3>1. \/ Nowhere(c)
          \/ \E t \in Client : Takes(c, t) \/ Fails(t)
      BY <2>4 DEF Sending, SendToTarget, SendToAny, RerouteToAny, UnitsIn, In
    <3>2. QED
      BY <2>2, <2>3, <3>1
  <2>5. CASE CopyToMonitors(c)
    <3>1. UNCHANGED seen /\ doing[c].msg \in Package
      BY <1>0, <2>5 DEF CopyToMonitors
    <3>2. inbox'[m] = inbox[m] \/ inbox'[m] = Append(inbox[m], doing[c].msg)
      BY <1>0, <2>5, <3>1, ToAllTypes DEF CopyToMonitors
    <3>3. QED
      BY <3>1, <3>2
  <2>6. QED
    BY <1>5, <2>1, <2>4, <2>5 DEF Callback, Receiving, Sending, CallbackBreaks
<1>6. ASSUME NEW n \in script, Send(n) PROVE Grown
  BY <1>6 DEF Send
<1>7. CASE Console
  <2>1. ASSUME NEW cs, NEW failed, NEW t \in TypeNames,
               ToAll(cs, failed, Message(t, "console", NoUuid, NoUuid)), UNCHANGED seen
        PROVE  Grown
    <3>1. Message(t, "console", NoUuid, NoUuid) \in Package
      BY ConsolePackages
    <3>2. inbox'[m] \in {inbox[m], Append(inbox[m], Message(t, "console", NoUuid, NoUuid))}
      BY <1>0, <2>1, <3>1, ToAllTypes
    <3>3. QED
      BY <2>1, <3>1, <3>2
  <2>2. CASE TypeText
    <3>1. /\ \E cs, failed : ToAll(cs, failed, Message("Text", "console", NoUuid, NoUuid))
          /\ UNCHANGED seen
      BY <2>2 DEF TypeText, logVars
    <3>2. QED
      BY <2>1, <3>1, Names
  <2>3. CASE TypeWork
    <3>1. /\ \E cs, failed : ToAll(cs, failed, Message("Work", "console", NoUuid, NoUuid))
          /\ UNCHANGED seen
      BY <2>3 DEF TypeWork, logVars
    <3>2. QED
      BY <2>1, <3>1, Names
  <2>4. CASE TypeClear \/ ConsoleBreaks \/ \E k \in 1..3 : TypeSplit(k)
    <3>1. UNCHANGED <<inbox, seen>>
      BY <2>4 DEF TypeClear, ConsoleBreaks, TypeSplit, Break, netVars, logVars
    <3>2. QED
      BY <1>1, <3>1
  <2>5. QED
    BY <1>7, <2>2, <2>3, <2>4 DEF Console
<1>. HIDE DEF Grown
<1>8. CASE Next
  BY <1>2, <1>3, <1>4, <1>5, <1>6, <1>7, <1>8 DEF Next
<1>9. CASE UNCHANGED vars
  BY <1>1, <1>9 DEF vars, netVars, logVars
<1>10. QED
  BY <1>8, <1>9

\* A copy that is to be made is made, and nothing else becomes of it.
LEMMA CopyingRemains ==
    ASSUME TypeOK, [Next]_vars, NEW c \in Client, doing[c].step = "copy"
    PROVE  doing'[c] = doing[c] \/ CopyToMonitors(c)
<1>0. doing \in [Client -> [step : Steps, to : Uuid, msg : Package]] /\ doing[c] # Idle
  BY DEF TypeOK, Idle
<1>1. CASE UNCHANGED doing
  BY <1>1
<1>2. ASSUME NEW d \in Client, d # c, NEW x, Do(d, x) PROVE doing'[c] = doing[c]
  BY <1>0, <1>2 DEF Do
<1>3. ASSUME NEW d \in Client, Callback(d) PROVE doing'[c] = doing[c] \/ CopyToMonitors(c)
  <2>1. CASE Receiving(d) \/ AnswerRequest(d)
    <3>1. doing[d] = Idle
      BY <2>1 DEF Receiving, ForwardText, ForwardConfig, ForwardFinished, ForwardWork,
                  RerouteWork, DropTask, AnswerRequest, Receives
    <3>2. UNCHANGED doing \/ \E x : Do(d, x)
      BY <2>1 DEF Receiving, ForwardText, ForwardConfig, ForwardFinished, ForwardWork,
                  RerouteWork, DropTask, AnswerRequest, LookUp, Dropped
    <3>3. QED
      BY <1>0, <1>1, <1>2, <3>1, <3>2
  <2>2. CASE Sending(d)
    <3>1. doing[d].step \in {"to", "any", "reroute"}
      BY <2>2 DEF Sending, SendToTarget, SendToAny, RerouteToAny
    <3>2. UNCHANGED doing \/ \E x : Do(d, x)
      BY <2>2 DEF Sending, SendToTarget, SendToAny, RerouteToAny, Takes, Nowhere, Copying
    <3>3. QED
      BY <1>1, <1>2, <3>1, <3>2
  <2>3. CASE CopyToMonitors(d)
    <3>1. Do(d, Idle)
      BY <2>3 DEF CopyToMonitors
    <3>2. QED
      BY <1>2, <2>3, <3>1
  <2>4. CASE Break
    BY <1>1, <2>4 DEF Break
  <2>5. QED
    BY <1>3, <2>1, <2>2, <2>3, <2>4 DEF Callback, Receiving, Sending, CallbackBreaks
<1>4. ASSUME NEW d \in Client,
             Connecting(d) \/ Leave(d) \/ ReceiverEnds(d) \/ Drained(d)
             \/ GarbleAtBroker(d) \/ Reading(d)
      PROVE  UNCHANGED doing
  BY <1>4 DEF Connecting, Connect, Answer, Discard, GreetingBreaks, Enter, Leave,
              ReceiverEnds, Drained, GarbleAtBroker, Break,
              Reading, Compute, Garble, Hear, Watch, Pass
<1>5. ASSUME NEW n \in script, Send(n) PROVE UNCHANGED doing
  BY <1>5 DEF Send
<1>6. CASE Console
  BY <1>1, <1>6 DEF Console, TypeText, TypeWork, TypeClear, ConsoleBreaks, TypeSplit, Break
<1>7. CASE Next
  BY <1>1, <1>3, <1>4, <1>5, <1>6, <1>7 DEF Next
<1>8. CASE UNCHANGED vars
  BY <1>1, <1>8 DEF vars
<1>9. QED
  BY <1>7, <1>8

\* What a monitor that stays, and whose stream is whole, was told, or is to be,
\* stays told.
LEMMA ToldRemains ==
    ASSUME TypeOK, [Next]_vars, NEW m \in Monitor, m \in In \cap up, m \in up',
           m \notin torn', NEW t, NEW i, Told(m, t, i)
    PROVE  Told(m, t, i)'
<1>0. /\ inbox \in [Client -> Seq(Package)] /\ m \in Client
      /\ doing \in [Client -> [step : Steps, to : Uuid, msg : Package]]
  BY ScriptTypes DEF TypeOK
<1>1. CASE <<t, i>> \in Copies(m)
  BY <1>1, CopiesRemain DEF Told
<1>2. ASSUME NEW c \in Client, doing[c].step = "copy",
             doing[c].msg.type = t, doing[c].msg.id = i
      PROVE  Told(m, t, i)'
  <2>1. CASE doing'[c] = doing[c]
    <3>1. IsCopied(t, i)'
      BY <1>2, <2>1 DEF IsCopied
    <3>2. QED
      BY <3>1 DEF Told
  <2>2. CASE CopyToMonitors(c)
    <3>1. inbox'[m] = Append(inbox[m], doing[c].msg) /\ doing[c].msg \in Package
      <4>1. doing[c].msg \in Package /\ ToAll(MonitorsIn, {}, doing[c].msg) /\ m \in MonitorsIn
        BY <1>0, <2>2 DEF CopyToMonitors, MonitorsIn
      <4>2. QED
        BY <1>0, <4>1, ToAllTypes
    <3>2. doing[c].msg \in Elems(inbox'[m])
      BY <1>0, <3>1, Queued
    <3>3. Copies(m)' = seen'[m] \cup {<<n.type, n.id>> : n \in Elems(inbox'[m])}
      BY CopiesAre DEF Copies, Elems
    <3>4. <<t, i>> \in Copies(m)'
      BY <1>2, <3>2, <3>3
    <3>5. QED
      BY <3>4 DEF Told
  <2>3. QED
    BY <1>2, <2>1, <2>2, CopyingRemains
<1>3. QED
  BY <1>1, <1>2 DEF Told, IsCopied

\* Who is given an item is given it by a callback that goes on to copy it.
LEMMA GivenIsTold ==
    ASSUME TypeOK, [Next]_vars, NEW i \in Items,
           given[i] \cap Client = {}, given'[i] \cap Client # {}
    PROVE  IsCopied("Work", i)'
<1>0. /\ given \in [Ids -> SUBSET (Client \cup {Nobody})] /\ i \in Ids
      /\ doing \in [Client -> [step : Steps, to : Uuid, msg : Package]]
      /\ Nobody \notin Client
  BY ScriptTypes, ProgramsDiffer DEF TypeOK
<1>1. ~UNCHANGED given
  OBVIOUS
<1>2. ASSUME NEW msg, Gave(msg, Nobody) PROVE FALSE
  <2>1. given'[i] \subseteq given[i] \cup {Nobody}
    BY <1>0, <1>2 DEF Gave
  <2>2. QED
    BY <1>0, <2>1
<1>3. ASSUME NEW c \in Client, NEW t \in Client, Takes(c, t) PROVE IsCopied("Work", i)'
  <2>1. Gave(doing[c].msg, t) /\ Copying(c)
    BY <1>3 DEF Takes, Deliver
  <2>2. doing[c].msg.type = "Work" /\ doing[c].msg.id = i
    BY <1>0, <2>1 DEF Gave
  <2>3. doing'[c].step = "copy" /\ doing'[c].msg = doing[c].msg
    BY <1>0, <2>1 DEF Copying, Do, Doing
  <2>4. QED
    BY <2>2, <2>3 DEF IsCopied
<1>4. ASSUME NEW c \in Client, Callback(c) PROVE IsCopied("Work", i)'
  <2>1. CASE Receiving(c) \/ AnswerRequest(c)
    BY <1>1, <1>2, <2>1 DEF Receiving, ForwardText, ForwardConfig, ForwardFinished,
       ForwardWork, RerouteWork, DropTask, AnswerRequest, LookUp, Dropped
  <2>2. CASE Sending(c)
    <3>1. \/ Nowhere(c)
          \/ \E t \in Client : Takes(c, t) \/ Fails(t)
      BY <2>2 DEF Sending, SendToTarget, SendToAny, RerouteToAny, UnitsIn, In
    <3>2. QED
      BY <1>1, <1>2, <1>3, <3>1 DEF Nowhere, Fails
  <2>3. CASE CopyToMonitors(c) \/ Break
    BY <1>1, <2>3 DEF CopyToMonitors, Break, logVars
  <2>4. QED
    BY <1>4, <2>1, <2>2, <2>3 DEF Callback, Receiving, Sending, CallbackBreaks
<1>5. ASSUME NEW c \in Client,
             Connecting(c) \/ Leave(c) \/ ReceiverEnds(c) \/ Drained(c)
             \/ GarbleAtBroker(c) \/ Reading(c)
      PROVE  UNCHANGED given
  BY <1>5 DEF Connecting, Connect, Answer, Discard, GreetingBreaks, Enter, Leave,
              ReceiverEnds, Drained, GarbleAtBroker, Break,
              Reading, Compute, Garble, Hear, Watch, Pass, logVars
<1>6. ASSUME NEW n \in script, Send(n) PROVE UNCHANGED given
  BY <1>6 DEF Send
<1>7. CASE Console
  BY <1>1, <1>7 DEF Console, TypeText, TypeWork, TypeClear, ConsoleBreaks, TypeSplit,
                    Break, logVars
<1>8. CASE Next
  BY <1>1, <1>4, <1>5, <1>6, <1>7, <1>8 DEF Next
<1>9. CASE UNCHANGED vars
  BY <1>1, <1>9 DEF vars, logVars
<1>10. QED
  BY <1>8, <1>9

\* An answer reaches its planner from a callback that goes on to copy it.
LEMMA ReachedIsTold ==
    ASSUME BrokerInv, [Next]_vars, NEW i \in Items, ~Reached(i), Reached(i)'
    PROVE  IsCopied("TaskFinished", i)'
<1>a. PICK p : p = Item(i).from
  OBVIOUS
<1>0. /\ TypeOK /\ Sessions /\ ItemInv(i)
      /\ p \in Planner /\ p \in Client /\ p \notin Monitor /\ p \notin Computes
      /\ inbox \in [Client -> Seq(Package)] /\ heard \in [Planner -> Seq(Package)]
      /\ doing \in [Client -> [step : Steps, to : Uuid, msg : Package]]
  BY <1>a, ItemFacts, ProgramsDiffer DEF BrokerInv, TypeOK
<1>1. /\ ~Has(inbox[p], i) /\ ~Has(heard[p], i)
      /\ Has(inbox'[p], i) \/ Has(heard'[p], i)
  BY <1>a DEF Reached, Has, Elems
<1>2. CASE inbox'[p] = inbox[p] /\ heard'[p] = heard[p]
  BY <1>1, <1>2
<1>3. CASE Still(i)
  BY <1>0, <1>1, <1>3, HasWithin DEF Still
<1>4. ASSUME NEW c \in Client, Reading(c) PROVE FALSE
  <2>1. CASE Compute(c)
    <3>1. c # p /\ Read(c) /\ UNCHANGED heard
      BY <1>0, <2>1 DEF Compute
    <3>2. QED
      BY <1>0, <1>2, <3>1, <1>1 DEF Read
  <2>2. CASE Hear(c)
    <3>1. /\ inbox[c] # <<>> /\ Read(c) /\ c \in Planner
          /\ heard' = [heard EXCEPT ![c] = Append(heard[c], Head(inbox[c]))]
      BY <2>2 DEF Hear
    <3>2. Within(inbox'[p], inbox[p], i) /\ (c = p => Head(inbox[p]) \in Elems(inbox[p]))
      BY <1>0, <3>1, ReadTypes, WithinItself
    <3>3. Has(heard'[p], i)
      BY <1>1, <3>2, HasWithin
    <3>4. c = p /\ heard'[p] = Append(heard[p], Head(inbox[p]))
      BY <1>0, <1>1, <3>1, <3>3
    <3>5. Head(inbox[p]).id # i /\ Head(inbox[p]) \in Package
      BY <1>0, <1>1, <3>1, <3>2, <3>4, ReadTypes DEF Has
    <3>6. Within(heard'[p], heard[p], i)
      BY <1>0, <3>4, <3>5, Queued
    <3>7. QED
      BY <1>1, <3>3, <3>6, HasWithin
  <2>3. CASE Garble(c) \/ Watch(c) \/ Pass(c)
    BY <1>0, <1>1, <2>3, QuietStill, HasWithin DEF Still
  <2>4. QED
    BY <1>4, <2>1, <2>2, <2>3 DEF Reading
<1>5. ASSUME NEW c \in Client, NEW t \in Client, Takes(c, t),
             \/ doing[c].step = "to" /\ t = doing[c].to
             \/ doing[c].step \in {"any", "reroute"} /\ t \in UnitsIn
      PROVE  IsCopied("TaskFinished", i)'
  <2>1. /\ Deliver(t, doing[c].msg) /\ Copying(c) /\ UNCHANGED heard /\ doing[c].msg \in Package
    BY <1>0, <1>5 DEF Takes, Rest
  <2>2. /\ \A d \in Client \ {t} : inbox'[d] = inbox[d]
        /\ inbox'[t] \in {inbox[t], Append(inbox[t], doing[c].msg)}
    BY <1>0, <2>1, DeliverTypes
  <2>3. t = p /\ inbox'[p] = Append(inbox[p], doing[c].msg)
    BY <1>0, <1>1, <2>1, <2>2
  <2>4. doing[c].msg.id = i
    <3>1. CASE doing[c].msg.id # i
      <4>1. Within(inbox'[p], inbox[p], i)
        BY <1>0, <2>1, <2>3, <3>1, Queued
      <4>2. QED
        BY <1>1, <2>1, <4>1, HasWithin
    <3>2. QED
      BY <3>1
  <2>5. HandSays(c, i)
    <3>1. At("hand", c, i) /\ "hand" \in Place
      BY <1>5, <2>4 DEF At, Place, InHand, Active
    <3>2. QED
      BY <1>0, <3>1, Alone DEF Says
  <2>6. ~IsWork(doing[c].msg, i)
    <3>1. SUFFICES ASSUME IsWork(doing[c].msg, i) PROVE FALSE
      OBVIOUS
    <3>2. doing[c].msg.tgt = Item(i).tgt /\ doing[c].msg.type = "Work"
      BY <3>1 DEF IsWork, Message
    <3>3. CASE doing[c].step # "to"
      BY <1>0, <1>5, <2>3, <3>3 DEF UnitsIn
    <3>4. CASE doing[c].step = "to"
      <4>1. Item(i).tgt # NoUuid /\ Named(p, Item(i).tgt)
        BY <1>5, <2>3, <2>5, <3>2, <3>4 DEF HandSays, IsAnswer
      <4>2. session[p] \in {p, NoUuid} /\ session[p] = Item(i).tgt
        BY <1>0, <4>1 DEF Sessions, Named
      <4>3. p \in Unit
        BY <4>1, <4>2, ItemFacts
      <4>4. QED
        BY <1>0, <4>3 DEF Computes
    <3>5. QED
      BY <3>3, <3>4
  <2>7. doing[c].msg.type = "TaskFinished"
    BY <2>5, <2>6 DEF HandSays, IsAnswer
  <2>8. doing'[c].step = "copy" /\ doing'[c].msg = doing[c].msg
    BY <1>0, <2>1 DEF Copying, Do, Doing
  <2>9. QED
    BY <2>4, <2>7, <2>8 DEF IsCopied
<1>6. ASSUME NEW c \in Client, Callback(c) PROVE IsCopied("TaskFinished", i)'
  <2>1. CASE Receiving(c) \/ AnswerRequest(c)
    BY <1>2, <2>1 DEF Receiving, ForwardText, ForwardConfig, ForwardFinished, ForwardWork,
       RerouteWork, DropTask, Unmoved, AnswerRequest
  <2>2. CASE SendToTarget(c)
    <3>1. doing[c].step = "to" /\ doing[c].to \in Client
      BY <2>2 DEF SendToTarget, In
    <3>2. Takes(c, doing[c].to) \/ Fails(doing[c].to)
      BY <2>2 DEF SendToTarget
    <3>3. QED
      BY <1>2, <1>5, <3>1, <3>2 DEF Fails, netVars, Rest
  <2>3. CASE SendToAny(c) \/ RerouteToAny(c)
    <3>1. /\ doing[c].step \in {"any", "reroute"} /\ UnitsIn \subseteq Client
          /\ Nowhere(c) \/ \E t \in UnitsIn : Takes(c, t) \/ Fails(t)
      BY <2>3 DEF SendToAny, RerouteToAny, UnitsIn, In
    <3>2. QED
      BY <1>2, <1>5, <3>1 DEF Fails, Nowhere, netVars, Rest
  <2>4. CASE CopyToMonitors(c) \/ Break
    BY <1>0, <1>3, <2>4, QuietStill
  <2>5. QED
    BY <1>6, <2>1, <2>2, <2>3, <2>4 DEF Callback, Receiving, CallbackBreaks
<1>7. ASSUME NEW c \in Client, Connecting(c) \/ Leave(c) \/ ReceiverEnds(c)
                               \/ Drained(c) \/ GarbleAtBroker(c)
      PROVE  Still(i)
  BY <1>0, <1>7, QuietStill
<1>8. ASSUME NEW n \in script, Send(n) PROVE UNCHANGED <<inbox, heard>>
  BY <1>8 DEF Send
<1>9. CASE Console
  BY <1>0, <1>3, <1>9, ConsoleStill
<1>10. CASE Next
  BY <1>2, <1>3, <1>4, <1>6, <1>7, <1>8, <1>9, <1>10 DEF Next
<1>11. CASE UNCHANGED vars
  BY <1>2, <1>11 DEF vars, netVars, logVars
<1>12. QED
  BY <1>10, <1>11

\* Who watches an item is settled when it is sent, before anybody has been given it.
LEMMA WatchingIsSet ==
    ASSUME BrokerInv, [Next]_vars, NEW i \in Items, watching'[i] # watching[i]
    PROVE  watching'[i] = MonitorsIn /\ given'[i] = {} /\ ~Reached(i)'
<1>1. PICK n \in script : Send(n)
  <2>1. ~UNCHANGED watching
    OBVIOUS
  <2>2. ASSUME NEW c \in Client, Callback(c) PROVE UNCHANGED watching
    <3>1. CASE Receiving(c) \/ AnswerRequest(c)
      BY <3>1 DEF Receiving, ForwardText, ForwardConfig, ForwardFinished, ForwardWork,
                  RerouteWork, DropTask, Unmoved, AnswerRequest
    <3>2. CASE Sending(c)
      <4>1. \/ Nowhere(c)
            \/ \E t \in Client : Takes(c, t) \/ Fails(t)
        BY <3>2 DEF Sending, SendToTarget, SendToAny, RerouteToAny, UnitsIn, In
      <4>2. QED
        BY <4>1 DEF Nowhere, Takes, Fails, Rest
    <3>3. CASE CopyToMonitors(c) \/ Break
      BY <3>3 DEF CopyToMonitors, Break, logVars
    <3>4. QED
      BY <2>2, <3>1, <3>2, <3>3 DEF Callback, Receiving, Sending, CallbackBreaks
  <2>3. ASSUME NEW c \in Client,
               Connecting(c) \/ Leave(c) \/ ReceiverEnds(c) \/ Drained(c)
               \/ GarbleAtBroker(c) \/ Reading(c)
        PROVE  UNCHANGED watching
    BY <2>3 DEF Connecting, Connect, Answer, Discard, GreetingBreaks, Enter, Leave,
                ReceiverEnds, Drained, GarbleAtBroker, Break,
                Reading, Compute, Garble, Hear, Watch, Pass, logVars
  <2>4. CASE Console
    BY <2>1, <2>4 DEF Console, TypeText, TypeWork, TypeClear, ConsoleBreaks, TypeSplit,
                      Break, logVars
  <2>5. CASE UNCHANGED vars
    BY <2>1, <2>5 DEF vars, logVars
  <2>6. CASE Next
    BY <2>1, <2>2, <2>3, <2>4, <2>6 DEF Next
  <2>7. QED
    BY <2>5, <2>6
<1>2. /\ ItemInv(i) /\ script \subseteq AllMessages /\ i \in Ids
      /\ watching \in [Ids -> SUBSET Monitor]
  BY ItemFacts DEF BrokerInv, TypeOK
<1>3. n.id = i /\ watching'[i] = MonitorsIn
  BY <1>1, <1>2 DEF Send
<1>4. n = Item(i)
  BY <1>2, <1>3, ItemFacts
<1>5. At("script", Item(i).from, i) /\ "script" \in Place /\ Item(i).from \in Client
      /\ Item(i).from \in Planner \ Monitor
  BY <1>4, ItemFacts, ProgramsDiffer DEF At, Place
<1>6. given[i] = {} /\ ~Reached(i)
  <2>1. Says("script", Item(i).from, i)
    BY <1>2, <1>5, Alone
  <2>2. ~Has(inbox[Item(i).from], i) /\ ~Has(heard[Item(i).from], i)
    BY <1>2, <1>5, Alone
  <2>3. QED
    BY <2>1, <2>2 DEF Says, Reached
<1>7. UNCHANGED <<inbox, heard, given>>
  BY <1>1 DEF Send
<1>8. QED
  BY <1>3, <1>6, <1>7 DEF Reached, Has, Elems

\* FollowInv is inductive, given BrokerInv.
LEMMA NextFollow == BrokerInv /\ FollowInv /\ [Next]_vars => FollowInv'
<1>. SUFFICES ASSUME BrokerInv, FollowInv, [Next]_vars, NEW i \in Items, NEW m \in watching'[i]
              PROVE  /\ Known(m)'
                     /\ m \in (In' \cap up') \ torn' =>
                            /\ given'[i] \cap Client # {} => Told(m, "Work", i)'
                            /\ Reached(i)' => Told(m, "TaskFinished", i)'
  BY DEF FollowInv
<1>1. /\ TypeOK /\ Settled /\ i \in Ids
      /\ watching \in [Ids -> SUBSET Monitor]
  BY StaysSettled, ItemFacts DEF BrokerInv, TypeOK
<1>2. CASE watching'[i] # watching[i]
  <2>1. watching'[i] = MonitorsIn /\ given'[i] = {} /\ ~Reached(i)'
    BY <1>2, WatchingIsSet
  <2>2. m \in Client /\ Known(m)
    BY <2>1 DEF MonitorsIn, In, Known
  <2>3. QED
    BY <1>1, <2>1, <2>2 DEF Settled
<1>3. CASE watching'[i] = watching[i]
  <2>1. m \in Monitor /\ m \in Client /\ Known(m)
    BY <1>1, <1>3, ScriptTypes DEF FollowInv
  <2>2. /\ Known(m)' /\ (m \in In' => m \in In) /\ (m \in up' => m \in up)
        /\ m \notin torn' => m \notin torn
    BY <1>1, <2>1, TornGrows DEF Settled
  <2>3. ASSUME m \in In', m \in up', m \notin torn', given'[i] \cap Client # {}
        PROVE  Told(m, "Work", i)'
    <3>1. CASE given[i] \cap Client # {}
      <4>1. Told(m, "Work", i)
        BY <1>3, <2>2, <2>3, <3>1 DEF FollowInv
      <4>2. QED
        BY <1>1, <2>1, <2>2, <2>3, <4>1, ToldRemains
    <3>2. CASE given[i] \cap Client = {}
      BY <1>1, <2>3, <3>2, GivenIsTold DEF Told
    <3>3. QED
      BY <3>1, <3>2
  <2>4. ASSUME m \in In', m \in up', m \notin torn', Reached(i)'
        PROVE  Told(m, "TaskFinished", i)'
    <3>1. CASE Reached(i)
      <4>1. Told(m, "TaskFinished", i)
        BY <1>3, <2>2, <2>4, <3>1 DEF FollowInv
      <4>2. QED
        BY <1>1, <2>1, <2>2, <2>4, <4>1, ToldRemains
    <3>2. CASE ~Reached(i)
      BY <2>4, <3>2, ReachedIsTold DEF Told
    <3>3. QED
      BY <3>1, <3>2
  <2>5. QED
    BY <2>2, <2>3, <2>4
<1>4. QED
  BY <1>2, <1>3

\* However sends are retried and receivers interleaved, a monitor that was there
\* when work was sent, and still is, with no send to it cut, has had both the work
\* and the answer its planner heard, as soon as no callback is running.
THEOREM MonitorsAreTold == Spec => []MonitorsFollow
<1>1. Init => FollowInv
  <2>1. Init => \A i \in Items : watching[i] = {}
    BY ItemFacts DEF Init
  <2>2. QED
    BY <2>1 DEF FollowInv
<1>2. BrokerInv /\ FollowInv => MonitorsFollow
  <2>. SUFFICES ASSUME BrokerInv, FollowInv, Quiet, NEW i \in Items, NEW p \in Planner,
                       Answers(p, i) # {}, NEW m \in (watching[i] \cap In \cap up) \ torn
                PROVE  {<<"Work", i>>, <<"TaskFinished", i>>} \subseteq Copies(m)
    BY DEF MonitorsFollow
  <2>1. PICK k \in Answers(p, i) : TRUE
    OBVIOUS
  <2>2. IsAnswer(heard[p][k], i) /\ p = Item(i).from /\ Has(heard[p], i)
    BY <2>1, HeardAnswers
  <2>3. Reached(i) /\ given[i] \cap Client # {}
    BY <2>2 DEF Reached, IsAnswer, Client
  <2>4. Told(m, "Work", i) /\ Told(m, "TaskFinished", i)
    BY <2>3 DEF FollowInv
  <2>5. \A t : ~IsCopied(t, i)
    BY DEF Quiet, IsCopied, Idle
  <2>6. QED
    BY <2>4, <2>5 DEF Told
<1>3. BrokerInv /\ FollowInv /\ [Next]_vars => (BrokerInv /\ FollowInv)'
  BY NextItems, NextFollow
<1>4. Init => BrokerInv /\ FollowInv
  BY <1>1, InitItems
<1>5. QED
  BY <1>2, <1>3, <1>4, PTL DEF Spec
=============================================================================
