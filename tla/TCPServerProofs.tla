-------------------------- MODULE TCPServerProofs --------------------------
(***************************************************************************)
(* Proofs about TCPServer for every number of connections, descriptors and *)
(* uuids.  ServerInv is inductive for every server; ServingInv, on top of  *)
(* it, for one whose callbacks do not send to other clients, which is what *)
(* DBServer's do.                                                          *)
(***************************************************************************)
EXTENDS TCPServer, SequenceTheorems, FiniteSetTheorems, TLAPS

Pending == accepting \notin {"accept", "stopped", "exit"}
Unregistered == accepting \in {"answer", "probe", "renew", "register"}

\* A thread that releases an info, and one that has found nobody to join, or joined.
Releasing(x) == at[x] \in {"test", "join", "delete", "closeTest", "closeJoin", "closeDelete"}
Deleting(x) == at[x] \in {"delete", "closeDelete"}
Runs(c) == at[c] \notin {"none", "ended"}

\* The handshake is about a connection that has a handle, and no receiver before it
\* starts one.
PendingIsNew ==
    Pending => cur \in Conn /\ fd[cur] # 0 /\ (accepting # "store" => at[cur] = "none")

\* A thread that sends, removes or releases does so to some info.
TargetsAreInfos ==
    \A x \in Thread : Releasing(x) \/ at[x] \in {"send", "remove"} => target[x] \in Conn

\* A receiver is started after accept gave the handle.
ReceiversHaveHandles == \A c \in Conn : fd[c] = 0 => at[c] = "none"

\* What has been registered is accepted and never again before its registration.
Known(c) == fd[c] # 0 /\ ~(Unregistered /\ cur = c)

OnlyKnownAreReleased ==
    /\ \A c \in Registered : Known(c)
    /\ \A x \in Thread : Releasing(x) => Known(target[x])

\* A receiver that runs is stored, or the accept thread is about to store it.
RunningAreStored == \A c \in Conn : Runs(c) => c \in receiver \/ InHand(c)

\* No receiver of this info runs, nor ever will.
Settled(c) ==
    at[c] = "ended" \/ (at[c] = "none" /\ fd[c] # 0 /\ ~(Pending /\ cur = c))

\* An info is deleted, and about to be, when it is settled or its release was early.
DeletedAreSettled ==
    /\ \A x \in Thread : Deleting(x) => Settled(target[x]) \/ target[x] \in early
    /\ \A c \in freed : Settled(c) \/ c \in early

ServerInv ==
    /\ TypeOK
    /\ PendingIsNew
    /\ TargetsAreInfos
    /\ ReceiversHaveHandles
    /\ OnlyKnownAreReleased
    /\ RunningAreStored
    /\ DeletedAreSettled

-----------------------------------------------------------------------------
(* ServerInv is inductive.                                                 *)

\* Cutting an element out of a vector leaves a vector, with some of the others.
LEMMA WithoutIsSeq ==
    ASSUME NEW p \in 1..Len(clientMap), clientMap \in Seq(Conn)
    PROVE  /\ Without(p) \in Seq(Conn)
           /\ \A i \in 1..Len(Without(p)) : Without(p)[i] \in Registered
<1>1. Len(clientMap) \in Nat /\ clientMap \in [1..Len(clientMap) -> Conn]
  BY LenProperties
<1>2. Len(clientMap) - 1 \in Nat
  BY <1>1
<1>3. Without(p) \in [1..(Len(clientMap) - 1) -> Conn]
  BY <1>1 DEF Without
<1>4. Without(p) \in Seq(Conn)
  BY <1>2, <1>3, SeqDef
<1>5. \A i \in 1..(Len(clientMap) - 1) : Without(p)[i] \in Registered
  BY <1>1 DEF Without, Registered
<1>6. DOMAIN Without(p) = 1..(Len(clientMap) - 1) /\ DOMAIN Without(p) = 1..Len(Without(p))
  BY <1>3, <1>4, LenProperties
<1>7. QED
  BY <1>4, <1>5, <1>6

\* The members of the vector.
LEMMA RegisteredIsConn ==
    ASSUME clientMap \in Seq(Conn)
    PROVE  Registered \subseteq Conn /\ Len(clientMap) \in Nat
BY ElementOfSeq, LenProperties DEF Registered

\* What push_back does to the set of the registered clients.
LEMMA RegisteredAppend ==
    ASSUME clientMap \in Seq(Conn), NEW c \in Conn, clientMap' = Append(clientMap, c)
    PROVE  /\ Registered' = Registered \cup {c}
           /\ Len(clientMap) \in Nat
           /\ Len(clientMap') = Len(clientMap) + 1
           /\ \A i \in 1..Len(clientMap) : clientMap'[i] = clientMap[i]
           /\ clientMap'[Len(clientMap) + 1] = c
<1>1. /\ Len(clientMap) \in Nat
      /\ Len(clientMap') = Len(clientMap) + 1
      /\ \A i \in 1..Len(clientMap) : clientMap'[i] = clientMap[i]
      /\ clientMap'[Len(clientMap) + 1] = c
  BY LenProperties, AppendProperties
<1>2. 1..(Len(clientMap) + 1) = 1..Len(clientMap) \cup {Len(clientMap) + 1}
  BY <1>1
<1>3. QED
  BY <1>1, <1>2 DEF Registered

\* ServerInv holds before the server is started.
LEMMA InitInv == Init => ServerInv
<1>. SUFFICES ASSUME Init PROVE ServerInv
  OBVIOUS
<1>. USE MainIsNoConn, UuidOfType, FdType DEF Init
<1>1. TypeOK
  <2>1. clientMap \in Seq(Conn)
    BY EmptySeq
  <2>2. QED
    BY <2>1 DEF TypeOK, Thread, AcceptPc, ReceiverPc, MainPc
<1>2. PendingIsNew
  BY DEF PendingIsNew, Pending
<1>3. Registered = {}
  BY DEF Registered
<1>4. \A x \in Thread : at[x] \in {"idle", "none"}
  BY DEF Thread
<1>5. TargetsAreInfos /\ OnlyKnownAreReleased /\ DeletedAreSettled
  BY <1>3, <1>4 DEF TargetsAreInfos, OnlyKnownAreReleased, DeletedAreSettled, Releasing, Deleting
<1>6. ReceiversHaveHandles /\ RunningAreStored
  BY DEF ReceiversHaveHandles, RunningAreStored, Runs, Thread
<1>7. QED
  BY <1>1, <1>2, <1>5, <1>6 DEF ServerInv

\* Undefined behaviour is the end of the model's process: nothing moves.
LEMMA BreakInv == ASSUME ServerInv, Break PROVE ServerInv'
<1>1. UNCHANGED <<up, fd, uuid, abort, receiver, freed, owner, clientMap, clientUuidMap,
                  cl_mutex, accepting, cur, at, target, swept, globalAbort, early>>
      /\ fault' = TRUE
  BY DEF Break, infoVars, mapVars, acceptVars, threadVars, closeVars
<1>2. TypeOK'
  BY <1>1 DEF ServerInv, TypeOK
<1>3. QED
  BY <1>1, <1>2 DEF ServerInv, PendingIsNew, Pending, TargetsAreInfos, ReceiversHaveHandles,
       OnlyKnownAreReleased, Known, Unregistered, Registered, RunningAreStored, InHand,
       DeletedAreSettled, Settled, Releasing, Deleting, Runs

\* A step of one thread that has been started: it goes to a label, with a target fit
\* for it.  Infos it deletes are settled, and receivers it forgets have ended.
LEMMA ThreadInv ==
    ASSUME ServerInv, TypeOK',
           NEW x \in Thread, NEW label, NEW t,
           at[x] \notin {"none", "ended"}, Goto(x, label, t), label # "none",
           UNCHANGED <<fd, accepting, cur>>,
           Registered' \subseteq Registered,
           early \subseteq early',
           receiver' \subseteq receiver, \A c \in receiver \ receiver' : at[c] = "ended",
           freed \subseteq freed', \A c \in freed' \ freed : Settled(c) \/ c \in early,
           label \in {"send", "remove"} => t \in Conn,
           label \in {"test", "join", "delete", "closeTest", "closeJoin", "closeDelete"}
                => t \in Conn /\ Known(t),
           label \in {"delete", "closeDelete"} => Settled(t) \/ t \in early'
    PROVE  ServerInv'
<1>. USE DEF ServerInv
<1>1. /\ \A y \in Thread : y # x => at'[y] = at[y] /\ target'[y] = target[y]
      /\ at'[x] = label /\ target'[x] = t
      /\ Main \in Thread /\ \A c \in Conn : c \in Thread
  BY DEF Goto, TypeOK, Thread
<1>2. \A c \in Conn : Known(c) => Known(c)'
  BY DEF Known, Unregistered
<1>3. \A c \in Conn : Settled(c) => Settled(c)'
  BY <1>1 DEF Settled, Pending
<1>4. PendingIsNew'
  BY <1>1 DEF PendingIsNew, Pending
<1>5. TargetsAreInfos'
  BY <1>1 DEF TargetsAreInfos, Releasing
<1>6. ReceiversHaveHandles'
  BY <1>1 DEF ReceiversHaveHandles
<1>7. OnlyKnownAreReleased'
  <2>1. Registered \subseteq Conn
    BY RegisteredIsConn DEF TypeOK
  <2>2. \A c \in Registered' : Known(c)'
    BY <1>2, <2>1 DEF OnlyKnownAreReleased
  <2>3. ASSUME NEW y \in Thread, Releasing(y)' PROVE Known(target[y])'
    BY <1>1, <1>2, <2>3 DEF Known, Unregistered, OnlyKnownAreReleased, Releasing, TargetsAreInfos
  <2>4. QED
    BY <2>2, <2>3 DEF OnlyKnownAreReleased
<1>8. RunningAreStored'
  BY <1>1 DEF RunningAreStored, Runs, InHand
<1>9. DeletedAreSettled'
  <2>1. \A c \in freed' : Settled(c)' \/ c \in early'
    BY <1>3 DEF DeletedAreSettled, TypeOK
  <2>2. ASSUME NEW y \in Thread, Deleting(y)'
        PROVE  (Settled(target[y]) \/ target[y] \in early)'
    <3>1. CASE y = x
      <4>1. t \in Conn /\ (Settled(t) \/ t \in early') /\ target'[y] = t
        BY <1>1, <2>2, <3>1 DEF Deleting
      <4>2. QED
        BY <1>3, <4>1 DEF Settled, Pending
    <3>2. CASE y # x
      <4>1. Deleting(y) /\ target[y] \in Conn /\ target'[y] = target[y]
        BY <1>1, <2>2, <3>2 DEF Deleting, Releasing, TargetsAreInfos
      <4>2. QED
        BY <1>3, <4>1 DEF DeletedAreSettled, Settled, Pending
    <3>3. QED
      BY <3>1, <3>2
  <2>3. QED
    BY <2>1, <2>2 DEF DeletedAreSettled
<1>10. QED
  BY <1>4, <1>5, <1>6, <1>7, <1>8, <1>9

\* A step of the accept thread that starts and stores no receiver, and deletes at most
\* the info it does not go on with.
LEMMA AcceptThreadInv ==
    ASSUME ServerInv, TypeOK',
           UNCHANGED <<fd, receiver, at, target>>,
           accepting # "store", accepting' # "store",
           \/ accepting' \in {"accept", "stopped", "exit"}
           \/ Pending /\ cur' = cur /\ (Unregistered' => Unregistered),
           \A c \in Registered' : c \in Registered \/ (c = cur /\ Pending /\ ~Unregistered'),
           early' = early,
           freed' = freed \/ (freed' = freed \cup {cur} /\ Pending /\ at[cur] = "none"
                              /\ accepting' \in {"accept", "stopped", "exit"})
    PROVE  ServerInv'
<1>. USE DEF ServerInv
<1>1. \A c \in Conn : Known(c) => Known(c)'
  BY DEF Known, Unregistered, Pending
<1>2. \A c \in Conn : Settled(c) => Settled(c)'
  BY DEF Settled, Pending
<1>3. PendingIsNew'
  BY DEF PendingIsNew, Pending
<1>4. TargetsAreInfos' /\ ReceiversHaveHandles'
  BY DEF TargetsAreInfos, ReceiversHaveHandles, Releasing
<1>5. OnlyKnownAreReleased'
  <2>1. \A c \in Registered' : c \in Conn /\ Known(c)'
    <3>1. Registered \subseteq Conn
      BY RegisteredIsConn DEF TypeOK
    <3>2. QED
      BY <1>1, <3>1 DEF OnlyKnownAreReleased, PendingIsNew, Known
  <2>2. \A x \in Thread : Releasing(x) => Known(target[x])'
    BY <1>1 DEF OnlyKnownAreReleased, TargetsAreInfos
  <2>3. QED
    BY <2>1, <2>2 DEF OnlyKnownAreReleased, Known, Unregistered, Releasing
<1>6. RunningAreStored'
  <2>1. ASSUME NEW c \in Conn, Runs(c) PROVE c \in receiver
    BY <2>1 DEF RunningAreStored, InHand, Runs, PendingIsNew, Pending
  <2>2. QED
    BY <2>1 DEF RunningAreStored, Runs
<1>7. DeletedAreSettled'
  <2>1. \A c \in freed' : Settled(c)' \/ c \in early
    <3>1. \A c \in freed : Settled(c)' \/ c \in early
      BY <1>2 DEF DeletedAreSettled, TypeOK
    <3>2. CASE freed' = freed
      BY <3>1, <3>2
    <3>3. CASE freed' # freed
      <4>1. \A c \in {cur} : Settled(c)'
        <5>1. Pending /\ cur \in Conn /\ fd[cur] # 0 /\ at[cur] = "none"
          BY <3>3 DEF PendingIsNew
        <5>2. ~Pending'
          BY <3>3 DEF Pending
        <5>3. \A c \in Conn : fd[c] # 0 /\ at[c] = "none" => Settled(c)'
          BY <5>2 DEF Settled
        <5>4. QED
          BY <5>1, <5>3
      <4>2. QED
        BY <3>1, <3>3, <4>1
    <3>4. QED
      BY <3>2, <3>3
  <2>2. \A x \in Thread : Deleting(x) => Settled(target[x])' \/ target[x] \in early
    BY <1>2 DEF DeletedAreSettled, TargetsAreInfos, Deleting, Releasing
  <2>3. QED
    BY <2>1, <2>2 DEF DeletedAreSettled, Deleting, Settled, Pending
<1>8. QED
  BY <1>3, <1>4, <1>5, <1>6, <1>7

\* accept makes an info whose handle was 0, so that it has no receiver.
LEMMA AcceptInv ==
    ASSUME ServerInv, NEW c \in Conn, Accept(c)
    PROVE  ServerInv'
<1>. USE FdType DEF Accept, ServerInv, mapVars, threadVars, closeVars
<1>1. PICK f \in Fd : /\ fd' = [fd EXCEPT ![c] = f]
                      /\ owner' = [owner EXCEPT ![f] = c]
  OBVIOUS
<1>2. f # 0 /\ at[c] = "none" /\ fd'[c] = f /\ cur' = c /\ accepting' = "answer"
  BY <1>1 DEF ReceiversHaveHandles, TypeOK
<1>3. \A d \in Conn : fd[d] # 0 => d # c /\ fd'[d] = fd[d]
  BY <1>1 DEF TypeOK
<1>4. \A d \in Conn : Known(d) => Known(d)'
  BY <1>2, <1>3 DEF Known
<1>5. \A d \in Conn : at[d] = "none" /\ fd[d] # 0 => Settled(d)'
  BY <1>2, <1>3 DEF Settled
<1>6. \A d \in Conn : Settled(d) => Settled(d)'
  BY <1>5 DEF Settled
<1>7. TypeOK'
  BY <1>1 DEF TypeOK, AcceptPc
<1>8. PendingIsNew'
  BY <1>2 DEF PendingIsNew
<1>9. TargetsAreInfos'
  BY DEF TargetsAreInfos, Releasing
<1>10. ReceiversHaveHandles'
  BY <1>1, <1>2 DEF ReceiversHaveHandles, TypeOK
<1>11. OnlyKnownAreReleased'
  <2>1. Registered' = Registered /\ Registered \subseteq Conn
    BY RegisteredIsConn DEF Registered, TypeOK
  <2>2. \A d \in Registered' : Known(d)'
    BY <1>4, <2>1 DEF OnlyKnownAreReleased
  <2>3. \A x \in Thread : Releasing(x) => target[x] \in Conn /\ Known(target[x])
    BY DEF OnlyKnownAreReleased, TargetsAreInfos
  <2>4. \A x \in Thread : Releasing(x)' => Releasing(x) /\ target'[x] = target[x]
    BY DEF Releasing
  <2>5. ASSUME NEW x \in Thread, Releasing(x)' PROVE Known(target[x])'
    BY <1>4, <2>3, <2>4, <2>5 DEF Known
  <2>6. QED
    BY <2>2, <2>5 DEF OnlyKnownAreReleased
<1>12. RunningAreStored'
  BY DEF RunningAreStored, Runs, InHand
<1>13. DeletedAreSettled'
  <2>1. \A d \in freed' : (Settled(d) \/ d \in early)'
    BY <1>6 DEF DeletedAreSettled, TypeOK
  <2>2. \A x \in Thread : Deleting(x) =>
            target[x] \in Conn /\ (Settled(target[x]) \/ target[x] \in early)
    BY DEF DeletedAreSettled, TargetsAreInfos, Deleting, Releasing
  <2>3. ASSUME NEW x \in Thread, Deleting(x)' PROVE (Settled(target[x]) \/ target[x] \in early)'
    <3>1. Deleting(x) /\ target'[x] = target[x]
      BY <2>3 DEF Deleting
    <3>2. QED
      BY <1>6, <2>2, <3>1 DEF Settled
  <2>4. QED
    BY <2>1, <2>3 DEF DeletedAreSettled
<1>14. QED
  BY <1>7, <1>8, <1>9, <1>10, <1>11, <1>12, <1>13

\* The steps of the accept thread before it starts a receiver.
LEMMA HandshakeInv ==
    ASSUME ServerInv,
           \/ StopAccepting \/ AcceptFails \/ NoAnswer \/ UnitAnswer \/ OtherAnswer
           \/ SegmentedAnswer \/ Probe \/ NoNewUuid \/ NoThread
           \/ \E u \in Uuid : NewUuid(u)
           \/ \E c \in Conn : AcceptLate(c)
    PROVE  ServerInv'
<1>. USE DEF infoVars, mapVars, threadVars, closeVars
<1>1. TypeOK'
  <2>1. CASE NoNewUuid
    BY <2>1 DEF NoNewUuid, Close, NextRound, ServerInv, TypeOK, AcceptPc, PendingIsNew, Pending
  <2>2. ASSUME NEW u \in Uuid, NewUuid(u) PROVE TypeOK'
    BY <2>2 DEF NewUuid, ServerInv, TypeOK, AcceptPc
  <2>3. ASSUME NEW c \in Conn, AcceptLate(c) PROVE TypeOK'
    BY <2>3 DEF AcceptLate, ServerInv, TypeOK, AcceptPc
  <2>4. CASE NoAnswer \/ OtherAnswer
    BY <2>4 DEF NoAnswer, OtherAnswer, Close, NextRound, ServerInv, TypeOK, AcceptPc
  <2>5. CASE StopAccepting \/ AcceptFails \/ UnitAnswer \/ SegmentedAnswer \/ Probe \/ NoThread
    BY <2>5 DEF StopAccepting, AcceptFails, UnitAnswer, SegmentedAnswer, Probe, NoThread,
         NextRound, ServerInv, TypeOK, AcceptPc
  <2>6. QED
    BY <2>1, <2>2, <2>3, <2>4, <2>5
<1>2. /\ UNCHANGED <<fd, receiver, at, target, clientMap, early>>
      /\ accepting # "store" /\ accepting' # "store"
      /\ \/ accepting' \in {"accept", "stopped", "exit"}
         \/ Pending /\ cur' = cur /\ (Unregistered' => Unregistered)
  BY DEF StopAccepting, AcceptFails, NoAnswer, UnitAnswer, OtherAnswer, SegmentedAnswer,
         Probe, NoNewUuid, NoThread, NewUuid, AcceptLate, NextRound, Pending, Unregistered
<1>3. freed' = freed \/ (freed' = freed \cup {cur} /\ Pending /\ at[cur] = "none"
                         /\ accepting' \in {"accept", "stopped", "exit"})
  BY DEF StopAccepting, AcceptFails, NoAnswer, UnitAnswer, OtherAnswer, SegmentedAnswer,
         Probe, NoNewUuid, NoThread, NewUuid, AcceptLate, NextRound, Pending, ServerInv,
         PendingIsNew
<1>4. Registered' = Registered
  BY <1>2 DEF Registered
<1>5. QED
  BY <1>1, <1>2, <1>3, <1>4, AcceptThreadInv

\* The registration.
LEMMA RegisterInv == ASSUME ServerInv, Register PROVE ServerInv'
<1>1. CASE Break
  BY <1>1, BreakInv
<1>2. CASE ~Break
  <2>1. /\ accepting = "register" /\ accepting' = "spawn"
        /\ clientMap' = Append(clientMap, cur)
        /\ clientUuidMap' = {p \in clientUuidMap : p[1] # uuid[cur]} \cup {<<uuid[cur], cur>>}
        /\ UNCHANGED <<up, fd, uuid, abort, receiver, freed, owner, cl_mutex, cur, at, target,
                       swept, globalAbort, fault, early>>
    BY <1>2 DEF Register, infoVars, threadVars, closeVars
  <2>2. cur \in Conn
    BY <2>1 DEF ServerInv, PendingIsNew, Pending
  <2>3. clientMap' \in Seq(Conn) /\ Registered' = Registered \cup {cur}
    BY <2>1, <2>2, AppendProperties, RegisteredAppend DEF ServerInv, TypeOK
  <2>4. TypeOK'
    BY <2>1, <2>2, <2>3 DEF ServerInv, TypeOK, AcceptPc
  <2>5. Pending /\ ~Unregistered'
    BY <2>1 DEF Pending, Unregistered
  <2>6. QED
    BY <2>1, <2>3, <2>4, <2>5, AcceptThreadInv
<1>3. QED
  BY <1>1, <1>2

\* A receiver begins to run before it is stored.
LEMMA StartInv == ASSUME ServerInv, Start PROVE ServerInv'
<1>. USE DEF ServerInv
<1>1. /\ accepting = "spawn" /\ accepting' = "store"
      /\ at' = [at EXCEPT ![cur] = "loop"] /\ target' = [target EXCEPT ![cur] = NoConn]
      /\ UNCHANGED <<up, fd, uuid, abort, receiver, freed, owner, clientMap, clientUuidMap,
                     cl_mutex, cur, swept, globalAbort, fault, early>>
  BY DEF Start, Goto, infoVars, mapVars, closeVars
<1>2. cur \in Conn /\ fd[cur] # 0 /\ at[cur] = "none" /\ Pending /\ Pending' /\ ~Unregistered'
  BY <1>1 DEF PendingIsNew, Pending, Unregistered
<1>3. /\ at'[cur] = "loop"
      /\ \A y \in Thread : y # cur => at'[y] = at[y] /\ target'[y] = target[y]
      /\ \A c \in Conn : c \in Thread
  BY <1>1, <1>2 DEF TypeOK, Thread
<1>4. \A c \in Conn : Settled(c) => Settled(c)'
  BY <1>1, <1>2, <1>3 DEF Settled
<1>5. TypeOK'
  BY <1>1, <1>2, MainIsNoConn DEF TypeOK, Thread, AcceptPc, ReceiverPc
<1>6. PendingIsNew'
  BY <1>1, <1>2 DEF PendingIsNew
<1>7. \A y \in Thread : Releasing(y)' \/ at'[y] \in {"send", "remove"} =>
          y # cur /\ target'[y] = target[y]
  BY <1>3 DEF Releasing
<1>8. TargetsAreInfos'
  BY <1>3, <1>7 DEF TargetsAreInfos, Releasing
<1>9. ReceiversHaveHandles'
  BY <1>1, <1>2, <1>3 DEF ReceiversHaveHandles
<1>10. OnlyKnownAreReleased'
  <2>1. Registered' = Registered
    BY <1>1 DEF Registered
  <2>2. \A c \in Registered' : Known(c)'
    BY <1>1, <1>2, <2>1 DEF OnlyKnownAreReleased, Known
  <2>3. ASSUME NEW y \in Thread, Releasing(y)' PROVE Known(target[y])'
    <3>1. Known(target[y]) /\ target'[y] = target[y]
      BY <1>3, <1>7, <2>3 DEF OnlyKnownAreReleased, Releasing
    <3>2. QED
      BY <1>1, <1>2, <3>1 DEF Known
  <2>4. QED
    BY <2>2, <2>3 DEF OnlyKnownAreReleased
<1>11. RunningAreStored'
  BY <1>1, <1>3 DEF RunningAreStored, Runs, InHand
<1>12. DeletedAreSettled'
  <2>1. \A c \in freed' : (Settled(c) \/ c \in early)'
    BY <1>1, <1>4 DEF DeletedAreSettled, TypeOK
  <2>2. ASSUME NEW y \in Thread, Deleting(y)' PROVE (Settled(target[y]) \/ target[y] \in early)'
    <3>1. /\ target[y] \in Conn /\ target'[y] = target[y]
          /\ Settled(target[y]) \/ target[y] \in early
      BY <1>3, <1>7, <2>2 DEF DeletedAreSettled, Deleting, Releasing, TargetsAreInfos
    <3>2. \A c \in {target[y]} : c = target'[y] /\ (Settled(c) \/ c \in early)'
      BY <1>1, <1>4, <3>1
    <3>3. QED
      BY <3>2 DEF Settled
  <2>3. QED
    BY <2>1, <2>2 DEF DeletedAreSettled
<1>13. QED
  BY <1>5, <1>6, <1>8, <1>9, <1>10, <1>11, <1>12

\* The receiver that has been started is stored.
LEMMA StoreInv == ASSUME ServerInv, Store PROVE ServerInv'
<1>1. CASE Break
  BY <1>1, BreakInv
<1>2. CASE ~Break
  <2>. USE DEF ServerInv
  <2>1. /\ accepting = "store" /\ accepting' \in {"accept", "stopped"}
        /\ receiver' = receiver \cup {cur} /\ cur' = NoConn
        /\ UNCHANGED <<up, fd, uuid, abort, freed, owner, clientMap, clientUuidMap, cl_mutex,
                       at, target, swept, globalAbort, fault, early>>
    BY <1>2 DEF Store, NextRound, mapVars, threadVars, closeVars
  <2>2. cur \in Conn
    BY <2>1 DEF PendingIsNew, Pending
  <2>3. TypeOK'
    BY <2>1, <2>2 DEF TypeOK, AcceptPc
  <2>4. PendingIsNew' /\ TargetsAreInfos' /\ ReceiversHaveHandles'
    BY <2>1 DEF PendingIsNew, Pending, TargetsAreInfos, ReceiversHaveHandles, Releasing
  <2>5. OnlyKnownAreReleased'
    BY <2>1 DEF OnlyKnownAreReleased, Known, Unregistered, Registered, Releasing
  <2>6. RunningAreStored'
    BY <2>1 DEF RunningAreStored, Runs, InHand
  <2>7. DeletedAreSettled'
    BY <2>1 DEF DeletedAreSettled, Settled, Pending, Deleting
  <2>8. QED
    BY <2>3, <2>4, <2>5, <2>6, <2>7
<1>3. QED
  BY <1>1, <1>2

\* Going to a label of one's own keeps the types of the two thread variables.
LEMMA GotoType ==
    ASSUME TypeOK, NEW x \in Thread, NEW label, NEW t \in Conn \cup {NoConn},
           Goto(x, label, t),
           \/ x = Main /\ label \in MainPc
           \/ x # Main /\ label \in ReceiverPc
    PROVE  /\ at' \in [Thread -> ReceiverPc \cup MainPc]
           /\ at'[Main] \in MainPc /\ \A c \in Conn : at'[c] \in ReceiverPc
           /\ target' \in [Thread -> Conn \cup {NoConn}]
BY MainIsNoConn DEF Goto, TypeOK, Thread

\* A receiver moves only when it has been started.
LEMMA ReceiverInv ==
    ASSUME ServerInv, NEW c \in Conn, Receiving(c) \/ Receive(c)
    PROVE  ServerInv'
<1>. c \in Thread /\ c # Main
  BY MainIsNoConn DEF Thread
<1>1. CASE Break
  BY <1>1, BreakInv
<1>2. CASE ~Break
  <2>1. PICK label \in {"call", "recv", "ended"}, t \in Conn \cup {NoConn} : Goto(c, label, t)
    <3>1. at[c] = "call" => owner[fd[c]] \in Conn \cup {NoConn}
      BY DEF ServerInv, TypeOK, ReceiversHaveHandles
    <3>2. QED
      BY <1>2, <3>1 DEF Receiving, Receive, TestAbort, TestsAbort, BufferFull, CallRecv,
           ReceiveEnd, ReceiveError
  <2>2. /\ at[c] \in {"loop", "call", "recv"}
        /\ abort' = abort \/ abort' = abort \cup {c}
        /\ UNCHANGED <<up, fd, uuid, receiver, freed, owner, clientMap, clientUuidMap, cl_mutex,
                       accepting, cur, swept, globalAbort, fault, early>>
    BY <1>2 DEF Receiving, Receive, TestAbort, TestsAbort, BufferFull, CallRecv, ReceiveEnd,
         ReceiveError, infoVars, mapVars, acceptVars, closeVars
  <2>3. TypeOK'
    <3>1. label \in ReceiverPc
      BY DEF ReceiverPc
    <3>2. /\ at' \in [Thread -> ReceiverPc \cup MainPc]
          /\ at'[Main] \in MainPc /\ \A d \in Conn : at'[d] \in ReceiverPc
          /\ target' \in [Thread -> Conn \cup {NoConn}]
      BY <2>1, <3>1, GotoType DEF ServerInv
    <3>3. QED
      BY <2>2, <3>2 DEF ServerInv, TypeOK
  <2>4. Registered' = Registered
    BY <2>2 DEF Registered
  <2>5. QED
    BY <2>1, <2>2, <2>3, <2>4, ThreadInv
<1>3. QED
  BY <1>1, <1>2

\* A peer leaves.
LEMMA LeaveInv == ASSUME ServerInv, NEW c \in Conn, Leave(c) PROVE ServerInv'
<1>1. /\ up' = up \ {c}
      /\ UNCHANGED <<fd, uuid, abort, receiver, freed, owner, clientMap, clientUuidMap,
                     cl_mutex, accepting, cur, at, target, swept, globalAbort, fault, early>>
  BY DEF Leave, infoVars, mapVars, acceptVars, threadVars, closeVars
<1>2. TypeOK'
  BY <1>1 DEF ServerInv, TypeOK
<1>3. QED
  BY <1>1, <1>2 DEF ServerInv, PendingIsNew, Pending, TargetsAreInfos, ReceiversHaveHandles,
       OnlyKnownAreReleased, Known, Unregistered, Registered, RunningAreStored, InHand,
       DeletedAreSettled, Settled, Releasing, Deleting, Runs

\* A callback, or a command to the main thread, finds a client to send to.
LEMMA LookupInv ==
    ASSUME ServerInv, NEW x \in Thread, NEW t \in Conn, Lookup(x, t)
    PROVE  ServerInv'
<1>1. PICK label \in {"send", "remove"} : Goto(x, label, t)
  BY DEF Lookup
<1>2. /\ at[x] \in {"idle", "recv"}
      /\ UNCHANGED <<up, fd, uuid, abort, receiver, freed, owner, clientMap, clientUuidMap,
                     cl_mutex, accepting, cur, swept, globalAbort, fault, early>>
  BY DEF Lookup, infoVars, mapVars, acceptVars, closeVars
<1>3. TypeOK'
  <2>1. label \in ReceiverPc /\ label \in MainPc
    BY DEF ReceiverPc, MainPc, RemovePc
  <2>2. /\ at' \in [Thread -> ReceiverPc \cup MainPc]
        /\ at'[Main] \in MainPc /\ \A d \in Conn : at'[d] \in ReceiverPc
        /\ target' \in [Thread -> Conn \cup {NoConn}]
    BY <1>1, <2>1, GotoType DEF ServerInv
  <2>3. QED
    BY <1>2, <2>2 DEF ServerInv, TypeOK
<1>4. Registered' = Registered
  BY <1>2 DEF Registered
<1>5. QED
  BY <1>1, <1>2, <1>3, <1>4, ThreadInv

\* release finds no receiver in an info that has none to come, or comes too early.
LEMMA TestReceiverInv ==
    ASSUME ServerInv, NEW x \in Thread, NEW join, NEW delete,
           \/ join = "join" /\ delete = "delete" /\ at[x] = "test"
           \/ join = "closeJoin" /\ delete = "closeDelete" /\ at[x] = "closeTest" /\ x = Main,
           TestReceiver(x, join, delete)
    PROVE  ServerInv'
<1>1. CASE Break
  BY <1>1, BreakInv
<1>2. CASE ~Break
  <2>. DEFINE t == target[x]
  <2>1. PICK label \in {join, delete} :
            Goto(x, label, t) /\ (label = delete => t \notin receiver)
    BY <1>2 DEF TestReceiver
  <2>2. /\ early' = IF InHand(t) THEN early \cup {t} ELSE early
        /\ UNCHANGED <<up, fd, uuid, abort, receiver, freed, owner, clientMap, clientUuidMap,
                       cl_mutex, accepting, cur, swept, globalAbort, fault>>
    BY <1>2 DEF TestReceiver, infoVars, mapVars, acceptVars, closeVars
  <2>3. t \in Conn /\ Known(t)
    BY DEF ServerInv, TargetsAreInfos, OnlyKnownAreReleased, Releasing
  <2>4. TypeOK'
    <3>1. \/ label \in ReceiverPc /\ label \in MainPc
          \/ label \in MainPc /\ x = Main
      BY DEF ReceiverPc, MainPc, RemovePc, ReleasePc
    <3>2. /\ at' \in [Thread -> ReceiverPc \cup MainPc]
          /\ at'[Main] \in MainPc /\ \A d \in Conn : at'[d] \in ReceiverPc
          /\ target' \in [Thread -> Conn \cup {NoConn}]
      BY <2>1, <2>3, <3>1, GotoType DEF ServerInv
    <3>3. QED
      BY <2>2, <2>3, <3>2 DEF ServerInv, TypeOK
  <2>5. ASSUME label = delete PROVE Settled(t) \/ t \in early'
    <3>1. t \notin receiver /\ (InHand(t) \/ at[t] \in {"none", "ended"})
      BY <2>1, <2>3, <2>5 DEF ServerInv, RunningAreStored, Runs
    <3>2. CASE InHand(t)
      BY <2>2, <3>2
    <3>3. CASE ~InHand(t)
      <4>1. ~(Pending /\ cur = t)
        <5>1. ~(accepting = "store" /\ cur = t) /\ ~(accepting = "spawn" /\ cur = t)
          BY <3>3 DEF InHand
        <5>2. ~(Unregistered /\ cur = t)
          BY <2>3 DEF Known
        <5>3. accepting \in AcceptPc
          BY DEF ServerInv, TypeOK
        <5>4. QED
          BY <5>1, <5>2, <5>3 DEF Pending, Unregistered, AcceptPc
      <4>2. QED
        BY <2>3, <3>1, <3>3, <4>1 DEF Settled, Known
    <3>4. QED
      BY <3>2, <3>3
  <2>6. Registered' = Registered /\ early \subseteq early'
    BY <2>2 DEF Registered
  <2>7. label # "none" /\ label \notin {"send", "remove"}
        /\ (label \in {"delete", "closeDelete"} => label = delete)
    OBVIOUS
  <2>8. Goto(x, label, t)
    BY <2>1
  <2>. HIDE DEF t
  <2>9. QED
    BY <2>2, <2>3, <2>4, <2>5, <2>6, <2>7, <2>8, ThreadInv
<1>3. QED
  BY <1>1, <1>2

\* The receiver that has been joined has ended.
LEMMA JoinReceiverInv ==
    ASSUME ServerInv, NEW x \in Thread, NEW delete,
           \/ delete = "delete" /\ at[x] = "join"
           \/ delete = "closeDelete" /\ at[x] = "closeJoin" /\ x = Main,
           JoinReceiver(x, delete)
    PROVE  ServerInv'
<1>1. CASE Break
  BY <1>1, BreakInv
<1>2. CASE ~Break
  <2>. DEFINE t == target[x]
  <2>1. /\ Goto(x, delete, t) /\ at[t] = "ended" /\ receiver' = receiver \ {t}
        /\ UNCHANGED <<up, fd, uuid, abort, freed, owner, clientMap, clientUuidMap,
                       cl_mutex, accepting, cur, swept, globalAbort, fault, early>>
    BY <1>2 DEF JoinReceiver, mapVars, acceptVars, closeVars
  <2>2. t \in Conn /\ Known(t)
    BY DEF ServerInv, TargetsAreInfos, OnlyKnownAreReleased, Releasing
  <2>3. Settled(t)
    BY <2>1 DEF Settled
  <2>4. TypeOK'
    <3>1. \/ delete \in ReceiverPc /\ delete \in MainPc
          \/ delete \in MainPc /\ x = Main
      BY DEF ReceiverPc, MainPc, RemovePc, ReleasePc
    <3>2. /\ at' \in [Thread -> ReceiverPc \cup MainPc]
          /\ at'[Main] \in MainPc /\ \A d \in Conn : at'[d] \in ReceiverPc
          /\ target' \in [Thread -> Conn \cup {NoConn}]
      BY <2>1, <2>2, <3>1, GotoType DEF ServerInv
    <3>3. QED
      BY <2>1, <3>2 DEF ServerInv, TypeOK
  <2>5. Registered' = Registered
    BY <2>1 DEF Registered
  <2>. HIDE DEF t
  <2>6. QED
    BY <2>1, <2>2, <2>3, <2>4, <2>5, ThreadInv
<1>3. QED
  BY <1>1, <1>2

\* removeClient finds, shuts and deletes.
LEMMA SendingInv ==
    ASSUME ServerInv, NEW x \in Thread, Sending(x)
    PROVE  ServerInv'
<1>1. CASE Break
  BY <1>1, BreakInv
<1>2. CASE Test(x)
  BY <1>2, TestReceiverInv DEF Test
<1>3. CASE Join(x)
  BY <1>3, JoinReceiverInv DEF Join
<1>4. CASE SendSucceeds(x) \/ SendFails(x)
  <2>1. PICK label \in {Home(x), "remove"}, t \in Conn \cup {NoConn} :
            Goto(x, label, t) /\ (label = "remove" => t \in Conn)
    BY <1>4 DEF SendSucceeds, SendFails, ServerInv, TargetsAreInfos, Home
  <2>2. /\ at[x] = "send"
        /\ UNCHANGED <<up, fd, uuid, abort, receiver, freed, owner, clientMap, clientUuidMap,
                       cl_mutex, accepting, cur, swept, globalAbort, fault, early>>
    BY <1>4 DEF SendSucceeds, SendFails, infoVars, mapVars, acceptVars, closeVars
  <2>3. TypeOK'
    <3>1. (x = Main /\ label \in MainPc) \/ (x # Main /\ label \in ReceiverPc)
      BY DEF Home, ReceiverPc, MainPc, RemovePc
    <3>2. /\ at' \in [Thread -> ReceiverPc \cup MainPc]
          /\ at'[Main] \in MainPc /\ \A d \in Conn : at'[d] \in ReceiverPc
          /\ target' \in [Thread -> Conn \cup {NoConn}]
      BY <2>1, <3>1, GotoType DEF ServerInv
    <3>3. QED
      BY <2>2, <3>2 DEF ServerInv, TypeOK
  <2>4. Registered' = Registered /\ label \in {"idle", "loop", "remove"}
    BY <2>2 DEF Registered, Home
  <2>5. QED
    BY <2>1, <2>2, <2>3, <2>4, ThreadInv
<1>5. CASE Remove(x)
  <2>. DEFINE Found(l, t) ==
            /\ Goto(x, l, t)
            /\ l \in {Home(x), "test"}
            /\ l = "test" => t \in Registered
            /\ abort' = abort \/ (t \in Registered /\ abort' = abort \cup {t})
            /\ owner' = owner \/ Close(fd[t])
            /\ clientUuidMap' \subseteq clientUuidMap
            /\ cl_mutex' \in {cl_mutex, x}
  <2>1. \E l \in {Home(x), "test"}, t \in Conn \cup {NoConn} : Found(l, t)
    <3>1. CASE /\ Goto(x, Home(x), NoConn)
               /\ UNCHANGED <<abort, owner, clientUuidMap, cl_mutex>>
      <4>1. Found(Home(x), NoConn)
        BY <3>1 DEF Home
      <4>2. QED
        BY <4>1
    <3>2. ASSUME NEW i \in 1..Len(clientMap),
                 clientUuidMap' = {p \in clientUuidMap : p[1] # uuid[clientMap[i]]},
                 abort' = abort \cup {clientMap[i]},
                 Close(fd[clientMap[i]]),
                 cl_mutex' = x,
                 Goto(x, "test", clientMap[i])
          PROVE  \E l \in {Home(x), "test"}, t \in Conn \cup {NoConn} : Found(l, t)
      <4>1. clientMap[i] \in Registered /\ clientMap[i] \in Conn
        BY ElementOfSeq DEF ServerInv, TypeOK, Registered
      <4>2. Found("test", clientMap[i])
        BY <3>2, <4>1
      <4>3. QED
        BY <4>1, <4>2
    <3>3. QED
      BY <1>5, <3>1, <3>2 DEF Remove
  <2>2. PICK l \in {Home(x), "test"}, t \in Conn \cup {NoConn} : Found(l, t)
    BY <2>1
  <2>3. /\ at[x] = "remove"
        /\ UNCHANGED <<up, fd, uuid, receiver, freed, clientMap, accepting, cur, swept,
                       globalAbort, fault, early>>
    BY <1>5 DEF Remove, acceptVars, closeVars
  <2>4. Registered' = Registered /\ Registered \subseteq Conn
        /\ \A c \in Registered : Known(c)
    BY <2>3, RegisteredIsConn DEF Registered, ServerInv, TypeOK, OnlyKnownAreReleased
  <2>5. TypeOK'
    <3>1. (x = Main /\ l \in MainPc) \/ (x # Main /\ l \in ReceiverPc)
      BY <2>2 DEF Home, ReceiverPc, MainPc, RemovePc
    <3>2. /\ at' \in [Thread -> ReceiverPc \cup MainPc]
          /\ at'[Main] \in MainPc /\ \A d \in Conn : at'[d] \in ReceiverPc
          /\ target' \in [Thread -> Conn \cup {NoConn}]
      BY <2>2, <3>1, GotoType DEF ServerInv
    <3>3. owner' \in [Fd -> Conn \cup {NoConn}]
      BY <2>2 DEF Close, ServerInv, TypeOK
    <3>4. QED
      BY <2>2, <2>3, <2>4, <3>2, <3>3 DEF ServerInv, TypeOK
  <2>6. l \in {"idle", "loop", "test"} /\ Goto(x, l, t) /\ (l = "test" => t \in Registered)
    BY <2>2 DEF Home
  <2>. HIDE DEF Found
  <2>7. QED
    BY <2>3, <2>4, <2>5, <2>6, ThreadInv
<1>6. CASE Delete(x) /\ ~Break
  <2>. DEFINE t == target[x]
  <2>1. PICK i \in 1..Len(clientMap) : clientMap' = Without(i)
    BY <1>6 DEF Delete
  <2>2. /\ at[x] = "delete"
        /\ freed' = freed \cup {t}
        /\ cl_mutex' = Nobody
        /\ Goto(x, Home(x), NoConn)
        /\ UNCHANGED <<up, fd, uuid, abort, receiver, owner, clientUuidMap, accepting, cur,
                       swept, globalAbort, fault, early>>
    BY <1>6 DEF Delete, acceptVars, closeVars
  <2>3. t \in Conn /\ (Settled(t) \/ t \in early)
    BY <2>2 DEF ServerInv, TargetsAreInfos, DeletedAreSettled, Releasing, Deleting
  <2>4. clientMap' \in Seq(Conn) /\ Registered' \subseteq Registered
    BY <2>1, WithoutIsSeq DEF ServerInv, TypeOK, Registered
  <2>5. TypeOK'
    <3>1. (x = Main /\ Home(x) \in MainPc) \/ (x # Main /\ Home(x) \in ReceiverPc)
      BY DEF Home, ReceiverPc, MainPc
    <3>2. /\ at' \in [Thread -> ReceiverPc \cup MainPc]
          /\ at'[Main] \in MainPc /\ \A d \in Conn : at'[d] \in ReceiverPc
          /\ target' \in [Thread -> Conn \cup {NoConn}]
      BY <2>2, <3>1, GotoType DEF ServerInv
    <3>3. QED
      BY <2>2, <2>3, <2>4, <3>2 DEF ServerInv, TypeOK
  <2>6. Home(x) \in {"idle", "loop"}
    BY DEF Home
  <2>. HIDE DEF t
  <2>7. QED
    BY <2>2, <2>3, <2>4, <2>5, <2>6, ThreadInv
<1>7. QED
  BY <1>1, <1>2, <1>3, <1>4, <1>5, <1>6 DEF Sending, UseAfterFree, JoinsItself

\* closeConnection deletes what is settled as well.
LEMMA ClosingInv == ASSUME ServerInv, Closing \/ CloseConnection PROVE ServerInv'
<1>. Main \in Thread
  BY DEF Thread
<1>1. CASE Break
  BY <1>1, BreakInv
<1>2. CASE ReleaseTest
  BY <1>2, TestReceiverInv DEF ReleaseTest
<1>3. CASE ReleaseJoin
  BY <1>3, JoinReceiverInv DEF ReleaseJoin
<1>4. CASE CloseConnection \/ Cleared \/ Closed
  <2>1. PICK label \in {"sweep", "stopAccept", "done"} : Goto(Main, label, NoConn)
    BY <1>4 DEF CloseConnection, Cleared, Closed
  <2>2. /\ at[Main] \in {"idle", "sweep", "stopAccept"}
        /\ clientMap' = clientMap \/ clientMap' = <<>>
        /\ globalAbort' = globalAbort \/ globalAbort' = TRUE
        /\ UNCHANGED <<up, fd, uuid, abort, receiver, freed, owner, clientUuidMap, cl_mutex,
                       accepting, cur, swept, fault, early>>
    BY <1>4 DEF CloseConnection, Cleared, Closed, infoVars, mapVars, acceptVars, closeVars
  <2>3. clientMap' \in Seq(Conn) /\ Registered' \subseteq Registered
    <3>1. CASE clientMap' = clientMap
      BY <3>1 DEF ServerInv, TypeOK, Registered
    <3>2. CASE clientMap' = <<>>
      <4>1. clientMap' \in Seq(Conn) /\ Len(clientMap') = 0
        BY <3>2, EmptySeq
      <4>2. QED
        BY <4>1 DEF Registered
    <3>3. QED
      BY <2>2, <3>1, <3>2
  <2>4. TypeOK'
    <3>1. label \in MainPc
      BY DEF MainPc, ReleasePc
    <3>2. /\ at' \in [Thread -> ReceiverPc \cup MainPc]
          /\ at'[Main] \in MainPc /\ \A d \in Conn : at'[d] \in ReceiverPc
          /\ target' \in [Thread -> Conn \cup {NoConn}]
      BY <2>1, <3>1, GotoType DEF ServerInv
    <3>3. QED
      BY <2>2, <2>3, <3>2 DEF ServerInv, TypeOK
  <2>5. QED
    BY <2>1, <2>2, <2>3, <2>4, ThreadInv
<1>5. CASE Release /\ ~Break
  <2>1. swept + 1 \in 1..Len(clientMap)
    BY <1>5, LenProperties DEF Release, ServerInv, TypeOK
  <2>2. PICK info \in Registered : info = clientMap[swept + 1]
    BY <2>1 DEF Registered
  <2>3. /\ at[Main] = "sweep" /\ Goto(Main, "closeTest", info)
        /\ abort' = abort \cup {info}
        /\ Close(fd[info])
        /\ UNCHANGED <<up, fd, uuid, receiver, freed, clientMap, clientUuidMap, cl_mutex,
                       accepting, cur, swept, globalAbort, fault, early>>
    BY <1>5, <2>2 DEF Release, mapVars, acceptVars, closeVars
  <2>4. Registered' = Registered /\ info \in Conn /\ Known(info)
    BY <2>3, RegisteredIsConn DEF Registered, ServerInv, TypeOK, OnlyKnownAreReleased
  <2>5. TypeOK'
    <3>1. "closeTest" \in MainPc
      BY DEF MainPc, ReleasePc
    <3>2. /\ at' \in [Thread -> ReceiverPc \cup MainPc]
          /\ at'[Main] \in MainPc /\ \A d \in Conn : at'[d] \in ReceiverPc
          /\ target' \in [Thread -> Conn \cup {NoConn}]
      BY <2>3, <2>4, <3>1, GotoType DEF ServerInv
    <3>3. owner' \in [Fd -> Conn \cup {NoConn}]
      BY <2>3 DEF Close, ServerInv, TypeOK
    <3>4. QED
      BY <2>3, <2>4, <3>2, <3>3 DEF ServerInv, TypeOK
  <2>6. QED
    BY <2>3, <2>4, <2>5, ThreadInv
<1>6. CASE ReleaseDelete /\ ~Break
  <2>. DEFINE t == target[Main]
  <2>1. /\ at[Main] = "closeDelete"
        /\ freed' = freed \cup {t} /\ swept' = swept + 1
        /\ Goto(Main, "sweep", NoConn)
        /\ UNCHANGED <<up, fd, uuid, abort, receiver, owner, clientMap, clientUuidMap, cl_mutex,
                       accepting, cur, globalAbort, fault, early>>
    BY <1>6 DEF ReleaseDelete, mapVars, acceptVars
  <2>2. t \in Conn /\ (Settled(t) \/ t \in early)
    BY <2>1 DEF ServerInv, TargetsAreInfos, DeletedAreSettled, Releasing, Deleting
  <2>3. TypeOK'
    <3>1. "sweep" \in MainPc
      BY DEF MainPc, ReleasePc
    <3>2. /\ at' \in [Thread -> ReceiverPc \cup MainPc]
          /\ at'[Main] \in MainPc /\ \A d \in Conn : at'[d] \in ReceiverPc
          /\ target' \in [Thread -> Conn \cup {NoConn}]
      BY <2>1, <3>1, GotoType DEF ServerInv
    <3>3. QED
      BY <2>1, <2>2, <3>2 DEF ServerInv, TypeOK
  <2>4. Registered' = Registered
    BY <2>1 DEF Registered
  <2>. HIDE DEF t
  <2>5. QED
    BY <2>1, <2>2, <2>3, <2>4, ThreadInv
<1>7. QED
  BY <1>1, <1>2, <1>3, <1>4, <1>5, <1>6 DEF Closing, PastTheEnd

\* ServerInv holds for every server, whether its callbacks send or not.
THEOREM Invariance == Spec => []ServerInv
<1>1. ServerInv /\ [Next]_vars => ServerInv'
  <2>. SUFFICES ASSUME ServerInv, [Next]_vars PROVE ServerInv'
    OBVIOUS
  <2>1. CASE UNCHANGED vars
    <3>1. UNCHANGED <<up, fd, uuid, abort, receiver, freed, owner, clientMap, clientUuidMap,
                      cl_mutex, accepting, cur, at, target, swept, globalAbort, fault, early>>
      BY <2>1 DEF vars, infoVars, mapVars, acceptVars, threadVars, closeVars
    <3>2. TypeOK'
      BY <3>1 DEF ServerInv, TypeOK
    <3>3. QED
      BY <3>1, <3>2 DEF ServerInv, PendingIsNew, Pending, TargetsAreInfos,
           ReceiversHaveHandles, OnlyKnownAreReleased, Known, Unregistered, Registered,
           RunningAreStored, InHand, DeletedAreSettled, Settled, Releasing, Deleting, Runs
  <2>2. CASE AcceptThread \/ AcceptFails \/ SegmentedAnswer
    BY <2>2, HandshakeInv, RegisterInv, StartInv, StoreInv DEF AcceptThread
  <2>3. CASE Closing \/ CloseConnection
    BY <2>3, ClosingInv
  <2>4. ASSUME NEW c \in Conn,
               Accept(c) \/ AcceptLate(c) \/ Leave(c) \/ Receiving(c) \/ Receive(c)
        PROVE  ServerInv'
    BY <2>4, AcceptInv, HandshakeInv, LeaveInv, ReceiverInv
  <2>5. ASSUME NEW x \in Sender, Sending(x) \/ \E t \in Conn : Lookup(x, t)
        PROVE  ServerInv'
    <3>1. x \in Thread
      BY DEF Sender
    <3>2. QED
      BY <2>5, <3>1, SendingInv, LookupInv
  <2>6. QED
    BY <2>1, <2>2, <2>3, <2>4, <2>5 DEF Next
<1>2. QED
  BY <1>1, InitInv, PTL DEF Spec

\* Every variable keeps its type.
THEOREM TypeCorrect == Spec => []TypeOK
<1>1. ServerInv => TypeOK
  BY DEF ServerInv
<1>2. QED
  BY <1>1, Invariance, PTL

\* removeClient, closeConnection and the connect callback delete an info whose
\* receiver has ended or was never started, and another one only when its release
\* came between its registration and the storing of its receiver.
THEOREM DeletesAreJoined == Spec => []JoinedBeforeFreed
<1>1. ServerInv => JoinedBeforeFreed
  BY DEF ServerInv, DeletedAreSettled, Settled, JoinedBeforeFreed
<1>2. QED
  BY <1>1, Invariance, PTL

-----------------------------------------------------------------------------
(* A server whose callbacks do not send.                                   *)

CloseReleasing == at[Main] \in {"closeTest", "closeJoin", "closeDelete"}

\* Only the main thread and the accept thread do anything but receive.
NobodySends ==
    /\ cl_mutex = Nobody
    /\ at[Main] \in {"idle", "stopAccept", "done"} \cup ReleasePc
    /\ \A c \in Conn : at[c] \in {"none", "loop", "call", "recv", "ended"}

\* closeConnection sets globalAbort first, and passes the vector from its start.
ClosingIsGlobal ==
    /\ globalAbort <=> at[Main] # "idle"
    /\ at[Main] = "idle" => swept = 0 /\ early = {}
    /\ CloseReleasing => /\ swept + 1 \in 1..Len(clientMap)
                         /\ target[Main] = clientMap[swept + 1]

\* The info of the handshake is deleted by nobody but the callback itself,
\* until the server is closed; nothing the process must not do happens before.
FaultsAreClosing ==
    /\ fault => globalAbort
    /\ Pending /\ cur \in freed => globalAbort

\* Whatever was registered or deleted has been accepted.
KnownHaveHandles == \A c \in freed \cup Registered : fd[c] # 0

\* An info is registered once.
RegisteredOnce ==
    /\ \A i, j \in 1..Len(clientMap) : clientMap[i] = clientMap[j] => i = j
    /\ Unregistered => cur \notin Registered

\* The maps agree while nothing is closed, and what the probe found still holds
\* when the accept thread takes the lock for the second time.
MapsInStep ==
    /\ accepting = "register" => ~Collides
    /\ at[Main] = "idle" =>
        /\ clientUuidMap = {<<uuid[c], c>> : c \in Registered}
        /\ \A c, d \in Registered : uuid[c] = uuid[d] => c = d
        /\ Registered \cap freed = {}

ServingInv ==
    /\ ServerInv
    /\ NobodySends
    /\ ClosingIsGlobal
    /\ FaultsAreClosing
    /\ KnownHaveHandles
    /\ RegisteredOnce
    /\ MapsInStep

\* ServingInv holds before the server is started.
LEMMA InitServing == Init => ServingInv
<1>. SUFFICES ASSUME Init PROVE ServingInv
  OBVIOUS
<1>. USE MainIsNoConn DEF Init
<1>1. ServerInv
  BY InitInv
<1>2. Registered = {}
  BY DEF Registered
<1>3. NobodySends /\ ClosingIsGlobal /\ FaultsAreClosing
  BY DEF NobodySends, ClosingIsGlobal, FaultsAreClosing, Pending, Thread, CloseReleasing
<1>4. KnownHaveHandles /\ RegisteredOnce /\ MapsInStep
  BY <1>2 DEF KnownHaveHandles, RegisteredOnce, Unregistered, MapsInStep
<1>5. QED
  BY <1>1, <1>3, <1>4 DEF ServingInv

\* Undefined behaviour that closeConnection may lead to.
LEMMA BreakServing == ASSUME ServingInv, Break, globalAbort PROVE ServingInv'
<1>1. ServerInv'
  BY BreakInv DEF ServingInv
<1>2. QED
  BY <1>1 DEF Break, infoVars, mapVars, acceptVars, threadVars, closeVars, ServingInv,
       NobodySends, ClosingIsGlobal, CloseReleasing, FaultsAreClosing, Pending,
       KnownHaveHandles, RegisteredOnce, Unregistered, Registered, MapsInStep, Collides

\* accept: an info that was never accepted is neither registered nor deleted.
LEMMA AcceptServing ==
    ASSUME ServingInv, NEW c \in Conn, Accept(c)
    PROVE  ServingInv'
<1>. USE DEF Accept, ServingInv, mapVars, threadVars, closeVars
<1>1. ServerInv'
  BY AcceptInv
<1>2. c \notin freed /\ c \notin Registered
  BY DEF KnownHaveHandles
<1>3. Registered' = Registered
  BY DEF Registered
<1>4. NobodySends' /\ ClosingIsGlobal'
  BY DEF NobodySends, ClosingIsGlobal, CloseReleasing
<1>5. FaultsAreClosing'
  BY <1>2 DEF FaultsAreClosing
<1>6. KnownHaveHandles'
  BY <1>2, <1>3 DEF KnownHaveHandles, ServerInv, TypeOK
<1>7. RegisteredOnce'
  BY <1>2, <1>3 DEF RegisteredOnce
<1>8. MapsInStep'
  BY <1>3 DEF MapsInStep
<1>9. QED
  BY <1>1, <1>4, <1>5, <1>6, <1>7, <1>8

\* The steps of the accept thread that leave the infos alone.
LEMMA HandshakeServing ==
    ASSUME ServingInv,
           \/ StopAccepting \/ AcceptFails \/ NoAnswer \/ UnitAnswer \/ OtherAnswer
           \/ SegmentedAnswer \/ Probe \/ NoThread \/ \E c \in Conn : AcceptLate(c)
    PROVE  ServingInv'
<1>1. ServerInv'
  BY HandshakeInv DEF ServingInv
<1>2. /\ UNCHANGED <<fd, uuid, abort, freed, clientMap, clientUuidMap, cl_mutex, at, target,
                     swept, globalAbort, fault, early>>
      /\ \/ accepting' \in {"accept", "stopped", "exit"}
         \/ accepting' \in {"probe", "renew"} /\ Unregistered /\ UNCHANGED cur
         \/ accepting' = "register" /\ Unregistered /\ UNCHANGED cur /\ ~Collides
  BY DEF StopAccepting, AcceptFails, NoAnswer, UnitAnswer, OtherAnswer, SegmentedAnswer, Probe,
         NoThread, AcceptLate, NextRound, Unregistered, infoVars, mapVars, threadVars, closeVars
<1>3. Registered' = Registered
  BY <1>2 DEF Registered
<1>. USE DEF ServingInv
<1>4. NobodySends' /\ ClosingIsGlobal'
  BY <1>2 DEF NobodySends, ClosingIsGlobal, CloseReleasing
<1>5. FaultsAreClosing'
  BY <1>2 DEF FaultsAreClosing, Pending, Unregistered
<1>6. KnownHaveHandles'
  BY <1>2, <1>3 DEF KnownHaveHandles
<1>7. RegisteredOnce'
  BY <1>2, <1>3 DEF RegisteredOnce, Unregistered
<1>8. MapsInStep'
  BY <1>2, <1>3 DEF MapsInStep, Collides
<1>9. QED
  BY <1>1, <1>4, <1>5, <1>6, <1>7, <1>8

\* The second round of the handshake changes or deletes an info that is not
\* registered.
LEMMA RenewServing ==
    ASSUME ServingInv, NoNewUuid \/ \E u \in Uuid : NewUuid(u)
    PROVE  ServingInv'
<1>1. ServerInv'
  BY HandshakeInv DEF ServingInv
<1>2. /\ accepting = "renew" /\ cur \in Conn /\ fd[cur] # 0
      /\ cur \notin Registered
      /\ UNCHANGED <<fd, clientMap, clientUuidMap, cl_mutex, at, target, swept,
                     globalAbort, fault, early>>
  BY DEF NoNewUuid, NewUuid, ServingInv, ServerInv, PendingIsNew, Pending, RegisteredOnce,
         Unregistered, mapVars, threadVars, closeVars
<1>3. \/ /\ accepting' \in {"accept", "stopped"} /\ UNCHANGED uuid
         /\ freed' = freed \cup {cur}
      \/ /\ accepting' = "probe" /\ UNCHANGED <<cur, freed>>
         /\ \E u \in Uuid : uuid' = [uuid EXCEPT ![cur] = u]
  BY DEF NoNewUuid, NewUuid, NextRound
<1>4. Registered' = Registered /\ Registered \subseteq Conn
  BY <1>2, RegisteredIsConn DEF Registered, ServingInv, ServerInv, TypeOK
<1>5. \A c \in Registered : uuid'[c] = uuid[c]
  BY <1>2, <1>3, <1>4 DEF ServingInv, ServerInv, TypeOK
<1>. USE DEF ServingInv
<1>6. NobodySends' /\ ClosingIsGlobal'
  BY <1>2 DEF NobodySends, ClosingIsGlobal, CloseReleasing
<1>7. FaultsAreClosing'
  BY <1>2, <1>3 DEF FaultsAreClosing, Pending
<1>8. KnownHaveHandles'
  BY <1>2, <1>3, <1>4 DEF KnownHaveHandles
<1>9. RegisteredOnce'
  BY <1>2, <1>3, <1>4 DEF RegisteredOnce, Unregistered
<1>10. MapsInStep'
  <2>1. {<<uuid'[c], c>> : c \in Registered} = {<<uuid[c], c>> : c \in Registered}
    BY <1>5
  <2>2. QED
    BY <1>2, <1>3, <1>4, <1>5, <2>1 DEF MapsInStep
<1>11. QED
  BY <1>1, <1>6, <1>7, <1>8, <1>9, <1>10

\* The registration: the uuid is new, so nobody's entry is overwritten.
LEMMA RegisterServing == ASSUME ServingInv, Register PROVE ServingInv'
<1>1. CASE Break
  <2>1. at[Main] \in ReleasePc
    BY <1>1 DEF Register, Break, acceptVars
  <2>2. QED
    BY <1>1, <2>1, BreakServing DEF ServingInv, ClosingIsGlobal, ReleasePc
<1>2. CASE ~Break
  <2>1. ServerInv'
    BY RegisterInv DEF ServingInv
  <2>2. /\ accepting = "register" /\ accepting' = "spawn"
        /\ clientMap' = Append(clientMap, cur)
        /\ clientUuidMap' =
              {p \in clientUuidMap : p[1] # uuid[cur]} \cup {<<uuid[cur], cur>>}
        /\ UNCHANGED <<fd, uuid, freed, cl_mutex, cur, at, target, swept, globalAbort, fault,
                       early>>
    BY <1>2 DEF Register, infoVars, threadVars, closeVars
  <2>. USE DEF ServingInv
  <2>3. cur \in Conn /\ fd[cur] # 0 /\ cur \notin Registered
    BY <2>2 DEF ServerInv, PendingIsNew, Pending, RegisteredOnce, Unregistered
  <2>4. /\ Registered' = Registered \cup {cur}
        /\ Len(clientMap) \in Nat
        /\ Len(clientMap') = Len(clientMap) + 1
        /\ \A i \in 1..Len(clientMap) : clientMap'[i] = clientMap[i]
        /\ clientMap'[Len(clientMap) + 1] = cur
    BY <2>2, <2>3, RegisteredAppend DEF ServerInv, TypeOK
  <2>5. NobodySends' /\ FaultsAreClosing'
    BY <2>2 DEF NobodySends, FaultsAreClosing, Pending
  <2>6. ClosingIsGlobal'
    BY <2>2, <2>4 DEF ClosingIsGlobal, CloseReleasing
  <2>7. KnownHaveHandles'
    BY <2>2, <2>3, <2>4 DEF KnownHaveHandles
  <2>8. RegisteredOnce'
    <3>1. \A i \in 1..Len(clientMap) : clientMap[i] # cur
      BY <2>3 DEF Registered
    <3>2. QED
      BY <2>2, <2>4, <3>1 DEF RegisteredOnce, Unregistered
  <2>9. MapsInStep'
    <3>1. SUFFICES ASSUME at[Main] = "idle"
                   PROVE  /\ clientUuidMap' = {<<uuid[c], c>> : c \in Registered \cup {cur}}
                          /\ \A c, d \in Registered \cup {cur} : uuid[c] = uuid[d] => c = d
                          /\ (Registered \cup {cur}) \cap freed = {}
      BY <2>2, <2>4 DEF MapsInStep
    <3>2. ~Collides /\ clientUuidMap = {<<uuid[c], c>> : c \in Registered}
      BY <2>2, <3>1 DEF MapsInStep
    <3>3. \A c \in Registered : uuid[c] # uuid[cur]
      <4>1. ASSUME NEW c \in Registered, uuid[c] = uuid[cur] PROVE FALSE
        <5>1. <<uuid[cur], c>> \in clientUuidMap
          BY <3>2, <4>1
        <5>2. c \in Conn
          BY RegisteredIsConn DEF ServerInv, TypeOK
        <5>3. QED
          BY <3>2, <5>1, <5>2 DEF Collides
      <4>2. QED
        BY <4>1
    <3>4. {p \in clientUuidMap : p[1] # uuid[cur]} = clientUuidMap
      BY <3>2, <3>3
    <3>5. clientUuidMap' = {<<uuid[c], c>> : c \in Registered \cup {cur}}
      BY <2>2, <3>2, <3>4
    <3>6. cur \notin freed
      BY <2>2, <3>1 DEF FaultsAreClosing, ClosingIsGlobal, Pending
    <3>7. QED
      BY <3>1, <3>3, <3>5, <3>6 DEF MapsInStep
  <2>10. QED
    BY <2>1, <2>5, <2>6, <2>7, <2>8, <2>9
<1>3. QED
  BY <1>1, <1>2

\* Threads that start, are stored and receive.
LEMMA ReceiverServing ==
    ASSUME ServingInv,
           Start \/ Store \/ \E c \in Conn : Receiving(c) \/ Receive(c) \/ Leave(c)
    PROVE  ServingInv'
<1>1. ServerInv'
  BY StartInv, StoreInv, ReceiverInv, LeaveInv DEF ServingInv
<1>2. CASE Break
  <2>1. globalAbort
    <3>1. CASE Store
      BY <1>2, <3>1 DEF Store, Break, acceptVars, ServingInv, FaultsAreClosing, Pending
    <3>2. ASSUME NEW c \in Conn, c \in freed, at[c] \in {"loop", "call", "recv"} PROVE globalAbort
      BY <3>2 DEF ServingInv, ServerInv, DeletedAreSettled, Settled, ClosingIsGlobal
    <3>3. CASE Start
      BY <1>2, <3>3 DEF Start, Break, acceptVars
    <3>4. ASSUME NEW c \in Conn, Receiving(c) \/ Receive(c) PROVE globalAbort
      <4>1. \/ c \in freed /\ at[c] \in {"loop", "call", "recv"}
            \/ at[c] \in {"loop", "call", "recv"} /\ at' = at /\ UNCHANGED target
               /\ \E label \in {"call", "recv", "ended"}, t \in {NoConn} \cup {owner[fd[c]]} :
                     Goto(c, label, t) /\ at[c] # label
        BY <1>2, <3>4 DEF Receiving, Receive, TestAbort, TestsAbort, BufferFull, CallRecv,
             ReceiveEnd, ReceiveError, Break, threadVars
      <4>2. c \in Thread /\ DOMAIN at = Thread
        BY DEF Thread, ServingInv, ServerInv, TypeOK
      <4>3. QED
        BY <3>2, <4>1, <4>2 DEF Goto
    <3>5. ASSUME NEW c \in Conn, Leave(c) PROVE globalAbort
      BY <1>2, <3>5 DEF Leave, Break
    <3>6. QED
      BY <3>1, <3>3, <3>4, <3>5
  <2>2. QED
    BY <1>2, <2>1, BreakServing
<1>3. CASE ~Break
  <2>1. /\ UNCHANGED <<fd, uuid, freed, clientMap, clientUuidMap, cl_mutex, swept,
                       globalAbort, fault, early>>
        /\ \/ accepting' \in {"accept", "stopped"}
           \/ accepting' = "store" /\ Pending /\ UNCHANGED cur
           \/ UNCHANGED <<accepting, cur>>
    BY <1>3 DEF Start, Store, NextRound, Pending, Receiving, Receive, TestAbort, TestsAbort,
         BufferFull, CallRecv, ReceiveEnd, ReceiveError, Leave, infoVars, mapVars, acceptVars,
         closeVars
  <2>2. \/ UNCHANGED <<at, target>>
        \/ \E c \in Conn, label \in {"loop", "call", "recv", "ended"}, t \in Conn \cup {NoConn} :
              at' = [at EXCEPT ![c] = label] /\ target' = [target EXCEPT ![c] = t]
    <3>1. Start => cur \in Conn
      BY DEF Start, ServingInv, ServerInv, PendingIsNew, Pending
    <3>2. \A c \in Conn : at[c] = "call" => owner[fd[c]] \in Conn \cup {NoConn}
      BY DEF ServingInv, ServerInv, TypeOK, ReceiversHaveHandles
    <3>3. CASE Start \/ Store \/ \E c \in Conn : Leave(c)
      BY <1>3, <3>1, <3>3 DEF Start, Store, Leave, threadVars, Goto
    <3>4. ASSUME NEW c \in Conn, Receiving(c) \/ Receive(c)
          PROVE  \E label \in {"loop", "call", "recv", "ended"}, t \in Conn \cup {NoConn} :
                    at' = [at EXCEPT ![c] = label] /\ target' = [target EXCEPT ![c] = t]
      BY <1>3, <3>2, <3>4 DEF Receiving, Receive, TestAbort, TestsAbort, BufferFull, CallRecv,
           ReceiveEnd, ReceiveError, Goto
    <3>5. QED
      BY <3>3, <3>4
  <2>3. Registered' = Registered
    BY <2>1 DEF Registered
  <2>. USE DEF ServingInv
  <2>4. at'[Main] = at[Main] /\ target'[Main] = target[Main]
    BY <2>2, MainIsNoConn DEF ServerInv, TypeOK, Thread
  <2>5. NobodySends' /\ ClosingIsGlobal'
    BY <2>1, <2>2, <2>4 DEF NobodySends, ClosingIsGlobal, CloseReleasing, ServerInv, TypeOK, Thread
  <2>6. FaultsAreClosing'
    BY <2>1 DEF FaultsAreClosing, Pending
  <2>7. KnownHaveHandles'
    BY <2>1, <2>3 DEF KnownHaveHandles
  <2>8. RegisteredOnce'
    BY <2>1, <2>3 DEF RegisteredOnce, Unregistered
  <2>9. MapsInStep'
    BY <2>1, <2>3, <2>4 DEF MapsInStep, Collides
  <2>10. QED
    BY <1>1, <2>5, <2>6, <2>7, <2>8, <2>9
<1>4. QED
  BY <1>2, <1>3

\* closeConnection.
LEMMA ClosingServing == ASSUME ServingInv, Closing \/ CloseConnection PROVE ServingInv'
<1>1. ServerInv'
  BY ClosingInv DEF ServingInv
<1>. USE DEF ServingInv
<1>2. Main \in Thread /\ DOMAIN at = Thread
  BY DEF ServerInv, TypeOK, Thread
<1>3. CASE Break
  <2>1. at[Main] # "idle"
    BY <1>2, <1>3 DEF Closing, CloseConnection, Release, ReleaseTest, ReleaseJoin,
       ReleaseDelete, PastTheEnd, Cleared, Closed, Break, Goto, threadVars
  <2>2. QED
    BY <1>3, <2>1, BreakServing DEF ClosingIsGlobal
<1>4. CASE CloseConnection \/ Cleared \/ Closed
  <2>1. /\ UNCHANGED <<fd, uuid, freed, clientUuidMap, cl_mutex, accepting, cur, swept, fault,
                       early>>
        /\ \/ /\ at' = [at EXCEPT ![Main] = "sweep"]
              /\ globalAbort' = TRUE /\ UNCHANGED clientMap
           \/ /\ at[Main] # "idle" /\ UNCHANGED globalAbort
              /\ \E label \in {"stopAccept", "done"} : at' = [at EXCEPT ![Main] = label]
              /\ clientMap' = clientMap \/ clientMap' = <<>>
    BY <1>4 DEF CloseConnection, Cleared, Closed, Goto, infoVars, mapVars, acceptVars,
                closeVars
  <2>2. at'[Main] \in {"sweep", "stopAccept", "done"} /\ globalAbort'
        /\ \A c \in Conn : at'[c] = at[c]
    BY <1>2, <2>1, MainIsNoConn DEF ClosingIsGlobal, Thread
  <2>3. Registered' \subseteq Registered /\ (clientMap' = clientMap \/ Len(clientMap') = 0)
    BY <2>1 DEF Registered
  <2>4. NobodySends' /\ ClosingIsGlobal' /\ FaultsAreClosing'
    BY <2>1, <2>2 DEF NobodySends, ClosingIsGlobal, CloseReleasing, FaultsAreClosing, ReleasePc
  <2>5. KnownHaveHandles'
    BY <2>1, <2>3 DEF KnownHaveHandles
  <2>6. RegisteredOnce'
    BY <2>1, <2>3 DEF RegisteredOnce, Unregistered
  <2>7. MapsInStep'
    BY <2>1, <2>2 DEF MapsInStep, Collides
  <2>8. QED
    BY <1>1, <2>4, <2>5, <2>6, <2>7
<1>5. CASE (Release \/ ReleaseTest \/ ReleaseJoin) /\ ~Break
  <2>1. \E label \in {"closeTest", "closeJoin", "closeDelete"}, t \in Registered :
          /\ at' = [at EXCEPT ![Main] = label]
          /\ target' = [target EXCEPT ![Main] = t]
          /\ swept + 1 \in 1..Len(clientMap) /\ t = clientMap[swept + 1]
    <3>1. CASE Release
      <4>1. swept + 1 \in 1..Len(clientMap)
        BY <3>1, LenProperties DEF Release, ServerInv, TypeOK
      <4>2. QED
        BY <1>5, <3>1, <4>1 DEF Release, Goto, Registered
    <3>2. CASE ReleaseTest \/ ReleaseJoin
      <4>1. swept + 1 \in 1..Len(clientMap) /\ target[Main] = clientMap[swept + 1]
        BY <3>2 DEF ReleaseTest, ReleaseJoin, ClosingIsGlobal, CloseReleasing
      <4>2. QED
        BY <1>5, <3>2, <4>1 DEF ReleaseTest, ReleaseJoin, TestReceiver, JoinReceiver, Goto,
             Registered
    <3>3. QED
      BY <1>5, <3>1, <3>2
  <2>2. /\ at[Main] # "idle"
        /\ UNCHANGED <<fd, uuid, freed, clientMap, clientUuidMap, cl_mutex, accepting, cur,
                       swept, globalAbort, fault>>
    BY <1>5 DEF Release, ReleaseTest, ReleaseJoin, TestReceiver, JoinReceiver, infoVars, mapVars,
         acceptVars, closeVars
  <2>3. /\ at'[Main] \in {"closeTest", "closeJoin", "closeDelete"}
        /\ swept + 1 \in 1..Len(clientMap) /\ target'[Main] = clientMap[swept + 1]
        /\ \A c \in Conn : at'[c] = at[c]
    BY <1>2, <2>1, MainIsNoConn DEF Thread, ServerInv, TypeOK
  <2>4. Registered' = Registered
    BY <2>2 DEF Registered
  <2>5. NobodySends' /\ ClosingIsGlobal' /\ FaultsAreClosing'
    BY <2>2, <2>3 DEF NobodySends, ClosingIsGlobal, CloseReleasing, FaultsAreClosing, Pending,
         ReleasePc
  <2>6. KnownHaveHandles' /\ RegisteredOnce' /\ MapsInStep'
    BY <2>2, <2>3, <2>4 DEF KnownHaveHandles, RegisteredOnce, Unregistered, MapsInStep, Collides
  <2>7. QED
    BY <1>1, <2>5, <2>6
<1>6. CASE ReleaseDelete /\ ~Break
  <2>1. /\ at[Main] = "closeDelete"
        /\ freed' = freed \cup {target[Main]}
        /\ at' = [at EXCEPT ![Main] = "sweep"]
        /\ UNCHANGED <<fd, uuid, clientMap, clientUuidMap, cl_mutex, accepting, cur,
                       globalAbort, fault, early>>
    BY <1>6 DEF ReleaseDelete, Goto, mapVars, acceptVars
  <2>2. at'[Main] = "sweep" /\ globalAbort /\ \A c \in Conn : at'[c] = at[c]
    BY <1>2, <2>1, MainIsNoConn DEF Thread, ClosingIsGlobal
  <2>3. Registered' = Registered /\ target[Main] \in Registered
    BY <2>1 DEF Registered, ClosingIsGlobal, CloseReleasing
  <2>4. NobodySends' /\ ClosingIsGlobal' /\ FaultsAreClosing'
    BY <2>1, <2>2 DEF NobodySends, ClosingIsGlobal, CloseReleasing, FaultsAreClosing, ReleasePc
  <2>5. KnownHaveHandles' /\ RegisteredOnce' /\ MapsInStep'
    BY <2>1, <2>2, <2>3 DEF KnownHaveHandles, RegisteredOnce, Unregistered, MapsInStep, Collides
  <2>6. QED
    BY <1>1, <2>4, <2>5
<1>7. QED
  BY <1>3, <1>4, <1>5, <1>6 DEF Closing, PastTheEnd

\* ServingInv holds for every server whose callbacks do not send.
THEOREM ServingInvariance == ASSUME ~Forwards PROVE Spec => []ServingInv
<1>1. ServingInv /\ [Next]_vars => ServingInv'
  <2>. SUFFICES ASSUME ServingInv, [Next]_vars PROVE ServingInv'
    OBVIOUS
  <2>1. CASE UNCHANGED vars
    <3>1. ServerInv'
      <4>1. UNCHANGED <<up, fd, uuid, abort, receiver, freed, owner, clientMap, clientUuidMap,
                        cl_mutex, accepting, cur, at, target, swept, globalAbort, fault, early>>
        BY <2>1 DEF vars, infoVars, mapVars, acceptVars, threadVars, closeVars
      <4>2. TypeOK'
        BY <4>1 DEF ServingInv, ServerInv, TypeOK
      <4>3. QED
        BY <4>1, <4>2 DEF ServingInv, ServerInv, PendingIsNew, Pending, TargetsAreInfos,
             ReceiversHaveHandles, OnlyKnownAreReleased, Known, Unregistered, Registered,
             RunningAreStored, InHand, DeletedAreSettled, Settled, Releasing, Deleting, Runs
    <3>2. Registered' = Registered
      BY <2>1 DEF vars, mapVars, Registered
    <3>3. NobodySends' /\ ClosingIsGlobal' /\ FaultsAreClosing'
      BY <2>1 DEF vars, infoVars, mapVars, acceptVars, threadVars, closeVars, ServingInv,
           NobodySends, ClosingIsGlobal, CloseReleasing, FaultsAreClosing, Pending
    <3>4. UNCHANGED <<fd, uuid, freed, clientMap, clientUuidMap, accepting, cur, at>>
      BY <2>1 DEF vars, infoVars, mapVars, acceptVars, threadVars
    <3>5. KnownHaveHandles'
      BY <3>2, <3>4 DEF ServingInv, KnownHaveHandles
    <3>6. RegisteredOnce'
      BY <3>2, <3>4 DEF ServingInv, RegisteredOnce, Unregistered
    <3>7. MapsInStep'
      <4>1. MapsInStep /\ Collides' = Collides
        BY <3>4 DEF ServingInv, Collides
      <4>2. QED
        BY <3>2, <3>4, <4>1 DEF MapsInStep
    <3>8. QED
      BY <3>1, <3>3, <3>5, <3>6, <3>7 DEF ServingInv
  <2>2. CASE AcceptThread \/ AcceptFails \/ SegmentedAnswer
    BY <2>2, HandshakeServing, RenewServing, RegisterServing, ReceiverServing
       DEF AcceptThread
  <2>3. CASE Closing \/ CloseConnection
    BY <2>3, ClosingServing
  <2>4. ASSUME NEW c \in Conn,
               Accept(c) \/ AcceptLate(c) \/ Leave(c) \/ Receiving(c) \/ Receive(c)
        PROVE  ServingInv'
    BY <2>4, AcceptServing, HandshakeServing, ReceiverServing
  <2>5. QED
    BY <2>1, <2>2, <2>3, <2>4 DEF Next, Sender
<1>2. QED
  BY <1>1, InitServing, PTL DEF Spec

\* While a server whose callbacks do not send is open, it neither touches deleted
\* memory nor joins a thread it must not.
THEOREM ServingIsSafe == ASSUME ~Forwards PROVE Spec => []NoFaultWhileServing
<1>1. ServingInv => NoFaultWhileServing
  BY DEF ServingInv, FaultsAreClosing, NoFaultWhileServing
<1>2. QED
  BY <1>1, ServingInvariance, PTL

\* registerClient's two maps agree, in whatever order the handshake's probe, the
\* renewal of a uuid, the registration and the receivers run.
THEOREM RegistriesAgree == ASSUME ~Forwards PROVE Spec => []MapsAgree
<1>1. ServingInv => MapsAgree
  <2>. SUFFICES ASSUME ServingInv, at[Main] = "idle"
                PROVE  /\ clientUuidMap = {<<uuid[c], c>> : c \in Registered}
                       /\ Cardinality({uuid[c] : c \in Registered}) = Len(clientMap)
                       /\ Registered \cap freed = {}
    BY DEF ServingInv, NobodySends, MapsAgree
  <2>1. /\ clientUuidMap = {<<uuid[c], c>> : c \in Registered}
        /\ \A c, d \in Registered : uuid[c] = uuid[d] => c = d
        /\ Registered \cap freed = {}
    BY DEF ServingInv, MapsInStep
  <2>. DEFINE U == {uuid[c] : c \in Registered}
              f == [i \in 1..Len(clientMap) |-> uuid[clientMap[i]]]
  <2>2. Len(clientMap) \in Nat
    BY LenProperties DEF ServingInv, ServerInv, TypeOK
  <2>3. f \in Bijection(1..Len(clientMap), U)
    <3>1. \A i \in 1..Len(clientMap) : clientMap[i] \in Registered
      BY DEF Registered
    <3>2. f \in [1..Len(clientMap) -> U]
      BY <3>1
    <3>3. \A i, j \in 1..Len(clientMap) : f[i] = f[j] => i = j
      BY <2>1, <3>1 DEF ServingInv, RegisteredOnce
    <3>4. \A u \in U : \E i \in 1..Len(clientMap) : f[i] = u
      BY DEF Registered
    <3>5. QED
      BY <3>2, <3>3, <3>4 DEF Bijection, Injection, Surjection, IsInjective
  <2>4. ExistsBijection(1..Len(clientMap), U)
    BY <2>3 DEF ExistsBijection
  <2>5. IsFiniteSet(1..Len(clientMap)) /\ Cardinality(1..Len(clientMap)) = Len(clientMap)
    <3>1. /\ IsFiniteSet(1..Len(clientMap))
          /\ Cardinality(1..Len(clientMap)) =
                IF 1 > Len(clientMap) THEN 0 ELSE Len(clientMap) - 1 + 1
      BY <2>2, FS_Interval
    <3>2. QED
      BY <2>2, <3>1
  <2>6. Cardinality(U) = Len(clientMap)
    BY <2>4, <2>5, FS_Bijection
  <2>7. QED
    BY <2>1, <2>6
<1>2. QED
  BY <1>1, ServingInvariance, PTL

-----------------------------------------------------------------------------
(* Such a server with peers that answer the handshake as they should.      *)

\* The loop of closeConnection has shut the i-th client.
PassedBy(i) ==
    /\ at[Main] \in ReleasePc
    /\ i <= swept \/ (i = swept + 1 /\ CloseReleasing)

\* The client of the handshake, and every registered one that closeConnection has
\* not come to, has the socket its handle denotes.
SocketInv ==
    /\ Unregistered => HasSocket(cur)
    /\ at[Main] = "sweep" => swept <= Len(clientMap)
    /\ \A i \in 1..Len(clientMap) :
        IF PassedBy(i) THEN clientMap[i] \in abort ELSE HasSocket(clientMap[i])

\* Closing the socket of one info closes nobody else's.
LEMMA CloseIsOwn ==
    ASSUME NEW c \in Conn, NEW d \in Conn, c # d, HasSocket(c), HasSocket(d),
           owner \in [Fd -> Conn \cup {NoConn}], Close(fd[c]), UNCHANGED fd
    PROVE  fd'[d] \in Fd /\ owner'[fd'[d]] = d
BY DEF HasSocket, Close

\* The steps that neither open nor close a socket nor move closeConnection.
LEMMA QuietSockets ==
    ASSUME ServingInv, SocketInv, UNCHANGED <<fd, owner, clientMap, swept>>,
           at'[Main] = at[Main], abort \subseteq abort',
           Unregistered' => Unregistered /\ UNCHANGED cur
    PROVE  SocketInv'
BY DEF SocketInv, PassedBy, HasSocket, CloseReleasing

\* The accept thread.
LEMMA AcceptSockets ==
    ASSUME ServingInv, SocketInv, Obedient = Conn,
           \/ AcceptThread \/ AcceptFails \/ SegmentedAnswer
           \/ \E c \in Conn : Accept(c) \/ AcceptLate(c)
    PROVE  SocketInv'
<1>. DEFINE n == Len(clientMap)
<1>1. /\ n \in Nat /\ swept \in Nat
      /\ \A i \in 1..n : clientMap[i] \in Registered /\ clientMap[i] \in Conn
  BY LenProperties, ElementOfSeq DEF ServingInv, ServerInv, TypeOK, Registered
<1>2. Pending => cur \in Conn
  BY DEF ServingInv, ServerInv, PendingIsNew
<1>3. Unregistered => cur \notin Registered
  BY DEF ServingInv, RegisteredOnce
<1>4. CASE \/ StopAccepting \/ AcceptFails \/ UnitAnswer \/ SegmentedAnswer \/ Probe
           \/ NoThread \/ \E u \in Uuid : NewUuid(u)
  BY <1>4, QuietSockets DEF StopAccepting, AcceptFails, UnitAnswer, SegmentedAnswer, Probe,
       NoThread, NextRound, NewUuid, Unregistered, infoVars, mapVars, threadVars, closeVars
<1>5. CASE NoAnswer \/ NoNewUuid
  <2>1. /\ Unregistered /\ cur \in Conn /\ Close(fd[cur]) /\ ~Unregistered'
        /\ abort \subseteq abort'
        /\ UNCHANGED <<fd, clientMap, at, swept>>
    BY <1>2, <1>5 DEF NoAnswer, NoNewUuid, NextRound, Unregistered, Pending, mapVars,
         threadVars, closeVars
  <2>2. ASSUME NEW i \in 1..n, HasSocket(clientMap[i])
        PROVE  HasSocket(clientMap[i])'
    <3>1. HasSocket(cur) /\ clientMap[i] # cur
      BY <1>1, <1>3, <2>1 DEF SocketInv
    <3>2. owner \in [Fd -> Conn \cup {NoConn}]
      BY DEF ServingInv, ServerInv, TypeOK
    <3>3. fd'[clientMap[i]] \in Fd /\ owner'[fd'[clientMap[i]]] = clientMap[i]
      BY <1>1, <2>1, <2>2, <3>1, <3>2, CloseIsOwn
    <3>4. QED
      BY <2>1, <3>3 DEF HasSocket
  <2>3. QED
    BY <2>1, <2>2 DEF SocketInv, PassedBy, CloseReleasing
<1>6. CASE OtherAnswer
  BY <1>2, <1>6 DEF OtherAnswer, Pending
<1>7. CASE Register
  <2>1. CASE Break
    BY <2>1, QuietSockets DEF Break, Unregistered, infoVars, mapVars, acceptVars,
         threadVars, closeVars
  <2>2. CASE ~Break
    <3>1. /\ Unregistered /\ cur \in Conn /\ clientMap' = Append(clientMap, cur)
          /\ accepting' = "spawn"
          /\ UNCHANGED <<fd, owner, abort, cur, at, swept>>
      BY <1>2, <1>7, <2>2 DEF Register, Unregistered, Pending, infoVars, threadVars,
           closeVars
    <3>2. /\ Len(clientMap') = n + 1
          /\ \A i \in 1..n : clientMap'[i] = clientMap[i]
          /\ clientMap'[n + 1] = cur
      BY <3>1, RegisteredAppend DEF ServingInv, ServerInv, TypeOK
    <3>3. HasSocket(cur) /\ ~PassedBy(n + 1)
      BY <1>1, <3>1 DEF SocketInv, PassedBy, CloseReleasing, ReleasePc, ServingInv,
         ClosingIsGlobal
    <3>4. \A i \in 1..(n + 1) :
             IF PassedBy(i)' THEN clientMap'[i] \in abort' ELSE HasSocket(clientMap'[i])
      BY <1>1, <3>1, <3>2, <3>3 DEF SocketInv, PassedBy, CloseReleasing
    <3>5. \A i \in 1..(n + 1) : HasSocket(clientMap'[i]) => HasSocket(clientMap[i])'
      BY <3>1 DEF HasSocket
    <3>6. QED
      BY <1>1, <3>1, <3>2, <3>4, <3>5 DEF SocketInv, Unregistered
  <2>3. QED
    BY <2>1, <2>2
<1>8. CASE Start \/ Store
  <2>1. at'[Main] = at[Main]
    BY <1>2, <1>8, MainIsNoConn DEF Start, Store, Goto, Break, threadVars, Pending, ServingInv,
         ServerInv, TypeOK, Thread
  <2>2. QED
    BY <1>8, <2>1, QuietSockets DEF Start, Store, NextRound, Break, Unregistered, infoVars,
         mapVars, acceptVars, threadVars, closeVars
<1>9. ASSUME NEW c \in Conn, Accept(c) PROVE SocketInv'
  <2>1. PICK f \in Fd : /\ owner[f] = NoConn
                        /\ fd' = [fd EXCEPT ![c] = f]
                        /\ owner' = [owner EXCEPT ![f] = c]
    BY <1>9 DEF Accept, IsLowestFree
  <2>2. /\ cur' = c /\ UNCHANGED <<abort, clientMap, at, swept>>
        /\ fd[c] = 0
    BY <1>9 DEF Accept, mapVars, threadVars, closeVars
  <2>3. HasSocket(c)'
    BY <2>1 DEF HasSocket, ServingInv, ServerInv, TypeOK
  <2>4. ASSUME NEW i \in 1..n, HasSocket(clientMap[i])
        PROVE  HasSocket(clientMap[i])'
    <3>1. clientMap[i] # c /\ clientMap[i] \in Conn
      BY <1>1, <2>2 DEF ServingInv, KnownHaveHandles
    <3>2. fd[clientMap[i]] # f
      BY <2>1, <2>4, <3>1, NoConnIsNoConn DEF HasSocket
    <3>3. QED
      BY <2>1, <2>2, <2>4, <3>1, <3>2 DEF HasSocket, ServingInv, ServerInv, TypeOK
  <2>5. QED
    BY <2>2, <2>3, <2>4 DEF SocketInv, PassedBy, CloseReleasing, HasSocket
<1>10. ASSUME NEW c \in Conn, AcceptLate(c) PROVE SocketInv'
  <2>1. PICK f \in Fd : owner[f] = NoConn /\ owner' = [owner EXCEPT ![f] = c]
    BY <1>10 DEF AcceptLate, IsLowestFree
  <2>2. UNCHANGED <<fd, abort, clientMap, at, swept>> /\ ~Unregistered'
    BY <1>10 DEF AcceptLate, Unregistered, mapVars, threadVars, closeVars
  <2>3. \A d \in Conn : HasSocket(d) => HasSocket(d)'
    BY <2>1, <2>2, NoConnIsNoConn DEF HasSocket, ServingInv, ServerInv, TypeOK
  <2>4. QED
    BY <1>1, <2>2, <2>3 DEF SocketInv, PassedBy, CloseReleasing, HasSocket
<1>11. QED
  BY <1>4, <1>5, <1>6, <1>7, <1>8, <1>9, <1>10 DEF AcceptThread

\* Receivers and peers.
LEMMA ReceiverSockets ==
    ASSUME ServingInv, SocketInv,
           \E c \in Conn : Receiving(c) \/ Receive(c) \/ Leave(c)
    PROVE  SocketInv'
<1>. USE DEF Receiving, Receive, TestAbort, TestsAbort, BufferFull, CallRecv, ReceiveEnd,
             ReceiveError, Leave, Break
<1>1. UNCHANGED <<fd, owner, clientMap, swept, accepting, cur>> /\ abort \subseteq abort'
  BY DEF infoVars, mapVars, acceptVars, closeVars
<1>2. at'[Main] = at[Main]
  BY MainIsNoConn DEF Goto, threadVars, ServingInv, ServerInv, TypeOK, Thread
<1>3. QED
  BY <1>1, <1>2, QuietSockets DEF Unregistered

\* closeConnection shuts one client after the other, each by its own handle.
LEMMA ClosingSockets ==
    ASSUME ServingInv, SocketInv, Closing \/ CloseConnection
    PROVE  SocketInv'
<1>. DEFINE n == Len(clientMap)
<1>1. /\ n \in Nat /\ swept \in Nat
      /\ \A i \in 1..n : clientMap[i] \in Registered /\ clientMap[i] \in Conn
      /\ Main \in Thread /\ DOMAIN at = Thread
  BY LenProperties, ElementOfSeq DEF ServingInv, ServerInv, TypeOK, Registered, Thread
<1>2. Unregistered => cur \in Conn /\ cur \notin Registered
  BY DEF ServingInv, ServerInv, PendingIsNew, RegisteredOnce, Unregistered, Pending
<1>3. CASE Break
  BY <1>3, QuietSockets DEF Break, Unregistered, infoVars, mapVars, acceptVars,
       threadVars, closeVars
<1>4. CASE CloseConnection
  <2>1. swept = 0 /\ at[Main] = "idle" /\ at'[Main] = "sweep"
        /\ UNCHANGED <<fd, owner, abort, clientMap, swept, accepting, cur>>
    BY <1>1, <1>4 DEF CloseConnection, Goto, infoVars, mapVars, acceptVars, ServingInv,
                 ClosingIsGlobal
  <2>2. QED
    BY <1>1, <2>1 DEF SocketInv, PassedBy, CloseReleasing, HasSocket, Unregistered
<1>5. CASE Cleared
  <2>1. at'[Main] = "stopAccept" /\ clientMap' = <<>>
        /\ UNCHANGED <<fd, owner, accepting, cur>>
    BY <1>1, <1>5 DEF Cleared, Goto, infoVars, acceptVars
  <2>2. Len(<<>>) = 0
    OBVIOUS
  <2>3. QED
    BY <2>1, <2>2 DEF SocketInv, HasSocket, Unregistered
<1>6. CASE Closed
  <2>1. at[Main] = "stopAccept" /\ at'[Main] = "done"
        /\ UNCHANGED <<fd, owner, clientMap, accepting, cur>>
    BY <1>1, <1>6 DEF Closed, Goto, infoVars, mapVars, acceptVars
  <2>2. QED
    BY <2>1 DEF SocketInv, PassedBy, CloseReleasing, ReleasePc, HasSocket, Unregistered
<1>7. CASE Release /\ ~Break
  <2>1. /\ at[Main] = "sweep" /\ at'[Main] = "closeTest" /\ swept < n
        /\ abort' = abort \cup {clientMap[swept + 1]}
        /\ Close(fd[clientMap[swept + 1]])
        /\ UNCHANGED <<fd, clientMap, swept, accepting, cur>>
    BY <1>1, <1>7 DEF Release, Goto, mapVars, acceptVars, closeVars
  <2>2. swept + 1 \in 1..n /\ HasSocket(clientMap[swept + 1])
    BY <1>1, <2>1 DEF SocketInv, PassedBy, CloseReleasing
  <2>3. owner \in [Fd -> Conn \cup {NoConn}]
    BY DEF ServingInv, ServerInv, TypeOK
  <2>4. Unregistered => fd'[cur] \in Fd /\ owner'[fd'[cur]] = cur
    BY <1>1, <1>2, <2>1, <2>2, <2>3, CloseIsOwn DEF SocketInv
  <2>5. ASSUME NEW i \in 1..n, i # swept + 1, HasSocket(clientMap[i])
        PROVE  fd'[clientMap[i]] \in Fd /\ owner'[fd'[clientMap[i]]] = clientMap[i]
    <3>1. clientMap[i] # clientMap[swept + 1]
      BY <2>2, <2>5 DEF ServingInv, RegisteredOnce
    <3>2. QED
      BY <1>1, <2>1, <2>2, <2>3, <2>5, <3>1, CloseIsOwn
  <2>6. QED
    BY <1>1, <2>1, <2>4, <2>5 DEF SocketInv, PassedBy, CloseReleasing, ReleasePc, HasSocket,
         Unregistered
<1>8. CASE (ReleaseTest \/ ReleaseJoin) /\ ~Break
  <2>1. /\ CloseReleasing
        /\ \E label \in {"closeJoin", "closeDelete"} : at' = [at EXCEPT ![Main] = label]
        /\ UNCHANGED <<fd, owner, abort, clientMap, swept, accepting, cur>>
    BY <1>8 DEF ReleaseTest, ReleaseJoin, TestReceiver, JoinReceiver, Goto, CloseReleasing,
         infoVars, mapVars, acceptVars, closeVars
  <2>2. CloseReleasing'
    BY <1>1, <2>1 DEF CloseReleasing
  <2>3. at[Main] # "sweep" /\ at'[Main] # "sweep" /\ at[Main] \in ReleasePc /\ at'[Main] \in ReleasePc
    BY <2>1, <2>2 DEF CloseReleasing, ReleasePc
  <2>4. QED
    BY <1>1, <2>1, <2>2, <2>3 DEF SocketInv, PassedBy, HasSocket, Unregistered
<1>9. CASE ReleaseDelete /\ ~Break
  <2>1. /\ at[Main] = "closeDelete" /\ at'[Main] = "sweep" /\ swept' = swept + 1
        /\ UNCHANGED <<fd, owner, abort, clientMap, accepting, cur>>
    BY <1>1, <1>9 DEF ReleaseDelete, Goto, mapVars, acceptVars
  <2>2. swept + 1 \in 1..n
    BY <2>1 DEF ServingInv, ClosingIsGlobal, CloseReleasing
  <2>3. QED
    BY <1>1, <2>1, <2>2 DEF SocketInv, PassedBy, CloseReleasing, ReleasePc, HasSocket,
         Unregistered
<1>10. QED
  BY <1>3, <1>4, <1>5, <1>6, <1>7, <1>8, <1>9 DEF Closing, PastTheEnd

\* No registered client ever shares its socket with another or loses it, but by its
\* own removal: neither a descriptor number used again nor the accept thread's
\* registration while closeConnection runs brings it about.
THEOREM SocketsAreOwn == ASSUME ~Forwards, Obedient = Conn PROVE Spec => []OwnSocket
<1>1. Init => SocketInv
  <2>. SUFFICES ASSUME Init PROVE SocketInv
    OBVIOUS
  <2>1. QED
    BY DEF Init, SocketInv, Unregistered, Thread
<1>2. ServingInv /\ SocketInv /\ [Next]_vars => SocketInv'
  <2>. SUFFICES ASSUME ServingInv, SocketInv, [Next]_vars PROVE SocketInv'
    OBVIOUS
  <2>1. CASE UNCHANGED vars
    BY <2>1, QuietSockets DEF vars, infoVars, mapVars, acceptVars, threadVars, closeVars,
         Unregistered
  <2>2. CASE \/ AcceptThread \/ AcceptFails \/ SegmentedAnswer
             \/ \E c \in Conn : Accept(c) \/ AcceptLate(c)
    BY <2>2, AcceptSockets
  <2>3. CASE Closing \/ CloseConnection
    BY <2>3, ClosingSockets
  <2>4. CASE \E c \in Conn : Receiving(c) \/ Receive(c) \/ Leave(c)
    BY <2>4, ReceiverSockets
  <2>5. QED
    BY <2>1, <2>2, <2>3, <2>4 DEF Next, Sender
<1>3. ServingInv /\ SocketInv => OwnSocket
  BY DEF SocketInv, OwnSocket, Registered
<1>4. QED
  BY <1>1, <1>2, <1>3, ServingInvariance, PTL DEF Spec
=============================================================================
