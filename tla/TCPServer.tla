------------------------------ MODULE TCPServer ------------------------------
(***************************************************************************)
(* src/cpp/code/src/server/TCPServer.cpp as the threads of one server      *)
(* process share it: the accept thread, which runs the handshake and       *)
(* registers clients; one receiver thread per registered client; and the   *)
(* main thread, which finally closes the server.  cl_mutex guards some of  *)
(* the accesses to clientMap and clientUuidMap; the others are as unlocked *)
(* here as they are there.                                                 *)
(*                                                                         *)
(* A connection c stands for its socket, for the ClientInfo that the       *)
(* handshake makes for it and for the receiver thread of that ClientInfo.  *)
(* clientMap is the concatenation of its vectors.  Undefined behaviour     *)
(* (freed memory, a dangling iterator, a thread joined by itself) sets     *)
(* fault, after which nothing is said of the process.                      *)
(***************************************************************************)
EXTENDS Naturals, Sequences, FiniteSets

CONSTANTS Conn,         \* connections peers may open
          NoConn,       \* none of them
          Fd,           \* numbers of file descriptors
          Uuid,         \* session uuids
          UuidOf,       \* the uuid in a peer's first answer
          Forwards,     \* callbacks send to other clients: the broker of
                        \* examples/tcp_server_example.cpp does, DBServer does not
          Obedient      \* peers that answer the handshake with UpdateUnitType

ASSUME NoConnIsNoConn == NoConn \notin Conn
ASSUME FdType == Fd \subseteq Nat \ {0}      \* 0 is no descriptor
ASSUME UuidOfType == UuidOf \in [Conn -> Uuid]
ASSUME ObedientType == Obedient \subseteq Conn
ASSUME SwitchType == Forwards \in BOOLEAN

Main == "main"
Nobody == "nobody"
Thread == Conn \cup {Main}      \* a receiver is called by its connection

ASSUME MainIsNoConn == Main \notin Conn

VARIABLES up,           \* peers that have not closed their side
          fd,           \* ClientInfo::handle
          uuid,         \* ClientInfo::uuid
          abort,        \* infos whose abort is set
          receiver,     \* infos whose receiver is stored, not null
          freed,        \* infos that have been deleted
          owner,        \* the connection each descriptor number denotes
          clientMap,
          clientUuidMap,\* a set of <<uuid, info>> pairs
          cl_mutex,     \* its owner
          accepting,    \* what the accept thread does next
          cur,          \* the connection its handshake is about
          at,           \* what every other thread does next
          target,       \* the ClientInfo* a thread works on; in recv, the
                        \* connection whose socket it reads
          swept,        \* infos closeConnection has passed in its loop
          globalAbort,
          fault,
          early         \* history: infos whose release looked for a receiver
                        \* while the accept thread had not stored it yet

acceptVars == <<accepting, cur>>
infoVars == <<fd, uuid, abort, receiver, freed, owner>>
mapVars == <<clientMap, clientUuidMap>>
threadVars == <<at, target>>
closeVars == <<swept, globalAbort>>
vars == <<up, infoVars, mapVars, cl_mutex, acceptVars, threadVars, closeVars, fault, early>>

AcceptPc == {"accept", "answer", "probe", "renew", "register", "spawn", "store",
             "stopped", "exit"}
RemovePc == {"send", "remove", "test", "join", "delete"}
ReceiverPc == RemovePc \cup {"none", "loop", "call", "recv", "ended"}
ReleasePc == {"sweep", "closeTest", "closeJoin", "closeDelete"}
MainPc == RemovePc \cup ReleasePc \cup {"idle", "stopAccept", "done"}

TypeOK ==
    /\ up \subseteq Conn
    /\ fd \in [Conn -> Fd \cup {0}]
    /\ uuid \in [Conn -> Uuid]
    /\ abort \subseteq Conn /\ receiver \subseteq Conn /\ freed \subseteq Conn
    /\ owner \in [Fd -> Conn \cup {NoConn}]
    /\ clientMap \in Seq(Conn)
    /\ clientUuidMap \subseteq Uuid \X Conn
    /\ cl_mutex \in Thread \cup {Nobody}
    /\ accepting \in AcceptPc
    /\ cur \in Conn \cup {NoConn}
    /\ at \in [Thread -> ReceiverPc \cup MainPc]
    /\ at[Main] \in MainPc /\ \A c \in Conn : at[c] \in ReceiverPc
    /\ target \in [Thread -> Conn \cup {NoConn}]
    /\ swept \in Nat
    /\ globalAbort \in BOOLEAN
    /\ fault \in BOOLEAN
    /\ early \subseteq Conn

Init ==
    /\ up = {}
    /\ fd = [c \in Conn |-> 0]
    /\ uuid = UuidOf
    /\ abort = {} /\ receiver = {} /\ freed = {}
    /\ owner = [f \in Fd |-> NoConn]
    /\ clientMap = <<>>
    /\ clientUuidMap = {}
    /\ cl_mutex = Nobody
    /\ accepting = "accept"
    /\ cur = NoConn
    /\ at = [x \in Thread |-> IF x = Main THEN "idle" ELSE "none"]
    /\ target = [x \in Thread |-> NoConn]
    /\ swept = 0
    /\ globalAbort = FALSE
    /\ fault = FALSE
    /\ early = {}

-----------------------------------------------------------------------------
(* Helpers                                                                 *)

Registered == {clientMap[i] : i \in 1..Len(clientMap)}

\* The vector without its element p.
Without(p) == [i \in 1..(Len(clientMap) - 1) |-> clientMap[IF i < p THEN i ELSE i + 1]]

\* close(f), whoever f denotes by now.
Close(f) == owner' = [owner EXCEPT ![f] = NoConn]

\* The handle still denotes the info's own socket.
HasSocket(c) == fd[c] \in Fd /\ owner[fd[c]] = c

Home(x) == IF x = Main THEN "idle" ELSE "loop"

Goto(x, label, t) ==
    /\ at' = [at EXCEPT ![x] = label]
    /\ target' = [target EXCEPT ![x] = t]

\* Undefined behaviour: nothing else is said of the step.
Break ==
    /\ fault' = TRUE
    /\ UNCHANGED <<up, infoVars, mapVars, cl_mutex, acceptVars, threadVars, closeVars, early>>

-----------------------------------------------------------------------------
(* acceptLoop and the connect callback                                     *)

\* The number accept gives: the lowest free one.
IsLowestFree(f) == owner[f] = NoConn /\ \A g \in Fd : owner[g] = NoConn => f <= g

\* The callback returns, and the loop tests globalAbort.
NextRound == IF globalAbort THEN "stopped" ELSE "accept"

Accept(c) ==
    /\ accepting = "accept" /\ ~globalAbort
    /\ fd[c] = 0
    /\ \E f \in Fd :
        /\ IsLowestFree(f)
        /\ fd' = [fd EXCEPT ![c] = f]
        /\ owner' = [owner EXCEPT ![f] = c]
    /\ up' = up \cup {c}
    /\ accepting' = "answer" /\ cur' = c
    /\ UNCHANGED <<uuid, abort, receiver, freed, mapVars, cl_mutex, threadVars,
                   closeVars, fault, early>>

\* accept returns a connection after globalAbort has been set: the loop is left and
\* the socket stays open, with no info to close it.
AcceptLate(c) ==
    /\ accepting = "accept" /\ globalAbort
    /\ fd[c] = 0
    /\ \E f \in Fd : IsLowestFree(f) /\ owner' = [owner EXCEPT ![f] = c]
    /\ up' = up \cup {c}
    /\ accepting' = "stopped" /\ cur' = NoConn
    /\ UNCHANGED <<fd, uuid, abort, receiver, freed, mapVars, cl_mutex, threadVars,
                   closeVars, fault, early>>

\* socket, bind, listen or accept fails: the exception ends the process.
AcceptFails ==
    /\ accepting = "accept" /\ ~globalAbort
    /\ accepting' = "exit" /\ cur' = NoConn
    /\ UNCHANGED <<up, infoVars, mapVars, cl_mutex, threadVars, closeVars, fault, early>>

\* The loop condition, or accept returning because the server's handle is shut.
StopAccepting ==
    /\ accepting = "accept" /\ globalAbort
    /\ accepting' = "stopped" /\ cur' = NoConn
    /\ UNCHANGED <<up, infoVars, mapVars, cl_mutex, threadVars, closeVars, fault, early>>

\* No answer within two seconds, or one that does not begin with a delimiter.
NoAnswer ==
    /\ accepting = "answer"
    /\ Close(fd[cur])
    /\ accepting' = NextRound /\ cur' = NoConn
    /\ UNCHANGED <<up, fd, uuid, abort, receiver, freed, mapVars, cl_mutex, threadVars,
                   closeVars, fault, early>>

UnitAnswer ==
    /\ accepting = "answer" /\ cur \in up /\ HasSocket(cur)
    /\ accepting' = "probe"
    /\ UNCHANGED <<up, infoVars, mapVars, cl_mutex, cur, threadVars, closeVars, fault, early>>

\* The answer comes in two segments, whatever its type: exit(-1).
SegmentedAnswer ==
    /\ accepting = "answer" /\ cur \in up /\ HasSocket(cur)
    /\ accepting' = "exit" /\ cur' = NoConn
    /\ UNCHANGED <<up, infoVars, mapVars, cl_mutex, threadVars, closeVars, fault, early>>

\* Another package type: the handle is freed, but the callback goes on.
OtherAnswer ==
    /\ accepting = "answer" /\ cur \in up /\ HasSocket(cur) /\ cur \notin Obedient
    /\ Close(fd[cur])
    /\ accepting' = "probe"
    /\ UNCHANGED <<up, fd, uuid, abort, receiver, freed, mapVars, cl_mutex, cur, threadVars,
                   closeVars, fault, early>>

\* The probe for a colliding uuid takes the lock and gives it back.
Collides == \E c \in Conn : <<uuid[cur], c>> \in clientUuidMap

Probe ==
    /\ accepting = "probe"
    /\ cl_mutex = Nobody
    /\ accepting' = IF Collides THEN "renew" ELSE "register"
    /\ UNCHANGED <<up, infoVars, mapVars, cl_mutex, cur, threadVars, closeVars, fault, early>>

NewUuid(u) ==
    /\ accepting = "renew" /\ HasSocket(cur) /\ cur \in up
    /\ uuid' = [uuid EXCEPT ![cur] = u]
    /\ accepting' = "probe"
    /\ UNCHANGED <<up, fd, abort, receiver, freed, owner, mapVars, cl_mutex, cur, threadVars,
                   closeVars, fault, early>>

\* Mutant: the callback goes on with the info it deleted.
NoNewUuidGoesOn ==
    /\ accepting = "renew"
    /\ Close(fd[cur])
    /\ freed' = freed \cup {cur}
    /\ abort' = abort \cup {cur}
    /\ accepting' = "register"
    /\ UNCHANGED <<up, fd, uuid, receiver, mapVars, cl_mutex, cur, threadVars, closeVars,
                   fault, early>>

\* No new uuid, or a wrong answer: the handle is freed and the info deleted,
\* whose destructor frees the handle once more.
NoNewUuid ==
    /\ accepting = "renew"
    /\ Close(fd[cur])
    /\ freed' = freed \cup {cur}
    /\ abort' = abort \cup {cur}
    /\ accepting' = NextRound /\ cur' = NoConn
    /\ UNCHANGED <<up, fd, uuid, receiver, mapVars, cl_mutex, threadVars, closeVars,
                   fault, early>>

Register ==
    /\ accepting = "register"
    /\ cl_mutex = Nobody
    /\ \/ /\ clientMap' = Append(clientMap, cur)
          /\ clientUuidMap' =
                {p \in clientUuidMap : p[1] # uuid[cur]} \cup {<<uuid[cur], cur>>}
          /\ accepting' = "spawn"
          /\ UNCHANGED <<up, infoVars, cl_mutex, cur, threadVars, closeVars, fault, early>>
       \* push_back moves the vector that closeConnection is walking.
       \/ at[Main] \in ReleasePc /\ Break

\* The registered client has no receiver in its info yet.
InHand(c) == accepting \in {"spawn", "store"} /\ cur = c

\* The receiver begins to run, whether or not its info still exists ...
Start ==
    /\ accepting = "spawn"
    /\ Goto(cur, "loop", NoConn)
    /\ accepting' = "store"
    /\ UNCHANGED <<up, infoVars, mapVars, cl_mutex, cur, closeVars, fault, early>>

\* ... or the system has no thread to give, which the callback only reports ...
NoThread ==
    /\ accepting = "spawn"
    /\ accepting' = NextRound /\ cur' = NoConn
    /\ UNCHANGED <<up, infoVars, mapVars, cl_mutex, threadVars, closeVars, fault, early>>

\* ... and is stored in the info afterwards, without the lock.
Store ==
    /\ accepting = "store"
    /\ \/ cur \in freed /\ Break
       \/ /\ cur \notin freed
          /\ receiver' = receiver \cup {cur}
          /\ accepting' = NextRound /\ cur' = NoConn
          /\ UNCHANGED <<up, fd, uuid, abort, freed, owner, mapVars, cl_mutex, threadVars,
                         closeVars, fault, early>>

-----------------------------------------------------------------------------
(* The receiver loop.  A receiver in recv reads the socket that the number of its
   handle denoted when it called: its own or, when that was closed in the meantime,
   the one of whoever got the number.                                      *)

\* abort is read, in an info that may have been deleted.
TestsAbort(c) ==
    \/ c \in freed /\ Break
    \/ /\ c \notin freed
       /\ Goto(c, IF c \in abort THEN "ended" ELSE "call", NoConn)
       /\ UNCHANGED <<up, infoVars, mapVars, cl_mutex, acceptVars, closeVars, fault, early>>

TestAbort(c) == at[c] = "loop" /\ TestsAbort(c)

\* No message has been found in a full buffer.
BufferFull(c) ==
    /\ at[c] = "call" /\ c \notin freed
    /\ abort' = abort \cup {c}
    /\ Goto(c, "ended", NoConn)
    /\ UNCHANGED <<up, fd, uuid, receiver, freed, owner, mapVars, cl_mutex, acceptVars,
                   closeVars, fault, early>>

\* recv is called with the handle as it is in the info, which may denote nothing.
CallRecv(c) ==
    /\ at[c] = "call"
    /\ \/ c \in freed /\ Break
       \/ /\ c \notin freed
          /\ IF owner[fd[c]] = NoConn THEN Goto(c, "ended", NoConn)
                                      ELSE Goto(c, "recv", owner[fd[c]])
          /\ UNCHANGED <<up, infoVars, mapVars, cl_mutex, acceptVars, closeVars, fault, early>>

IsOpen(s) == \E f \in Fd : owner[f] = s

\* The end of the stream, which a release forces by shutting the socket; abort
\* is set.
ReceiveEnd(c) ==
    /\ at[c] = "recv"
    /\ target[c] \notin up \/ ~IsOpen(target[c])
    /\ \/ c \in freed /\ Break
       \/ /\ c \notin freed
          /\ abort' = abort \cup {c}
          /\ Goto(c, "ended", NoConn)
          /\ UNCHANGED <<up, fd, uuid, receiver, freed, owner, mapVars, cl_mutex, acceptVars,
                         closeVars, fault, early>>

\* The connection is reset: the loop is left without setting abort.
ReceiveError(c) ==
    /\ at[c] = "recv" /\ target[c] \notin up
    /\ Goto(c, "ended", NoConn)
    /\ UNCHANGED <<up, infoVars, mapVars, cl_mutex, acceptVars, closeVars, fault, early>>

\* A message that makes no callback send, or the time-out the handshake has put on
\* the socket: the next round begins.
Receive(c) == at[c] = "recv" /\ target[c] \in up /\ TestsAbort(c)

\* A message arrives whose callback sends to a client it finds in the registry; the
\* main thread of the broker does the same on a command.  The lookup takes no lock.
\* sendTo begins with a test of abort.
Lookup(x, t) ==
    /\ IF x = Main THEN at[x] = "idle" ELSE at[x] = "recv" /\ target[x] \in up
    /\ \E u \in Uuid : <<u, t>> \in clientUuidMap
    /\ Goto(x, IF t \in abort THEN "remove" ELSE "send", t)
    /\ UNCHANGED <<up, infoVars, mapVars, cl_mutex, acceptVars, closeVars, fault, early>>

-----------------------------------------------------------------------------
(* sendTo and removeClient, run by thread x                                *)

\* Something has been written to the socket that the handle denotes by now.
SendSucceeds(x) ==
    /\ at[x] = "send" /\ target[x] \notin freed
    /\ owner[fd[target[x]]] # NoConn
    /\ Goto(x, Home(x), NoConn)
    /\ UNCHANGED <<up, infoVars, mapVars, cl_mutex, acceptVars, closeVars, fault, early>>

\* send fails: the peer is gone or does not take its data as fast as a
\* non-blocking send wants.
SendFails(x) ==
    /\ at[x] = "send" /\ target[x] \notin freed
    /\ Goto(x, "remove", target[x])
    /\ UNCHANGED <<up, infoVars, mapVars, cl_mutex, acceptVars, closeVars, fault, early>>

\* The infos in the map with the handle of the target, and the first of them.
SameHandle(t) == {i \in 1..Len(clientMap) : fd[clientMap[i]] = fd[t]}
IsFirst(i, t) == i \in SameHandle(t) /\ \A j \in SameHandle(t) : i <= j

\* The target has been deleted since it was looked up, or the loop comes by an info
\* that closeConnection has deleted and not yet taken out of its vector.
UseAfterFree(x) ==
    /\ \/ at[x] \in {"send", "remove"} /\ target[x] \in freed
       \/ /\ at[x] = "remove" /\ cl_mutex = Nobody
          /\ \E i \in 1..Len(clientMap) :
              /\ clientMap[i] \in freed
              /\ \A j \in SameHandle(target[x]) : i <= j
    /\ Break

\* Mutant: the receiver is joined but its socket not shut.
RemoveNotShut(x) ==
    /\ at[x] = "remove" /\ target[x] \notin freed
    /\ cl_mutex = Nobody
    /\ \E i \in 1..Len(clientMap) :
        /\ IsFirst(i, target[x])
        /\ LET info == clientMap[i]
           IN  /\ clientUuidMap' = {p \in clientUuidMap : p[1] # uuid[info]}
               /\ abort' = abort \cup {info}
               /\ cl_mutex' = x
               /\ Goto(x, "test", info)
    /\ UNCHANGED <<up, fd, uuid, receiver, freed, owner, clientMap, acceptVars, closeVars,
                   fault, early>>

\* Mutant: the uuid is not erased.
RemoveKeepsUuid(x) ==
    /\ at[x] = "remove" /\ target[x] \notin freed
    /\ cl_mutex = Nobody
    /\ \E i \in 1..Len(clientMap) :
        /\ IsFirst(i, target[x])
        /\ abort' = abort \cup {clientMap[i]}
        /\ Close(fd[clientMap[i]])
        /\ cl_mutex' = x
        /\ Goto(x, "test", clientMap[i])
    /\ UNCHANGED <<up, fd, uuid, receiver, freed, mapVars, acceptVars, closeVars, fault, early>>

\* removeClient as far as release closes the socket: the lock is taken, the info
\* found by its handle, its uuid erased.
Remove(x) ==
    /\ at[x] = "remove" /\ target[x] \notin freed
    /\ cl_mutex = Nobody
    /\ \/ /\ SameHandle(target[x]) = {}
          /\ Goto(x, Home(x), NoConn)
          /\ UNCHANGED <<abort, owner, clientUuidMap, cl_mutex>>
       \/ \E i \in 1..Len(clientMap) :
           /\ IsFirst(i, target[x])
           /\ LET info == clientMap[i]
              IN  /\ clientUuidMap' = {p \in clientUuidMap : p[1] # uuid[info]}
                  /\ abort' = abort \cup {info}
                  /\ Close(fd[info])
                  /\ cl_mutex' = x
                  /\ Goto(x, "test", info)
    /\ UNCHANGED <<up, fd, uuid, receiver, freed, clientMap, acceptVars, closeVars, fault, early>>

\* release: is there a receiver to join?
TestReceiver(x, join, delete) ==
    /\ \/ target[x] \in freed /\ Break
       \/ /\ target[x] \notin freed
          /\ Goto(x, IF target[x] \in receiver THEN join ELSE delete, target[x])
          /\ early' = IF InHand(target[x]) THEN early \cup {target[x]} ELSE early
          /\ UNCHANGED <<up, infoVars, mapVars, cl_mutex, acceptVars, closeVars, fault>>

\* Its receiver joined, the info forgets it.  One that two threads join is undefined.
JoinReceiver(x, delete) ==
    /\ \/ /\ \/ target[x] \notin receiver
             \/ \E y \in Thread \ {x} :
                    at[y] \in {"join", "closeJoin"} /\ target[y] = target[x]
          /\ Break
       \/ /\ at[target[x]] = "ended"
          /\ receiver' = receiver \ {target[x]}
          /\ Goto(x, delete, target[x])
          /\ UNCHANGED <<up, fd, uuid, abort, freed, owner, mapVars, cl_mutex, acceptVars,
                         closeVars, fault, early>>

\* Mutant: nothing is joined.
TestNothing(x) ==
    /\ at[x] = "test"
    /\ Goto(x, "delete", target[x])
    /\ UNCHANGED <<up, infoVars, mapVars, cl_mutex, acceptVars, closeVars, fault, early>>

Test(x) == at[x] = "test" /\ TestReceiver(x, "join", "delete")

Join(x) == at[x] = "join" /\ JoinReceiver(x, "delete")

\* A receiver removes its own client.
JoinsItself(x) ==
    /\ at[x] = "join" /\ target[x] = x
    /\ Break

\* Mutant: release has not been noted, and the destructor releases once more.
DeleteReleases(x) ==
    /\ at[x] = "delete"
    /\ Close(fd[target[x]])
    /\ freed' = freed \cup {target[x]}
    /\ \E i \in 1..Len(clientMap) : clientMap[i] = target[x] /\ clientMap' = Without(i)
    /\ cl_mutex' = Nobody
    /\ Goto(x, Home(x), NoConn)
    /\ UNCHANGED <<up, fd, uuid, abort, receiver, clientUuidMap, acceptVars, closeVars,
                   fault, early>>

\* The info is deleted and erased, and the lock released, all while other receivers
\* run; closeConnection may have deleted it, or cleared the vector, before.
Delete(x) ==
    /\ at[x] = "delete"
    /\ \/ (target[x] \in freed \/ target[x] \notin Registered) /\ Break
       \/ /\ target[x] \notin freed
          /\ freed' = freed \cup {target[x]}
          /\ \E i \in 1..Len(clientMap) : clientMap[i] = target[x] /\ clientMap' = Without(i)
          /\ cl_mutex' = Nobody
          /\ Goto(x, Home(x), NoConn)
          /\ UNCHANGED <<up, fd, uuid, abort, receiver, owner, clientUuidMap, acceptVars,
                         closeVars, fault, early>>

-----------------------------------------------------------------------------
(* closeConnection, run by the main thread without the lock                *)

CloseConnection ==
    /\ at[Main] = "idle"
    /\ globalAbort' = TRUE
    /\ Goto(Main, "sweep", NoConn)
    /\ UNCHANGED <<up, infoVars, mapVars, cl_mutex, acceptVars, swept, fault, early>>

\* Mutant: the receiver is joined but its socket not shut.
ReleaseNotShut ==
    /\ at[Main] = "sweep" /\ swept < Len(clientMap)
    /\ abort' = abort \cup {clientMap[swept + 1]}
    /\ Goto(Main, "closeTest", clientMap[swept + 1])
    /\ UNCHANGED <<up, fd, uuid, receiver, freed, owner, mapVars, cl_mutex, acceptVars,
                   closeVars, fault, early>>

\* release of the next info, as far as its socket is closed.
Release ==
    /\ at[Main] = "sweep" /\ swept < Len(clientMap)
    /\ LET info == clientMap[swept + 1]
       IN  IF info \in freed
           THEN Break
           ELSE /\ abort' = abort \cup {info}
                /\ Close(fd[info])
                /\ Goto(Main, "closeTest", info)
                /\ UNCHANGED <<up, fd, uuid, receiver, freed, mapVars, cl_mutex, acceptVars,
                               closeVars, fault, early>>

ReleaseTest == at[Main] = "closeTest" /\ TestReceiver(Main, "closeJoin", "closeDelete")

ReleaseJoin == at[Main] = "closeJoin" /\ JoinReceiver(Main, "closeDelete")

ReleaseDelete ==
    /\ at[Main] = "closeDelete"
    /\ \/ target[Main] \in freed /\ Break
       \/ /\ target[Main] \notin freed
          /\ freed' = freed \cup {target[Main]}
          /\ swept' = swept + 1
          /\ Goto(Main, "sweep", NoConn)
          /\ UNCHANGED <<up, fd, uuid, abort, receiver, owner, mapVars, cl_mutex, acceptVars,
                         globalAbort, fault, early>>

\* A removal has shortened the vector behind the loop's back, which now runs past
\* its end.
PastTheEnd == at[Main] = "sweep" /\ swept > Len(clientMap) /\ Break

\* The vectors are cleared (the uuid map is not) and the server's handle shut.
Cleared ==
    /\ at[Main] = "sweep" /\ swept = Len(clientMap)
    /\ clientMap' = <<>>
    /\ Goto(Main, "stopAccept", NoConn)
    /\ UNCHANGED <<up, infoVars, clientUuidMap, cl_mutex, acceptVars, closeVars, fault, early>>

\* The accept thread is joined.
Closed ==
    /\ at[Main] = "stopAccept" /\ accepting = "stopped"
    /\ Goto(Main, "done", NoConn)
    /\ UNCHANGED <<up, infoVars, mapVars, cl_mutex, acceptVars, closeVars, fault, early>>

-----------------------------------------------------------------------------
(* The environment and the specification                                   *)

Leave(c) ==
    /\ c \in up
    /\ up' = up \ {c}
    /\ UNCHANGED <<infoVars, mapVars, cl_mutex, acceptVars, threadVars, closeVars, fault, early>>

AcceptThread ==
    \/ StopAccepting \/ NoAnswer \/ UnitAnswer \/ OtherAnswer
    \/ Probe \/ NoNewUuid \/ Register \/ Start \/ NoThread \/ Store
    \/ \E u \in Uuid : NewUuid(u)

Receiving(c) ==
    TestAbort(c) \/ BufferFull(c) \/ CallRecv(c) \/ ReceiveEnd(c) \/ ReceiveError(c)

Sending(x) ==
    \/ SendSucceeds(x) \/ SendFails(x) \/ UseAfterFree(x)
    \/ Remove(x) \/ Test(x) \/ Join(x) \/ JoinsItself(x) \/ Delete(x)

\* The threads whose callbacks send.
Sender == IF Forwards THEN Thread ELSE {}

Closing ==
    \/ Release \/ ReleaseTest \/ ReleaseJoin \/ ReleaseDelete
    \/ PastTheEnd \/ Cleared \/ Closed

Running == ~fault /\ accepting # "exit"

Next ==
    /\ Running
    /\ \/ AcceptThread \/ AcceptFails \/ SegmentedAnswer
       \/ Closing \/ CloseConnection
       \/ \E c \in Conn : Accept(c) \/ AcceptLate(c) \/ Leave(c) \/ Receiving(c) \/ Receive(c)
       \/ \E x \in Sender : Sending(x) \/ \E t \in Conn : Lookup(x, t)

Spec == Init /\ [][Next]_vars

FreshUuid == CHOOSE u \in Uuid : \A c \in Conn : <<u, c>> \notin clientUuidMap

\* Every thread that can go on does: the handshake has timeouts, recv returns
\* when its socket is shut, a lock that is free again and again is got, and a
\* peer that draws uuids at random draws a free one sooner or later.
FairSpec ==
    /\ Spec
    /\ SF_vars(Running /\ AcceptThread)
    /\ SF_vars(Running /\ NewUuid(FreshUuid))
    /\ WF_vars(Running /\ Closing)
    /\ \A c \in Conn : WF_vars(Running /\ Receiving(c))
    /\ \A x \in Sender : SF_vars(Running /\ Sending(x))

-----------------------------------------------------------------------------
(* Properties *)

\* While nobody removes or closes, the two maps hold the same infos, under
\* their current and distinct uuids, and none of them is freed.
MapsAgree ==
    cl_mutex = Nobody /\ at[Main] \notin ReleasePc \cup {"stopAccept", "done"} /\ ~fault =>
        /\ clientUuidMap = {<<uuid[c], c>> : c \in Registered}
        /\ Cardinality({uuid[c] : c \in Registered}) = Len(clientMap)
        /\ Registered \cap freed = {}

\* An info is deleted only when its receiver, which uses it in every round of
\* its loop, has ended or does not exist.  The one gap: its release looked for the
\* receiver while the accept thread had registered the client and not stored it.
JoinedBeforeFreed ==
    ~fault => \A c \in freed : at[c] \in {"none", "ended"} \/ c \in early

\* Every registered client has a socket of its own until it is removed, so nothing
\* sent to it reaches another client and closing it closes no other, although
\* numbers are used again as soon as a removal closes them.  The broker loses this
\* once it closes, when closeConnection shuts handles that a removal has closed.
OwnSocket ==
    ~fault /\ ~(Forwards /\ globalAbort) => \A c \in Registered \ abort : HasSocket(c)

\* As long as it is not closed, a server whose callbacks do not send never
\* touches freed memory or joins a thread it should not.
NoFaultWhileServing == fault => globalAbort

\* A receiver that tested abort before its socket was closed has called recv after
\* the number was used again: closing its own socket does not wake it.
Strays(c) == at[c] = "recv" /\ target[c] # c

\* closeConnection comes back, unless it waits for a receiver that strays.
CloseReturns ==
    globalAbort ~> \/ at[Main] = "done" \/ ~Running
                   \/ at[Main] = "closeJoin" /\ Strays(target[Main])

\* A removal that waits for a receiver waits for good only when that receiver
\* itself wants to remove somebody, and so waits for the lock the removal holds,
\* or strays.
RemovalEnds ==
    cl_mutex # Nobody ~>
        \/ cl_mutex = Nobody \/ ~Running
        \/ \E x \in Thread : /\ at[x] = "join"
                             /\ at[target[x]] = "remove" \/ Strays(target[x])
=============================================================================
