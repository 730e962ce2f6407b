----------------------------- MODULE TCPClient -----------------------------
(***************************************************************************)
(* src/cpp/code/src/client/TCPClient.cpp: one connection to the server,    *)
(* the thread that listens on it and what the other threads of the client  *)
(* do with it.  Messages travel whole, as Framing shows.  The module has   *)
(* no specification of its own; DBClient composes it with its users.       *)
(***************************************************************************)
EXTENDS Naturals, Sequences, FiniteSets

CONSTANT Congested      \* the messages that may find the socket full

VARIABLES shut,         \* shutdown has been called on the socket
          closed,       \* and close
          globalAbort,
          listener,     \* what listenLoop does next
          message,      \* the message its callback is given
          inbox,        \* messages of the server that have not been received
          gone,         \* the server has closed its side
          wire,         \* the messages the server gets
          lost,         \* the messages send has not taken, or not whole
          misused       \* the threads that have used the descriptor after close

socketVars == <<shut, closed, globalAbort>>
listenVars == <<listener, message, inbox>>
sendVars == <<wire, lost, misused>>
tcpVars == <<socketVars, listenVars, gone, sendVars>>

Listener == "listener"
MainThread == "main"

Msg(kind, plan, item) == [kind |-> kind, plan |-> plan, item |-> item]
Answer(kind) == Msg(kind, 0, 0)
Cut == Answer("cut")

TCPInit ==
    /\ shut = FALSE /\ closed = FALSE /\ globalAbort = FALSE
    /\ listener = "none" /\ message = "none"
    /\ inbox = <<>> /\ gone = FALSE
    /\ wire = <<>> /\ lost = {} /\ misused = {}

-----------------------------------------------------------------------------
(***************************************************************************)
(* notifyHost does not look at what send returns.  A socket that is full   *)
(* holds an earlier message; it takes nothing, or the beginning of the     *)
(* message.                                                                *)
(***************************************************************************)
Uses(thread) == misused' = IF closed THEN misused \cup {thread} ELSE misused

notifyHost(thread, m) ==
    /\ Uses(thread)
    /\ \/ /\ ~shut /\ ~closed /\ ~gone
          /\ wire' = Append(wire, m)
          /\ UNCHANGED lost
       \/ /\ ~shut /\ ~closed /\ ~gone
          /\ m \in Congested /\ wire # <<>>
          /\ wire' \in {wire, Append(wire, Cut)}
          /\ lost' = lost \cup {m}
       \/ /\ ~closed /\ (shut \/ gone)
          /\ lost' = lost \cup {m}
          /\ UNCHANGED wire
       \/ /\ closed
          /\ UNCHANGED <<wire, lost>>

\* start: the connection stands and the listener runs.
start ==
    /\ listener = "none"
    /\ listener' = "test"
    /\ UNCHANGED <<socketVars, message, inbox, gone, sendVars>>

\* No socket, a wrong address or nobody who listens there: start throws.
startFails ==
    /\ listener = "none"
    /\ UNCHANGED tcpVars

\* Mutant: the socket is only closed.
ShutdownNot ==
    /\ shut' = shut
    /\ UNCHANGED <<closed, globalAbort, listenVars, gone, sendVars>>

(***************************************************************************)
(* The four steps of closeConnection.  The first two are calls on the      *)
(* descriptor, which an earlier closeConnection may have closed.           *)
(***************************************************************************)
Shutdown ==
    /\ shut' = TRUE
    /\ Uses(MainThread)
    /\ UNCHANGED <<closed, globalAbort, listenVars, gone, wire, lost>>

Close ==
    /\ closed' = TRUE
    /\ Uses(MainThread)
    /\ UNCHANGED <<shut, globalAbort, listenVars, gone, wire, lost>>

Abort ==
    /\ globalAbort' = TRUE
    /\ UNCHANGED <<shut, closed, listenVars, gone, sendVars>>

Join ==
    /\ listener = "over"
    /\ UNCHANGED tcpVars

-----------------------------------------------------------------------------
(***************************************************************************)
(* listenLoop.  recv blocks until there is a message or the connection is  *)
(* shut down on either side; close alone wakes nobody.                     *)
(***************************************************************************)
TestAbort ==
    /\ listener = "test"
    /\ listener' = IF globalAbort THEN "over" ELSE "call"
    /\ UNCHANGED <<socketVars, message, inbox, gone, sendVars>>

CallRecv ==
    /\ listener = "call"
    /\ listener' = IF closed THEN "failed" ELSE "recv"
    /\ Uses(Listener)
    /\ UNCHANGED <<socketVars, message, inbox, gone, wire, lost>>

Received ==
    /\ listener = "recv"
    /\ inbox # <<>>
    /\ listener' = "callback"
    /\ message' = Head(inbox)
    /\ inbox' = Tail(inbox)
    /\ UNCHANGED <<socketVars, gone, sendVars>>

ReceivedNothing ==
    /\ listener = "recv"
    /\ inbox = <<>>
    /\ shut \/ gone
    /\ listener' = "failed"
    /\ UNCHANGED <<socketVars, message, inbox, gone, sendVars>>

RecvFailed ==
    /\ listener = "failed"
    /\ IF globalAbort THEN listener' = "test" /\ UNCHANGED globalAbort
       ELSE listener' = "over" /\ globalAbort' = TRUE
    /\ UNCHANGED <<shut, closed, message, inbox, gone, sendVars>>

\* The callback of a uuid collision, which the constructor adds: the new uuid
\* is sent.
UuidCollision ==
    /\ listener = "callback" /\ message = "collision"
    /\ notifyHost(Listener, Answer("collision"))
    /\ listener' = "test"
    /\ UNCHANGED <<socketVars, message, inbox, gone>>

ListenLoop == TestAbort \/ CallRecv \/ Received \/ ReceivedNothing \/ RecvFailed \/ UuidCollision
=============================================================================
