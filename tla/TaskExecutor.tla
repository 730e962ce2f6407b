---------------------------- MODULE TaskExecutor ----------------------------
(***************************************************************************)
(* What a user of client/thread_pool.hpp is promised: a FIFO queue of      *)
(* tasks, at most Parallelism of them in progress, none lost, none run     *)
(* twice, and a shutdown that is over only when every task has finished.   *)
(* No mutex, condition variable or worker appears here.                    *)
(***************************************************************************)
EXTENDS Naturals, Sequences, FiniteSets

CONSTANTS Task,         \* the tasks a user may submit, each at most once
          Parallelism   \* how many tasks may be in progress together

VARIABLES pending,      \* submitted, not begun, in submission order
          active,       \* in progress
          done,         \* finished
          phase         \* "open", "closing" (shutdown requested), "closed"

vars == <<pending, active, done, phase>>

Known == {pending[i] : i \in 1..Len(pending)} \cup active \cup done

Init ==
    /\ pending = <<>>
    /\ active = {}
    /\ done = {}
    /\ phase = "open"

Submit(t) ==
    /\ phase = "open"
    /\ t \notin Known
    /\ pending' = Append(pending, t)
    /\ UNCHANGED <<active, done, phase>>

Begin ==
    /\ pending # <<>>
    /\ Cardinality(active) < Parallelism
    /\ active' = active \cup {Head(pending)}
    /\ pending' = Tail(pending)
    /\ UNCHANGED <<done, phase>>

Complete(t) ==
    /\ t \in active
    /\ active' = active \ {t}
    /\ done' = done \cup {t}
    /\ UNCHANGED <<pending, phase>>

Close ==
    /\ phase = "open"
    /\ phase' = "closing"
    /\ UNCHANGED <<pending, active, done>>

Closed ==
    /\ phase = "closing"
    /\ pending = <<>>
    /\ active = {}
    /\ phase' = "closed"
    /\ UNCHANGED <<pending, active, done>>

Next ==
    \/ \E t \in Task : Submit(t) \/ Complete(t)
    \/ Begin
    \/ Close
    \/ Closed

Spec == Init /\ [][Next]_vars
=============================================================================
