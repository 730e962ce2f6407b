----------------------------- MODULE ThreadPool -----------------------------
(***************************************************************************)
(* src/cpp/code/src/client/thread_pool.cpp: the worker loop, enqueue and   *)
(* the destructor, at the granularity of the critical sections of          *)
(* queueMutex.  The notify calls come after the unlock in the code, so     *)
(* they are steps of their own: between a push and its notify_one any      *)
(* worker may run.                                                         *)
(***************************************************************************)
EXTENDS Naturals, Sequences, FiniteSets

CONSTANTS Worker,      \* the threads the constructor starts
          Submitter,   \* the threads that call enqueue
          Task,        \* the tasks, each a distinct std::function object
          NoTask       \* what a worker runs when it runs nothing

\* The constructor starts numberOfThreads workers.  DBClientConfig sets 4 and
\* nothing checks it: with 0 no task would ever run, hence the assumption.
ASSUME WorkersExist == IsFiniteSet(Worker) /\ Worker # {}
ASSUME NoTaskIsNoTask == NoTask \notin Task

VARIABLES queue,       \* clientTasks
          stop,        \* stop
          workerAt,    \* where each worker is in its loop
          running,     \* the task each worker is executing outside the lock
          submitAt,    \* "idle", or "notify" between push and notify_one
          ownerAt,     \* the destructor: "alive", "notify", "join", "gone"
          submitted,   \* history: the tasks in the order they were pushed
          started,     \* history: the tasks in the order they were popped
          finished     \* history: the tasks that ran to their end

vars == <<queue, stop, workerAt, running, submitAt, ownerAt,
          submitted, started, finished>>

history == <<submitted, started, finished>>

Elements(s) == {s[i] : i \in 1..Len(s)}

InProgress == {running[w] : w \in Worker} \ {NoTask}

TypeOK ==
    /\ queue \in Seq(Task)
    /\ stop \in BOOLEAN
    /\ workerAt \in [Worker -> {"lock", "wait", "run", "exited"}]
    /\ running \in [Worker -> Task \cup {NoTask}]
    /\ submitAt \in [Submitter -> {"idle", "notify"}]
    /\ ownerAt \in {"alive", "notify", "join", "gone"}
    /\ submitted \in Seq(Task)
    /\ started \in Seq(Task)
    /\ finished \in SUBSET Task

Init ==
    /\ queue = <<>>
    /\ stop = FALSE
    /\ workerAt = [w \in Worker |-> "lock"]
    /\ running = [w \in Worker |-> NoTask]
    /\ submitAt = [s \in Submitter |-> "idle"]
    /\ ownerAt = "alive"
    /\ submitted = <<>>
    /\ started = <<>>
    /\ finished = {}

-----------------------------------------------------------------------------
(* enqueue: push under the lock, then notify_one without it.               *)

Enqueue(s, t) ==
    /\ ownerAt = "alive"
    /\ submitAt[s] = "idle"
    /\ t \notin Elements(submitted)
    /\ queue' = Append(queue, t)
    /\ submitted' = Append(submitted, t)
    /\ submitAt' = [submitAt EXCEPT ![s] = "notify"]
    /\ UNCHANGED <<stop, workerAt, running, ownerAt, started, finished>>

Waiting == {w \in Worker : workerAt[w] = "wait"}

WakeOne ==
    IF Waiting = {} THEN UNCHANGED workerAt
    ELSE \E w \in Waiting : workerAt' = [workerAt EXCEPT ![w] = "lock"]

NotifyOne(s) ==
    /\ submitAt[s] = "notify"
    /\ submitAt' = [submitAt EXCEPT ![s] = "idle"]
    /\ WakeOne
    /\ UNCHANGED <<queue, stop, running, ownerAt, history>>

-----------------------------------------------------------------------------
(* The worker loop.  condition.wait evaluates its predicate under the lock *)
(* and sleeps only when it is false; a worker may also wake for no reason. *)

\* Mutant: wait without its predicate on the queue.
SleepUnchecked(w) ==
    /\ workerAt[w] = "lock"
    /\ ~stop
    /\ workerAt' = [workerAt EXCEPT ![w] = "wait"]
    /\ UNCHANGED <<queue, stop, running, submitAt, ownerAt, history>>

Sleep(w) ==
    /\ workerAt[w] = "lock"
    /\ ~stop
    /\ queue = <<>>
    /\ workerAt' = [workerAt EXCEPT ![w] = "wait"]
    /\ UNCHANGED <<queue, stop, running, submitAt, ownerAt, history>>

WakeSpuriously(w) ==
    /\ workerAt[w] = "wait"
    /\ workerAt' = [workerAt EXCEPT ![w] = "lock"]
    /\ UNCHANGED <<queue, stop, running, submitAt, ownerAt, history>>

\* Mutant: a worker leaves although tasks are queued.
ExitAtOnce(w) ==
    /\ workerAt[w] = "lock"
    /\ stop
    /\ workerAt' = [workerAt EXCEPT ![w] = "exited"]
    /\ UNCHANGED <<queue, stop, running, submitAt, ownerAt, history>>

Exit(w) ==
    /\ workerAt[w] = "lock"
    /\ stop
    /\ queue = <<>>
    /\ workerAt' = [workerAt EXCEPT ![w] = "exited"]
    /\ UNCHANGED <<queue, stop, running, submitAt, ownerAt, history>>

\* Mutant: the newest task is popped.
TakeNewest(w) ==
    /\ workerAt[w] = "lock"
    /\ queue # <<>>
    /\ LET t == queue[Len(queue)]
       IN  /\ running' = [running EXCEPT ![w] = t]
           /\ started' = Append(started, t)
    /\ queue' = SubSeq(queue, 1, Len(queue) - 1)
    /\ workerAt' = [workerAt EXCEPT ![w] = "run"]
    /\ UNCHANGED <<stop, submitAt, ownerAt, submitted, finished>>

\* Mutant: the task is read but not popped.
TakeWithoutPop(w) ==
    /\ workerAt[w] = "lock"
    /\ queue # <<>>
    /\ running' = [running EXCEPT ![w] = Head(queue)]
    /\ started' = Append(started, Head(queue))
    /\ workerAt' = [workerAt EXCEPT ![w] = "run"]
    /\ UNCHANGED <<queue, stop, submitAt, ownerAt, submitted, finished>>

Take(w) ==
    /\ workerAt[w] = "lock"
    /\ queue # <<>>
    /\ running' = [running EXCEPT ![w] = Head(queue)]
    /\ queue' = Tail(queue)
    /\ started' = Append(started, Head(queue))
    /\ workerAt' = [workerAt EXCEPT ![w] = "run"]
    /\ UNCHANGED <<stop, submitAt, ownerAt, submitted, finished>>

Finish(w) ==
    /\ workerAt[w] = "run"
    /\ finished' = finished \cup {running[w]}
    /\ running' = [running EXCEPT ![w] = NoTask]
    /\ workerAt' = [workerAt EXCEPT ![w] = "lock"]
    /\ UNCHANGED <<queue, stop, submitAt, ownerAt, submitted, started>>

-----------------------------------------------------------------------------
(* The destructor.  An object may be destroyed only when no other thread   *)
(* is inside one of its members: DBClient's main thread is the one thread  *)
(* that enqueues and that destroys the pool.                               *)

RequestStop ==
    /\ ownerAt = "alive"
    /\ \A s \in Submitter : submitAt[s] = "idle"
    /\ stop' = TRUE
    /\ ownerAt' = "notify"
    /\ UNCHANGED <<queue, workerAt, running, submitAt, history>>

\* Mutant: the destructor calls notify_one.
NotifyOneOnly ==
    /\ ownerAt = "notify"
    /\ WakeOne
    /\ ownerAt' = "join"
    /\ UNCHANGED <<queue, stop, running, submitAt, history>>

NotifyAll ==
    /\ ownerAt = "notify"
    /\ workerAt' = [w \in Worker |-> IF w \in Waiting THEN "lock"
                                                      ELSE workerAt[w]]
    /\ ownerAt' = "join"
    /\ UNCHANGED <<queue, stop, running, submitAt, history>>

\* The loop of joins: it is over when the last worker has returned.
JoinWorkers ==
    /\ ownerAt = "join"
    /\ \A w \in Worker : workerAt[w] = "exited"
    /\ ownerAt' = "gone"
    /\ UNCHANGED <<queue, stop, workerAt, running, submitAt, history>>

WorkerStep(w) == Sleep(w) \/ Exit(w) \/ Take(w) \/ Finish(w)

Next ==
    \/ \E s \in Submitter : NotifyOne(s) \/ \E t \in Task : Enqueue(s, t)
    \/ \E w \in Worker : WorkerStep(w) \/ WakeSpuriously(w)
    \/ RequestStop
    \/ NotifyAll
    \/ JoinWorkers

Spec == Init /\ [][Next]_vars

\* Threads that can run do run, and a task returns.  Nothing makes a user
\* submit a task or destroy the pool, and no spurious wakeup is relied upon.
Fairness ==
    /\ \A w \in Worker : WF_vars(WorkerStep(w))
    /\ \A s \in Submitter : WF_vars(NotifyOne(s))
    /\ WF_vars(NotifyAll)
    /\ WF_vars(JoinWorkers)

FairSpec == Spec /\ Fairness

-----------------------------------------------------------------------------
(* Properties *)

\* Tasks begin in the order of their enqueue calls, none skipped, none taken
\* by two workers, none dropped by the push/pop pair of enqueue and the loop.
FifoNoLoss == submitted = started \o queue

\* A popped task is in exactly one place: with one worker, or finished.
OneWorkerPerTask ==
    /\ \A v, w \in Worker :
          running[v] = running[w] /\ running[v] # NoTask => v = w
    /\ \A w \in Worker : running[w] \notin finished
    /\ Elements(started) =
          finished \cup InProgress

\* Work and sleep never meet: when a task is queued and the notify_one of its
\* push is over, some worker is awake to take it, although notify_one comes
\* after the unlock and may find nobody waiting.
NoLostWakeup ==
    queue # <<>> /\ (\A s \in Submitter : submitAt[s] = "idle")
        => \E w \in Worker : workerAt[w] \in {"lock", "run"}

\* The destructor drains: it returns only when every task ever enqueued ran to
\* its end (DBClient's members are destroyed in an order that relies on it).
DrainedWhenGone ==
    ownerAt = "gone" => finished = Elements(submitted)

\* Every enqueued task eventually runs to its end.
EveryTaskRuns ==
    \A t \in Task : t \in Elements(submitted) ~> t \in finished

\* Once stop is set the destructor returns, wherever the workers were.
DestructorReturns == stop ~> ownerAt = "gone"

-----------------------------------------------------------------------------
(* The abstract executor, of which the pool is an implementation.          *)

ExecutorPhase ==
    CASE ownerAt = "alive" -> "open"
      [] ownerAt = "gone"  -> "closed"
      [] OTHER             -> "closing"

Executor == INSTANCE TaskExecutor
                WITH Parallelism <- Cardinality(Worker),
                     pending <- queue,
                     active <- InProgress,
                     done <- finished,
                     phase <- ExecutorPhase

\* The pool does only what TaskExecutor allows.
ImplementsExecutor == Executor!Spec
=============================================================================
