-------------------------- MODULE ThreadPoolProofs --------------------------
(***************************************************************************)
(* Proofs about ThreadPool for every number of workers, submitters and     *)
(* tasks.  Everything follows from one inductive invariant, PoolInv.       *)
(***************************************************************************)
EXTENDS ThreadPool, SequenceTheorems, FiniteSetTheorems, TLAPS

\* No task object is pushed twice.
SubmittedOnce ==
    \A i, j \in 1..Len(submitted) : submitted[i] = submitted[j] => i = j

\* A worker holds a task exactly while it is outside the lock.
RunningIffAtRun == \A w \in Worker : workerAt[w] = "run" <=> running[w] # NoTask

\* A worker returns only after stop, when nothing is queued; since enqueue is
\* over by then the queue stays empty.
ExitedMeansDrained ==
    \A w \in Worker : workerAt[w] = "exited" => stop /\ queue = <<>>

\* stop is set by the destructor, which nobody's enqueue overlaps.
StopMeansOwnerLeft ==
    /\ stop <=> ownerAt # "alive"
    /\ stop => \A s \in Submitter : submitAt[s] = "idle"

GoneMeansExited == ownerAt = "gone" => \A w \in Worker : workerAt[w] = "exited"

PoolInv ==
    /\ TypeOK
    /\ FifoNoLoss
    /\ SubmittedOnce
    /\ RunningIffAtRun
    /\ OneWorkerPerTask
    /\ ExitedMeansDrained
    /\ StopMeansOwnerLeft
    /\ GoneMeansExited
    /\ NoLostWakeup

-----------------------------------------------------------------------------
(* Lemmas about the helper Elements.                                       *)

\* Elements of a sequence after an append.
LEMMA ElementsAppend ==
    ASSUME NEW S, NEW s \in Seq(S), NEW e \in S
    PROVE  Elements(Append(s, e)) = Elements(s) \cup {e}
<1>1. /\ Len(Append(s, e)) = Len(s) + 1
      /\ \A i \in 1..Len(s) : Append(s, e)[i] = s[i]
      /\ Append(s, e)[Len(s) + 1] = e
  BY AppendProperties
<1>2. Len(s) \in Nat
  BY LenProperties
<1>3. 1..(Len(s) + 1) = 1..Len(s) \cup {Len(s) + 1}
  BY <1>2
<1>4. QED
  BY <1>1, <1>2, <1>3 DEF Elements

\* Elements of a concatenation.
LEMMA ElementsConcat ==
    ASSUME NEW S, NEW s \in Seq(S), NEW t \in Seq(S)
    PROVE  Elements(s \o t) = Elements(s) \cup Elements(t)
<1>1. /\ Len(s \o t) = Len(s) + Len(t)
      /\ \A i \in 1..Len(s) + Len(t) :
            (s \o t)[i] = IF i <= Len(s) THEN s[i] ELSE t[i - Len(s)]
  BY ConcatProperties
<1>2. Len(s) \in Nat /\ Len(t) \in Nat
  BY LenProperties
<1>3. Elements(s \o t) \subseteq Elements(s) \cup Elements(t)
  BY <1>1, <1>2 DEF Elements
<1>4. ASSUME NEW i \in 1..Len(s)  PROVE s[i] \in Elements(s \o t)
  BY <1>1, <1>2 DEF Elements
<1>5. ASSUME NEW i \in 1..Len(t)  PROVE t[i] \in Elements(s \o t)
  <2>1. Len(s) + i \in 1..Len(s) + Len(t) /\ ~(Len(s) + i <= Len(s))
    BY <1>2
  <2>2. (s \o t)[Len(s) + i] = t[Len(s) + i - Len(s)]
    BY <1>1, <2>1
  <2>3. Len(s) + i - Len(s) = i
    BY <1>2
  <2>4. QED
    BY <1>1, <2>1, <2>2, <2>3 DEF Elements
<1>6. QED
  BY <1>3, <1>4, <1>5 DEF Elements

-----------------------------------------------------------------------------
(* The invariant is inductive.                                             *)

\* The constructor establishes the invariant.
LEMMA InitInv == Init => PoolInv
<1>. SUFFICES ASSUME Init PROVE PoolInv
  OBVIOUS
<1>. USE NoTaskIsNoTask DEF Init
<1>1. TypeOK
  BY EmptySeq DEF TypeOK
<1>2. FifoNoLoss
  <2>1. <<>> \in Seq(Task)
    BY EmptySeq
  <2>2. <<>> \o <<>> = <<>>
    BY <2>1, ConcatEmptySeq
  <2>3. QED
    BY <2>2 DEF FifoNoLoss
<1>3. SubmittedOnce
  BY DEF SubmittedOnce
<1>4. RunningIffAtRun /\ ExitedMeansDrained /\ GoneMeansExited
  BY DEF RunningIffAtRun, ExitedMeansDrained, GoneMeansExited
<1>5. OneWorkerPerTask
  BY DEF OneWorkerPerTask, Elements, InProgress
<1>6. StopMeansOwnerLeft
  BY DEF StopMeansOwnerLeft
<1>7. NoLostWakeup
  BY DEF NoLostWakeup
<1>8. QED
  BY <1>1, <1>2, <1>3, <1>4, <1>5, <1>6, <1>7 DEF PoolInv

\* enqueue's push preserves the invariant: the new task is queued last and is
\* unknown to every worker.
LEMMA EnqueueInv ==
    ASSUME PoolInv, NEW s \in Submitter, NEW t \in Task, Enqueue(s, t)
    PROVE  PoolInv'
<1>. USE DEF PoolInv, Enqueue
<1>1. /\ Append(queue, t) \in Seq(Task)
      /\ Append(submitted, t) \in Seq(Task)
      /\ Len(Append(submitted, t)) = Len(submitted) + 1
      /\ \A i \in 1..Len(submitted) : Append(submitted, t)[i] = submitted[i]
      /\ Append(submitted, t)[Len(submitted) + 1] = t
      /\ Len(submitted) \in Nat
  BY AppendProperties, LenProperties DEF TypeOK
<1>2. TypeOK'
  BY <1>1 DEF TypeOK
<1>3. FifoNoLoss'
  <2>1. queue \in Seq(Task) /\ started \in Seq(Task) /\ <<t>> \in Seq(Task)
    BY DEF TypeOK
  <2>2. Append(queue, t) = queue \o <<t>>
    BY <2>1, AppendIsConcat
  <2>3. Append(submitted, t) = submitted \o <<t>>
    BY AppendIsConcat DEF TypeOK
  <2>4. (started \o queue) \o <<t>> = started \o (queue \o <<t>>)
    BY <2>1, ConcatAssociative
  <2>5. QED
    BY <2>2, <2>3, <2>4 DEF FifoNoLoss
<1>4. SubmittedOnce'
  <2>1. \A i \in 1..Len(submitted) : submitted[i] # t
    BY DEF Elements
  <2>2. SUFFICES ASSUME NEW i \in 1..Len(submitted) + 1,
                        NEW j \in 1..Len(submitted) + 1,
                        Append(submitted, t)[i] = Append(submitted, t)[j]
                 PROVE  i = j
    BY <1>1 DEF SubmittedOnce
  <2>3. QED
    BY <1>1, <2>1, <2>2 DEF SubmittedOnce
<1>5. RunningIffAtRun' /\ StopMeansOwnerLeft' /\ GoneMeansExited'
  BY DEF RunningIffAtRun, StopMeansOwnerLeft, GoneMeansExited, TypeOK
<1>6. OneWorkerPerTask'
  BY DEF OneWorkerPerTask, Elements, InProgress
<1>7. ExitedMeansDrained'
  BY DEF ExitedMeansDrained, StopMeansOwnerLeft
<1>8. NoLostWakeup'
  BY DEF NoLostWakeup, TypeOK
<1>9. QED
  BY <1>2, <1>3, <1>4, <1>5, <1>6, <1>7, <1>8

\* notify_one preserves the invariant: it wakes a sleeper if there is one, and
\* if there is none an awake worker will see the queue.
LEMMA NotifyOneInv ==
    ASSUME PoolInv, NEW s \in Submitter, NotifyOne(s)
    PROVE  PoolInv'
<1>. USE DEF PoolInv, NotifyOne, history
<1>1. \/ Waiting = {} /\ UNCHANGED workerAt
      \/ \E w \in Waiting : workerAt' = [workerAt EXCEPT ![w] = "lock"]
  BY DEF WakeOne
<1>2. TypeOK'
  BY <1>1 DEF TypeOK, Waiting
<1>3. FifoNoLoss' /\ SubmittedOnce'
  BY DEF FifoNoLoss, SubmittedOnce
<1>4. RunningIffAtRun'
  BY <1>1 DEF RunningIffAtRun, TypeOK, Waiting
<1>5. OneWorkerPerTask'
  BY DEF OneWorkerPerTask, Elements, InProgress
<1>6. ~stop
  BY DEF StopMeansOwnerLeft
<1>7. ExitedMeansDrained' /\ GoneMeansExited' /\ StopMeansOwnerLeft'
  BY <1>1, <1>6 DEF ExitedMeansDrained, GoneMeansExited, StopMeansOwnerLeft,
                    TypeOK, Waiting
<1>8. NoLostWakeup'
  <2>1. CASE Waiting = {} /\ UNCHANGED workerAt
    <3>1. PICK w \in Worker : TRUE
      BY WorkersExist
    <3>2. workerAt[w] \in {"lock", "run"}
      BY <1>6, <2>1 DEF Waiting, TypeOK, ExitedMeansDrained
    <3>3. QED
      BY <2>1, <3>2 DEF NoLostWakeup
  <2>2. CASE \E w \in Waiting : workerAt' = [workerAt EXCEPT ![w] = "lock"]
    BY <2>2 DEF NoLostWakeup, TypeOK, Waiting
  <2>3. QED
    BY <1>1, <2>1, <2>2
<1>9. QED
  BY <1>2, <1>3, <1>4, <1>5, <1>7, <1>8

\* A worker that sleeps, wakes for no reason or returns preserves the
\* invariant: it only does so when no task is queued, or becomes awake.
LEMMA IdleWorkerInv ==
    ASSUME PoolInv, NEW w \in Worker, Sleep(w) \/ Exit(w) \/ WakeSpuriously(w)
    PROVE  PoolInv'
<1>. USE DEF PoolInv, history
<1>1. /\ UNCHANGED <<queue, stop, running, submitAt, ownerAt>>
      /\ UNCHANGED <<submitted, started, finished>>
      /\ \/ /\ workerAt[w] = "lock" /\ queue = <<>> /\ ~stop
            /\ workerAt' = [workerAt EXCEPT ![w] = "wait"]
         \/ /\ workerAt[w] = "lock" /\ queue = <<>> /\ stop
            /\ workerAt' = [workerAt EXCEPT ![w] = "exited"]
         \/ /\ workerAt[w] = "wait"
            /\ workerAt' = [workerAt EXCEPT ![w] = "lock"]
  BY DEF Sleep, Exit, WakeSpuriously
<1>2. TypeOK'
  BY <1>1 DEF TypeOK
<1>3. FifoNoLoss' /\ SubmittedOnce'
  BY <1>1 DEF FifoNoLoss, SubmittedOnce
<1>4. RunningIffAtRun'
  BY <1>1 DEF RunningIffAtRun, TypeOK
<1>5. OneWorkerPerTask'
  BY <1>1 DEF OneWorkerPerTask, Elements, InProgress
<1>6. ExitedMeansDrained' /\ StopMeansOwnerLeft'
  BY <1>1 DEF ExitedMeansDrained, StopMeansOwnerLeft, TypeOK
<1>7. GoneMeansExited'
  BY <1>1 DEF GoneMeansExited, TypeOK
<1>8. NoLostWakeup'
  BY <1>1 DEF NoLostWakeup, TypeOK
<1>9. QED
  BY <1>2, <1>3, <1>4, <1>5, <1>6, <1>7, <1>8

\* The head of the queue is the next task in submission order, and no worker
\* has had it yet.
LEMMA HeadIsFresh ==
    ASSUME PoolInv, queue # <<>>
    PROVE  /\ Head(queue) \in Task
           /\ Tail(queue) \in Seq(Task)
           /\ started \o queue = Append(started, Head(queue)) \o Tail(queue)
           /\ Head(queue) \notin Elements(started)
<1>. USE DEF PoolInv
<1>0. queue \in Seq(Task) /\ started \in Seq(Task)
  BY DEF TypeOK
<1>1. Head(queue) \in Task /\ Tail(queue) \in Seq(Task)
  BY <1>0, HeadTailProperties
<1>2. queue = <<Head(queue)>> \o Tail(queue)
  BY <1>0, <1>1
<1>3. Append(started, Head(queue)) = started \o <<Head(queue)>>
  BY <1>0, <1>1, AppendIsConcat
<1>4. <<Head(queue)>> \in Seq(Task)
  BY <1>1
<1>5. (started \o <<Head(queue)>>) \o Tail(queue)
          = started \o (<<Head(queue)>> \o Tail(queue))
  BY <1>0, <1>1, <1>4, ConcatAssociative
<1>6. Head(queue) \notin Elements(started)
  <2>1. /\ Len(started) \in Nat
        /\ Len(queue) \in Nat
        /\ Len(queue) >= 1
        /\ Head(queue) = queue[1]
    BY <1>0, EmptySeq, LenProperties
  <2>2. /\ Len(submitted) = Len(started) + Len(queue)
        /\ \A i \in 1..Len(started) + Len(queue) :
              submitted[i] = IF i <= Len(started) THEN started[i]
                             ELSE queue[i - Len(started)]
    BY <1>0, ConcatProperties DEF FifoNoLoss
  <2>3. submitted[Len(started) + 1] = Head(queue)
    <3>1. Len(started) + 1 \in 1..Len(started) + Len(queue)
      BY <2>1
    <3>2. ~(Len(started) + 1 <= Len(started)) /\ Len(started) + 1 - Len(started) = 1
      BY <2>1
    <3>3. QED
      BY <2>1, <2>2, <3>1, <3>2
  <2>4. ASSUME NEW i \in 1..Len(started), started[i] = Head(queue)
        PROVE  FALSE
    <3>1. submitted[i] = started[i] /\ i \in 1..Len(submitted)
      BY <2>1, <2>2
    <3>2. Len(started) + 1 \in 1..Len(submitted)
      BY <2>1, <2>2
    <3>3. i = Len(started) + 1
      BY <2>3, <2>4, <3>1, <3>2 DEF SubmittedOnce
    <3>4. QED
      BY <2>1, <3>3
  <2>5. QED
    BY <2>4 DEF Elements
<1>7. QED
  BY <1>1, <1>2, <1>3, <1>5, <1>6

\* A worker that pops a task preserves the invariant.
LEMMA TakeInv ==
    ASSUME PoolInv, NEW w \in Worker, Take(w)
    PROVE  PoolInv'
<1>. DEFINE t == Head(queue)
<1>1. /\ t \in Task
      /\ Tail(queue) \in Seq(Task)
      /\ started \o queue = Append(started, t) \o Tail(queue)
      /\ t \notin Elements(started)
  BY HeadIsFresh DEF Take
<1>. USE DEF PoolInv, Take
<1>2. TypeOK'
  BY <1>1, AppendProperties DEF TypeOK
<1>3. FifoNoLoss' /\ SubmittedOnce'
  <2>1. submitted' = submitted /\ started' = Append(started, t) /\ queue' = Tail(queue)
    OBVIOUS
  <2>. HIDE DEF Take, PoolInv, t
  <2>2. FifoNoLoss /\ SubmittedOnce
    BY DEF PoolInv
  <2>3. QED
    BY <1>1, <2>1, <2>2 DEF FifoNoLoss, SubmittedOnce
<1>4. RunningIffAtRun'
  BY <1>1, NoTaskIsNoTask DEF RunningIffAtRun, TypeOK
<1>5. OneWorkerPerTask'
  <2>1. Elements(started') = Elements(started) \cup {t}
    BY <1>1, ElementsAppend DEF TypeOK
  <2>2. \A v \in Worker : running[v] # t
    BY <1>1, NoTaskIsNoTask DEF OneWorkerPerTask, InProgress
  <2>3. running[w] = NoTask
    BY DEF RunningIffAtRun, TypeOK
  <2>4. running' = [running EXCEPT ![w] = t] /\ running \in [Worker -> Task \cup {NoTask}]
    BY DEF TypeOK
  <2>5. InProgress' = InProgress \cup {t}
    BY <1>1, <2>3, <2>4, NoTaskIsNoTask DEF InProgress
  <2>6. t \notin finished
    BY <1>1 DEF OneWorkerPerTask
  <2>7. QED
    BY <1>1, <2>1, <2>2, <2>4, <2>5, <2>6 DEF OneWorkerPerTask
<1>6. ExitedMeansDrained' /\ StopMeansOwnerLeft'
  BY DEF ExitedMeansDrained, StopMeansOwnerLeft, TypeOK
<1>7. GoneMeansExited'
  BY DEF GoneMeansExited, ExitedMeansDrained, TypeOK
<1>8. NoLostWakeup'
  BY DEF NoLostWakeup, TypeOK
<1>9. QED
  BY <1>2, <1>3, <1>4, <1>5, <1>6, <1>7, <1>8

\* A task that returns preserves the invariant.
LEMMA FinishInv ==
    ASSUME PoolInv, NEW w \in Worker, Finish(w)
    PROVE  PoolInv'
<1>. USE DEF PoolInv, Finish
<1>1. running[w] \in Task /\ running[w] # NoTask
  BY NoTaskIsNoTask DEF TypeOK, RunningIffAtRun
<1>2. TypeOK'
  BY <1>1 DEF TypeOK
<1>3. FifoNoLoss' /\ SubmittedOnce'
  BY DEF FifoNoLoss, SubmittedOnce
<1>4. RunningIffAtRun'
  BY DEF RunningIffAtRun, TypeOK
<1>5. OneWorkerPerTask'
  <2>1. running' = [running EXCEPT ![w] = NoTask] /\ running \in [Worker -> Task \cup {NoTask}]
    BY DEF TypeOK
  <2>2. InProgress' = InProgress \ {running[w]}
    BY <1>1, <2>1 DEF InProgress, OneWorkerPerTask
  <2>3. running[w] \in InProgress
    BY <1>1 DEF InProgress
  <2>4. Elements(started') = Elements(started)
    OBVIOUS
  <2>5. NoTask \notin finished
    BY NoTaskIsNoTask DEF TypeOK
  <2>6. QED
    BY <1>1, <2>1, <2>2, <2>3, <2>4, <2>5 DEF OneWorkerPerTask
<1>6. ExitedMeansDrained' /\ StopMeansOwnerLeft'
  BY DEF ExitedMeansDrained, StopMeansOwnerLeft, TypeOK
<1>7. GoneMeansExited'
  BY DEF GoneMeansExited, TypeOK
<1>8. NoLostWakeup'
  BY DEF NoLostWakeup, TypeOK
<1>9. QED
  BY <1>2, <1>3, <1>4, <1>5, <1>6, <1>7, <1>8

\* The destructor's steps preserve the invariant.
LEMMA DestructorInv ==
    ASSUME PoolInv, RequestStop \/ NotifyAll \/ JoinWorkers
    PROVE  PoolInv'
<1>. USE DEF PoolInv, RequestStop, NotifyAll, JoinWorkers, history
<1>1. TypeOK'
  BY DEF TypeOK, Waiting
<1>2. FifoNoLoss' /\ SubmittedOnce'
  BY DEF FifoNoLoss, SubmittedOnce
<1>3. RunningIffAtRun'
  BY DEF RunningIffAtRun, TypeOK, Waiting
<1>4. OneWorkerPerTask'
  BY DEF OneWorkerPerTask, Elements, InProgress
<1>5. ExitedMeansDrained'
  BY DEF ExitedMeansDrained, StopMeansOwnerLeft, TypeOK, Waiting
<1>6. StopMeansOwnerLeft'
  BY DEF StopMeansOwnerLeft, TypeOK
<1>7. GoneMeansExited'
  BY DEF GoneMeansExited, TypeOK, Waiting
<1>8. NoLostWakeup'
  BY DEF NoLostWakeup, TypeOK, Waiting
<1>9. QED
  BY <1>1, <1>2, <1>3, <1>4, <1>5, <1>6, <1>7, <1>8

-----------------------------------------------------------------------------
(* Theorems of the specification.                                          *)

\* PoolInv holds in every reachable state.
THEOREM Invariance == Spec => []PoolInv
<1>1. PoolInv /\ [Next]_vars => PoolInv'
  <2>. SUFFICES ASSUME PoolInv, [Next]_vars PROVE PoolInv'
    OBVIOUS
  <2>1. ASSUME NEW s \in Submitter, NotifyOne(s) PROVE PoolInv'
    BY <2>1, NotifyOneInv
  <2>2. ASSUME NEW s \in Submitter, NEW t \in Task, Enqueue(s, t)
        PROVE  PoolInv'
    BY <2>2, EnqueueInv
  <2>3. ASSUME NEW w \in Worker, Sleep(w) \/ Exit(w) \/ WakeSpuriously(w)
        PROVE  PoolInv'
    BY <2>3, IdleWorkerInv
  <2>4. ASSUME NEW w \in Worker, Take(w) PROVE PoolInv'
    BY <2>4, TakeInv
  <2>5. ASSUME NEW w \in Worker, Finish(w) PROVE PoolInv'
    BY <2>5, FinishInv
  <2>6. CASE RequestStop \/ NotifyAll \/ JoinWorkers
    BY <2>6, DestructorInv
  <2>7. CASE UNCHANGED vars
    BY <2>7 DEF vars, PoolInv, TypeOK, FifoNoLoss, SubmittedOnce,
                RunningIffAtRun, OneWorkerPerTask, ExitedMeansDrained,
                StopMeansOwnerLeft, GoneMeansExited, NoLostWakeup, Elements,
                InProgress
  <2>8. QED
    BY <2>1, <2>2, <2>3, <2>4, <2>5, <2>6, <2>7 DEF Next, WorkerStep
<1>2. QED
  BY <1>1, InitInv, PTL DEF Spec

\* The variables keep their types.
THEOREM TypeCorrect == Spec => []TypeOK
<1>1. PoolInv => TypeOK
  BY DEF PoolInv
<1>2. QED
  BY <1>1, Invariance, PTL

\* enqueue and the worker loop lose, duplicate and reorder no task.
THEOREM TasksStartInOrder == Spec => []FifoNoLoss
<1>1. PoolInv => FifoNoLoss
  BY DEF PoolInv
<1>2. QED
  BY <1>1, Invariance, PTL

\* Two workers never execute the same task, and none is executed again.
THEOREM TasksRunOnce == Spec => []OneWorkerPerTask
<1>1. PoolInv => OneWorkerPerTask
  BY DEF PoolInv
<1>2. QED
  BY <1>1, Invariance, PTL

\* notify_one after the unlock never leaves a task behind sleeping workers.
THEOREM WakeupsSuffice == Spec => []NoLostWakeup
<1>1. PoolInv => NoLostWakeup
  BY DEF PoolInv
<1>2. QED
  BY <1>1, Invariance, PTL

\* The destructor returns only after every enqueued task ran to its end.
THEOREM DestructorDrains == Spec => []DrainedWhenGone
<1>1. PoolInv => DrainedWhenGone
  <2>. SUFFICES ASSUME PoolInv, ownerAt = "gone"
                PROVE  finished = Elements(submitted)
    BY DEF DrainedWhenGone
  <2>. USE DEF PoolInv
  <2>1. \A w \in Worker : workerAt[w] = "exited" /\ queue = <<>>
    BY DEF GoneMeansExited, ExitedMeansDrained
  <2>2. queue = <<>>
    BY <2>1, WorkersExist
  <2>3. submitted = started
    <3>1. started \o <<>> = started
      BY ConcatEmptySeq DEF TypeOK
    <3>2. QED
      BY <2>2, <3>1 DEF FifoNoLoss
  <2>4. InProgress = {}
    BY <2>1 DEF InProgress, RunningIffAtRun
  <2>5. QED
    BY <2>3, <2>4 DEF OneWorkerPerTask
<1>2. QED
  BY <1>1, Invariance, PTL

-----------------------------------------------------------------------------
(* The pool implements the abstract executor.                              *)

\* Every task the executor knows about has been submitted.
LEMMA KnownAreSubmitted ==
    ASSUME PoolInv
    PROVE  Executor!Known = Elements(submitted)
<1>. USE DEF PoolInv
<1>1. Elements(submitted) = Elements(started) \cup Elements(queue)
  BY ElementsConcat DEF TypeOK, FifoNoLoss
<1>2. Elements(started) = finished \cup InProgress
  BY DEF OneWorkerPerTask
<1>3. QED
  BY <1>1, <1>2 DEF Executor!Known, Elements

\* A worker that pops a task finds a free slot: fewer tasks are in progress
\* than there are workers.
LEMMA SlotFree ==
    ASSUME PoolInv, NEW w \in Worker, running[w] = NoTask
    PROVE  Cardinality(InProgress) < Cardinality(Worker)
<1>. DEFINE Others == Worker \ {w}
            Held == {running[v] : v \in Others}
<1>1. IsFiniteSet(Others) /\ Cardinality(Others) = Cardinality(Worker) - 1
  BY WorkersExist, FS_RemoveElement
<1>2. IsFiniteSet(Held) /\ Cardinality(Held) <= Cardinality(Others)
  <2>. DEFINE f == [v \in Others |-> running[v]]
  <2>1. f \in Surjection(Others, Held)
    BY DEF Surjection
  <2>2. QED
    BY <1>1, <2>1, FS_Surjection
<1>3. InProgress \subseteq Held
  BY DEF InProgress
<1>4. Cardinality(InProgress) <= Cardinality(Held)
  BY <1>2, <1>3, FS_Subset
<1>5. /\ Cardinality(Worker) \in Nat
      /\ Cardinality(Others) \in Nat
      /\ Cardinality(Held) \in Nat
      /\ Cardinality(InProgress) \in Nat
  BY <1>1, <1>2, <1>3, WorkersExist, FS_CardinalityType, FS_Subset
<1>6. QED
  BY <1>1, <1>2, <1>4, <1>5

\* A step of the pool is a step of the executor or invisible to it.
LEMMA StepSimulation == PoolInv /\ [Next]_vars => [Executor!Next]_Executor!vars
<1>. SUFFICES ASSUME PoolInv, [Next]_vars
              PROVE  [Executor!Next]_Executor!vars
  OBVIOUS
<1>. USE DEF PoolInv
<1>1. ASSUME NEW s \in Submitter, NEW t \in Task, Enqueue(s, t)
      PROVE  Executor!Submit(t)
  <2>1. t \notin Executor!Known
    BY <1>1, KnownAreSubmitted DEF Enqueue
  <2>2. InProgress' = InProgress /\ ExecutorPhase' = ExecutorPhase
    BY <1>1 DEF Enqueue, InProgress, ExecutorPhase
  <2>3. ExecutorPhase = "open"
    BY <1>1 DEF Enqueue, ExecutorPhase
  <2>4. QED
    BY <1>1, <2>1, <2>2, <2>3 DEF Enqueue, Executor!Submit
<1>2. ASSUME NEW w \in Worker, Take(w)
      PROVE  Executor!Begin
  <2>1. running[w] = NoTask
    BY <1>2 DEF Take, RunningIffAtRun, TypeOK
  <2>2. Cardinality(InProgress) < Cardinality(Worker)
    BY <2>1, SlotFree
  <2>3. /\ running' = [running EXCEPT ![w] = Head(queue)]
        /\ running \in [Worker -> Task \cup {NoTask}]
        /\ Head(queue) \in Task
    BY <1>2, HeadIsFresh DEF Take, TypeOK
  <2>4. InProgress' = InProgress \cup {Head(queue)}
    BY <2>1, <2>3, NoTaskIsNoTask DEF InProgress
  <2>5. ExecutorPhase' = ExecutorPhase
    BY <1>2 DEF Take, ExecutorPhase
  <2>6. Executor!Cardinality(InProgress) = Cardinality(InProgress)
    BY DEF Executor!Cardinality, Cardinality, Executor!IsFiniteSet, IsFiniteSet
  <2>7. QED
    BY <1>2, <2>2, <2>4, <2>5, <2>6 DEF Take, Executor!Begin
<1>3. ASSUME NEW w \in Worker, Finish(w)
      PROVE  /\ running[w] \in Task
             /\ Executor!Complete(running[w])
  <2>1. running[w] \in Task /\ running[w] # NoTask
    BY <1>3, NoTaskIsNoTask DEF Finish, TypeOK, RunningIffAtRun
  <2>2. running' = [running EXCEPT ![w] = NoTask] /\ running \in [Worker -> Task \cup {NoTask}]
    BY <1>3 DEF Finish, TypeOK
  <2>3. InProgress' = InProgress \ {running[w]}
    BY <2>1, <2>2 DEF InProgress, OneWorkerPerTask
  <2>4. running[w] \in InProgress
    BY <2>1 DEF InProgress
  <2>5. ExecutorPhase' = ExecutorPhase
    BY <1>3 DEF Finish, ExecutorPhase
  <2>6. QED
    BY <1>3, <2>1, <2>3, <2>4, <2>5 DEF Finish, Executor!Complete
<1>4. ASSUME RequestStop PROVE Executor!Close
  BY <1>4 DEF RequestStop, Executor!Close, ExecutorPhase, InProgress, history
<1>5. ASSUME JoinWorkers PROVE Executor!Closed
  <2>1. queue = <<>>
    BY <1>5, WorkersExist DEF JoinWorkers, ExitedMeansDrained
  <2>2. InProgress = {}
    BY <1>5 DEF JoinWorkers, InProgress, RunningIffAtRun
  <2>3. InProgress' = InProgress
    BY <1>5 DEF JoinWorkers, InProgress
  <2>4. ExecutorPhase = "closing" /\ ExecutorPhase' = "closed"
    BY <1>5 DEF JoinWorkers, ExecutorPhase
  <2>5. QED
    BY <1>5, <2>1, <2>2, <2>3, <2>4 DEF JoinWorkers, Executor!Closed, history
<1>6. ASSUME \/ \E s \in Submitter : NotifyOne(s)
             \/ \E w \in Worker : Sleep(w) \/ Exit(w) \/ WakeSpuriously(w)
             \/ NotifyAll
             \/ UNCHANGED vars
      PROVE  UNCHANGED Executor!vars
  <2>1. /\ UNCHANGED <<queue, running, finished>>
        /\ ExecutorPhase' = ExecutorPhase
    BY <1>6 DEF NotifyOne, Sleep, Exit, WakeSpuriously, NotifyAll, vars,
                history, ExecutorPhase
  <2>2. QED
    BY <2>1 DEF Executor!vars, InProgress
<1>7. QED
  BY <1>1, <1>2, <1>3, <1>4, <1>5, <1>6
     DEF Next, WorkerStep, Executor!Next

\* thread_pool.cpp implements TaskExecutor, whatever the number of threads.
THEOREM PoolImplementsExecutor == Spec => ImplementsExecutor
<1>1. Init => Executor!Init
  BY DEF Init, Executor!Init, InProgress, ExecutorPhase
<1>2. QED
  BY <1>1, StepSimulation, Invariance, PTL
     DEF Spec, ImplementsExecutor, Executor!Spec
=============================================================================
