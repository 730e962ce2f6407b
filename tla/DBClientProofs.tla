--------------------------- MODULE DBClientProofs ---------------------------
(***************************************************************************)
(* Proofs about DBClient for any queries, workers and items, whether the   *)
(* server answers, is silent or leaves, and whether the socket is full.    *)
(***************************************************************************)
EXTENDS DBClient, SequenceTheorems, TLAPS

Working == {"plan", "test", "testFile", "load", "reset", "clear", "send"}
Where == {"idle", "queued", "done"} \cup Working
Early == {"start", "wait", "check", "input", "run"}
Ending == {"shutdown", "close", "abort", "join"}
Kinds == {"unit", "collision", "work"}
Messages == [kind : Kinds \cup {"item", "finished", "cut"}, plan : Nat, item : Nat]

Typed ==
    /\ TypeOK
    /\ pending \in Seq(Query)
    /\ phase \in {"open", "closing", "closed"}
    /\ at \in [Query -> Where]
    /\ workItemPlanId \in Nat
    /\ wire \in Seq(Messages)
    /\ inbox \in Seq(Kinds)
    /\ message \in Kinds \cup {"none"}

\* The pool and the place of a query agree; a query in work is a task in
\* progress or the typed one the main thread is running.
QueriesPlaced ==
    /\ \A i \in 1..Len(pending) : at[pending[i]] = "queued"
    /\ \A i, j \in 1..Len(pending) : pending[i] = pending[j] => i = j
    /\ \A q \in Query : at[q] = "queued" => \E i \in 1..Len(pending) : pending[i] = q
    /\ \A q \in Query : at[q] \in Working => q \in active \/ main = "run"
    /\ \A q \in active : at[q] \in Working \cup {"done"}
    /\ \A q \in done : at[q] = "done"

NoQuery == \A q \in Query : at[q] = "idle"
Quiet == phase = "closed" \/ NoQuery

\* The pool is closed before the connection is, unless no query was entered.
PoolClosesFirst ==
    /\ main \in Early => phase = "open"
    /\ main = "drain" => phase = "closing"
    /\ main = "returned" => phase = "closed"
    /\ main \in Ending => phase = "closed" \/ (phase = "open" /\ NoQuery)
    /\ main \in {"start", "wait", "check"} => NoQuery
    /\ phase = "closed" => pending = <<>> /\ active = {}
    /\ shut \/ closed => main \notin Early /\ Quiet

\* Whoever may send something else than the unit type comes after it, or
\* finds the connection broken.
AnsweredFirst ==
    /\ UnitTypeFirst
    /\ tcpConnected \/ listener = "answered" => wire # <<>> \/ gone \/ shut \/ closed
    /\ main \in {"input", "run"} => tcpConnected
    /\ \A q \in Query : at[q] # "idle" => tcpConnected
    /\ \A i \in 1..Len(inbox) : inbox[i] # "unit" => wire # <<>>
    /\ listener = "callback" /\ message # "unit" => wire # <<>>

\* Where a query is tells its plan id and its items that are sent.
PlanKnown ==
    /\ \A q \in Query : plan[q] < workItemPlanId
    /\ \A q, r \in Query : plan[q] = plan[r] /\ plan[q] # 0 => q = r
    /\ \A q \in Query : at[q] \in {"idle", "queued", "plan"} => plan[q] = 0 /\ item[q] = 0
    /\ \A q \in Query : at[q] \in {"test", "testFile", "load", "reset", "clear", "send", "done"} => plan[q] # 0
    /\ \A q \in Query : at[q] \in {"test", "testFile", "load", "reset", "clear"} => item[q] = 0
    /\ \A q \in Query : at[q] = "send" => item[q] < Items
    /\ \A q \in Query : at[q] = "done" => item[q] = Items

ItemsSent ==
    /\ \A i \in 1..Len(wire) : wire[i].kind = "item" =>
          \E q \in Query : /\ plan[q] # 0 /\ wire[i].plan = plan[q]
                           /\ wire[i].item <= item[q]
    /\ \A i, j \in 1..Len(wire) :
          i < j /\ wire[i].kind = "item" /\ wire[j].kind = "item" /\ wire[i].plan = wire[j].plan
            => wire[i].item < wire[j].item
    /\ \A q \in Query : \A i \in 1..item[q] : Msg("item", plan[q], i) \in SentOrLost
    /\ misused \subseteq {Listener, MainThread}

\* The main thread gets to the closed descriptor when no query was entered.
ClosedAgain ==
    /\ closed => main \in {"abort", "join", "returned"} \/ NoQuery
    /\ MainThread \in misused => closed /\ NoQuery

ClientInv ==
    /\ Typed
    /\ QueriesPlaced
    /\ PoolClosesFirst
    /\ AnsweredFirst
    /\ PlanKnown
    /\ ItemsSent
    /\ ClosedAgain

-----------------------------------------------------------------------------
(* Lemmas.                                                                 *)

\* While a query is worked on, or a task waits, the connection stands and the
\* main thread does not close it.
LEMMA BusyMeansOpen ==
    ASSUME ClientInv, NEW q \in Query, at[q] \in Working \cup {"queued"}
    PROVE  /\ phase # "closed" /\ ~shut /\ ~closed
           /\ main \in {"input", "run", "drain"}
           /\ tcpConnected
<1>. USE DEF ClientInv
<1>1. CASE at[q] = "queued"
  <2>1. PICK i \in 1..Len(pending) : pending[i] = q
    BY <1>1 DEF QueriesPlaced
  <2>2. pending # <<>>
    BY <2>1
  <2>3. phase # "closed" /\ ~NoQuery
    BY <1>1, <2>2 DEF PoolClosesFirst, NoQuery
  <2>4. QED
    BY <1>1, <2>3 DEF PoolClosesFirst, AnsweredFirst, Typed, TypeOK, Early, Ending, Quiet
<1>2. CASE at[q] \in Working
  <2>1. q \in active \/ main = "run"
    BY <1>2 DEF QueriesPlaced
  <2>2. phase # "closed" /\ ~NoQuery
    BY <1>2, <2>1 DEF PoolClosesFirst, NoQuery, Working, Early
  <2>3. QED
    BY <1>2, <2>2 DEF PoolClosesFirst, AnsweredFirst, Typed, TypeOK, Early, Ending, Quiet, Working
<1>3. QED
  BY <1>1, <1>2

\* The wire is longer by m.
Longer(m) ==
    /\ Len(wire') = Len(wire) + 1
    /\ wire'[Len(wire) + 1] = m
    /\ \A i \in 1..Len(wire) : wire'[i] = wire[i]

\* What one call of notifyHost leaves: a longer wire, a loss or a use of the
\* closed descriptor.  Only the unit type may come first.
LEMMA NotifyEffect ==
    ASSUME ClientInv, NEW t, NEW m \in Messages, notifyHost(t, m),
           wire # <<>> \/ m.kind = "unit" \/ gone \/ shut \/ closed
    PROVE  /\ wire' \in Seq(Messages)
           /\ UnitTypeFirst'
           /\ wire # <<>> => wire' # <<>>
           /\ wire' # <<>> \/ gone \/ shut \/ closed
           /\ Len(wire) \in Nat
           /\ Longer(m) \/ Longer(Cut) \/ wire' = wire
           /\ SentOrLost \subseteq SentOrLost'
           /\ ~closed => m \in SentOrLost' /\ misused' = misused
           /\ misused' \subseteq misused \cup {t}
<1>1. wire \in Seq(Messages) /\ UnitTypeFirst
  BY DEF ClientInv, Typed, AnsweredFirst
<1>2. Len(wire) \in Nat /\ DOMAIN wire = 1..Len(wire)
  BY <1>1, LenProperties
<1>3. /\ ~closed => misused' = misused
      /\ misused' \subseteq misused \cup {t}
  BY DEF notifyHost, Uses
<1>4. Cut \in Messages
  BY DEF Cut, Answer, Msg, Messages
<1>5. ASSUME NEW x \in Messages, wire' = Append(wire, x), wire # <<>> \/ x.kind = "unit"
      PROVE  /\ wire' \in Seq(Messages) /\ Longer(x) /\ wire' # <<>> /\ UnitTypeFirst'
             /\ Len(wire) + 1 \in DOMAIN wire' /\ DOMAIN wire \subseteq DOMAIN wire'
  <2>1. wire' \in Seq(Messages) /\ Longer(x)
    BY <1>1, <1>5, AppendProperties DEF Longer
  <2>2. DOMAIN wire' = 1..(Len(wire) + 1)
    BY <2>1, LenProperties DEF Longer
  <2>3. wire' # <<>>
    BY <1>2, <2>1, EmptySeq DEF Longer
  <2>4. Len(wire) + 1 \in DOMAIN wire' /\ DOMAIN wire \subseteq DOMAIN wire'
    BY <1>2, <2>2
  <2>5. UnitTypeFirst'
    <3>1. CASE wire = <<>>
      <4>1. Head(wire') = x
        BY <1>2, <2>1, <2>3, <3>1, EmptySeq DEF Longer
      <4>2. QED
        BY <1>5, <3>1, <4>1 DEF UnitTypeFirst
    <3>2. CASE wire # <<>>
      <4>1. 1 \in 1..Len(wire)
        BY <1>1, <1>2, <3>2, EmptySeq
      <4>2. Head(wire') = wire'[1] /\ Head(wire) = wire[1]
        BY <1>1, <2>1, <2>3, <3>2
      <4>3. QED
        BY <1>1, <2>1, <3>2, <4>1, <4>2 DEF UnitTypeFirst, Longer
    <3>3. QED
      BY <3>1, <3>2
  <2>6. QED
    BY <2>1, <2>3, <2>4, <2>5
<1>6. CASE ~shut /\ ~closed /\ ~gone /\ wire' = Append(wire, m) /\ UNCHANGED lost
  <2>1. /\ wire' \in Seq(Messages) /\ Longer(m) /\ wire' # <<>> /\ UnitTypeFirst'
        /\ Len(wire) + 1 \in DOMAIN wire' /\ DOMAIN wire \subseteq DOMAIN wire'
    BY <1>5, <1>6
  <2>2. m \in SentOrLost' /\ SentOrLost \subseteq SentOrLost'
    BY <1>2, <1>6, <2>1 DEF SentOrLost, Longer
  <2>3. QED
    BY <1>2, <1>3, <1>6, <2>1, <2>2
<1>7. CASE ~closed /\ wire # <<>> /\ wire' = Append(wire, Cut) /\ lost' = lost \cup {m}
  <2>1. /\ wire' \in Seq(Messages) /\ Longer(Cut) /\ wire' # <<>> /\ UnitTypeFirst'
        /\ Len(wire) + 1 \in DOMAIN wire' /\ DOMAIN wire \subseteq DOMAIN wire'
    BY <1>4, <1>5, <1>7
  <2>2. m \in SentOrLost' /\ SentOrLost \subseteq SentOrLost'
    BY <1>2, <1>7, <2>1 DEF SentOrLost, Longer
  <2>3. QED
    BY <1>2, <1>3, <1>7, <2>1, <2>2
<1>8. CASE /\ UNCHANGED wire
           /\ shut \/ gone \/ closed \/ wire # <<>>
           /\ \/ ~closed /\ lost' = lost \cup {m}
              \/ closed /\ UNCHANGED lost
  <2>1. UnitTypeFirst' /\ wire' \in Seq(Messages)
    BY <1>1, <1>8 DEF UnitTypeFirst
  <2>2. SentOrLost \subseteq SentOrLost' /\ (~closed => m \in SentOrLost')
    BY <1>8 DEF SentOrLost
  <2>3. QED
    BY <1>2, <1>3, <1>8, <2>1, <2>2
<1>9. QED
  BY <1>6, <1>7, <1>8 DEF notifyHost

-----------------------------------------------------------------------------
(* The initial states, and the steps of the main thread.                   *)

\* ClientInv holds before run is called.
LEMMA ClientInvInit ==
    Init => ClientInv
<1>. SUFFICES ASSUME Init PROVE ClientInv
  OBVIOUS
<1>. USE DEF Init, TCPInit, Pool!Init
<1>1. Typed
  <2>1. plan \in [Query -> Nat] /\ item \in [Query -> 0..Items]
    BY DBClientAssumption
  <2>2. TypeOK
    BY DBClientAssumption, <2>1 DEF TypeOK
  <2>3. wire \in Seq(Messages) /\ inbox \in Seq(Kinds) /\ pending \in Seq(Query)
    BY EmptySeq
  <2>4. QED
    BY <2>2, <2>3 DEF Typed, Where
<1>2. QueriesPlaced /\ PoolClosesFirst
  BY DBClientAssumption DEF QueriesPlaced, PoolClosesFirst, Early, Ending, NoQuery, Working
<1>3. AnsweredFirst
  BY DEF AnsweredFirst, UnitTypeFirst
<1>4. PlanKnown
  BY DEF PlanKnown
<1>5. ItemsSent /\ ClosedAgain
  BY DEF ItemsSent, ClosedAgain
<1>6. QED
  BY <1>1, <1>2, <1>3, <1>4, <1>5 DEF ClientInv

\* Steps that send nothing and leave the plans alone keep what is said of both.
LEMMA PlansAndItemsStay ==
    ASSUME ClientInv, UNCHANGED <<wire, lost, jobVars>>,
           misused' \subseteq misused \cup {Listener, MainThread}
    PROVE  PlanKnown' /\ ItemsSent' /\ UnitTypeFirst'
BY DEF ClientInv, PlanKnown, ItemsSent, AnsweredFirst, UnitTypeFirst, SentOrLost, jobVars

\* While the connection stands nobody has closed it before.
LEMMA NotClosedYet ==
    ASSUME ClientInv, ~closed, UNCHANGED <<closed, misused>>
    PROVE  ClosedAgain'
BY DEF ClientInv, ClosedAgain

\* The main thread's own steps keep ClientInv.
LEMMA MainStep ==
    ASSUME ClientInv, Main \/ Exit
    PROVE  ClientInv'
<1>. USE DEF ClientInv
<1>1. /\ UNCHANGED <<wire, lost, jobVars, jsonVars, message, inbox, gone, tcpConnected, told>>
      /\ misused' \subseteq misused \cup {MainThread}
  BY DEF Main, Exit, Connect, ConnectFails, StopWaiting, Check, QueryReturns, PoolDestroyed,
         CloseConnection, Joined, OnlyMain, start, startFails, Shutdown, Close, Abort, Join, Uses,
         tcpVars, socketVars, listenVars, sendVars
<1>2. PlanKnown' /\ ItemsSent' /\ UnitTypeFirst'
  BY <1>1, PlansAndItemsStay
<1>3. pending' = pending /\ active' = active /\ done' = done
  BY DEF Main, Exit, Connect, ConnectFails, StopWaiting, Check, QueryReturns, PoolDestroyed,
         CloseConnection, Joined, poolVars, Pool!Close, Pool!Closed
<1>4. Typed'
  BY <1>1, <1>3 DEF Typed, TypeOK, Main, Exit, Connect, ConnectFails, StopWaiting, Check, QueryReturns,
         PoolDestroyed, CloseConnection, Joined, OnlyMain, start, startFails, Shutdown, Close, Abort, Join,
         poolVars, Pool!Close, Pool!Closed, tcpVars, socketVars, listenVars, jobVars, jsonVars, Goto
<1>5. QueriesPlaced'
  <2>1. \A q \in Query : at[q] \in Working => q \in active \/ main' = "run"
    <3>1. CASE QueryReturns
      BY <3>1 DEF QueryReturns, QueriesPlaced, Pool!Known, Working
    <3>2. CASE ~QueryReturns
      BY <3>2 DEF QueriesPlaced, Main, Exit, Connect, ConnectFails, StopWaiting, Check, PoolDestroyed,
         CloseConnection, Joined, Goto
    <3>3. QED
      BY <3>1, <3>2
  <2>2. QED
    BY <1>1, <1>3, <2>1 DEF QueriesPlaced, jobVars
<1>6. NoQuery' = NoQuery
  BY <1>1 DEF NoQuery, jobVars
<1>7. PoolClosesFirst'
  BY <1>1, <1>3, <1>6 DEF PoolClosesFirst, Early, Ending, Quiet, Main, Exit, Connect, ConnectFails, StopWaiting,
         Check, QueryReturns, PoolDestroyed, CloseConnection, Joined, start, startFails, Shutdown, Close, Abort,
         Join, poolVars, Pool!Close, Pool!Closed, tcpVars, socketVars, Goto
<1>8. AnsweredFirst'
  BY <1>1, <1>2 DEF AnsweredFirst, Main, Exit, Connect, ConnectFails, StopWaiting, Check, QueryReturns,
         PoolDestroyed, CloseConnection, Joined, start, startFails, Shutdown, Close, Abort, Join,
         tcpVars, socketVars, listenVars, jobVars, Goto
<1>9. ClosedAgain'
  <2>1. CASE CloseConnection
    <3>1. main \in {"shutdown", "close", "abort"}
      BY <2>1 DEF CloseConnection, Goto
    <3>2. closed => main = "abort" \/ NoQuery
      BY <3>1 DEF ClosedAgain
    <3>3. CASE main = "abort"
      BY <1>6, <2>1, <3>3 DEF CloseConnection, Goto, Abort, sendVars, ClosedAgain
    <3>4. CASE main = "shutdown"
      BY <1>6, <2>1, <3>2, <3>4 DEF CloseConnection, Goto, Shutdown, Uses, ClosedAgain
    <3>5. CASE main = "close"
      BY <1>6, <2>1, <3>2, <3>5 DEF CloseConnection, Goto, Close, Uses, ClosedAgain
    <3>6. QED
      BY <3>1, <3>3, <3>4, <3>5
  <2>2. CASE ~CloseConnection
    <3>1. closed' = closed /\ misused' = misused
      BY <2>2 DEF Main, Exit, Connect, ConnectFails, StopWaiting, Check, QueryReturns, PoolDestroyed,
         Joined, OnlyMain, start, startFails, Join, tcpVars, socketVars, sendVars
    <3>2. main \in {"abort", "join", "returned"} => main' = "returned" \/ NoQuery
      BY <2>2 DEF PoolClosesFirst, Ending, Main, Exit, Connect, ConnectFails, StopWaiting, Check,
         QueryReturns, PoolDestroyed, Joined, Goto
    <3>3. QED
      BY <1>6, <3>1, <3>2 DEF ClosedAgain
  <2>3. QED
    BY <2>1, <2>2
<1>10. QED
  BY <1>2, <1>4, <1>5, <1>7, <1>8, <1>9

-----------------------------------------------------------------------------
(* The steps of a query.                                                   *)

\* Steps that move a query from one place of work to another, or end its work,
\* keep what the pool and the main thread know of it.
LEMMA WorkStep ==
    ASSUME ClientInv, NEW q \in Query, NEW s \in Working \cup {"done"},
           at[q] \in Working, at' = [at EXCEPT ![q] = s],
           UNCHANGED <<main, tcpConnected, poolVars, listenVars, gone, socketVars>>,
           wire # <<>> => wire' # <<>>, UnitTypeFirst'
    PROVE  QueriesPlaced' /\ PoolClosesFirst' /\ AnsweredFirst'
<1>. USE DEF ClientInv, poolVars, listenVars, socketVars
<1>1. phase # "closed" /\ ~shut /\ ~closed /\ main \in {"input", "run", "drain"} /\ tcpConnected
  BY BusyMeansOpen
<1>2. at' \in [Query -> Where] /\ \A r \in Query : at'[r] = IF r = q THEN s ELSE at[r]
  BY DEF Typed, Where
<1>3. s # "queued" /\ s # "idle" /\ at[q] # "queued"
  BY DEF Working
<1>4. QueriesPlaced'
  <2>1. \A i \in 1..Len(pending) : pending[i] \in Query /\ at'[pending[i]] = "queued"
    BY <1>2, <1>3, ElementOfSeq DEF QueriesPlaced, Typed
  <2>2. \A r \in Query : at'[r] = "queued" => \E i \in 1..Len(pending) : pending[i] = r
    BY <1>2, <1>3 DEF QueriesPlaced
  <2>3. \A r \in Query : at'[r] \in Working => r \in active \/ main = "run"
    BY <1>2 DEF QueriesPlaced
  <2>4. \A r \in active : at'[r] \in Working \cup {"done"}
    BY <1>2 DEF QueriesPlaced, Typed, TypeOK
  <2>5. \A r \in done : at'[r] = "done"
    <3>1. q \notin done
      BY DEF QueriesPlaced, Working
    <3>2. QED
      BY <1>2, <3>1 DEF QueriesPlaced, Typed, TypeOK
  <2>6. QED
    BY <2>1, <2>2, <2>3, <2>4, <2>5 DEF QueriesPlaced
<1>5. PoolClosesFirst'
  BY <1>1 DEF PoolClosesFirst, Early, Ending
<1>6. AnsweredFirst'
  BY <1>1 DEF AnsweredFirst
<1>7. QED
  BY <1>4, <1>5, <1>6

\* So does drawing a plan id.
LEMMA PlanIdStep ==
    ASSUME ClientInv, NEW q \in Query, getNextWorkItemPlanId(q)
    PROVE  ClientInv'
<1>. USE DEF ClientInv, getNextWorkItemPlanId, Step, tcpVars, sendVars
<1>1. UnitTypeFirst'
  BY DEF AnsweredFirst, UnitTypeFirst
<1>2. QueriesPlaced' /\ PoolClosesFirst' /\ AnsweredFirst'
  BY <1>1, WorkStep DEF Working
<1>3. /\ at' \in [Query -> Where] /\ \A r \in Query : at'[r] = IF r = q THEN "test" ELSE at[r]
      /\ plan' \in [Query -> Nat]
      /\ \A r \in Query : plan'[r] = IF r = q THEN workItemPlanId ELSE plan[r]
      /\ workItemPlanId' = workItemPlanId + 1 /\ workItemPlanId \in Nat /\ workItemPlanId' \in Nat
      /\ plan[q] = 0 /\ item[q] = 0
      /\ plan \in [Query -> Nat] /\ item \in [Query -> 0..Items]
  BY DEF Typed, TypeOK, Where, Working, PlanKnown
<1>4. Typed'
  BY <1>3 DEF Typed, TypeOK, poolVars, socketVars, listenVars, jsonVars
<1>5. PlanKnown'
  <2>1. workItemPlanId # 0
    BY <1>3 DEF PlanKnown
  <2>2. \A r \in Query : plan'[r] < workItemPlanId'
    BY <1>3 DEF PlanKnown
  <2>3. \A r \in Query : plan[r] # workItemPlanId
    BY <1>3 DEF PlanKnown
  <2>4. \A r, t \in Query : plan'[r] = plan'[t] /\ plan'[r] # 0 => r = t
    BY <1>3, <2>3 DEF PlanKnown
  <2>5. QED
    BY <1>3, <2>1, <2>2, <2>4 DEF PlanKnown
<1>6. ItemsSent'
  <2>1. \A r \in Query : plan[r] # 0 => plan'[r] = plan[r]
    BY <1>3
  <2>2. \A r \in Query : \A i \in 1..item[r] : Msg("item", plan'[r], i) \in SentOrLost
    BY <1>3 DEF ItemsSent
  <2>3. SentOrLost' = SentOrLost
    BY DEF SentOrLost
  <2>4. QED
    BY <2>1, <2>2, <2>3 DEF ItemsSent
<1>7. ClosedAgain'
  BY BusyMeansOpen, NotClosedYet DEF socketVars, Working
<1>8. QED
  BY <1>2, <1>4, <1>5, <1>6, <1>7

\* The steps around the plan file.
LEMMA JsonStep ==
    ASSUME ClientInv, NEW q \in Query, TestJsonPlan(q) \/ LoadJsonPlan(q) \/ ResetJsonPlan(q)
    PROVE  ClientInv'
<1>. USE DEF ClientInv, Step
<1>1. UNCHANGED <<tcpVars, main, tcpConnected, poolVars, plan, item, workItemPlanId>>
  BY DEF TestJsonPlan, LoadJsonPlan, ResetJsonPlan
<1>2. /\ at[q] \in {"test", "testFile", "load", "reset", "clear"}
      /\ \E s \in {"testFile", "load", "reset", "clear", "send"} : at' = [at EXCEPT ![q] = s]
  BY DEF TestJsonPlan, LoadJsonPlan, ResetJsonPlan
<1>3. PICK s \in {"testFile", "load", "reset", "clear", "send"} : at' = [at EXCEPT ![q] = s]
  BY <1>2
<1>4. UnitTypeFirst'
  BY <1>1 DEF AnsweredFirst, UnitTypeFirst, tcpVars, sendVars
<1>5. QueriesPlaced' /\ PoolClosesFirst' /\ AnsweredFirst'
  BY <1>1, <1>2, <1>3, <1>4, WorkStep DEF Working, tcpVars, sendVars
<1>6. at' \in [Query -> Where] /\ \A r \in Query : at'[r] = IF r = q THEN s ELSE at[r]
  BY <1>3 DEF Typed, Where, Working
<1>7. Typed'
  <2>1. jsonPlan' \in BOOLEAN /\ jsonPlanFile' \in BOOLEAN /\ planUsers' \subseteq Query /\ crashed' \in BOOLEAN
    BY DEF TestJsonPlan, LoadJsonPlan, ResetJsonPlan, Typed, TypeOK, jsonVars
  <2>2. /\ UNCHANGED <<shut, closed, globalAbort, listener, message, inbox, gone, wire>>
        /\ UNCHANGED <<pending, active, done, phase>>
    BY <1>1 DEF tcpVars, socketVars, listenVars, sendVars, poolVars
  <2>3. TypeOK'
    BY <1>1, <2>1, <2>2 DEF Typed, TypeOK
  <2>4. QED
    BY <1>1, <1>6, <2>2, <2>3 DEF Typed
<1>8. PlanKnown'
  <2>1. plan[q] # 0 /\ item[q] = 0 /\ item[q] < Items
    BY <1>2, DBClientAssumption DEF PlanKnown
  <2>2. QED
    BY <1>1, <1>3, <1>6, <2>1 DEF PlanKnown
<1>9. ItemsSent'
  BY <1>1 DEF ItemsSent, SentOrLost, tcpVars, sendVars
<1>10. ClosedAgain'
  <2>1. at[q] \in Working \cup {"queued"}
    BY <1>2 DEF Working
  <2>2. ~closed
    BY <2>1, BusyMeansOpen
  <2>3. QED
    BY <1>1, <2>2, NotClosedYet DEF tcpVars, socketVars, sendVars
<1>11. QED
  BY <1>5, <1>7, <1>8, <1>9, <1>10

\* The item that is sent is the next of its plan, and no other plan has its id.
LEMMA ItemStep ==
    ASSUME ClientInv, NEW q \in Query, SendItem(q)
    PROVE  ClientInv'
<1>. USE DEF ClientInv, SendItem, Step
<1>. DEFINE k == item[q] + 1
            m == Msg("item", plan[q], k)
            s == IF k = Items THEN "done" ELSE "send"
<1>1. /\ at[q] = "send" /\ at' = [at EXCEPT ![q] = s] /\ s \in {"done", "send"}
      /\ item' = [item EXCEPT ![q] = item[q] + 1]
  OBVIOUS
<1>2. ~closed /\ tcpConnected /\ ~shut
  BY <1>1, BusyMeansOpen DEF Working
<1>3. /\ plan \in [Query -> Nat] /\ item \in [Query -> 0..Items] /\ Items \in Nat
      /\ plan[q] # 0 /\ item[q] < Items /\ k \in 1..Items /\ k \in Nat
  BY <1>1, DBClientAssumption DEF Typed, TypeOK, PlanKnown
<1>4. m \in Messages /\ m.kind = "item" /\ m.plan = plan[q] /\ m.item = k
  BY <1>3 DEF Messages, Msg
<1>5. wire # <<>> \/ gone \/ shut \/ closed
  BY <1>2 DEF AnsweredFirst
<1>6. /\ wire' \in Seq(Messages)
      /\ UnitTypeFirst'
      /\ wire # <<>> => wire' # <<>>
      /\ Len(wire) \in Nat
      /\ Longer(m) \/ Longer(Cut) \/ wire' = wire
      /\ SentOrLost \subseteq SentOrLost'
      /\ m \in SentOrLost' /\ misused' = misused
  BY <1>2, <1>4, <1>5, NotifyEffect
<1>7. QueriesPlaced' /\ PoolClosesFirst' /\ AnsweredFirst'
  <2>1. s \in Working \cup {"done"}
    BY <1>1 DEF Working
  <2>2. QED
    BY <1>1, <1>6, <2>1, WorkStep DEF Working, listenVars, socketVars
<1>8. /\ at' \in [Query -> Where] /\ \A r \in Query : at'[r] = IF r = q THEN s ELSE at[r]
      /\ item' \in [Query -> 0..Items] /\ \A r \in Query : item'[r] = IF r = q THEN k ELSE item[r]
      /\ plan' = plan
  BY <1>1, <1>3 DEF Typed, Where, Working
<1>9. Typed'
  BY <1>3, <1>6, <1>8 DEF Typed, TypeOK, socketVars, listenVars, poolVars, jsonVars
<1>10. PlanKnown'
  <2>1. k # Items => k < Items
    BY <1>3
  <2>2. QED
    BY <1>1, <1>3, <1>8, <2>1 DEF PlanKnown
<1>11. ItemsSent'
  <2>1. \A r \in Query : item[r] <= item'[r]
    BY <1>3, <1>8
  <2>2. \A i \in 1..Len(wire) : wire[i].item \in Nat
    <3>1. \A i \in 1..Len(wire) : wire[i] \in Messages
      BY ElementOfSeq DEF Typed
    <3>2. QED
      BY <3>1 DEF Messages
  <2>3. \A i \in 1..Len(wire) : wire[i].kind = "item" =>
          \E r \in Query : plan[r] # 0 /\ wire[i].plan = plan[r] /\ wire[i].item <= item'[r]
    <3>. SUFFICES ASSUME NEW i \in 1..Len(wire), wire[i].kind = "item"
                  PROVE  \E r \in Query : plan[r] # 0 /\ wire[i].plan = plan[r] /\ wire[i].item <= item'[r]
      OBVIOUS
    <3>1. PICK r \in Query : plan[r] # 0 /\ wire[i].plan = plan[r] /\ wire[i].item <= item[r]
      BY DEF ItemsSent
    <3>2. wire[i].item \in Nat
      BY <2>2
    <3>3. wire[i].item <= item'[r]
      BY <1>3, <1>8, <2>1, <3>1, <3>2
    <3>4. QED
      BY <3>1, <3>3
  <2>4. \A i \in 1..Len(wire) : wire[i].kind = "item" /\ wire[i].plan = plan[q] => wire[i].item < k
    <3>. SUFFICES ASSUME NEW i \in 1..Len(wire), wire[i].kind = "item", wire[i].plan = plan[q]
                  PROVE  wire[i].item < k
      OBVIOUS
    <3>1. PICK r \in Query : plan[r] # 0 /\ wire[i].plan = plan[r] /\ wire[i].item <= item[r]
      BY DEF ItemsSent
    <3>2. r = q
      BY <3>1 DEF PlanKnown
    <3>3. wire[i].item \in Nat
      BY <2>2
    <3>4. QED
      BY <1>3, <3>1, <3>2, <3>3
  <2>5. \A r \in Query : \A i \in 1..item'[r] : Msg("item", plan[r], i) \in SentOrLost'
    <3>. SUFFICES ASSUME NEW r \in Query, NEW i \in 1..item'[r]
                  PROVE  Msg("item", plan[r], i) \in SentOrLost'
      OBVIOUS
    <3>1. CASE i \in 1..item[r]
      BY <1>6, <3>1 DEF ItemsSent
    <3>2. CASE i \notin 1..item[r]
      <4>1. r = q /\ i = k
        BY <1>3, <1>8, <3>2
      <4>2. QED
        BY <1>6, <4>1
    <3>3. QED
      BY <3>1, <3>2
  <2>6. CASE wire' = wire
    BY <1>6, <1>8, <2>3, <2>5, <2>6 DEF ItemsSent
  <2>7. ASSUME NEW x \in {m, Cut}, Longer(x)
        PROVE  ItemsSent'
    <3>. USE <2>7 DEF Longer
    <3>1. \A i \in 1..Len(wire') : i \in 1..Len(wire) \/ i = Len(wire) + 1
      BY <1>6
    <3>0. x.kind = "item" => x = m
      BY DEF Cut, Answer, Msg
    <3>2. \A i \in 1..Len(wire') : wire'[i].kind = "item" =>
            \E r \in Query : plan[r] # 0 /\ wire'[i].plan = plan[r] /\ wire'[i].item <= item'[r]
      <4>1. plan[q] # 0 /\ m.plan = plan[q] /\ m.item <= item'[q]
        BY <1>3, <1>4, <1>8
      <4>2. QED
        BY <2>3, <3>1, <3>0, <4>1
    <3>3. ASSUME NEW i \in 1..Len(wire'), NEW j \in 1..Len(wire'), i < j,
                 wire'[i].kind = "item", wire'[j].kind = "item", wire'[i].plan = wire'[j].plan
          PROVE  wire'[i].item < wire'[j].item
      <4>1. i \in 1..Len(wire)
        BY <1>6, <3>3
      <4>2. CASE j \in 1..Len(wire)
        BY <3>3, <4>1, <4>2 DEF ItemsSent
      <4>3. CASE j = Len(wire) + 1
        BY <1>4, <2>4, <3>3, <3>0, <4>1, <4>3
      <4>4. QED
        BY <3>1, <4>2, <4>3
    <3>4. QED
      BY <1>6, <1>8, <2>5, <3>2, <3>3 DEF ItemsSent
  <2>8. QED
    BY <1>6, <2>6, <2>7
<1>12. ClosedAgain'
  BY <1>2, <1>6, NotClosedYet DEF socketVars
<1>13. QED
  BY <1>7, <1>9, <1>10, <1>11, <1>12

-----------------------------------------------------------------------------
(* The steps of the pool and of the user.                                  *)

\* Steps that touch neither the connection nor what the plans and items are.
LEMMA PlacesOnly ==
    ASSUME ClientInv,
           UNCHANGED <<tcpVars, tcpConnected, plan, item, workItemPlanId, jsonVars, told, crashed>>
    PROVE  ItemsSent' /\ UnitTypeFirst'
BY DEF ClientInv, ItemsSent, AnsweredFirst, UnitTypeFirst, SentOrLost, tcpVars, sendVars

\* So does a query that begins.
LEMMA BeginStep ==
    ASSUME ClientInv, BeginTask
    PROVE  ClientInv'
<1>. USE DEF ClientInv, BeginTask, Pool!Begin
<1>. DEFINE q == Head(pending)
<1>1. ItemsSent' /\ UnitTypeFirst'
  BY PlacesOnly
<1>2. /\ pending \in Seq(Query) /\ pending # <<>> /\ q \in Query /\ Len(pending) \in Nat
      /\ 1 \in 1..Len(pending) /\ q = pending[1]
      /\ pending' \in Seq(Query) /\ Len(pending') = Len(pending) - 1
      /\ \A i \in 1..Len(pending') : i + 1 \in 1..Len(pending) /\ pending'[i] = pending[i + 1]
  <2>1. pending \in Seq(Query) /\ pending # <<>> /\ pending' = Tail(pending)
    BY DEF Typed
  <2>2. Len(pending) \in Nat /\ Len(pending) >= 1 /\ Head(pending) = pending[1]
    BY <2>1, EmptySeq
  <2>3. /\ Head(pending) \in Query /\ Tail(pending) \in Seq(Query)
        /\ Len(Tail(pending)) = Len(pending) - 1
        /\ \A i \in 1..Len(Tail(pending)) : Tail(pending)[i] = pending[i + 1]
    BY <2>1, HeadTailProperties
  <2>4. \A i \in 1..(Len(pending) - 1) : i + 1 \in 1..Len(pending)
    BY <2>2
  <2>5. QED
    BY <2>1, <2>2, <2>3, <2>4
<1>3. at[q] = "queued"
  BY <1>2 DEF QueriesPlaced
<1>4. phase # "closed" /\ ~shut /\ ~closed /\ main \in {"input", "run", "drain"} /\ tcpConnected
  BY <1>2, <1>3, BusyMeansOpen
<1>5. /\ at' \in [Query -> Where] /\ \A r \in Query : at'[r] = IF r = q THEN "plan" ELSE at[r]
      /\ active' = active \cup {q} /\ active' \subseteq Query
  BY <1>2 DEF Typed, TypeOK, Where, Working
<1>6. Typed'
  BY <1>2, <1>5 DEF Typed, TypeOK, tcpVars, socketVars, listenVars, sendVars, jsonVars
<1>7. QueriesPlaced'
  <2>1. \A i \in 1..Len(pending') : pending'[i] \in Query /\ pending'[i] # q
    <3>1. \A i \in 1..Len(pending') : i + 1 # 1 /\ i + 1 \in 1..Len(pending)
      BY <1>2
    <3>2. QED
      BY <1>2, <3>1, ElementOfSeq DEF QueriesPlaced
  <2>2. \A i \in 1..Len(pending') : at'[pending'[i]] = "queued"
    BY <1>2, <1>5, <2>1 DEF QueriesPlaced
  <2>3. \A i, j \in 1..Len(pending') : pending'[i] = pending'[j] => i = j
    <3>. SUFFICES ASSUME NEW i \in 1..Len(pending'), NEW j \in 1..Len(pending'), pending'[i] = pending'[j]
                  PROVE  i = j
      OBVIOUS
    <3>1. i + 1 = j + 1
      BY <1>2 DEF QueriesPlaced
    <3>2. QED
      BY <3>1
  <2>4. \A r \in Query : at'[r] = "queued" => \E i \in 1..Len(pending') : pending'[i] = r
    <3>. SUFFICES ASSUME NEW r \in Query, at'[r] = "queued"
                  PROVE  \E i \in 1..Len(pending') : pending'[i] = r
      OBVIOUS
    <3>1. r # q /\ at[r] = "queued"
      BY <1>5
    <3>2. PICK i \in 1..Len(pending) : pending[i] = r
      BY <3>1 DEF QueriesPlaced
    <3>3. i # 1
      BY <1>2, <3>1, <3>2
    <3>4. i - 1 \in 1..Len(pending') /\ (i - 1) + 1 = i
      BY <1>2, <3>3
    <3>5. QED
      BY <1>2, <3>2, <3>4
  <2>5. \A r \in Query : at'[r] \in Working => r \in active' \/ main = "run"
    BY <1>5 DEF QueriesPlaced
  <2>6. \A r \in active' : at'[r] \in Working \cup {"done"}
    BY <1>2, <1>5 DEF QueriesPlaced, Typed, TypeOK, Working
  <2>7. \A r \in done : at'[r] = "done"
    BY <1>2, <1>3, <1>5 DEF QueriesPlaced, Typed, TypeOK
  <2>8. QED
    BY <2>2, <2>3, <2>4, <2>5, <2>6, <2>7 DEF QueriesPlaced
<1>8. PoolClosesFirst'
  BY <1>4 DEF PoolClosesFirst, Early, Ending, tcpVars, socketVars
<1>9. AnsweredFirst'
  BY <1>1, <1>4 DEF AnsweredFirst, tcpVars, socketVars, listenVars, sendVars
<1>10. PlanKnown'
  BY <1>2, <1>3, <1>5 DEF PlanKnown
<1>11. ClosedAgain'
  BY <1>4, NotClosedYet DEF tcpVars, socketVars, sendVars
<1>12. QED
  BY <1>1, <1>6, <1>7, <1>8, <1>9, <1>10, <1>11

\* So does a query that ends.
LEMMA EndStep ==
    ASSUME ClientInv, NEW q \in Query, EndTask(q)
    PROVE  ClientInv'
<1>. USE DEF ClientInv, EndTask, Pool!Complete, jobVars
<1>1. PlanKnown' /\ ItemsSent' /\ UnitTypeFirst'
  BY PlansAndItemsStay DEF tcpVars, sendVars
<1>2. Typed'
  BY DEF Typed, TypeOK, tcpVars, socketVars, listenVars, sendVars, jsonVars
<1>3. QueriesPlaced'
  BY DEF QueriesPlaced, Working
<1>4. PoolClosesFirst'
  BY DEF PoolClosesFirst, Quiet, NoQuery, Early, Ending, tcpVars, socketVars
<1>5. AnsweredFirst'
  BY <1>1 DEF AnsweredFirst, tcpVars, socketVars, listenVars, sendVars
<1>6. ClosedAgain'
  BY DEF ClosedAgain, NoQuery, tcpVars, socketVars, sendVars
<1>7. QED
  BY <1>1, <1>2, <1>3, <1>4, <1>5, <1>6

\* A query is typed or entered in a file, while the client is at its input.
LEMMA EnteredStep ==
    ASSUME ClientInv, NEW q \in Query, EnqueueFileQuery(q) \/ SendQuery(q)
    PROVE  ClientInv'
<1>. USE DEF ClientInv
<1>1. UNCHANGED <<tcpVars, tcpConnected, active, done, phase, plan, item, workItemPlanId, jsonVars, told, crashed>>
  BY DEF EnqueueFileQuery, SendQuery, Pool!Submit, poolVars
<1>2. ItemsSent' /\ UnitTypeFirst'
  BY <1>1, PlacesOnly
<1>3. PICK s \in {"queued", "plan"} : at' = [at EXCEPT ![q] = s]
  BY DEF EnqueueFileQuery, SendQuery
<1>4. /\ at' \in [Query -> Where] /\ \A r \in Query : at'[r] = IF r = q THEN s ELSE at[r]
      /\ at[q] = "idle" /\ main = "input"
  BY <1>3 DEF EnqueueFileQuery, SendQuery, Goto, Typed, Where, Working
<1>5. phase = "open" /\ ~shut /\ ~closed /\ tcpConnected
  BY <1>4 DEF PoolClosesFirst, AnsweredFirst, Early
<1>6. pending \in Seq(Query) /\ Len(pending) \in Nat
  BY LenProperties DEF Typed
<1>7. PlanKnown'
  BY <1>1, <1>4 DEF PlanKnown
<1>8. AnsweredFirst' /\ ClosedAgain'
  BY <1>1, <1>2, <1>5, NotClosedYet DEF AnsweredFirst, tcpVars, socketVars, listenVars, sendVars
<1>9. q \notin active /\ q \notin done /\ \A i \in 1..Len(pending) : pending[i] \in Query /\ pending[i] # q
  BY <1>4, <1>6, ElementOfSeq DEF QueriesPlaced, Working
<1>10. CASE EnqueueFileQuery(q)
  <2>1. s = "queued" /\ main' = main /\ pending' = Append(pending, q)
    BY <1>3, <1>4, <1>10 DEF EnqueueFileQuery, Pool!Submit, Typed
  <2>2. /\ pending' \in Seq(Query) /\ Len(pending') = Len(pending) + 1
        /\ \A i \in 1..Len(pending) : pending'[i] = pending[i]
        /\ pending'[Len(pending) + 1] = q
    BY <1>6, <2>1, AppendProperties
  <2>3. /\ \A i \in 1..Len(pending') : i \in 1..Len(pending) \/ i = Len(pending) + 1
        /\ \A i \in 1..Len(pending) : i \in 1..Len(pending')
        /\ Len(pending) + 1 \in 1..Len(pending')
    BY <1>6, <2>2
  <2>4. Typed'
    BY <1>1, <1>4, <2>1, <2>2 DEF Typed, TypeOK, tcpVars, socketVars, listenVars, sendVars, jsonVars
  <2>5. QueriesPlaced'
    <3>1. \A i \in 1..Len(pending') : at'[pending'[i]] = "queued"
      BY <1>4, <1>9, <2>1, <2>2, <2>3 DEF QueriesPlaced
    <3>2. \A i, j \in 1..Len(pending') : pending'[i] = pending'[j] => i = j
      BY <1>9, <2>2, <2>3 DEF QueriesPlaced
    <3>3. \A r \in Query : at'[r] = "queued" => \E i \in 1..Len(pending') : pending'[i] = r
      BY <1>4, <2>2, <2>3 DEF QueriesPlaced
    <3>4. \A r \in Query : at'[r] \in Working => r \in active \/ main' = "run"
      BY <1>4, <2>1 DEF QueriesPlaced, Working
    <3>5. /\ \A r \in active : at'[r] \in Working \cup {"done"}
          /\ \A r \in done : at'[r] = "done"
      BY <1>4, <1>9 DEF QueriesPlaced, Typed, TypeOK
    <3>6. QED
      BY <1>1, <3>1, <3>2, <3>3, <3>4, <3>5 DEF QueriesPlaced
  <2>6. PoolClosesFirst'
    BY <1>1, <1>4, <1>5, <2>1 DEF PoolClosesFirst, Early, Ending, tcpVars, socketVars
  <2>7. QED
    BY <1>2, <1>7, <1>8, <2>4, <2>5, <2>6
<1>11. CASE SendQuery(q)
  <2>1. s = "plan" /\ main' = "run" /\ pending' = pending
    BY <1>3, <1>4, <1>11 DEF SendQuery, Goto, poolVars, Typed
  <2>2. Typed'
    BY <1>1, <1>4, <2>1 DEF Typed, TypeOK, tcpVars, socketVars, listenVars, sendVars, jsonVars
  <2>3. QueriesPlaced'
    <3>1. /\ \A i \in 1..Len(pending) : at'[pending[i]] = "queued"
          /\ \A r \in Query : at'[r] = "queued" => \E i \in 1..Len(pending) : pending[i] = r
      BY <1>4, <1>9, <2>1 DEF QueriesPlaced
    <3>2. /\ \A r \in active : at'[r] \in Working \cup {"done"}
          /\ \A r \in done : at'[r] = "done"
      BY <1>4, <1>9 DEF QueriesPlaced, Typed, TypeOK
    <3>3. QED
      BY <1>1, <2>1, <3>1, <3>2 DEF QueriesPlaced
  <2>4. PoolClosesFirst'
    BY <1>1, <1>5, <2>1 DEF PoolClosesFirst, Early, Ending, tcpVars, socketVars
  <2>5. QED
    BY <1>2, <1>7, <1>8, <2>2, <2>3, <2>4
<1>12. QED
  BY <1>10, <1>11

-----------------------------------------------------------------------------
(* The listener and the server.                                            *)

\* A call of notifyHost by the listener, whose answers are no items.
LEMMA ListenerAnswers ==
    ASSUME ClientInv, NEW kind \in Kinds \cup {"finished"}, notifyHost(Listener, Answer(kind)),
           wire # <<>> \/ kind = "unit",
           UNCHANGED jobVars
    PROVE  /\ wire' \in Seq(Messages)
           /\ UnitTypeFirst'
           /\ wire # <<>> => wire' # <<>>
           /\ wire' # <<>> \/ gone \/ shut \/ closed
           /\ PlanKnown' /\ ItemsSent'
           /\ misused' \subseteq misused \cup {Listener}
<1>. USE DEF ClientInv, jobVars
<1>. DEFINE m == Answer(kind)
<1>1. m \in Messages /\ m.kind = kind /\ m.kind # "item"
  BY DEF Messages, Answer, Msg, Kinds
<1>2. /\ wire' \in Seq(Messages)
      /\ UnitTypeFirst'
      /\ wire # <<>> => wire' # <<>>
      /\ wire' # <<>> \/ gone \/ shut \/ closed
      /\ Len(wire) \in Nat
      /\ Longer(m) \/ Longer(Cut) \/ wire' = wire
      /\ SentOrLost \subseteq SentOrLost'
      /\ misused' \subseteq misused \cup {Listener}
  BY <1>1, NotifyEffect
<1>3. PlanKnown'
  BY DEF PlanKnown
<1>4. ItemsSent'
  <2>1. \A i \in 1..Len(wire') : wire'[i].kind = "item" => i \in 1..Len(wire) /\ wire'[i] = wire[i]
    <3>1. CASE wire' = wire
      BY <3>1
    <3>2. CASE Longer(m) \/ Longer(Cut)
      <4>1. Cut.kind # "item"
        BY DEF Cut, Answer, Msg
      <4>2. QED
        BY <1>1, <1>2, <3>2, <4>1 DEF Longer
    <3>3. QED
      BY <1>2, <3>1, <3>2
  <2>2. \A i \in 1..Len(wire') : wire'[i].kind = "item" =>
          \E q \in Query : plan[q] # 0 /\ wire'[i].plan = plan[q] /\ wire'[i].item <= item[q]
    BY <2>1 DEF ItemsSent
  <2>3. \A i, j \in 1..Len(wire') :
          i < j /\ wire'[i].kind = "item" /\ wire'[j].kind = "item" /\ wire'[i].plan = wire'[j].plan
            => wire'[i].item < wire'[j].item
    BY <2>1 DEF ItemsSent
  <2>4. \A q \in Query : \A i \in 1..item[q] : Msg("item", plan[q], i) \in SentOrLost'
    BY <1>2 DEF ItemsSent
  <2>5. misused' \subseteq {Listener, MainThread}
    BY <1>2 DEF ItemsSent
  <2>6. QED
    BY <2>2, <2>3, <2>4, <2>5 DEF ItemsSent
<1>5. QED
  BY <1>2, <1>3, <1>4

\* What the listener and the server leave alone, and what follows.
LEMMA OthersStay ==
    ASSUME ClientInv, UNCHANGED <<main, poolVars, jobVars, shut, closed>>,
           misused' \subseteq misused \cup {Listener}
    PROVE  QueriesPlaced' /\ PoolClosesFirst' /\ ClosedAgain'
BY DEF ClientInv, QueriesPlaced, PoolClosesFirst, NoQuery, Quiet, ClosedAgain, Listener, MainThread,
       poolVars, jobVars

\* So does the listener.
LEMMA ListenerStep ==
    ASSUME ClientInv, Listen
    PROVE  ClientInv'
<1>. USE DEF ClientInv
<1>1. UNCHANGED <<main, poolVars, jobVars, jsonVars, shut, closed, gone, told, crashed>>
  BY DEF Listen, ListenLoop, NoCallback, updateUnitInfo, work, TestAbort, CallRecv, Received, ReceivedNothing,
         RecvFailed, UuidCollision, socketVars
<1>2. misused' \subseteq misused \cup {Listener}
  BY DEF Listen, ListenLoop, NoCallback, updateUnitInfo, work, TestAbort, CallRecv, Received, ReceivedNothing,
         RecvFailed, UuidCollision, notifyHost, Uses, sendVars
<1>0. QueriesPlaced' /\ PoolClosesFirst' /\ ClosedAgain'
  BY <1>1, <1>2, OthersStay
<1>3. CASE \/ (TestAbort \/ ReceivedNothing \/ RecvFailed) /\ NoCallback
           \/ updateUnitInfo /\ listener = "answered"
  <2>1. UNCHANGED <<sendVars, message, inbox>> /\ (listener' = "answered" => FALSE) /\ listener' # "callback"
    BY <1>3 DEF TestAbort, ReceivedNothing, RecvFailed, updateUnitInfo
  <2>2. tcpConnected' => tcpConnected \/ listener = "answered"
    BY <1>3 DEF NoCallback, updateUnitInfo
  <2>3. PlanKnown' /\ ItemsSent' /\ UnitTypeFirst'
    BY <1>1, <2>1, PlansAndItemsStay DEF sendVars
  <2>4. Typed'
    BY <1>1, <1>3, <2>1 DEF Typed, TypeOK, TestAbort, ReceivedNothing, RecvFailed, updateUnitInfo,
       NoCallback, socketVars, sendVars, poolVars, jobVars, jsonVars
  <2>5. tcpConnected => tcpConnected'
    BY <1>3 DEF NoCallback, updateUnitInfo
  <2>6. AnsweredFirst'
    BY <1>1, <2>1, <2>2, <2>3, <2>5 DEF AnsweredFirst, sendVars, jobVars
  <2>7. QED
    BY <1>0, <2>3, <2>4, <2>6
<1>4. CASE CallRecv /\ NoCallback
  <2>1. UNCHANGED <<wire, lost, message, inbox, tcpConnected>> /\ listener' \in {"failed", "recv"}
        /\ misused' \subseteq misused \cup {Listener}
    BY <1>4 DEF CallRecv, NoCallback, Uses
  <2>2. Typed'
    BY <1>1, <1>4, <2>1 DEF Typed, TypeOK, CallRecv, socketVars, poolVars, jobVars, jsonVars
  <2>3. PlanKnown' /\ ItemsSent'
    BY <1>1, <2>1 DEF PlanKnown, ItemsSent, SentOrLost, jobVars
  <2>4. AnsweredFirst'
    BY <1>1, <2>1 DEF AnsweredFirst, UnitTypeFirst, jobVars
  <2>5. QED
    BY <1>0, <2>2, <2>3, <2>4
<1>5. CASE Received /\ NoCallback
  <2>1. /\ inbox \in Seq(Kinds) /\ inbox # <<>> /\ Len(inbox) \in Nat
        /\ message' = inbox[1] /\ message' \in Kinds /\ 1 \in 1..Len(inbox)
        /\ inbox' \in Seq(Kinds) /\ Len(inbox') = Len(inbox) - 1
        /\ \A i \in 1..Len(inbox') : i + 1 \in 1..Len(inbox) /\ inbox'[i] = inbox[i + 1]
    <3>1. inbox \in Seq(Kinds) /\ inbox # <<>> /\ inbox' = Tail(inbox) /\ message' = Head(inbox)
      BY <1>5 DEF Typed, Received
    <3>2. Len(inbox) \in Nat /\ Len(inbox) >= 1 /\ Head(inbox) = inbox[1]
      BY <3>1, EmptySeq
    <3>3. /\ Head(inbox) \in Kinds /\ Tail(inbox) \in Seq(Kinds)
          /\ Len(Tail(inbox)) = Len(inbox) - 1
          /\ \A i \in 1..Len(Tail(inbox)) : Tail(inbox)[i] = inbox[i + 1]
      BY <3>1, HeadTailProperties
    <3>4. \A i \in 1..(Len(inbox) - 1) : i + 1 \in 1..Len(inbox)
      BY <3>2
    <3>5. QED
      BY <3>1, <3>2, <3>3, <3>4
  <2>2. UNCHANGED <<sendVars, tcpConnected>> /\ listener' = "callback"
    BY <1>5 DEF Received, NoCallback
  <2>3. PlanKnown' /\ ItemsSent' /\ UnitTypeFirst'
    BY <1>1, <2>2, PlansAndItemsStay DEF sendVars
  <2>4. Typed'
    BY <1>1, <1>5, <2>1, <2>2 DEF Typed, TypeOK, Received, socketVars, sendVars, poolVars, jobVars, jsonVars
  <2>5. /\ \A i \in 1..Len(inbox') : inbox'[i] # "unit" => wire # <<>>
        /\ message' # "unit" => wire # <<>>
    BY <2>1 DEF AnsweredFirst
  <2>6. AnsweredFirst'
    BY <1>1, <2>2, <2>3, <2>5 DEF AnsweredFirst, sendVars, jobVars
  <2>7. QED
    BY <1>0, <2>3, <2>4, <2>6
<1>6. CASE \/ UuidCollision /\ NoCallback
           \/ work
           \/ updateUnitInfo /\ listener # "answered"
  <2>1. PICK kind \in {"collision", "finished", "unit"} :
          /\ notifyHost(Listener, Answer(kind))
          /\ kind # "unit" => listener = "callback" /\ message # "unit"
          /\ listener' = IF kind = "unit" THEN "answered" ELSE "test"
    BY <1>6 DEF UuidCollision, work, updateUnitInfo
  <2>2. UNCHANGED <<message, inbox, tcpConnected>>
    BY <1>6 DEF UuidCollision, work, updateUnitInfo, NoCallback
  <2>3. wire # <<>> \/ kind = "unit"
    BY <2>1 DEF AnsweredFirst
  <2>4. /\ wire' \in Seq(Messages)
        /\ UnitTypeFirst'
        /\ wire # <<>> => wire' # <<>>
        /\ wire' # <<>> \/ gone \/ shut \/ closed
        /\ PlanKnown' /\ ItemsSent'
    BY <1>1, <2>1, <2>3, ListenerAnswers DEF Kinds
  <2>5. Typed'
    BY <1>1, <1>6, <2>1, <2>2, <2>4 DEF Typed, TypeOK, UuidCollision, work, updateUnitInfo,
       socketVars, poolVars, jobVars, jsonVars
  <2>6. AnsweredFirst'
    BY <1>1, <2>1, <2>2, <2>4 DEF AnsweredFirst, jobVars
  <2>7. QED
    BY <1>0, <2>4, <2>5, <2>6
<1>7. QED
  BY <1>3, <1>4, <1>5, <1>6 DEF Listen, ListenLoop

\* The server asks for anything but the unit type only after an answer to it.
LEMMA ServerStep ==
    ASSUME ClientInv, Server
    PROVE  ClientInv'
<1>. USE DEF ClientInv
<1>1. UNCHANGED <<socketVars, listener, message, sendVars, main, tcpConnected, poolVars, jobVars, jsonVars, crashed>>
  BY DEF Server, ServerCloses, ServerSends, listenVars
<1>2. QueriesPlaced' /\ PoolClosesFirst' /\ ClosedAgain'
  BY <1>1, OthersStay DEF socketVars, sendVars
<1>3. PlanKnown' /\ ItemsSent' /\ UnitTypeFirst'
  BY <1>1, PlansAndItemsStay DEF sendVars
<1>4. CASE ServerCloses
  <2>1. Typed'
    BY <1>1, <1>4 DEF ServerCloses, Typed, TypeOK, socketVars, listenVars, sendVars, poolVars, jobVars, jsonVars
  <2>2. AnsweredFirst'
    BY <1>1, <1>3, <1>4 DEF ServerCloses, AnsweredFirst, socketVars, listenVars, sendVars, jobVars
  <2>3. QED
    BY <1>2, <1>3, <2>1, <2>2
<1>5. ASSUME NEW kind \in Kinds, ServerSends(kind)
      PROVE  ClientInv'
  <2>1. inbox \in Seq(Kinds) /\ inbox' = Append(inbox, kind) /\ gone' = gone
    BY <1>5 DEF ServerSends, Typed
  <2>2. /\ inbox' \in Seq(Kinds) /\ Len(inbox') = Len(inbox) + 1 /\ Len(inbox) \in Nat
        /\ \A i \in 1..Len(inbox) : inbox'[i] = inbox[i]
        /\ inbox'[Len(inbox) + 1] = kind
    BY <2>1, AppendProperties, LenProperties
  <2>3. kind # "unit" => wire # <<>>
    BY <1>5 DEF ServerSends, Answered
  <2>4. \A i \in 1..Len(inbox') : inbox'[i] # "unit" => wire # <<>>
    BY <2>2, <2>3 DEF AnsweredFirst
  <2>5. Typed'
    BY <1>1, <2>1, <2>2 DEF Typed, TypeOK, socketVars, sendVars, poolVars, jobVars, jsonVars
  <2>6. AnsweredFirst'
    BY <1>1, <1>3, <2>1, <2>4 DEF AnsweredFirst, socketVars, sendVars, jobVars
  <2>7. QED
    BY <1>2, <1>3, <2>5, <2>6
<1>6. QED
  BY <1>4, <1>5 DEF Server, Kinds

-----------------------------------------------------------------------------
(* The theorems.                                                           *)

\* ClientInv is inductive.
LEMMA ClientInvStep ==
    ClientInv /\ [Next]_vars => ClientInv'
<1>. SUFFICES ASSUME ClientInv, [Next]_vars PROVE ClientInv'
  OBVIOUS
<1>1. CASE Next
  <2>1. ASSUME NEW q \in Query, Pipeline(q)
        PROVE  ClientInv'
    BY <2>1, PlanIdStep, JsonStep, ItemStep, EndStep DEF Pipeline
  <2>2. ASSUME User
        PROVE  ClientInv'
    BY <2>2, MainStep, EnteredStep DEF User
  <2>3. QED
    BY <1>1, <2>1, <2>2, MainStep, ListenerStep, ServerStep, BeginStep DEF Next
<1>2. CASE UNCHANGED vars
  <2>1. UNCHANGED <<tcpVars, main, tcpConnected, poolVars, jobVars, jsonVars, told, crashed>>
    BY <1>2 DEF vars
  <2>2. PlanKnown' /\ ItemsSent' /\ UnitTypeFirst'
    BY <2>1, PlansAndItemsStay DEF tcpVars, sendVars
  <2>3. QueriesPlaced' /\ PoolClosesFirst' /\ ClosedAgain'
    BY <2>1, OthersStay DEF tcpVars, socketVars, sendVars
  <2>4. Typed'
    BY <2>1 DEF ClientInv, Typed, TypeOK, tcpVars, socketVars, listenVars, sendVars, poolVars, jobVars, jsonVars
  <2>5. AnsweredFirst'
    BY <2>1, <2>2 DEF ClientInv, AnsweredFirst, tcpVars, socketVars, listenVars, sendVars, jobVars
  <2>6. QED
    BY <2>2, <2>3, <2>4, <2>5 DEF ClientInv
<1>3. QED
  BY <1>1, <1>2

\* Every reachable state satisfies the invariant.
THEOREM ClientInvariant == Spec => []ClientInv
<1>1. Init => ClientInv
  BY ClientInvInit
<1>2. ClientInv /\ [Next]_vars => ClientInv'
  BY ClientInvStep
<1>3. QED
  BY <1>1, <1>2, PTL DEF Spec

\* The variables of the client keep their types.
THEOREM ClientTypes == Spec => []TypeOK
<1>1. ClientInv => TypeOK
  BY DEF ClientInv, Typed
<1>2. QED
  BY <1>1, ClientInvariant, PTL

\* Whatever the time-out, the listener and the workers do, the unit type is the
\* first message on the connection (updateUnitInfo, run and notifyHost).
THEOREM UnitTypeIsFirst == Spec => []UnitTypeFirst
<1>1. ClientInv => UnitTypeFirst
  BY DEF ClientInv, AnsweredFirst
<1>2. QED
  BY <1>1, ClientInvariant, PTL

\* No two queries share a plan id, and the items of one plan are on the wire
\* in their order, however many workers send.
THEOREM PlansStayApart == Spec => []PlansKeptApart
<1>1. ClientInv => PlansKeptApart
  <2>. SUFFICES ASSUME ClientInv PROVE PlansKeptApart
    OBVIOUS
  <2>1. DOMAIN wire = 1..Len(wire)
    BY LenProperties DEF ClientInv, Typed
  <2>2. QED
    BY <2>1 DEF ClientInv, PlanKnown, ItemsSent, PlansKeptApart
<1>2. QED
  BY <1>1, ClientInvariant, PTL

\* No item of a query that was entered is still to be sent when the connection
\* is shut down, no query uses a closed descriptor, and the main thread only
\* after the time-out, when nothing was entered (closeConnection, run and the
\* destructors).
THEOREM NoQueryCutOff == Spec => []NoneCutOff
<1>1. ClientInv => NoneCutOff
  <2>. SUFFICES ASSUME ClientInv PROVE NoneCutOff
    OBVIOUS
  <2>. USE DEF ClientInv
  <2>1. ASSUME shut, NEW q \in Submitted, NEW i \in 1..Items
        PROVE  Msg("item", plan[q], i) \in SentOrLost
    <3>1. q \in Query /\ at[q] # "idle"
      BY <2>1 DEF Submitted
    <3>2. at[q] \notin Working \cup {"queued"}
      BY <2>1, <3>1, BusyMeansOpen
    <3>3. at[q] = "done"
      BY <3>1, <3>2 DEF Typed, Where
    <3>4. item[q] = Items
      BY <3>1, <3>3 DEF PlanKnown
    <3>5. QED
      BY <2>1, <3>1, <3>4 DEF ItemsSent
  <2>2. MainThread \in misused => Submitted = {}
    BY DEF ClosedAgain, NoQuery, Submitted
  <2>3. QED
    BY <2>1, <2>2 DEF NoneCutOff, ItemsSent
<1>2. QED
  BY <1>1, ClientInvariant, PTL
=============================================================================
