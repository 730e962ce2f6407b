------------------------------ MODULE DBClient ------------------------------
(***************************************************************************)
(* src/cpp/code/src/client/DBClient.cpp connected to a server: the main    *)
(* thread from run() to the destructor, the tasks it gives to its thread   *)
(* pool and the callbacks of its connection.  The pool is the TaskExecutor *)
(* that ThreadPool implements; the connection is TCPClient.  What becomes  *)
(* of a query on its way to work items is the matter of Optimizer; here it *)
(* is Items items.                                                         *)
(***************************************************************************)
EXTENDS TCPClient

CONSTANTS Query,        \* the queries a user enters, each once
          Workers,      \* threads of the pool
          Items,        \* work items of a query
          PlanGiven     \* the client was started with -jsonPlan

ASSUME DBClientAssumption ==
    /\ Workers \in Nat \ {0}
    /\ Items \in Nat \ {0}
    /\ PlanGiven \in BOOLEAN

VARIABLES main,                         \* what the main thread does next
          tcpConnected,
          pending, active, done, phase, \* the thread pool
          at, plan, item,               \* where a query is, its plan id, items sent
          workItemPlanId,
          jsonPlan,                     \* the configuration says that there is a plan file
          jsonPlanFile,                 \* and has its name
          planUsers,                    \* the queries the plan file was used for
          told,                         \* what the server has sent
          crashed                       \* an exception has ended the process

Pool == INSTANCE TaskExecutor WITH Task <- Query, Parallelism <- Workers

poolVars == <<pending, active, done, phase>>
jobVars == <<at, plan, item, workItemPlanId>>
jsonVars == <<jsonPlan, jsonPlanFile, planUsers>>
vars == <<tcpVars, main, tcpConnected, poolVars, jobVars, jsonVars, told, crashed>>

Init ==
    /\ TCPInit
    /\ Pool!Init
    /\ main = "start" /\ tcpConnected = FALSE
    /\ at = [q \in Query |-> "idle"]
    /\ plan = [q \in Query |-> 0]
    /\ item = [q \in Query |-> 0]
    /\ workItemPlanId = 1
    /\ jsonPlan = PlanGiven /\ jsonPlanFile = PlanGiven
    /\ planUsers = {} /\ told = {} /\ crashed = FALSE

-----------------------------------------------------------------------------
(***************************************************************************)
(* The main thread.                                                        *)
(***************************************************************************)
Goto(s, t) == main = s /\ main' = t

OnlyMain == UNCHANGED <<tcpConnected, jobVars, jsonVars, told, crashed>>

Connect ==
    /\ Goto("start", "wait")
    /\ start
    /\ OnlyMain /\ UNCHANGED poolVars

\* Nobody catches what start throws.
ConnectFails ==
    /\ main = "start"
    /\ startFails
    /\ crashed' = TRUE
    /\ UNCHANGED <<main, tcpConnected, poolVars, jobVars, jsonVars, told>>

\* The polling ends when the flag is seen or the time is over.
StopWaiting ==
    /\ Goto("wait", "check")
    /\ OnlyMain /\ UNCHANGED <<tcpVars, poolVars>>

\* Mutant: the time-out is taken for success.
CheckNothing ==
    /\ Goto("check", "input")
    /\ OnlyMain /\ UNCHANGED <<tcpVars, poolVars>>

Check ==
    /\ Goto("check", IF tcpConnected THEN "input" ELSE "shutdown")
    /\ OnlyMain /\ UNCHANGED <<tcpVars, poolVars>>

\* A query of an SQL file, the one given with -file or one that is entered.
EnqueueFileQuery(q) ==
    /\ main = "input" /\ at[q] = "idle"
    /\ Pool!Submit(q)
    /\ at' = [at EXCEPT ![q] = "queued"]
    /\ UNCHANGED <<tcpVars, main, tcpConnected, plan, item, workItemPlanId, jsonVars, told, crashed>>

\* A query that is typed is run by the main thread itself.
SendQuery(q) ==
    /\ Goto("input", "run")
    /\ at[q] = "idle"
    /\ at' = [at EXCEPT ![q] = "plan"]
    /\ UNCHANGED <<tcpVars, tcpConnected, poolVars, plan, item, workItemPlanId, jsonVars, told, crashed>>

QueryReturns ==
    /\ Goto("run", "input")
    /\ \A q \in Query : q \in Pool!Known \/ at[q] \in {"idle", "done"}
    /\ OnlyMain /\ UNCHANGED <<tcpVars, poolVars>>

\* Mutant: the connection is destroyed before the pool.
ExitClosesFirst ==
    /\ Goto("input", "shutdown")
    /\ OnlyMain /\ UNCHANGED <<tcpVars, poolVars>>

\* exit, the end of the input or SIGINT: run returns, and the members are
\* destroyed, the pool first.
Exit ==
    /\ Goto("input", "drain")
    /\ Pool!Close
    /\ OnlyMain /\ UNCHANGED tcpVars

PoolDestroyed ==
    /\ Goto("drain", "shutdown")
    /\ Pool!Closed
    /\ OnlyMain /\ UNCHANGED tcpVars

\* closeConnection, in the destructor of the connection and, before it, after
\* the time-out.
CloseConnection ==
    /\ \/ Goto("shutdown", "close") /\ Shutdown
       \/ Goto("close", "abort") /\ Close
       \/ Goto("abort", "join") /\ Abort
    /\ OnlyMain /\ UNCHANGED poolVars

Joined ==
    /\ Join
    /\ IF phase = "closed" THEN Goto("join", "returned") /\ UNCHANGED poolVars
                           ELSE Goto("join", "drain") /\ Pool!Close
    /\ OnlyMain

Main ==
    \/ Connect \/ ConnectFails \/ StopWaiting \/ Check \/ QueryReturns
    \/ PoolDestroyed \/ CloseConnection \/ Joined

-----------------------------------------------------------------------------
(***************************************************************************)
(* runOptimizerPipeline for one query, in a worker or in the main thread.  *)
(* The flag and the name of the plan file are shared and not guarded.      *)
(***************************************************************************)
Step(q, s, t) == at[q] = s /\ at' = [at EXCEPT ![q] = t]

BeginTask ==
    /\ Pool!Begin
    /\ at' = [at EXCEPT ![Head(pending)] = "plan"]
    /\ UNCHANGED <<tcpVars, main, tcpConnected, plan, item, workItemPlanId, jsonVars, told, crashed>>

\* Mutant: the id is read and incremented in two steps.
NextPlanIdInTwo(q) ==
    /\ IF plan[q] = 0
       THEN at[q] = "plan" /\ plan' = [plan EXCEPT ![q] = workItemPlanId] /\ UNCHANGED <<at, workItemPlanId>>
       ELSE Step(q, "plan", "test") /\ workItemPlanId' = plan[q] + 1 /\ UNCHANGED plan
    /\ UNCHANGED <<tcpVars, main, tcpConnected, poolVars, item, jsonVars, told, crashed>>

getNextWorkItemPlanId(q) ==
    /\ Step(q, "plan", "test")
    /\ plan' = [plan EXCEPT ![q] = workItemPlanId]
    /\ workItemPlanId' = workItemPlanId + 1
    /\ UNCHANGED <<tcpVars, main, tcpConnected, poolVars, item, jsonVars, told, crashed>>

TestJsonPlan(q) ==
    /\ \/ Step(q, "test", IF jsonPlan THEN "testFile" ELSE "send")
       \/ Step(q, "testFile", IF jsonPlanFile THEN "load" ELSE "send")
    /\ UNCHANGED <<tcpVars, main, tcpConnected, poolVars, plan, item, workItemPlanId, jsonVars, told, crashed>>

\* getIrRootJson reads the file; the parser throws when the name is empty.
LoadJsonPlan(q) ==
    /\ IF jsonPlanFile
       THEN Step(q, "load", "reset") /\ planUsers' = planUsers \cup {q} /\ UNCHANGED crashed
       ELSE Step(q, "load", "load") /\ crashed' = TRUE /\ UNCHANGED planUsers
    /\ UNCHANGED <<tcpVars, main, tcpConnected, poolVars, plan, item, workItemPlanId,
                   jsonPlan, jsonPlanFile, told>>

ResetJsonPlan(q) ==
    /\ \/ /\ Step(q, "reset", "clear")
          /\ jsonPlan' = FALSE
          /\ UNCHANGED jsonPlanFile
       \/ /\ Step(q, "clear", "send")
          /\ jsonPlanFile' = FALSE
          /\ UNCHANGED jsonPlan
    /\ UNCHANGED <<tcpVars, main, tcpConnected, poolVars, plan, item, workItemPlanId,
                   planUsers, told, crashed>>

SendItem(q) ==
    /\ Step(q, "send", IF item[q] + 1 = Items THEN "done" ELSE "send")
    /\ notifyHost(q, Msg("item", plan[q], item[q] + 1))
    /\ item' = [item EXCEPT ![q] = @ + 1]
    /\ UNCHANGED <<socketVars, listenVars, gone, main, tcpConnected, poolVars, plan,
                   workItemPlanId, jsonVars, told, crashed>>

EndTask(q) ==
    /\ at[q] = "done"
    /\ Pool!Complete(q)
    /\ UNCHANGED <<tcpVars, main, tcpConnected, jobVars, jsonVars, told, crashed>>

Pipeline(q) ==
    \/ getNextWorkItemPlanId(q) \/ TestJsonPlan(q) \/ LoadJsonPlan(q) \/ ResetJsonPlan(q)
    \/ SendItem(q) \/ EndTask(q)

-----------------------------------------------------------------------------
(***************************************************************************)
(* The listener with the callbacks of initCallbacks.                       *)
(***************************************************************************)
NoCallback == UNCHANGED <<main, tcpConnected, poolVars, jobVars, jsonVars, told, crashed>>

updateUnitInfo ==
    /\ \/ /\ listener = "callback" /\ message = "unit"
          /\ notifyHost(Listener, Answer("unit"))
          /\ listener' = "answered"
          /\ UNCHANGED tcpConnected
       \/ /\ listener = "answered"
          /\ tcpConnected' = TRUE
          /\ listener' = "test"
          /\ UNCHANGED sendVars
    /\ UNCHANGED <<socketVars, message, inbox, gone, main, poolVars, jobVars, jsonVars, told, crashed>>

work ==
    /\ listener = "callback" /\ message = "work"
    /\ notifyHost(Listener, Answer("finished"))
    /\ listener' = "test"
    /\ UNCHANGED <<socketVars, message, inbox, gone>>
    /\ NoCallback

Listen == (ListenLoop /\ NoCallback) \/ updateUnitInfo \/ work

(***************************************************************************)
(* The server, as in TCPServer: it asks for the unit type, perhaps for     *)
(* another uuid, and then sends work, each when it has got the answer to   *)
(* what it has sent before.  It may close the connection at any time.      *)
(***************************************************************************)
Answered(kind) ==
    kind \in told => \E i \in DOMAIN wire : wire[i] = Answer(kind)

ServerSends(kind) ==
    /\ listener # "none" /\ ~gone /\ kind \notin told
    /\ \/ kind = "unit"
       \/ kind = "collision" /\ "unit" \in told /\ Answered("unit") /\ "work" \notin told
       \/ kind = "work" /\ "unit" \in told /\ Answered("unit") /\ Answered("collision")
    /\ inbox' = Append(inbox, kind)
    /\ told' = told \cup {kind}
    /\ UNCHANGED <<socketVars, listener, message, gone, sendVars, main, tcpConnected, poolVars,
                   jobVars, jsonVars, crashed>>

ServerCloses ==
    /\ listener # "none" /\ ~gone
    /\ gone' = TRUE
    /\ UNCHANGED <<socketVars, listenVars, sendVars, main, tcpConnected, poolVars, jobVars,
                   jsonVars, told, crashed>>

User == Exit \/ \E q \in Query : EnqueueFileQuery(q) \/ SendQuery(q)

Server == ServerCloses \/ \E kind \in {"unit", "collision", "work"} : ServerSends(kind)

Next ==
    /\ ~crashed
    /\ \/ Main \/ User \/ Listen \/ Server
       \/ BeginTask \/ \E q \in Query : Pipeline(q)

Spec == Init /\ [][Next]_vars

\* Threads run on; the user and the server need not do anything.
FairSpec ==
    /\ Spec
    /\ WF_vars(~crashed /\ Main)
    /\ WF_vars(~crashed /\ Listen)
    /\ WF_vars(~crashed /\ BeginTask)
    /\ \A q \in Query : WF_vars(~crashed /\ Pipeline(q))

-----------------------------------------------------------------------------
(* Properties *)

Submitted == {q \in Query : at[q] # "idle"}
SentOrLost == {wire[i] : i \in DOMAIN wire} \cup lost

\* The variables keep their types.
TypeOK ==
    /\ {shut, closed, globalAbort, gone, tcpConnected, jsonPlan, jsonPlanFile, crashed} \subseteq BOOLEAN
    /\ listener \in {"none", "test", "call", "recv", "failed", "callback", "answered", "over"}
    /\ main \in {"start", "wait", "check", "input", "run", "drain", "shutdown", "close", "abort",
                 "join", "returned"}
    /\ active \cup done \cup planUsers \subseteq Query
    /\ plan \in [Query -> Nat]
    /\ item \in [Query -> 0..Items]

\* The first thing the server gets is the answer with the unit type, without
\* which it drops the client, although main thread and listener only share a
\* plain flag and the time-out may race the answer.
UnitTypeFirst == wire # <<>> => Head(wire).kind = "unit"

\* The items of concurrent plans share the connection: no two queries have one
\* plan id, and the items of a plan arrive in their order, each at most once,
\* whichever of them the socket does not take or takes in part.
PlansKeptApart ==
    /\ \A q, r \in Query : plan[q] = plan[r] /\ plan[q] # 0 => q = r
    /\ \A i, j \in DOMAIN wire :
         i < j /\ wire[i].kind = "item" /\ wire[j].kind = "item" /\ wire[i].plan = wire[j].plan
           => wire[i].item < wire[j].item

\* The connection is not closed under a query: whatever was entered is sent
\* before the shutdown, no query uses the closed descriptor, and the main thread
\* does, when the destructor closes it again after the time-out, only if nothing
\* was entered.
NoneCutOff ==
    /\ misused \subseteq {Listener, MainThread}
    /\ MainThread \in misused => Submitted = {}
    /\ shut => \A q \in Submitted : \A i \in 1..Items : Msg("item", plan[q], i) \in SentOrLost

\* Once the client means to end it ends: the pool runs dry and the listener
\* gets out of recv.
RunReturns ==
    main \in {"shutdown", "drain"} ~> main = "returned" \/ crashed

\* "Use a given JSON plan file for a query." (DBClient.hpp:55)
PlanForOneQuery == Cardinality(planUsers) <= 1
=============================================================================
