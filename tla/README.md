# Specifications of the query optimizer and its message layer

TLA+ modules for the C++ program under `src/cpp/code`: the client that turns SQL
into work items (`DBClient`), the TCP layer that carries them, the server and
broker at the other end, and the programs that meet there, the Python client among
them. TLC checks each module on small instances. TLAPS proves the central
properties of seven of them for every value of their constants.

`PROJECT.json` says, definition by definition, which lines of the source a
definition stands for, which run checks which property, and at which line each
hazard bites. This file is the guide to it.

    tlc -workers 2 -config MCThreadPool.cfg MCThreadPool     # a run
    tlapm ThreadPoolProofs.tla                               # the proofs of a module

## The system

```
  stdin, .sql file                             planners, compute units, monitors
        |                                                              ^
   main thread --enqueue--> ThreadPool workers                         |
        |                        |  one query each                     |
        +--- typed query --------+                                     |
                                 v                                     |
     SQL parser, optimizer one --+                                     |
     JSON plan of PostgreSQL ----+-> IR -> optimizer two -> rename     |
                                 v                                     |
     Sequentializer -> item builder -> notifyHost ==TCP==> TCPServer --+ (broker: forwards)
                                       listener  <==TCP==  receivers, accept thread
```

### Inventory

| Component | State | Operations | Correct when |
|---|---|---|---|
| Thread pool (`thread_pool.cpp`) | task queue, `stop`, mutex, condition variable, workers | `enqueue`, the worker loop, the destructor | every task runs once, tasks start in order, no worker sleeps on a task, the destructor drains and returns |
| Sequentializer (`sequentializer.hpp`) | call stack, `visited`, the list | two post-order walks over a plan that shares nodes | every node once, after all it reads, none missing |
| Message framing (`Utility.cpp`, both receive loops) | receive buffer, `unprocessed_bytes`, a pointer into the buffer | `recv`, `extractItemsModifyBuffer` | messages reach the callbacks whole and in order, or the connection ends |
| TCP server threads (`TCPServer.cpp`) | `clientMap`, `clientUuidMap`, `cl_mutex`, `ClientInfo`s, descriptors | accept and handshake, receivers, `removeClient`, `closeConnection` | the two maps agree, an info outlives its receiver, a registered client has a socket of its own, closing returns |
| TCP server routing (`TCPServer.cpp`) | the vectors of `clientMap` while they are erased from | `sendToAll`, `sendToAllOfType`, `sendToAnyOfType`, `rerouteToAnyOfType`, `clear_aborted`, `sendTo` | nobody is skipped, nobody gets a message twice, no deleted client is used |
| DB server (`DBServer.cpp`) | a `TCPServer` and callbacks that print | print what comes | as the TCP server |
| Broker (`tcp_server_example.cpp`) and those it serves: planners (`client.py`), compute units (`ComputeUnit.cpp`), clients with uuid 0 (`DBClient`, `tcp_client_example.cpp`), monitors, the console | the registry; a message in each callback's hand | nine callbacks that look up, send, reroute and copy to monitors; four console commands | an item goes to one unit, its planner hears of it once, monitors see both, nothing is lost without a reason |
| TCP client (`TCPClient.cpp`) | socket, `globalAbort`, listener thread | `start`, `notifyHost`, `listenLoop`, `closeConnection` | the listener ends when the connection is closed, nothing is sent on a closed socket |
| DB client session (`DBClient.cpp`) | `tcpConnected`, `workItemPlanId`, `jsonPlan`, the pool | connect and wait, the query loop, the pipeline per query, callbacks, destruction | unit type before items, plans kept apart, entered queries are sent before the shutdown, `run` returns |
| Parser and optimizer one (`generate_AST.cpp`, `optimizer_one.cpp`) | an AST | build the tree, push filters down, build joins | the tree has the operators of the query |
| IR construction (`src/ir`) | IR tree | `astToIr`, aliases, `fillMaterializes` | each node lists the columns it reads and writes |
| JSON plans (`json_to_abstract.cpp`, `abstract_to_ir.cpp`, `get_query_info.cpp`) | a tree of `PlanNode`s with owning pointers | prune, enrich from the query text, convert, correct aliases | the plan has the operators of the query, no table gets lost, join columns on their own side |
| IR optimisations (`ir_optimizations.cpp`) | IR tree | semi joins, sort into group, sum into group, late materialisation, grandchildren | every operator still reads the columns it means, with the rows that are left there |
| Renaming and work items (`unique_col_names.hpp`, `ir_to_api.cpp`, `item_builder.cpp`) | names, items | rename, translate, number | an item reads what another item writes |
| Catalog, file reader, printing, dot files, command line, protobuf files | constant tables, text | formatting, input and output | lookups in the catalog are in `JsonPlan`; the rest is not modelled, see below |

How they interact. The main thread shares with the pool's tasks, without a lock,
the client configuration (`jsonPlan`) and, through `notifyHost`, one socket. The
listener thread runs the callbacks, which send on the same socket and set the flag
the main thread polls. On the server one accept thread runs the handshake and
registers clients, one receiver per client runs the callbacks, and the main thread
sends and closes. They share `clientMap` and `clientUuidMap`, partly under
`cl_mutex`. In the broker each receiver's callback runs in steps, a lookup, one or
more sends, the copies for the monitors, and the console thread sends as well.

What is hard here: notifications and shutdown of the pool; byte streams cut
anywhere; vectors erased under the loops that walk them; threads that are joined
under a lock they may want; descriptor numbers that are reused; a handshake with a
time-out that races its answer; sends that fail or are cut short and are retried
with another recipient; programs that number package types differently; and, in the
sequential half, position lists that must be applied exactly once on the way from a
table to whoever reads its column, and a tree that is rewired while it is walked.

## Modules

| Module | Models | Specification |
|---|---|---|
| `TaskExecutor` | what a pool promises: tasks start in order, at most `Parallelism` at a time, closing drains | abstract |
| `ThreadPool` | the pool, one action per critical section, `notify_*` as a step of its own, spurious wake-ups | implements `TaskExecutor` |
| `Sequentializer` | both walks, the recursion as a stack of frames | |
| `Channel` | what a connection promises: a prefix of the messages, each once | abstract |
| `Framing` | one connection's receive side, byte by byte | implements `Channel` |
| `TCPServer` | the threads of a server among themselves | |
| `Routing` | the loops over the client vectors, one iteration per step | |
| `TCPClient` | one connection of a client: the four steps of `closeConnection`, the listener, sends | operators that `DBClient` composes |
| `DBClient` | the session, from `run` to the destructor | composes `TCPClient` with `TaskExecutor` |
| `Plans` | operator nodes and the plan of a query, up to and including `astToIr` | operators |
| `Rewritings` | the passes of the second optimizer that rewrite the plan of operators | extends `Plans` |
| `Optimizer` | the order of all passes, materialisation, renaming and work items | extends `Rewritings` |
| `JsonPlan` | the JSON front end, from the plan file to the IR | extends `Plans`, whose `PlanOf` is its specification |
| `Broker` | the callbacks and the console of the broker and the programs around it | whole messages, as `Channel` promises |
| `*Proofs` | theorems about `ThreadPool`, `Framing`, `DBClient`, `TCPServer`, `Routing`, `Broker`; `PlanProofs` about `JsonPlan`; `OptimizerProofs` about the walks over an optimizer's plan, `Rewritings` with `Optimizer` and `Sequentializer` | |
| `MC*` | instances for TLC | |

The layers lean on each other. `DBClient` uses the pool as `TaskExecutor`, which
`ThreadPool` is shown to implement, and exchanges whole messages, which `Framing`
shows to be what arrives. So does `Broker`; what can go wrong inside the registry it
uses is the matter of `TCPServer` and `Routing`, and where they say it does, `Broker`
sets `fault`. `Plans` and `JsonPlan` are the two front ends, `Optimizer` ends with the
plan whose nodes `Sequentializer` puts in order.

### State and actions against the code

**ThreadPool.** `queue`, `stop` and `workerAt` are the members and the position of
each worker. A worker tests the predicate and goes to sleep in one step, because
the mutex is held until it waits (`Sleep`). `Enqueue` is the push under the lock
and `NotifyOne` the call after the unlock, so other threads may come between.
`RequestStop`, `NotifyAll` and `JoinWorkers` are the destructor. `started` and
`submitted` record history only.

**Sequentializer.** `stack` holds the frames and `next` the loop variable of each.
`Descend` is the recursive call, `Skip` a child that is null or visited, `Return`
the append after the loop. `walk` says which of the two walks it is: the
one with two children passes over a null pointer; the one with a list of children, which
the pipeline uses, follows it (`FollowNull`, and a null root likewise), which ends the
process.

**Framing.** A byte is its position in the peer's stream, so that a stale or
misplaced byte shows. `Receive(k)` takes any number of bytes that have been sent
and fit. `Dispatch` is one round of the loop in `extractItemsModifyBuffer`, and it
reads `payload_size` whether or not a header is there: `SizeRead` is any number if
the byte read is not a size. `MoveRest` is the `memcpy` at the end. The constants
choose the server's loop (`Reserve = 0`, `Handshake = TRUE`) or the client's.

**TCPServer.** A connection stands for its socket, its `ClientInfo` and its
receiver. The accept thread steps through `Accept`, the answer, the probe for the
uuid under the lock, its renewal, `Register` under the lock, `Start`, which sets the
receiver running, and `Store`, which writes it to the info. A receiver tests `abort`
(`TestAbort`), calls `recv` with the handle as it then is (`CallRecv`), and waits on
the socket this number denotes (`target`), be it its own or not. `removeClient` and
`closeConnection` go through `release` step by step: `Remove` or `Release` up to the
closing of the socket, the test for a receiver, the join, the delete; other threads run in
between. Descriptor numbers are reused as the kernel does. A failed `accept`, and a first
message in two segments, end the process (`accepting = "exit"`). Undefined behaviour sets `fault`, after which
nothing is said. `Forwards` tells the broker, whose callbacks look up, send to and
remove clients, from the DB server, whose callbacks only print. `Obedient` are
the peers that answer the handshake with the type that is asked for. `early` is a history
variable, see `JoinedBeforeFreed`.

**Routing.** `slots` is the memory of each vector, `size` its length; `erase`
shifts and leaves the last slot as it was, since some loops read it. Clients connect
while no operation runs; peers leave and receivers end at any time. A send
succeeds, fails, or takes a part of the message (`torn`), which the code counts as
success.

**TCPClient, DBClient.** `main` is the position of the main thread, `at[q]` that of
the thread that works on query `q`: a worker of the pool for a query of a file, the
main thread for a typed one. `TestJsonPlan` reads the switch and then the
file name, `LoadJsonPlan` loads, `ResetJsonPlan` resets the one and then the other:
five steps, because nothing guards them. A send takes the message, or a part of it, or
nothing (`notifyHost`); what is cut short shows on the wire as `Cut`. Every call on a
descriptor that has been closed is recorded with its thread (`Uses`). `ConnectFails` is an
exception of `start`, which nobody catches. `StopWaiting` may happen at any time,
since it is either the flag or the clock. `Exit` destroys the members in the order
the language prescribes: the pool first, the connection last.

**Plans, Rewritings, Optimizer.** A plan is a sequence of nodes, children before parents;
a node has its kind, the columns it reads and writes, whether it writes a position
list or values, and its children. Rewriting replaces nodes, materialisation appends
new ones. One action is one pass of `runOptimizerPipeline`, except materialisation,
where `MaterializeNode(n)` is one call of the recursion and `ret[n]` what the call
returns. A name after renaming is the pair of the node that writes it and the old
name, so that equal names of the program are equal pairs here. Literals, types and
predicates are left out; which columns a filter compares is kept. Tables are compared with
their aliases (`base_types.hpp:73`). The table of a query of one table has one, its own
name (`Aliased`), so that it is not found where the table of a column is looked up
(`FoundBelow`). `ensureCorrectColumnSetup` is a pass of `JsonPlan`; on the plan of an SQL
query, whose names are those of columns already, it only writes aliases, which stand in the
header of the result and in no comparison, and so has no action in `Optimizer`. An explicit
`JOIN ... ON` has no plan here: `optimizeCrossProduct` drops it for the joins in WHERE, or, if
there is none, puts a null pointer in its place.

**JsonPlan.** `tree` is the tree of `PlanNode`s as a sequence, children first, and a
pointer is an index. One action is the return of one recursive call of `pruneTree`
(`PruneHash`, `PruneGather`, `PruneOther`), whose caller stores the node it returns
(`Rewired`): nodes that are cut out stay in the sequence, but nothing reachable should
point to them. `Enrich`, `AbstractToIr` and `EnsureCorrectColumnSetup` are the passes
after it; an exception ends in the phase `threw`, the read from an empty vector in `crashed`. A text is a function name, its words
and whether it has blanks, since those are what the regular expressions and string
comparisons of the code tell apart; `SplitAtAnd` keeps the splitting of a BETWEEN. A column
whose table is empty or "Default" counts as one without a table, and an item that renames it
becomes an aggregate or a map by what its text says (`ApplyAlias`). `PlanFile` says what the
trees PostgreSQL writes have in common: every node but the root is the child of another,
bitmap scans have bitmaps below them and no other node does, and a node that reads a table
names it.

**Broker.** `state[c]` is how far the accept thread has come with client `c`, `session` the
uuid it is registered under, `toBroker` and `inbox` the two directions of its
connection. `doing[c]` is what the callback on its receiver does next: send to the
client that was looked up (`to`), to any unit (`any`), to a unit other than the one the
work came from (`reroute`), copy to the monitors (`copy`). Each is a step of its own,
as no lock spans them. `Enter` may swallow what was sent during the handshake
(`TCPServer.cpp:103`). `CppTypes` is the enum of `TCPServer.hpp` and `PyTypes` that of
`msg.py`; `TakenFor` is what a client with the latter takes a package for. A send is taken
whole, refused, or cut short: the broker's (`Deliver`), the console's (`ToAll`) and a
unit's (`Reply`). `torn` are the clients whose stream has a part of a message in it, from
a short write or because another thread's message came between the parts of the
console's split one. What follows it may be dropped, at the client (`Garble`) or, if the
client wrote it, at the broker (`GarbleAtBroker`). What the registry may do to the process
sets `fault`: a removal that meets another one or the message of a receiver that
removes (`Unsafe`), a copy to a monitor that fails, the overflow in `uuid_per_client_cb` (all in
`CallbackBreaks`), the same from the console (`ConsoleBreaks`), and a first message in two
segments (`GreetingBreaks`). `given`, `watching`, `heard` and `seen` record
history.

## Runs

| Run | Instance | What it shows |
|---|---|---|
| `thread_pool` | 3 workers, 2 submitters, 3 tasks | every interleaving of push, notify, wait and shutdown: no task lost, repeated, or left to sleepers; the destructor drains; `TaskExecutor` is implemented |
| `sequentializer` | all plans over 4 nodes with up to 2 children each, shared and null ones included, under both walks | order, completeness and termination of the walk; only the walk over lists of children follows a null pointer |
| `framing` | 4 messages with 0 to 5 bytes of payload, buffer of 7, header of 3 | however the stream is cut, `Channel` is implemented; nothing that was sent is waited for in vain |
| `tcp_server` | DB server, 3 connections, two with one uuid and one disobedient, `closeConnection` at any time (718,789 states) | no fault before closing; closing returns or waits for a receiver that strays |
| `broker` | `TCPServer` as the broker uses it, 2 connections, 2 descriptor numbers (about 332,000 states) | no info is deleted under its receiver but in the gap at `TCPServer.cpp:177`; maps agree and sockets are not shared, whoever removes; a removal waits for good only for a receiver that removes, too, or strays |
| `routing` | 3 clients, 2 types (264,256 states) | each loop against leaving peers and short or failed sends: all are reached, or one is, and the registry stays whole |
| `optimizer` | 18 queries under all 24 combinations of the options, less the excluded ones | every operator's columns and rows; order and groups; semi joins; items |
| `db_client` | 2 queries of 2 items, 2 workers, server that may leave | handshake against time-out, plans kept apart, shutdown; who uses the descriptor after it is closed |
| `json_ir` | 251 pairs of a plan file and a query (3,432 states) | the JSON front end builds the operators, tables and join sides of the SQL front end, every column it reads is written, or a named condition is not met |
| `dispatch` | 11 scenarios of planners, units, clients with uuid 0 and a monitor; one send that is refused or cut short, one unit that may leave (240,782 states) | one unit, one answer; monitors see both; work is answered or lost in a named way; the accept thread gets on |
| `fill_sort`, `json_plan` | see Findings | the code does not do what it says |

The type invariants of the modules with proofs are proved and not run again.

Why the bounds are enough. A lost wake-up needs a sleeping worker, a waking one and
a competitor, a task to be stolen and a second one to remain: three workers and
three tasks have it. Four nodes allow a node shared at two depths and a child that
is listed between its sharers. In the framing run every message boundary can fall
inside the delimiter, the header or the payload, two whole messages and a fragment
fit in the buffer, and the last message does not fit at all. Three connections
leave an element before and one behind the one that `closeConnection` is at, and a client
that registers meanwhile. Two are enough for the broker's removals: a remover, and a receiver that
is being removed, strays or removes the remover; that a number is used again needs no
third, and the loops that leave an element behind the erased one are in `routing`. With
two queries and two workers all pairs of steps of two pipelines interleave, and
there is a typed query while a file is processed. The queries of the optimizer run
cover one and two joins, joins on a key of an earlier join, filters over one and two
columns, no aggregate, one and two, arithmetic below the aggregate, group by and order by
in all relations of their columns. These are the shapes of the star schema benchmark and
their neighbours. The inputs of `json_ir` are the shapes of the plans in `src/pb-plans` with
three tables (hash joins, nested loops, bitmap and index scans, sorts, workers under a
gather, in every order that differs for the code), and around each of them what the
code has a branch or a silence for: operators it does not know, a product of tables,
an OR in parentheses, a BETWEEN, aliases, functions in lower case, columns the catalog
lacks. In `dispatch` two items meet two units while one of them and the planner
register, and each other scenario puts one thing beside an item: a second client with
uuid 0, the stale numbers, the console's commands whole and in parts, and each other
package. One refusal and one unit that leaves are enough to reach every retry, as each
removes the unit; a message cut short counts as a refusal. In `db_client` the first item of
the first plan may find the socket full (`Congested`), so that items that follow it, of the same
plan and of the other, arrive behind one that was lost or cut; the proofs have any set of messages.

`FrontEndsAgree` is claimed under `Regular`, which says what the shipped queries have in
common: simple conditions, at most one aggregate in capitals over numbers, names the
catalog knows, operators `convertToAbstract` knows, no product of tables. For the other
inputs the remaining properties of the run hold as they stand or under the part of `Regular`
they name.

Deadlock is not checked where the system may stop: nobody has to submit, connect,
type or send. In `optimizer` it is checked; the last state has a step of its own.

### Excluded combinations of the optimizer run

`MCOptimizer` names five reasons, each an operator of the query and the options:

* `LoneTableMoved`: a query of one table that filters, groups or sorts. The table has its
  own name as alias (`generate_AST.cpp:214`), the table of a column has none, and the set of tables
  below is searched with aliases (`ir_post_processing.cpp:165`, `ir_optimizations.cpp:406`, `:582`), so
  that no position list is applied and every column is read in the order and number of the table.
* `AggregateNotMoved`: the default strategy does not apply a sort, or a group, to
  the result of an aggregate below it (`ir_post_processing.cpp:165`, run `fill_sort`).
* `ValuesLost`: the late strategies lose values that another operator stands
  between (`ir_optimizations.cpp:375` and `:548` merge a map with itself).

* `NameTaken`: two operators below a materialisation write the same column, and the
  renamer tells them apart by the order of the children (`unique_col_names.hpp:91`).
* `SideDiscarded`: a semi join discards a side that holds other tables, too
  (`ir_optimizations.cpp:30`); see `SemiJoinsFilterOnly` for the queries that rule it out.

Everything else of the product of queries and options is in the run.

### Fairness

* `ThreadPool`: weak fairness of every worker, of the notifications and of the
  destructor: threads that can run do run. No spurious wake-up, submission or
  destruction is assumed to happen.
* `Sequentializer`, `Optimizer`: sequential code that runs on.
* `Framing`: the receiving thread runs on, and a `recv` that has something to return
  returns. Nothing obliges the peer.
* `TCPServer`: strong fairness for whoever waits for `cl_mutex`, which other threads
  release again and again; the handshake has time-outs of two seconds and one
  (`TCPServer.cpp:102`, `:134`), which is why the accept thread always gets on; a peer
  that draws uuids at random draws a free one sooner or later.
* `Routing`: the calling thread runs on; sends return since they do not block. The
  choice in `sendToAnyOfType` is random and needs no fairness, as every failure
  removes a client.
* `DBClient`: main thread, listener and pool run on. The user need not type, the server need
  not answer.
* `Broker`: the receivers' callbacks run on, the accept thread gets an answer or its
  time-out, and the listeners of the clients read what has come. Nobody has to connect,
  answer the handshake, send, leave or type.

## Proofs

All for arbitrary constants, under the named assumptions of the modules.

**ThreadPool** (`ThreadPoolProofs`). The inductive invariant `PoolInv` joins the
types with: tasks are submitted once; a worker has a task exactly while it is
outside the lock; `submitted = started \o queue`; a worker exits only when `stop` is
set and the queue is empty; once `stop` is set no `enqueue` is under way; and the
properties themselves. The clauses about exit and `stop` are needed because a
queued task must find a worker that is awake and not about to leave, and the queue
must stay empty behind a worker that has left. Proved are `TypeCorrect`, `TasksStartInOrder`, `TasksRunOnce`,
`WakeupsSuffice`, `DestructorDrains` and `PoolImplementsExecutor`. There must be a
worker (`WorkersExist`); the configuration sets four and nothing checks a zero.

**Sequentializer** (first part of `OptimizerProofs`). For every set of nodes and every
plan with a rank, that is, every acyclic one. `WalkInv` says that ranks descend along
the stack, that a visited node is listed or on the stack and never both, and that
the children a frame has passed have been visited. From these, a visited child of
the innermost frame is not on the stack, as its rank is lower, so it is listed:
`DependenciesFirst`. Also `NoDuplicates`, `Complete` and `TypeCorrect`.

**Framing** (`FramingProofs`). For any number and size of messages, any buffer and
any cut of the stream, under `WellBehaved`: `memcpy` copies an overlapping region as
`memmove` would, and the peer sends nothing before its handshake has been read.
`FrameInv` says that the unprocessed bytes are the consecutive stream positions
after the last whole message; then the size that is read is that of the next message
whenever it matters (`SizeIsNext`), even if it is read from a stale header. Proved
are `TypeCorrect`, `MessagesInOrder`, `RestIsKept` and `ConnectionIsChannel`.

**DBClient** (`DBClientProofs`). For any queries, workers and items, with or without
a plan file, whatever the server does and however full the socket is. `ClientInv`
relates the position of the main thread, the phase of the pool and the place of
each query. A query in work is a task in progress or the typed one main is running
(`QueriesPlaced`); the pool is closed before the connection, unless no query was
entered (`PoolClosesFirst`). So while a query is queued or in work the connection
stands, the time-out has not struck and `tcpConnected` is set (`BusyMeansOpen`), and
the flag is set only after the unit type was sent or the connection broke
(`AnsweredFirst`). `PlanKnown` and `ItemsSent` tie a query's place to its plan id and to
the items on the wire. Proved are `ClientTypes`, `UnitTypeIsFirst`, `PlansStayApart` and
`NoQueryCutOff`. The last also says who uses the descriptor after it has been closed: no query
does; the listener may; the main thread does in the second `closeConnection`, that of the
destructor after the time-out, and then no query was entered. `PlansStayApart` rests on `getNextWorkItemPlanId` being one atomic
step, as the `std::atomic` makes it.

**TCPServer** (`TCPServerProofs`). `ServerInv` holds for every server. Besides the
types it says: the handshake is about a connection with a handle, and one without a receiver
until the accept thread has started it (`PendingIsNew`); whoever sends, removes or releases
does so to some info (`TargetsAreInfos`); a receiver has had a handle (`ReceiversHaveHandles`);
only infos that have been registered are released (`OnlyKnownAreReleased`); a receiver that runs
is stored in its info or still in the accept thread's hand (`RunningAreStored`); and an info
that is deleted or about to be has a receiver that has ended or never began, or is `early`
(`DeletedAreSettled`). The last two are what makes
`JoinedBeforeFreed` inductive over the test, the join and the delete as separate steps, also
for the broker. The other theorems assume `~Forwards`, a server
whose callbacks do not send to other clients, as those of `DBServer` do not: in the
broker `getClientByUuid` hands out pointers without a lock, and only the run speaks of it.
`ServingInv` adds that nobody sends, that the closing thread is the only one to remove, that a
fault needs closing, that known clients have handles, that a client is registered
once and that the map and the vector change together (`MapsInStep`); it yields
`ServingIsSafe` and `RegistriesAgree`. `SocketsAreOwn` needs peers that answer as asked
(`Obedient = Conn`), because a client that does not is registered with a closed handle.

**Routing** (`RoutingProofs`). `RegistryInv` says that no client is in two slots, that the
uuids are those of the registered clients and none of these has been deleted, where
the loop variables may stand (`LoopVariables`; those of `rerouteToAnyOfType` keep the
bounds of its first round), and where a fault can come from. From it `RegistryStaysWhole`
and `FaultsAreWhere`. `LoopInv` adds, for each loop, what it has done with the clients
before its iterator and what is still behind it, in spite of the erasures under it, so
that on return everybody was served or removed (`LoopsAreComplete`) or one client was
served (`RecipientIsOne`).

**Broker** (`BrokerProofs`). For any clients, scenarios and number of refused sends, if
no program is two (`ProgramsDiffer`) and an item of work has an id of its own and names
the planner it comes from (`ItemsAreOwn`). `BrokerInv` says that at any time one copy of
an item or of its answer exists outside the monitors, be it in the script, on the way to
the broker, in a callback's hand, on the way from it, or heard (`OneCopy`); what it says at each
of these places, in particular that work is only on its way while nobody has been given it,
and an answer names a unit that was (`ItemInv`). Without `OneCopy` the answer could not be
told from a second one, and `OneOfEach` would not follow. `FollowInv`, on top of it, says that
who was given an item is known to every monitor that watches it, or to a callback that is
about to copy it, and likewise for the answer; monitors lose copies only by leaving or by a
message that was cut short (`torn`). Hence `MonitorsAreTold`.

**JsonPlan** (`PlanProofs`). For any plan files and queries under
`InputsAssumption`: the files are as PostgreSQL nests them (`PlanFile`), a query is made of
lists of texts (`SqlText`), and no table is called "Default". Whether the query fits the file does not
matter. The walks over the tree are recursive functions; since children come before their
parents, each is well defined, and what it computes is shown by looking at the least node at
which it would not be so (`LeastNat`). `PruneInv` says that pointers lead to nodes made
before, that the scans and joins of the file hang below the root, that a node keeps its type
unless it is one of those that are moved up, and that a bitmap scan `pruneTree` has yet to
come to has the children the file gave it. Without the last clause the children it
absorbs could be scans or joins of their own. From this follows `PruningKeepsTables`: at
every moment each table of the file is scanned once, and each join is there. `NamesInv` says
that a scan has a table, or makes a bitmap and will be cut out. Without it a join could
connect tables one of which is called "", and `ensureCorrectColumnSetup`, which looks for
a column's table if it has none, could give the column another. `JoinInv` carries this
through the later passes: a join of the tree has on each side the table its condition names
there, in that order (`EnrichedTree`), and so has one of the plan (`GoodPlan`). Hence
`JoinsReadTheirSides`.

`ColumnsAreThere` follows the columns through all phases, for files under `JoinsFirst` and
queries under `RegularNames`, `RegularTypes`, `AggregatesAbove` and `TablesScanned`. Its
invariant is `ResolveInv`, which has one clause for what each phase leaves to the next:

* `ChainsInv` of `pruneTree`: every node of the tree comes from one of the file or took the
  place of one (`OriginInv`), and what lies above the topmost scan or join is a chain of
  aggregates, sorts and nodes that will be cut out (`ChainInv`). Hence, afterwards, an
  aggregate or sort has one child and all the tables of the query below it, and a
  sort of an aggregate has that aggregate below it (`AggIsDue`), although `pruneTree` merges
  partial aggregates and exchanges an aggregate with the sort under it.
* `ReadyTree` of `enrichTree`: each node names columns the catalog has, of tables below it,
  or the aggregate, and that only above the node that computes it.
* `SoundPlan` of `abstractToIr`: what the plan of a subtree hands up is written in it, and
  every column a node names is of a scanned table or is handed up. The walk that builds the
  plan hands nodes and columns from child to parent, so this is shown of the least tree node
  for which it would not be so (`TreeSound`).
* In a sound plan all names are those of the catalog or of the one aggregate, so that
  `ensureCorrectColumnSetup` changes none of them (`Stays`), and `ColumnsResolve` follows.

None of these conditions can go: `ColumnsResolve` is false when an alias is also the name of a
column, when ORDER BY has an aggregate that is not selected, when the query names columns of
a table the plan does not scan, and when an aggregate is below a join. The inputs of `json_ir`
have a pair for the first and the last.

**Optimizer** (`OptimizerProofs`). For any queries the parser can leave
(`CasesAreQueries`, which `Optimizer` assumes of its constant and TLC evaluates) and any
options. `PlanLaidOut` says of the plan of a query, by following the front end node by node,
that below the result come the sort, the group and then neither of them. `PlacesInv` says
that they stay at these places, and which columns they have: the sort those of ORDER BY, the
group those of GROUP BY, possibly with more behind them; or there is the group directly below
the result, in the order the sort had. It has to say in which phase which of these is so: as
long as no sort has been merged, the group has as many columns as directions, without which
the merged directions would not fit the columns, and until the aggregation has moved it has one
child. That nodes the passes do not name keep their place is because they keep their
pointers but for the bypassed sort's. Hence `RewritingsKeepOrder`.

`SemiJoinsFilterOnly` is about the semi joins, under `OfStars`: no semi joins are made, or the
joins of the query form stars (`StarJoins`), that is, each adds a table that is not there yet,
and the column by which it is added to several tables is not one that is unique in its own.
`placeSemiJoins` looks at one column and at what is read above the join, never at what
else is below it, so that nothing but the form of the query can rule out that it discards other
tables. The argument: the front end turns such joins into a tree in which the right child
is the added table alone, and so is the left one if its column is unique (`JoinFits`,
`PlanFits`). Hence a join that becomes a semi join discards one table, by a column that is unique
in it, and that no node above reads (`SemiFits`, `SemiJoinsFilter`). `SemiJoinsInv` says that this
is still so after the passes that follow. They take a node out or move a node's inputs to
the group above it, all of it above the joins: whoever is above a semi join afterwards
reads only what was read above it before (`Trimmed`, `TrimmedFilters`). `NeededAbove` is a set of
nodes from which the semi join can be reached, so what has to be shown is that no pass makes new
ways (`LiveShrinks`). `MCOptimizer` evaluates which of its queries do not form stars
(`StarsAssumption`): `Q14`, for which the property holds because the tables on both sides are
read above, and `Q17`, for which it does not, and which is left out as `SideDiscarded`.

Only model-checked:

* Every liveness property, as they need `ENABLED`, which the prover does not treat.
* `FrontEndsAgree` of `JsonPlan`. It compares a census of the plan with that of `PlanOf`,
  another recursion over other nodes, so that its proof would be an induction over both
  at once.
* `InputsAligned`, `ReadsAreWritten` and `TypeOK` of `Optimizer`. The first two do not hold for
  every query and every option: `MCCases` leaves out, by cause, the pairs for which they are
  known to fail (`ValuesLost`, `LoneTableMoved` and others), so there is no theorem about all of
  them. `TypeOK` is about the nodes the materialisation strategies add with the folds and the
  `SelectSeq` of the library, which the prover cannot expand. `SemiJoinsOnlyFilter` is only
  model-checked for queries whose joins do not form stars.

## Findings

Each is a run TLC ends with a counterexample.

* `fill_sort`: with the default options, a sum that a query orders by is not brought into
  the order of the other columns of the result.
* `json_plan`: two tasks of the pool both find the JSON plan set; a later one may
  load a file without a name, and the exception ends the process.

Met while modelling, and not the subject of a run of their own:

* `TCPServer.cpp:120`: a client whose first message is of another type is announced as
  discarded and its handle closed, and then it is registered with that handle, since a
  return is missing. The comment at `:117` says to drop it. `Obedient` excludes it: with a peer
  outside it `OwnSocket` fails.
* `TCPServer.cpp:328`: `sendToAllOfType` walks a copy of the vector. After a failed send it
  removes, and so deletes, the client and looks at the same element again
  (`WhereFaultsAre`).
* `TCPServer.cpp:103`: the handshake frees the buffer of its one `recv`; what a peer
  sent right behind its first message is lost. `Framing` has it as `Eager`.
* `Utility.cpp:113`: the scan for the delimiter does not know how many bytes there
  are, and its result is not used: the pointer is set back to the start.
* `Utility.cpp:162`: `memcpy` of overlapping regions, `AscendingMemcpy` in `Framing`.
  With a copy that goes down, `LeftoverMoved` fails.
* `TCPServer.cpp:65`: a receiver that ends with an error does not set `abort`, so
  `clear_aborted` does not remove its client.
* `TCPServer.cpp:402`: the bound of the loop in `rerouteToAnyOfType` is from before its
  own removals; it may read the slot of a deleted client (`WhereFaultsAre`).
* `TCPServer.cpp:443`: a short write counts as success; `TCPClient.cpp:92` does not look.
* `TCPServer.cpp:177`: the accept thread stores the receiver in the info after it has started
  and the client has been registered. A `release` in between finds none to join, and the
  receiver runs on in a deleted info, into which the accept thread writes
  (`JoinedBeforeFreed`, `early`).
* `TCPServer.cpp:55`: a receiver that has tested `abort` before its socket is closed calls `recv`
  with a number that a new connection may have been given. It reads that one's data, and
  its own `release`, that is `removeClient` under `cl_mutex` or `closeConnection`, waits for it
  as long as the other peer is silent (`Strays` in `RemovalEnds` and `CloseReturns`).
* `TCPServer.cpp:661`: a connection accepted after `globalAbort` is never closed (`AcceptLate`).
* `TCPServer.cpp:115`: a first message in two segments ends the server, `:665` a failed `accept`.
* `TCPClient.cpp:36`: after a time-out `closeConnection` runs a second time in the destructor; it shuts
  and closes a number that may be another file's by then (`NoneCutOff`).
* `TCPServer.cpp:525`: a client that registers after the sweep of `closeConnection` is
  not released.
* `TCPServer.cpp:725`: a receiver that removes its own client joins itself, and two
  that remove each other wait forever. `RemovalEnds` says that these, and receivers that
  stray (`:55`), are the only ones.
* `TCPServer.cpp:231`: `getClientByUuid` takes no lock and its pointer is used later.
* `DBClient.cpp:413`: the main loop never asks `isConnected`. After the server has left
  every query is optimised, and its items are lost.
* `README.md:138` of the repository describes `.json` input at the prompt;
  `readQueryInput` has no such branch, and the plan comes from `-jsonPlan` only.
* `ir_to_api.cpp:105`: the columns of a sort, and the partner of a map, keep the names
  of the query, while everything around them is renamed.
* `item_builder.cpp:416`: there is no item for a semi join.
* `ir_to_api.cpp`: the recursion visits a shared node once per path to it.
* `optimizer_one.cpp:92`: a cross product, or an explicit JOIN, in a query without a join condition in
  WHERE is replaced by a null pointer, which `placePredicate` dereferences; with one in WHERE, the
  conditions of an explicit JOIN are dropped.
* `generate_AST.cpp:214`: the only table of a query gets its name as alias, so that no position list
  is applied to its columns (`LoneTableMoved`).
* `sequentializer.hpp:53`: the walk over lists of children has no test for null (`FollowNull`).

In the broker and the programs around it:

* `msg.py:9-23` lacks `NewTask` of `TCPServer.hpp:21-37`, so that from number 3 on the two sides
  mean different packages. The Python client never answers the request for its unit
  type, and `wait_until_connected` (`client.py:80-83`) blocks for ever; the accept thread is
  freed by its time-out (`GreetingEnds`). `client.py` parses a header before all of it has
  come, and `execute_ssb.py:172` lacks a comma.
* `DBClient` and `tcp_client_example.cpp` register as compute units with uuid 0. The second
  is made to choose another, which it does not know of; both parse a `WorkRequest` as a
  `WorkItem` and answer item 0 with both uuids 0, which goes to whoever has uuid 0.
* Rerouted work is sent with its type, for which no unit has a callback. Work typed at the
  console is a bare `WorkItem`, which `ComputeUnit` does not answer.
* A message typed in parts that another thread's send cuts in its header can deafen a unit.
* A copy to a monitor that fails deletes the monitor and reads it again (`CallbackBreaks`). A
  monitor that asks for itself gets the answer twice.
* `uuid_per_client_cb` allocates its answer before it knows the size of the payload
  (`tcp_server_example.cpp:261`) and writes past the end (`CallbackBreaks`).
* `text_cb` and `reroute_work_cb` do not free their buffers.
* `tcp_client_example.cpp:20` starts the listener before it registers callbacks.

On the way from a JSON plan (each is outside `Regular`, or not compared):

* `abstract_to_ir.cpp:43`: an OR in parentheses becomes one comparison with a text, and every
  argument a string; `transform_helpers.cpp:19` says "ors in where clauses are being dealt".
* An alias of an aggregate with blanks in ORDER BY names a column nobody writes
  (`json_to_abstract.cpp:268`, `abstract_to_ir.cpp:237`); a plain column with an alias gets the
  table "Default" (`:229`); `isAggColumn` knows capitals only (`transform_helpers.cpp:190`).
* A column with the name of an alias becomes the aggregate that has this alias, in the column's
  table (`ir_post_processing.cpp:24`); an aggregate that only ORDER BY names is sorted by and
  written by nobody; one below a join groups by columns of the tables on the other side.
* A BETWEEN with blanks in its first bound is split at AND and throws (`get_query_info.cpp:88`);
  a literal with an underscore drops its filter (`json_to_abstract.cpp:235`), as does an OR over
  two tables; a comparison of two columns of one table compares with a text.
* `Memoize`, `Materialize`, `Index Only Scan` and `Merge Join` leave empty nodes; `Limit` becomes a
  select without columns; a sort that the query does not ask for sorts by nothing; a
  gather above the only aggregate takes it away (`json_to_abstract.cpp:63`).
* A product of tables throws (`transform_helpers.cpp:134`), and so does COUNT(*). Of several
  aggregates the first is used; a plan with an aggregate for a query without one reads the
  first element of an empty vector (`crashed`) (`json_to_abstract.cpp:282`).
* `abstract_to_ir.cpp:118` compares a character with an enumerator.

## Not modelled

* The SQL grammar (an external library), literals, types and predicates of a query.
* The constant tables of the catalog, the file reader, printing, dot files, the command
  line: constants, formatting and input. The protobuf files declare; code is generated
  from them.
* `waitUntilChannelClosed` and `textResponse` of `TCPClient`, which only examples call.
* The fixed plans and the measurements of the Python client; its handshake, numbering and
  messages are in `Broker`.
* The stand-alone mode, the history and the line editing of `DBClient`.
* The deprecated first late materialisation, which nothing calls.

## Plan

The order is that of importance: first what several threads share, then what a
query's answer depends on.

1. Done: the pool, the walk, the framing, the session, the server's threads, its routing,
   the broker, the JSON front end and the optimizer, each with proofs.
2. Next model: a composition of `DBClient` with the accept thread of `TCPServer` in place
   of its small server, and the parser of the SQL front end below `Plans`.
3. Next proofs: the types of `Optimizer`, with the folds written as functions over the nodes.
