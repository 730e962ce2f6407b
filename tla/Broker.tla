-------------------------------- MODULE Broker --------------------------------
(***************************************************************************)
(* The programs that work together through                                 *)
(* examples/tcp_server_example.cpp, the broker: planners                   *)
(* (src/python/client.py) send work, the broker hands it to a compute unit *)
(* (examples/ComputeUnit.cpp, or one of the two programs that register as  *)
(* one with uuid 0: DBClient and examples/tcp_client_example.cpp), the     *)
(* unit answers, the broker forwards the answer and gives monitors a copy  *)
(* of everything.                                                          *)
(*                                                                         *)
(* A connection carries whole messages in order (Channel); what goes wrong *)
(* inside the server's registry is the subject of TCPServer and Routing,   *)
(* and here sets fault, after which nothing is said of the broker: it has  *)
(* used freed memory, exited, or its threads wait for one another.  A send *)
(* does not block: the kernel may refuse it, or take a part of the message *)
(* only, which neither side notices.  Each client that is in has a         *)
(* receiver thread in the broker; the callback it runs is several steps,   *)
(* between which the others run theirs.                                    *)
(***************************************************************************)
EXTENDS Naturals, Sequences, FiniteSets

CONSTANTS Planner, Unit, Zero, Monitor,   \* the clients, by program
          Stale,        \* those that number package types as python/msg.py does
          NoUuid,       \* the uuid 0
          Nobody,
          MayLeave,     \* clients that may close their connection
          Scenarios,    \* see below
          MaxRefused    \* bound: sends the kernel may refuse or cut (MSG_DONTWAIT)

Client == Planner \cup Unit \cup Zero \cup Monitor
Computes == Unit \cup Zero      \* they all register as UnitType::ComputeUnit

Uuid == Client \cup {NoUuid, Nobody}

ASSUME ProgramsDiffer ==
    /\ Planner \cap Computes = {} /\ Monitor \cap (Planner \cup Computes) = {}
    /\ Unit \cap Zero = {} /\ IsFiniteSet(Client)
    /\ NoUuid \notin Client /\ Nobody \notin Client

ASSUME StaleType == Stale \subseteq Client
ASSUME MaxRefusedType == MaxRefused \in Nat

VARIABLES script,       \* messages not sent yet
          typed,        \* console commands not typed yet
          up,           \* peers that have not closed their side
          state,        \* what the broker has done with a client
          aborted,      \* registered clients whose ClientInfo::abort is set
          session,      \* the uuid a client is registered under
          greeting,     \* the client the accept thread is busy with
          toBroker, inbox,  \* the two directions of a connection
          doing,        \* what a receiver's callback does next, and with what
          parts,        \* parts of the console's split message sent to a unit
          refused,      \* sends refused or cut so far
          fault,
          given,        \* clients that an item was sent to, or Nobody if there was none
          sent,         \* whether an item was sent, perhaps before its planner was in
          unsent,       \* items whose answer the unit could not send
          torn,         \* clients whose stream has a part of a message in it
          watching,     \* monitors registered when an item was sent
          heard,        \* answers a planner's callback was called with
          seen          \* copies a monitor got

envVars == <<script, typed, up>>
regVars == <<state, aborted, session, greeting>>
netVars == <<toBroker, inbox>>
logVars == <<given, sent, unsent, torn, watching, heard, seen>>
vars == <<envVars, regVars, netVars, doing, parts, refused, fault, logVars>>

-----------------------------------------------------------------------------
(* Packages                                                                *)

\* enum class TCPPackageType and class TCPPackageType(Enum), from number 0 on.
CppTypes == <<"Undefined", "Work", "RerouteWork", "NewTask", "TaskFinished", "Text",
              "UpdateUnitType", "QueryPlan", "MonitorRequest", "ConnectAction",
              "ConnectActionInfo", "ConfigurationAction", "UuidForUnitRequest",
              "UuidForUnitResponse", "UuidCollision">>
TypeNames == {CppTypes[k] : k \in 1..Len(CppTypes)}
PyTypes == SelectSeq(CppTypes, LAMBDA t : t # "NewTask")

\* What a client takes a package of type t from the broker for.
TakenFor(c, t) ==
    LET n == CHOOSE k \in DOMAIN CppTypes : CppTypes[k] = t
    IN  IF c \notin Stale THEN t
        ELSE IF n \in DOMAIN PyTypes THEN PyTypes[n] ELSE "Undefined"

\* The packages each program has a callback for.
Callbacks(c) ==
    CASE c \in Computes -> {"UpdateUnitType", "Work", "Text", "UuidCollision"}
      [] c \in Planner  -> {"UpdateUnitType", "TaskFinished", "Text"}
      [] OTHER          -> {"UpdateUnitType", "Work", "TaskFinished", "Text"}

\* A scenario: the messages that clients may send and the commands that may be
\* typed at the console, each once; the clients that are registered when it
\* begins, and those that may still connect.
AllMessages == UNION {s.script : s \in Scenarios}
Ids == {m.id : m \in AllMessages}
Items == {m.id : m \in {n \in AllMessages : n.type = "Work"}}
Item(i) == CHOOSE m \in AllMessages : m.id = i

ASSUME ScenarioType ==
    /\ \A s \in Scenarios : s.there \cup s.joins \subseteq Client
    /\ AllMessages \subseteq [type : TypeNames, id : Ids, from : Client, src : Uuid, tgt : Uuid]

\* An item has an id of its own, names the planner it comes from, and goes to a
\* unit with a uuid or to whichever is free.
ASSUME ItemsAreOwn ==
    /\ {"console", "0_0", Nobody} \cap Ids = {}
    /\ \A m, n \in AllMessages : m.type = "Work" =>
          /\ m.id = n.id => m = n
          /\ m.from \in Planner /\ m.src = m.from /\ m.tgt \in Unit \cup {NoUuid}

Message(type, id, src, tgt) == [type |-> type, id |-> id, src |-> src, tgt |-> tgt]

\* Packages, those without an id of their own among them.
AnyId == Ids \cup {"console", "0_0", Nobody}
Package == [type : TypeNames, id : AnyId, src : Uuid, tgt : Uuid]

In == {c \in Client : state[c] = "in"}
UnitsIn == In \cap Computes
MonitorsIn == In \cap Monitor

\* getClientByUuid
ByUuid(u) == {c \in In : session[c] = u}

Idle == [step |-> "idle", to |-> Nobody, msg |-> Message("Undefined", Nobody, Nobody, Nobody)]
Doing(step, to, msg) == [step |-> step, to |-> to, msg |-> msg]

Steps == {"idle", "to", "any", "reroute", "copy"}

TypeOK ==
    /\ script \subseteq AllMessages /\ typed \subseteq UNION {s.typed : s \in Scenarios}
    /\ up \subseteq Client /\ aborted \subseteq Client
    /\ state \in [Client -> {"off", "asked", "answered", "in", "out"}]
    /\ session \in [Client -> Client \cup {NoUuid}]
    /\ greeting \in Client \cup {Nobody}
    /\ toBroker \in [Client -> Seq(Package)] /\ inbox \in [Client -> Seq(Package)]
    /\ doing \in [Client -> [step : Steps, to : Uuid, msg : Package]]
    /\ parts \in [Computes -> 0..2]
    /\ refused \in 0..MaxRefused
    /\ fault \in BOOLEAN
    /\ given \in [Ids -> SUBSET (Client \cup {Nobody})] /\ watching \in [Ids -> SUBSET Monitor]
    /\ sent \in [Ids -> {"no", "early", "in"}]
    /\ unsent \subseteq AnyId /\ torn \subseteq Client
    /\ heard \in [Planner -> Seq(Package)]
    /\ seen \in [Monitor -> SUBSET (TypeNames \X AnyId)]

Init ==
    /\ \E s \in Scenarios :
         /\ script = s.script /\ typed = s.typed /\ up = s.there
         /\ state = [c \in Client |-> IF c \in s.there THEN "in"
                                     ELSE IF c \in s.joins THEN "off" ELSE "out"]
    /\ aborted = {}
    /\ session = [c \in Client |-> IF c \in Zero THEN NoUuid ELSE c]
    /\ greeting = Nobody
    /\ toBroker = [c \in Client |-> <<>>] /\ inbox = [c \in Client |-> <<>>]
    /\ doing = [c \in Client |-> Idle]
    /\ parts = [c \in Computes |-> 0]
    /\ refused = 0 /\ fault = FALSE
    /\ given = [i \in Ids |-> {}] /\ watching = [i \in Ids |-> {}]
    /\ sent = [i \in Ids |-> "no"] /\ unsent = {} /\ torn = {}
    /\ heard = [p \in Planner |-> <<>>]
    /\ seen = [m \in Monitor |-> {}]

Break ==
    /\ fault' = TRUE
    /\ UNCHANGED <<envVars, regVars, netVars, doing, parts, refused, logVars>>

-----------------------------------------------------------------------------
(* Connecting                                                              *)

\* The accept thread takes one connection at a time and asks for its unit type.
Connect(c) ==
    /\ greeting = Nobody /\ state[c] = "off"
    /\ greeting' = c
    /\ state' = [state EXCEPT ![c] = "asked"]
    /\ up' = up \cup {c}
    /\ UNCHANGED <<script, typed, aborted, session, netVars, doing, parts, refused,
                   fault, logVars>>

\* The callback for the request answers; a planner's main thread, or that of
\* DBClient, goes on as soon as it has.
Answer(c) ==
    /\ state[c] = "asked" /\ c \in up
    /\ TakenFor(c, "UpdateUnitType") = "UpdateUnitType"
    /\ state' = [state EXCEPT ![c] = "answered"]
    /\ UNCHANGED <<envVars, aborted, session, greeting, netVars, doing, parts,
                   refused, fault, logVars>>

\* Mutant: the handshake waits without a timeout.
DiscardNever(c) == FALSE /\ UNCHANGED vars

\* Nothing arrives within two seconds, or no new uuid within one.
Discard(c) ==
    /\ greeting = c
    /\ state[c] = "asked" \/ (state[c] = "answered" /\ ByUuid(session[c]) # {})
    /\ state' = [state EXCEPT ![c] = "out"]
    /\ up' = up \ {c}
    /\ greeting' = Nobody
    /\ toBroker' = [toBroker EXCEPT ![c] = <<>>]
    /\ UNCHANGED <<script, typed, aborted, session, inbox, doing, parts, refused,
                   fault, logVars>>

\* One recv reads the answer and whatever else has arrived, which is lost.  Of
\* two clients with uuid 0 the second is made to choose another uuid.
Enter(c) ==
    /\ greeting = c /\ state[c] = "answered"
    /\ \E n \in 0..Len(toBroker[c]) :
         toBroker' = [toBroker EXCEPT ![c] = SubSeq(@, n + 1, Len(@))]
    /\ session' = [session EXCEPT ![c] = IF ByUuid(@) = {} THEN @ ELSE c]
    /\ state' = [state EXCEPT ![c] = "in"]
    /\ greeting' = Nobody
    /\ UNCHANGED <<envVars, aborted, inbox, doing, parts, refused, fault, logVars>>

\* An answer that arrives in two segments makes the accept thread end the broker
\* with exit(-1); and the maps it puts a client into are read without the lock.
GreetingBreaks(c) ==
    /\ greeting = c /\ state[c] = "answered"
    /\ Break

\* The peer closes; what was on its way to it is lost, and perhaps what it sent.
Leave(c) ==
    /\ c \in MayLeave \cap up /\ state[c] = "in"
    /\ up' = up \ {c}
    /\ inbox' = [inbox EXCEPT ![c] = <<>>]
    /\ \/ UNCHANGED toBroker
       \/ toBroker' = [toBroker EXCEPT ![c] = <<>>]
    /\ UNCHANGED <<script, typed, regVars, doing, parts, refused, fault, logVars>>

\* The receiver reads the end of the stream.
ReceiverEnds(c) ==
    /\ c \in In \ (up \cup aborted)
    /\ toBroker[c] = <<>> /\ doing[c] = Idle
    /\ aborted' = aborted \cup {c}
    /\ UNCHANGED <<envVars, state, session, greeting, netVars, doing, parts,
                   refused, fault, logVars>>

\* What the receiver of a removed client has not read is lost.
Drained(c) ==
    /\ state[c] = "out" /\ toBroker[c] # <<>>
    /\ toBroker' = [toBroker EXCEPT ![c] = <<>>]
    /\ UNCHANGED <<envVars, regVars, inbox, doing, parts, refused, fault, logVars>>

-----------------------------------------------------------------------------
(* What the clients do                                                     *)

\* A script's message is sent, if need be before its sender is registered.
Send(m) ==
    /\ m \in script /\ m.from \in up /\ state[m.from] \in {"answered", "in"}
    /\ script' = script \ {m}
    /\ toBroker' = [toBroker EXCEPT ![m.from] =
                        Append(@, Message(m.type, m.id, m.src, m.tgt))]
    /\ sent' = [sent EXCEPT ![m.id] = IF state[m.from] = "in" THEN "in" ELSE "early"]
    /\ watching' = [watching EXCEPT ![m.id] = MonitorsIn]
    /\ UNCHANGED <<typed, up, regVars, inbox, doing, parts, refused, fault, given,
                   unsent, torn, heard, seen>>

Read(c) == inbox' = [inbox EXCEPT ![c] = Tail(@)]
Taken(c) == toBroker' = [toBroker EXCEPT ![c] = Tail(@)]

\* ComputeUnit's work_cb: the answer names the unit and goes to the sender.
Answered(c, w) == Message("TaskFinished", w.id, c, w.src)

\* That of DBClient and tcp_client_example: neither uuid is set, and a request
\* parsed as a work item gives no ids.
AnsweredByZero(w) == Message("TaskFinished", "0_0", NoUuid, NoUuid)

\* The answer is sent, unless the kernel refuses it or takes a part, which
\* notifyHost does not notice, or the broker has closed the connection.
Reply(c, w, a) ==
    \/ /\ toBroker' = IF state[c] = "in"
                      THEN [toBroker EXCEPT ![c] = Append(@, a)] ELSE toBroker
       /\ UNCHANGED <<refused, unsent, torn>>
    \/ /\ refused < MaxRefused
       /\ refused' = refused + 1
       /\ unsent' = unsent \cup {w.id}
       /\ torn' = torn \/ torn' = torn \cup {c}
       /\ UNCHANGED toBroker

\* Work typed at the console is a bare WorkItem: a ComputeUnit, which expects a
\* WorkRequest, does not answer it.
Compute(c) ==
    /\ c \in Computes \cap up /\ inbox[c] # <<>> /\ Head(inbox[c]).type = "Work"
    /\ LET w == Head(inbox[c])
       IN  IF c \in Unit
           THEN IF w.id \in Ids THEN Reply(c, w, Answered(c, w))
                ELSE UNCHANGED <<toBroker, refused, unsent, torn>>
           ELSE Reply(c, w, AnsweredByZero(w))
    /\ Read(c)
    /\ UNCHANGED <<envVars, regVars, doing, parts, fault, given, sent, watching,
                   heard, seen>>

\* Whoever reads a stream with a part of a message in it may take any later
\* message for the rest of that part.  (What they make together is dropped.)
Garble(c) ==
    /\ c \in torn \cap up /\ inbox[c] # <<>>
    /\ Read(c)
    /\ UNCHANGED <<envVars, regVars, toBroker, doing, parts, refused, fault, logVars>>

GarbleAtBroker(c) ==
    /\ c \in torn /\ doing[c] = Idle /\ toBroker[c] # <<>>
    /\ Taken(c)
    /\ UNCHANGED <<envVars, regVars, inbox, doing, parts, refused, fault, logVars>>

\* task_finished_cb
Hear(p) ==
    /\ p \in Planner \cap up /\ inbox[p] # <<>>
    /\ TakenFor(p, Head(inbox[p]).type) = "TaskFinished"
    /\ heard' = [heard EXCEPT ![p] = Append(@, Head(inbox[p]))]
    /\ Read(p)
    /\ UNCHANGED <<envVars, regVars, toBroker, doing, parts, refused, fault, given,
                   sent, unsent, torn, watching, seen>>

Watch(m) ==
    /\ m \in Monitor \cap up /\ inbox[m] # <<>>
    /\ seen' = [seen EXCEPT ![m] = @ \cup {<<Head(inbox[m]).type, Head(inbox[m]).id>>}]
    /\ Read(m)
    /\ UNCHANGED <<envVars, regVars, toBroker, doing, parts, refused, fault, given,
                   sent, unsent, torn, watching, heard>>

\* A text is printed; a package without a callback is passed over.
Pass(c) ==
    /\ c \in up \ Monitor /\ inbox[c] # <<>>
    /\ TakenFor(c, Head(inbox[c]).type) \notin Callbacks(c) \ {"Text"}
    /\ Read(c)
    /\ UNCHANGED <<envVars, regVars, toBroker, doing, parts, refused, fault, logVars>>

-----------------------------------------------------------------------------
(* Sending, by any thread of the broker                                    *)

\* Who got the work; what was typed at the console is not an item of a planner.
Gave(msg, c) ==
    given' = IF msg.type = "Work" /\ msg.id \in Ids
             THEN [given EXCEPT ![msg.id] = @ \cup {c}] ELSE given

\* The stream of a client takes the whole message, which does not frame between
\* two parts of a split one; or a part of it, which counts as sent.
Deliver(c, msg) ==
    /\ Gave(msg, c)
    /\ \/ /\ inbox' = IF c \in up THEN [inbox EXCEPT ![c] = Append(@, msg)] ELSE inbox
          /\ torn' = IF c \in Computes /\ parts[c] # 0 THEN torn \cup {c} ELSE torn
          /\ UNCHANGED refused
       \/ /\ c \in up /\ refused < MaxRefused
          /\ refused' = refused + 1
          /\ torn' = torn \cup {c}
          /\ UNCHANGED inbox

\* The same for several at once; those in failed take nothing.
ToAll(cs, failed, msg) ==
    \E cut \in SUBSET (cs \cap up) :
        /\ refused' = refused + Cardinality(cut \cup (failed \cap up))
        /\ refused' <= MaxRefused
        /\ torn' = torn \cup cut
        /\ inbox' = [c \in Client |-> IF c \in (cs \cap up) \ cut
                                      THEN Append(inbox[c], msg) ELSE inbox[c]]

CanSend(c) == c \notin aborted

\* abort is set, the peer has gone, or the kernel refuses.
CanFail(c) == c \in aborted \/ c \notin up \/ refused < MaxRefused
Refuse(c) == refused' = IF c \in aborted \/ c \notin up THEN refused ELSE refused + 1

\* removeClient: its connection is closed; its receiver only ends the callbacks
\* for what it has read.
Removed(cs) ==
    /\ state' = [c \in Client |-> IF c \in cs THEN "out" ELSE state[c]]
    /\ aborted' = aborted \ cs

-----------------------------------------------------------------------------
(* The callbacks                                                           *)

Do(c, d) == doing' = [doing EXCEPT ![c] = d]

\* Receiver c has a message and no callback of its own running.
Receives(c, types) ==
    /\ state[c] \in {"in", "out"} /\ c \notin aborted /\ doing[c] = Idle
    /\ toBroker[c] # <<>> /\ Head(toBroker[c]).type \in types

Unmoved == UNCHANGED <<envVars, regVars, inbox, parts, refused, fault, sent, unsent,
                       torn, watching, heard, seen>>
Dropped == UNCHANGED <<doing, given>>

\* The client with a uuid is looked up; nobody there, nothing more.
LookUp(c, u, msg) ==
    \/ ByUuid(u) = {} /\ UNCHANGED doing /\ Gave(msg, Nobody)
    \/ \E t \in ByUuid(u) : Do(c, Doing("to", t, msg)) /\ UNCHANGED given

\* text_cb: a text for the broker is printed.
ForwardText(c) ==
    /\ Receives(c, {"Text"})
    /\ LET m == Head(toBroker[c])
       IN  IF m.tgt = NoUuid THEN Dropped ELSE LookUp(c, m.tgt, m)
    /\ Taken(c) /\ Unmoved

\* connect_forward_cb, config_forward_cb and connect_info_forward_cb
ForwardConfig(c) ==
    /\ Receives(c, {"ConnectAction", "ConfigurationAction", "ConnectActionInfo"})
    /\ LookUp(c, Head(toBroker[c]).tgt, Head(toBroker[c]))
    /\ Taken(c) /\ Unmoved

\* finished_forward_cb
ForwardFinished(c) ==
    /\ Receives(c, {"TaskFinished"})
    /\ LookUp(c, Head(toBroker[c]).tgt, Head(toBroker[c]))
    /\ Taken(c) /\ Unmoved

\* work_forward_cb
ForwardWork(c) ==
    /\ Receives(c, {"Work"})
    /\ LET m == Head(toBroker[c])
       IN  \/ m.tgt = NoUuid /\ Do(c, Doing("any", Nobody, m)) /\ UNCHANGED given
           \/ m.tgt # NoUuid /\ LookUp(c, m.tgt, m)
    /\ Taken(c) /\ Unmoved

\* reroute_work_cb: the message is made to come from the planner it names.
RerouteWork(c) ==
    /\ Receives(c, {"RerouteWork"})
    /\ LET m == Head(toBroker[c])
       IN  Do(c, Doing("reroute", m.src, Message("RerouteWork", m.id, m.tgt, NoUuid)))
    /\ Taken(c) /\ Unmoved /\ UNCHANGED given

\* monitor_cb and uuid_per_client_cb: the registry is cleared of aborted clients
\* (for a monitor that is found, for a uuid request always), and the answer goes
\* to the sender; both are one step here, for nothing is sent in between.  (When
\* either goes wrong is in CallbackBreaks.)
AnswerRequest(c) ==
    /\ Receives(c, {"MonitorRequest", "UuidForUnitRequest"})
    /\ LET m == Head(toBroker[c])
           answer == IF m.type = "MonitorRequest" THEN "Text" ELSE "UuidForUnitResponse"
           cleared == IF m.type = "MonitorRequest" /\ ByUuid(m.src) = {} THEN {} ELSE aborted
       IN  LookUp(c, m.src, Message(answer, m.id, m.src, m.tgt)) /\ Removed(cleared)
    /\ Taken(c)
    /\ UNCHANGED <<envVars, session, greeting, inbox, parts, refused, fault, sent,
                   unsent, torn, watching, heard, seen>>

\* The broker has no callback for the tasks of DBClient.
DropTask(c) ==
    /\ Receives(c, {"NewTask"})
    /\ Taken(c) /\ Unmoved /\ Dropped

Rest == <<envVars, parts, sent, unsent, watching, heard, seen>>

\* Client t is sent what callback c has in hand, and the monitors come next; or
\* the send fails and t is removed.
Copying(c) == Do(c, Doing("copy", Nobody, doing[c].msg))
Takes(c, t) ==
    /\ CanSend(t) /\ Deliver(t, doing[c].msg) /\ Copying(c)
    /\ UNCHANGED <<regVars, toBroker, fault, Rest>>
Fails(t) ==
    /\ CanFail(t) /\ Refuse(t) /\ Removed({t})
    /\ UNCHANGED <<session, greeting, netVars, fault, given, torn, Rest>>
Nowhere(c) ==
    /\ Gave(doing[c].msg, Nobody) /\ Copying(c)
    /\ UNCHANGED <<regVars, netVars, refused, fault, torn, Rest>>

\* Mutant: an answer is not copied to the monitors.
TargetNotCopied(c) ==
    /\ doing[c].step = "to" /\ doing[c].to \in In
    /\ \/ Takes(c, doing[c].to) /\ doing[c].msg.type # "TaskFinished"
       \/ /\ CanSend(doing[c].to) /\ doing[c].msg.type = "TaskFinished"
          /\ Deliver(doing[c].to, doing[c].msg) /\ Do(c, Idle)
          /\ UNCHANGED <<regVars, toBroker, fault, Rest>>
       \/ doing[c].to # c /\ Fails(doing[c].to) /\ Copying(c)

\* sendTo to the client that was looked up; its result is not looked at.
SendToTarget(c) ==
    /\ doing[c].step = "to" /\ doing[c].to \in In
    /\ \/ Takes(c, doing[c].to)
       \/ doing[c].to # c /\ Fails(doing[c].to) /\ Copying(c)

\* Mutant: a unit that cannot be sent to is the last that is tried.
AnyTriesOnce(c) ==
    /\ doing[c].step = "any"
    /\ \/ UnitsIn = {} /\ Nowhere(c)
       \/ \E t \in UnitsIn : Takes(c, t) \/ (Fails(t) /\ Copying(c))

\* Mutant: a successful send does not end the search.
AnySendsOn(c) ==
    /\ doing[c].step = "any"
    /\ \/ UnitsIn = {} /\ Nowhere(c)
       \/ \E t \in UnitsIn :
            \/ Takes(c, t) \/ (Fails(t) /\ UNCHANGED doing)
            \/ /\ Deliver(t, doing[c].msg) /\ given' # given
               /\ UNCHANGED <<regVars, toBroker, doing, fault, Rest>>

\* sendToAnyOfType: one random unit after the other, until one takes the work
\* or none is left.
SendToAny(c) ==
    /\ doing[c].step = "any"
    /\ \/ UnitsIn = {} /\ Nowhere(c)
       \/ \E t \in UnitsIn : Takes(c, t) \/ (Fails(t) /\ UNCHANGED doing)

\* rerouteToAnyOfType: a unit other than the one it came from; after a failure
\* it may pass over others.
RerouteToAny(c) ==
    /\ doing[c].step = "reroute"
    /\ LET others == {t \in UnitsIn : session[t] # doing[c].to}
       IN  \/ others = {} /\ Nowhere(c)
           \/ \E t \in others :
                Takes(c, t) \/ (Fails(t) /\ (Copying(c) \/ UNCHANGED doing))

\* Every callback that sent something ends with sendToAllOfType(MonitorUnit),
\* which works on a copy of the vector of monitors.
CopyToMonitors(c) ==
    /\ doing[c].step = "copy"
    /\ ToAll(MonitorsIn, {}, doing[c].msg)
    /\ Do(c, Idle)
    /\ UNCHANGED <<envVars, regVars, toBroker, parts, fault, given, sent, unsent,
                   watching, heard, seen>>

\* The removal of t is not safe.  It joins t's receiver with cl_mutex held, and
\* if that one has a client to remove, each waits for the other for ever; and it
\* erases from maps and deletes an info that other callbacks read without the
\* lock.  (Fails and Removed are the removal that goes well.)
Unsafe(c, t) ==
    /\ CanFail(t)
    /\ toBroker[t] # <<>> \/ \E d \in Client \ {c} : doing[d] # Idle

\* The client looked up has been removed since; a thread removes its own client,
\* or one that it is not safe to remove; a monitor cannot be sent to, and the
\* loop returns to the one it removed; or uuid_per_client_cb writes past the end
\* of the package, whose size it asks for before it is set.
CallbackBreaks(c) ==
    /\ \/ doing[c].step = "to" /\ doing[c].to \notin In
       \/ doing[c].step = "to" /\ doing[c].to = c /\ CanFail(c)
       \/ doing[c].step = "to" /\ doing[c].to \in In /\ Unsafe(c, doing[c].to)
       \/ doing[c].step \in {"any", "reroute"} /\ \E t \in UnitsIn : Unsafe(c, t)
       \/ doing[c].step = "copy" /\ \E m \in MonitorsIn : CanFail(m)
       \/ Receives(c, {"MonitorRequest"}) /\ \E t \in aborted : Unsafe(c, t)
       \/ Receives(c, {"UuidForUnitRequest"})
    /\ Break

-----------------------------------------------------------------------------
(* The console                                                             *)

Part == <<"3.1", "3.2", "3.3">>

\* One command at a time: while a split message is on its way only its next part
\* is sent.
Typed(command) ==
    /\ command \in typed
    /\ typed' = typed \ {command}
    /\ \A k \in 2..3 : Part[k] \in typed /\ Part[k - 1] \notin typed => command = Part[k]
    /\ \A k \in 2..3 : command = Part[k] => Part[k - 1] \notin typed

\* 1: sendToAll of a text; a client it cannot be sent to is removed.
TypeText ==
    /\ Typed("1")
    /\ \E failed \in SUBSET {c \in In : CanFail(c)} :
         /\ Removed(failed)
         /\ ToAll(In \ failed, failed, Message("Text", "console", NoUuid, NoUuid))
    /\ UNCHANGED <<script, up, session, greeting, toBroker, doing, parts, fault, given,
                   sent, unsent, watching, heard, seen>>

\* 2: sendToAllOfType of bare work items to all units.
TypeWork ==
    /\ Typed("2")
    /\ ToAll(UnitsIn, {}, Message("Work", "console", NoUuid, NoUuid))
    /\ UNCHANGED <<script, up, regVars, toBroker, doing, parts, fault, given, sent,
                   unsent, watching, heard, seen>>

\* 3: the same in three parts with pauses, in which other threads send; a unit
\* that registers in a pause gets the rest only.  (What is in the parts is not
\* modelled.)
TypeSplit(k) ==
    /\ Typed(Part[k])
    /\ parts' = [c \in Computes |->
                    IF c \notin UnitsIn THEN parts[c] ELSE IF k = 3 THEN 0 ELSE k]
    /\ \E cut \in SUBSET (UnitsIn \cap up) :
         /\ refused' = refused + Cardinality(cut)
         /\ refused' <= MaxRefused
         /\ torn' = torn \cup cut \cup {c \in UnitsIn : parts[c] # k - 1}
    /\ UNCHANGED <<script, up, regVars, netVars, doing, fault, given, sent, unsent,
                   watching, heard, seen>>

\* 4: clear_aborted
TypeClear ==
    /\ Typed("4")
    /\ Removed(aborted)
    /\ UNCHANGED <<script, up, session, greeting, netVars, doing, parts, refused, fault,
                   logVars>>

\* Commands 2 and 3 return to a unit they removed, as callbacks do to a monitor;
\* and what commands 1 and 4 remove may not be safe to remove.
ConsoleBreaks ==
    /\ \/ /\ typed \cap ({"2"} \cup {Part[k] : k \in 1..3}) # {}
          /\ \E c \in UnitsIn : CanFail(c)
       \/ "1" \in typed /\ \E c \in In : Unsafe(Nobody, c)
       \/ "4" \in typed /\ \E c \in aborted : Unsafe(Nobody, c)
    /\ Break

-----------------------------------------------------------------------------

Connecting(c) == Connect(c) \/ Answer(c) \/ Discard(c) \/ Enter(c) \/ GreetingBreaks(c)
Callback(c) ==
    \/ ForwardText(c) \/ ForwardConfig(c) \/ ForwardFinished(c) \/ ForwardWork(c)
    \/ RerouteWork(c) \/ AnswerRequest(c) \/ DropTask(c)
    \/ SendToTarget(c) \/ SendToAny(c) \/ RerouteToAny(c)
    \/ CopyToMonitors(c) \/ CallbackBreaks(c)
Reading(c) == Compute(c) \/ Garble(c) \/ Hear(c) \/ Watch(c) \/ Pass(c)
Console == TypeText \/ TypeWork \/ TypeClear \/ ConsoleBreaks \/ \E k \in 1..3 : TypeSplit(k)

Next ==
    /\ ~fault
    /\ \/ \E c \in Client : \/ Connecting(c) \/ Leave(c) \/ ReceiverEnds(c) \/ Drained(c)
                            \/ GarbleAtBroker(c)
                            \/ Callback(c) \/ Reading(c)
       \/ \E m \in script : Send(m)
       \/ Console

\* The broker's threads run, and so do the receivers of the clients.
Spec == Init /\ [][Next]_vars
FairSpec ==
    /\ Spec
    /\ \A c \in Client : /\ WF_vars(~fault /\ (Discard(c) \/ Enter(c)))
                         /\ WF_vars(~fault /\ Callback(c))
                         /\ WF_vars(~fault /\ Reading(c))

-----------------------------------------------------------------------------
(* Properties *)

Answers(p, i) == {k \in 1..Len(heard[p]) : heard[p][k].id = i}

\* Work is sent to one unit only, the one its planner named if it named one; and
\* a planner hears at most once of an item, only of its own items, and only from
\* that unit, whatever the broker had to retry.
OneUnitOneAnswer ==
    \A i \in Items :
        /\ Cardinality(given[i]) <= 1
        /\ Item(i).tgt # NoUuid => \A c \in given[i] \ {Nobody} : session[c] = Item(i).tgt
        /\ \A p \in Planner :
              /\ Cardinality(Answers(p, i)) <= 1
              /\ \A k \in Answers(p, i) : Item(i).from = p /\ heard[p][k].src \in given[i]

Quiet == \A c \in Client : doing[c] = Idle

Copies(m) == seen[m] \cup {<<inbox[m][k].type, inbox[m][k].id>> : k \in 1..Len(inbox[m])}

\* When no callback is running, a monitor that was in when an item was sent, and
\* still is, has been sent both the work and the answer its planner heard; whole,
\* unless a part of some message is in its stream.
MonitorsFollow ==
    Quiet /\ ~fault =>
        \A i \in Items : \A p \in Planner : Answers(p, i) # {} =>
            \A m \in (watching[i] \cap In \cap up) \ torn :
                {<<"Work", i>>, <<"TaskFinished", i>>} \subseteq Copies(m)

\* The ways an item can get lost.
Lost(i) ==
    LET w == Item(i)
    IN  \/ sent[i] = "early"             \* the handshake's recv swallowed it
        \/ w.from \notin In \cap up     \* its planner has gone
        \/ w.tgt \in Client /\ state[w.tgt] = "out"
        \/ given[i] \ (In \cap up) # {} \* there was no unit for it, or it has gone
        \/ given[i] \cap Zero # {}      \* which answers nobody
        \/ torn \cap (given[i] \cup {w.from}) # {}
        \/ i \in unsent                 \* the unit's own send was refused or cut
        \/ fault                        \* the broker has crashed, exited or hangs

\* Work that is sent is answered, unless it was sent during the handshake, a
\* party to it has gone, there was no unit for it, it fell to a client with uuid
\* 0, the stream of its unit or of its planner has a part of a message in it
\* (from a send that was cut, or from the console's command 3), the unit's own
\* send was refused or cut, or the broker does not run any more: a removal that
\* waits for another for ever, exit, or memory it must not use.  In particular a
\* unit that fails while work is handed out costs nothing as long as another is
\* there and the removal is safe.
WorkIsAnswered ==
    \A i \in Items :
        sent[i] # "no" ~> Answers(Item(i).from, i) # {} \/ Lost(i)

\* A client that holds the accept thread up does so for a while only.
GreetingEnds == greeting # Nobody ~> greeting = Nobody \/ fault

=============================================================================
