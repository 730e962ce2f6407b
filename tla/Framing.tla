------------------------------- MODULE Framing -------------------------------
(***************************************************************************)
(* One connection seen from its receiving thread: the handshake recv of    *)
(* src/cpp/code/src/server/TCPServer.cpp, the receive loop there (and its  *)
(* twin in src/cpp/code/src/client/TCPClient.cpp), and                     *)
(* Utility::extractItemsModifyBuffer, which cuts the bytes into messages.  *)
(*                                                                         *)
(* TCP may cut the byte stream anywhere.  A byte is named by its position  *)
(* in the peer's stream: message m occupies the positions after Start[m],  *)
(* a header of H bytes and then Size[m] payload bytes.  The buffer holds   *)
(* positions, so a byte at the wrong place or a stale one is visible.      *)
(***************************************************************************)
EXTENDS Integers, Sequences

CONSTANTS N,            \* how many messages the peer sends
          Size,         \* payload_size of each message
          Start,        \* how many bytes of the stream precede each message
          H,            \* sizeof(TCPMetaInfo)
          D,            \* sizeof(message_delimiter): the first bytes of a header
          F,            \* the byte of the header that stands for payload_size
          Capacity,     \* MAX_DATA_SIZE
          Reserve,      \* bytes of it recv may not fill: 0 in TCPServer, 1 in TCPClient
          Handshake,    \* message 1 is read by the handshake of TCPServer
          Eager,        \* the peer sends more before its handshake is read
          AscendingMemcpy   \* memcpy copies an overlapping region as memmove would

ASSUME CountType == N \in Nat
ASSUME HeaderType ==
    /\ H \in Nat /\ D \in Nat /\ F \in Nat
    /\ 1 <= D /\ D <= F /\ F < H
ASSUME SizeType == Size \in [1..N -> Nat]
ASSUME StartType ==
    /\ Start \in [1..(N + 1) -> Nat]
    /\ Start[1] = 0
    /\ \A m \in 1..N : Start[m + 1] = Start[m] + H + Size[m]
    /\ \A m, n \in 1..(N + 1) : m < n => Start[m] < Start[n]
ASSUME CapacityType == Capacity \in Nat /\ Reserve \in Nat
ASSUME SwitchType == {Handshake, Eager, AscendingMemcpy} \subseteq BOOLEAN

VARIABLES sent,         \* messages the peer has sent whole
          open,         \* the peer has neither closed nor reset the connection
          received,     \* bytes recv has returned
          buffer,       \* msg_buffer: a stream position per byte, 0 where unwritten
          ptr,          \* data_ptr - in_memory
          unprocessed,  \* unprocessed_bytes; remaining_bytes while extracting
          pc,           \* where the receiving thread is
          dispatched    \* the messages given to the callbacks, as their bytes

vars == <<sent, open, received, buffer, ptr, unprocessed, pc, dispatched>>

Running == {"handshake", "loop", "scan", "parse"}
Stopped == {"ended", "crashed"}

\* The bytes of message m.
Bytes(m) == [i \in 1..(H + Size[m]) |-> Start[m] + i]

OnWire == Start[sent + 1] - received

TypeOK ==
    /\ sent \in 0..N
    /\ open \in BOOLEAN
    /\ received \in Nat
    /\ buffer \in [1..Capacity -> Nat]
    /\ ptr \in Nat
    /\ unprocessed \in Nat
    /\ pc \in Running \cup Stopped
    /\ dispatched \in Seq(Seq(Nat))

\* The thread is created with value-initialised ClientInfo fields and a buffer
\* of fresh memory.
Init ==
    /\ sent = 0
    /\ open = TRUE
    /\ received = 0
    /\ buffer = [i \in 1..Capacity |-> 0]
    /\ ptr = 0
    /\ unprocessed = 0
    /\ pc = IF Handshake THEN "handshake" ELSE "loop"
    /\ dispatched = <<>>

-----------------------------------------------------------------------------
(* The peer.                                                               *)

\* A compute unit answers the handshake and then waits for work; DBClient
\* goes on with a request of its own.
Send ==
    /\ open /\ sent < N
    /\ pc = "handshake" /\ ~Eager => sent = 0
    /\ sent' = sent + 1
    /\ UNCHANGED <<open, received, buffer, ptr, unprocessed, pc, dispatched>>

Hangup ==
    /\ open
    /\ open' = FALSE
    /\ UNCHANGED <<sent, received, buffer, ptr, unprocessed, pc, dispatched>>

-----------------------------------------------------------------------------
(* The handshake: one recv into a buffer of its own, which is freed.       *)

\* Fewer bytes than the first message: the server exits, or discards the
\* client when not even the delimiter is there.  Bytes beyond the first
\* message go away with the buffer.
ReadHandshake(k) ==
    /\ pc = "handshake"
    /\ k <= OnWire
    /\ received' = received + k
    /\ IF k < H + Size[1]
       THEN pc' = "ended" /\ UNCHANGED dispatched
       ELSE pc' = "loop" /\ dispatched' = <<Bytes(1)>>
    /\ UNCHANGED <<sent, open, buffer, ptr, unprocessed>>

\* No answer within two seconds, or the peer is gone.
DropHandshake ==
    /\ pc = "handshake"
    /\ pc' = "ended"
    /\ UNCHANGED <<sent, open, received, buffer, ptr, unprocessed, dispatched>>

-----------------------------------------------------------------------------
(* The receive loop.                                                       *)

Available == Capacity - Reserve - unprocessed

\* Mutant: recv writes over the bytes that are still unprocessed.
ReceiveAtStart(k) ==
    /\ pc = "loop"
    /\ k <= OnWire /\ k <= Available
    /\ buffer' = [i \in 1..Capacity |->
                    IF i \in 1..k THEN received + i ELSE buffer[i]]
    /\ received' = received + k
    /\ unprocessed' = unprocessed + k
    /\ ptr' = 0
    /\ pc' = "scan"
    /\ UNCHANGED <<sent, open, dispatched>>

Receive(k) ==
    /\ pc = "loop"
    /\ k <= OnWire /\ k <= Available
    /\ buffer' = [i \in 1..Capacity |->
                    IF i \in (unprocessed + 1)..(unprocessed + k)
                    THEN received + i - unprocessed
                    ELSE buffer[i]]
    /\ received' = received + k
    /\ unprocessed' = unprocessed + k
    /\ ptr' = 0
    /\ pc' = "scan"
    /\ UNCHANGED <<sent, open, dispatched>>

\* recv reports the end of the stream or an error.
Disconnect ==
    /\ pc = "loop" /\ ~open
    /\ pc' = "ended"
    /\ UNCHANGED <<sent, open, received, buffer, ptr, unprocessed, dispatched>>

\* The buffer is full of an incomplete message: TCPServer gives up at once,
\* TCPClient because recv with no room returns 0.
Overflow ==
    /\ pc = "loop" /\ Available <= 0
    /\ pc' = "ended"
    /\ UNCHANGED <<sent, open, received, buffer, ptr, unprocessed, dispatched>>

-----------------------------------------------------------------------------
(* extractItemsModifyBuffer                                                *)

\* The byte at p is byte f of some header.
IsHeaderByte(p, f) ==
    p \in 1..Capacity /\ \E m \in 1..N : buffer[p] = Start[m] + f

DelimiterAt(p) == \A f \in 1..D : IsHeaderByte(p + f, f)

\* The loop that looks for a delimiter; whatever it finds, data_ptr is set back
\* to the start.  Without a delimiter in the buffer it reads beyond its end.
Scan ==
    /\ pc = "scan"
    /\ pc' \in IF \E p \in 0..Capacity : DelimiterAt(p)
               THEN {"parse"} ELSE {"parse", "crashed"}
    /\ UNCHANGED <<sent, open, received, buffer, ptr, unprocessed, dispatched>>

\* The payload_size found behind data_ptr: that of a message if the byte there
\* is its size, and otherwise anything.
SizeRead ==
    IF IsHeaderByte(ptr + F + 1, F + 1)
    THEN {Size[m] : m \in {n \in 1..N : buffer[ptr + F + 1] = Start[n] + F + 1}}
    ELSE 0..Capacity

\* Mutant: a message that ends with the received bytes is not seen as complete.
DispatchLess ==
    /\ pc = "parse"
    /\ \E s \in SizeRead :
        /\ H + s < unprocessed
        /\ dispatched' = Append(dispatched,
                                [i \in 1..(H + s) |-> buffer[ptr + i]])
        /\ ptr' = ptr + H + s
        /\ unprocessed' = unprocessed - (H + s)
    /\ UNCHANGED <<sent, open, received, buffer, pc>>

Dispatch ==
    /\ pc = "parse"
    /\ \E s \in SizeRead :
        /\ H + s <= unprocessed
        /\ dispatched' = Append(dispatched,
                                [i \in 1..(H + s) |-> buffer[ptr + i]])
        /\ ptr' = ptr + H + s
        /\ unprocessed' = unprocessed - (H + s)
    /\ UNCHANGED <<sent, open, received, buffer, pc>>

\* Where the byte comes from that a copy of the rest leaves at i: a copy from
\* the highest byte down rereads what it has already overwritten.
Ascending(i) == ptr + i
Descending(i) ==
    IF ptr = 0 THEN i ELSE i + ptr * ((unprocessed - i) \div ptr + 1)

Moved(From(_)) ==
    [i \in 1..Capacity |-> IF i <= unprocessed THEN buffer[From(i)] ELSE buffer[i]]

\* What memcpy may leave in the buffer.
Copies == {Moved(Ascending)} \cup IF AscendingMemcpy THEN {} ELSE {Moved(Descending)}

\* Mutant: the rest stays where it is.
MoveNothing ==
    /\ pc = "parse"
    /\ \E s \in SizeRead : H + s > unprocessed
    /\ ptr' = 0
    /\ pc' = "loop"
    /\ UNCHANGED <<sent, open, received, buffer, unprocessed, dispatched>>

\* No further complete message: memcpy of the rest to the start of the buffer.
MoveRest ==
    /\ pc = "parse"
    /\ \E s \in SizeRead : H + s > unprocessed
    /\ buffer' \in Copies
    /\ ptr' = 0
    /\ pc' = "loop"
    /\ UNCHANGED <<sent, open, received, unprocessed, dispatched>>

Next ==
    \/ Send \/ Hangup
    \/ DropHandshake \/ \E k \in 1..OnWire : ReadHandshake(k)
    \/ Disconnect \/ Overflow \/ \E k \in 1..OnWire : Receive(k)
    \/ Scan \/ Dispatch \/ MoveRest

Spec == Init /\ [][Next]_vars

\* The receiving thread keeps running, and a blocking recv returns once there
\* is something to return.
FairSpec ==
    /\ Spec
    /\ WF_vars(DropHandshake \/ \E k \in 1..OnWire : ReadHandshake(k))
    /\ WF_vars(Disconnect \/ Overflow \/ \E k \in 1..OnWire : Receive(k))
    /\ WF_vars(Scan \/ Dispatch \/ MoveRest)

-----------------------------------------------------------------------------
(* Properties *)

\* However the stream is cut, the callbacks see the messages whole, in order,
\* without a stale or a missing byte.
DispatchedInOrder ==
    /\ Len(dispatched) <= sent
    /\ \A m \in 1..Len(dispatched) : dispatched[m] = Bytes(m)

\* Between two calls the buffer starts with exactly the bytes that have been
\* received and not handed on: "the remaining bytes are moved to
\* out_message_buffer_start" also when that is the input buffer itself.
LeftoverMoved ==
    pc = "loop" =>
        /\ unprocessed <= Capacity
        /\ \A i \in 1..unprocessed : buffer[i] = received - unprocessed + i

\* The thread never sits on a complete message, nor waits for room it cannot
\* get: what was sent is dispatched, or the connection ends.
SentIsDispatched ==
    \A m \in 1..N : sent >= m ~> Len(dispatched) >= m \/ pc \in Stopped

Peer == INSTANCE Channel WITH
    Message <- [m \in 1..N |-> Bytes(m)],
    offered <- sent,
    delivered <- dispatched,
    ended <- pc \in Stopped

ImplementsChannel == Peer!Spec
=============================================================================
