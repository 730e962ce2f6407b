--------------------------- MODULE FramingProofs ---------------------------
(***************************************************************************)
(* Proofs about Framing for every number and size of messages, every       *)
(* buffer and every way TCP may cut the stream, provided that memcpy copes *)
(* with the overlap and the peer does not run ahead of the handshake.      *)
(***************************************************************************)
EXTENDS Framing, TLAPS

\* The two switches under which the code keeps its promise; MCFramingMemcpy
\* and MCFramingEager show what happens without them.
WellBehaved == AscendingMemcpy /\ (Handshake => ~Eager)

\* The messages handed on so far.
Done == Len(dispatched)

\* The handshake has consumed nothing, and the peer is at most one ahead.
HandshakeInv ==
    pc = "handshake" =>
        /\ Handshake /\ sent <= 1
        /\ received = 0 /\ ptr = 0 /\ unprocessed = 0 /\ dispatched = <<>>

\* From ptr the buffer holds the stream from the first message that has not
\* been handed on up to the last byte received.
BufferInv ==
    pc \in {"loop", "scan", "parse"} =>
        /\ received = Start[Done + 1] + unprocessed
        /\ ptr + unprocessed <= Capacity
        /\ \A i \in 1..unprocessed : buffer[ptr + i] = Start[Done + 1] + i
        /\ pc # "parse" => ptr = 0

FrameInv ==
    /\ TypeOK
    /\ received <= Start[sent + 1]
    /\ DispatchedInOrder
    /\ HandshakeInv
    /\ BufferInv

-----------------------------------------------------------------------------
(* Lemmas.                                                                 *)

\* With a whole header behind ptr the size read is that of the next message,
\* which the peer has sent.
LEMMA SizeIsNext ==
    ASSUME FrameInv, pc = "parse", NEW s \in SizeRead, H + s <= unprocessed
    PROVE  /\ Done + 1 \in 1..N /\ Done < sent
           /\ s = Size[Done + 1]
<1>1. /\ Done \in Nat /\ Done <= sent /\ sent \in 0..N /\ N \in Nat
      /\ unprocessed \in Nat /\ received \in Nat /\ ptr \in Nat
  BY CountType DEF FrameInv, TypeOK, DispatchedInOrder, Done
<1>2. s \in Nat
  BY SizeType, CapacityType DEF SizeRead
<1>3. H <= unprocessed /\ F + 1 \in 1..unprocessed
  BY <1>1, <1>2, HeaderType
<1>4. Start[Done + 1] \in Nat /\ Start[sent + 1] \in Nat
  BY <1>1, StartType
<1>5. Start[Done + 1] < Start[sent + 1]
  BY <1>1, <1>3, <1>4, HeaderType DEF FrameInv, BufferInv
<1>6. Done < sent /\ Done + 1 \in 1..N
  BY <1>1, <1>4, <1>5
<1>7. buffer[ptr + F + 1] = Start[Done + 1] + F + 1
  <2>1. buffer[ptr + (F + 1)] = Start[Done + 1] + (F + 1)
    BY <1>3 DEF FrameInv, BufferInv
  <2>2. ptr + (F + 1) = ptr + F + 1 /\ Start[Done + 1] + (F + 1) = Start[Done + 1] + F + 1
    BY <1>1, <1>4, HeaderType
  <2>3. QED
    BY <2>1, <2>2
<1>8. ptr + F + 1 \in 1..Capacity
  BY <1>1, <1>3, HeaderType, CapacityType DEF FrameInv, BufferInv
<1>9. IsHeaderByte(ptr + F + 1, F + 1)
  <2>1. Start[Done + 1] + F + 1 = Start[Done + 1] + (F + 1)
    BY <1>4, HeaderType
  <2>2. QED
    BY <1>6, <1>7, <1>8, <2>1 DEF IsHeaderByte
<1>10. PICK m \in 1..N : s = Size[m] /\ buffer[ptr + F + 1] = Start[m] + F + 1
  BY <1>9 DEF SizeRead
<1>11. Start[m] = Start[Done + 1]
  <2>1. Start[m] \in Nat
    BY <1>1, StartType
  <2>2. QED
    BY <1>4, <1>7, <1>10, <2>1, HeaderType
<1>12. m = Done + 1
  <2>1. m \in 1..(N + 1) /\ Done + 1 \in 1..(N + 1) /\ m \in Nat /\ Done + 1 \in Nat
    BY <1>1, <1>6
  <2>2. m < Done + 1 => Start[m] < Start[Done + 1]
    BY <2>1, StartType
  <2>3. Done + 1 < m => Start[Done + 1] < Start[m]
    BY <2>1, StartType
  <2>4. QED
    BY <1>4, <1>11, <2>1, <2>2, <2>3
<1>13. QED
  BY <1>6, <1>10, <1>12

\* The initial state.
LEMMA InitInv == Init => FrameInv
<1>. SUFFICES ASSUME Init PROVE FrameInv
  OBVIOUS
<1>1. TypeOK
  BY CountType DEF Init, TypeOK, Running
<1>2. sent + 1 = 1 /\ Done + 1 = 1 /\ Start[1] = 0
  BY StartType DEF Init, Done
<1>3. received <= Start[sent + 1]
  BY <1>2 DEF Init
<1>4. DispatchedInOrder
  BY DEF Init, DispatchedInOrder
<1>5. HandshakeInv
  BY DEF Init, HandshakeInv
<1>6. BufferInv
  BY <1>2, CapacityType DEF Init, BufferInv
<1>7. QED
  BY <1>1, <1>3, <1>4, <1>5, <1>6 DEF FrameInv

\* A send touches nothing of the receiver.
LEMMA SendInv == ASSUME WellBehaved, FrameInv, Send PROVE FrameInv'
<1>1. /\ UNCHANGED <<open, received, buffer, ptr, unprocessed, pc, dispatched>>
      /\ sent' = sent + 1
  BY DEF Send
<1>2. sent \in 0..N /\ N \in Nat /\ sent < N
  BY CountType DEF FrameInv, TypeOK, Send
<1>3. sent + 1 \in 0..N
  BY <1>2
<1>4. TypeOK'
  BY <1>1, <1>3 DEF FrameInv, TypeOK
<1>5. received <= Start[sent + 1 + 1]
  <2>1. sent + 1 \in 1..(N + 1) /\ sent + 1 + 1 \in 1..(N + 1) /\ sent + 1 < sent + 1 + 1
    BY <1>2
  <2>2. /\ Start[sent + 1] < Start[sent + 1 + 1]
        /\ Start[sent + 1] \in Nat /\ Start[sent + 1 + 1] \in Nat
    BY <2>1, StartType
  <2>3. received \in Nat /\ received <= Start[sent + 1]
    BY DEF FrameInv, TypeOK
  <2>4. QED
    BY <2>2, <2>3
<1>6. DispatchedInOrder'
  <2>1. Len(dispatched) \in Nat /\ Len(dispatched) <= sent
    BY DEF FrameInv, TypeOK, DispatchedInOrder
  <2>2. Len(dispatched) <= sent + 1
    BY <1>2, <2>1
  <2>3. QED
    BY <1>1, <2>2 DEF FrameInv, DispatchedInOrder, Bytes
<1>7. HandshakeInv'
  <2>1. pc = "handshake" => Handshake /\ sent = 0
    BY DEF Send, WellBehaved, FrameInv, HandshakeInv
  <2>2. pc = "handshake" => sent + 1 <= 1
    BY <2>1
  <2>3. QED
    BY <1>1, <2>2 DEF FrameInv, HandshakeInv
<1>8. BufferInv'
  BY <1>1 DEF FrameInv, BufferInv, Done
<1>9. QED
  BY <1>1, <1>4, <1>5, <1>6, <1>7, <1>8 DEF FrameInv

\* A peer that hangs up keeps FrameInv.
LEMMA HangupInv == ASSUME FrameInv, Hangup PROVE FrameInv'
<1>1. /\ UNCHANGED <<sent, received, buffer, ptr, unprocessed, pc, dispatched>>
      /\ open' \in BOOLEAN
  BY DEF Hangup
<1>2. TypeOK' /\ DispatchedInOrder'
  BY <1>1 DEF FrameInv, TypeOK, DispatchedInOrder, Bytes
<1>3. HandshakeInv' /\ BufferInv'
  BY <1>1 DEF FrameInv, HandshakeInv, BufferInv, Done
<1>4. QED
  BY <1>1, <1>2, <1>3 DEF FrameInv

\* The handshake takes the whole first message and, since the peer is not
\* ahead, nothing else.
LEMMA ReadHandshakeInv ==
    ASSUME FrameInv, NEW k \in 1..OnWire, ReadHandshake(k) PROVE FrameInv'
<1>1. /\ pc = "handshake"
      /\ received' = received + k
      /\ UNCHANGED <<sent, open, buffer, ptr, unprocessed>>
  BY DEF ReadHandshake
<1>2. /\ sent <= 1 /\ sent \in 0..N /\ N \in Nat
      /\ received = 0 /\ ptr = 0 /\ unprocessed = 0 /\ dispatched = <<>>
  BY <1>1, CountType DEF FrameInv, TypeOK, HandshakeInv
<1>3. sent + 1 \in 1..(N + 1) /\ Start[sent + 1] \in Nat /\ Start[1] = 0
  BY <1>2, StartType
<1>4. k \in Nat /\ k >= 1 /\ k <= Start[sent + 1]
  BY <1>2, <1>3 DEF OnWire
<1>5. sent = 1
  BY <1>2, <1>3, <1>4
<1>6. 1 \in 1..N /\ Start[2] = H + Size[1] /\ Size[1] \in Nat
  <2>1. 1 \in 1..N /\ Start[1 + 1] = Start[1] + H + Size[1] /\ 1 + 1 = 2
    BY <1>2, <1>5, StartType
  <2>2. QED
    BY <1>3, <2>1, SizeType, HeaderType
<1>7. received' \in Nat /\ received' <= Start[sent' + 1]
  BY <1>1, <1>2, <1>4
<1>8. CASE k < H + Size[1]
  <2>1. pc' = "ended" /\ dispatched' = dispatched
    BY <1>8 DEF ReadHandshake
  <2>2. TypeOK'
    BY <1>1, <1>7, <2>1 DEF FrameInv, TypeOK, Stopped
  <2>3. DispatchedInOrder'
    BY <1>1, <2>1 DEF FrameInv, DispatchedInOrder, Bytes
  <2>4. HandshakeInv' /\ BufferInv'
    BY <2>1 DEF HandshakeInv, BufferInv
  <2>5. QED
    BY <1>7, <2>2, <2>3, <2>4 DEF FrameInv
<1>9. CASE ~(k < H + Size[1])
  <2>1. pc' = "loop" /\ dispatched' = <<Bytes(1)>>
    BY <1>9 DEF ReadHandshake
  <2>2. k = H + Size[1]
    BY <1>4, <1>5, <1>6, <1>9, HeaderType
  <2>3. Bytes(1) \in Seq(Nat)
    BY <1>6, StartType, HeaderType DEF Bytes
  <2>4. TypeOK'
    BY <1>1, <1>7, <2>1, <2>3 DEF FrameInv, TypeOK, Running
  <2>5. Len(dispatched') = 1 /\ dispatched'[1] = Bytes(1)
    BY <2>1
  <2>6. DispatchedInOrder'
    BY <1>1, <1>5, <2>5 DEF DispatchedInOrder, Bytes
  <2>7. HandshakeInv'
    BY <2>1 DEF HandshakeInv
  <2>8. BufferInv'
    <3>1. Done' + 1 = 2 /\ received' = Start[2]
      BY <1>1, <1>2, <1>6, <2>2, <2>5 DEF Done
    <3>2. QED
      BY <1>1, <1>2, <1>6, <2>1, <3>1, CapacityType, HeaderType DEF BufferInv
  <2>9. QED
    BY <1>7, <2>4, <2>6, <2>7, <2>8 DEF FrameInv
<1>10. QED
  BY <1>8, <1>9

\* The receiver stops.
LEMMA StopInv ==
    ASSUME FrameInv, pc' \in Stopped,
           UNCHANGED <<sent, open, received, buffer, ptr, unprocessed, dispatched>>
    PROVE  FrameInv'
<1>1. TypeOK' /\ HandshakeInv' /\ BufferInv'
  BY DEF FrameInv, TypeOK, Stopped, HandshakeInv, BufferInv
<1>2. QED
  BY <1>1 DEF FrameInv, DispatchedInOrder, Bytes

\* recv puts the next bytes of the stream behind those already in the buffer.
LEMMA ReceiveInv ==
    ASSUME FrameInv, NEW k \in 1..OnWire, Receive(k) PROVE FrameInv'
<1>1. /\ pc = "loop" /\ pc' = "scan" /\ ptr = 0 /\ ptr' = 0
      /\ received' = received + k
      /\ unprocessed' = unprocessed + k
      /\ UNCHANGED <<sent, open, dispatched>>
  BY DEF Receive, FrameInv, BufferInv
<1>2. /\ sent \in 0..N /\ N \in Nat
      /\ received \in Nat /\ unprocessed \in Nat
      /\ Capacity \in Nat /\ Reserve \in Nat
      /\ Done \in 0..N
  BY CountType, CapacityType DEF FrameInv, TypeOK, DispatchedInOrder, Done
<1>3. Start[sent + 1] \in Nat /\ Start[Done + 1] \in Nat
  BY <1>2, StartType
<1>4. /\ k \in Nat /\ k >= 1
      /\ received + k <= Start[sent + 1]
      /\ unprocessed + k <= Capacity
  BY <1>2, <1>3 DEF OnWire, Receive, Available
<1>5. buffer' = [i \in 1..Capacity |->
                    IF i \in (unprocessed + 1)..(unprocessed + k)
                    THEN received + i - unprocessed
                    ELSE buffer[i]]
  BY DEF Receive
<1>6. \A i \in (unprocessed + 1)..(unprocessed + k) : received + i - unprocessed \in Nat
  BY <1>2, <1>4
<1>7. buffer' \in [1..Capacity -> Nat]
  <2>1. \A i \in 1..Capacity : buffer[i] \in Nat
    BY DEF FrameInv, TypeOK
  <2>2. QED
    BY <1>5, <1>6, <2>1
<1>8. received + k \in Nat /\ unprocessed + k \in Nat
  BY <1>2, <1>4
<1>9. TypeOK'
  BY <1>1, <1>7, <1>8 DEF FrameInv, TypeOK, Running
<1>10. DispatchedInOrder'
  BY <1>1 DEF FrameInv, DispatchedInOrder, Bytes
<1>11. HandshakeInv'
  BY <1>1 DEF HandshakeInv
<1>12. BufferInv'
  <2>1. received = Start[Done + 1] + unprocessed
    BY <1>1 DEF FrameInv, BufferInv
  <2>2. received + k = Start[Done + 1] + (unprocessed + k)
    BY <1>2, <1>3, <1>4, <2>1
  <2>3. \A i \in 1..unprocessed : buffer[i] = Start[Done + 1] + i
    <3>1. \A i \in 1..unprocessed : buffer[0 + i] = Start[Done + 1] + i /\ 0 + i = i
      BY <1>1, <1>2 DEF FrameInv, BufferInv
    <3>2. QED
      BY <3>1
  <2>4. ASSUME NEW i \in 1..(unprocessed + k)
        PROVE  buffer'[i] = Start[Done + 1] + i
    <3>1. i \in 1..Capacity
      BY <1>2, <1>4
    <3>2. CASE i \in (unprocessed + 1)..(unprocessed + k)
      <4>1. buffer'[i] = received + i - unprocessed
        BY <1>5, <3>1, <3>2
      <4>2. received + i - unprocessed = Start[Done + 1] + i
        BY <1>2, <1>3, <2>1
      <4>3. QED
        BY <4>1, <4>2
    <3>3. CASE i \in 1..unprocessed
      <4>1. i \notin (unprocessed + 1)..(unprocessed + k)
        BY <1>2, <3>3
      <4>2. buffer'[i] = buffer[i]
        BY <1>5, <3>1, <4>1
      <4>3. QED
        BY <2>3, <3>3, <4>2
    <3>4. QED
      BY <1>2, <1>4, <3>2, <3>3
  <2>5. \A i \in 1..(unprocessed + k) : 0 + i = i
    BY <1>2, <1>4
  <2>6. 0 + (unprocessed + k) <= Capacity
    BY <1>2, <1>4
  <2>7. \A i \in 1..(unprocessed + k) : buffer'[0 + i] = Start[Done + 1] + i
    BY <2>4, <2>5
  <2>8. Done' = Done
    BY <1>1 DEF Done
  <2>9. QED
    BY <1>1, <2>2, <2>6, <2>7, <2>8 DEF BufferInv
<1>13. QED
  BY <1>1, <1>4, <1>9, <1>10, <1>11, <1>12 DEF FrameInv

\* So does the scan for the delimiter.
LEMMA ScanInv == ASSUME FrameInv, Scan PROVE FrameInv'
<1>1. /\ pc = "scan" /\ pc' \in {"parse", "crashed"}
      /\ UNCHANGED <<sent, open, received, buffer, ptr, unprocessed, dispatched>>
  BY DEF Scan
<1>2. CASE pc' = "crashed"
  BY <1>1, <1>2, StopInv DEF Stopped
<1>3. CASE pc' = "parse"
  <2>1. TypeOK' /\ DispatchedInOrder' /\ HandshakeInv'
    BY <1>1, <1>3
       DEF FrameInv, TypeOK, DispatchedInOrder, Bytes, HandshakeInv, Running
  <2>2. BufferInv'
    BY <1>1, <1>3 DEF FrameInv, BufferInv, Done
  <2>3. QED
    BY <1>1, <2>1, <2>2 DEF FrameInv
<1>4. QED
  BY <1>1, <1>2, <1>3

\* What a callback is given is the next message of the peer, whole.
LEMMA DispatchIsNext ==
    ASSUME FrameInv, Dispatch
    PROVE  /\ Done + 1 \in 1..N /\ Done < sent
           /\ dispatched' = Append(dispatched, Bytes(Done + 1))
           /\ H + Size[Done + 1] <= unprocessed
           /\ ptr' = ptr + (H + Size[Done + 1])
           /\ unprocessed' = unprocessed - (H + Size[Done + 1])
<1>1. PICK s \in SizeRead :
        /\ H + s <= unprocessed
        /\ dispatched' = Append(dispatched, [i \in 1..(H + s) |-> buffer[ptr + i]])
        /\ ptr' = ptr + H + s
        /\ unprocessed' = unprocessed - (H + s)
  BY DEF Dispatch
<1>2. pc = "parse"
  BY DEF Dispatch
<1>3. Done + 1 \in 1..N /\ Done < sent /\ s = Size[Done + 1]
  BY <1>1, <1>2, SizeIsNext
<1>4. s \in Nat /\ H \in Nat /\ ptr \in Nat /\ unprocessed \in Nat
  BY <1>3, SizeType, HeaderType DEF FrameInv, TypeOK
<1>5. \A i \in 1..(H + s) : buffer[ptr + i] = Start[Done + 1] + i
  <2>1. \A i \in 1..(H + s) : i \in 1..unprocessed
    BY <1>1, <1>4
  <2>2. QED
    BY <1>2, <2>1 DEF FrameInv, BufferInv
<1>6. [i \in 1..(H + s) |-> buffer[ptr + i]] = Bytes(Done + 1)
  BY <1>3, <1>5 DEF Bytes
<1>7. ptr + H + s = ptr + (H + s)
  BY <1>4
<1>8. QED
  BY <1>1, <1>3, <1>6, <1>7

\* So does a round of extractItemsModifyBuffer.
LEMMA DispatchInv == ASSUME FrameInv, Dispatch PROVE FrameInv'
<1>. DEFINE len == H + Size[Done + 1]
<1>1. /\ Done + 1 \in 1..N /\ Done < sent
      /\ dispatched' = Append(dispatched, Bytes(Done + 1))
      /\ len <= unprocessed
      /\ ptr' = ptr + len
      /\ unprocessed' = unprocessed - len
  BY DispatchIsNext
<1>2. /\ pc = "parse"
      /\ UNCHANGED <<sent, open, received, buffer, pc>>
  BY DEF Dispatch
<1>3. /\ Done \in Nat /\ sent \in Nat /\ ptr \in Nat /\ unprocessed \in Nat
      /\ received \in Nat /\ len \in Nat /\ Capacity \in Nat
      /\ dispatched \in Seq(Seq(Nat))
  <2>1. /\ sent \in Nat /\ ptr \in Nat /\ unprocessed \in Nat /\ received \in Nat
        /\ dispatched \in Seq(Seq(Nat))
    BY CountType DEF FrameInv, TypeOK
  <2>2. Done \in Nat
    BY <2>1 DEF Done
  <2>3. len \in Nat
    <3>1. Done + 1 \in 1..N
      BY DispatchIsNext
    <3>2. Size[Done + 1] \in Nat
      BY <3>1, SizeType
    <3>3. QED
      BY <3>2, HeaderType
  <2>4. QED
    BY <2>1, <2>2, <2>3, CapacityType
<1>4. /\ Start[Done + 1] \in Nat
      /\ Start[Done + 1 + 1] = Start[Done + 1] + len
  <2>1. /\ Start[Done + 1] \in Nat
        /\ Start[Done + 1 + 1] = Start[Done + 1] + H + Size[Done + 1]
    <3>. DEFINE d == Done + 1
    <3>1. d \in 1..N /\ d \in 1..(N + 1)
      BY <1>1, CountType
    <3>. HIDE DEF d, len, FrameInv, Dispatch
    <3>2. Start[d + 1] = Start[d] + H + Size[d]
      BY <3>1, StartType
    <3>3. Start[d] \in Nat
      BY <3>1, StartType
    <3>4. QED
      BY <3>2, <3>3 DEF d
  <2>2. QED
    BY <1>1, <2>1, SizeType, HeaderType
<1>5. Bytes(Done + 1) \in Seq(Nat)
  BY <1>3, <1>4 DEF Bytes
<1>6. /\ Len(dispatched') = Done + 1
      /\ dispatched'[Done + 1] = Bytes(Done + 1)
      /\ \A m \in 1..Done : dispatched'[m] = dispatched[m]
      /\ dispatched' \in Seq(Seq(Nat))
  BY <1>1, <1>3, <1>5 DEF Done
<1>. HIDE DEF len
<1>7. ptr + len \in Nat /\ unprocessed - len \in Nat
  BY <1>1, <1>3
<1>8. TypeOK'
  BY <1>1, <1>2, <1>6, <1>7 DEF FrameInv, TypeOK
<1>9. DispatchedInOrder'
  <2>1. Done + 1 <= sent
    BY <1>1, <1>3
  <2>2. \A m \in 1..(Done + 1) : m \in 1..Done \/ m = Done + 1
    BY <1>3
  <2>3. \A m \in 1..(Done + 1) : dispatched'[m] = Bytes(m)
    BY <1>6, <2>2 DEF FrameInv, DispatchedInOrder, Done
  <2>4. QED
    BY <1>2, <1>6, <2>1, <2>3 DEF DispatchedInOrder, Bytes
<1>10. HandshakeInv'
  BY <1>2 DEF HandshakeInv
<1>11. BufferInv'
  <2>1. /\ received = Start[Done + 1] + unprocessed
        /\ ptr + unprocessed <= Capacity
        /\ \A i \in 1..unprocessed : buffer[ptr + i] = Start[Done + 1] + i
    BY <1>2 DEF FrameInv, BufferInv
  <2>2. received = Start[Done + 1 + 1] + (unprocessed - len)
    BY <1>3, <1>4, <2>1
  <2>3. (ptr + len) + (unprocessed - len) <= Capacity
    BY <1>3, <2>1
  <2>4. ASSUME NEW i \in 1..(unprocessed - len)
        PROVE  buffer[(ptr + len) + i] = Start[Done + 1 + 1] + i
    <3>1. len + i \in 1..unprocessed
      BY <1>3
    <3>2. buffer[ptr + (len + i)] = Start[Done + 1] + (len + i)
      BY <2>1, <3>1
    <3>3. /\ ptr + (len + i) = (ptr + len) + i
          /\ Start[Done + 1] + (len + i) = Start[Done + 1 + 1] + i
      BY <1>3, <1>4
    <3>4. QED
      BY <3>2, <3>3
  <2>5. Done' = Done + 1
    BY <1>6 DEF Done
  <2>6. QED
    BY <1>1, <1>2, <2>2, <2>3, <2>4, <2>5 DEF BufferInv
<1>12. QED
  BY <1>2, <1>8, <1>9, <1>10, <1>11 DEF FrameInv

\* The rest goes to the start of the buffer unchanged.
LEMMA MoveRestInv == ASSUME WellBehaved, FrameInv, MoveRest PROVE FrameInv'
<1>1. /\ pc = "parse" /\ pc' = "loop" /\ ptr' = 0
      /\ UNCHANGED <<sent, open, received, unprocessed, dispatched>>
  BY DEF MoveRest
<1>2. buffer' = [i \in 1..Capacity |->
                    IF i <= unprocessed THEN buffer[ptr + i] ELSE buffer[i]]
  BY DEF MoveRest, Copies, Moved, Ascending, WellBehaved
<1>3. /\ ptr \in Nat /\ unprocessed \in Nat /\ Capacity \in Nat
      /\ ptr + unprocessed <= Capacity
  BY <1>1, CapacityType DEF FrameInv, TypeOK, BufferInv
<1>4. \A i \in 1..unprocessed : ptr + i \in 1..Capacity /\ i \in 1..Capacity
  BY <1>3
<1>5. \A i \in 1..Capacity : i <= unprocessed => i \in 1..unprocessed
  BY <1>3
<1>6. \A i \in 1..Capacity : buffer'[i] \in Nat
  BY <1>2, <1>4, <1>5 DEF FrameInv, TypeOK
<1>7. TypeOK'
  BY <1>1, <1>2, <1>6 DEF FrameInv, TypeOK, Running
<1>8. DispatchedInOrder' /\ HandshakeInv'
  BY <1>1 DEF FrameInv, DispatchedInOrder, Bytes, HandshakeInv
<1>9. BufferInv'
  <2>1. \A i \in 1..unprocessed : i <= unprocessed /\ 0 + i = i
    BY <1>3
  <2>2. \A i \in 1..unprocessed : buffer'[i] = buffer[ptr + i]
    BY <1>2, <1>4, <2>1
  <2>3. \A i \in 1..unprocessed : buffer'[0 + i] = Start[Done + 1] + i
    BY <1>1, <2>1, <2>2 DEF FrameInv, BufferInv
  <2>4. 0 + unprocessed <= Capacity
    BY <1>3
  <2>5. Done' = Done
    BY <1>1 DEF Done
  <2>6. QED
    BY <1>1, <2>3, <2>4, <2>5 DEF FrameInv, BufferInv
<1>10. QED
  BY <1>1, <1>7, <1>8, <1>9 DEF FrameInv

-----------------------------------------------------------------------------
(* Theorems of the specification.                                          *)

\* FrameInv is inductive.
LEMMA StepInv == ASSUME WellBehaved, FrameInv, [Next]_vars PROVE FrameInv'
<1>1. CASE Send
  BY <1>1, SendInv
<1>2. CASE Hangup
  BY <1>2, HangupInv
<1>3. CASE DropHandshake
  BY <1>3, StopInv DEF DropHandshake, Stopped
<1>4. ASSUME NEW k \in 1..OnWire, ReadHandshake(k) PROVE FrameInv'
  BY <1>4, ReadHandshakeInv
<1>5. CASE Disconnect \/ Overflow
  BY <1>5, StopInv DEF Disconnect, Overflow, Stopped
<1>6. ASSUME NEW k \in 1..OnWire, Receive(k) PROVE FrameInv'
  BY <1>6, ReceiveInv
<1>7. CASE Scan
  BY <1>7, ScanInv
<1>8. CASE Dispatch
  BY <1>8, DispatchInv
<1>9. CASE MoveRest
  BY <1>9, MoveRestInv
<1>10. CASE UNCHANGED vars
  <2>1. UNCHANGED <<sent, open, received, buffer, ptr, unprocessed, pc, dispatched>>
    BY <1>10 DEF vars
  <2>2. TypeOK' /\ DispatchedInOrder'
    BY <2>1 DEF FrameInv, TypeOK, DispatchedInOrder, Bytes
  <2>3. HandshakeInv' /\ BufferInv'
    BY <2>1 DEF FrameInv, HandshakeInv, BufferInv, Done
  <2>4. QED
    BY <2>1, <2>2, <2>3 DEF FrameInv
<1>11. QED
  BY <1>1, <1>2, <1>3, <1>4, <1>5, <1>6, <1>7, <1>8, <1>9, <1>10 DEF Next

\* FrameInv holds in every reachable state.
THEOREM Invariance == ASSUME WellBehaved PROVE Spec => []FrameInv
<1>1. FrameInv /\ [Next]_vars => FrameInv'
  BY StepInv
<1>2. QED
  BY <1>1, InitInv, PTL DEF Spec

\* Every variable keeps its type.
THEOREM TypeCorrect == ASSUME WellBehaved PROVE Spec => []TypeOK
<1>1. FrameInv => TypeOK
  BY DEF FrameInv
<1>2. QED
  BY <1>1, Invariance, PTL

\* The callbacks see every message whole and in order, wherever the stream is
\* cut.
THEOREM MessagesInOrder == ASSUME WellBehaved PROVE Spec => []DispatchedInOrder
<1>1. FrameInv => DispatchedInOrder
  BY DEF FrameInv
<1>2. QED
  BY <1>1, Invariance, PTL

\* Moving the rest inside one buffer keeps exactly the bytes received and not
\* yet handed on.
THEOREM RestIsKept == ASSUME WellBehaved PROVE Spec => []LeftoverMoved
<1>1. FrameInv => LeftoverMoved
  <2>. SUFFICES ASSUME FrameInv, pc = "loop"
                PROVE  /\ unprocessed <= Capacity
                       /\ \A i \in 1..unprocessed :
                            buffer[i] = received - unprocessed + i
    BY DEF LeftoverMoved
  <2>1. /\ received = Start[Done + 1] + unprocessed /\ ptr = 0
        /\ 0 + unprocessed <= Capacity
        /\ \A i \in 1..unprocessed : buffer[0 + i] = Start[Done + 1] + i
    BY DEF FrameInv, BufferInv
  <2>2. unprocessed \in Nat /\ received \in Nat /\ Start[Done + 1] \in Nat
    BY CountType, StartType DEF FrameInv, TypeOK, DispatchedInOrder, Done
  <2>3. \A i \in 1..unprocessed :
            0 + i = i /\ Start[Done + 1] + i = received - unprocessed + i
    BY <2>1, <2>2
  <2>4. QED
    BY <2>1, <2>2, <2>3
<1>2. QED
  BY <1>1, Invariance, PTL

\* A connection is a channel: every step of the receiver offers or delivers the
\* next message, ends the channel, or is invisible to the callbacks.
THEOREM ConnectionIsChannel == ASSUME WellBehaved PROVE Spec => ImplementsChannel
<1>. DEFINE Message == [m \in 1..N |-> Bytes(m)]
<1>1. Len(Message) = N /\ \A m \in 1..N : Message[m] = Bytes(m)
  BY CountType
<1>2. Init => Peer!Init
  BY DEF Init, Peer!Init, Stopped
<1>3. FrameInv /\ [Next]_vars => [Peer!Next]_Peer!vars
  <2>. SUFFICES ASSUME FrameInv, [Next]_vars PROVE [Peer!Next]_Peer!vars
    OBVIOUS
  <2>. USE DEF Peer!Next, Peer!vars
  <2>1. CASE Send
    BY <1>1, <2>1 DEF Send, Peer!Offer
  <2>2. ASSUME UNCHANGED <<sent, dispatched>>, pc \in Running, pc' \in Running
        PROVE  [Peer!Next]_Peer!vars
    BY <2>2 DEF Running, Stopped
  <2>3. ASSUME UNCHANGED <<sent, dispatched>>, pc' \in Stopped
        PROVE  [Peer!Next]_Peer!vars
    BY <2>3 DEF Peer!End
  <2>4. CASE UNCHANGED vars \/ Hangup
    BY <2>4 DEF vars, Hangup
  <2>5. CASE DropHandshake \/ Disconnect \/ Overflow
    BY <2>3, <2>5 DEF DropHandshake, Disconnect, Overflow, Stopped
  <2>6. CASE MoveRest
    BY <2>2, <2>6 DEF MoveRest, Running
  <2>7. CASE Scan
    BY <2>2, <2>3, <2>7 DEF Scan, Running, Stopped
  <2>8. ASSUME NEW k \in 1..OnWire, Receive(k)
        PROVE  [Peer!Next]_Peer!vars
    BY <2>2, <2>8 DEF Receive, Running
  <2>9. CASE Dispatch
    <3>1. /\ Done + 1 \in 1..N /\ Done < sent
          /\ dispatched' = Append(dispatched, Bytes(Done + 1))
      BY <2>9, DispatchIsNext
    <3>2. pc = "parse" /\ pc' = pc /\ sent' = sent
      BY <2>9 DEF Dispatch
    <3>3. QED
      BY <1>1, <3>1, <3>2 DEF Peer!Deliver, Stopped, Done
  <2>10. ASSUME NEW k \in 1..OnWire, ReadHandshake(k)
         PROVE  [Peer!Next]_Peer!vars
    <3>1. pc = "handshake" /\ sent' = sent
      BY <2>10 DEF ReadHandshake
    <3>2. CASE k < H + Size[1]
      BY <2>3, <2>10, <3>2 DEF ReadHandshake, Stopped
    <3>3. CASE ~(k < H + Size[1])
      <4>1. pc' = "loop" /\ dispatched' = <<Bytes(1)>>
        BY <2>10, <3>3 DEF ReadHandshake
      <4>2. dispatched = <<>> /\ sent <= 1 /\ sent \in Nat /\ received = 0
        BY <3>1 DEF FrameInv, HandshakeInv, TypeOK
      <4>3. sent # 0
        <5>1. Start[1] = 0 /\ 0 + 1 = 1
          BY StartType
        <5>2. QED
          BY <4>2, <5>1 DEF OnWire
      <4>4. sent = 1 /\ 1 \in 1..N
        BY <4>2, <4>3, CountType DEF FrameInv, TypeOK
      <4>5. /\ Len(dispatched) = 0
            /\ dispatched' = Append(dispatched, Message[Len(dispatched) + 1])
        BY <1>1, <4>1, <4>2, <4>4
      <4>6. QED
        BY <3>1, <4>1, <4>4, <4>5 DEF Peer!Deliver, Stopped
    <3>4. QED
      BY <3>2, <3>3
  <2>11. QED
    BY <2>1, <2>4, <2>5, <2>6, <2>7, <2>8, <2>9, <2>10 DEF Next
<1>4. QED
  BY <1>2, <1>3, Invariance, PTL DEF Spec, ImplementsChannel, Peer!Spec
=============================================================================
