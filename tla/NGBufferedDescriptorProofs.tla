-------------------- MODULE NGBufferedDescriptorProofs --------------------
(***************************************************************************)
(* Proofs about NGBufferedDescriptor.tla for every buffer size: both       *)
(* directions of the stream keep their order, and the calls that report    *)
(* success moved what they were asked to move; none loops without moving.  *)
(***************************************************************************)
EXTENDS NGBufferedDescriptor, TLAPS

\* The read buffer holds the bytes between the caller's and the socket's.
BufferFollows ==
    ~crashed =>
      /\ Len(delivered) + readBufferFillSize = taken + readBufferPos
      /\ \A p \in Places : p > readBufferPos /\ p <= readBufferFillSize
            => readBuffer[p] = Len(delivered) + (p - readBufferPos)

\* What a read call has delivered and what it still wants add up.
ReadProgress ==
    call \in {"read", "safeRead"} =>
        toGo > 0 /\ Len(delivered) + toGo = mark + asked

\* Bytes of the write buffer that write() has not seen.
pending == IF call = "write" THEN writeBufferFillSize ELSE writeBufferFillSize - pos

\* Where in the write buffer the calls stand.
WritePlaces ==
    /\ call = "write" => pos + writeBufferFillSize <= Size
    /\ flushing => pos + toGo = writeBufferFillSize
    /\ call \notin {"write", "flush", "free"} => pos = 0

\* The write buffer holds the bytes between the wire's and the caller's.
WireFollows ==
    failures = 0 =>
      /\ Len(onWire) + pending = accepted
      /\ \A p \in Places : p > pos /\ p <= pos + pending
            => writeBuffer[p] = Len(onWire) + (p - pos)

\* Inductive: types, and the two halves of the stream.
IInv ==
    /\ TypeOK /\ WritePlaces
    /\ ReadsInOrder /\ BufferFollows /\ ReadProgress /\ SafeReadExact
    /\ WireInOrder /\ WireFollows /\ FlushedMeansSent

-----------------------------------------------------------------------------
(* A block of bytes at the end of a stream                                 *)

LEMMA BlockAppended ==
    ASSUME NEW s \in Seq(Nat), NEW n \in Nat, NEW f \in [1..n -> Nat]
    PROVE  /\ s \o f \in Seq(Nat)
           /\ Len(s \o f) = Len(s) + n
           /\ \A k \in 1..(Len(s) + n) :
                (s \o f)[k] = IF k <= Len(s) THEN s[k] ELSE f[k - Len(s)]
<1>1. f \in Seq(Nat) /\ Len(f) = n
  OBVIOUS
<1>2. PICK g \in Seq(Nat) : g = f /\ Len(g) = n
  BY <1>1, Zenon
<1>3. /\ s \o g \in Seq(Nat) /\ Len(s \o g) = Len(s) + Len(g)
      /\ \A k \in 1..(Len(s) + Len(g)) :
           (s \o g)[k] = IF k <= Len(s) THEN s[k] ELSE g[k - Len(s)]
  OBVIOUS
<1>4. QED
  BY <1>2, <1>3, Zenon

LEMMA StreamContinued ==
    ASSUME NEW s \in Seq(Nat), NEW n \in Nat, NEW f \in [1..n -> Nat],
           \A k \in 1..Len(s) : s[k] = k,
           \A k \in 1..n : f[k] = Len(s) + k
    PROVE  \A k \in 1..Len(s \o f) : (s \o f)[k] = k
<1>1. Len(s) \in Nat
  OBVIOUS
<1> SUFFICES ASSUME NEW k \in 1..(Len(s) + n) PROVE (s \o f)[k] = k
  BY BlockAppended
<1>2. CASE k <= Len(s)
  BY <1>1, <1>2, BlockAppended
<1>3. CASE k > Len(s)
  <2>1. k - Len(s) \in 1..n
    BY <1>1, <1>3
  <2>2. QED
    BY <1>1, <1>3, <2>1, BlockAppended
<1>4. QED
  BY <1>1, <1>2, <1>3

-----------------------------------------------------------------------------
(* Reading preserves the invariant                                         *)

\* memcpy() out of a buffer that continues the stream.
LEMMA DeliverContinues ==
    ASSUME IInv, NEW buffer \in [Places -> Nat], NEW offset \in 0..Size,
           NEW fill \in 0..Size, NEW n \in Nat, n > 0, offset + n <= fill,
           \A p \in Places : p > offset /\ p <= fill
                => buffer[p] = Len(delivered) + (p - offset),
           Deliver(buffer, offset, fill, n)
    PROVE  /\ delivered' \in Seq(Nat) /\ Len(delivered') = Len(delivered) + n
           /\ ReadsInOrder'
           /\ readBuffer' \in [Places -> Nat]
           /\ readBufferPos' \in 0..Size /\ readBufferFillSize' \in 0..Size
           /\ readBufferPos' <= readBufferFillSize'
           /\ readBufferFillSize' = readBufferPos' => readBufferPos' = 0
           /\ \/ readBufferPos' = 0 /\ readBufferFillSize' = 0 /\ offset + n = fill
              \/ readBufferPos' = offset + n /\ readBufferFillSize' = fill
           /\ \A p \in Places : p > readBufferPos' /\ p <= readBufferFillSize'
                => readBuffer'[p] = Len(delivered') + (p - readBufferPos')
<1> DEFINE f == [k \in 1..n |-> buffer[offset + k]]
<1>1. Len(delivered) \in Nat /\ delivered \in Seq(Nat) /\ Size \in Nat
  BY SizeAssumption DEF IInv, TypeOK
<1>2. f \in [1..n -> Nat] /\ \A k \in 1..n : f[k] = Len(delivered) + k
  <2> SUFFICES ASSUME NEW k \in 1..n
               PROVE  buffer[offset + k] \in Nat /\ buffer[offset + k] = Len(delivered) + k
    OBVIOUS
  <2>1. offset + k \in Places /\ offset + k > offset /\ offset + k <= fill
    BY <1>1 DEF Places
  <2>2. QED
    BY <2>1, <1>1
<1>3. delivered' = delivered \o f
  BY DEF Deliver
<1> HIDE DEF f
<1>4. delivered' \in Seq(Nat) /\ Len(delivered') = Len(delivered) + n
  BY <1>1, <1>2, <1>3, BlockAppended
<1>5. ReadsInOrder'
  BY <1>1, <1>2, <1>3, StreamContinued DEF IInv, ReadsInOrder
<1>6. readBuffer' = buffer
  BY DEF Deliver
<1>7. CASE offset + n = fill
  <2>1. readBufferPos' = 0 /\ readBufferFillSize' = 0
    BY <1>7 DEF Deliver
  <2>2. QED
    BY <1>1, <1>4, <1>5, <1>6, <1>7, <2>1 DEF Places
<1>8. CASE offset + n # fill
  <2>1. readBufferPos' = offset + n /\ readBufferFillSize' = fill
    BY <1>8 DEF Deliver
  <2>2. QED
    BY <1>1, <1>4, <1>5, <1>6, <1>8, <2>1 DEF Places
<1>9. QED
  BY <1>7, <1>8

LEMMA ReturnTypes ==
    ASSUME call \in Calls, NEW ok \in BOOLEAN, Return(ok)
    PROVE  /\ call' \in Calls /\ toGo' \in Nat
           /\ last' \in [call : Calls, ok : BOOLEAN]
<1>1. last' = [call |-> call, ok |-> ok]
  BY DEF Return
<1>2. last' \in [call : Calls, ok : BOOLEAN]
  BY <1>1, Zenon
<1>3. QED
  BY <1>2 DEF Return, Calls

\* The rest of the invariant when a read call has delivered n bytes.
LEMMA ReadContinues ==
    ASSUME IInv, NEW n \in Nat, n > 0, n <= toGo, call \in {"read", "safeRead"},
           Continue(n), Len(delivered') = Len(delivered) + n,
           UNCHANGED <<asked, mark, writeVars>>
    PROVE  /\ call' \in Calls /\ toGo' \in Nat
           /\ last' \in [call : Calls, ok : BOOLEAN]
           /\ ReadProgress' /\ SafeReadExact'
           /\ WritePlaces' /\ WireInOrder' /\ WireFollows' /\ FlushedMeansSent'
<1>1. Len(delivered) \in Nat /\ toGo \in Nat /\ mark \in Nat /\ asked \in Nat
  BY DEF IInv, TypeOK
<1>2. pos = 0 /\ pos' = 0 /\ call' \notin {"write", "flush", "free"}
  BY DEF IInv, WritePlaces, Continue, Return, writeVars
<1>3. call' \in Calls /\ toGo' \in Nat /\ last' \in [call : Calls, ok : BOOLEAN]
  <2>1. CASE call = "safeRead" /\ n < toGo
    BY <1>1, <2>1 DEF IInv, TypeOK, Continue
  <2>2. CASE ~(call = "safeRead" /\ n < toGo)
    BY <2>2, ReturnTypes DEF IInv, TypeOK, Continue
  <2>3. QED
    BY <2>1, <2>2
<1>4. Len(delivered) + toGo = mark + asked
  BY DEF IInv, ReadProgress
<1>5. ReadProgress'
  BY <1>1, <1>4 DEF ReadProgress, Continue, Return
<1>6. SafeReadExact'
  BY <1>1, <1>4 DEF SafeReadExact, Continue, Return
<1>7. WritePlaces' /\ WireInOrder' /\ WireFollows'
  BY <1>2 DEF IInv, WritePlaces, flushing, WireInOrder, WireFollows, pending, writeVars
<1>8. FlushedMeansSent'
  BY DEF FlushedMeansSent, Continue, Return
<1>9. QED
  BY <1>3, <1>5, <1>6, <1>7, <1>8

LEMMA ReadFromBufferStep == IInv /\ ReadFromBuffer => IInv'
<1> SUFFICES ASSUME IInv, ReadFromBuffer PROVE IInv'
  OBVIOUS
<1> DEFINE n == least(available, toGo)
<1>1. /\ call \in {"read", "safeRead"} /\ ~crashed /\ available > 0
      /\ Deliver(readBuffer, readBufferPos, readBufferFillSize, n) /\ Continue(n)
      /\ UNCHANGED <<taken, ended, crashed, asked, mark, writeVars>>
  BY DEF ReadFromBuffer
<1>2. /\ TypeOK /\ BufferFollows /\ toGo > 0
      /\ Size \in Nat /\ readBufferFillSize \in 0..Size /\ readBufferPos \in 0..Size
      /\ Len(delivered) \in Nat /\ taken \in Nat
  BY <1>1, SizeAssumption DEF IInv, TypeOK, ReadProgress
<1>3. n \in Nat /\ n > 0 /\ n <= toGo /\ readBufferPos + n <= readBufferFillSize
  BY <1>1, <1>2 DEF least, available, TypeOK
<1> HIDE DEF n
<1>4. /\ delivered' \in Seq(Nat) /\ Len(delivered') = Len(delivered) + n
      /\ ReadsInOrder'
      /\ readBuffer' \in [Places -> Nat]
      /\ readBufferPos' \in 0..Size /\ readBufferFillSize' \in 0..Size
      /\ readBufferPos' <= readBufferFillSize'
      /\ readBufferFillSize' = readBufferPos' => readBufferPos' = 0
      /\ \/ /\ readBufferPos' = 0 /\ readBufferFillSize' = 0
            /\ readBufferPos + n = readBufferFillSize
         \/ readBufferPos' = readBufferPos + n /\ readBufferFillSize' = readBufferFillSize
      /\ \A p \in Places : p > readBufferPos' /\ p <= readBufferFillSize'
           => readBuffer'[p] = Len(delivered') + (p - readBufferPos')
  BY <1>1, <1>2, <1>3, DeliverContinues DEF TypeOK, BufferFollows
<1>5. BufferFollows'
  <2>1. Len(delivered) + readBufferFillSize = taken + readBufferPos
    BY <1>1, <1>2 DEF BufferFollows
  <2>2. Len(delivered') + readBufferFillSize' = taken' + readBufferPos'
    <3>1. /\ readBufferFillSize \in Int /\ readBufferPos \in Int /\ n \in Int
          /\ taken \in Int /\ taken' = taken
          /\ Len(delivered) \in Int /\ Len(delivered') = Len(delivered) + n
      BY <1>1, <1>2, <1>3, <1>4
    <3>2. CASE /\ readBufferPos' = 0 /\ readBufferFillSize' = 0
               /\ readBufferPos + n = readBufferFillSize
      BY <3>1, <3>2, <2>1
    <3>3. CASE readBufferPos' = readBufferPos + n /\ readBufferFillSize' = readBufferFillSize
      BY <3>1, <3>3, <2>1
    <3>4. QED
      BY <1>4, <3>2, <3>3
  <2>3. QED
    BY <1>4, <2>2 DEF BufferFollows
<1>6. /\ call' \in Calls /\ toGo' \in Nat /\ last' \in [call : Calls, ok : BOOLEAN]
      /\ ReadProgress' /\ SafeReadExact'
      /\ WritePlaces' /\ WireInOrder' /\ WireFollows' /\ FlushedMeansSent'
  BY <1>1, <1>3, <1>4, ReadContinues
<1>7. TypeOK'
  BY <1>1, <1>2, <1>4, <1>6 DEF TypeOK, writeVars
<1>8. QED
  BY <1>4, <1>5, <1>6, <1>7 DEF IInv

LEMMA ReadAroundBufferStep ==
    ASSUME IInv, NEW n \in 1..MaxLen, ReadAroundBuffer(n)
    PROVE  IInv'
<1> DEFINE f == [k \in 1..n |-> taken + k]
<1>1. /\ onSocket /\ n \in 1..toGo /\ Continue(n)
      /\ taken' = taken + n /\ delivered' = delivered \o f
      /\ UNCHANGED <<readBuffer, readBufferPos, readBufferFillSize, ended, crashed, asked,
                     mark, writeVars>>
  BY DEF ReadAroundBuffer
<1>2. /\ TypeOK /\ BufferFollows /\ call \in {"read", "safeRead"} /\ ~crashed
      /\ available = 0 /\ taken \in Nat /\ toGo \in Nat /\ n \in Nat /\ n > 0 /\ n <= toGo
      /\ Len(delivered) \in Nat /\ delivered \in Seq(Nat) /\ Len(delivered) = taken
  BY <1>1 DEF IInv, TypeOK, onSocket, available, BufferFollows
<1>3. f \in [1..n -> Nat] /\ \A k \in 1..n : f[k] = Len(delivered) + k
  BY <1>2
<1> HIDE DEF f
<1>4. delivered' \in Seq(Nat) /\ Len(delivered') = Len(delivered) + n /\ ReadsInOrder'
  BY <1>1, <1>2, <1>3, BlockAppended, StreamContinued DEF IInv, ReadsInOrder
<1>5. BufferFollows'
  BY <1>1, <1>2, <1>4 DEF BufferFollows, TypeOK, Places
<1>6. /\ call' \in Calls /\ toGo' \in Nat /\ last' \in [call : Calls, ok : BOOLEAN]
      /\ ReadProgress' /\ SafeReadExact'
      /\ WritePlaces' /\ WireInOrder' /\ WireFollows' /\ FlushedMeansSent'
  BY <1>1, <1>2, <1>4, ReadContinues
<1>7. TypeOK'
  BY <1>1, <1>2, <1>4, <1>6 DEF TypeOK, writeVars
<1>8. QED
  BY <1>4, <1>5, <1>6, <1>7 DEF IInv

LEMMA RefillStep ==
    ASSUME IInv, NEW n \in 1..MaxLen, Refill(n)
    PROVE  IInv'
<1> DEFINE m == least(n, toGo)
           filled == [p \in Places |-> IF p <= n THEN taken + p ELSE readBuffer[p]]
<1>1. /\ onSocket /\ n \in Places /\ taken' = taken + n
      /\ Deliver(filled, readBufferPos, n, m) /\ Continue(m)
      /\ UNCHANGED <<ended, crashed, asked, mark, writeVars>>
  BY DEF Refill
<1>2. /\ TypeOK /\ BufferFollows /\ call \in {"read", "safeRead"} /\ ~crashed
      /\ available = 0 /\ taken \in Nat /\ toGo \in Nat /\ toGo > 0
      /\ n \in Nat /\ n > 0 /\ n \in 0..Size /\ Size \in Nat
      /\ Len(delivered) \in Nat /\ delivered \in Seq(Nat) /\ Len(delivered) = taken
  <2>1. TypeOK /\ BufferFollows /\ ReadProgress
    BY DEF IInv
  <2>2. call \in {"read", "safeRead"} /\ ~crashed /\ available = 0
    BY <1>1 DEF onSocket
  <2>3. /\ taken \in Nat /\ toGo \in Nat /\ delivered \in Seq(Nat) /\ Len(delivered) \in Nat
        /\ readBufferFillSize \in Int /\ readBufferPos \in Int
    BY <2>1, SizeAssumption DEF TypeOK
  <2>4. n \in Nat /\ n > 0 /\ n \in 0..Size /\ Size \in Nat
    BY <1>1, SizeAssumption DEF Places
  <2>5. toGo > 0 /\ Len(delivered) = taken
    BY <2>1, <2>2, <2>3 DEF available, BufferFollows, ReadProgress
  <2>6. QED
    BY <2>1, <2>2, <2>3, <2>4, <2>5
<1>3. readBufferPos = 0
  BY <1>2 DEF TypeOK, available
<1>4. m \in Nat /\ m > 0 /\ m <= toGo /\ 0 + m <= n
  BY <1>2 DEF least
<1>5. /\ filled \in [Places -> Nat]
      /\ \A p \in Places : p > 0 /\ p <= n => filled[p] = Len(delivered) + (p - 0)
  BY <1>2 DEF TypeOK, Places
<1> HIDE DEF m, filled
<1>6. /\ delivered' \in Seq(Nat) /\ Len(delivered') = Len(delivered) + m
      /\ ReadsInOrder'
      /\ readBuffer' \in [Places -> Nat]
      /\ readBufferPos' \in 0..Size /\ readBufferFillSize' \in 0..Size
      /\ readBufferPos' <= readBufferFillSize'
      /\ readBufferFillSize' = readBufferPos' => readBufferPos' = 0
      /\ \/ readBufferPos' = 0 /\ readBufferFillSize' = 0 /\ 0 + m = n
         \/ readBufferPos' = 0 + m /\ readBufferFillSize' = n
      /\ \A p \in Places : p > readBufferPos' /\ p <= readBufferFillSize'
           => readBuffer'[p] = Len(delivered') + (p - readBufferPos')
  <2>1. 0 \in 0..Size
    BY <1>2
  <2>2. Deliver(filled, 0, n, m)
    BY <1>1, <1>3
  <2>3. QED
    BY <1>2, <1>4, <1>5, <2>1, <2>2, DeliverContinues
<1>7. BufferFollows'
  <2>1. Len(delivered') + readBufferFillSize' = taken' + readBufferPos'
    <3>1. /\ n \in Int /\ m \in Int /\ taken \in Int /\ taken' = taken + n
          /\ Len(delivered) = taken /\ Len(delivered') = Len(delivered) + m
      BY <1>1, <1>2, <1>4, <1>6
    <3>2. CASE readBufferPos' = 0 /\ readBufferFillSize' = 0 /\ 0 + m = n
      BY <3>1, <3>2
    <3>3. CASE readBufferPos' = 0 + m /\ readBufferFillSize' = n
      BY <3>1, <3>3
    <3>4. QED
      BY <1>6, <3>2, <3>3
  <2>2. QED
    BY <1>6, <2>1 DEF BufferFollows
<1>8. /\ call' \in Calls /\ toGo' \in Nat /\ last' \in [call : Calls, ok : BOOLEAN]
      /\ ReadProgress' /\ SafeReadExact'
      /\ WritePlaces' /\ WireInOrder' /\ WireFollows' /\ FlushedMeansSent'
  BY <1>1, <1>2, <1>4, <1>6, ReadContinues
<1>9. TypeOK'
  BY <1>1, <1>2, <1>6, <1>8 DEF TypeOK, writeVars
<1>10. QED
  BY <1>6, <1>7, <1>8, <1>9 DEF IInv

LEMMA ReadEOFStep == IInv /\ ReadEOF => IInv'
<1> SUFFICES ASSUME IInv, ReadEOF PROVE IInv'
  OBVIOUS
<1>1. /\ Return(FALSE) /\ call \in {"read", "safeRead"} /\ pos = 0
      /\ call \in Calls /\ ended' = TRUE
      /\ UNCHANGED <<readBuffer, readBufferPos, readBufferFillSize, taken, delivered, crashed,
                     asked, mark, writeVars>>
  BY DEF ReadEOF, onSocket, IInv, WritePlaces, Calls
<1>2. call' = "none" /\ last' = [call |-> call, ok |-> FALSE]
  BY <1>1 DEF Return
<1>3. TypeOK'
  BY <1>1, ReturnTypes DEF IInv, TypeOK, writeVars
<1>4. ReadsInOrder' /\ BufferFollows' /\ ReadProgress' /\ SafeReadExact'
  BY <1>1, <1>2 DEF IInv, ReadsInOrder, BufferFollows, ReadProgress, SafeReadExact
<1>5. WritePlaces' /\ WireInOrder' /\ WireFollows' /\ FlushedMeansSent'
  BY <1>1, <1>2 DEF IInv, WritePlaces, flushing, WireInOrder, WireFollows, pending,
                    FlushedMeansSent, writeVars
<1>6. QED
  BY <1>3, <1>4, <1>5 DEF IInv

LEMMA ReadErrorStep == IInv /\ ReadError => IInv'
<1> SUFFICES ASSUME IInv, ReadError PROVE IInv'
  OBVIOUS
<1>1. /\ call \in {"read", "safeRead"} /\ pos = 0 /\ call \in Calls
      /\ Size \in Nat
      /\ UNCHANGED <<readBuffer, readBufferPos, taken, ended, delivered, asked, mark,
                     writeVars>>
  BY SizeAssumption DEF ReadError, onSocket, IInv, WritePlaces, Calls
<1>2. CASE toGo > Size
  <2>1. Return(FALSE) /\ UNCHANGED <<readBufferFillSize, crashed>>
    BY <1>2 DEF ReadError
  <2>2. call' = "none" /\ last' = [call |-> call, ok |-> FALSE]
    BY <1>1, <2>1 DEF Return
  <2>3. TypeOK'
    BY <1>1, <2>1, ReturnTypes DEF IInv, TypeOK, writeVars
  <2>4. ReadsInOrder' /\ BufferFollows' /\ ReadProgress' /\ SafeReadExact'
    BY <1>1, <2>1, <2>2 DEF IInv, ReadsInOrder, BufferFollows, ReadProgress,
                            SafeReadExact
  <2>5. WritePlaces' /\ WireInOrder' /\ WireFollows' /\ FlushedMeansSent'
    BY <1>1, <2>2 DEF IInv, WritePlaces, flushing, WireInOrder, WireFollows, pending,
                      FlushedMeansSent, writeVars
  <2>6. QED
    BY <2>3, <2>4, <2>5 DEF IInv
<1>3. CASE ~(toGo > Size)
  <2>1. readBufferFillSize' = -1 /\ crashed' = TRUE /\ UNCHANGED <<call, last, toGo>>
    BY <1>3 DEF ReadError
  <2>2. TypeOK'
    BY <1>1, <2>1 DEF IInv, TypeOK, writeVars
  <2>3. ReadsInOrder' /\ BufferFollows' /\ ReadProgress' /\ SafeReadExact'
    BY <1>1, <2>1 DEF IInv, ReadsInOrder, BufferFollows, ReadProgress, SafeReadExact
  <2>4. WritePlaces' /\ WireInOrder' /\ WireFollows' /\ FlushedMeansSent'
    BY <1>1, <2>1 DEF IInv, WritePlaces, flushing, WireInOrder, WireFollows, pending,
                      FlushedMeansSent, writeVars
  <2>5. QED
    BY <2>2, <2>3, <2>4 DEF IInv
<1>4. QED
  BY <1>2, <1>3

-----------------------------------------------------------------------------
(* Writing preserves the invariant                                         *)

\* A call that is not a read leaves the read half alone.
LEMMA ReadHalfKept ==
    ASSUME IInv, UNCHANGED readVars, call' \notin {"read", "safeRead"},
           last' = last \/ last'.call \notin {"safeRead"},
           ~(call' = "none" /\ last' = last)
    PROVE  ReadsInOrder' /\ BufferFollows' /\ ReadProgress' /\ SafeReadExact'
BY DEF IInv, readVars, ReadsInOrder, BufferFollows, ReadProgress, SafeReadExact

LEMMA BeginReadStep ==
    ASSUME IInv, NEW op \in {"read", "safeRead"}, NEW len \in 1..MaxLen, BeginRead(op, len)
    PROVE  IInv'
<1>1. /\ call = "none" /\ call' = op /\ toGo' = len /\ asked' = len
      /\ mark' = Len(delivered) /\ UNCHANGED <<last, readVars, writeVars>>
  BY DEF BeginRead, idle
<1>2. Len(delivered) \in Nat /\ len \in Nat /\ len > 0 /\ pos = 0
  BY <1>1, BoundAssumption DEF IInv, TypeOK, WritePlaces
<1>3. TypeOK'
  BY <1>1, <1>2 DEF IInv, TypeOK, readVars, writeVars, Calls
<1>4. ReadsInOrder' /\ BufferFollows' /\ ReadProgress' /\ SafeReadExact'
  BY <1>1, <1>2 DEF IInv, readVars, ReadsInOrder, BufferFollows, ReadProgress,
                    SafeReadExact
<1>5. WritePlaces' /\ WireInOrder' /\ WireFollows' /\ FlushedMeansSent'
  BY <1>1, <1>2 DEF IInv, WritePlaces, flushing, WireInOrder, WireFollows, pending,
                    FlushedMeansSent, writeVars
<1>6. QED
  BY <1>3, <1>4, <1>5 DEF IInv

LEMMA BeginWriteStep ==
    ASSUME IInv, NEW len \in 1..MaxLen, BeginWrite(len)
    PROVE  IInv'
<1>1. /\ call = "none" /\ call' = "write" /\ toGo' = len /\ asked' = 0 /\ mark' = 0
      /\ UNCHANGED <<last, readVars, writeVars>>
  BY DEF BeginWrite, idle
<1>2. len \in Nat /\ pos = 0 /\ writeBufferFillSize \in 0..Size /\ Size \in Nat
  BY <1>1, BoundAssumption, SizeAssumption DEF IInv, TypeOK, WritePlaces
<1>3. TypeOK'
  BY <1>1, <1>2 DEF IInv, TypeOK, readVars, writeVars, Calls
<1>4. ReadsInOrder' /\ BufferFollows' /\ ReadProgress' /\ SafeReadExact'
  BY <1>1, ReadHalfKept
<1>5. WritePlaces' /\ WireInOrder' /\ WireFollows' /\ FlushedMeansSent'
  BY <1>1, <1>2 DEF IInv, WritePlaces, flushing, WireInOrder, WireFollows, pending,
                    FlushedMeansSent, writeVars
<1>6. QED
  BY <1>3, <1>4, <1>5 DEF IInv

LEMMA BeginFlushStep ==
    ASSUME IInv, NEW op \in {"flush", "free"}, BeginFlush(op)
    PROVE  IInv'
<1>1. /\ call = "none" /\ call' = op /\ toGo' = writeBufferFillSize
      /\ asked' = 0 /\ mark' = 0 /\ UNCHANGED <<last, readVars, writeVars>>
  BY DEF BeginFlush, idle
<1>2. pos = 0 /\ writeBufferFillSize \in 0..Size /\ Size \in Nat
  BY <1>1, SizeAssumption DEF IInv, TypeOK, WritePlaces
<1>3. TypeOK'
  BY <1>1, <1>2 DEF IInv, TypeOK, readVars, writeVars, Calls
<1>4. ReadsInOrder' /\ BufferFollows' /\ ReadProgress' /\ SafeReadExact'
  BY <1>1, ReadHalfKept
<1>5. WritePlaces' /\ WireInOrder' /\ WireFollows' /\ FlushedMeansSent'
  BY <1>1, <1>2 DEF IInv, WritePlaces, flushing, WireInOrder, WireFollows, pending,
                    FlushedMeansSent, writeVars
<1>6. QED
  BY <1>3, <1>4, <1>5 DEF IInv

LEMMA FillBufferStep == IInv /\ FillBuffer => IInv'
<1> SUFFICES ASSUME IInv, FillBuffer PROVE IInv'
  OBVIOUS
<1> DEFINE n == least(Size - writeBufferFillSize, toGo)
<1>1. /\ call = "write" /\ toGo > 0 /\ ~draining
      /\ writeBuffer' = [p \in Places |->
              IF p > writeBufferFillSize /\ p <= writeBufferFillSize + n
              THEN accepted + (p - writeBufferFillSize) ELSE writeBuffer[p]]
      /\ writeBufferFillSize' = writeBufferFillSize + n
      /\ accepted' = accepted + n
      /\ toGo' = toGo - n
      /\ UNCHANGED <<pos, onWire, failures, call, last, asked, mark, readVars>>
  BY DEF FillBuffer
<1>2. /\ TypeOK /\ pos = 0 /\ Size \in Nat /\ writeBufferFillSize \in 0..Size
      /\ toGo \in Nat /\ accepted \in Nat /\ Len(onWire) \in Nat
      /\ writeBuffer \in [Places -> Nat]
  BY <1>1, SizeAssumption DEF IInv, TypeOK, draining
<1>3. n \in Nat /\ writeBufferFillSize + n <= Size /\ n <= toGo
  BY <1>2 DEF least
<1> HIDE DEF n
<1>4. writeBuffer' \in [Places -> Nat]
  <2> SUFFICES ASSUME NEW p \in Places, p > writeBufferFillSize
               PROVE  accepted + (p - writeBufferFillSize) \in Nat
    BY <1>1, <1>2
  <2> QED
    BY <1>2 DEF Places
<1>5. TypeOK'
  BY <1>1, <1>2, <1>3, <1>4 DEF TypeOK, readVars
<1>6. ReadsInOrder' /\ BufferFollows' /\ ReadProgress' /\ SafeReadExact'
  BY <1>1 DEF IInv, readVars, ReadsInOrder, BufferFollows, ReadProgress,
              SafeReadExact
<1>7. WritePlaces' /\ WireInOrder' /\ FlushedMeansSent'
  BY <1>1, <1>2, <1>3 DEF IInv, WritePlaces, flushing, WireInOrder, FlushedMeansSent
<1>8. WireFollows'
  <2> SUFFICES ASSUME failures = 0
               PROVE  /\ Len(onWire) + writeBufferFillSize' = accepted'
                      /\ \A p \in Places : p > 0 /\ p <= 0 + writeBufferFillSize'
                            => writeBuffer'[p] = Len(onWire) + (p - 0)
    BY <1>1, <1>2 DEF WireFollows, pending
  <2>1. /\ Len(onWire) + writeBufferFillSize = accepted
        /\ \A p \in Places : p > 0 /\ p <= 0 + writeBufferFillSize
              => writeBuffer[p] = Len(onWire) + (p - 0)
    BY <1>1, <1>2 DEF IInv, WireFollows, pending
  <2>2. Len(onWire) + writeBufferFillSize' = accepted'
    BY <1>1, <1>2, <1>3, <2>1
  <2>3. ASSUME NEW p \in Places, p <= writeBufferFillSize + n
        PROVE  writeBuffer'[p] = Len(onWire) + p
    <3>1. CASE p <= writeBufferFillSize
      <4>1. writeBuffer'[p] = writeBuffer[p]
        BY <1>1, <1>2, <3>1 DEF Places
      <4>2. QED
        BY <1>2, <2>1, <3>1, <4>1 DEF Places
    <3>2. CASE p > writeBufferFillSize
      <4>1. writeBuffer'[p] = accepted + (p - writeBufferFillSize)
        BY <1>1, <2>3, <3>2
      <4>2. QED
        BY <1>2, <2>1, <4>1 DEF Places
    <3>3. QED
      BY <1>2, <3>1, <3>2 DEF Places
  <2>4. QED
    BY <1>1, <1>2, <2>2, <2>3 DEF Places
<1>9. QED
  BY <1>5, <1>6, <1>7, <1>8 DEF IInv

LEMMA WriteDoneStep == IInv /\ WriteDone => IInv'
<1> SUFFICES ASSUME IInv, WriteDone PROVE IInv'
  OBVIOUS
<1>a. Return(TRUE) /\ UNCHANGED <<asked, mark, readVars, writeVars>>
  BY DEF WriteDone
<1>b. call = "write" /\ ~(pos > 0) /\ pos \in Nat
  BY DEF WriteDone, draining, IInv, TypeOK
<1>c. pos = 0 /\ call \in Calls
  BY <1>b DEF Calls
<1>1. /\ call = "write" /\ pos = 0 /\ Return(TRUE) /\ call \in Calls
      /\ UNCHANGED <<asked, mark, readVars, writeVars>>
  BY <1>a, <1>b, <1>c
<1>2. call' = "none" /\ last' = [call |-> "write", ok |-> TRUE] /\ last'.call = "write"
  BY <1>1 DEF Return
<1>3. TypeOK'
  BY <1>1, ReturnTypes DEF IInv, TypeOK, readVars, writeVars
<1>4. ReadsInOrder' /\ BufferFollows' /\ ReadProgress' /\ SafeReadExact'
  BY <1>1, <1>2 DEF IInv, readVars, ReadsInOrder, BufferFollows, ReadProgress,
                    SafeReadExact
<1>5. WritePlaces' /\ WireInOrder' /\ WireFollows' /\ FlushedMeansSent'
  BY <1>1, <1>2 DEF IInv, WritePlaces, flushing, WireInOrder, WireFollows, pending,
                    FlushedMeansSent, writeVars, TypeOK
<1>6. QED
  BY <1>3, <1>4, <1>5 DEF IInv

\* write() of n bytes that are pending.
LEMMA SendContinues ==
    ASSUME IInv, NEW n \in Nat, n > 0, n <= pending, pos + pending <= Size, Send(n)
    PROVE  /\ onWire' \in Seq(Nat) /\ Len(onWire') = Len(onWire) + n
           /\ failures = 0 => \A k \in 1..Len(onWire') : onWire'[k] = k
<1> DEFINE f == [k \in 1..n |-> writeBuffer[pos + k]]
<1>1. /\ onWire \in Seq(Nat) /\ Len(onWire) \in Nat /\ Size \in Nat /\ pos \in Nat
      /\ writeBuffer \in [Places -> Nat] /\ pending \in Int
  BY SizeAssumption DEF IInv, TypeOK, pending
<1>2. \A k \in 1..n : pos + k \in Places /\ pos + k > pos /\ pos + k <= pos + pending
  BY <1>1 DEF Places
<1>3. f \in [1..n -> Nat]
  BY <1>1, <1>2
<1>4. failures = 0 => \A k \in 1..n : f[k] = Len(onWire) + k
  <2> SUFFICES ASSUME failures = 0, NEW k \in 1..n
               PROVE  writeBuffer[pos + k] = Len(onWire) + k
    OBVIOUS
  <2>1. writeBuffer[pos + k] = Len(onWire) + ((pos + k) - pos)
    BY <1>2 DEF IInv, WireFollows
  <2>2. QED
    BY <1>1, <2>1
<1>5. onWire' = onWire \o f
  BY DEF Send
<1> HIDE DEF f
<1>6. QED
  BY <1>1, <1>3, <1>4, <1>5, BlockAppended, StreamContinued DEF IInv, WireInOrder

LEMMA DrainStep ==
    ASSUME IInv, NEW n \in Places, Drain(n)
    PROVE  IInv'
<1>1. /\ call = "write" /\ n \in 1..writeBufferFillSize /\ Send(n)
      /\ writeBufferFillSize' = writeBufferFillSize - n
      /\ pos' = IF n = writeBufferFillSize THEN 0 ELSE pos + n
      /\ UNCHANGED <<writeBuffer, accepted, failures, callVars, readVars>>
  BY DEF Drain, draining
<1>2. /\ Size \in Nat /\ writeBufferFillSize \in 0..Size /\ pos \in 0..Size
      /\ pos + writeBufferFillSize <= Size /\ pending = writeBufferFillSize
      /\ n \in Nat /\ n > 0 /\ n <= writeBufferFillSize /\ call' = "write"
      /\ accepted \in Nat /\ Len(onWire) \in Nat
  BY <1>1, SizeAssumption DEF IInv, TypeOK, WritePlaces, pending, callVars
<1>3. /\ onWire' \in Seq(Nat) /\ Len(onWire') = Len(onWire) + n
      /\ failures = 0 => \A k \in 1..Len(onWire') : onWire'[k] = k
  BY <1>1, <1>2, SendContinues
<1>4. /\ writeBufferFillSize' \in 0..Size /\ pos' \in 0..Size
      /\ pos' + writeBufferFillSize' <= Size
  <2>1. CASE n = writeBufferFillSize
    BY <1>1, <1>2, <2>1
  <2>2. CASE n # writeBufferFillSize
    BY <1>1, <1>2, <2>2
  <2>3. QED
    BY <2>1, <2>2
<1>5. TypeOK'
  BY <1>1, <1>3, <1>4 DEF IInv, TypeOK, callVars, readVars
<1>6. ReadsInOrder' /\ BufferFollows' /\ ReadProgress' /\ SafeReadExact'
  BY <1>1 DEF IInv, readVars, callVars, ReadsInOrder, BufferFollows, ReadProgress,
              SafeReadExact
<1>7. WritePlaces' /\ WireInOrder' /\ FlushedMeansSent'
  BY <1>1, <1>2, <1>3, <1>4 DEF WritePlaces, flushing, WireInOrder, FlushedMeansSent
<1>8. WireFollows'
  <2> SUFFICES ASSUME failures = 0
               PROVE  /\ Len(onWire') + writeBufferFillSize' = accepted'
                      /\ \A p \in Places : p > pos' /\ p <= pos' + writeBufferFillSize'
                            => writeBuffer'[p] = Len(onWire') + (p - pos')
    BY <1>1, <1>2 DEF WireFollows, pending
  <2>1. /\ Len(onWire) + writeBufferFillSize = accepted
        /\ \A p \in Places : p > pos /\ p <= pos + writeBufferFillSize
              => writeBuffer[p] = Len(onWire) + (p - pos)
    BY <1>1, <1>2 DEF IInv, WireFollows
  <2>2. Len(onWire') + writeBufferFillSize' = accepted'
    <3>1. /\ Len(onWire') = Len(onWire) + n /\ accepted' = accepted
          /\ writeBufferFillSize' = writeBufferFillSize - n
      BY <1>1, <1>3
    <3>2. Len(onWire) + writeBufferFillSize = accepted
      BY <2>1
    <3>3. QED
      BY <1>2, <3>1, <3>2
  <2>3. CASE n = writeBufferFillSize
    BY <1>1, <1>2, <2>2, <2>3 DEF Places
  <2>4. CASE n # writeBufferFillSize
    <3>1. pos' = pos + n
      BY <1>1, <2>4
    <3>2. ASSUME NEW p \in Places, p > pos + n, p <= (pos + n) + (writeBufferFillSize - n)
          PROVE  writeBuffer[p] = (Len(onWire) + n) + (p - (pos + n))
      <4>1. p > pos /\ p <= pos + writeBufferFillSize /\ p \in Nat
        BY <1>2, <3>2 DEF Places
      <4>2. QED
        BY <1>2, <2>1, <4>1
    <3>3. QED
      BY <1>1, <1>3, <2>2, <3>1, <3>2
  <2>5. QED
    BY <2>3, <2>4
<1>9. QED
  BY <1>5, <1>6, <1>7, <1>8 DEF IInv

LEMMA DrainFailsStep == IInv /\ DrainFails => IInv'
<1> SUFFICES ASSUME IInv, DrainFails PROVE IInv'
  OBVIOUS
<1>1. /\ call = "write" /\ Return(FALSE)
      /\ writeBufferFillSize' = 0 /\ pos' = 0 /\ failures' = failures + 1
      /\ UNCHANGED <<writeBuffer, accepted, onWire, asked, mark, readVars>>
  BY DEF DrainFails, draining
<1>2. call' = "none" /\ last' = [call |-> "write", ok |-> FALSE] /\ call \in Calls
  BY <1>1 DEF Return, Calls
<1>3. failures \in Nat /\ Size \in Nat
  BY SizeAssumption DEF IInv, TypeOK
<1>a. call' \in Calls /\ toGo' \in Nat /\ last' \in [call : Calls, ok : BOOLEAN]
  BY <1>1, <1>2, ReturnTypes
<1>b. 0 \in 0..Size /\ failures' \in Nat
  BY <1>1, <1>3
<1>4. TypeOK'
  BY <1>1, <1>a, <1>b DEF IInv, TypeOK, readVars
<1>5. ReadsInOrder' /\ BufferFollows' /\ ReadProgress' /\ SafeReadExact'
  BY <1>1, <1>2 DEF IInv, readVars, ReadsInOrder, BufferFollows, ReadProgress, SafeReadExact
<1>6. failures' # 0
  BY <1>1, <1>3
<1>7. WritePlaces' /\ WireInOrder' /\ WireFollows' /\ FlushedMeansSent'
  BY <1>1, <1>2, <1>6 DEF WritePlaces, flushing, WireInOrder, WireFollows, FlushedMeansSent
<1>8. QED
  BY <1>4, <1>5, <1>7 DEF IInv

LEMMA FlushSomeStep ==
    ASSUME IInv, NEW n \in Places, FlushSome(n)
    PROVE  IInv'
<1>1. /\ call \in {"flush", "free"} /\ n \in 1..toGo /\ Send(n)
      /\ pos' = pos + n /\ toGo' = toGo - n
      /\ UNCHANGED <<writeBuffer, writeBufferFillSize, accepted, failures, call, last, asked,
                     mark, readVars>>
  BY DEF FlushSome, flushing
<1>2. /\ Size \in Nat /\ writeBufferFillSize \in 0..Size /\ pos \in 0..Size /\ toGo \in Nat
      /\ pos + toGo = writeBufferFillSize /\ pending = writeBufferFillSize - pos
      /\ n \in Nat /\ n > 0 /\ n <= toGo
      /\ accepted \in Nat /\ Len(onWire) \in Nat
  BY <1>1, SizeAssumption DEF IInv, TypeOK, WritePlaces, flushing, pending
<1>3. pending = toGo
  BY <1>2
<1>4. /\ onWire' \in Seq(Nat) /\ Len(onWire') = Len(onWire) + n
      /\ failures = 0 => \A k \in 1..Len(onWire') : onWire'[k] = k
  BY <1>1, <1>2, <1>3, SendContinues
<1>5. /\ toGo' \in Nat /\ pos' \in 0..Size /\ pos' + toGo' = writeBufferFillSize'
  BY <1>1, <1>2
<1>6. TypeOK'
  BY <1>1, <1>4, <1>5 DEF IInv, TypeOK, readVars
<1>7. ReadsInOrder' /\ BufferFollows' /\ ReadProgress' /\ SafeReadExact'
  BY <1>1 DEF IInv, readVars, ReadsInOrder, BufferFollows, ReadProgress, SafeReadExact
<1>8. WritePlaces' /\ WireInOrder' /\ FlushedMeansSent'
  BY <1>1, <1>4, <1>5 DEF WritePlaces, flushing, WireInOrder, FlushedMeansSent
<1>9. WireFollows'
  <2> SUFFICES ASSUME failures = 0
               PROVE  /\ Len(onWire') + (writeBufferFillSize' - pos') = accepted'
                      /\ \A p \in Places : p > pos' /\ p <= pos' + (writeBufferFillSize' - pos')
                            => writeBuffer'[p] = Len(onWire') + (p - pos')
    BY <1>1 DEF WireFollows, pending
  <2>1. /\ Len(onWire) + toGo = accepted
        /\ \A p \in Places : p > pos /\ p <= pos + toGo
              => writeBuffer[p] = Len(onWire) + (p - pos)
    BY <1>3 DEF IInv, WireFollows
  <2>2. writeBufferFillSize' - pos' = toGo - n /\ pos' = pos + n
    BY <1>1, <1>2
  <2>3. Len(onWire) + n + (toGo - n) = accepted
    BY <1>2, <2>1
  <2>4. ASSUME NEW p \in Places, p > pos + n, p <= (pos + n) + (toGo - n)
        PROVE  writeBuffer[p] = (Len(onWire) + n) + (p - (pos + n))
    <3>1. p > pos /\ p <= pos + toGo /\ p \in Nat
      BY <1>2, <2>4 DEF Places
    <3>2. QED
      BY <1>2, <2>1, <3>1
  <2>5. QED
    BY <1>1, <1>4, <2>2, <2>3, <2>4
<1>10. QED
  BY <1>6, <1>7, <1>8, <1>9 DEF IInv

LEMMA FlushDoneStep == IInv /\ FlushDone => IInv'
<1> SUFFICES ASSUME IInv, FlushDone PROVE IInv'
  OBVIOUS
<1>1. /\ call \in {"flush", "free"} /\ toGo = 0 /\ Return(TRUE)
      /\ writeBufferFillSize' = 0 /\ pos' = 0
      /\ UNCHANGED <<writeBuffer, accepted, onWire, failures, asked, mark, readVars>>
  BY DEF FlushDone, flushing
<1>2. /\ call' \in {"none", "freed"} /\ call \in Calls
      /\ last' = [call |-> call, ok |-> TRUE]
  BY <1>1 DEF Return, Calls
<1>3. Size \in Nat /\ 0 \in 0..Size /\ pos \in Nat /\ Len(onWire) \in Nat /\ accepted \in Nat
  BY SizeAssumption DEF IInv, TypeOK
<1>4. call' \in Calls /\ toGo' \in Nat /\ last' \in [call : Calls, ok : BOOLEAN]
  BY <1>1, <1>2, ReturnTypes
<1>5. TypeOK'
  BY <1>1, <1>3, <1>4 DEF IInv, TypeOK, readVars
<1>6. ReadsInOrder' /\ BufferFollows' /\ ReadProgress' /\ SafeReadExact'
  BY <1>1, <1>2 DEF IInv, readVars, ReadsInOrder, BufferFollows, ReadProgress, SafeReadExact
<1>7. failures = 0 => Len(onWire) = accepted
  <2>1. pos + 0 = writeBufferFillSize
    BY <1>1 DEF IInv, WritePlaces, flushing
  <2>2. pending = 0
    BY <1>1, <1>3, <2>1 DEF pending
  <2>3. QED
    BY <1>3, <2>2 DEF IInv, WireFollows
<1>8. WritePlaces' /\ WireInOrder' /\ FlushedMeansSent'
  BY <1>1, <1>2, <1>7 DEF IInv, WritePlaces, flushing, WireInOrder, FlushedMeansSent
<1>9. WireFollows'
  BY <1>1, <1>2, <1>3, <1>7 DEF WireFollows, pending, Places
<1>10. QED
  BY <1>5, <1>6, <1>8, <1>9 DEF IInv

LEMMA FlushFailsStep == IInv /\ FlushFails => IInv'
<1> SUFFICES ASSUME IInv, FlushFails PROVE IInv'
  OBVIOUS
<1>1. /\ call \in {"flush", "free"} /\ Return(FALSE)
      /\ pos' = 0 /\ failures' = failures + 1
      /\ UNCHANGED <<writeBuffer, writeBufferFillSize, accepted, onWire, asked, mark,
                     readVars>>
  BY DEF FlushFails, flushing
<1>2. /\ call' \in {"none", "freed"} /\ call \in Calls
      /\ last' = [call |-> call, ok |-> FALSE]
  BY <1>1 DEF Return, Calls
<1>3. failures \in Nat /\ Size \in Nat
  BY SizeAssumption DEF IInv, TypeOK
<1>4. call' \in Calls /\ toGo' \in Nat /\ last' \in [call : Calls, ok : BOOLEAN]
  BY <1>1, <1>2, ReturnTypes
<1>5. 0 \in 0..Size /\ failures' \in Nat /\ failures' # 0
  BY <1>1, <1>3
<1>6. TypeOK'
  BY <1>1, <1>4, <1>5 DEF IInv, TypeOK, readVars
<1>7. ReadsInOrder' /\ BufferFollows' /\ ReadProgress' /\ SafeReadExact'
  BY <1>1, <1>2 DEF IInv, readVars, ReadsInOrder, BufferFollows, ReadProgress, SafeReadExact
<1>8. WritePlaces' /\ WireInOrder' /\ WireFollows' /\ FlushedMeansSent'
  BY <1>1, <1>2, <1>5 DEF WritePlaces, flushing, WireInOrder, WireFollows, FlushedMeansSent
<1>9. QED
  BY <1>6, <1>7, <1>8 DEF IInv

-----------------------------------------------------------------------------

LEMMA InitIInv == Init => IInv
<1> SUFFICES ASSUME Init PROVE IInv
  OBVIOUS
<1>1. Size \in Nat /\ 0 \in 0..Size /\ 0 \in -1..Size
  BY SizeAssumption
<1>2. last \in [call : Calls, ok : BOOLEAN]
  <2>1. last = [call |-> "none", ok |-> TRUE] /\ "none" \in Calls
    BY DEF Init, Calls
  <2>2. QED
    BY <2>1, Zenon
<1>3. TypeOK
  <2>1. readBuffer \in [Places -> Nat] /\ writeBuffer \in [Places -> Nat]
    BY DEF Init
  <2>2. call \in Calls /\ delivered \in Seq(Nat) /\ onWire \in Seq(Nat)
    BY DEF Init, Calls
  <2>3. /\ readBufferPos \in 0..Size /\ readBufferFillSize \in -1..Size
        /\ readBufferPos <= readBufferFillSize
        /\ readBufferFillSize = readBufferPos => readBufferPos = 0
        /\ writeBufferFillSize \in 0..Size /\ pos \in 0..Size
    BY <1>1 DEF Init
  <2>4. QED
    BY <1>2, <2>1, <2>2, <2>3 DEF Init, TypeOK
<1>4. Len(delivered) = 0 /\ Len(onWire) = 0
  BY DEF Init
<1>5. ReadsInOrder /\ BufferFollows /\ ReadProgress /\ SafeReadExact
  BY <1>1, <1>4 DEF Init, ReadsInOrder, BufferFollows, ReadProgress, SafeReadExact, Places
<1>6. WritePlaces /\ WireInOrder /\ WireFollows /\ FlushedMeansSent
  BY <1>1, <1>4 DEF Init, WritePlaces, flushing, WireInOrder, WireFollows, pending,
                    FlushedMeansSent, Places
<1>7. QED
  BY <1>3, <1>5, <1>6 DEF IInv

LEMMA NextIInv == IInv /\ [Next]_vars => IInv'
<1> SUFFICES ASSUME IInv, [Next]_vars PROVE IInv'
  OBVIOUS
<1>1. ASSUME NEW op \in {"read", "safeRead"}, NEW len \in 1..MaxLen, BeginRead(op, len)
      PROVE  IInv'
  BY <1>1, BeginReadStep
<1>2. ASSUME NEW len \in 1..MaxLen, BeginWrite(len) PROVE IInv'
  BY <1>2, BeginWriteStep
<1>3. ASSUME NEW op \in {"flush", "free"}, BeginFlush(op) PROVE IInv'
  BY <1>3, BeginFlushStep
<1>4. CASE Reading
  BY <1>4, ReadFromBufferStep, ReadEOFStep, ReadErrorStep, ReadAroundBufferStep, RefillStep
     DEF Reading
<1>5. CASE Writing
  BY <1>5, FillBufferStep, WriteDoneStep, DrainFailsStep, FlushDoneStep, FlushFailsStep,
     DrainStep, FlushSomeStep DEF Writing
<1>6. CASE UNCHANGED vars
  BY <1>6 DEF vars, readVars, writeVars, callVars, IInv, TypeOK, WritePlaces, flushing,
     ReadsInOrder, BufferFollows, ReadProgress, SafeReadExact, WireInOrder, WireFollows,
     pending, FlushedMeansSent
<1>7. QED
  BY <1>1, <1>2, <1>3, <1>4, <1>5, <1>6 DEF Next

LEMMA AlwaysIInv == Spec => []IInv
BY InitIInv, NextIInv, PTL DEF Spec

\* The types, and the offsets inside the buffers (NGBufferedDescriptor_read,
\* _write, _flush), for every buffer size and every pattern of short calls.
THEOREM TypesCorrect == Spec => []TypeOK
<1>1. IInv => TypeOK
  BY DEF IInv
<1>2. QED
  BY <1>1, AlwaysIInv, PTL

\* NGBufferedDescriptor_read and _safeRead give the peer's bytes to the caller
\* in order, without loss or repetition, and a safeRead that reports success
\* has delivered exactly what was asked.
THEOREM ReadsStayExact == Spec => []ReadsExact
<1>1. IInv => ReadsExact
  BY DEF IInv, ReadsExact
<1>2. QED
  BY <1>1, AlwaysIInv, PTL

\* NGBufferedDescriptor_write and _flush put the caller's bytes on the socket
\* in order, as long as no write() failed, and a flush that reports success has
\* sent everything.
THEOREM WritesStayExact == Spec => []WritesExact
<1>1. IInv => WritesExact
  BY DEF IInv, WritesExact
<1>2. QED
  BY <1>1, AlwaysIInv, PTL

-----------------------------------------------------------------------------
(* Calls come to an end: the safety half of CallsReturn.                   *)

\* What the loop of the running call still has to move: a byte to write is
\* copied to the buffer first and sent after that.
workLeft == IF call = "write" THEN 2 * toGo + writeBufferFillSize ELSE toGo

\* The step ends the call or its process, or brings the call nearer to its end.
CallShrinks ==
    \/ call' \in {"none", "freed"}
    \/ crashed'
    \/ call' = call /\ workLeft \in Nat /\ workLeft' \in Nat /\ workLeft' < workLeft

\* A loop of reads goes on only after some bytes, and with fewer to go.
LEMMA ContinueShrinks ==
    ASSUME TypeOK, call \in {"read", "safeRead"}, NEW n \in Nat, n > 0, Continue(n)
    PROVE  CallShrinks
  <1>1. CASE call = "safeRead" /\ n < toGo
      <2>1. toGo' = toGo - n /\ call' = call /\ toGo \in Nat
          BY <1>1 DEF Continue, TypeOK
      <2>2. workLeft = toGo /\ workLeft' = toGo'
          BY <1>1, <2>1 DEF workLeft
      <2> QED BY <1>1, <2>1, <2>2 DEF CallShrinks
  <1>2. CASE ~(call = "safeRead" /\ n < toGo)
      BY <1>2 DEF Continue, Return, CallShrinks
  <1> QED BY <1>1, <1>2

LEMMA ReadingShrinks == TypeOK /\ Reading => CallShrinks
  <1> SUFFICES ASSUME TypeOK, Reading PROVE CallShrinks
      OBVIOUS
  <1>1. CASE ReadFromBuffer
      <2> DEFINE n == least(available, toGo)
      <2>1. CASE toGo = 0
          BY <1>1, <2>1 DEF ReadFromBuffer, Continue, Return, CallShrinks, TypeOK, available,
                            least
      <2>2. CASE toGo # 0
          <3>1. n \in Nat /\ n > 0
              BY <1>1, <2>2, SizeAssumption DEF ReadFromBuffer, available, least, TypeOK
          <3>2. Continue(n) /\ call \in {"read", "safeRead"}
              BY <1>1 DEF ReadFromBuffer
          <3> QED BY <3>1, <3>2, ContinueShrinks
      <2> QED BY <2>1, <2>2
  <1>2. CASE ReadEOF
      BY <1>2 DEF ReadEOF, Return, CallShrinks
  <1>3. CASE ReadError
      BY <1>3 DEF ReadError, Return, CallShrinks
  <1>4. ASSUME NEW n \in 1..MaxLen, ReadAroundBuffer(n) PROVE CallShrinks
      <2>1. n \in Nat /\ n > 0 /\ Continue(n) /\ call \in {"read", "safeRead"}
          BY <1>4, BoundAssumption DEF ReadAroundBuffer, onSocket
      <2> QED BY <2>1, ContinueShrinks
  <1>5. ASSUME NEW n \in 1..MaxLen, Refill(n) PROVE CallShrinks
      <2> DEFINE m == least(n, toGo)
      <2>1. Continue(m) /\ call \in {"read", "safeRead"}
          BY <1>5 DEF Refill, onSocket
      <2>2. CASE toGo = 0
          BY <2>1, <2>2, BoundAssumption DEF Continue, Return, CallShrinks, least
      <2>3. CASE toGo # 0
          <3>1. m \in Nat /\ m > 0
              BY <2>3, BoundAssumption DEF least, TypeOK
          <3> QED BY <2>1, <3>1, ContinueShrinks
      <2> QED BY <2>2, <2>3
  <1> QED BY <1>1, <1>2, <1>3, <1>4, <1>5 DEF Reading

LEMMA WritingShrinks == TypeOK /\ Writing => CallShrinks
  <1> SUFFICES ASSUME TypeOK, Writing PROVE CallShrinks
      OBVIOUS
  <1>1. CASE FillBuffer
      <2> DEFINE n == least(Size - writeBufferFillSize, toGo)
      <2>1. /\ call = "write" /\ call' = "write"
            /\ writeBufferFillSize' = writeBufferFillSize + n /\ toGo' = toGo - n
          BY <1>1 DEF FillBuffer
      <2>2. toGo \in Nat /\ writeBufferFillSize \in Nat /\ n \in 1..toGo
          BY <1>1, SizeAssumption DEF FillBuffer, draining, least, TypeOK
      <2>3. workLeft = 2 * toGo + writeBufferFillSize
            /\ workLeft' = 2 * toGo' + writeBufferFillSize'
          BY <2>1 DEF workLeft
      <2> HIDE DEF n
      <2> QED BY <2>1, <2>2, <2>3 DEF CallShrinks
  <1>2. CASE WriteDone \/ DrainFails \/ FlushDone \/ FlushFails
      BY <1>2 DEF WriteDone, DrainFails, FlushDone, FlushFails, Return, CallShrinks
  <1>3. ASSUME NEW n \in Places, Drain(n) PROVE CallShrinks
      <2>1. /\ call = "write" /\ call' = call /\ toGo' = toGo /\ toGo \in Nat
            /\ writeBufferFillSize \in Nat /\ n \in 1..writeBufferFillSize
            /\ writeBufferFillSize' = writeBufferFillSize - n
          BY <1>3, SizeAssumption DEF Drain, draining, callVars, TypeOK
      <2>2. workLeft = 2 * toGo + writeBufferFillSize
            /\ workLeft' = 2 * toGo' + writeBufferFillSize'
          BY <2>1 DEF workLeft
      <2> QED BY <2>1, <2>2 DEF CallShrinks
  <1>4. ASSUME NEW n \in Places, FlushSome(n) PROVE CallShrinks
      <2>1. /\ call # "write" /\ call' = call /\ toGo \in Nat /\ n \in 1..toGo
            /\ toGo' = toGo - n
          BY <1>4 DEF FlushSome, flushing, TypeOK
      <2>2. workLeft = toGo /\ workLeft' = toGo'
          BY <2>1 DEF workLeft
      <2> QED BY <2>1, <2>2 DEF CallShrinks
  <1> QED BY <1>1, <1>2, <1>3, <1>4 DEF Writing

\* Whatever read() and write() return, every pass of a loop of read, safeRead,
\* write, flush or free ends the call or moves it nearer to its end: no call
\* makes more passes than it has bytes to move, twice as many and a buffer's
\* for a write.  What CallsReturn adds is only that read() and write() return.
THEOREM CallsMakeProgress ==
    Spec => [][call \notin {"none", "freed"} => CallShrinks]_vars
  <1>1. TypeOK /\ [Next]_vars => [call \notin {"none", "freed"} => CallShrinks]_vars
      <2> SUFFICES ASSUME TypeOK, Next, call \notin {"none", "freed"} PROVE CallShrinks
          OBVIOUS
      <2>1. Reading \/ Writing
          BY DEF Next, BeginRead, BeginWrite, BeginFlush, idle
      <2> QED BY <2>1, ReadingShrinks, WritingShrinks
  <1> QED BY <1>1, TypesCorrect, PTL DEF Spec
=============================================================================
