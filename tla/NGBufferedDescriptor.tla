----------------------- MODULE NGBufferedDescriptor -----------------------
(***************************************************************************)
(* The buffered socket of the Apache module (mod_ngobjweb/                 *)
(* NGBufferedDescriptor.c): reads and writes of the caller, buffered over  *)
(* read() and write() calls that move fewer bytes than asked, report the   *)
(* end of the stream or fail.  A byte is its place in the stream: the peer *)
(* sends 1, 2, 3, ... and the caller writes 1, 2, 3, ...                   *)
(***************************************************************************)
EXTENDS Integers, Sequences

CONSTANTS
    Size,       \* readBufferSize and writeBufferSize
    MaxLen,     \* bound: bytes of one call
    MaxRead,    \* bound: bytes the peer sends
    MaxWrite,   \* bound: bytes the caller writes
    MaxFailures \* bound: write() calls that fail

ASSUME SizeAssumption == Size \in Nat \ {0}
ASSUME BoundAssumption == MaxLen \in Nat /\ MaxRead \in Nat /\ MaxWrite \in Nat
                         /\ MaxFailures \in Nat

VARIABLES
    readBuffer, readBufferPos, readBufferFillSize,
    writeBuffer, writeBufferFillSize,
    call,           \* the call the caller is in; "none", or "freed" after free
    toGo,           \* bytes its loop still has to move
    pos,            \* offset of the next write() in writeBuffer
    last,           \* [call, ok] of the last call that returned
    asked, mark,    \* of a read call: its length, the bytes delivered before it
    taken,          \* bytes read() took from the socket
    ended,          \* read() has returned 0: the peer closed
    delivered,      \* bytes copied to the caller
    accepted,       \* bytes copied from the caller
    onWire,         \* bytes write() put on the socket
    failures,       \* write() calls that failed
    crashed         \* memcpy() of -1 bytes

readVars == <<readBuffer, readBufferPos, readBufferFillSize, taken, ended, delivered,
              crashed>>
writeVars == <<writeBuffer, writeBufferFillSize, pos, accepted, onWire, failures>>
callVars == <<call, toGo, last, asked, mark>>
vars == <<readVars, writeVars, callVars>>

Places == 1..Size
Calls == {"none", "read", "safeRead", "write", "flush", "free", "freed"}
least(m, n) == IF m <= n THEN m ELSE n

\* NGBufferedDescriptor_newWithDescriptorAndSize; malloc() leaves garbage, 0.
Init ==
    /\ readBuffer = [p \in Places |-> 0] /\ writeBuffer = [p \in Places |-> 0]
    /\ readBufferPos = 0 /\ readBufferFillSize = 0 /\ writeBufferFillSize = 0
    /\ call = "none" /\ toGo = 0 /\ pos = 0
    /\ last = [call |-> "none", ok |-> TRUE]
    /\ asked = 0 /\ mark = 0
    /\ taken = 0 /\ ended = FALSE /\ delivered = << >>
    /\ accepted = 0 /\ onWire = << >>
    /\ failures = 0 /\ crashed = FALSE

idle == call = "none" /\ ~crashed

Return(ok) ==
    /\ call' = IF call = "free" THEN "freed" ELSE "none"
    /\ last' = [call |-> call, ok |-> ok]
    /\ toGo' = 0

-----------------------------------------------------------------------------
(* Reading                                                                 *)

available == readBufferFillSize - readBufferPos

BeginRead(op, len) ==
    /\ idle
    /\ call' = op /\ toGo' = len
    /\ asked' = len /\ mark' = Len(delivered)
    /\ UNCHANGED <<last, readVars, writeVars>>

\* Mutant: a consumed buffer is not reset.
DeliverNoReset(buffer, offset, fill, n) ==
    /\ delivered' = delivered \o [k \in 1..n |-> buffer[offset + k]]
    /\ readBuffer' = buffer
    /\ readBufferPos' = offset + n
    /\ readBufferFillSize' = fill

\* memcpy() of n bytes; checkReadBufferFillState resets a consumed buffer.
Deliver(buffer, offset, fill, n) ==
    /\ delivered' = delivered \o [k \in 1..n |-> buffer[offset + k]]
    /\ readBuffer' = buffer
    /\ readBufferPos' = IF offset + n = fill THEN 0 ELSE offset + n
    /\ readBufferFillSize' = IF offset + n = fill THEN 0 ELSE fill

\* Mutant: safeRead returns after the first read.
ContinueOnce(n) == Return(TRUE)

\* read() returns what it got; safeRead goes on until it has all.
Continue(n) ==
    IF call = "safeRead" /\ n < toGo
    THEN toGo' = toGo - n /\ UNCHANGED <<call, last>>
    ELSE Return(TRUE)

\* Some or all of the bytes asked for are in the buffer.
ReadFromBuffer ==
    /\ call \in {"read", "safeRead"} /\ ~crashed
    /\ available > 0
    /\ LET n == least(available, toGo) IN
        /\ Deliver(readBuffer, readBufferPos, readBufferFillSize, n)
        /\ Continue(n)
    /\ UNCHANGED <<taken, ended, crashed, asked, mark, writeVars>>

onSocket == call \in {"read", "safeRead"} /\ ~crashed /\ available = 0

\* The buffer is empty and smaller than the request: read() into the caller's
\* memory.
ReadAroundBuffer(n) ==
    /\ onSocket /\ ~ended /\ toGo > Size
    /\ n \in 1..toGo /\ taken + n <= MaxRead
    /\ delivered' = delivered \o [k \in 1..n |-> taken + k]
    /\ taken' = taken + n
    /\ Continue(n)
    /\ UNCHANGED <<readBuffer, readBufferPos, readBufferFillSize, ended, crashed, asked,
                   mark, writeVars>>

\* The buffer is empty: it is filled with the next bytes of the stream.
Refill(n) ==
    /\ onSocket /\ ~ended /\ toGo <= Size
    /\ n \in Places /\ taken + n <= MaxRead
    /\ taken' = taken + n
    /\ LET m == least(n, toGo)
           filled == [p \in Places |-> IF p <= n THEN taken + p ELSE readBuffer[p]] IN
        /\ Deliver(filled, readBufferPos, n, m)
        /\ Continue(m)
    /\ UNCHANGED <<ended, crashed, asked, mark, writeVars>>

\* Mutant: safeRead does not look for the end of the stream.
ReadEOFIgnored ==
    /\ onSocket
    /\ ended' = TRUE
    /\ IF call = "read" THEN Return(FALSE) ELSE UNCHANGED <<call, last, toGo>>
    /\ UNCHANGED <<readBuffer, readBufferPos, readBufferFillSize, taken, delivered, crashed,
                   asked, mark, writeVars>>

\* read() returns 0.
ReadEOF ==
    /\ onSocket
    /\ ended' = TRUE
    /\ Return(FALSE)
    /\ UNCHANGED <<readBuffer, readBufferPos, readBufferFillSize, taken, delivered, crashed,
                   asked, mark, writeVars>>

\* read() returns -1.  Behind the buffer the -1 is the caller's result; into
\* the buffer it becomes readBufferFillSize and the length of a memcpy().
ReadError ==
    /\ onSocket
    /\ IF toGo > Size
       THEN Return(FALSE) /\ UNCHANGED <<readBufferFillSize, crashed>>
       ELSE /\ readBufferFillSize' = -1 /\ crashed' = TRUE
            /\ UNCHANGED <<call, last, toGo>>
    /\ UNCHANGED <<readBuffer, readBufferPos, taken, ended, delivered, asked, mark,
                   writeVars>>

-----------------------------------------------------------------------------
(* Writing                                                                 *)

\* NGBufferedDescriptor_write; safeWrite calls it once, as it writes all or fails.
BeginWrite(len) ==
    /\ idle
    /\ call' = "write" /\ toGo' = len
    /\ asked' = 0 /\ mark' = 0
    /\ UNCHANGED <<last, readVars, writeVars>>

draining == call = "write" /\ (writeBufferFillSize = Size \/ pos > 0)

\* Copy what fits into the buffer.
FillBuffer ==
    /\ call = "write" /\ toGo > 0 /\ ~draining
    /\ LET n == least(Size - writeBufferFillSize, toGo) IN
        /\ accepted + n <= MaxWrite
        /\ writeBuffer' = [p \in Places |->
              IF p > writeBufferFillSize /\ p <= writeBufferFillSize + n
              THEN accepted + (p - writeBufferFillSize) ELSE writeBuffer[p]]
        /\ writeBufferFillSize' = writeBufferFillSize + n
        /\ accepted' = accepted + n
        /\ toGo' = toGo - n
    /\ UNCHANGED <<pos, onWire, failures, call, last, asked, mark, readVars>>

WriteDone ==
    /\ call = "write" /\ toGo = 0 /\ ~draining
    /\ Return(TRUE)
    /\ UNCHANGED <<asked, mark, readVars, writeVars>>

\* write() of n bytes at pos.
Send(n) == onWire' = onWire \o [k \in 1..n |-> writeBuffer[pos + k]]

\* A full buffer is written out, in as many write() calls as it takes.
Drain(n) ==
    /\ draining /\ n \in 1..writeBufferFillSize
    /\ Send(n)
    /\ writeBufferFillSize' = writeBufferFillSize - n
    /\ pos' = IF n = writeBufferFillSize THEN 0 ELSE pos + n
    /\ UNCHANGED <<writeBuffer, accepted, failures, callVars, readVars>>

\* "content is lost .."
DrainFails ==
    /\ draining /\ failures < MaxFailures
    /\ writeBufferFillSize' = 0 /\ pos' = 0 /\ failures' = failures + 1
    /\ Return(FALSE)
    /\ UNCHANGED <<writeBuffer, accepted, onWire, asked, mark, readVars>>

\* NGBufferedDescriptor_flush, also the first thing NGBufferedDescriptor_free does.
BeginFlush(op) ==
    /\ idle
    /\ call' = op /\ toGo' = writeBufferFillSize
    /\ asked' = 0 /\ mark' = 0
    /\ UNCHANGED <<last, readVars, writeVars>>

flushing == call \in {"flush", "free"}

FlushSome(n) ==
    /\ flushing /\ n \in 1..toGo
    /\ Send(n)
    /\ pos' = pos + n /\ toGo' = toGo - n
    /\ UNCHANGED <<writeBuffer, writeBufferFillSize, accepted, failures, call, last,
                   asked, mark, readVars>>

\* Mutant: the buffer keeps its fill size.
FlushDoneKeeping ==
    /\ flushing /\ toGo = 0
    /\ pos' = 0
    /\ Return(TRUE)
    /\ UNCHANGED <<writeBuffer, writeBufferFillSize, accepted, onWire, failures, asked,
                   mark, readVars>>

\* ... and, for free, close() and the release of the buffers.
FlushDone ==
    /\ flushing /\ toGo = 0
    /\ writeBufferFillSize' = 0 /\ pos' = 0
    /\ Return(TRUE)
    /\ UNCHANGED <<writeBuffer, accepted, onWire, failures, asked, mark, readVars>>

\* The buffer keeps all its bytes, the ones already written included; free
\* closes all the same.
FlushFails ==
    /\ flushing /\ toGo > 0 /\ failures < MaxFailures
    /\ pos' = 0 /\ failures' = failures + 1
    /\ Return(FALSE)
    /\ UNCHANGED <<writeBuffer, writeBufferFillSize, accepted, onWire, asked, mark,
                   readVars>>

-----------------------------------------------------------------------------

Reading ==
    ReadFromBuffer \/ ReadEOF \/ ReadError
        \/ \E n \in 1..MaxLen : ReadAroundBuffer(n) \/ Refill(n)

Writing ==
    FillBuffer \/ WriteDone \/ DrainFails \/ FlushDone \/ FlushFails
        \/ \E n \in Places : Drain(n) \/ FlushSome(n)

Next ==
    \/ \E len \in 1..MaxLen :
        \/ BeginRead("read", len) \/ BeginRead("safeRead", len)
        \/ accepted + len <= MaxWrite /\ BeginWrite(len)
    \/ BeginFlush("flush") \/ BeginFlush("free")
    \/ Reading \/ Writing

Spec == Init /\ [][Next]_vars

Progress ==
    \/ ReadFromBuffer \/ ReadEOF \/ FillBuffer \/ WriteDone \/ FlushDone
    \/ \E n \in 1..MaxLen : ReadAroundBuffer(n) \/ Refill(n)
    \/ \E n \in Places : Drain(n) \/ FlushSome(n)

\* read() and write() return: the peer sends, takes what it is sent, or closes.
\* No error is needed for a call to come to its end.
FairSpec == Spec /\ WF_vars(Progress)

-----------------------------------------------------------------------------
(* Properties                                                              *)

\* Every variable keeps its type; the offsets stay inside the buffers as long
\* as no read() into the buffer fails.
TypeOK ==
    /\ readBuffer \in [Places -> Nat] /\ writeBuffer \in [Places -> Nat]
    /\ readBufferPos \in 0..Size /\ readBufferFillSize \in -1..Size
    /\ ~crashed => readBufferPos <= readBufferFillSize
    /\ readBufferFillSize = readBufferPos => readBufferPos = 0
    /\ writeBufferFillSize \in 0..Size /\ pos \in 0..Size
    /\ call \in Calls /\ toGo \in Nat
    /\ last \in [call : Calls, ok : BOOLEAN]
    /\ asked \in Nat /\ mark \in Nat /\ taken \in Nat /\ accepted \in Nat
    /\ delivered \in Seq(Nat) /\ onWire \in Seq(Nat)
    /\ failures \in Nat /\ ended \in BOOLEAN /\ crashed \in BOOLEAN

\* The caller gets the peer's bytes in order, none lost, none twice, whatever
\* mixture of short reads, buffered and unbuffered reads delivered them.
ReadsInOrder == \A k \in 1..Len(delivered) : delivered[k] = k

\* NGBufferedDescriptor_safeRead reports success for exactly the bytes it was
\* asked for: headers and body of a response never shift against each other.
SafeReadExact ==
    (last = [call |-> "safeRead", ok |-> TRUE] /\ call = "none")
        => Len(delivered) = mark + asked

\* Both: the caller reads the stream, at the place it thinks it is at.
ReadsExact == ReadsInOrder /\ SafeReadExact

\* Until a write() fails, the peer gets the caller's bytes in order.
WireInOrder ==
    failures = 0 => \A k \in 1..Len(onWire) : onWire[k] = k

\* A flush that reports success left no byte behind: what the caller wrote
\* before it has reached the socket.
FlushedMeansSent ==
    (failures = 0 /\ last = [call |-> "flush", ok |-> TRUE] /\ call = "none")
        => Len(onWire) = accepted

\* Both: the peer gets the caller's stream, all of it after a flush.
WritesExact == WireInOrder /\ FlushedMeansSent

\* Every call returns, as its loops always make progress or stop: unless the
\* failing read() ends the process.
CallsReturn == (call \notin {"none", "freed"}) ~> (call \in {"none", "freed"} \/ crashed)
=============================================================================
