----------------------------- MODULE RingBuffer -----------------------------
(***************************************************************************)
(* The ring buffer of libisofs (libisofs/buffer.c): one writer thread, one *)
(* reader thread, a mutex and two condition variables.                     *)
(*                                                                         *)
(* Each region between taking and releasing the mutex is one action.       *)
(* pthread_cond_wait() ends a region: the thread joins the wait set        *)
(* ("asleep") and starts over at the head of its inner loop ("trying")     *)
(* when it is signalled, or spuriously.  A byte is identified by its       *)
(* position in the stream, so that the content of the buffer tells whether *)
(* a byte was lost, repeated or reordered.                                 *)
(***************************************************************************)
EXTENDS Integers, Sequences

CONSTANTS
    Cap,           \* capacity of the buffer
    MaxBytes,      \* bound: the writer offers at most so many bytes
    WriteSizes,    \* the counts iso_ring_buffer_write() is called with
    ReadSizes      \* the counts iso_ring_buffer_read() is called with

ASSUME SizeAssumption ==
    /\ Cap \in Nat \ {0} /\ MaxBytes \in Nat
    /\ WriteSizes \subseteq Nat \ {0} /\ ReadSizes \subseteq Nat \ {0}

VARIABLES
    buf,           \* the memory of the buffer
    size,          \* bytes available in it
    rpos, wpos,    \* offsets of the next byte to read and to write
    rend, wend,    \* 0 not finished, 1 finished, 2 finished with error
    wcall,         \* the writer: "out" of a call, "trying" for the mutex, "asleep"
    wleft,         \* count - bytes_write of its call
    wret,          \* what its last call returned: 1 success, 0 reader finished
    sent,          \* all bytes it has put into the buffer so far
    rcall,         \* the reader: "out", "trying" or "asleep"
    rleft,         \* count - bytes_read of its call
    rret,          \* what its last call returned: 1 success, 0 EOF
    got            \* every byte copied to the reader's memory so far

writerVars == <<wcall, wleft, wret, sent>>
readerVars == <<rcall, rleft, rret, got>>
ringVars   == <<buf, size, rpos, wpos, rend, wend>>
vars       == <<buf, size, rpos, wpos, rend, wend,
                wcall, wleft, wret, sent, rcall, rleft, rret, got>>

CallStates == {"out", "trying", "asleep"}

Least(a, b) == IF a < b THEN a ELSE b

\* iso_ring_buffer_new(); the content of fresh memory is arbitrary: -1.
RingInit ==
    /\ buf = [i \in 0 .. Cap - 1 |-> -1]
    /\ size = 0 /\ rpos = 0 /\ wpos = 0
    /\ rend = 0 /\ wend = 0

Init ==
    /\ RingInit
    /\ wcall = "out" /\ wleft = 0 /\ wret = 1 /\ sent = 0
    /\ rcall = "out" /\ rleft = 0 /\ rret = 1 /\ got = <<>>

\* pthread_cond_signal() moves the only possible sleeper out of the wait set.
Woken(call) == IF call = "asleep" THEN "trying" ELSE call

-----------------------------------------------------------------------------
(* The writer.                                                             *)

\* Entry of iso_ring_buffer_write().  A writer that was told of the end of
\* the reader, or that announced its own end, makes no further call.
WriteBegin(n) ==
    /\ wcall = "out" /\ wret = 1 /\ wend = 0
    /\ sent + n <= MaxBytes
    /\ wcall' = "trying" /\ wleft' = n
    /\ UNCHANGED <<ringVars, wret, sent, readerVars>>

\* Defect: the copy runs past the end of the memory.
WriteLenDefect == Least(wleft, Cap - size)

\* How much one pass of the loop can copy: neither more than there is room
\* for nor past the end of the memory.
WriteLen == Least(Least(wleft, Cap - size), Cap - wpos)

WriteCopy ==
    /\ wcall = "trying" /\ size < Cap
    /\ buf' = [i \in 0 .. Cap - 1 |->
                 IF i \in wpos .. wpos + WriteLen - 1
                 THEN sent + (i - wpos) ELSE buf[i]]
    /\ wpos' = (wpos + WriteLen) % Cap
    /\ size' = size + WriteLen
    /\ sent' = sent + WriteLen
    /\ wleft' = wleft - WriteLen
    /\ wcall' = IF wleft = WriteLen THEN "out" ELSE "trying"
    /\ wret' = 1
    /\ rcall' = Woken(rcall)
    /\ UNCHANGED <<rpos, rend, wend, rleft, rret, got>>

\* Defect: the writer does not look whether the reader has finished.
WriteSleepDefect ==
    /\ wcall = "trying" /\ size = Cap
    /\ wcall' = "asleep"
    /\ UNCHANGED <<ringVars, wleft, wret, sent, readerVars>>

WriteSleep ==
    /\ wcall = "trying" /\ size = Cap /\ rend = 0
    /\ wcall' = "asleep"
    /\ UNCHANGED <<ringVars, wleft, wret, sent, readerVars>>

\* Defect: a buffer with room left is reported as broken pipe.
WriteBrokenDefect ==
    /\ wcall = "trying" /\ rend # 0
    /\ wcall' = "out" /\ wleft' = 0 /\ wret' = 0
    /\ UNCHANGED <<ringVars, sent, readerVars>>

WriteBroken ==
    /\ wcall = "trying" /\ size = Cap /\ rend # 0
    /\ wcall' = "out" /\ wleft' = 0 /\ wret' = 0
    /\ UNCHANGED <<ringVars, sent, readerVars>>

WriteSpurious ==
    /\ wcall = "asleep" /\ wcall' = "trying"
    /\ UNCHANGED <<ringVars, wleft, wret, sent, readerVars>>

\* Defect: the end of the writer is not signalled.
WriterCloseDefect(error) ==
    /\ wcall = "out" /\ (wend = 0 \/ (wend = 1 /\ error))
    /\ wend' = IF error THEN 2 ELSE 1
    /\ UNCHANGED <<buf, size, rpos, wpos, rend, writerVars, readerVars>>

\* The writer thread closes when its image is complete, and once more with an
\* error if the work after that fails (write_function() of ecma119.c).
WriterClose(error) ==
    /\ wcall = "out" /\ (wend = 0 \/ (wend = 1 /\ error))
    /\ wend' = IF error THEN 2 ELSE 1
    /\ rcall' = Woken(rcall)
    /\ UNCHANGED <<buf, size, rpos, wpos, rend, writerVars, rleft, rret, got>>

-----------------------------------------------------------------------------
(* The reader.                                                             *)

\* Entry of iso_ring_buffer_read().  Nothing keeps a reader from it after
\* somebody closed the reading side.
ReadBegin(n) ==
    /\ rcall = "out"
    /\ rcall' = "trying" /\ rleft' = n
    /\ UNCHANGED <<ringVars, rret, got, writerVars>>

ReadLen == Least(Least(rleft, size), Cap - rpos)

ReadCopy ==
    /\ rcall = "trying" /\ size > 0
    /\ got' = got \o [i \in 1 .. ReadLen |-> buf[rpos + i - 1]]
    /\ rpos' = (rpos + ReadLen) % Cap
    /\ size' = size - ReadLen
    /\ rleft' = rleft - ReadLen
    /\ rcall' = IF rleft = ReadLen THEN "out" ELSE "trying"
    /\ rret' = 1
    /\ wcall' = Woken(wcall)
    /\ UNCHANGED <<buf, wpos, rend, wend, wleft, wret, sent>>

\* Defect: the reader does not look whether the writer has finished.
ReadSleepDefect ==
    /\ rcall = "trying" /\ size = 0
    /\ rcall' = "asleep"
    /\ UNCHANGED <<ringVars, rleft, rret, got, writerVars>>

ReadSleep ==
    /\ rcall = "trying" /\ size = 0 /\ wend = 0
    /\ rcall' = "asleep"
    /\ UNCHANGED <<ringVars, rleft, rret, got, writerVars>>

\* Defect: end of file is reported though bytes are left.
ReadEofDefect ==
    /\ rcall = "trying" /\ wend # 0
    /\ rcall' = "out" /\ rleft' = 0 /\ rret' = 0
    /\ UNCHANGED <<ringVars, got, writerVars>>

ReadEof ==
    /\ rcall = "trying" /\ size = 0 /\ wend # 0
    /\ rcall' = "out" /\ rleft' = 0 /\ rret' = 0
    /\ UNCHANGED <<ringVars, got, writerVars>>

ReadSpurious ==
    /\ rcall = "asleep" /\ rcall' = "trying"
    /\ UNCHANGED <<ringVars, rleft, rret, got, writerVars>>

\* Defect: the end of the reader is not signalled.
ReaderCloseDefect(error) ==
    /\ rend = 0
    /\ rend' = IF error THEN 2 ELSE 1
    /\ UNCHANGED <<buf, size, rpos, wpos, wend, writerVars, readerVars>>

\* The reading side is closed by the consumer or on its behalf by another
\* thread, even while a read call goes on.  The first close counts, a later
\* one returns early.
ReaderClose(error) ==
    /\ rend = 0
    /\ rend' = IF error THEN 2 ELSE 1
    /\ wcall' = Woken(wcall)
    /\ UNCHANGED <<buf, size, rpos, wpos, wend, wleft, wret, sent, readerVars>>

\* iso_ring_buffer_get_buf_status(): 1 active, 2 ending, 3 failing,
\* 5 abandoned, 6 ended, 7 aborted.
Status == (IF rend # 0 THEN 4 ELSE 0) + wend + 1

-----------------------------------------------------------------------------
InWrite == WriteCopy \/ WriteSleep \/ WriteBroken
InRead  == ReadCopy \/ ReadSleep \/ ReadEof

Writer == \/ \E n \in WriteSizes : WriteBegin(n)
          \/ InWrite
          \/ \E e \in BOOLEAN : WriterClose(e)

Reader == \/ \E n \in ReadSizes : ReadBegin(n)
          \/ InRead
          \/ \E e \in BOOLEAN : ReaderClose(e)

Next == Writer \/ Reader \/ WriteSpurious \/ ReadSpurious

\* Both threads go on running: inside a call, and between calls, where the
\* consumer reads on or closes, and the writer writes on or, its image being
\* finite, closes.
Fairness ==
    /\ WF_vars(InWrite) /\ WF_vars(InRead)
    /\ WF_vars(wend = 0 /\ Writer) /\ WF_vars(Reader)

Spec     == Init /\ [][Next]_vars
FairSpec == Spec /\ Fairness

-----------------------------------------------------------------------------
TypeOK ==
    /\ buf \in [0 .. Cap - 1 -> Int]
    /\ size \in 0 .. Cap
    /\ rpos \in 0 .. Cap - 1 /\ wpos \in 0 .. Cap - 1
    /\ rend \in 0 .. 2 /\ wend \in 0 .. 2
    /\ wcall \in CallStates /\ rcall \in CallStates
    /\ wleft \in Nat /\ rleft \in Nat
    /\ wret \in {0, 1} /\ rret \in {0, 1}
    /\ sent \in 0 .. MaxBytes
    /\ got \in Seq(Int)

\* What the reader received is a prefix of what the writer sent: no byte of
\* the image is lost, repeated or overtaken, however the copies of the two
\* threads interleave and wrap around the end of the memory.
InOrder == \A i \in 1 .. Len(got) : got[i] = i - 1

\* End of file is reported for a stream that was delivered to its last byte:
\* a writer that closes while the reader sleeps or still has bytes to fetch
\* does not make it miss any.
EofIsComplete == rret = 0 => wend # 0 /\ Len(got) = sent

\* No lost wakeup: a thread that sleeps has nothing to do, a full buffer with
\* a reader that will come, or an empty one with a writer that will come.
NoLostWakeup ==
    /\ wcall = "asleep" => size = Cap /\ rend = 0
    /\ rcall = "asleep" => size = 0 /\ wend = 0

\* A write call ends, be it by success or by the end of the reader, and a read
\* call by success or by the end of the writer.
CallsReturn ==
    /\ wcall # "out" ~> wcall = "out"
    /\ rcall # "out" ~> rcall = "out"

-----------------------------------------------------------------------------
(* Why they hold: the inductive invariant of the proofs.                   *)

\* The memory cell of the k-th byte in the buffer, counted from 0.
Offset(k) == (rpos + k) % Cap

\* Between the two positions lies what was sent and not yet received.
Content ==
    /\ sent = Len(got) + size
    /\ wpos = Offset(size)
    /\ \A k \in 0 .. size - 1 : buf[Offset(k)] = Len(got) + k

\* What a thread within a call, or done with its calls, may rely on.
Calls ==
    /\ wcall # "out" => wleft > 0 /\ sent + wleft <= MaxBytes /\ wend = 0
    /\ rcall # "out" => rleft > 0
    /\ wret = 0 => rend # 0 /\ wcall = "out"
    /\ rret = 0 => wend # 0 /\ size = 0

\* The state of the buffer at any moment explains what both threads saw: it
\* holds exactly the bytes under way, in order, at the positions both use.
RingInv == TypeOK /\ Content /\ Calls /\ InOrder /\ NoLostWakeup

-----------------------------------------------------------------------------
(* The bounded byte stream that the buffer implements.                     *)

Stream == INSTANCE ByteStream WITH
    inflight  <- [k \in 1 .. size |-> buf[Offset(k - 1)]],
    accepted  <- sent,
    delivered <- got,
    wclosed   <- wend # 0,
    rclosed   <- rend # 0,
    eof       <- rret = 0,
    broken    <- wret = 0

\* The ring buffer keeps every promise of the abstract stream.
ImplementsStream == Stream!StreamSpec
=============================================================================
