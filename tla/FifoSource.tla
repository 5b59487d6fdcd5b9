----------------------------- MODULE FifoSource -----------------------------
(***************************************************************************)
(* The fifo of libburn (libburn/file.c, its thread management in           *)
(* libburn/async.c): a burn_source which reads another burn_source, the    *)
(* input, by a thread of its own and keeps the bytes in a ring buffer      *)
(* without any lock.                                                       *)
(*                                                                         *)
(* Three parties act: the shoveller thread, its client, which starts it by *)
(* the first read, reads, peeks, and at last frees the fifo, and a pending *)
(* cancellation of the thread.  An action is what a thread does between    *)
(* two accesses to shared volatile variables of struct burn_source_fifo.   *)
(* A byte is identified by its position in the input.  A struct that was   *)
(* freed is taken to keep its content, the mildest outcome.                *)
(***************************************************************************)
EXTENDS Integers, Sequences

CONSTANTS
    Chunk, Chunks,    \* chunksize and chunks of burn_fifo_source_new()
    InpReadSize,      \* what the shoveller asks of the input at once
    InputLens,        \* lengths that the input may have
    InputFails,       \* whether it may end by an error, a set of BOOLEAN
    ReadSizes,        \* sizes the client reads with
    PeekSizes,        \* sizes the client peeks with
    ThreadFails,      \* whether pthread_create() may fail
    ClientFrees       \* whether the client disposes the fifo

ASSUME FifoAssumption ==
    /\ Chunk \in Nat \ {0} /\ Chunks \in Nat \ {0, 1}
    /\ InpReadSize \in Nat \ {0}
    /\ InputLens \subseteq Nat /\ InputFails \subseteq BOOLEAN
    /\ ReadSizes \subseteq Nat \ {0} /\ PeekSizes \subseteq Nat \ {0}
    /\ ThreadFails \in BOOLEAN /\ ClientFrees \in BOOLEAN

BufSize == Chunk * Chunks

VARIABLES
    \* the input
    inputLen, inputFails, inpAlive,
    \* struct burn_source_fifo
    mem,               \* the bytes of the ring buffer
    memory,            \* "none" (buf = NULL), "alloc", "dangling" (freed only)
    writepos, readpos, endOfInput, inputError, endOfConsumption,
    inCounter, outCounter, started, threadIsValid, fsAlive,
    \* the shoveller thread
    s, taken, transEnd, cancelled,
    listed,            \* it has an item in the list of workers
    warned,            \* remove_worker() did not find an item
    \* the client
    c, want, todo, dest, step, ret, got, view, peeked

inputVars  == <<inputLen, inputFails, inpAlive>>
posVars    == <<writepos, readpos>>
endVars    == <<endOfInput, inputError, endOfConsumption>>
threadVars == <<s, taken, transEnd>>
workVars   == <<cancelled, listed, warned>>
callVars   == <<want, todo, dest, step>>
seenVars   == <<ret, got, view, peeked>>
structVars == <<inCounter, outCounter, started, threadIsValid, fsAlive>>
fifoVars   == <<inputVars, mem, memory, posVars, endVars, structVars,
                threadVars, workVars, c, callVars, seenVars>>

Garbage == -1       \* a byte that is not from the input
NoRet   == -9       \* no call has returned yet
NoPeek  == [size |-> 0, ret |-> NoRet, data |-> <<>>, arrived |-> 0]

FifoInit ==
    /\ inputLen \in InputLens /\ inputFails \in InputFails /\ inpAlive = TRUE
    /\ mem = [i \in 0 .. BufSize - 1 |-> Garbage] /\ memory = "none"
    /\ writepos = 0 /\ readpos = 0
    /\ endOfInput = FALSE /\ inputError = FALSE /\ endOfConsumption = 0
    /\ inCounter = 0 /\ outCounter = 0
    /\ started = FALSE /\ threadIsValid = FALSE /\ fsAlive = TRUE
    /\ s = "unborn" /\ taken = 0 /\ transEnd = FALSE
    /\ cancelled = FALSE /\ listed = FALSE /\ warned = FALSE
    /\ c = "idle" /\ want = 0 /\ todo = 0 /\ dest = <<>> /\ step = 0
    /\ ret = NoRet /\ got = <<>> /\ view = 0 /\ peeked = NoPeek

Lesser(a, b) == IF a < b THEN a ELSE b

-----------------------------------------------------------------------------
(* burn_fifo_source_shoveller()                                            *)

\* The fields by which burn_fifo_abort() finds the thread.
ShovelEnter ==
    /\ s = "start"
    /\ s' = "loop" /\ threadIsValid' = TRUE
    /\ UNCHANGED <<inputVars, mem, memory, posVars, endVars, inCounter, outCounter,
                   started, fsAlive, taken, transEnd, workVars, c,
                   callVars, seenVars>>

ShovelLoop ==
    /\ s = "loop"
    /\ s' = IF endOfConsumption = 0 THEN "space" ELSE "drain"
    /\ UNCHANGED <<inputVars, mem, memory, posVars, endVars, structVars, taken,
                   transEnd, workVars, c, callVars, seenVars>>

\* Defect: no byte stays free, a full buffer looks like an empty one.
FreeBytesDefect(r, w) ==
    IF r = w THEN BufSize ELSE IF r > w THEN r - w ELSE BufSize - w + r

\* One byte always stays free: equal positions mean an empty buffer.
FreeBytes(r, w) ==
    IF r = w THEN BufSize - 1
    ELSE IF r > w THEN r - w - 1 ELSE BufSize - w + r - 1

\* While there is less room than one read may deliver it sleeps and looks
\* again.  A separate piece of memory serves if the room is split.
ShovelSpace ==
    /\ s = "space" /\ FreeBytes(readpos, writepos) >= InpReadSize
    /\ s' = "read"
    /\ transEnd' = (readpos < writepos /\ BufSize - writepos < InpReadSize)
    /\ UNCHANGED <<inputVars, mem, memory, posVars, endVars, structVars, taken,
                   workVars, c, callVars, seenVars>>

\* The memory gets n bytes of the input from the write position on, around
\* the end of the ring buffer only by way of the separate piece.
Stored(n) ==
    [i \in 0 .. BufSize - 1 |->
       IF i \in writepos .. writepos + n - 1 THEN inCounter + (i - writepos)
       ELSE IF transEnd /\ i + BufSize \in writepos .. writepos + n - 1
       THEN inCounter + (i + BufSize - writepos)
       ELSE mem[i]]

\* Only the last buffer of a source may be incomplete.
ShovelRead ==
    /\ s = "read" /\ inCounter < inputLen
    /\ LET n == Lesser(InpReadSize, inputLen - inCounter) IN
         /\ taken' = n
         /\ mem' = Stored(n)
         /\ inCounter' = inCounter + n
    /\ s' = "publish"
    /\ UNCHANGED <<inputVars, memory, posVars, endVars, outCounter, started,
                   threadIsValid, fsAlive, transEnd, workVars, c, callVars, seenVars>>

ShovelPublish ==
    /\ s = "publish"
    /\ s' = "loop"
    /\ writepos' = IF transEnd /\ taken >= BufSize - writepos
                   THEN taken - (BufSize - writepos)
                   ELSE IF ~transEnd /\ writepos + taken = BufSize THEN 0
                   ELSE writepos + taken
    /\ UNCHANGED <<inputVars, mem, memory, readpos, endVars, structVars, taken,
                   transEnd, workVars, c, callVars, seenVars>>

\* The input delivers no more, or failed.
ShovelInputEnds ==
    /\ s = "read" /\ inCounter = inputLen
    /\ s' = "eoi" /\ inputError' = inputFails
    /\ UNCHANGED <<inputVars, mem, memory, posVars, endOfInput, endOfConsumption,
                   structVars, taken, transEnd, workVars, c, callVars,
                   seenVars>>

\* Defect: the end of input is not made known.
ShovelEndOfInputDefect ==
    /\ s = "eoi" /\ s' = "drain"
    /\ UNCHANGED <<inputVars, mem, memory, posVars, endVars, structVars, taken,
                   transEnd, workVars, c, callVars, seenVars>>

ShovelEndOfInput ==
    /\ s = "eoi"
    /\ s' = "drain"
    /\ endOfInput' = (endOfInput \/ endOfConsumption = 0)
    /\ UNCHANGED <<inputVars, mem, memory, posVars, inputError, endOfConsumption,
                   structVars, taken, transEnd, workVars, c, callVars,
                   seenVars>>

\* Defect: the buffer is disposed as soon as the input ends.
ShovelDrainedDefect ==
    /\ s = "drain" /\ s' = "claim"
    /\ UNCHANGED <<inputVars, mem, memory, posVars, endVars, structVars, taken,
                   transEnd, workVars, c, callVars, seenVars>>

\* It polls until the client has read everything or ended its reading.
ShovelDrained ==
    /\ s = "drain" /\ (readpos = writepos \/ endOfConsumption # 0)
    /\ s' = "claim"
    /\ UNCHANGED <<inputVars, mem, memory, posVars, endVars, structVars, taken,
                   transEnd, workVars, c, callVars, seenVars>>

ShovelClaim ==
    /\ s = "claim"
    /\ s' = "free"
    /\ endOfConsumption' = IF endOfConsumption = 0 THEN 2 ELSE endOfConsumption
    /\ UNCHANGED <<inputVars, mem, memory, posVars, endOfInput, inputError,
                   structVars, taken, transEnd, workVars, c, callVars,
                   seenVars>>

ShovelFree ==
    /\ s = "free"
    /\ s' = "forget"
    /\ memory' = IF memory = "alloc" THEN "dangling" ELSE memory
    /\ UNCHANGED <<inputVars, mem, posVars, endVars, structVars, taken, transEnd,
                   workVars, c, callVars, seenVars>>

ShovelForget ==
    /\ s = "forget"
    /\ s' = "invalidate" /\ memory' = "none"
    /\ UNCHANGED <<inputVars, mem, posVars, endVars, structVars, taken, transEnd,
                   workVars, c, callVars, seenVars>>

\* Its last access to the fifo is the result computed after that.
ShovelInvalidate ==
    /\ s = "invalidate"
    /\ s' = "result" /\ threadIsValid' = FALSE
    /\ UNCHANGED <<inputVars, mem, memory, posVars, endVars, inCounter, outCounter,
                   started, fsAlive, taken, transEnd, workVars, c,
                   callVars, seenVars>>

ShovelResult ==
    /\ s = "result"
    /\ s' = "remove"
    /\ UNCHANGED <<inputVars, mem, memory, posVars, endVars, structVars, taken,
                   transEnd, workVars, c, callVars, seenVars>>

\* remove_worker(): takes the item of the thread from the list of workers.
RemoveWorker ==
    /\ listed' = FALSE
    /\ warned' = (warned \/ ~listed)

ShovelRemove ==
    /\ s = "remove"
    /\ s' = "dead" /\ RemoveWorker
    /\ UNCHANGED <<inputVars, mem, memory, posVars, endVars, structVars, taken,
                   transEnd, cancelled, c, callVars, seenVars>>

Shoveller ==
    \/ ShovelEnter \/ ShovelLoop \/ ShovelSpace \/ ShovelRead \/ ShovelPublish
    \/ ShovelInputEnds \/ ShovelEndOfInput \/ ShovelDrained \/ ShovelClaim
    \/ ShovelFree \/ ShovelForget \/ ShovelInvalidate \/ ShovelResult
    \/ ShovelRemove

\* PTHREAD_CANCEL_ASYNCHRONOUS: a requested cancellation takes effect at any
\* later moment.
ShovellerDies ==
    /\ cancelled /\ s \notin {"unborn", "never", "dead"}
    /\ s' = "dead"
    /\ UNCHANGED <<inputVars, mem, memory, posVars, endVars, structVars, taken,
                   transEnd, workVars, c, callVars, seenVars>>
-----------------------------------------------------------------------------
(* fifo_read()                                                             *)

notClient == <<inputVars, writepos, threadVars>>

\* burn_fifo_start(): the buffer, an item in the list of workers, the thread.
\* add_worker() does not tell when pthread_create() failed.
StartThread ==
    IF started
    THEN UNCHANGED <<started, memory, listed, s>>
    ELSE /\ started' = TRUE /\ memory' = "alloc"
         /\ \/ s' = "start" /\ listed' = TRUE
            \/ ThreadFails /\ s' = "never" /\ listed' = FALSE

ReadBegin(n) ==
    /\ c = "idle" /\ endOfConsumption = 0
    /\ StartThread
    /\ c' = "poll" /\ want' = n /\ todo' = n
    /\ dest' = [i \in 1 .. n |-> Garbage]
    /\ UNCHANGED <<inputVars, mem, posVars, endVars, inCounter, outCounter,
                   threadIsValid, fsAlive, taken, transEnd, cancelled,
                   warned, step, seenVars>>

\* Once the consumption is marked as ended, every read yields end of file.
ReadAfterEnd ==
    /\ c = "idle" /\ endOfConsumption # 0
    /\ ret' = 0
    /\ UNCHANGED <<inputVars, mem, memory, posVars, endVars, structVars, threadVars,
                   workVars, c, callVars, got, view, peeked>>

ReadPoll ==
    /\ c = "poll"
    /\ c' = IF readpos = writepos THEN "checkEoi" ELSE "copy"
    /\ UNCHANGED <<inputVars, mem, memory, posVars, endVars, structVars, threadVars,
                   workVars, callVars, seenVars>>

\* Defect: an empty buffer is taken for the end of the input.
ReadCheckEoiDefect ==
    /\ c = "checkEoi" /\ c' = "copy"
    /\ UNCHANGED <<inputVars, mem, memory, posVars, endVars, structVars, threadVars,
                   workVars, callVars, seenVars>>

ReadCheckEoi ==
    /\ c = "checkEoi"
    /\ c' = IF endOfInput THEN "copy" ELSE "checkError"
    /\ UNCHANGED <<inputVars, mem, memory, posVars, endVars, structVars, threadVars,
                   workVars, callVars, seenVars>>

\* A partial buffer is still delivered, else the error is forwarded; without
\* an error it sleeps and polls again.
ReadCheckError ==
    /\ c = "checkError"
    /\ \/ ~inputError /\ c' = "poll" /\ UNCHANGED <<endOfConsumption, ret>>
       \/ inputError /\ todo < want /\ c' = "copy" /\ UNCHANGED <<endOfConsumption, ret>>
       \/ inputError /\ todo = want /\ c' = "idle" /\ endOfConsumption' = 1 /\ ret' = -1
    /\ UNCHANGED <<inputVars, mem, memory, posVars, endOfInput, inputError,
                   structVars, threadVars, workVars, callVars, got, view, peeked>>

\* What can be copied at once.
Available ==
    Lesser(todo, IF writepos >= readpos THEN writepos - readpos ELSE BufSize - readpos)

\* memcpy(buffer, fs->buf + (size - todo) + rpos, diff): what was copied so
\* far moves the place to copy from, and not the place to copy to.
SourcePlace(i) == readpos + (want - todo) + (i - 1)

CopySource(i) == IF SourcePlace(i) < BufSize THEN mem[SourcePlace(i)] ELSE Garbage

CopyTarget(i) == i

ReadCopy ==
    /\ c = "copy" /\ Available > 0
    /\ dest' = [j \in 1 .. want |->
                  IF \E i \in 1 .. Available : CopyTarget(i) = j
                  THEN CopySource(CHOOSE i \in 1 .. Available : CopyTarget(i) = j)
                  ELSE dest[j]]
    /\ step' = Available /\ c' = "advance"
    /\ UNCHANGED <<inputVars, mem, memory, posVars, endVars, structVars, threadVars,
                   workVars, want, todo, seenVars>>

\* The read position passes the end of the buffer before it is set to 0.
ReadAdvance ==
    /\ c = "advance"
    /\ readpos' = readpos + step /\ c' = "wrap"
    /\ UNCHANGED <<inputVars, mem, memory, writepos, endVars, structVars, threadVars,
                   workVars, callVars, seenVars>>

ReadWrap ==
    /\ c = "wrap"
    /\ readpos' = IF readpos >= BufSize THEN 0 ELSE readpos
    /\ todo' = todo - step
    /\ c' = IF todo > step THEN "poll" ELSE "finish"
    /\ UNCHANGED <<inputVars, mem, memory, writepos, endVars, structVars, threadVars,
                   workVars, want, dest, step, seenVars>>

ReadDone == c = "finish" \/ (c = "copy" /\ Available = 0)

ReadFinish ==
    /\ ReadDone
    /\ c' = "idle"
    /\ ret' = want - todo
    /\ got' = got \o SubSeq(dest, 1, want - todo)
    /\ endOfConsumption' = IF todo = want THEN 1 ELSE endOfConsumption
    /\ outCounter' = outCounter + (want - todo)
    /\ UNCHANGED <<inputVars, mem, memory, posVars, endOfInput, inputError, inCounter,
                   started, threadIsValid, fsAlive, threadVars, workVars, callVars,
                   view, peeked>>

FifoRead ==
    \/ ReadPoll \/ ReadCheckEoi \/ ReadCheckError
    \/ ReadCopy \/ ReadAdvance \/ ReadWrap \/ ReadFinish

-----------------------------------------------------------------------------
(* burn_fifo_peek_data()                                                   *)

\* It starts the thread by a read of 0 bytes.
PeekBegin(n) ==
    /\ c = "idle"
    /\ IF endOfConsumption = 0 THEN StartThread
       ELSE UNCHANGED <<started, memory, listed, s>>
    /\ c' = "peek" /\ want' = n /\ todo' = 0 /\ dest' = <<>>
    /\ UNCHANGED <<inputVars, mem, posVars, endVars, inCounter, outCounter,
                   threadIsValid, fsAlive, taken, transEnd, cancelled,
                   warned, step, seenVars>>

\* burn_fifo_inquire_status() reads the positions ...
PeekPositions ==
    /\ c = "peek" /\ c' = "peekDecide"
    /\ view' = FreeBytes(readpos, writepos)
    /\ UNCHANGED <<inputVars, mem, memory, posVars, endVars, structVars, threadVars,
                   workVars, callVars, ret, got, peeked>>

PeekReturns(r) ==
    /\ c' = "idle"
    /\ peeked' = [size |-> want, ret |-> r, arrived |-> inCounter,
                  data |-> IF r = 1 THEN [i \in 1 .. want |-> mem[i - 1]] ELSE <<>>]

\* Defect: data that were read already may still be peeked at.
RefusedDefect == BufSize - InpReadSize < want
                 \/ endOfConsumption # 0 \/ memory # "alloc"

\* The demand is too large, or the beginning of the input may be overwritten.
Refused == BufSize - InpReadSize < want \/ outCounter > 0
           \/ endOfConsumption # 0 \/ memory # "alloc"

\* ... and then the flags.
PeekDecide ==
    /\ c = "peekDecide"
    /\ \/ Refused /\ PeekReturns(-1)
       \/ ~Refused /\ BufSize - view >= want /\ PeekReturns(1)
       \/ ~Refused /\ BufSize - view < want /\ (inputError \/ endOfInput)
          /\ PeekReturns(0)
       \/ ~Refused /\ BufSize - view < want /\ ~(inputError \/ endOfInput)
          /\ IF view < InpReadSize THEN PeekReturns(0)
             ELSE c' = "peek" /\ UNCHANGED peeked
    /\ UNCHANGED <<inputVars, mem, memory, posVars, endVars, structVars, threadVars,
                   workVars, callVars, ret, got, view>>

-----------------------------------------------------------------------------
(* burn_source_free() of the last reference: fifo_free()                   *)

\* burn_fifo_abort() finds a thread if it has entered and not yet left.
FreeBegin ==
    /\ ClientFrees /\ c = "idle"
    /\ c' = IF threadIsValid THEN "abort" ELSE "freeInput"
    /\ UNCHANGED <<inputVars, mem, memory, posVars, endVars, structVars, threadVars,
                   workVars, callVars, seenVars>>

FreeAbort ==
    /\ c = "abort"
    /\ RemoveWorker /\ c' = "cancelThread"
    /\ UNCHANGED <<inputVars, mem, memory, posVars, endVars, structVars, threadVars,
                   cancelled, callVars, seenVars>>

\* pthread_cancel() only requests the end of the thread.
FreeCancel ==
    /\ c = "cancelThread"
    /\ cancelled' = TRUE /\ c' = "freeInput"
    /\ UNCHANGED <<inputVars, mem, memory, posVars, endVars, structVars, threadVars,
                   listed, warned, callVars, seenVars>>

FreeInput ==
    /\ c = "freeInput"
    /\ inpAlive' = FALSE /\ c' = "freeMemory"
    /\ UNCHANGED <<inputLen, inputFails, mem, memory, posVars, endVars, structVars,
                   threadVars, workVars, callVars, seenVars>>

FreeMemory ==
    /\ c = "freeMemory"
    /\ c' = "freeStruct"
    /\ memory' = IF memory = "alloc" THEN "dangling" ELSE memory
    /\ UNCHANGED <<inputVars, mem, posVars, endVars, structVars, threadVars,
                   workVars, callVars, seenVars>>

FreeStruct ==
    /\ c = "freeStruct"
    /\ fsAlive' = FALSE /\ c' = "gone"
    /\ UNCHANGED <<inputVars, mem, memory, posVars, endVars, inCounter, outCounter,
                   started, threadIsValid, threadVars, workVars, callVars, seenVars>>

FifoFree == FreeAbort \/ FreeCancel \/ FreeInput \/ FreeMemory \/ FreeStruct

-----------------------------------------------------------------------------
Client ==
    \/ \E n \in ReadSizes : ReadBegin(n)
    \/ ReadAfterEnd \/ FifoRead
    \/ \E n \in PeekSizes : PeekBegin(n)
    \/ PeekPositions \/ PeekDecide
    \/ FreeBegin \/ FifoFree

FifoNext == Shoveller \/ ShovellerDies \/ Client

\* The thread runs, and so does the client within a call of a method; it is
\* left open whether the client goes on to read.
FifoSpec ==
    /\ FifoInit /\ [][FifoNext]_fifoVars
    /\ WF_fifoVars(Shoveller) /\ WF_fifoVars(FifoRead)
    /\ WF_fifoVars(PeekPositions \/ PeekDecide) /\ WF_fifoVars(FifoFree)
    /\ WF_fifoVars(ShovellerDies)

-----------------------------------------------------------------------------
ShovellerStates ==
    {"unborn", "never", "start", "loop", "space", "read", "publish", "eoi", "drain",
     "claim", "free", "forget", "invalidate", "result", "remove", "dead"}
ClientStates ==
    {"idle", "poll", "checkEoi", "checkError", "copy", "advance", "wrap", "finish",
     "peek", "peekDecide", "abort", "cancelThread", "freeInput", "freeMemory",
     "freeStruct", "gone"}

FifoTypeOK ==
    /\ inputLen \in Nat /\ {inputFails, inpAlive} \subseteq BOOLEAN
    /\ mem \in [0 .. BufSize - 1 -> Int] /\ memory \in {"none", "alloc", "dangling"}
    /\ writepos \in Nat /\ readpos \in Nat
    /\ {endOfInput, inputError, started, threadIsValid, fsAlive, transEnd, cancelled,
        listed, warned} \subseteq BOOLEAN
    /\ endOfConsumption \in 0 .. 2
    /\ inCounter \in 0 .. inputLen /\ outCounter \in Nat /\ taken \in Nat
    /\ s \in ShovellerStates /\ c \in ClientStates
    /\ {want, todo, step, view} \subseteq Nat
    /\ ret \in {NoRet, -1} \cup Nat
    /\ got \in Seq(Int) /\ dest \in Seq(Int)

\* The client receives the bytes of the input, each once and in order, though
\* no lock protects the positions and the shoveller may see a read position
\* past the end of the buffer.
BytesInOrder == \A i \in 1 .. Len(got) : got[i] = i - 1

\* The two steps that touch the ring buffer, when they are due, and the places
\* they are going to touch, as indices from the start of the buffer.
WriterDue == s = "read" /\ inCounter < inputLen
WriterPlaces ==
    LET n == Lesser(InpReadSize, inputLen - inCounter) IN
    {IF transEnd /\ writepos + k >= BufSize THEN writepos + k - BufSize
     ELSE writepos + k : k \in 0 .. n - 1}
ReaderDue == c = "copy" /\ Available > 0
ReaderPlaces == {SourcePlace(i) : i \in 1 .. Available}

\* The shoveller never writes past the end of the ring buffer, nor does
\* fifo_read() copy from there.
NoOverrun  == WriterDue => WriterPlaces \subseteq DOMAIN mem
NoOverread == ReaderDue => ReaderPlaces \subseteq DOMAIN mem

\* The comment in burn_fifo_source_shoveller() on disposing the buffer: a
\* client that is about to copy finds the buffer allocated.
CopiesFromLivingBuffer == ReaderDue => memory = "alloc"

\* The shoveller writes to the buffer only while it is allocated, or else it
\* was fifo_free() that disposed it.
WriterOutlived == c \in {"freeStruct", "gone"}
WritesToLivingBuffer == WriterDue => memory = "alloc" \/ WriterOutlived

\* Until fifo_free() disposes the ring buffer: whatever both parties see of
\* each other's positions, the shoveller writes and the client copies within
\* the buffer, and while it is allocated; and the variables stay within their
\* types.  What a shoveller writes after that is BufferOutlivesWriter.  (A
\* peek tests fs->buf in the step that copies.)
MemorySafe ==
    /\ FifoTypeOK
    /\ NoOverrun /\ NoOverread
    /\ CopiesFromLivingBuffer /\ WritesToLivingBuffer

\* fifo_free() cancels the shoveller but does not wait for its end: no write
\* to the ring buffer is due once it was freed.
BufferOutlivesWriter == WriterDue => memory = "alloc"

\* End of file after an input without error means that all of it was delivered.
EofAfterAllBytes == ret = 0 /\ ~inputError => Len(got) = inputLen

\* A read call ends.
ReadCallReturns == c = "poll" ~> c = "idle"

\* After the input has ended and everything is consumed, the buffer gets freed
\* and the thread ends.
ShovellerEnds == endOfConsumption # 0 ~> memory # "alloc" /\ s = "dead"

\* Neither party polls for the other one forever.
NobodyPollsForever == ReadCallReturns /\ ShovellerEnds

\* A successful peek shows so many bytes from the beginning of the input.
PeekShowsInput ==
    peeked.ret = 1 => \A i \in 1 .. peeked.size : peeked.data[i] = i - 1

\* A peek says "not enough data" only if not enough had arrived when it said so.
PeekMissesNothing ==
    peeked.ret = 0 => peeked.arrived < peeked.size

\* An input that fails is not taken for one that ends: the reader of the fifo
\* gets failure where the input failed.
FailureIsForwarded == ret = 0 => ~inputError

\* The item of a worker is there when it is to be removed.
WorkerIsFound == ~warned

\* Disposing the ring buffer is "not prone to race conditions": no party is
\* about to free it when the other one has done so.
BufferFreedOnce == memory = "dangling" => s # "free" /\ c # "freeMemory"

\* The input lives as long as somebody may read from it.
InputOutlivesThread == ~inpAlive => s # "read"
=============================================================================
