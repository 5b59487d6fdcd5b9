-------------------------- MODULE FifoSourceProofs --------------------------
(***************************************************************************)
(* What holds of the fifo of libburn for every chunk size, number of       *)
(* chunks, input and client: the bytes arrive once and in order, both      *)
(* parties access the ring buffer within its bounds and, until fifo_free() *)
(* disposes it, while it is allocated, end of file means that everything   *)
(* was delivered, and a peek shows the beginning of the input.             *)
(*                                                                         *)
(* fifo_read() takes the place to copy from to be readpos plus what it has *)
(* copied already, though it advanced readpos by that much.  The theorems  *)
(* therefore need that a call is never served by two copies with data,     *)
(* which AlignedCalls grants; the runs MCFifoLargeReads, MCFifoUnaligned   *)
(* and MCFifoPeekAll show what happens without the premises.               *)
(*                                                                         *)
(* The argument counts bytes: Arrived is what the shoveller has published, *)
(* Passed what the client has taken from the ring buffer, Fill the         *)
(* difference.  The two positions are these counts modulo the buffer size, *)
(* except between fifo_read()'s advancing and wrapping of readpos, and the *)
(* bytes from Passed on lie in the ring buffer from readpos on (Content).  *)
(***************************************************************************)
EXTENDS FifoSource, TLAPS

Multiple(x, n) == \E q \in Nat : x = q * n

\* How the burn functions use a fifo: all reads have the size of a sector, the
\* shoveller asks for whole sectors, the buffer is a number of such requests.
AlignedCalls ==
    /\ Multiple(BufSize, InpReadSize)
    /\ \A n \in ReadSizes : Multiple(InpReadSize, n)
    /\ \A m, n \in ReadSizes : m = n

\* burn_fifo_peek_data() takes the free bytes, of which one is never usable,
\* for the room not yet filled.  A demand one byte above an amount that may
\* have arrived would be answered too early.
AlignedPeeks ==
    \A n \in PeekSizes : ~ Multiple(n - 1, InpReadSize) /\ n - 1 \notin InputLens

-----------------------------------------------------------------------------
(* The inductive invariant                                                 *)

\* Phases of the client and of the shoveller.
Freeing == {"abort", "cancelThread", "freeInput", "freeMemory", "freeStruct", "gone"}
Polling == {"poll", "checkEoi", "checkError", "copy"}
InRead  == Polling \cup {"advance", "wrap", "finish"}
Past    == {"claim", "free", "forget", "invalidate", "result", "remove", "dead"}
Later   == {"eoi", "drain"} \cup Past
Early   == {"start", "loop", "space", "read", "publish", "eoi", "drain", "claim", "free",
            "never"}

\* The client has not begun to dispose the fifo.
Live    == c \notin Freeing

\* Bytes stored and not yet published, published, taken by the client, and
\* waiting in the ring buffer.
Pending == IF s = "publish" THEN taken ELSE 0
Arrived == inCounter - Pending
Passed  == Len(got) + (IF c \in Polling \cup {"finish"} THEN want - todo
                       ELSE IF c = "wrap" THEN step ELSE 0)
Fill    == Arrived - Passed
Norm(a) == IF a < BufSize THEN a ELSE a - BufSize
Exhausted == inCounter = inputLen /\ Pending = 0

\* The shoveller writes at multiples of its request size, up to its last
\* buffer; hence the room for a request is never split.
WriteAligned == Multiple(writepos, InpReadSize) \/ (inCounter = inputLen /\ s # "publish")
PublishOK == s = "publish" =>
   /\ taken \in 1 .. InpReadSize /\ taken <= inCounter
   /\ taken = InpReadSize \/ inCounter = inputLen
   /\ writepos + taken <= BufSize
\* The end of the input is known only when it has come.
InputEnd ==
   /\ endOfInput \/ inputError \/ s = "eoi" => inCounter = inputLen
   /\ endOfInput \/ inputError => s \in Later

\* What holds of the shoveller even while the fifo is being disposed.
ShovelOK == /\ (s = "publish" \/ (s = "read" /\ inCounter < inputLen) => ~ transEnd)
            /\ writepos < BufSize
            /\ WriteAligned /\ PublishOK /\ InputEnd

\* What the client got.
Delivered ==
   /\ BytesInOrder /\ outCounter = Len(got)
   /\ EofAfterAllBytes

\* The thread, the buffer, and the mark at which both parties stop.
Thread ==
   /\ cancelled = FALSE
   /\ s = "unborn" <=> ~started
   /\ s \in Early => memory = "alloc"
   /\ s \in {"drain"} \cup Past /\ endOfConsumption # 1 => inCounter = inputLen
   /\ s \in Past => endOfConsumption = 1 \/ Fill = 0
   /\ endOfConsumption = 2 => s \in Past \ {"claim"}
   /\ s \in Past \ {"claim"} => endOfConsumption # 0

\* The positions tell the counts.
Positions ==
   /\ Fill \in 0 .. BufSize - 1 /\ Fill + Pending <= BufSize - 1
   /\ readpos <= BufSize /\ (c # "wrap" => readpos < BufSize)
   /\ writepos = Norm(Norm(readpos) + Fill)
   /\ Passed = 0 => readpos = 0
   /\ s = "read" => Fill + InpReadSize <= BufSize - 1

\* Each byte that waits, published or not, lies at its place.
Content == \A k \in 0 .. Fill + Pending - 1 : mem[Norm(Norm(readpos) + k)] = Passed + k

\* Only at the end of the input do the counts fit no multiple.
Amounts ==
   /\ Multiple(Arrived, InpReadSize) \/ Exhausted
   /\ \A n \in ReadSizes : Multiple(readpos, n) \/ (Exhausted /\ Fill = 0)

\* What the call under way has in its destination, and that a call which was
\* served in part finds no more data.
CallOK ==
   /\ c \in InRead =>
        /\ started /\ endOfConsumption # 1
        /\ want \in ReadSizes /\ dest \in [1 .. want -> Int] /\ todo \in 0 .. want
   /\ c \in Polling =>
        /\ todo > 0
        /\ todo < want => Exhausted /\ Fill = 0
   /\ c \in Polling \cup {"finish"} => \A j \in 1 .. want - todo : dest[j] = Len(got) + j - 1
   /\ c = "finish" => todo = 0
   /\ c = "copy" => Fill > 0 \/ todo < want \/ endOfInput
   /\ c \in {"advance", "wrap"} =>
        /\ todo = want /\ step \in 1 .. want
        /\ \A j \in 1 .. step : dest[j] = Len(got) + j - 1
        /\ step < want => Exhausted /\ Fill = (IF c = "advance" THEN step ELSE 0)
   /\ c = "advance" => step <= Fill /\ readpos + step <= BufSize

\* The client ended its consumption without an error: it has everything.
Ended == endOfConsumption = 1 /\ ~inputError => Len(got) = inputLen

LiveInv == Thread /\ Positions /\ Content /\ Amounts /\ CallOK /\ Ended

FifoInv == FifoTypeOK /\ ShovelOK /\ Delivered /\ (Live => LiveInv)

\* Between reading the positions and the flags: what the peeker takes for
\* filled had arrived, and is an amount at which the shoveller stops.
PeekOK == c = "peekDecide" /\ outCounter = 0 =>
    LET q == BufSize - 1 - view
    IN q \in 0 .. Arrived /\ (Multiple(q, InpReadSize) \/ q = inputLen)

\* What a peek call works with.
ViewOK == inputLen \in InputLens /\ (c \in {"peek", "peekDecide"} => want \in PeekSizes)
PeekInv == PeekShowsInput /\ ViewOK /\ PeekOK

-----------------------------------------------------------------------------
(* Multiples                                                               *)

LEMMA Constants ==
  /\ BufSize \in Nat /\ BufSize >= 2 /\ InpReadSize \in Nat \ {0}
  /\ \A n \in ReadSizes : n \in Nat \ {0}
<1>1. \A a, b \in Nat : a >= 1 /\ b >= 2 => a * b \in Nat /\ a * b >= 2
  OBVIOUS
<1> QED
  BY <1>1, FifoAssumption DEF BufSize

\* Two multiples are apart by the factor.
LEMMA MultipleGap ==
  ASSUME NEW x \in Nat, NEW y \in Nat, NEW n \in Nat, x < y,
         Multiple(x, n), Multiple(y, n)
  PROVE  x + n <= y
<1>1. PICK a \in Nat : x = a * n
  BY DEF Multiple
<1>2. PICK b \in Nat : y = b * n
  BY DEF Multiple
<1>3. a + 1 <= b
  <2>1. \A i, j \in Nat : i >= j => i * n >= j * n
    OBVIOUS
  <2> QED
    BY <1>1, <1>2, <2>1
<1>4. \A i, j \in Nat : i <= j => i * n <= j * n
  OBVIOUS
<1>5. (a + 1) * n = a * n + n
  OBVIOUS
<1> QED
  BY <1>1, <1>2, <1>3, <1>4, <1>5

LEMMA MultiplePlus ==
  ASSUME NEW x \in Nat, NEW n \in Nat, Multiple(x, n)
  PROVE  Multiple(x + n, n)
<1>1. PICK a \in Nat : x = a * n
  BY DEF Multiple
<1>2. (a + 1) * n = x + n
  BY <1>1
<1> QED
  BY <1>2 DEF Multiple

LEMMA MultipleOfMultiple ==
  ASSUME NEW x \in Nat, NEW m \in Nat, NEW n \in Nat, Multiple(x, m), Multiple(m, n)
  PROVE  Multiple(x, n)
<1>1. PICK a \in Nat : x = a * m
  BY DEF Multiple
<1>2. PICK b \in Nat : m = b * n
  BY DEF Multiple
<1>3. a * b \in Nat /\ (a * b) * n = a * (b * n)
  OBVIOUS
<1> QED
  BY <1>1, <1>2, <1>3 DEF Multiple

LEMMA MultipleZero == ASSUME NEW n \in Nat PROVE Multiple(0, n)
  BY DEF Multiple

-----------------------------------------------------------------------------
\* What the bytes under way depend on.
flowVars == <<inputLen, mem, posVars, inCounter, got, c, callVars>>

\* The counts depend on nothing else.
LEMMA FlowFrame ==
  ASSUME UNCHANGED flowVars, Pending' = Pending
  PROVE  /\ Live' = Live /\ Arrived' = Arrived /\ Passed' = Passed /\ Fill' = Fill
         /\ Content' = Content /\ Amounts' = Amounts /\ Exhausted' = Exhausted
  BY DEF flowVars, posVars, callVars, Live, Arrived, Passed, Fill, Content, Amounts,
         Exhausted, Norm, Pending

\* A step of the shoveller that neither takes bytes nor publishes them.
ShovelQuiet ==
  \/ ShovelEnter \/ ShovelLoop \/ ShovelInputEnds \/ ShovelEndOfInput \/ ShovelDrained
  \/ ShovelClaim \/ ShovelFree \/ ShovelForget \/ ShovelInvalidate \/ ShovelResult
  \/ ShovelRemove

\* Such a step moves no byte.
LEMMA QuietFlow ==
  ASSUME ShovelQuiet
  PROVE  UNCHANGED flowVars /\ Pending' = Pending /\ UNCHANGED <<want, todo, dest, step, taken>>
  BY DEF ShovelQuiet, ShovelEnter, ShovelLoop, ShovelInputEnds, ShovelEndOfInput,
         ShovelDrained, ShovelClaim, ShovelFree, ShovelForget, ShovelInvalidate, ShovelResult,
         ShovelRemove, flowVars, inputVars, seenVars, Pending, callVars, structVars, posVars

-----------------------------------------------------------------------------
\* The counts are numbers within their bounds.
LEMMA Quantities ==
  ASSUME FifoInv, Live
  PROVE  /\ Pending \in Nat /\ Passed \in Nat /\ Fill \in 0 .. BufSize - 1
         /\ Arrived = Passed + Fill /\ Norm(readpos) \in 0 .. BufSize - 1
         /\ (c # "wrap" => Norm(readpos) = readpos)
<1>1. FifoTypeOK /\ Positions /\ PublishOK /\ CallOK
  BY DEF FifoInv, LiveInv, ShovelOK
<1>2. Pending \in Nat
  BY <1>1 DEF FifoTypeOK, Pending
<1>3. Passed \in Nat
  <2>1. Len(got) \in Nat
    BY <1>1 DEF FifoTypeOK
  <2>2. c \in Polling \cup {"finish"} => want - todo \in Nat
    BY <1>1, Constants DEF CallOK, InRead, FifoTypeOK
  <2>3. step \in Nat
    BY <1>1 DEF FifoTypeOK
  <2> QED
    BY <2>1, <2>2, <2>3 DEF Passed
<1>4. Arrived \in Int
  BY <1>1, <1>2 DEF Arrived, FifoTypeOK
<1>5. Fill \in 0 .. BufSize - 1
  BY <1>1 DEF Positions
<1>6. Arrived = Passed + Fill
  BY <1>3, <1>4 DEF Fill
<1>7. Norm(readpos) \in 0 .. BufSize - 1 /\ (c # "wrap" => Norm(readpos) = readpos)
  BY <1>1, Constants DEF Positions, Norm, FifoTypeOK
<1> QED
  BY <1>2, <1>3, <1>5, <1>6, <1>7

\* burn_fifo_inquire_status() and fifo_read() conclude rightly from the
\* positions.
LEMMA PositionsTellFill ==
  ASSUME FifoInv, Live
  PROVE  /\ FreeBytes(readpos, writepos) = BufSize - 1 - Fill
         /\ readpos = writepos => Fill = 0
         /\ c # "wrap" /\ Fill = 0 => readpos = writepos
<1>1. /\ writepos = Norm(Norm(readpos) + Fill) /\ readpos <= BufSize
      /\ readpos \in Nat /\ writepos \in Nat
  BY DEF FifoInv, LiveInv, Positions, FifoTypeOK
<1>2. Norm(readpos) \in 0 .. BufSize - 1 /\ Fill \in 0 .. BufSize - 1
  BY Quantities
<1> QED
  BY <1>1, <1>2, Quantities, Constants DEF Norm, FreeBytes

\* One lemma per group of steps: it keeps the invariant.
LEMMA QuietPreserves ==
  ASSUME FifoInv, ShovelQuiet
  PROVE  FifoInv'
<1> USE DEF FifoInv, inputVars, posVars, endVars, threadVars, workVars, callVars, seenVars, structVars
<1>1. FifoTypeOK'
  <2>1. CASE ShovelEnter
    BY <2>1 DEF ShovelEnter, FifoTypeOK, ShovellerStates
  <2>2. CASE ShovelLoop
    BY <2>2 DEF ShovelLoop, FifoTypeOK, ShovellerStates
  <2>3. CASE ShovelInputEnds
    BY <2>3 DEF ShovelInputEnds, FifoTypeOK, ShovellerStates
  <2>4. CASE ShovelEndOfInput
    BY <2>4 DEF ShovelEndOfInput, FifoTypeOK, ShovellerStates
  <2>5. CASE ShovelDrained
    BY <2>5 DEF ShovelDrained, FifoTypeOK, ShovellerStates
  <2>6. CASE ShovelClaim
    BY <2>6 DEF ShovelClaim, FifoTypeOK, ShovellerStates
  <2>7. CASE ShovelFree
    BY <2>7 DEF ShovelFree, FifoTypeOK, ShovellerStates
  <2>8. CASE ShovelForget
    BY <2>8 DEF ShovelForget, FifoTypeOK, ShovellerStates
  <2>9. CASE ShovelInvalidate
    BY <2>9 DEF ShovelInvalidate, FifoTypeOK, ShovellerStates
  <2>10. CASE ShovelResult
    BY <2>10 DEF ShovelResult, FifoTypeOK, ShovellerStates
  <2>11. CASE ShovelRemove
    BY <2>11 DEF ShovelRemove, FifoTypeOK, ShovellerStates, RemoveWorker
  <2> QED
    BY <2>1, <2>2, <2>3, <2>4, <2>5, <2>6, <2>7, <2>8, <2>9, <2>10, <2>11 DEF ShovelQuiet
<1>2. ShovelOK'
  BY DEF ShovelQuiet, ShovelEnter, ShovelLoop, ShovelInputEnds, ShovelEndOfInput,
         ShovelDrained, ShovelClaim, ShovelFree, ShovelForget, ShovelInvalidate, ShovelResult,
         ShovelRemove, RemoveWorker, inputVars, posVars, endVars, threadVars, workVars, callVars, seenVars,
         structVars, ShovelOK, WriteAligned, PublishOK, InputEnd, Later, Past
<1>3. Delivered'
  <2>1. CASE ShovelEnter
    BY <2>1 DEF ShovelEnter, Delivered, BytesInOrder, EofAfterAllBytes
  <2>2. CASE ShovelLoop
    BY <2>2 DEF ShovelLoop, Delivered, BytesInOrder, EofAfterAllBytes
  <2>3. CASE ShovelInputEnds
    BY <2>3 DEF ShovelInputEnds, Delivered, BytesInOrder, EofAfterAllBytes, InputEnd, ShovelOK, Later, Past, FifoTypeOK
  <2>4. CASE ShovelEndOfInput
    BY <2>4 DEF ShovelEndOfInput, Delivered, BytesInOrder, EofAfterAllBytes
  <2>5. CASE ShovelDrained
    BY <2>5 DEF ShovelDrained, Delivered, BytesInOrder, EofAfterAllBytes
  <2>6. CASE ShovelClaim
    BY <2>6 DEF ShovelClaim, Delivered, BytesInOrder, EofAfterAllBytes
  <2>7. CASE ShovelFree
    BY <2>7 DEF ShovelFree, Delivered, BytesInOrder, EofAfterAllBytes
  <2>8. CASE ShovelForget
    BY <2>8 DEF ShovelForget, Delivered, BytesInOrder, EofAfterAllBytes
  <2>9. CASE ShovelInvalidate
    BY <2>9 DEF ShovelInvalidate, Delivered, BytesInOrder, EofAfterAllBytes
  <2>10. CASE ShovelResult
    BY <2>10 DEF ShovelResult, Delivered, BytesInOrder, EofAfterAllBytes
  <2>11. CASE ShovelRemove
    BY <2>11 DEF ShovelRemove, Delivered, BytesInOrder, EofAfterAllBytes
  <2> QED
    BY <2>1, <2>2, <2>3, <2>4, <2>5, <2>6, <2>7, <2>8, <2>9, <2>10, <2>11 DEF ShovelQuiet
<1>4. ASSUME Live' PROVE Thread' /\ CallOK' /\ Ended'
  <2>0. LiveInv /\ Live /\ UNCHANGED flowVars /\ Pending' = Pending /\ Fill' = Fill /\ Exhausted' = Exhausted
    BY <1>4, QuietFlow, FlowFrame
  <2>1. CASE ShovelEnter
    <3>1. Thread'
      BY <2>0, <2>1 DEF ShovelEnter, LiveInv, Thread, Past, Early, FifoTypeOK, Positions, Norm, ShovelOK, InputEnd, Later
    <3>2. CallOK'
      BY <2>0, <2>1 DEF ShovelEnter, LiveInv, CallOK, flowVars, FifoTypeOK
    <3>3. Ended'
      BY <2>0, <2>1 DEF ShovelEnter, LiveInv, Ended, flowVars, FifoTypeOK
    <3> QED
      BY <3>1, <3>2, <3>3
  <2>2. CASE ShovelLoop
    <3>1. Thread'
      BY <2>0, <2>2 DEF ShovelLoop, LiveInv, Thread, Past, Early, FifoTypeOK, Positions, Norm, ShovelOK, InputEnd, Later
    <3>2. CallOK'
      BY <2>0, <2>2 DEF ShovelLoop, LiveInv, CallOK, flowVars, FifoTypeOK
    <3>3. Ended'
      BY <2>0, <2>2 DEF ShovelLoop, LiveInv, Ended, flowVars, FifoTypeOK
    <3> QED
      BY <3>1, <3>2, <3>3
  <2>3. CASE ShovelInputEnds
    <3>1. Thread'
      BY <2>0, <2>3 DEF ShovelInputEnds, LiveInv, Thread, Past, Early, FifoTypeOK, Positions, Norm, ShovelOK, InputEnd, Later
    <3>2. CallOK'
      BY <2>0, <2>3 DEF ShovelInputEnds, LiveInv, CallOK, flowVars, FifoTypeOK
    <3>3. Ended'
      BY <2>0, <2>3 DEF ShovelInputEnds, LiveInv, Ended, flowVars, FifoTypeOK, ShovelOK, InputEnd, Later, Past
    <3> QED
      BY <3>1, <3>2, <3>3
  <2>4. CASE ShovelEndOfInput
    <3>1. Thread'
      BY <2>0, <2>4 DEF ShovelEndOfInput, LiveInv, Thread, Past, Early, FifoTypeOK, Positions, Norm, ShovelOK, InputEnd, Later
    <3>2. CallOK'
      BY <2>0, <2>4 DEF ShovelEndOfInput, LiveInv, CallOK, flowVars, FifoTypeOK
    <3>3. Ended'
      BY <2>0, <2>4 DEF ShovelEndOfInput, LiveInv, Ended, flowVars, FifoTypeOK
    <3> QED
      BY <3>1, <3>2, <3>3
  <2>5. CASE ShovelDrained
    <3>0. Fill = 0 \/ endOfConsumption # 0
      BY <2>0, <2>5, PositionsTellFill DEF ShovelDrained
    <3>1. Thread'
      BY <2>0, <2>5, <3>0 DEF ShovelDrained, LiveInv, Thread, Past, Early, FifoTypeOK
    <3>2. CallOK'
      BY <2>0, <2>5 DEF ShovelDrained, LiveInv, CallOK, flowVars, FifoTypeOK
    <3>3. Ended'
      BY <2>0, <2>5 DEF ShovelDrained, LiveInv, Ended, flowVars, FifoTypeOK
    <3> QED
      BY <3>1, <3>2, <3>3
  <2>6. CASE ShovelClaim
    <3>1. Thread'
      BY <2>0, <2>6 DEF ShovelClaim, LiveInv, Thread, Past, Early, FifoTypeOK, Positions, Norm, ShovelOK, InputEnd, Later
    <3>2. CallOK'
      BY <2>0, <2>6 DEF ShovelClaim, LiveInv, CallOK, flowVars, FifoTypeOK
    <3>3. Ended'
      BY <2>0, <2>6 DEF ShovelClaim, LiveInv, Ended, flowVars, FifoTypeOK
    <3> QED
      BY <3>1, <3>2, <3>3
  <2>7. CASE ShovelFree
    <3>1. Thread'
      BY <2>0, <2>7 DEF ShovelFree, LiveInv, Thread, Past, Early, FifoTypeOK, Positions, Norm, ShovelOK, InputEnd, Later
    <3>2. CallOK'
      BY <2>0, <2>7 DEF ShovelFree, LiveInv, CallOK, flowVars, FifoTypeOK
    <3>3. Ended'
      BY <2>0, <2>7 DEF ShovelFree, LiveInv, Ended, flowVars, FifoTypeOK
    <3> QED
      BY <3>1, <3>2, <3>3
  <2>8. CASE ShovelForget
    <3>1. Thread'
      BY <2>0, <2>8 DEF ShovelForget, LiveInv, Thread, Past, Early, FifoTypeOK, Positions, Norm, ShovelOK, InputEnd, Later
    <3>2. CallOK'
      BY <2>0, <2>8 DEF ShovelForget, LiveInv, CallOK, flowVars, FifoTypeOK
    <3>3. Ended'
      BY <2>0, <2>8 DEF ShovelForget, LiveInv, Ended, flowVars, FifoTypeOK
    <3> QED
      BY <3>1, <3>2, <3>3
  <2>9. CASE ShovelInvalidate
    <3>1. Thread'
      BY <2>0, <2>9 DEF ShovelInvalidate, LiveInv, Thread, Past, Early, FifoTypeOK, Positions, Norm, ShovelOK, InputEnd, Later
    <3>2. CallOK'
      BY <2>0, <2>9 DEF ShovelInvalidate, LiveInv, CallOK, flowVars, FifoTypeOK
    <3>3. Ended'
      BY <2>0, <2>9 DEF ShovelInvalidate, LiveInv, Ended, flowVars, FifoTypeOK
    <3> QED
      BY <3>1, <3>2, <3>3
  <2>10. CASE ShovelResult
    <3>1. Thread'
      BY <2>0, <2>10 DEF ShovelResult, LiveInv, Thread, Past, Early, FifoTypeOK, Positions, Norm, ShovelOK, InputEnd, Later
    <3>2. CallOK'
      BY <2>0, <2>10 DEF ShovelResult, LiveInv, CallOK, flowVars, FifoTypeOK
    <3>3. Ended'
      BY <2>0, <2>10 DEF ShovelResult, LiveInv, Ended, flowVars, FifoTypeOK
    <3> QED
      BY <3>1, <3>2, <3>3
  <2>11. CASE ShovelRemove
    <3>1. Thread'
      BY <2>0, <2>11 DEF ShovelRemove, LiveInv, Thread, Past, Early, FifoTypeOK, Positions, Norm, RemoveWorker, ShovelOK, InputEnd, Later
    <3>2. CallOK'
      BY <2>0, <2>11 DEF ShovelRemove, LiveInv, CallOK, flowVars, FifoTypeOK
    <3>3. Ended'
      BY <2>0, <2>11 DEF ShovelRemove, LiveInv, Ended, flowVars, FifoTypeOK
    <3> QED
      BY <3>1, <3>2, <3>3
  <2> QED
    BY <2>1, <2>2, <2>3, <2>4, <2>5, <2>6, <2>7, <2>8, <2>9, <2>10, <2>11 DEF ShovelQuiet
<1>5. ASSUME Live' PROVE LiveInv'
  <2>0. LiveInv
    BY <1>5, QuietFlow, FlowFrame
  <2>1. Content' /\ Amounts'
    BY <2>0, QuietFlow, FlowFrame DEF LiveInv
  <2>2. Positions'
    BY <2>0, QuietFlow, FlowFrame DEF ShovelQuiet, LiveInv, Positions, ShovelEnter, ShovelLoop, ShovelInputEnds, ShovelEndOfInput,
         ShovelDrained, ShovelClaim, ShovelFree, ShovelForget, ShovelInvalidate, ShovelResult,
         ShovelRemove, flowVars, posVars
  <2> QED
    BY <1>4, <1>5, <2>1, <2>2 DEF LiveInv
<1> QED
  BY <1>1, <1>2, <1>3, <1>5

-----------------------------------------------------------------------------
\* The room is never split, so the separate piece of memory serves nobody.
LEMMA SpacePreserves ==
  ASSUME AlignedCalls, FifoInv, ShovelSpace
  PROVE  FifoInv'
<1> USE DEF FifoInv, inputVars, posVars, endVars, threadVars, workVars, callVars,
            seenVars, structVars
<1>1. FifoTypeOK'
  BY DEF ShovelSpace, FifoTypeOK, ShovellerStates
<1>2. ShovelOK'
  <2>1. Multiple(writepos, InpReadSize) => writepos + InpReadSize <= BufSize
    BY MultipleGap, Constants DEF AlignedCalls, ShovelOK, FifoTypeOK
  <2>2. inCounter < inputLen => ~ transEnd'
    <3>1. /\ s = "space" /\ writepos \in Nat
          /\ transEnd' = (readpos < writepos /\ BufSize - writepos < InpReadSize)
      BY DEF ShovelSpace, FifoTypeOK
    <3>2. inCounter < inputLen => Multiple(writepos, InpReadSize)
      BY DEF ShovelOK, WriteAligned, FifoTypeOK
    <3>3. inCounter < inputLen => ~ (BufSize - writepos < InpReadSize)
      BY <2>1, <3>1, <3>2, Constants
    <3> QED
      BY <3>1, <3>3
  <2> QED
    BY <2>2 DEF ShovelSpace, ShovelOK, WriteAligned, PublishOK, InputEnd, Later, Past
<1>3. Delivered'
  BY DEF ShovelSpace, Delivered, BytesInOrder, EofAfterAllBytes
<1>4. ASSUME Live' PROVE LiveInv'
  <2>0. UNCHANGED flowVars /\ Pending' = Pending
    BY DEF ShovelSpace, flowVars, Pending
  <2>1. LiveInv /\ Live /\ Fill' = Fill /\ Passed' = Passed /\ Exhausted' = Exhausted
        /\ Content' /\ Amounts'
    BY <1>4, <2>0, FlowFrame DEF LiveInv
  <2>2. Fill + InpReadSize <= BufSize - 1
    BY <2>1, PositionsTellFill, Quantities, Constants DEF ShovelSpace
  <2>3. Positions'
    BY <2>0, <2>1, <2>2 DEF ShovelSpace, LiveInv, Positions, Norm
  <2>4. Thread'
    BY <2>0, <2>1 DEF ShovelSpace, LiveInv, Thread, Early, Past
  <2>5. CallOK' /\ Ended'
    BY <2>0, <2>1 DEF ShovelSpace, LiveInv, CallOK, Ended, flowVars
  <2> QED
    BY <2>1, <2>3, <2>4, <2>5 DEF LiveInv
<1> QED
  BY <1>1, <1>2, <1>3, <1>4

\* Storing does not touch the bytes that wait.
LEMMA ReadPreserves ==
  ASSUME AlignedCalls, FifoInv, ShovelRead
  PROVE  FifoInv'
<1> DEFINE n == Lesser(InpReadSize, inputLen - inCounter)
<1>0. /\ n \in 1 .. InpReadSize /\ n <= inputLen - inCounter
      /\ n = InpReadSize \/ n = inputLen - inCounter
  <2>1. inCounter < inputLen /\ inCounter \in Nat /\ inputLen \in Nat
    BY DEF ShovelRead, FifoInv, FifoTypeOK
  <2> QED
    BY <2>1, Constants DEF Lesser
<1>1. /\ s = "read" /\ s' = "publish" /\ inCounter < inputLen
      /\ taken' = n /\ mem' = Stored(n) /\ inCounter' = inCounter + n
      /\ UNCHANGED <<inputVars, memory, posVars, endVars, outCounter, started,
                   threadIsValid, fsAlive, transEnd, workVars, c, callVars, seenVars>>
  BY DEF ShovelRead
<1> HIDE DEF n
<1> USE DEF FifoInv, inputVars, posVars, endVars, threadVars, workVars, callVars,
            seenVars, structVars
<1>2. ~ transEnd /\ Multiple(writepos, InpReadSize) /\ writepos + InpReadSize <= BufSize
  <2>1. ~ transEnd /\ Multiple(writepos, InpReadSize)
    BY <1>1 DEF ShovelOK, WriteAligned, FifoTypeOK
  <2> QED
    BY <2>1, MultipleGap, Constants DEF AlignedCalls, ShovelOK, FifoTypeOK
<1>3. FifoTypeOK'
  <2>1. mem' \in [0 .. BufSize - 1 -> Int]
    <3>1. mem \in [0 .. BufSize - 1 -> Int] /\ inCounter \in Int /\ writepos \in Int
      BY DEF FifoTypeOK
    <3> QED
      BY <1>1, <3>1, Constants DEF Stored
  <2> QED
    BY <1>0, <1>1, <2>1, Constants DEF FifoTypeOK, ShovellerStates
<1>4. ShovelOK'
  <2>1. PublishOK'
    <3>1. writepos \in Nat /\ inCounter \in Nat /\ inputLen \in Nat /\ n \in Nat
      BY <1>0, Constants DEF FifoTypeOK
    <3> QED
      BY <1>0, <1>1, <1>2, <3>1, Constants DEF PublishOK
  <2> QED
    BY <1>1, <1>2, <2>1 DEF ShovelOK, WriteAligned, InputEnd, Later, Past
<1>5. Delivered'
  BY <1>1 DEF Delivered, BytesInOrder, EofAfterAllBytes
<1>6. ASSUME Live' PROVE LiveInv'
  <2>1. LiveInv /\ Live
    BY <1>1, <1>6 DEF Live
  <2>2. Pending = 0 /\ Pending' = n
    BY <1>1 DEF Pending
  <2>3. Arrived' = Arrived /\ Passed' = Passed /\ Fill' = Fill
    BY <1>0, <1>1, <2>2, Constants DEF Arrived, Passed, Fill, FifoTypeOK
  <2>4. ~ Exhausted /\ ~ Exhausted'
    BY <1>0, <1>1, <2>2 DEF Exhausted, FifoTypeOK
  <2>5. Fill + InpReadSize <= BufSize - 1
    BY <1>1, <2>1 DEF LiveInv, Positions
  <2>6. Positions'
    BY <1>0, <1>1, <2>1, <2>2, <2>3, <2>5, Quantities, Constants
    DEF LiveInv, Positions, Norm
  <2>7. Content'
    <3> SUFFICES ASSUME NEW k \in 0 .. Fill + n - 1
                 PROVE  mem'[Norm(Norm(readpos) + k)] = Passed + k
      BY <1>1, <2>2, <2>3 DEF Content, Norm
    <3> DEFINE p == Norm(readpos)
               i == Norm(p + k)
    <3>1. /\ p \in 0 .. BufSize - 1 /\ Fill \in 0 .. BufSize - 1 /\ k \in Nat
          /\ writepos = Norm(p + Fill) /\ writepos \in Nat
          /\ Fill + n <= BufSize - 1 /\ n \in Nat
          /\ writepos + n <= BufSize
      <4>1. writepos \in Nat /\ writepos = Norm(p + Fill)
        BY <2>1 DEF LiveInv, Positions, FifoTypeOK
      <4>2. Fill \in 0 .. BufSize - 1 /\ p \in 0 .. BufSize - 1 /\ n \in Nat
        BY <1>0, <2>1, Quantities, Constants
      <4> QED
        BY <1>0, <1>2, <2>5, <4>1, <4>2, Constants
    <3> HIDE DEF p
    <3>2. i \in 0 .. BufSize - 1
      BY <3>1, Constants DEF Norm
    <3>3. mem'[i] = IF i \in writepos .. writepos + n - 1 THEN inCounter + (i - writepos)
                    ELSE mem[i]
      BY <1>1, <1>2, <3>2 DEF Stored
    <3>4. CASE k < Fill
      <4>1. i \notin writepos .. writepos + n - 1
        BY <3>1, <3>4, Constants DEF Norm
      <4>2. mem[i] = Passed + k
        BY <2>1, <2>2, <3>1, <3>4 DEF LiveInv, Content, p
      <4> QED
        BY <3>3, <4>1, <4>2 DEF p
    <3>5. CASE k >= Fill
      <4>1. i = writepos + (k - Fill)
        BY <3>1, <3>5, Constants DEF Norm
      <4>2. inCounter = Passed + Fill
        BY <2>1, <2>2, Quantities DEF Arrived, FifoTypeOK
      <4>3. i \in writepos .. writepos + n - 1
        BY <3>1, <3>5, <4>1
      <4> QED
        BY <2>1, <3>1, <3>3, <4>1, <4>2, <4>3, Quantities DEF p
    <3> QED
      BY <3>1, <3>4, <3>5
  <2>8. Amounts'
    BY <1>1, <2>1, <2>3, <2>4 DEF LiveInv, Amounts
  <2>9. Thread'
    BY <1>1, <2>1, <2>3 DEF LiveInv, Thread, Early, Past
  <2>10. CallOK' /\ Ended'
    BY <1>1, <2>1, <2>3, <2>4 DEF LiveInv, CallOK, Ended
  <2> QED
    BY <2>6, <2>7, <2>8, <2>9, <2>10 DEF LiveInv
<1> QED
  BY <1>3, <1>4, <1>5, <1>6

\* Publishing lets the stored bytes arrive.
LEMMA PublishPreserves ==
  ASSUME AlignedCalls, FifoInv, ShovelPublish
  PROVE  FifoInv'
<1> USE DEF FifoInv, inputVars, posVars, endVars, threadVars, workVars, callVars,
            seenVars, structVars
<1>1. /\ ~ transEnd /\ Multiple(writepos, InpReadSize) /\ writepos + taken <= BufSize
      /\ taken \in 1 .. InpReadSize /\ taken <= inCounter /\ writepos \in Nat
      /\ taken = InpReadSize \/ inCounter = inputLen
  BY DEF ShovelPublish, ShovelOK, WriteAligned, PublishOK, FifoTypeOK
<1>2. /\ s = "publish" /\ s' = "loop" /\ writepos' = Norm(writepos + taken)
      /\ UNCHANGED <<inputVars, mem, memory, readpos, endVars, structVars, taken,
                     transEnd, workVars, c, callVars, seenVars>>
  BY <1>1, Constants DEF ShovelPublish, Norm
<1>3. writepos' \in 0 .. BufSize - 1
  BY <1>1, <1>2, Constants DEF Norm
<1>4. FifoTypeOK'
  BY <1>2, <1>3 DEF FifoTypeOK, ShovellerStates
<1>5. ShovelOK'
  <2>1. WriteAligned'
    <3>1. CASE taken = InpReadSize
      <4>1. Multiple(writepos + taken, InpReadSize)
        BY <1>1, <3>1, MultiplePlus, Constants
      <4>2. Multiple(writepos', InpReadSize)
        BY <1>1, <1>2, <4>1, MultipleZero, Constants DEF Norm
      <4> QED
        BY <4>2 DEF WriteAligned
    <3>2. CASE inCounter = inputLen
      BY <1>2, <3>2 DEF WriteAligned
    <3> QED
      BY <1>1, <3>1, <3>2
  <2> QED
    BY <1>2, <1>3, <2>1, Constants DEF ShovelOK, PublishOK, InputEnd, Later, Past
<1>6. Delivered'
  BY <1>2 DEF Delivered, BytesInOrder, EofAfterAllBytes
<1>7. ASSUME Live' PROVE LiveInv'
  <2>1. LiveInv /\ Live
    BY <1>2, <1>7 DEF Live
  <2>2. Pending = taken /\ Pending' = 0
    BY <1>2 DEF Pending
  <2>3. /\ Arrived' = Arrived + taken /\ Passed' = Passed /\ Fill' = Fill + taken
        /\ Fill \in Nat /\ Passed \in Nat
    <3>1. Arrived' = Arrived + taken /\ Passed' = Passed
      BY <1>1, <1>2, <2>2 DEF Arrived, Passed, FifoTypeOK
    <3> QED
      BY <1>1, <2>1, <3>1, Quantities DEF Fill
  <2>4. ~ Exhausted
    BY <1>1, <2>2 DEF Exhausted
  <2>5. Positions'
    <3>1. Fill + taken <= BufSize - 1 /\ writepos = Norm(Norm(readpos) + Fill)
      BY <2>1, <2>2 DEF LiveInv, Positions
    <3>2. Norm(writepos + taken) = Norm(Norm(readpos) + (Fill + taken))
      BY <1>1, <2>1, <3>1, Quantities, Constants DEF Norm
    <3> QED
      BY <1>1, <1>2, <2>1, <2>2, <2>3, <3>1, <3>2, Constants DEF LiveInv, Positions, Norm
  <2>6. Content'
    BY <1>1, <1>2, <2>1, <2>2, <2>3 DEF LiveInv, Content, Norm
  <2>7. Amounts'
    <3>1. Multiple(Arrived, InpReadSize) /\ Arrived \in Nat
      BY <2>1, <2>4, Quantities DEF LiveInv, Amounts
    <3>2. Multiple(Arrived', InpReadSize) \/ Exhausted'
      <4>1. taken = InpReadSize => Multiple(Arrived', InpReadSize)
        BY <2>3, <3>1, MultiplePlus, Constants
      <4>2. inCounter = inputLen => Exhausted'
        BY <1>2, <2>2 DEF Exhausted
      <4> QED
        BY <1>1, <4>1, <4>2
    <3>3. \A n \in ReadSizes : Multiple(readpos, n)
      BY <2>1, <2>4 DEF LiveInv, Amounts
    <3> QED
      BY <1>2, <3>2, <3>3 DEF Amounts
  <2>8. Thread'
    BY <1>2, <2>1 DEF LiveInv, Thread, Early, Past
  <2>9. CallOK'
    BY <1>1, <1>2, <2>1, <2>3, <2>4 DEF LiveInv, CallOK, FifoTypeOK
  <2>10. Ended'
    BY <1>2, <2>1 DEF LiveInv, Ended
  <2> QED
    BY <2>5, <2>6, <2>7, <2>8, <2>9, <2>10 DEF LiveInv
<1> QED
  BY <1>4, <1>5, <1>6, <1>7

\* Only a client which disposes the fifo has the thread canceled.
LEMMA DeathPreserves ==
  ASSUME FifoInv, ShovellerDies
  PROVE  FifoInv'
<1> USE DEF FifoInv, inputVars, posVars, endVars, threadVars, workVars, callVars,
            seenVars, structVars, ShovellerDies
<1>1. FifoTypeOK'
  BY DEF FifoTypeOK, ShovellerStates
<1>2. ShovelOK'
  BY DEF ShovelOK, WriteAligned, PublishOK, InputEnd, Later, Past
<1>3. Delivered'
  BY DEF Delivered, BytesInOrder, EofAfterAllBytes
<1>4. ~ Live'
  BY DEF Live, LiveInv, Thread
<1> QED
  BY <1>1, <1>2, <1>3, <1>4
-----------------------------------------------------------------------------
\* A step of the client that leaves the bytes where they are and the call as
\* far as it is.
ClientQuiet == ReadPoll \/ ReadCheckEoi \/ ReadCheckError \/ PeekPositions \/ PeekDecide

\* The client does not disturb the shoveller.
LEMMA ClientFrame ==
  ASSUME UNCHANGED <<inputVars, writepos, inCounter, taken, transEnd, endOfInput,
                     inputError>>,
         s' = s \/ (s = "unborn" /\ s' \in {"start", "never"}),
         FifoInv
  PROVE  ShovelOK' /\ Pending' = Pending /\ Arrived' = Arrived /\ Exhausted' = Exhausted
  BY DEF inputVars, FifoInv, ShovelOK, WriteAligned, PublishOK, InputEnd, Later, Past, Pending,
         Arrived, Exhausted

\* burn_fifo_start() starts a thread at most once.
LEMMA StartThreadKeeps ==
  ASSUME FifoInv, StartThread, Live
  PROVE  /\ s' = s \/ (s = "unborn" /\ s' \in {"start", "never"})
         /\ s' \in ShovellerStates /\ memory' \in {"none", "alloc", "dangling"}
         /\ {started', listed'} \subseteq BOOLEAN
         /\ started' /\ s' # "unborn"
         /\ s' \in Early => memory' = "alloc"
  BY DEF FifoInv, StartThread, LiveInv, Thread, FifoTypeOK, ShovellerStates

LEMMA ReadBeginPreserves ==
  ASSUME FifoInv, NEW n \in ReadSizes, ReadBegin(n)
  PROVE  FifoInv'
<1> USE DEF inputVars, posVars, endVars, threadVars, workVars, callVars,
            seenVars, structVars
<1>1. /\ c = "idle" /\ endOfConsumption = 0 /\ StartThread
      /\ c' = "poll" /\ want' = n /\ todo' = n
      /\ dest' = [i \in 1 .. n |-> Garbage]
      /\ UNCHANGED <<inputVars, mem, posVars, endVars, inCounter, outCounter,
                   threadIsValid, fsAlive, taken, transEnd, cancelled,
                   warned, step, seenVars>>
  BY DEF ReadBegin
<1>2. Live /\ LiveInv
  BY <1>1 DEF Live, Freeing, FifoInv
<1>3. n \in Nat \ {0} /\ dest' \in [1 .. n -> Int]
  BY <1>1, Constants DEF Garbage
<1>4. FifoTypeOK'
  <2>1. dest' \in Seq(Int)
    BY <1>3
  <2> QED
    BY <1>1, <1>2, <1>3, <2>1, StartThreadKeeps DEF FifoInv, FifoTypeOK, ClientStates
<1>5. ShovelOK' /\ Pending' = Pending /\ Arrived' = Arrived /\ Exhausted' = Exhausted
  BY <1>1, <1>2, StartThreadKeeps, ClientFrame
<1>6. Delivered'
  BY <1>1 DEF FifoInv, Delivered, BytesInOrder, EofAfterAllBytes
<1>7. Passed' = Passed /\ Fill' = Fill
  <2>1. Len(got) \in Nat
    BY DEF FifoInv, FifoTypeOK
  <2> QED
    BY <1>1, <1>3, <1>5, <2>1 DEF Passed, Polling, Fill
<1>8. Thread'
  BY <1>1, <1>2, <1>7, StartThreadKeeps DEF LiveInv, Thread, Past
<1>9. Positions' /\ Content' /\ Amounts'
  BY <1>1, <1>2, <1>5, <1>7, StartThreadKeeps DEF LiveInv, Positions, Content, Amounts, Norm
<1>10. CallOK' /\ Ended'
  BY <1>1, <1>2, <1>3, StartThreadKeeps DEF CallOK, InRead, Polling, Ended
<1> QED
  BY <1>4, <1>5, <1>6, <1>8, <1>9, <1>10 DEF FifoInv, LiveInv

LEMMA PeekBeginPreserves ==
  ASSUME FifoInv, NEW n \in PeekSizes, PeekBegin(n)
  PROVE  FifoInv'
<1> USE DEF inputVars, posVars, endVars, threadVars, workVars, callVars,
            seenVars, structVars
<1>1. /\ c = "idle"
      /\ StartThread \/ UNCHANGED <<started, memory, listed, s>>
      /\ c' = "peek" /\ want' = n /\ todo' = 0 /\ dest' = <<>>
      /\ UNCHANGED <<inputVars, mem, posVars, endVars, inCounter, outCounter,
                   threadIsValid, fsAlive, taken, transEnd, cancelled,
                   warned, step, seenVars>>
  BY DEF PeekBegin
<1>2. Live /\ LiveInv
  BY <1>1 DEF Live, Freeing, FifoInv
<1>3. /\ s' = s \/ (s = "unborn" /\ s' \in {"start", "never"})
      /\ s' \in ShovellerStates /\ memory' \in {"none", "alloc", "dangling"}
      /\ {started', listed'} \subseteq BOOLEAN
      /\ s' = "unborn" <=> ~ started'
      /\ s' \in Early => memory' = "alloc"
  <2>1. CASE StartThread
    BY <1>2, <2>1, StartThreadKeeps
  <2>2. CASE UNCHANGED <<started, memory, listed, s>>
    BY <1>2, <2>2 DEF FifoInv, FifoTypeOK, LiveInv, Thread
  <2> QED
    BY <1>1, <2>1, <2>2
<1>4. FifoTypeOK'
  <2>1. n \in Nat
    BY FifoAssumption
  <2> QED
    BY <1>1, <1>3, <2>1 DEF FifoInv, FifoTypeOK, ClientStates
<1>5. ShovelOK' /\ Pending' = Pending /\ Arrived' = Arrived /\ Exhausted' = Exhausted
  BY <1>1, <1>3, ClientFrame
<1>6. Delivered'
  BY <1>1 DEF FifoInv, Delivered, BytesInOrder, EofAfterAllBytes
<1>7. Passed' = Passed /\ Fill' = Fill
  BY <1>1, <1>5 DEF Passed, Polling, Fill
<1>8. Thread'
  BY <1>1, <1>2, <1>3, <1>7 DEF LiveInv, Thread, Past
<1>9. Positions' /\ Content' /\ Amounts'
  BY <1>1, <1>2, <1>3, <1>5, <1>7 DEF LiveInv, Positions, Content, Amounts, Norm
<1>10. CallOK' /\ Ended'
  BY <1>1, <1>2 DEF LiveInv, CallOK, InRead, Polling, Ended
<1> QED
  BY <1>4, <1>5, <1>6, <1>8, <1>9, <1>10 DEF FifoInv, LiveInv

\* A read after the end: everything was delivered, or the input had failed.
LEMMA AfterEndPreserves ==
  ASSUME FifoInv, ReadAfterEnd
  PROVE  FifoInv'
<1> USE DEF inputVars, posVars, endVars, threadVars, workVars, callVars,
            seenVars, structVars
<1>1. /\ c = "idle" /\ endOfConsumption # 0 /\ ret' = 0
      /\ UNCHANGED <<inputVars, mem, memory, posVars, endVars, structVars, threadVars,
                   workVars, c, callVars, got, view, peeked>>
  BY DEF ReadAfterEnd
<1>2. Live /\ LiveInv
  BY <1>1 DEF Live, Freeing, FifoInv
<1>3. FifoTypeOK'
  BY <1>1 DEF FifoInv, FifoTypeOK
<1>4. ShovelOK'
  BY <1>1, ClientFrame
<1>5. Delivered'
  <2>1. ~ inputError => Len(got) = inputLen
    <3>1. CASE endOfConsumption = 1
      BY <1>2, <3>1 DEF LiveInv, Ended
    <3>2. CASE endOfConsumption = 2
      <4>1. inCounter = inputLen /\ Fill = 0 /\ s # "publish"
        BY <1>2, <3>2 DEF LiveInv, Thread, Past
      <4>2. Arrived = inCounter /\ Passed = Len(got)
        BY <1>1, <4>1 DEF Arrived, Pending, Passed, Polling, FifoInv, FifoTypeOK
      <4> QED
        BY <1>2, <4>1, <4>2, Quantities
    <3> QED
      BY <1>1, <3>1, <3>2 DEF FifoInv, FifoTypeOK
  <2> QED
    BY <1>1, <2>1 DEF FifoInv, Delivered, BytesInOrder, EofAfterAllBytes
<1>6. LiveInv'
  <2>1. UNCHANGED flowVars /\ Pending' = Pending
    BY <1>1 DEF flowVars, Pending
  <2>2. Fill' = Fill /\ Exhausted' = Exhausted /\ Content' /\ Amounts' /\ Passed' = Passed
    BY <1>2, <2>1, FlowFrame DEF LiveInv
  <2>3. Thread' /\ Positions' /\ Ended'
    BY <1>1, <1>2, <2>1, <2>2 DEF LiveInv, Thread, Positions, Ended, Norm
  <2>4. CallOK'
    BY <1>1, <1>2, <2>2 DEF LiveInv, CallOK
  <2> QED
    BY <2>2, <2>3, <2>4 DEF LiveInv
<1> QED
  BY <1>3, <1>4, <1>5, <1>6 DEF FifoInv

LEMMA ClientQuietPreserves ==
  ASSUME FifoInv, ClientQuiet
  PROVE  FifoInv'
<1> USE DEF inputVars, posVars, endVars, threadVars, workVars, callVars,
            seenVars, structVars
<1>1. /\ UNCHANGED <<inputVars, mem, memory, posVars, endOfInput, inputError, structVars,
                     threadVars, workVars, callVars, got>>
      /\ Live /\ Live' /\ c # "wrap" /\ c' # "wrap"
      /\ c \notin {"finish", "advance"} /\ c' \notin {"finish", "advance"}
  BY DEF ClientQuiet, ReadPoll, ReadCheckEoi, ReadCheckError, PeekPositions, PeekDecide,
         PeekReturns, Live, Freeing
<1>2. LiveInv
  BY <1>1 DEF FifoInv
<1>3. /\ c' \in ClientStates /\ endOfConsumption' \in 0 .. 2 /\ ret' \in {NoRet, -1} \cup Nat
      /\ view' \in Nat
      /\ endOfConsumption' # endOfConsumption => endOfConsumption' = 1 /\ inputError
      /\ ret' # ret => ret' = -1
  <2>1. CASE ReadPoll \/ ReadCheckEoi \/ PeekDecide
    BY <2>1 DEF FifoInv, FifoTypeOK, ReadPoll, ReadCheckEoi, PeekDecide, PeekReturns, ClientStates
  <2>2. CASE ReadCheckError
    BY <2>2 DEF FifoInv, FifoTypeOK, ReadCheckError, ClientStates
  <2>3. CASE PeekPositions
    <3>1. view' = BufSize - 1 - Fill
      BY <1>1, <2>3, PositionsTellFill DEF PeekPositions
    <3>2. view' \in Nat
      BY <1>1, <3>1, Quantities, Constants
    <3> QED
      BY <2>3, <3>2 DEF FifoInv, FifoTypeOK, PeekPositions, ClientStates
  <2> QED
    BY <2>1, <2>2, <2>3 DEF ClientQuiet
<1>4. FifoTypeOK'
  BY <1>1, <1>3 DEF FifoInv, FifoTypeOK
<1>5. ShovelOK' /\ Pending' = Pending /\ Arrived' = Arrived /\ Exhausted' = Exhausted
  BY <1>1, ClientFrame
<1>6. Delivered'
  BY <1>1, <1>3 DEF FifoInv, Delivered, BytesInOrder, EofAfterAllBytes
<1>7. c' \in Polling => c \in Polling
  BY DEF ClientQuiet, ReadPoll, ReadCheckEoi, ReadCheckError, PeekPositions, PeekDecide,
         PeekReturns, Polling
<1>8. c \in Polling /\ c' \notin Polling => todo = want
  BY DEF ClientQuiet, ReadPoll, ReadCheckEoi, ReadCheckError, PeekPositions, PeekDecide,
         PeekReturns, Polling
<1>9. Passed' = Passed /\ Fill' = Fill
  <2>1. Len(got) \in Nat /\ want \in Nat
    BY DEF FifoInv, FifoTypeOK
  <2>2. Passed' = Passed
    BY <1>1, <1>7, <1>8, <2>1 DEF Passed
  <2> QED
    BY <1>5, <2>2 DEF Fill
<1>10. Thread'
  BY <1>1, <1>2, <1>3, <1>9 DEF LiveInv, Thread, FifoInv, FifoTypeOK
<1>11. Positions' /\ Content' /\ Amounts'
  BY <1>1, <1>2, <1>5, <1>9 DEF LiveInv, Positions, Content, Amounts, Norm
<1>12. c' = "copy" => Fill > 0 \/ todo < want \/ endOfInput
  <2>1. readpos # writepos => Fill > 0
    BY <1>1, PositionsTellFill, Quantities
  <2>2. todo # want /\ c \in Polling => todo < want
    BY <1>2, Constants DEF LiveInv, CallOK, InRead
  <2> QED
    BY <2>1, <2>2 DEF ClientQuiet, ReadPoll, ReadCheckEoi, ReadCheckError, PeekPositions,
       PeekDecide, PeekReturns, Polling
<1>13. CallOK'
  <2>1. c' \in InRead => c \in Polling /\ c' \in Polling /\ endOfConsumption' # 1
    <3>1. endOfConsumption = 1 => c \notin Polling
      BY <1>2 DEF LiveInv, CallOK, InRead
    <3>2. c' \in InRead => c' \in Polling
      BY <1>1 DEF InRead
    <3>3. c' \in Polling => endOfConsumption' = endOfConsumption
      BY DEF ClientQuiet, ReadPoll, ReadCheckEoi, ReadCheckError, PeekPositions,
             PeekDecide, PeekReturns, Polling
    <3> QED
      BY <1>7, <3>1, <3>2, <3>3
  <2> QED
    BY <1>1, <1>2, <1>5, <1>9, <1>12, <2>1 DEF LiveInv, CallOK, InRead
<1>14. Ended'
  BY <1>1, <1>2, <1>3 DEF LiveInv, Ended
<1> QED
  BY <1>4, <1>5, <1>6, <1>10, <1>11, <1>13, <1>14 DEF FifoInv, LiveInv
-----------------------------------------------------------------------------
\* What a read call finds when it is about to copy.
LEMMA AboutToCopy ==
  ASSUME AlignedCalls, FifoInv, c = "copy"
  PROVE  /\ Available = 0 => Fill = 0
         /\ Available > 0 =>
              /\ todo = want /\ Available \in 1 .. want /\ Available <= Fill
              /\ readpos + Available <= BufSize
              /\ Available < want => Exhausted /\ Fill = Available
<1>1. Live /\ LiveInv
  BY DEF Live, Freeing, FifoInv
<1>2. /\ want \in ReadSizes /\ want \in Nat \ {0} /\ todo \in 1 .. want
      /\ todo < want => Exhausted /\ Fill = 0
  BY <1>1, Constants DEF LiveInv, CallOK, InRead, Polling
<1>3. /\ readpos \in 0 .. BufSize - 1 /\ writepos \in 0 .. BufSize - 1
      /\ writepos = Norm(readpos + Fill) /\ Fill \in 0 .. BufSize - 1
  <2>1. writepos \in Nat /\ writepos < BufSize
    BY DEF FifoInv, ShovelOK, FifoTypeOK
  <2>2. Norm(readpos) \in 0 .. BufSize - 1 /\ Norm(readpos) = readpos /\ Fill \in 0 .. BufSize - 1
    BY <1>1, Quantities
  <2>3. writepos = Norm(Norm(readpos) + Fill)
    BY <1>1 DEF LiveInv, Positions
  <2> QED
    BY <2>1, <2>2, <2>3, Constants
<1> DEFINE m == IF writepos >= readpos THEN writepos - readpos ELSE BufSize - readpos
<1>4. /\ m \in 0 .. Fill /\ (m = 0 => Fill = 0) /\ readpos + m <= BufSize
      /\ writepos >= readpos => m = Fill
  BY <1>3, Constants DEF Norm
<1>5. Available = Lesser(todo, m)
  BY DEF Available
<1>6. ASSUME m > 0, ~ Exhausted PROVE want <= m
  <2>1. Multiple(writepos, InpReadSize) /\ Multiple(InpReadSize, want)
    <3>1. inCounter = inputLen /\ s # "publish" => Exhausted
      BY DEF Exhausted, Pending
    <3> QED
      BY <1>2, <1>6, <3>1 DEF FifoInv, ShovelOK, WriteAligned, AlignedCalls
  <2>2. Multiple(readpos, want)
    BY <1>1, <1>2, <1>6 DEF LiveInv, Amounts
  <2>3. Multiple(writepos, want) /\ Multiple(BufSize, want)
    BY <1>2, <1>3, <2>1, MultipleOfMultiple, Constants DEF AlignedCalls
  <2>4. CASE writepos >= readpos
    <3>1. readpos < writepos
      BY <1>3, <1>6, <2>4
    <3>2. readpos + want <= writepos
      BY <1>2, <1>3, <2>2, <2>3, <3>1, MultipleGap, Constants
    <3> QED
      BY <1>2, <1>3, <2>4, <3>2
  <2>5. CASE ~ (writepos >= readpos)
    <3>1. readpos < BufSize
      BY <1>3, Constants
    <3>2. readpos + want <= BufSize
      BY <1>2, <1>3, <2>2, <2>3, <3>1, MultipleGap, Constants
    <3> QED
      BY <1>2, <1>3, <2>5, <3>2, Constants
  <2> QED
    BY <2>4, <2>5
<1>7. ASSUME m > 0, m < want PROVE m = Fill
  <2>1. SUFFICES ASSUME ~ (writepos >= readpos) PROVE FALSE
    BY <1>4
  <2>2. Multiple(readpos, want)
    <3>1. Fill # 0
      BY <1>3, <1>4, <1>7
    <3> QED
      BY <1>1, <1>2, <3>1 DEF LiveInv, Amounts
  <2>3. Multiple(BufSize, want)
    BY <1>2, MultipleOfMultiple, Constants DEF AlignedCalls
  <2>4. readpos + want <= BufSize
    BY <1>2, <1>3, <2>2, <2>3, MultipleGap, Constants
  <2> QED
    BY <1>2, <1>3, <1>7, <2>1, <2>4, Constants
<1> HIDE DEF m
<1>8. Available = 0 => Fill = 0
  BY <1>2, <1>3, <1>4, <1>5 DEF Lesser
<1>9. ASSUME Available > 0
      PROVE  /\ todo = want /\ Available \in 1 .. want /\ Available <= Fill
             /\ readpos + Available <= BufSize
             /\ Available < want => Exhausted /\ Fill = Available
  <2>1. m > 0 /\ m \in Nat
    BY <1>2, <1>3, <1>4, <1>5, <1>9 DEF Lesser
  <2>2. todo = want
    BY <1>2, <1>3, <1>4, <2>1
  <2>3. Available = Lesser(want, m)
    BY <1>5, <2>2
  <2> QED
    BY <1>2, <1>3, <1>4, <1>6, <1>7, <2>1, <2>2, <2>3, Constants DEF Lesser
<1> QED
  BY <1>8, <1>9

\* The copy brings the next bytes of the input.
LEMMA CopyPreserves ==
  ASSUME AlignedCalls, FifoInv, ReadCopy
  PROVE  FifoInv'
<1> USE DEF inputVars, posVars, endVars, threadVars, workVars, callVars,
            seenVars, structVars
<1>1. /\ c = "copy" /\ Available > 0 /\ step' = Available /\ c' = "advance"
      /\ dest' = [j \in 1 .. want |->
                    IF \E i \in 1 .. Available : CopyTarget(i) = j
                    THEN CopySource(CHOOSE i \in 1 .. Available : CopyTarget(i) = j)
                    ELSE dest[j]]
      /\ UNCHANGED <<inputVars, mem, memory, posVars, endVars, structVars, threadVars,
                     workVars, want, todo, seenVars>>
  BY DEF ReadCopy
<1>2. Live /\ LiveInv /\ Live'
  BY <1>1 DEF Live, Freeing, FifoInv
<1>3. /\ todo = want /\ Available \in 1 .. want /\ Available <= Fill
      /\ readpos + Available <= BufSize
      /\ Available < want => Exhausted /\ Fill = Available
  BY <1>1, AboutToCopy
<1>4. /\ want \in Nat \ {0} /\ dest \in [1 .. want -> Int] /\ readpos \in Nat
      /\ Passed = Len(got) /\ Len(got) \in Nat
  <2>1. want \in Nat \ {0} /\ dest \in [1 .. want -> Int] /\ readpos \in Nat /\ Len(got) \in Nat
    BY <1>1, <1>2, Constants DEF LiveInv, CallOK, InRead, Polling, FifoInv, FifoTypeOK
  <2> QED
    BY <1>1, <1>3, <2>1 DEF Passed, Polling
<1>5. \A j \in 1 .. Available : dest'[j] = Len(got) + j - 1
  <2> SUFFICES ASSUME NEW j \in 1 .. Available PROVE dest'[j] = Len(got) + j - 1
    OBVIOUS
  <2>1. j \in 1 .. want
    BY <1>3, <1>4
  <2>2. \E i \in 1 .. Available : CopyTarget(i) = j
    BY DEF CopyTarget
  <2>3. (CHOOSE i \in 1 .. Available : CopyTarget(i) = j) = j
    BY DEF CopyTarget
  <2>4. dest'[j] = CopySource(j)
    BY <1>1, <2>1, <2>2, <2>3
  <2>5. readpos + (want - todo) + (j - 1) = readpos + (j - 1) /\ readpos + (j - 1) < BufSize
    BY <1>3, <1>4, Constants
  <2>6. CopySource(j) = mem[readpos + (j - 1)]
    BY <2>5 DEF CopySource, SourcePlace
  <2>7. j - 1 \in 0 .. Fill + Pending - 1 /\ Norm(readpos) = readpos
    BY <1>1, <1>2, <1>3, Quantities
  <2>8. mem[Norm(readpos + (j - 1))] = Passed + (j - 1)
    BY <1>2, <2>7 DEF LiveInv, Content
  <2>9. Norm(readpos + (j - 1)) = readpos + (j - 1)
    BY <2>5 DEF Norm
  <2> QED
    BY <1>4, <2>4, <2>6, <2>8, <2>9
<1>6. dest' \in [1 .. want -> Int]
  <2>1. \A j \in 1 .. want : dest'[j] \in Int
    <3> SUFFICES ASSUME NEW j \in 1 .. want PROVE dest'[j] \in Int
      OBVIOUS
    <3>1. CASE j \in 1 .. Available
      BY <1>4, <1>5, <3>1
    <3>2. CASE j \notin 1 .. Available
      BY <1>1, <1>4, <3>2 DEF CopyTarget
    <3> QED
      BY <3>1, <3>2
  <2> QED
    BY <1>1, <2>1
<1>7. FifoTypeOK'
  <2>1. dest' \in Seq(Int)
    BY <1>4, <1>6
  <2>2. step' \in Nat
    BY <1>1, <1>3
  <2> QED
    BY <1>1, <2>1, <2>2 DEF FifoInv, FifoTypeOK, ClientStates
<1>8. ShovelOK' /\ Pending' = Pending /\ Arrived' = Arrived /\ Exhausted' = Exhausted
  BY <1>1, ClientFrame
<1>9. Delivered'
  BY <1>1 DEF FifoInv, Delivered, BytesInOrder, EofAfterAllBytes
<1>10. Passed' = Passed /\ Fill' = Fill
  <2>1. Passed' = Passed
    BY <1>1, <1>4 DEF Passed, Polling
  <2> QED
    BY <1>8, <2>1 DEF Fill
<1>11. Thread'
  BY <1>1, <1>2, <1>10 DEF LiveInv, Thread
<1>12. Positions' /\ Content' /\ Amounts' /\ Ended'
  BY <1>1, <1>2, <1>8, <1>10 DEF LiveInv, Positions, Content, Amounts, Norm, Ended
<1>13. CallOK'
  BY <1>1, <1>2, <1>3, <1>4, <1>5, <1>6, <1>8, <1>10 DEF LiveInv, CallOK, InRead, Polling
<1> QED
  BY <1>7, <1>8, <1>9, <1>11, <1>12, <1>13 DEF FifoInv, LiveInv

\* Advancing hands the copied cells back to the shoveller.
LEMMA AdvancePreserves ==
  ASSUME AlignedCalls, FifoInv, ReadAdvance
  PROVE  FifoInv'
<1> USE DEF inputVars, posVars, endVars, threadVars, workVars, callVars,
            seenVars, structVars
<1>1. /\ c = "advance" /\ readpos' = readpos + step /\ c' = "wrap"
      /\ UNCHANGED <<inputVars, mem, memory, writepos, endVars, structVars, threadVars,
                     workVars, callVars, seenVars>>
  BY DEF ReadAdvance
<1>2. Live /\ LiveInv /\ Live'
  BY <1>1 DEF Live, Freeing, FifoInv
<1>3. /\ want \in ReadSizes /\ want \in Nat \ {0} /\ step \in 1 .. want /\ todo = want
      /\ step < want => Exhausted /\ Fill = step
      /\ step <= Fill /\ readpos + step <= BufSize
  BY <1>1, <1>2, Constants DEF LiveInv, CallOK, InRead
<1>4. readpos \in Nat /\ Len(got) \in Nat /\ Passed = Len(got) /\ Norm(readpos) = readpos
      /\ readpos \in 0 .. BufSize - 1
  <2>1. readpos \in Nat /\ Len(got) \in Nat
    BY DEF FifoInv, FifoTypeOK
  <2>2. Passed = Len(got)
    BY <1>1, <2>1 DEF Passed, Polling
  <2> QED
    BY <1>1, <1>2, <2>1, <2>2, Quantities
<1>5. FifoTypeOK'
  BY <1>1, <1>3, <1>4 DEF FifoInv, FifoTypeOK, ClientStates
<1>6. ShovelOK' /\ Pending' = Pending /\ Arrived' = Arrived /\ Exhausted' = Exhausted
  BY <1>1, ClientFrame
<1>7. Delivered'
  BY <1>1 DEF FifoInv, Delivered, BytesInOrder, EofAfterAllBytes
<1>8. Passed' = Passed + step /\ Fill' = Fill - step
  <2>1. Passed' = Passed + step
    BY <1>1, <1>4 DEF Passed, Polling
  <2> QED
    BY <1>2, <1>3, <1>6, <2>1, Quantities DEF Fill
<1>9. Thread'
  BY <1>1, <1>2, <1>3, <1>8, Quantities DEF LiveInv, Thread
<1>10. \A k \in 0 .. BufSize - 1 :
         k >= step => Norm(Norm(readpos') + (k - step)) = Norm(readpos + k)
  BY <1>1, <1>3, <1>4, Constants DEF Norm
<1>11. Positions'
  <2>1. writepos = Norm(readpos + Fill)
    BY <1>2, <1>4 DEF LiveInv, Positions
  <2>2. writepos' = Norm(Norm(readpos') + Fill')
    BY <1>1, <1>2, <1>3, <1>8, <1>10, <2>1, Quantities
  <2>3. Fill' \in 0 .. BufSize - 1 /\ Fill' + Pending' <= BufSize - 1 /\ Passed' # 0
    BY <1>2, <1>3, <1>4, <1>6, <1>8, Quantities, Constants DEF LiveInv, Positions
  <2>4. s' = "read" => Fill' + InpReadSize <= BufSize - 1
    BY <1>1, <1>2, <1>3, <1>8, Quantities, Constants DEF LiveInv, Positions
  <2> QED
    BY <1>1, <1>3, <2>2, <2>3, <2>4 DEF Positions, Norm
<1>12. Content'
  <2> SUFFICES ASSUME NEW k \in 0 .. Fill' + Pending' - 1
               PROVE  mem[Norm(Norm(readpos') + k)] = Passed' + k
    BY <1>1 DEF Content, Norm
  <2>1. k + step \in 0 .. Fill + Pending - 1
    BY <1>2, <1>3, <1>6, <1>8, Quantities
  <2>2. mem[Norm(readpos + (k + step))] = Passed + (k + step)
    BY <1>2, <1>4, <2>1 DEF LiveInv, Content
  <2>3. k + step \in 0 .. BufSize - 1 /\ (k + step) - step = k /\ k + step >= step
    BY <1>2, <1>3, <2>1, Quantities, Constants DEF LiveInv, Positions
  <2>4. Norm(Norm(readpos') + k) = Norm(readpos + (k + step))
    BY <1>10, <2>3
  <2> QED
    BY <1>2, <1>3, <1>8, <2>2, <2>3, <2>4, Quantities
<1>13. Amounts'
  <2>1. ASSUME NEW n \in ReadSizes
        PROVE  Multiple(readpos', n) \/ (Exhausted' /\ Fill' = 0)
    <3>1. CASE step < want
      BY <1>2, <1>3, <1>6, <1>8, <3>1, Quantities
    <3>2. CASE step = want
      <4>1. Multiple(readpos, n) /\ n = want
        BY <1>2, <1>3, Quantities DEF LiveInv, Amounts, AlignedCalls
      <4> QED
        BY <1>1, <1>3, <1>4, <3>2, <4>1, MultiplePlus
    <3> QED
      BY <1>3, <3>1, <3>2
  <2> QED
    BY <1>2, <1>6, <2>1 DEF LiveInv, Amounts
<1>14. CallOK'
  <2>1. Fill \in Nat /\ (step < want => Exhausted' /\ Fill' = 0)
    BY <1>2, <1>3, <1>6, <1>8, Quantities
  <2>2. /\ started /\ endOfConsumption # 1 /\ dest \in [1 .. want -> Int]
        /\ \A j \in 1 .. step : dest[j] = Len(got) + j - 1
    BY <1>1, <1>2 DEF LiveInv, CallOK, InRead
  <2> QED
    BY <1>1, <1>3, <2>1, <2>2 DEF CallOK, Polling
<1>15. Ended'
  BY <1>1, <1>2 DEF LiveInv, Ended
<1> QED
  BY <1>5, <1>6, <1>7, <1>9, <1>11, <1>12, <1>13, <1>14, <1>15 DEF FifoInv, LiveInv

LEMMA WrapPreserves ==
  ASSUME FifoInv, ReadWrap
  PROVE  FifoInv'
<1> USE DEF inputVars, posVars, endVars, threadVars, workVars, callVars,
            seenVars, structVars
<1>1. /\ c = "wrap" /\ todo' = todo - step
      /\ c' = IF todo > step THEN "poll" ELSE "finish"
      /\ readpos' = IF readpos >= BufSize THEN 0 ELSE readpos
      /\ UNCHANGED <<inputVars, mem, memory, writepos, endVars, structVars, threadVars,
                     workVars, want, dest, step, seenVars>>
  BY DEF ReadWrap
<1>2. Live /\ LiveInv /\ Live'
  BY <1>1 DEF Live, Freeing, FifoInv
<1>3. /\ want \in ReadSizes /\ want \in Nat \ {0} /\ step \in 1 .. want /\ todo = want
      /\ step < want => Exhausted /\ Fill = 0
      /\ \A j \in 1 .. step : dest[j] = Len(got) + j - 1
      /\ started /\ endOfConsumption # 1 /\ dest \in [1 .. want -> Int]
  BY <1>1, <1>2, Constants DEF LiveInv, CallOK, InRead
<1>4. todo' = want - step /\ want - todo' = step /\ todo' \in 0 .. want
  BY <1>1, <1>3
<1>5. /\ Len(got) \in Nat /\ readpos \in Nat /\ readpos <= BufSize
      /\ readpos' \in 0 .. BufSize - 1 /\ Norm(readpos') = Norm(readpos)
      /\ readpos' = readpos \/ readpos' = 0
  <2>1. Len(got) \in Nat /\ readpos \in Nat /\ readpos <= BufSize
    BY <1>2 DEF FifoInv, FifoTypeOK, LiveInv, Positions
  <2> QED
    BY <1>1, <2>1, Constants DEF Norm
<1>6. FifoTypeOK'
  BY <1>1, <1>4, <1>5 DEF FifoInv, FifoTypeOK, ClientStates
<1>7. ShovelOK' /\ Pending' = Pending /\ Arrived' = Arrived /\ Exhausted' = Exhausted
  BY <1>1, ClientFrame
<1>8. Delivered'
  BY <1>1 DEF FifoInv, Delivered, BytesInOrder, EofAfterAllBytes
<1>9. Passed' = Passed /\ Fill' = Fill /\ Passed # 0
  <2>1. Passed = Len(got) + step
    BY <1>1 DEF Passed, Polling
  <2>2. Passed' = Len(got) + step
    BY <1>1, <1>4 DEF Passed, Polling
  <2> QED
    BY <1>3, <1>5, <1>7, <2>1, <2>2 DEF Fill
<1>10. Thread'
  BY <1>1, <1>2, <1>9 DEF LiveInv, Thread
<1>11. Positions'
  BY <1>1, <1>2, <1>5, <1>7, <1>9, Constants DEF LiveInv, Positions, Norm
<1>12. Content'
  <2>1. \A k : Norm(Norm(readpos') + k) = Norm(Norm(readpos) + k)
    BY <1>5
  <2> QED
    BY <1>1, <1>2, <1>5, <1>7, <1>9 DEF LiveInv, Content, Norm
<1>13. Amounts'
  <2>1. \A n \in ReadSizes : Multiple(0, n)
    BY MultipleZero, Constants
  <2> QED
    BY <1>1, <1>2, <1>5, <1>7, <1>9, <2>1 DEF LiveInv, Amounts
<1>14. CallOK'
  BY <1>1, <1>3, <1>4, <1>7, <1>9 DEF CallOK, InRead, Polling
<1>15. Ended'
  BY <1>1, <1>2 DEF LiveInv, Ended
<1> QED
  BY <1>6, <1>7, <1>8, <1>10, <1>11, <1>12, <1>13, <1>14, <1>15 DEF FifoInv, LiveInv

\* The call returns what was copied.
LEMMA FinishPreserves ==
  ASSUME AlignedCalls, FifoInv, ReadFinish
  PROVE  FifoInv'
<1> USE DEF inputVars, posVars, endVars, threadVars, workVars, callVars,
            seenVars, structVars
<1> DEFINE done == want - todo
<1>1. /\ ReadDone /\ c' = "idle" /\ ret' = done
      /\ got' = got \o SubSeq(dest, 1, done)
      /\ endOfConsumption' = IF todo = want THEN 1 ELSE endOfConsumption
      /\ outCounter' = outCounter + done
      /\ UNCHANGED <<inputVars, mem, memory, posVars, endOfInput, inputError, inCounter,
                   started, threadIsValid, fsAlive, threadVars, workVars, callVars,
                   view, peeked>>
  BY DEF ReadFinish
<1>2. Live /\ LiveInv /\ Live' /\ c \in {"finish", "copy"}
  BY <1>1 DEF Live, Freeing, FifoInv, ReadDone
<1>3. /\ want \in ReadSizes /\ want \in Nat \ {0} /\ todo \in 0 .. want
      /\ dest \in [1 .. want -> Int]
      /\ \A j \in 1 .. done : dest[j] = Len(got) + j - 1
      /\ c = "finish" => todo = 0
      /\ c = "copy" => Fill > 0 \/ todo < want \/ endOfInput
      /\ started /\ endOfConsumption # 1
  BY <1>2, Constants DEF LiveInv, CallOK, InRead, Polling
<1>4. c = "copy" => Fill = 0
  BY <1>1, AboutToCopy DEF ReadDone
<1>5. done \in 0 .. want /\ got \in Seq(Int) /\ Len(got) \in Nat /\ dest \in Seq(Int)
      /\ Len(dest) = want
  <2>1. got \in Seq(Int) /\ Len(got) \in Nat /\ dest \in Seq(Int)
    BY DEF FifoInv, FifoTypeOK
  <2>2. DOMAIN dest = 1 .. want
    BY <1>3
  <2>3. Len(dest) = want
    BY <1>3, <2>1, <2>2
  <2> QED
    BY <1>3, <2>1, <2>3
<1> HIDE DEF done
<1>6. /\ SubSeq(dest, 1, done) \in Seq(Int) /\ Len(SubSeq(dest, 1, done)) = done
      /\ \A j \in 1 .. done : SubSeq(dest, 1, done)[j] = dest[j]
  BY <1>5
<1>7. /\ got' \in Seq(Int) /\ Len(got') = Len(got) + done
      /\ \A i \in 1 .. Len(got) : got'[i] = got[i]
      /\ \A j \in 1 .. done : got'[Len(got) + j] = dest[j]
  BY <1>1, <1>5, <1>6
<1>8. BytesInOrder'
  <2> SUFFICES ASSUME NEW i \in 1 .. Len(got') PROVE got'[i] = i - 1
    BY DEF BytesInOrder
  <2>1. CASE i <= Len(got)
    BY <1>5, <1>7, <2>1 DEF FifoInv, Delivered, BytesInOrder
  <2>2. CASE i > Len(got)
    <3>1. i - Len(got) \in 1 .. done /\ Len(got) + (i - Len(got)) = i
      BY <1>5, <1>7, <2>2
    <3>2. got'[i] = dest[i - Len(got)]
      BY <1>7, <3>1
    <3> QED
      BY <1>3, <1>5, <3>1, <3>2
  <2> QED
    BY <1>7, <1>5, <2>1, <2>2
<1>9. ShovelOK' /\ Pending' = Pending /\ Arrived' = Arrived /\ Exhausted' = Exhausted
  BY <1>1, ClientFrame
<1>10. Passed' = Passed /\ Fill' = Fill /\ Passed' = Len(got')
  <2>1. Passed = Len(got) + done
    BY <1>2 DEF Passed, Polling, done
  <2>2. Passed' = Len(got')
    BY <1>1, <1>7 DEF Passed, Polling, FifoInv, FifoTypeOK
  <2> QED
    BY <1>7, <1>9, <2>1, <2>2 DEF Fill
<1>11. todo = want => Len(got') = inputLen
  <2> SUFFICES ASSUME todo = want PROVE Len(got') = inputLen
    OBVIOUS
  <2>1. c = "copy" /\ Fill = 0 /\ endOfInput
    BY <1>2, <1>3, <1>4
  <2>2. inCounter = inputLen /\ Pending = 0
    BY <2>1 DEF FifoInv, ShovelOK, InputEnd, Later, Past, Pending
  <2>3. Arrived = inputLen
    BY <2>2 DEF Arrived, FifoInv, FifoTypeOK
  <2> QED
    BY <1>2, <1>10, <2>1, <2>3, Quantities
<1>12. done = 0 => todo = want
  BY <1>3 DEF done
<1>13. FifoTypeOK'
  <2>1. outCounter \in Nat /\ done \in Nat
    BY <1>3, <1>5 DEF FifoInv, FifoTypeOK
  <2>2. outCounter' \in Nat /\ ret' \in Nat
    BY <1>1, <2>1
  <2> QED
    BY <1>1, <1>7, <2>2 DEF FifoInv, FifoTypeOK, ClientStates
<1>14. Delivered'
  <2>1. outCounter' = Len(got')
    BY <1>1, <1>7 DEF FifoInv, Delivered
  <2>2. EofAfterAllBytes'
    BY <1>1, <1>11, <1>12 DEF EofAfterAllBytes
  <2> QED
    BY <1>8, <2>1, <2>2 DEF Delivered
<1>15. Thread'
  BY <1>1, <1>2, <1>3, <1>10 DEF LiveInv, Thread, Past
<1>16. Positions' /\ Content' /\ Amounts'
  BY <1>1, <1>2, <1>9, <1>10 DEF LiveInv, Positions, Content, Amounts, Norm
<1>17. CallOK'
  BY <1>1 DEF CallOK, InRead, Polling
<1>18. Ended'
  BY <1>1, <1>3, <1>11 DEF Ended
<1> QED
  BY <1>9, <1>13, <1>14, <1>15, <1>16, <1>17, <1>18 DEF FifoInv, LiveInv

\* Once it frees the fifo, the client does nothing else.
LEMMA FreePreserves ==
  ASSUME FifoInv, FreeBegin \/ FifoFree
  PROVE  FifoInv'
<1> USE DEF inputVars, posVars, endVars, threadVars, workVars, callVars,
            seenVars, structVars, FifoFree, FreeBegin, FreeAbort, FreeCancel, FreeInput,
            FreeMemory, FreeStruct, RemoveWorker
<1>1. ~ Live'
  BY DEF Live, Freeing
<1>2. ShovelOK'
  BY DEF FifoInv, ShovelOK, WriteAligned, PublishOK, InputEnd
<1>3. Delivered'
  BY DEF FifoInv, Delivered, BytesInOrder, EofAfterAllBytes
<1>4. FifoTypeOK'
  <2>1. CASE FreeBegin
    BY <2>1 DEF FifoInv, FifoTypeOK, ClientStates
  <2>2. CASE FreeAbort
    BY <2>2 DEF FifoInv, FifoTypeOK, ClientStates
  <2>3. CASE FreeCancel
    BY <2>3 DEF FifoInv, FifoTypeOK, ClientStates
  <2>4. CASE FreeInput
    BY <2>4 DEF FifoInv, FifoTypeOK, ClientStates
  <2>5. CASE FreeMemory
    BY <2>5 DEF FifoInv, FifoTypeOK, ClientStates
  <2>6. CASE FreeStruct
    BY <2>6 DEF FifoInv, FifoTypeOK, ClientStates
  <2> QED
    BY <2>1, <2>2, <2>3, <2>4, <2>5, <2>6
<1> QED
  BY <1>1, <1>2, <1>3, <1>4 DEF FifoInv

-----------------------------------------------------------------------------
LEMMA InitEstablishes ==
  ASSUME FifoInit
  PROVE  FifoInv
<1> USE DEF FifoInit
<1>1. FifoTypeOK
  <2>1. inputLen \in Nat /\ inputFails \in BOOLEAN
    BY FifoAssumption
  <2>2. mem \in [0 .. BufSize - 1 -> Int]
    BY DEF Garbage
  <2>3. got \in Seq(Int) /\ dest \in Seq(Int)
    OBVIOUS
  <2>4. /\ inpAlive = TRUE /\ memory = "none" /\ writepos = 0 /\ readpos = 0
        /\ endOfInput = FALSE /\ inputError = FALSE /\ endOfConsumption = 0
        /\ inCounter = 0 /\ outCounter = 0 /\ started = FALSE /\ threadIsValid = FALSE
        /\ fsAlive = TRUE /\ s = "unborn" /\ taken = 0 /\ transEnd = FALSE
        /\ cancelled = FALSE /\ listed = FALSE /\ warned = FALSE
        /\ c = "idle" /\ want = 0 /\ todo = 0 /\ step = 0 /\ ret = NoRet /\ view = 0
    OBVIOUS
  <2> HIDE DEF FifoInit
  <2>5. /\ {inputFails, inpAlive} \subseteq BOOLEAN
        /\ {endOfInput, inputError, started, threadIsValid, fsAlive, transEnd, cancelled,
            listed, warned} \subseteq BOOLEAN
    BY <2>1, <2>4
  <2>6. s \in ShovellerStates /\ c \in ClientStates
    BY <2>4 DEF ShovellerStates, ClientStates
  <2>7. {want, todo, step, view} \subseteq Nat
    BY <2>4
  <2> QED
    BY <2>1, <2>2, <2>3, <2>4, <2>5, <2>6, <2>7 DEF FifoTypeOK
<1>2. ShovelOK
  BY MultipleZero, Constants DEF ShovelOK, WriteAligned, PublishOK, InputEnd
<1>3. Delivered
  BY DEF Delivered, BytesInOrder, EofAfterAllBytes, NoRet
<1>4. Thread
  BY DEF Thread, Early, Past
<1>5. Pending = 0 /\ Arrived = 0 /\ Passed = 0 /\ Fill = 0
  <2>1. Pending = 0 /\ Arrived = 0
    BY DEF Pending, Arrived
  <2>2. Len(got) = 0
    OBVIOUS
  <2>3. Passed = 0
    BY <2>2 DEF Passed, Polling
  <2> QED
    BY <2>1, <2>3 DEF Fill
<1>6. Positions
  BY <1>5, Constants DEF Positions, Norm
<1>7. Content
  BY <1>5 DEF Content
<1>8. Amounts
  BY <1>5, MultipleZero, Constants DEF Amounts
<1>9. CallOK /\ Ended
  BY DEF CallOK, InRead, Polling, Ended
<1> QED
  BY <1>1, <1>2, <1>3, <1>4, <1>6, <1>7, <1>8, <1>9 DEF FifoInv, LiveInv

\* The invariant is inductive.
LEMMA FifoInvHolds ==
  ASSUME AlignedCalls PROVE FifoSpec => []FifoInv
<1>1. FifoInit => FifoInv
  BY InitEstablishes
<1>2. FifoInv /\ [FifoNext]_fifoVars => FifoInv'
  <2> SUFFICES ASSUME FifoInv, [FifoNext]_fifoVars PROVE FifoInv'
    OBVIOUS
  <2>1. CASE Shoveller
    BY <2>1, QuietPreserves, SpacePreserves, ReadPreserves, PublishPreserves
    DEF Shoveller, ShovelQuiet
  <2>2. CASE ShovellerDies
    BY <2>2, DeathPreserves
  <2>3. CASE Client
    <3>1. CASE \E n \in ReadSizes : ReadBegin(n)
      BY <3>1, ReadBeginPreserves
    <3>2. CASE \E n \in PeekSizes : PeekBegin(n)
      BY <3>2, PeekBeginPreserves
    <3>3. CASE ClientQuiet
      BY <3>3, ClientQuietPreserves
    <3>4. CASE ReadAfterEnd \/ ReadCopy \/ ReadAdvance \/ ReadWrap \/ ReadFinish
      BY <3>4, AfterEndPreserves, CopyPreserves, AdvancePreserves, WrapPreserves,
         FinishPreserves
    <3>5. CASE FreeBegin \/ FifoFree
      BY <3>5, FreePreserves
    <3> QED
      BY <2>3, <3>1, <3>2, <3>3, <3>4, <3>5 DEF Client, FifoRead, ClientQuiet
  <2>4. CASE UNCHANGED fifoVars
    <3> USE DEF fifoVars, inputVars, posVars, endVars, threadVars, workVars, callVars,
                seenVars, structVars
    <3>1. FifoTypeOK' /\ ShovelOK' /\ Delivered'
      BY <2>4 DEF FifoInv, FifoTypeOK, ShovelOK, WriteAligned, PublishOK, InputEnd, Delivered,
         BytesInOrder, EofAfterAllBytes
    <3>2. UNCHANGED flowVars /\ Pending' = Pending
      BY <2>4 DEF flowVars, Pending
    <3>3. ASSUME Live' PROVE LiveInv'
      <4>1. LiveInv /\ Content' /\ Amounts' /\ Fill' = Fill /\ Passed' = Passed
            /\ Exhausted' = Exhausted
        BY <3>2, <3>3, FlowFrame DEF FifoInv, LiveInv
      <4> QED
        BY <2>4, <3>2, <4>1 DEF LiveInv, Thread, Positions, CallOK, Ended, Norm
    <3> QED
      BY <3>1, <3>3 DEF FifoInv
  <2> QED
    BY <2>1, <2>2, <2>3, <2>4 DEF FifoNext
<1> QED
  BY <1>1, <1>2, PTL DEF FifoSpec

-----------------------------------------------------------------------------
(* Theorems                                                                *)

\* fifo_read(): the client receives the bytes of the input, each once and in
\* order, whatever the interleaving of the two threads.
THEOREM BytesArriveInOrder ==
  ASSUME AlignedCalls PROVE FifoSpec => []BytesInOrder
<1>1. FifoInv => BytesInOrder
  BY DEF FifoInv, Delivered
<1> QED
  BY <1>1, FifoInvHolds, PTL

\* fifo_read() returns 0 without an error of the input only after all its bytes
\* were returned.
THEOREM EndOfFileIsComplete ==
  ASSUME AlignedCalls PROVE FifoSpec => []EofAfterAllBytes
<1>1. FifoInv => EofAfterAllBytes
  BY DEF FifoInv, Delivered
<1> QED
  BY <1>1, FifoInvHolds, PTL

\* While a thread may have use for the ring buffer, only fifo_free() disposes it.
MemoryKept == s \in Early /\ ~ WriterOutlived => memory = "alloc"

LEMMA MemoryKeptHolds == FifoSpec => []MemoryKept
<1> USE DEF MemoryKept, Early, WriterOutlived
<1>1. FifoInit => MemoryKept
  BY DEF FifoInit
<1>2. MemoryKept /\ [FifoNext]_fifoVars => MemoryKept'
  <2> SUFFICES ASSUME MemoryKept, [FifoNext]_fifoVars PROVE MemoryKept'
    OBVIOUS
  <2>1. CASE Shoveller
    BY <2>1 DEF Shoveller, ShovelEnter, ShovelLoop, ShovelSpace, ShovelRead, ShovelPublish,
       ShovelInputEnds, ShovelEndOfInput, ShovelDrained, ShovelClaim, ShovelFree,
       ShovelForget, ShovelInvalidate, ShovelResult, ShovelRemove
  <2>2. CASE ShovellerDies
    BY <2>2 DEF ShovellerDies
  <2>3. CASE (\E n \in ReadSizes : ReadBegin(n)) \/ (\E n \in PeekSizes : PeekBegin(n))
    BY <2>3 DEF ReadBegin, PeekBegin, StartThread
  <2>4. CASE FreeBegin \/ FifoFree
    BY <2>4 DEF FreeBegin, FifoFree, FreeAbort, FreeCancel, FreeInput, FreeMemory, FreeStruct,
       threadVars
  <2>5. CASE ReadAfterEnd \/ FifoRead \/ PeekPositions \/ PeekDecide
    BY <2>5 DEF ReadAfterEnd, FifoRead, ReadPoll, ReadCheckEoi, ReadCheckError, ReadCopy,
       ReadAdvance, ReadWrap, ReadFinish, ReadDone, PeekPositions, PeekDecide, PeekReturns,
       threadVars
  <2>6. CASE UNCHANGED fifoVars
    BY <2>6 DEF fifoVars, threadVars
  <2> QED
    BY <2>1, <2>2, <2>3, <2>4, <2>5, <2>6 DEF FifoNext, Client
<1> QED
  BY <1>1, <1>2, PTL DEF FifoSpec

\* Until fifo_free() disposes the ring buffer, burn_fifo_source_shoveller()
\* writes and fifo_read() copies within it, and while it is allocated.
THEOREM FifoMemoryIsSafe ==
  ASSUME AlignedCalls PROVE FifoSpec => []MemorySafe
<1>1. FifoInv /\ MemoryKept => MemorySafe
  <2> SUFFICES ASSUME FifoInv, MemoryKept PROVE MemorySafe
    OBVIOUS
  <2>1. FifoTypeOK /\ DOMAIN mem = 0 .. BufSize - 1
    BY DEF FifoInv, FifoTypeOK
  <2>2. ASSUME WriterDue
        PROVE  WriterPlaces \subseteq DOMAIN mem /\ (memory = "alloc" \/ WriterOutlived)
    <3> DEFINE n == Lesser(InpReadSize, inputLen - inCounter)
    <3>1. ~ transEnd /\ writepos \in Nat /\ n \in Nat /\ n <= InpReadSize
      BY <2>1, <2>2, Constants DEF WriterDue, FifoInv, ShovelOK, FifoTypeOK, Lesser
    <3>2. writepos + InpReadSize <= BufSize
      <4>1. Multiple(writepos, InpReadSize) /\ writepos < BufSize
        BY <2>1, <2>2 DEF WriterDue, FifoInv, ShovelOK, WriteAligned, FifoTypeOK
      <4> QED
        BY <3>1, <4>1, MultipleGap, Constants DEF AlignedCalls
    <3>3. WriterPlaces = {writepos + k : k \in 0 .. n - 1}
      BY <3>1 DEF WriterPlaces
    <3>4. WriterPlaces \subseteq DOMAIN mem
      BY <2>1, <3>1, <3>2, <3>3, Constants
    <3> QED
      BY <2>2, <3>4 DEF WriterDue, MemoryKept, Early
  <2>3. ASSUME ReaderDue
        PROVE  ReaderPlaces \subseteq DOMAIN mem /\ memory = "alloc"
    <3>1. Live /\ LiveInv /\ c = "copy"
      BY <2>3 DEF ReaderDue, Live, Freeing, FifoInv
    <3>2. /\ todo = want /\ Available \in 1 .. want /\ Available <= Fill
          /\ readpos + Available <= BufSize
      BY <2>3, <3>1, AboutToCopy DEF ReaderDue
    <3>3. started /\ endOfConsumption # 1 /\ Fill # 0 /\ want \in Nat /\ readpos \in Nat
      BY <2>1, <3>1, <3>2, Quantities DEF LiveInv, CallOK, InRead, Polling, FifoTypeOK
    <3>4. memory = "alloc"
      <4>1. s \in Early
        BY <2>1, <3>1, <3>3
        DEF LiveInv, Thread, FifoTypeOK, ShovellerStates, Early, Past
      <4> QED
        BY <3>1, <4>1 DEF LiveInv, Thread
    <3>5. ReaderPlaces = {readpos + (i - 1) : i \in 1 .. Available}
      BY <3>2, <3>3 DEF ReaderPlaces, SourcePlace
    <3>6. ReaderPlaces \subseteq DOMAIN mem
      BY <2>1, <3>2, <3>3, <3>5, Constants
    <3> QED
      BY <3>4, <3>6
  <2> QED
    BY <2>1, <2>2, <2>3
    DEF MemorySafe, NoOverrun, NoOverread, CopiesFromLivingBuffer, WritesToLivingBuffer
<1> QED
  BY <1>1, FifoInvHolds, MemoryKeptHolds, PTL

-----------------------------------------------------------------------------
\* The bytes that arrived do not become fewer.
LEMMA ArrivedGrows ==
  ASSUME FifoInv, Shoveller \/ ShovellerDies \/ Client
  PROVE  Arrived \in Nat /\ Arrived' \in Nat /\ Arrived <= Arrived' /\ inputLen' = inputLen
<1> USE DEF inputVars, posVars, endVars, threadVars, workVars, callVars,
            seenVars, structVars
<1>1. inCounter \in Nat /\ Pending \in Nat /\ Pending <= inCounter
  BY DEF FifoInv, FifoTypeOK, ShovelOK, PublishOK, Pending
<1>2. CASE ShovelQuiet
  <2>1. inCounter' = inCounter /\ inputLen' = inputLen /\ Pending' = Pending
    BY <1>2, QuietFlow DEF flowVars
  <2> QED
    BY <1>1, <2>1 DEF Arrived
<1>3. CASE ShovelSpace
  <2>1. inCounter' = inCounter /\ inputLen' = inputLen /\ Pending' = Pending
    BY <1>3 DEF ShovelSpace, Pending
  <2> QED
    BY <1>1, <2>1 DEF Arrived
<1>4. CASE ShovelRead
  <2>1. inCounter' = inCounter + taken' /\ inputLen' = inputLen /\ Pending' = taken'
        /\ Pending = 0 /\ taken' \in Nat
    <3>1. inputLen \in Nat /\ inCounter < inputLen
      BY <1>4 DEF ShovelRead, FifoInv, FifoTypeOK
    <3>2. Lesser(InpReadSize, inputLen - inCounter) \in Nat
      BY <1>1, <3>1, Constants DEF Lesser
    <3> QED
      BY <1>4, <3>2 DEF ShovelRead, Pending
  <2>2. Arrived = inCounter
    BY <1>1, <2>1 DEF Arrived
  <2>3. Arrived' = inCounter
    <3>1. Arrived' = (inCounter + taken') - taken'
      BY <2>1 DEF Arrived
    <3>2. \A a, b \in Nat : (a + b) - b = a
      OBVIOUS
    <3>3. inCounter \in Nat /\ taken' \in Nat
      BY <1>1, <2>1
    <3> QED
      BY <3>1, <3>2, <3>3
  <2> QED
    BY <1>1, <2>1, <2>2, <2>3
<1>5. CASE ShovelPublish
  <2>1. inCounter' = inCounter /\ inputLen' = inputLen /\ Pending' = 0
    BY <1>5 DEF ShovelPublish, Pending
  <2> QED
    BY <1>1, <2>1 DEF Arrived
<1>6. CASE ShovellerDies
  <2>1. inCounter' = inCounter /\ inputLen' = inputLen /\ Pending' = 0
    BY <1>6 DEF ShovellerDies, Pending
  <2> QED
    BY <1>1, <2>1 DEF Arrived
<1>7. CASE Client
  <2>1. inCounter' = inCounter /\ inputLen' = inputLen /\ taken' = taken
    BY <1>7 DEF Client, FifoRead, FifoFree, ReadBegin, ReadAfterEnd, ReadPoll, ReadCheckEoi,
       ReadCheckError, ReadCopy, ReadAdvance, ReadWrap, ReadFinish, PeekBegin, PeekPositions,
       PeekDecide, FreeBegin, FreeAbort, FreeCancel, FreeInput, FreeMemory, FreeStruct
  <2>2. s' = s \/ (s # "publish" /\ s' # "publish")
    <3>1. c = "idle" /\ StartThread => s' = s \/ (s # "publish" /\ s' # "publish")
      BY StartThreadKeeps DEF Live, Freeing
    <3>2. (c = "idle" /\ StartThread) \/ s' = s
      BY <1>7 DEF Client, FifoRead, FifoFree, ReadBegin, ReadAfterEnd, ReadPoll, ReadCheckEoi,
         ReadCheckError, ReadCopy, ReadAdvance, ReadWrap, ReadFinish, PeekBegin, PeekPositions,
         PeekDecide, FreeBegin, FreeAbort, FreeCancel, FreeInput, FreeMemory, FreeStruct
    <3> QED
      BY <3>1, <3>2
  <2>3. Pending' = Pending
    BY <2>1, <2>2 DEF Pending
  <2> QED
    BY <1>1, <2>1, <2>3 DEF Arrived
<1> QED
  BY <1>2, <1>3, <1>4, <1>5, <1>6, <1>7 DEF Shoveller, ShovelQuiet

\* Only two steps concern what a peek has seen and what it answers.
LEMMA PeekFrame ==
  ASSUME Shoveller \/ ShovellerDies \/ Client
  PROVE  /\ c' \in {"peek", "peekDecide"} =>
              \/ \E n \in PeekSizes : PeekBegin(n)
              \/ PeekPositions \/ PeekDecide
              \/ UNCHANGED <<c, want, view, outCounter>>
         /\ ~ PeekDecide => peeked' = peeked
<1> USE DEF inputVars, posVars, endVars, threadVars, workVars, callVars,
            seenVars, structVars
<1>1. CASE Shoveller \/ ShovellerDies
  BY <1>1 DEF Shoveller, ShovellerDies, ShovelEnter, ShovelLoop, ShovelSpace, ShovelRead,
     ShovelPublish, ShovelInputEnds, ShovelEndOfInput, ShovelDrained, ShovelClaim, ShovelFree,
     ShovelForget, ShovelInvalidate, ShovelResult, ShovelRemove
<1>2. CASE Client
  BY <1>2 DEF Client, FifoRead, FifoFree, ReadBegin, ReadAfterEnd, ReadPoll, ReadCheckEoi,
     ReadCheckError, ReadCopy, ReadAdvance, ReadWrap, ReadFinish, PeekBegin, PeekPositions,
     FreeBegin, FreeAbort, FreeCancel, FreeInput, FreeMemory, FreeStruct
<1> QED
  BY <1>1, <1>2

\* The invariant of peeking is inductive, given that of the fifo.
LEMMA PeekInvHolds ==
  ASSUME AlignedCalls, AlignedPeeks PROVE FifoSpec => []PeekInv
<1>1. FifoInit => PeekInv
  BY FifoAssumption DEF FifoInit, PeekInv, PeekShowsInput, ViewOK, PeekOK, NoPeek, NoRet
<1>2. FifoInv /\ PeekInv /\ [FifoNext]_fifoVars => PeekInv'
  <2> SUFFICES ASSUME FifoInv, PeekInv, [FifoNext]_fifoVars PROVE PeekInv'
    OBVIOUS
  <2> USE DEF inputVars, posVars, endVars, threadVars, workVars, callVars,
              seenVars, structVars
  <2>1. CASE UNCHANGED fifoVars
    BY <2>1 DEF fifoVars, PeekInv, PeekShowsInput, ViewOK, PeekOK, Arrived, Pending
  <2>2. CASE Shoveller \/ ShovellerDies \/ Client
    <3>1. Arrived \in Nat /\ Arrived' \in Nat /\ Arrived <= Arrived' /\ inputLen' = inputLen
      BY <2>2, ArrivedGrows
    <3>2. ViewOK'
      <4>1. ASSUME NEW n \in PeekSizes, PeekBegin(n) PROVE want' \in PeekSizes
        BY <4>1 DEF PeekBegin
      <4>2. CASE PeekPositions \/ PeekDecide
        BY <4>2 DEF PeekPositions, PeekDecide, PeekReturns, PeekInv, ViewOK
      <4>3. CASE UNCHANGED <<c, want, view, outCounter>>
        BY <3>1, <4>3 DEF PeekInv, ViewOK
      <4> QED
        BY <2>2, <3>1, <4>1, <4>2, <4>3, PeekFrame DEF PeekInv, ViewOK
    <3>3. PeekOK'
      <4> SUFFICES ASSUME (c = "peekDecide")', (outCounter = 0)' PROVE PeekOK'
        BY DEF PeekOK
      <4>1. CASE PeekPositions
        <5>1. /\ c = "peek" /\ view' = FreeBytes(readpos, writepos) /\ outCounter = 0
              /\ inCounter' = inCounter /\ s' = s /\ taken' = taken
          BY <4>1 DEF PeekPositions
        <5>2. Live /\ LiveInv
          BY <5>1 DEF Live, Freeing, FifoInv
        <5>3. Passed = 0
          BY <5>1 DEF Passed, Polling, FifoInv, Delivered
        <5>4. view' = BufSize - 1 - Fill /\ Arrived = Fill /\ Fill \in 0 .. BufSize - 1
          BY <5>1, <5>2, <5>3, PositionsTellFill, Quantities
        <5>5. BufSize - 1 - view' = Arrived
          BY <5>4, Constants
        <5>6. Multiple(Arrived, InpReadSize) \/ Arrived = inputLen
          BY <5>2 DEF LiveInv, Amounts, Exhausted, Arrived, FifoInv, FifoTypeOK
        <5>7. Arrived' = Arrived
          BY <5>1 DEF Arrived, Pending
        <5> QED
          BY <3>1, <5>5, <5>6, <5>7 DEF PeekOK
      <4>2. CASE UNCHANGED <<c, want, view, outCounter>>
        BY <3>1, <4>2, Constants DEF PeekInv, PeekOK, FifoInv, FifoTypeOK
      <4>3. ~ PeekDecide /\ \A n \in PeekSizes : ~ PeekBegin(n)
        BY DEF PeekDecide, PeekReturns, PeekBegin
      <4> QED
        BY <2>2, <4>1, <4>2, <4>3, PeekFrame
    <3>4. PeekShowsInput'
      <4>1. CASE ~ PeekDecide
        BY <2>2, <4>1, PeekFrame DEF PeekInv, PeekShowsInput
      <4>2. CASE PeekDecide
        <5> SUFFICES ASSUME peeked' # peeked, (peeked.ret = 1)', 
                            NEW i \in 1 .. peeked'.size
                     PROVE  peeked'.data[i] = i - 1
          BY DEF PeekInv, PeekShowsInput
        <5>1. /\ c = "peekDecide" /\ ~ Refused /\ BufSize - view >= want
              /\ peeked'.size = want /\ peeked'.data = [j \in 1 .. want |-> mem[j - 1]]
          <6>1. \A r \in {-1, 0, 1} : PeekReturns(r) => peeked'.ret = r
            BY DEF PeekReturns
          <6>2. ~ Refused /\ BufSize - view >= want /\ PeekReturns(1)
            BY <4>2, <6>1 DEF PeekDecide
          <6> QED
            BY <4>2, <6>2 DEF PeekDecide, PeekReturns
        <5>2. /\ outCounter = 0 /\ want \in PeekSizes /\ want \in Nat \ {0} /\ view \in Nat
              /\ inputLen \in InputLens
          BY <5>1, FifoAssumption DEF Refused, FifoInv, FifoTypeOK, PeekInv, ViewOK
        <5> DEFINE q == BufSize - 1 - view
        <5>3. q \in 0 .. Arrived /\ (Multiple(q, InpReadSize) \/ q = inputLen)
          BY <5>1, <5>2 DEF PeekInv, PeekOK
        <5>4. q # want - 1
          BY <5>2, <5>3 DEF AlignedPeeks
        <5>5. want <= Arrived
          BY <3>1, <5>1, <5>2, <5>3, <5>4, Constants
        <5>6. Live /\ LiveInv
          BY <5>1 DEF Live, Freeing, FifoInv
        <5>7. Passed = 0
          BY <5>1, <5>2 DEF Passed, Polling, FifoInv, Delivered
        <5>8. readpos = 0 /\ Arrived = Fill /\ Fill \in 0 .. BufSize - 1
          BY <5>6, <5>7, Quantities DEF LiveInv, Positions
        <5>9. i \in 1 .. want
          BY <5>1
        <5>10. i - 1 \in 0 .. Fill + Pending - 1 /\ i - 1 < BufSize
          BY <5>2, <5>5, <5>6, <5>8, <5>9, Quantities, Constants
        <5>11. mem[Norm(Norm(readpos) + (i - 1))] = Passed + (i - 1)
          BY <5>6, <5>10 DEF LiveInv, Content
        <5>12. Norm(Norm(readpos) + (i - 1)) = i - 1
          BY <5>8, <5>10, Constants DEF Norm
        <5> QED
          BY <5>1, <5>7, <5>9, <5>11, <5>12
      <4> QED
        BY <4>1, <4>2
    <3> QED
      BY <2>2, <3>1, <3>2, <3>3, <3>4 DEF PeekInv
  <2> QED
    BY <2>1, <2>2 DEF FifoNext
<1> QED
  BY <1>1, <1>2, FifoInvHolds, PTL DEF FifoSpec

\* burn_fifo_peek_data(): what a successful peek shows is the beginning of the
\* input.
THEOREM PeekShowsTheInput ==
  ASSUME AlignedCalls, AlignedPeeks PROVE FifoSpec => []PeekShowsInput
<1>1. PeekInv => PeekShowsInput
  BY DEF PeekInv
<1> QED
  BY <1>1, PeekInvHolds, PTL
=============================================================================
