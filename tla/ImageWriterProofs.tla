------------------------- MODULE ImageWriterProofs -------------------------
(***************************************************************************)
(* Proofs about the ring buffer, for every capacity, every set of call     *)
(* sizes and every length of the stream, and then about the life of the    *)
(* Ecma119Image around it, for every size of the image.                    *)
(***************************************************************************)
EXTENDS ImageWriter, SequenceTheorems, TLAPS

-----------------------------------------------------------------------------
(* Facts about the helpers.                                                *)

\* A position that runs past the end of the memory re-enters at its start.
LEMMA Wrap ==
    ASSUME NEW x \in Nat, NEW y \in Nat, x + y < 2 * Cap
    PROVE  (x + y) % Cap = IF x + y < Cap THEN x + y ELSE x + y - Cap
<1>1. Cap \in Nat \ {0}
  BY SizeAssumption
<1> DEFINE z == x + y
<1>2. z \in Nat /\ z < 2 * Cap
  OBVIOUS
<1> HIDE DEF z
<1>3. CASE z < Cap
  BY <1>1, <1>2, <1>3, Z3 DEF z
<1>4. CASE z >= Cap
  BY <1>1, <1>2, <1>4, Z3 DEF z
<1>5. QED
  BY <1>1, <1>2, <1>3, <1>4

\* A pass of the write loop copies something, and only what fits.
LEMMA WriteLenBounds ==
    ASSUME TypeOK, size < Cap, wleft > 0
    PROVE  /\ WriteLen \in 1 .. Cap
           /\ WriteLen <= wleft
           /\ size + WriteLen <= Cap
           /\ wpos + WriteLen <= Cap
BY SizeAssumption DEF TypeOK, WriteLen, Least

\* A pass of the read loop copies something, and only what is there.
LEMMA ReadLenBounds ==
    ASSUME TypeOK, size > 0, rleft > 0
    PROVE  /\ ReadLen \in 1 .. Cap
           /\ ReadLen <= rleft
           /\ ReadLen <= size
           /\ rpos + ReadLen <= Cap
BY SizeAssumption DEF TypeOK, ReadLen, Least

-----------------------------------------------------------------------------
(* The two copies.                                                         *)

\* The writer's copy lands behind the bytes that wait to be read, spoils none
\* of them, and continues their numbering.
LEMMA WriteCopyInv == RingInv /\ WriteCopy => RingInv'
<1> SUFFICES ASSUME RingInv, WriteCopy PROVE RingInv'
  OBVIOUS
<1> USE DEF RingInv
<1> DEFINE n == WriteLen
<1>1. Cap \in Nat \ {0}
  BY SizeAssumption
<1>2. n \in 1 .. Cap /\ n <= wleft /\ size + n <= Cap /\ wpos + n <= Cap
  BY WriteLenBounds DEF WriteCopy, Calls
<1>3. /\ size' = size + n /\ sent' = sent + n /\ wleft' = wleft - n
      /\ wpos' = (wpos + n) % Cap
      /\ buf' = [i \in 0 .. Cap - 1 |->
                   IF i \in wpos .. wpos + n - 1 THEN sent + (i - wpos) ELSE buf[i]]
      /\ wcall = "trying" /\ wcall' = IF wleft = n THEN "out" ELSE "trying"
      /\ wret' = 1 /\ rcall' = Woken(rcall)
      /\ UNCHANGED <<rpos, got, rend, wend, rleft, rret>>
  BY DEF WriteCopy
<1> HIDE DEF n
<1>4. wpos = IF rpos + size < Cap THEN rpos + size ELSE rpos + size - Cap
  <2>1. rpos + size \in Nat /\ rpos + size < 2 * Cap
    BY <1>1, <1>2 DEF TypeOK
  <2>2. QED
    BY <2>1, <1>1, Wrap DEF Content, Offset, TypeOK
<1>5. wpos' \in 0 .. Cap - 1
  BY <1>1, <1>2, <1>3, Wrap DEF TypeOK
<1>6. sent' <= MaxBytes
  BY <1>2, <1>3, SizeAssumption DEF WriteCopy, Calls, TypeOK
<1>7. TypeOK'
  BY <1>1, <1>2, <1>3, <1>5, <1>6, SizeAssumption
     DEF TypeOK, CallStates, Woken
<1>8. Content'
  <2>1. sent' = Len(got') + size'
    BY <1>2, <1>3 DEF Content, TypeOK
  <2>2. wpos' = Offset(size)'
    <3>1. wpos + n < 2 * Cap
      BY <1>1, <1>2 DEF TypeOK
    <3>2. (wpos + n) % Cap = IF wpos + n < Cap THEN wpos + n ELSE wpos + n - Cap
      BY <3>1, <1>1, <1>2, Wrap DEF TypeOK
    <3>3. size' \in Nat /\ rpos' \in Nat /\ rpos' + size' < 2 * Cap
      BY <1>1, <1>2, <1>3 DEF TypeOK
    <3>4. (rpos' + size') % Cap
            = IF rpos' + size' < Cap THEN rpos' + size' ELSE rpos' + size' - Cap
      BY <3>3, <1>1, Wrap
    <3>5. (wpos + n) % Cap = (rpos' + size') % Cap
      BY <1>3, <1>4, <3>2, <3>4, <1>1, <1>2 DEF TypeOK
    <3>6. QED
      BY <3>5, <1>3 DEF Offset
  <2>3. ASSUME NEW k \in 0 .. size' - 1
        PROVE  buf'[Offset(k)'] = Len(got') + k
    <3> DEFINE c == IF rpos + k < Cap THEN rpos + k ELSE rpos + k - Cap
    <3>1. k \in Nat /\ k < size + n /\ rpos + k \in Nat /\ rpos + k < 2 * Cap
      BY <1>1, <1>2, <1>3 DEF TypeOK
    <3>2. Offset(k) = c /\ Offset(k)' = c /\ c \in 0 .. Cap - 1
      BY <3>1, <1>1, <1>3, Wrap DEF TypeOK, Offset
    <3>3. wpos = IF rpos + size < Cap THEN rpos + size ELSE rpos + size - Cap
      BY <1>4
    <3>4. CASE k < size
      <4>1. c \notin wpos .. wpos + n - 1
        BY <3>1, <3>3, <3>4, <1>1, <1>2 DEF TypeOK
      <4>2. buf[c] = Len(got) + k
        BY <3>1, <3>2, <3>4 DEF Content, TypeOK
      <4>3. QED
        BY <4>1, <4>2, <3>2, <1>3
    <3>5. CASE k >= size
      <4>1. c = wpos + (k - size)
        BY <3>1, <3>3, <3>5, <1>1, <1>2 DEF TypeOK
      <4>2. c \in wpos .. wpos + n - 1
        BY <4>1, <3>1, <3>5, <1>2 DEF TypeOK
      <4>3. buf'[c] = sent + (c - wpos)
        BY <4>2, <3>2, <1>3
      <4>4. sent + (c - wpos) = Len(got) + k
        <5> HIDE DEF c
        <5>1. Len(got) \in Nat /\ sent = Len(got) + size
          BY DEF Content, TypeOK
        <5>2. QED
          BY <4>1, <5>1, <3>1 DEF TypeOK
      <4>5. QED
        BY <4>3, <4>4, <3>2, <1>3
    <3>6. k < size \/ k >= size
      BY <3>1 DEF TypeOK
    <3>7. QED
      BY <3>4, <3>5, <3>6
  <2>4. QED
    BY <2>1, <2>2, <2>3 DEF Content
<1>9. Calls'
  BY <1>1, <1>2, <1>3, SizeAssumption DEF Calls, TypeOK, Woken, CallStates
<1>10. InOrder'
  BY <1>3 DEF InOrder
<1>11. NoLostWakeup'
  BY <1>1, <1>2, <1>3 DEF NoLostWakeup, Woken, TypeOK
<1>12. QED
  BY <1>7, <1>8, <1>9, <1>10, <1>11

\* The reader's copy takes the oldest bytes and leaves the others in place.
LEMMA ReadCopyInv == RingInv /\ ReadCopy => RingInv'
<1> SUFFICES ASSUME RingInv, ReadCopy PROVE RingInv'
  OBVIOUS
<1> USE DEF RingInv
<1> DEFINE n == ReadLen
<1> DEFINE bytes == [i \in 1 .. n |-> buf[rpos + i - 1]]
<1>1. Cap \in Nat \ {0}
  BY SizeAssumption
<1>2. n \in 1 .. Cap /\ n <= rleft /\ n <= size /\ rpos + n <= Cap
  BY ReadLenBounds DEF ReadCopy, Calls
<1>3. /\ size' = size - n /\ rleft' = rleft - n
      /\ rpos' = (rpos + n) % Cap
      /\ got' = got \o bytes
      /\ rcall = "trying" /\ rcall' = IF rleft = n THEN "out" ELSE "trying"
      /\ rret' = 1 /\ wcall' = Woken(wcall)
      /\ UNCHANGED <<buf, wpos, rend, wend, wleft, wret, sent>>
  BY DEF ReadCopy
<1> HIDE DEF n
<1>4. rpos' = IF rpos + n < Cap THEN rpos + n ELSE rpos + n - Cap
  <2>1. rpos + n < 2 * Cap
    BY <1>1, <1>2 DEF TypeOK
  <2>2. QED
    BY <2>1, <1>1, <1>2, <1>3, Wrap DEF TypeOK
<1>5. /\ bytes \in Seq(Int) /\ Len(bytes) = n
      /\ \A i \in 1 .. n : bytes[i] = buf[rpos + i - 1]
  BY <1>1, <1>2 DEF TypeOK
<1>6. bytes[1] = buf[rpos]
  BY <1>2, <1>5 DEF TypeOK
<1>7. \A i \in 1 .. n : bytes[i] = Len(got) + i - 1
  <2>1. ASSUME NEW i \in 1 .. n PROVE bytes[i] = Len(got) + i - 1
    <3> DEFINE k == i - 1
    <3>1. k \in 0 .. size - 1 /\ rpos + k < Cap /\ rpos + k < 2 * Cap /\ k \in Nat
      BY <1>1, <1>2 DEF TypeOK
    <3>2. bytes[i] = buf[rpos + k]
      BY <1>5, <1>2 DEF TypeOK
    <3> HIDE DEF k
    <3>3. Offset(k) = rpos + k
      BY <3>1, <1>1, Wrap DEF Offset, TypeOK
    <3>4. buf[Offset(k)] = Len(got) + k
      BY <3>1 DEF Content
    <3>5. QED
      BY <3>2, <3>3, <3>4, <1>2 DEF k, TypeOK
  <2>2. QED
    BY <2>1
<1> HIDE DEF bytes
<1>8. /\ got' \in Seq(Int) /\ Len(got') = Len(got) + n
      /\ \A i \in 1 .. Len(got') :
            got'[i] = IF i <= Len(got) THEN got[i] ELSE bytes[i - Len(got)]
  <2>1. got \in Seq(Int) /\ bytes \in Seq(Int) /\ n \in Nat
    BY <1>2, <1>5 DEF TypeOK
  <2>2. got' \in Seq(Int) /\ Len(got') = Len(got) + n
    BY <2>1, <1>3, <1>5, ConcatProperties
  <2>3. QED
    BY <2>1, <2>2, <1>3, <1>5, ConcatProperties
<1>9. TypeOK'
  BY <1>1, <1>2, <1>3, <1>4, <1>8, SizeAssumption DEF TypeOK, CallStates, Woken
<1>10. Content'
  <2>1. sent' = Len(got') + size'
    BY <1>2, <1>3, <1>8 DEF Content, TypeOK
  <2>2. \A k \in 0 .. size' : Offset(k)' = Offset(k + n)
    <3>1. ASSUME NEW k \in 0 .. size' PROVE Offset(k)' = Offset(k + n)
      <4> DEFINE m == k + n
      <4>1. /\ k \in Nat /\ m \in Nat /\ rpos + m < 2 * Cap
            /\ k < Cap /\ rpos' \in Nat /\ rpos' + k < 2 * Cap
        BY <1>1, <1>2, <1>3, <1>4 DEF TypeOK
      <4>2. m = k + n
        OBVIOUS
      <4> HIDE DEF m
      <4>3. (rpos' + k) % Cap = IF rpos' + k < Cap THEN rpos' + k ELSE rpos' + k - Cap
        BY <4>1, <1>1, Wrap
      <4>4. (rpos + m) % Cap = IF rpos + m < Cap THEN rpos + m ELSE rpos + m - Cap
        BY <4>1, <1>1, Wrap DEF TypeOK
      <4>5. (rpos' + k) % Cap = (rpos + m) % Cap
        BY <4>1, <4>2, <4>3, <4>4, <1>1, <1>2, <1>4 DEF TypeOK
      <4>6. QED
        BY <4>2, <4>5 DEF Offset
    <3>2. QED
      BY <3>1
  <2>3. wpos' = Offset(size)'
    <3>1. size' \in 0 .. size' /\ size' + n = size
      BY <1>2, <1>3 DEF TypeOK
    <3>2. Offset(size)' = Offset(size)
      BY <2>2, <3>1 DEF Offset
    <3>3. QED
      BY <3>2, <1>3 DEF Content
  <2>4. ASSUME NEW k \in 0 .. size' - 1
        PROVE  buf'[Offset(k)'] = Len(got') + k
    <3>1. k \in 0 .. size' /\ k + n \in 0 .. size - 1
      BY <1>2, <1>3 DEF TypeOK
    <3>2. Offset(k)' = Offset(k + n) /\ buf[Offset(k + n)] = Len(got) + (k + n)
      BY <2>2, <3>1 DEF Content
    <3>3. Len(got') + k = Len(got) + (k + n)
      BY <1>2, <1>8, <3>1 DEF TypeOK
    <3>4. QED
      BY <3>2, <3>3, <1>3
  <2>5. QED
    BY <2>1, <2>3, <2>4 DEF Content
<1>11. Calls'
  BY <1>1, <1>2, <1>3, SizeAssumption DEF Calls, TypeOK, Woken, CallStates
<1>12. InOrder'
  <2>1. ASSUME NEW i \in 1 .. Len(got') PROVE got'[i] = i - 1
    <3>1. Len(got) \in Nat /\ Len(got') = Len(got) + n
      BY <1>8 DEF TypeOK
    <3>2. CASE i <= Len(got)
      BY <3>1, <3>2, <1>8 DEF InOrder
    <3>3. CASE i > Len(got)
      <4>1. i - Len(got) \in 1 .. n
        BY <3>1, <3>3, <1>2
      <4>2. got'[i] = bytes[i - Len(got)]
        BY <3>1, <3>3, <1>8
      <4>3. QED
        BY <4>1, <4>2, <3>1, <1>7
    <3>4. QED
      BY <3>1, <3>2, <3>3
  <2>2. QED
    BY <2>1 DEF InOrder
<1>13. NoLostWakeup'
  BY <1>1, <1>2, <1>3 DEF NoLostWakeup, Woken, TypeOK
<1>14. QED
  BY <1>9, <1>10, <1>11, <1>12, <1>13

-----------------------------------------------------------------------------
(* The inductive invariant.                                                *)

LEMMA FrameContent == Content /\ UNCHANGED <<buf, size, rpos, wpos, sent, got>> => Content'
BY DEF Content, Offset

LEMMA InitInv == Init => RingInv
<1> SUFFICES ASSUME Init PROVE RingInv
  OBVIOUS
<1> USE SizeAssumption DEF Init, RingInit
<1>1. TypeOK
  BY DEF TypeOK, CallStates
<1>2. Content
  <2>1. 0 % Cap = 0
    BY Z3
  <2>2. QED
    BY <2>1 DEF Content, Offset
<1>3. Calls /\ InOrder /\ NoLostWakeup
  BY DEF Calls, InOrder, NoLostWakeup
<1>4. QED
  BY <1>1, <1>2, <1>3 DEF RingInv

LEMMA NextInv == RingInv /\ [Next]_vars => RingInv'
<1> SUFFICES ASSUME RingInv, [Next]_vars PROVE RingInv'
  OBVIOUS
<1> USE SizeAssumption DEF RingInv, ringVars, writerVars, readerVars
<1>1. ASSUME NEW n \in WriteSizes, WriteBegin(n) PROVE RingInv'
  <2>1. Content'
    BY <1>1, FrameContent DEF WriteBegin
  <2>2. TypeOK' /\ Calls' /\ InOrder' /\ NoLostWakeup'
    BY <1>1 DEF WriteBegin, TypeOK, CallStates, Calls, InOrder, NoLostWakeup
  <2>3. QED
    BY <2>1, <2>2
<1>2. CASE WriteCopy
  BY <1>2, WriteCopyInv
<1>3. CASE WriteSleep
  <2>1. Content'
    BY <1>3, FrameContent DEF WriteSleep
  <2>2. TypeOK' /\ Calls' /\ InOrder' /\ NoLostWakeup'
    BY <1>3 DEF WriteSleep, TypeOK, CallStates, Calls, InOrder, NoLostWakeup
  <2>3. QED
    BY <2>1, <2>2
<1>4. CASE WriteBroken
  <2>1. Content'
    BY <1>4, FrameContent DEF WriteBroken
  <2>2. TypeOK' /\ Calls' /\ InOrder' /\ NoLostWakeup'
    BY <1>4 DEF WriteBroken, TypeOK, CallStates, Calls, InOrder, NoLostWakeup
  <2>3. QED
    BY <2>1, <2>2
<1>5. ASSUME NEW e \in BOOLEAN, WriterClose(e) PROVE RingInv'
  <2>1. Content'
    BY <1>5, FrameContent DEF WriterClose
  <2>2. TypeOK' /\ Calls' /\ InOrder' /\ NoLostWakeup'
    BY <1>5 DEF WriterClose, Woken, TypeOK, CallStates, Calls, InOrder, NoLostWakeup
  <2>3. QED
    BY <2>1, <2>2
<1>6. ASSUME NEW n \in ReadSizes, ReadBegin(n) PROVE RingInv'
  <2>1. Content'
    BY <1>6, FrameContent DEF ReadBegin
  <2>2. TypeOK' /\ Calls' /\ InOrder' /\ NoLostWakeup'
    BY <1>6 DEF ReadBegin, TypeOK, CallStates, Calls, InOrder, NoLostWakeup
  <2>3. QED
    BY <2>1, <2>2
<1>7. CASE ReadCopy
  BY <1>7, ReadCopyInv
<1>8. CASE ReadSleep
  <2>1. Content'
    BY <1>8, FrameContent DEF ReadSleep
  <2>2. TypeOK' /\ Calls' /\ InOrder' /\ NoLostWakeup'
    BY <1>8 DEF ReadSleep, TypeOK, CallStates, Calls, InOrder, NoLostWakeup
  <2>3. QED
    BY <2>1, <2>2
<1>9. CASE ReadEof
  <2>1. Content'
    BY <1>9, FrameContent DEF ReadEof
  <2>2. TypeOK' /\ Calls' /\ InOrder' /\ NoLostWakeup'
    BY <1>9 DEF ReadEof, TypeOK, CallStates, Calls, InOrder, NoLostWakeup
  <2>3. QED
    BY <2>1, <2>2
<1>10. ASSUME NEW e \in BOOLEAN, ReaderClose(e) PROVE RingInv'
  <2>1. Content'
    BY <1>10, FrameContent DEF ReaderClose
  <2>2. TypeOK' /\ Calls' /\ InOrder' /\ NoLostWakeup'
    BY <1>10 DEF ReaderClose, Woken, TypeOK, CallStates, Calls, InOrder, NoLostWakeup
  <2>3. QED
    BY <2>1, <2>2
<1>11. CASE WriteSpurious \/ ReadSpurious
  <2>1. Content'
    BY <1>11, FrameContent DEF WriteSpurious, ReadSpurious
  <2>2. TypeOK' /\ Calls' /\ InOrder' /\ NoLostWakeup'
    BY <1>11 DEF WriteSpurious, ReadSpurious, TypeOK, CallStates, Calls, InOrder,
                 NoLostWakeup
  <2>3. QED
    BY <2>1, <2>2
<1>12. CASE UNCHANGED vars
  <2>1. Content'
    BY <1>12, FrameContent DEF vars
  <2>2. TypeOK' /\ Calls' /\ InOrder' /\ NoLostWakeup'
    BY <1>12 DEF vars, TypeOK, CallStates, Calls, InOrder, NoLostWakeup
  <2>3. QED
    BY <2>1, <2>2
<1>13. QED
  BY <1>1, <1>2, <1>3, <1>4, <1>5, <1>6, <1>7, <1>8, <1>9, <1>10, <1>11, <1>12
     DEF Next, Writer, Reader, InWrite, InRead

\* In every reachable state the buffer holds exactly the bytes under way, in
\* order, between the positions that buffer.c keeps modulo the capacity.
THEOREM Invariance == Spec => []RingInv
<1>1. Init => RingInv
  BY InitInv
<1>2. RingInv /\ [Next]_vars => RingInv'
  BY NextInv
<1>3. QED
  BY <1>1, <1>2, PTL DEF Spec

-----------------------------------------------------------------------------
(* What the clients of the buffer rely on.                                 *)

\* Type correctness.
THEOREM TypeCorrect == Spec => []TypeOK
<1>1. RingInv => TypeOK
  BY DEF RingInv
<1>2. QED
  BY <1>1, Invariance, PTL

\* iso_ring_buffer_read() hands out a prefix of what iso_ring_buffer_write()
\* was given, whatever the two threads do.
THEOREM DeliveryInOrder == Spec => []InOrder
<1>1. RingInv => InOrder
  BY DEF RingInv
<1>2. QED
  BY <1>1, Invariance, PTL

\* The end of file of iso_ring_buffer_read() comes after the last byte.
THEOREM EofAfterLastByte == Spec => []EofIsComplete
<1>1. RingInv => EofIsComplete
  BY DEF RingInv, Calls, Content, TypeOK, EofIsComplete
<1>2. QED
  BY <1>1, Invariance, PTL

\* Neither thread sleeps in pthread_cond_wait() while there is work for it.
THEOREM SleepersHaveNoWork == Spec => []NoLostWakeup
<1>1. RingInv => NoLostWakeup
  BY DEF RingInv
<1>2. QED
  BY <1>1, Invariance, PTL

-----------------------------------------------------------------------------
(* The ring buffer implements the abstract byte stream.                    *)

\* The bytes in the buffer, oldest first: the mapping of Stream!inflight.
Flight == [k \in 1 .. size |-> buf[Offset(k - 1)]]

\* A stretch of s memory cells from offset r on that hold g, g + 1, ...
LEMMA Numbers ==
    ASSUME NEW b, NEW r, NEW s \in 0 .. Cap, NEW g \in Nat,
           \A k \in 0 .. s - 1 : b[(r + k) % Cap] = g + k,
           NEW f, f = [k \in 1 .. s |-> b[(r + (k - 1)) % Cap]]
    PROVE  /\ f \in Seq(Int) /\ Len(f) = s
           /\ \A k \in 1 .. s : f[k] = g + k - 1
<1>1. s \in Nat
  BY SizeAssumption
<1>2. ASSUME NEW k \in 1 .. s PROVE b[(r + (k - 1)) % Cap] = g + k - 1
  <2>1. k - 1 \in 0 .. s - 1
    BY <1>1
  <2>2. b[(r + (k - 1)) % Cap] = g + (k - 1)
    BY <2>1
  <2>3. QED
    BY <2>2, <1>1
<1>3. QED
  BY <1>1, <1>2

\* The bytes in the buffer are consecutive and follow what has been delivered.
LEMMA FlightNumbers ==
    ASSUME RingInv
    PROVE  /\ Flight \in Seq(Int) /\ Len(Flight) = size
           /\ \A k \in 1 .. size : Flight[k] = Len(got) + k - 1
<1>1. size \in 0 .. Cap /\ Len(got) \in Nat
  BY DEF RingInv, TypeOK
<1>2. \A k \in 0 .. size - 1 : buf[(rpos + k) % Cap] = Len(got) + k
  BY DEF RingInv, Content, Offset
<1>3. Flight = [k \in 1 .. size |-> buf[(rpos + (k - 1)) % Cap]]
  BY DEF Flight, Offset
<1>4. QED
  BY <1>1, <1>2, <1>3, Numbers

\* The same one step later.
LEMMA FlightNumbersNext ==
    ASSUME RingInv'
    PROVE  /\ Flight' \in Seq(Int) /\ Len(Flight') = size'
           /\ \A k \in 1 .. size' : Flight'[k] = Len(got') + k - 1
<1> DEFINE s == size' g == Len(got') b == buf' r == rpos' f == Flight'
<1>1. size' \in 0 .. Cap /\ Len(got') \in Nat
  BY DEF RingInv, TypeOK
<1>2. \A k \in 0 .. size' - 1 : buf'[(rpos' + k) % Cap] = Len(got') + k
  BY DEF RingInv, Content, Offset
<1>3. Flight' = [k \in 1 .. size' |-> buf'[(rpos' + (k - 1)) % Cap]]
  BY DEF Flight, Offset
<1> HIDE DEF s, g, b, r, f
<1>4. f \in Seq(Int) /\ Len(f) = s /\ \A k \in 1 .. s : f[k] = g + k - 1
  <2>1. s \in 0 .. Cap /\ g \in Nat
    BY <1>1 DEF s, g
  <2>2. \A k \in 0 .. s - 1 : b[(r + k) % Cap] = g + k
    BY <1>2 DEF s, g, b, r
  <2>3. f = [k \in 1 .. s |-> b[(r + (k - 1)) % Cap]]
    BY <1>3 DEF s, b, r, f
  <2>4. QED
    BY <2>1, <2>2, <2>3, Numbers
<1>5. QED
  BY <1>4 DEF s, g, f

\* A pass of the write loop puts its bytes into the stream.
LEMMA WriteCopyPuts ==
    RingInv /\ RingInv' /\ WriteCopy => \E k \in 1 .. Cap : Stream!Put(k)
<1> SUFFICES ASSUME RingInv, RingInv', WriteCopy
             PROVE  \E k \in 1 .. Cap : Stream!Put(k)
  OBVIOUS
<1> USE DEF RingInv
<1> DEFINE n == WriteLen
<1> DEFINE new == [i \in 1 .. n |-> sent + i - 1]
<1>1. /\ n \in 1 .. Cap /\ size + n <= Cap
      /\ wend = 0 /\ wret # 0
  BY WriteLenBounds DEF WriteCopy, Calls
<1>2. /\ size' = size + n /\ sent' = sent + n /\ wret' = 1
      /\ UNCHANGED <<got, rend, wend, rret>>
  BY DEF WriteCopy
<1> HIDE DEF n
<1>3. size \in Nat /\ Len(got) \in Nat /\ sent = Len(got) + size
  BY SizeAssumption DEF TypeOK, Content
<1>4. new \in Seq(Int) /\ Len(new) = n /\ \A i \in 1 .. n : new[i] = sent + i - 1
  BY <1>1, <1>3
<1> HIDE DEF new
<1>5. /\ Flight \in Seq(Int) /\ Len(Flight) = size
      /\ \A k \in 1 .. size : Flight[k] = Len(got) + k - 1
  BY FlightNumbers
<1>6. /\ Flight' \in Seq(Int) /\ Len(Flight') = size + n
      /\ \A k \in 1 .. size + n : Flight'[k] = Len(got) + k - 1
  BY FlightNumbersNext, <1>2
<1>7. Flight' = Flight \o new
  <2>1. /\ Flight \o new \in Seq(Int) /\ Len(Flight \o new) = size + n
        /\ \A i \in 1 .. size + n :
             (Flight \o new)[i] = IF i <= size THEN Flight[i] ELSE new[i - size]
    BY <1>4, <1>5, ConcatProperties
  <2>2. ASSUME NEW i \in 1 .. size + n PROVE (Flight \o new)[i] = Flight'[i]
    <3>1. Flight'[i] = Len(got) + i - 1
      BY <1>6
    <3>2. CASE i <= size
      <4>1. i \in 1 .. size /\ i \in 1 .. size + n
        BY <3>2, <1>3
      <4>2. (Flight \o new)[i] = Flight[i]
        BY <4>1, <2>1, <3>2
      <4>3. Flight[i] = Len(got) + i - 1
        BY <4>1, <1>5
      <4>4. QED
        BY <4>2, <4>3, <3>1
    <3>3. CASE i > size
      <4>1. i - size \in 1 .. n /\ ~(i <= size)
        BY <3>3, <1>1, <1>3
      <4>2. (Flight \o new)[i] = new[i - size]
        BY <4>1, <2>1
      <4>3. new[i - size] = sent + (i - size) - 1
        BY <4>1, <1>4
      <4>4. sent + (i - size) - 1 = Len(got) + i - 1
        BY <1>1, <1>3
      <4>5. QED
        BY <4>2, <4>3, <4>4, <3>1
    <3>4. i <= size \/ i > size
      BY <1>1, <1>3
    <3>5. QED
      BY <3>2, <3>3, <3>4
  <2>3. QED
    BY <2>1, <2>2, <1>6, SeqEqual
<1>8. Stream!Put(n)
  <2>1. ~(wend # 0) /\ ~(wret = 0) /\ Len(Flight) + n <= Cap
    BY <1>1, <1>5
  <2>2. Flight' = Flight \o [i \in 1 .. n |-> sent + i - 1]
    BY <1>7 DEF new
  <2>3. /\ (wend' # 0) = (wend # 0) /\ (rend' # 0) = (rend # 0)
        /\ (rret' = 0) = (rret = 0) /\ (wret' = 0) = (wret = 0)
    BY <1>1, <1>2
  <2>4. QED
    BY <2>1, <2>2, <2>3, <1>2 DEF Stream!Put, Flight
<1>9. QED
  BY <1>1, <1>8

\* A pass of the read loop takes its bytes out of the stream.
LEMMA ReadCopyTakes ==
    RingInv /\ RingInv' /\ ReadCopy => \E k \in 1 .. Cap : Stream!Take(k)
<1> SUFFICES ASSUME RingInv, RingInv', ReadCopy
             PROVE  \E k \in 1 .. Cap : Stream!Take(k)
  OBVIOUS
<1> USE DEF RingInv
<1> DEFINE n == ReadLen
<1> DEFINE bytes == [i \in 1 .. n |-> buf[rpos + i - 1]]
<1>1. /\ n \in 1 .. Cap /\ n <= size /\ rpos + n <= Cap
  BY ReadLenBounds DEF ReadCopy, Calls
<1>2. /\ size' = size - n /\ got' = got \o bytes
      /\ rret' = 1 /\ rret = 1
      /\ UNCHANGED <<sent, rend, wend, wret>>
  BY DEF ReadCopy, Calls, TypeOK
<1> HIDE DEF n
<1>3. size \in Nat /\ Len(got) \in Nat /\ rpos \in Nat
  BY SizeAssumption DEF TypeOK
<1>4. /\ Flight \in Seq(Int) /\ Len(Flight) = size
      /\ \A k \in 1 .. size : Flight[k] = Len(got) + k - 1
  BY FlightNumbers
<1>5. bytes = SubSeq(Flight, 1, n)
  <2>1. ASSUME NEW i \in 1 .. n PROVE buf[rpos + i - 1] = Flight[i]
    <3> DEFINE k == i - 1
    <3>1. k \in Nat /\ rpos + k < Cap /\ rpos + k < 2 * Cap /\ i \in 1 .. size
      BY <1>1, <1>3, SizeAssumption
    <3>2. Flight[i] = buf[Offset(k)] /\ rpos + i - 1 = rpos + k
      BY <3>1, <1>3 DEF Flight
    <3> HIDE DEF k
    <3>3. Offset(k) = rpos + k
      BY <3>1, <1>3, SizeAssumption, Wrap DEF Offset
    <3>4. QED
      BY <3>2, <3>3
  <2>2. SubSeq(Flight, 1, n) = [i \in 1 .. n |-> Flight[i]]
    BY <1>1, <1>3, <1>4
  <2>3. QED
    BY <2>1, <2>2
<1> HIDE DEF bytes
<1>6. SubSeq(Flight, 1, n) \in Seq(Int) /\ Len(SubSeq(Flight, 1, n)) = n
  BY <1>1, <1>3, <1>4, SubSeqProperties
<1>7. Len(got') = Len(got) + n
  BY <1>2, <1>5, <1>6, ConcatProperties DEF TypeOK
<1>8. /\ Flight' \in Seq(Int) /\ Len(Flight') = size - n
      /\ \A k \in 1 .. size - n : Flight'[k] = Len(got) + n + k - 1
  BY FlightNumbersNext, <1>2, <1>7
<1>9. Flight' = SubSeq(Flight, n + 1, Len(Flight))
  <2> DEFINE rest == SubSeq(Flight, n + 1, size)
  <2>1. /\ rest \in Seq(Int) /\ Len(rest) = size - n
        /\ \A i \in 1 .. size - n : rest[i] = Flight[n + i]
    BY <1>1, <1>3, <1>4
  <2> HIDE DEF rest
  <2>2. ASSUME NEW i \in 1 .. size - n PROVE rest[i] = Flight'[i]
    <3>1. n + i \in 1 .. size
      BY <1>1, <1>3
    <3>2. Flight[n + i] = Len(got) + (n + i) - 1
      BY <3>1, <1>4
    <3>3. QED
      BY <3>2, <2>1, <1>1, <1>3, <1>8
  <2>3. rest = Flight'
    BY <2>1, <2>2, <1>8, SeqEqual
  <2>4. QED
    BY <2>3, <1>4 DEF rest
<1>10. Stream!Take(n)
  BY <1>1, <1>2, <1>4, <1>5, <1>9 DEF Stream!Take, Flight
<1>11. QED
  BY <1>1, <1>10

\* A step that leaves memory, positions and results alone stutters.
LEMMA FrameStream ==
    UNCHANGED <<buf, size, rpos, sent, got, wend, rend, wret, rret>>
      => UNCHANGED Stream!streamVars
<1> SUFFICES ASSUME UNCHANGED <<buf, size, rpos, sent, got, wend, rend, wret, rret>>
             PROVE  UNCHANGED Stream!streamVars
  OBVIOUS
<1>1. Flight' = Flight
  BY DEF Flight, Offset
<1>2. QED
  BY <1>1 DEF Stream!streamVars, Flight

\* Every step of the ring buffer is a step of the stream or a stutter.
LEMMA StepSimulation ==
    RingInv /\ RingInv' /\ [Next]_vars => [Stream!StreamNext]_Stream!streamVars
<1> SUFFICES ASSUME RingInv, RingInv', [Next]_vars
             PROVE  [Stream!StreamNext]_Stream!streamVars
  OBVIOUS
<1> USE DEF ringVars, writerVars, readerVars
<1>1. ASSUME NEW n \in WriteSizes, WriteBegin(n) PROVE UNCHANGED Stream!streamVars
  BY <1>1, FrameStream DEF WriteBegin
<1>2. CASE WriteCopy
  BY <1>2, WriteCopyPuts DEF Stream!StreamNext
<1>3. CASE WriteSleep \/ WriteSpurious \/ ReadSleep \/ ReadSpurious
  BY <1>3, FrameStream DEF WriteSleep, WriteSpurious, ReadSleep, ReadSpurious
<1>4. CASE WriteBroken
  <2>1. Flight' = Flight /\ Len(Flight) = Cap
    BY <1>4, FlightNumbers DEF WriteBroken, Flight, Offset
  <2>2. Stream!ReportBroken
    BY <2>1, <1>4 DEF WriteBroken, Stream!ReportBroken, Flight
  <2>3. QED
    BY <2>2 DEF Stream!StreamNext
<1>5. ASSUME NEW e \in BOOLEAN, WriterClose(e)
      PROVE  Stream!CloseWriter \/ UNCHANGED Stream!streamVars
  <2>1. Flight' = Flight /\ wend' # 0
    BY <1>5 DEF WriterClose, Flight, Offset
  <2>2. CASE wend = 0
    BY <2>1, <2>2, <1>5 DEF WriterClose, Stream!CloseWriter, Flight
  <2>3. CASE wend # 0
    BY <2>1, <2>3, <1>5 DEF WriterClose, Stream!streamVars, Flight
  <2>4. QED
    BY <2>2, <2>3
<1>6. ASSUME NEW n \in ReadSizes, ReadBegin(n) PROVE UNCHANGED Stream!streamVars
  BY <1>6, FrameStream DEF ReadBegin
<1>7. CASE ReadCopy
  BY <1>7, ReadCopyTakes DEF Stream!StreamNext
<1>8. CASE ReadEof
  <2>1. Flight' = Flight /\ Flight = <<>>
    <3>1. Flight \in Seq(Int) /\ Len(Flight) = 0
      BY <1>8, FlightNumbers DEF ReadEof
    <3>2. QED
      BY <3>1, <1>8 DEF ReadEof, Flight, Offset
  <2>2. Stream!ReportEof
    BY <2>1, <1>8 DEF ReadEof, Stream!ReportEof, Flight
  <2>3. QED
    BY <2>2 DEF Stream!StreamNext
<1>9. ASSUME NEW e \in BOOLEAN, ReaderClose(e) PROVE Stream!CloseReader
  <2>1. Flight' = Flight /\ rend' # 0 /\ rend = 0
    BY <1>9 DEF ReaderClose, Flight, Offset
  <2>2. QED
    BY <2>1, <1>9 DEF ReaderClose, Stream!CloseReader, Flight
<1>10. CASE UNCHANGED vars
  BY <1>10, FrameStream DEF vars
<1>11. QED
  BY <1>1, <1>2, <1>3, <1>4, <1>5, <1>6, <1>7, <1>8, <1>9, <1>10
     DEF Next, Writer, Reader, InWrite, InRead, Stream!StreamNext

\* An empty buffer is an empty stream.
LEMMA InitSimulation == Init => Stream!StreamInit
<1> SUFFICES ASSUME Init PROVE Stream!StreamInit
  OBVIOUS
<1>1. Flight \in Seq(Int) /\ Len(Flight) = 0
  BY InitInv, FlightNumbers DEF Init, RingInit
<1>2. Flight = <<>>
  BY <1>1
<1>3. QED
  BY <1>2 DEF Init, RingInit, Stream!StreamInit, Flight

\* The ring buffer implements the bounded byte stream: its clients need to
\* know ByteStream only.
THEOREM Refinement == Spec => ImplementsStream
<1>1. Init => Stream!StreamInit
  BY InitSimulation
<1>2. RingInv /\ RingInv' /\ [Next]_vars => [Stream!StreamNext]_Stream!streamVars
  BY StepSimulation
<1>3. QED
  BY <1>1, <1>2, Invariance, PTL DEF Spec, ImplementsStream, Stream!StreamSpec

-----------------------------------------------------------------------------
(* What the parts of the ring buffer do to what both sides look at.        *)

LEMMA InWriteFrame ==
    InWrite => /\ rend' = rend /\ wend' = wend
               /\ rcall' = rcall \/ (rcall = "asleep" /\ rcall' = "trying")
BY DEF InWrite, WriteCopy, WriteSleep, WriteBroken, Woken, ringVars, readerVars

LEMMA InReadFrame ==
    InRead => /\ rend' = rend /\ wend' = wend
              /\ rcall = "trying" /\ rcall' \in CallStates
BY DEF InRead, ReadCopy, ReadSleep, ReadEof, ringVars, CallStates

\* Of closing, only the fact that it is done matters, not the kind of end.
WriterCloses == /\ rend' = rend /\ wend' \in 1 .. 2
                /\ rcall' = rcall \/ (rcall = "asleep" /\ rcall' = "trying")

LEMMA WriterCloseFrame ==
    /\ CloseOk => WriterCloses
    /\ FailClose => WriterCloses
BY DEF CloseOk, FailClose, WriterClose, WriterCloses, Woken

ReaderCloses == rend' \in 1 .. 2 /\ wend' = wend /\ rcall' = rcall

LEMMA ReaderCloseFrame ==
    ASSUME rend \in 0 .. 2
    PROVE  /\ CancelClose => ReaderCloses
           /\ FreeClose => ReaderCloses
BY DEF CancelClose, FreeClose, CloseReading, ReaderClose, ReaderCloses, readerVars, vars

-----------------------------------------------------------------------------
(* IWInv is inductive.                                                     *)

LEMMA LifeInitInv == IWInit => IWInv
<1> SUFFICES ASSUME IWInit PROVE IWInv
  OBVIOUS
<1>1. /\ alive = FALSE /\ joinable = FALSE /\ running = FALSE
      /\ wt = "none" /\ ct = "absent" /\ bad = "no"
      /\ rend = 0 /\ wend = 0 /\ rcall = "out" /\ refcount = 0 /\ sums = "none"
  BY DEF IWInit, Init, RingInit
<1>2. IWTypes
  <2>1. alive \in BOOLEAN /\ joinable \in BOOLEAN /\ running \in BOOLEAN
    BY <1>1, Zenon
  <2>2. QED
    BY <1>1, <2>1 DEF IWTypes, CallStates, ThreadStates, ControlStates
<1>3. QED
  BY <1>1, <1>2 DEF IWInv, ThreadEnded

LEMMA CreateInv ==
    ASSUME IWInv, CreateStarted \/ CreateWillCancel \/ CreateFails
    PROVE  IWInv'
<1> USE DEF IWInv, IWTypes, ThreadEnded, ThreadStates, ControlStates, vars
<1>1. CASE CreateStarted
  <2>1. /\ alive' = TRUE /\ joinable' = TRUE /\ running' = TRUE
        /\ wt' = "generate" /\ ct' = "using" /\ refcount' = 2 /\ sums' = "target"
        /\ rend = 0 /\ rend' = 0 /\ wend' = wend /\ rcall' = rcall /\ bad' = bad
    BY <1>1 DEF CreateStarted
  <2>2. alive' \in BOOLEAN /\ joinable' \in BOOLEAN /\ running' \in BOOLEAN
    BY <2>1, Zenon
  <2>3. IWTypes'
    BY <2>1, <2>2
  <2>4. bad' = "no"
    BY <1>1 DEF CreateStarted
  <2>5. QED
    BY <2>1, <2>3, <2>4
<1>2. CASE CreateWillCancel
  BY <1>2 DEF CreateWillCancel, threadVars
<1>3. CASE CreateFails
  BY <1>3 DEF CreateFails, threadVars, targetVars
<1>4. QED
  BY <1>1, <1>2, <1>3

LEMMA WriteFunctionInv == ASSUME IWInv, WriteFunction PROVE IWInv'
<1> USE DEF IWInv, IWTypes, ThreadEnded, ThreadStates, ControlStates, CallStates,
            targetVars, controlVars
<1>1. CASE \E n \in WriteSizes : IsoWrite(n)
  BY <1>1 DEF IsoWrite, WriteBegin, ringVars, readerVars
<1>2. CASE InRingWrite
  BY <1>2, InWriteFrame DEF InRingWrite, threadVars
<1>3. CASE IsoWriteDone \/ IsoWriteCancelled
  BY <1>3 DEF IsoWriteDone, IsoWriteCancelled, vars
<1>4. CASE GenerateFails \/ GenerateEnds
  BY <1>4 DEF GenerateFails, GenerateEnds, vars
<1>5. CASE Transplant \/ FailSums
  BY <1>5 DEF Transplant, FailSums, vars
<1>6. CASE CloseOk
  BY <1>6, WriterCloseFrame DEF CloseOk, WriterCloses
<1>7. CASE FinishJte
  BY <1>7 DEF FinishJte, vars
<1>8. CASE FailClose
  BY <1>8, WriterCloseFrame DEF FailClose, WriterCloses
<1>9. CASE GeneratorIdle
  BY <1>9 DEF GeneratorIdle, vars
<1>10. CASE WriterUnref \/ WriterDrop
  BY <1>10 DEF WriterUnref, WriterDrop, AfterUnref, vars
<1>11. CASE LateCheck
  BY <1>11 DEF LateCheck, vars
<1>12. QED
  BY <1>1, <1>2, <1>3, <1>4, <1>5, <1>6, <1>7, <1>8, <1>9, <1>10, <1>11
     DEF WriteFunction

LEMMA MethodsInv ==
    ASSUME IWInv,
           \/ BsReadBegin \/ InBsRead
           \/ \E n \in SetSizes : BsSetSize(n)
           \/ CancelBegin \/ FreeBegin \/ ControlProceeds
    PROVE  IWInv'
<1> USE DEF IWInv, IWTypes, ThreadEnded, ThreadStates, ControlStates, CallStates,
            threadVars
<1>1. CASE BsReadBegin
  BY <1>1 DEF BsReadBegin, ReadBegin, ringVars, targetVars, controlVars
<1>2. CASE InBsRead
  BY <1>2, InReadFrame DEF InBsRead, targetVars, controlVars
<1>3. CASE \E n \in SetSizes : BsSetSize(n)
  BY <1>3 DEF BsSetSize, vars, controlVars
<1>4. CASE CancelBegin
  BY <1>4 DEF CancelBegin, vars, targetVars
<1>5. CASE CancelClose
  BY <1>5, ReaderCloseFrame DEF CancelClose, ReaderCloses, targetVars
<1>6. CASE CancelJoin \/ FreeJoin
  <2>1. /\ joinable' = FALSE
        /\ joinable => wt = "done"
        /\ \/ ct = "cancelJoin" /\ ct' = "using"
           \/ ct = "freeJoin" /\ ct' = "freeUnref"
    BY <1>6 DEF CancelJoin, FreeJoin, Join
  <2>a. /\ rend' = rend /\ wend' = wend /\ rcall' = rcall /\ wt' = wt /\ bad' = bad
        /\ refcount' = refcount /\ alive' = alive /\ running' = running /\ sums' = sums
    BY <1>6 DEF CancelJoin, FreeJoin, Join, vars
  <2>2. ThreadEnded
    BY <2>1
  <2>3. joinable' \in BOOLEAN
    BY <2>1, Zenon
  <2>4. QED
    BY <2>1, <2>2, <2>3, <2>a
<1>7. CASE FreeBegin
  BY <1>7 DEF FreeBegin, Status, vars, targetVars
<1>8. CASE FreeClose
  BY <1>8, ReaderCloseFrame DEF FreeClose, ReaderCloses, targetVars
<1>9. CASE FreeUnref
  BY <1>9 DEF FreeUnref, vars
<1>10. QED
  BY <1>1, <1>2, <1>3, <1>4, <1>5, <1>6, <1>7, <1>8, <1>9 DEF ControlProceeds

\* The life of the target goes as IWInv says, whatever the consumer does and
\* wherever the thread fails.
THEOREM LifeInvariance == IWSpec => []IWInv
<1>1. IWInv /\ [IWNext]_iwVars => IWInv'
  <2> SUFFICES ASSUME IWInv, [IWNext]_iwVars PROVE IWInv'
    OBVIOUS
  <2>1. CASE WriteFunction
    BY <2>1, WriteFunctionInv
  <2>2. CASE BsReadBegin \/ InBsRead
    BY <2>2, MethodsInv
  <2>3. CASE Control
    BY <2>3, CreateInv, MethodsInv DEF Control
  <2>4. CASE Spurious
    BY <2>4 DEF Spurious, WriteSpurious, ReadSpurious, ringVars, readerVars,
       threadVars, targetVars, controlVars, IWInv, IWTypes, ThreadEnded, CallStates
  <2>5. CASE UNCHANGED iwVars
    BY <2>5 DEF iwVars, vars, threadVars, targetVars, controlVars, IWInv, IWTypes,
       ThreadEnded
  <2>6. QED
    BY <2>1, <2>2, <2>3, <2>4, <2>5 DEF IWNext
<1>2. QED
  BY <1>1, LifeInitInv, PTL DEF IWSpec

-----------------------------------------------------------------------------
(* What follows.                                                           *)

\* No actor touches a freed target.
THEOREM FreedIsUntouched == IWSpec => []NoUseAfterFree
<1>1. IWInv => NoUseAfterFree
  BY DEF IWInv, NoUseAfterFree
<1>2. QED
  BY <1>1, LifeInvariance, PTL

\* No target outlives its holders, although they count without a lock.
THEOREM AllIsFreed == IWSpec => []NoLeak
<1>1. IWInv => NoLeak
  BY DEF IWInv, NoLeak
<1>2. QED
  BY <1>1, LifeInvariance, PTL

\* A caller who sees the generator idle finds a closed stream and the checksums
\* of an image that was produced entirely, and of no other.
THEOREM IdleIsReliable == IWSpec => []IdleMarkIsReliable
<1>1. IWInv => IdleMarkIsReliable
  BY DEF IWInv, IWTypes, IdleMarkIsReliable, ThreadStates
<1>2. QED
  BY <1>1, LifeInvariance, PTL

-----------------------------------------------------------------------------
(* The ring buffer within the image production.                            *)

\* ecma119.c uses buffer.c by its rules: each step of the image production is a
\* step of the ring buffer's specification or does not touch the buffer.  What
\* is proved of the ring buffer holds for the production.
THEOREM ProductionUsesRing == IWSpec => Spec
<1>1. IWInit => Init
  BY DEF IWInit
<1>2. [IWNext]_iwVars => [Next]_vars
  <2> SUFFICES ASSUME [IWNext]_iwVars PROVE Next \/ UNCHANGED vars
    OBVIOUS
  <2>1. CASE WriteFunction
    <3>1. CASE \E n \in WriteSizes : IsoWrite(n)
      BY <3>1 DEF IsoWrite, Next, Writer
    <3>2. CASE InRingWrite
      BY <3>2 DEF InRingWrite, Next, Writer
    <3>3. CASE CloseOk \/ FailClose
      BY <3>3 DEF CloseOk, FailClose, Next, Writer
    <3>4. CASE UNCHANGED vars
      BY <3>4
    <3> QED
      BY <2>1, <3>1, <3>2, <3>3, <3>4
      DEF WriteFunction, IsoWriteDone, IsoWriteCancelled, GenerateFails, GenerateEnds,
          Transplant, FinishJte, FailSums, GeneratorIdle, WriterUnref, WriterDrop, LateCheck
  <2>2. CASE BsReadBegin
    BY <2>2 DEF BsReadBegin, Next, Reader
  <2>3. CASE InBsRead
    BY <2>3 DEF InBsRead, Next, Reader
  <2>4. CASE Control
    <3>1. CASE CancelClose \/ FreeClose
      <4>1. (~(seen.drained /\ seen.status \in {2, 3})) \in BOOLEAN /\ FALSE \in BOOLEAN
        OBVIOUS
      <4> QED
        BY <3>1, <4>1 DEF CancelClose, FreeClose, CloseReading, Next, Reader
    <3>2. CASE UNCHANGED vars
      BY <3>2
    <3> QED
      BY <2>4, <3>1, <3>2
      DEF Control, CreateStarted, CreateWillCancel, CreateFails, BsSetSize, CancelBegin,
          FreeBegin, ControlProceeds, CancelJoin, FreeJoin, Join, FreeUnref
  <2>5. CASE Spurious
    BY <2>5 DEF Spurious, Next
  <2>6. CASE UNCHANGED iwVars
    BY <2>6 DEF iwVars
  <2> QED
    BY <2>1, <2>2, <2>3, <2>4, <2>5, <2>6 DEF IWNext
<1> QED
  BY <1>1, <1>2, PTL DEF IWSpec, Spec

-----------------------------------------------------------------------------
(* The count of the blocks and the kind of the end.                        *)

\* Where write_function() is past its last write, and where past its last close.
Closed == {"jte", "idle", "unref", "drop", "late", "done"}
Parted == {"idle", "unref", "drop", "late", "done"}

\* bytes_written counts what the ring buffer took in, up to the call under way;
\* an end without error is announced on the straight course only, and then the
\* sizes get compared.
CountInv ==
    /\ wt \in {"none", "generate", "inWrite", "transplant", "close"} => wend = 0
    /\ wt \in {"generate", "transplant", "close"}
         => wcall = "out" /\ written = sent
    /\ wt = "inWrite" => IF wcall = "out" THEN wret = 1 => sent = written + chunk
                         ELSE wret = 1 /\ sent + wleft = written + chunk
    /\ wt \in Closed /\ bad = "no" => wcall = "out" /\ written = sent
    /\ wt \in Parted /\ bad # "no" => wend = 2
    /\ wt = "failSums" => wend = 2
    /\ wt = "done" /\ bad = "no" /\ totalSize = TotalSize => damage = (written # TotalSize)
    /\ wt = "none" => written = 0 /\ sent = 0 /\ wcall = "out" /\ wret = 1
    /\ wt \in {"generate", "transplant", "close"} => wret = 1
    /\ written \in Nat /\ chunk \in Nat

LEMMA CountInit == IWInit => CountInv
BY DEF IWInit, Init, RingInit, CountInv, Closed, Parted

\* A pass of iso_ring_buffer_write() moves blocks from the call to the buffer.
LEMMA InWriteCounts ==
    ASSUME RingInv, InWrite
    PROVE  /\ wcall = "trying" /\ wend' = wend
           /\ \/ wcall' = "out" /\ wret' = 0 /\ sent' = sent
              \/ wcall' = "asleep" /\ sent' = sent /\ wleft' = wleft /\ wret' = wret
              \/ wret' = 1 /\ sent' + wleft' = sent + wleft
                 /\ (wcall' = "trying" \/ (wcall' = "out" /\ wleft' = 0))
<1>1. CASE WriteCopy
  <2>1. sent \in Nat /\ wleft \in Nat
    BY DEF RingInv, TypeOK
  <2>2. WriteLen \in Nat
    BY <1>1, WriteLenBounds DEF WriteCopy, RingInv, Calls
  <2>3. /\ sent' = sent + WriteLen /\ wleft' = wleft - WriteLen
        /\ wcall' = IF wleft = WriteLen THEN "out" ELSE "trying"
        /\ wret' = 1 /\ wend' = wend /\ wcall = "trying"
    BY <1>1 DEF WriteCopy
  <2> QED
    BY <2>1, <2>2, <2>3
<1>2. CASE WriteSleep \/ WriteBroken
  BY <1>2 DEF WriteSleep, WriteBroken, ringVars
<1> QED
  BY <1>1, <1>2 DEF InWrite

\* Of a step that is not the thread's, the count notes little.
LEMMA CountFrame ==
    ASSUME CountInv,
           UNCHANGED <<threadVars, wend, sent, wret, wleft>>,
           wcall' = wcall \/ (wcall # "out" /\ wcall' # "out"),
           totalSize' = TotalSize => totalSize = TotalSize
    PROVE  CountInv'
BY DEF CountInv, threadVars, Closed, Parted

LEMMA CountNext ==
    ASSUME TotalSize \notin SetSizes, IWInv, RingInv, CountInv, [IWNext]_iwVars
    PROVE  CountInv'
<1> USE DEF targetVars, controlVars
<1>1. CASE WriteFunction
  <2> USE DEF CountInv, Closed, Parted
  <2>1. CASE \E n \in WriteSizes : IsoWrite(n)
    BY <2>1, SizeAssumption DEF IsoWrite, WriteBegin, ringVars
  <2>2. CASE InRingWrite
    <3>1. wt = "inWrite" /\ wt' = "inWrite" /\ InWrite /\ UNCHANGED threadVars
      BY <2>2 DEF InRingWrite, threadVars
    <3>2. sent \in Nat /\ wleft \in Nat /\ sent' \in Nat /\ wleft' \in Nat
      <4>1. RingInv'
        BY <3>1, NextInv DEF Next, Writer
      <4> QED
        BY <4>1 DEF RingInv, TypeOK
    <3>3. UNCHANGED <<chunk, written, bad, damage, totalSize>>
      BY <2>2 DEF InRingWrite, threadVars
    <3>4. wend' = 0 /\ sent + wleft = written + chunk /\ wret = 1 /\ wcall = "trying"
      BY <3>1, InWriteCounts
    <3>5. IF wcall' = "out" THEN wret' = 1 => sent' = written + chunk
          ELSE wret' = 1 /\ sent' + wleft' = written + chunk
      <4>1. \/ wcall' = "out" /\ wret' = 0 /\ sent' = sent
            \/ wcall' = "asleep" /\ sent' = sent /\ wleft' = wleft /\ wret' = wret
            \/ wret' = 1 /\ sent' + wleft' = sent + wleft
               /\ (wcall' = "trying" \/ (wcall' = "out" /\ wleft' = 0))
        BY <3>1, InWriteCounts
      <4>2. CASE wcall' = "out" /\ wret' = 0 /\ sent' = sent
        BY <4>2
      <4>3. CASE wcall' = "asleep" /\ sent' = sent /\ wleft' = wleft /\ wret' = wret
        BY <3>4, <4>3
      <4>4. CASE wret' = 1 /\ sent' + wleft' = sent + wleft
                 /\ (wcall' = "trying" \/ (wcall' = "out" /\ wleft' = 0))
        <5>1. wleft' = 0 => sent' + wleft' = sent'
          <6>1. \A a, b \in Nat : b = 0 => a + b = a
            OBVIOUS
          <6> QED
            BY <3>2, <6>1
        <5> QED
          BY <3>4, <4>4, <5>1
      <4> QED
        BY <4>1, <4>2, <4>3, <4>4
    <3> QED
      BY <3>1, <3>3, <3>4, <3>5
  <2>3. CASE IsoWriteDone \/ IsoWriteCancelled
    BY <2>3 DEF IsoWriteDone, IsoWriteCancelled, vars
  <2>4. CASE GenerateFails \/ GenerateEnds \/ Transplant
    BY <2>4 DEF GenerateFails, GenerateEnds, Transplant, vars
  <2>5. CASE CloseOk
    BY <2>5 DEF CloseOk, WriterClose, writerVars, IWInv
  <2>6. CASE FailClose
    BY <2>6 DEF FailClose, WriterClose, writerVars, IWInv
  <2>7. CASE FinishJte
    BY <2>7 DEF FinishJte, vars, IWInv
  <2>8. CASE FailSums \/ GeneratorIdle
    BY <2>8 DEF FailSums, GeneratorIdle, vars, IWInv
  <2>9. CASE WriterUnref \/ WriterDrop
    BY <2>9 DEF WriterUnref, WriterDrop, AfterUnref, vars
  <2>10. CASE LateCheck
    BY <2>10 DEF LateCheck, vars
  <2> QED
    BY <1>1, <2>1, <2>2, <2>3, <2>4, <2>5, <2>6, <2>7, <2>8, <2>9, <2>10 DEF WriteFunction
<1>2. CASE CreateStarted
  BY <1>2 DEF CreateStarted, CountInv, Closed, Parted, vars, IWInv
<1>3. CASE BsReadBegin \/ Spurious
  BY <1>3, CountFrame DEF BsReadBegin, ReadBegin, Spurious, WriteSpurious, ReadSpurious,
     ringVars, writerVars
<1>4. CASE InBsRead
  <2>1. /\ UNCHANGED <<threadVars, wend, sent, wret, wleft, totalSize>>
        /\ wcall' = wcall \/ (wcall # "out" /\ wcall' # "out")
    BY <1>4 DEF InBsRead, InRead, ReadCopy, ReadSleep, ReadEof, Woken, ringVars, writerVars
  <2> QED
    BY <2>1, CountFrame
<1>5. CASE \E n \in SetSizes : BsSetSize(n)
  BY <1>5, CountFrame DEF BsSetSize, vars
<1>6. CASE CreateWillCancel \/ CreateFails \/ CancelBegin \/ FreeBegin \/ CancelJoin
           \/ FreeJoin \/ FreeUnref
  BY <1>6, CountFrame DEF CreateWillCancel, CreateFails, CancelBegin, FreeBegin, CancelJoin,
     FreeJoin, Join, FreeUnref, vars
<1>7. CASE CancelClose \/ FreeClose
  <2>1. /\ UNCHANGED <<threadVars, wend, sent, wret, wleft, totalSize>>
        /\ wcall' = wcall \/ (wcall # "out" /\ wcall' # "out")
    BY <1>7 DEF CancelClose, FreeClose, CloseReading, ReaderClose, Woken, vars
  <2> QED
    BY <2>1, CountFrame
<1>8. CASE UNCHANGED iwVars
  BY <1>8, CountFrame DEF iwVars, vars
<1> QED
  BY <1>1, <1>2, <1>3, <1>4, <1>5, <1>6, <1>7, <1>8 DEF IWNext, Control, ControlProceeds

\* A consumer that read to an end without error has as many blocks as the image
\* was computed to have, or else the thread said that the image is damaged.  The
\* message compares with the size announced last (DamageIsReal is violated), so
\* the caller of bs_set_size() must not come back to the computed size.
THEOREM EndIsComplete ==
    ASSUME TotalSize \notin SetSizes
    PROVE  IWSpec => []CleanEndIsComplete
<1>1. IWInv /\ RingInv /\ CountInv => CleanEndIsComplete
  <2> SUFFICES ASSUME IWInv, RingInv, CountInv, rret = 0, wend = 1, wt = "done",
                      totalSize = TotalSize, ~ damage
               PROVE  Len(got) = TotalSize
    BY DEF CleanEndIsComplete
  <2>1. bad = "no"
    BY DEF CountInv, Parted
  <2>2. written = sent /\ written = TotalSize
    BY <2>1 DEF CountInv, Closed
  <2>3. sent = Len(got)
    BY DEF RingInv, Content, Calls, TypeOK
  <2> QED
    BY <2>2, <2>3
<1>2. IWSpec => []RingInv
  BY ProductionUsesRing, Invariance, PTL
<1>3. IWInv /\ RingInv /\ CountInv /\ [IWNext]_iwVars => CountInv'
  BY CountNext
<1> QED
  BY <1>1, <1>2, <1>3, CountInit, LifeInvariance, PTL DEF IWSpec
=============================================================================
