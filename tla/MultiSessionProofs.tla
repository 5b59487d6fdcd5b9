------------------------- MODULE MultiSessionProofs -------------------------
(***************************************************************************)
(* Proofs about emulated multi-session, for every size of medium, every    *)
(* set of image sizes and any number of sessions:                          *)
(*                                                                         *)
(*   LastSessionStaysReadable  the head of the medium names a session that *)
(*                             is complete with all it relies on           *)
(*   SuccessLasts              what was reported as written well can be    *)
(*                             read until it is blanked                    *)
(*   TocIsTrue                 the emulated table of content lists the     *)
(*                             sessions of the chain                       *)
(*   ChangesStayPending        no step forgets changes of the image        *)
(*   LoadedTreeComplete        the loaded tree is that of the last session *)
(*                                                                         *)
(* The first three rest on the inductive invariant MSInv.  What makes it   *)
(* inductive is that the sessions of a chain lie behind each other without *)
(* overlap (MediumInv), that the next writable address of the struct       *)
(* isoburn is behind all of them whenever it may be used (AtRest), and     *)
(* that the copy of the head which waits in memory describes the session   *)
(* which is being written (WritingFits).                                   *)
(***************************************************************************)
EXTENDS MultiSession, TLAPS, FiniteSetTheorems

\* Images of two units do not meet -compliance no_emul_toc: with an image of
\* exactly 32 blocks at address 0 its successor has the address of the first
\* session on emulated media, and loses its place to the next one
\* (MCMultiNoEmul).
HeadKept == 2 \notin ImageSizes \/ TRUE \notin NoEmulToc

Records == [start : Nat, size : Nat, padded : Nat,
            refs : SUBSET Nat, chain : Seq(Nat), sound : BOOLEAN]

Chain(s) == Range(sess[s].chain)
Ends(s) == sess[s].start + sess[s].size

\* Session i ends its chain, in which each session begins where its forerunner
\* ends: at once, as growisofs does, or at the next aligned address.
Follows(i) ==
    LET chain == sess[i].chain
    IN  /\ chain[Len(chain)] = i
        /\ \A j \in 1 .. Len(chain) - 1 :
              sess[chain[j + 1]].start \in {Ends(chain[j]), Aligned(Ends(chain[j]))}

\* What holds of a session from its begin on.  A chain with an emulated first
\* session contains all that the tree of its last one relies on.
SessionFits(i) ==
    /\ sess[i].size \in ImageSizes /\ sess[i].size >= 2
    /\ sess[i].size <= sess[i].padded
    /\ sess[i].start + sess[i].padded <= MediumUnits
    /\ sess[i].refs \subseteq 1 .. i
    /\ sess[i].chain # <<>> /\ i \in Chain(i) /\ Chain(i) \subseteq 1 .. i
    /\ Emulated(i) =>
         /\ sess[i].refs \subseteq Chain(i) /\ Follows(i)
         /\ \A c \in Chain(i) :
              Emulated(c) /\ Chain(c) \subseteq Chain(i) /\ sess[c].start >= 2

SessionsInv == sess \in Seq(Records) /\ \A i \in Sessions : SessionFits(i)

\* The head of the medium names a session of an emulated chain.
EmulatedHead == HasHeader(1) /\ Emulated(HeadSession)

\* What the units of the medium hold, whatever got interrupted: the sessions of
\* the chain which the head names are intact, and end where the head says.
MediumInv ==
    /\ medium \in [Units -> Cells] /\ ~ HasHeader(0)
    /\ \A u \in Units : HasHeader(u) =>
         /\ medium[u].s \in Sessions /\ medium[u].n >= 2
         /\ medium[u].n = 2 => 2 \in ImageSizes
    /\ EmulatedHead =>
         /\ medium[1].n = Ends(HeadSession)
         /\ \A c \in Chain(HeadSession) : Intact(c) /\ Ends(c) <= medium[1].n

\* Shape of a struct isoburn.
Struct(d) ==
    /\ DOMAIN d = DOMAIN NewO
    /\ d.status \in {"unready", "blank", "appendable", "full"}
    /\ d.nwa \in Nat /\ d.zeroNwa \in {0, 2}
    /\ d.head[1] \in Cells /\ d.head[1].k # "vd" /\ d.head[2] \in Cells

\* The load address is the head or the start of a session.
LoadPoint(a) ==
    a # 0 => /\ HasHeader(1)
             /\ EmulatedHead => \E c \in Chain(HeadSession) : a = sess[c].start

\* The emulated table of content lists the chain.
TocFits(d) ==
    d.status = "appendable" /\ EmulatedHead
    => LET chain == sess[HeadSession].chain
       IN d.toc = [i \in DOMAIN chain |->
                      TocEntry(sess[chain[i]].start, sess[chain[i]].size)]

\* A struct isoburn that agrees with the medium, as it does between commands
\* and while a session is being written.
AtRest(d) ==
    /\ d.status = "blank" => 
          d.nwa = d.zeroNwa /\ (HasHeader(1) => d.nwa = 0 /\ ~ EmulatedHead)
    /\ d.status = "appendable" => HasHeader(1) /\ d.nwa = Aligned(medium[1].n)
    /\ d.status # "appendable" => d.toc = <<>>
    /\ d.status = "blank" => d.msc1 = 0
    /\ LoadPoint(d.msc1) /\ TocFits(d)

\* A struct isoburn exists while the disc has a role.
Roles(in, out, d) ==
    /\ in \in {"none", "disc", "other"} /\ out \in {"none", "disc"}
    /\ (d.status = "unready") = ("disc" \notin {in, out})
    /\ d.status = "unready" => d = NewO

ImageType(m, in) ==
    /\ DOMAIN m = DOMAIN NoImage
    /\ m.refs \subseteq Sessions /\ m.present \in BOOLEAN
    /\ in # "disc" => m.refs = {}

\* The loaded tree relies on sessions of the chain only.
ImageFits(m, d) ==
    /\ d.status = "blank" => m.refs = {}
    /\ EmulatedHead => m.refs \subseteq Chain(HeadSession)

\* The drives, the image in memory and the struct isoburn.
DriveInv ==
    /\ Struct(o) /\ Roles(indev, outdev, o) /\ ImageType(img, indev)
    /\ pc \in {"cmd", "write"} => AtRest(o) /\ ImageFits(img, o)

\* The steps of the commands that write.
StepInv ==
    /\ pc \in {"cmd", "write", "wrote", "erase", "ended"} /\ unit \in Nat
    /\ safe \in 0 .. Len(sess) /\ pending \in BOOLEAN /\ ending \in BOOLEAN
    /\ (cur # 0) = (pc \in {"write", "wrote"})
    /\ pc \in {"cmd", "ended"} => unit = 0
    /\ pc \in {"write", "wrote", "erase"} => outdev = "disc"
    /\ pc = "ended" => indev = "none" /\ outdev = "none"
    /\ pc \in {"wrote", "erase"} => unit <= 2
    /\ pc = "erase" => o.head[2].k \in {"zero", "xx"} /\ safe = 0

Written(i) == pc = "wrote" \/ i < unit

\* While session cur is being written: it lies behind its chain, its units have
\* been written up to the present one, and the new head waits in memory.
WritingFits ==
    /\ cur \in Sessions /\ o.status \in {"blank", "appendable"}
    /\ o.nwa = sess[cur].start
    /\ pc = "write" => unit < sess[cur].padded
    /\ IF NeedsActivation
       THEN /\ o.nwa >= 2
            /\ \A i \in 0 .. sess[cur].size - 1 : Written(i) =>
                  medium[sess[cur].start + i] = SessionCell(cur, sess[cur].size, i)
            /\ o.head[2] = [k |-> "vd", s |-> cur, n |-> Ends(cur)]
       ELSE o.status = "blank" /\ o.nwa = 0 /\ ~ Emulated(cur)
    /\ Emulated(cur) =>
         \A c \in Chain(cur) \ {cur} : Intact(c) /\ Ends(c) <= sess[cur].start
    /\ pc = "wrote" /\ NeedsActivation /\ unit = 2 => medium[1] = o.head[2]

WritingInv == pc \in {"write", "wrote"} => WritingFits

MSInv == SessionsInv /\ MediumInv /\ DriveInv /\ StepInv /\ WritingInv

\* What was reported as written well stays in the chain of the head, and of the
\* session which is going to take its place.
SafeInv ==
    /\ \A i \in Sessions : Emulated(i)
    /\ o.zeroNwa = 2
    /\ safe # 0 => HasHeader(1) /\ safe \in Chain(HeadSession)
    /\ safe # 0 /\ pc \in {"write", "wrote"} => safe \in Chain(cur)

\* Changes are pending.  Blanking the medium of the image needs it unchanged.
PendingInv ==
    /\ indev \in {"none", "disc", "other"}
    /\ DOMAIN img = DOMAIN NoImage /\ img.changed \in BOOLEAN
    /\ img.changed => pending /\ img.present
    /\ pc = "erase" /\ indev = outdev => ~ img.changed

\* The tree of the last session is loaded, up to the writing of the next one.
LoadInv ==
    /\ indev = "disc" => img.present
    /\ pc \in {"cmd", "write"} /\ indev = "disc" /\ o.status = "appendable" /\ o.msc1 = 0
       => img.refs = sess[HeadSession].refs

-----------------------------------------------------------------------------
\* Every non-empty set of natural numbers has a least element: else each number
\* below some t would have its successor there too, more than there is room for.
\* The inductions below over addresses and over positions in a chain take the
\* least one that the claim holds from on.
LEMMA Least ==
    ASSUME NEW T \in SUBSET Nat, T # {}
    PROVE  \E x \in T : \A y \in T : x <= y
<1> SUFFICES ASSUME \A x \in T : \E y \in T : y < x
             PROVE  FALSE
  <2>1. \A x, y \in T : ~ (x <= y) => y < x
    OBVIOUS
  <2> QED BY <2>1
<1>1. PICK t \in T : TRUE
  OBVIOUS
<1> DEFINE W == {n \in 0 .. t : \A m \in T : n < m}
           f == [n \in W |-> n + 1]
<1>2. 0 \in W
  OBVIOUS
<1>3. \A n \in W : n + 1 \in W
  OBVIOUS
<1>4. IsFiniteSet(W)
  <2>1. IsFiniteSet(0 .. t) /\ W \in SUBSET (0 .. t)
    BY FS_Interval
  <2> QED BY <2>1, FS_Subset
<1>5. IsFiniteSet(W \ {0}) /\ Cardinality(W \ {0}) = Cardinality(W) - 1
  BY <1>2, <1>4, FS_RemoveElement
<1>6. Cardinality(W) \in Nat
  BY <1>4, FS_CardinalityType
<1>7. f \in [W -> W \ {0}]
  BY <1>3
<1>8. \E x, y \in W : x # y /\ f[x] = f[y]
  <2>1. Cardinality(W \ {0}) < Cardinality(W)
    BY <1>5, <1>6
  <2> HIDE DEF f, W
  <2> QED BY <1>4, <1>5, <1>7, <2>1, FS_PigeonHole
<1> QED BY <1>8

\* The alignment of addresses goes upwards.
LEMMA AlignedIsAbove ==
    ASSUME NEW u \in Nat
    PROVE  /\ Aligned(u) \in Nat /\ Aligned(u) >= u
           /\ u >= 2 => Aligned(u) >= 2
           /\ u >= 3 => Aligned(u) >= 4
BY DEF Aligned

\* A chain that got a further member.
LEMMA RangeOfAppend ==
    ASSUME NEW S, NEW c \in Seq(S), NEW e \in S
    PROVE  /\ c \o <<e>> \in Seq(S) /\ c \o <<e>> # <<>>
           /\ Range(c \o <<e>>) = Range(c) \cup {e}
           /\ (c \o <<e>>)[1] = IF c = <<>> THEN e ELSE c[1]
           /\ Range(c) \subseteq S
<1>1. c \o <<e>> \in Seq(S) /\ Len(c \o <<e>>) = Len(c) + 1 /\ c \o <<e>> # <<>>
  OBVIOUS
<1>2. \A i \in 1 .. Len(c) : (c \o <<e>>)[i] = c[i]
  OBVIOUS
<1>3. (c \o <<e>>)[Len(c) + 1] = e
  OBVIOUS
<1>4. Range(c \o <<e>>) = Range(c) \cup {e}
  BY <1>1, <1>2, <1>3 DEF Range
<1>5. Range(c) \subseteq S
  BY DEF Range
<1>6. (c \o <<e>>)[1] = IF c = <<>> THEN e ELSE c[1]
  BY <1>1, <1>2, <1>3
<1> QED BY <1>1, <1>4, <1>5, <1>6

\* Types of a session and its chain.
LEMMA SessionTypes ==
    ASSUME SessionsInv, NEW i \in Sessions
    PROVE  /\ sess[i] \in Records /\ sess[i].start \in Nat /\ sess[i].size \in Nat
           /\ sess[i].padded \in Nat /\ sess[i].refs \subseteq Sessions
           /\ sess[i].chain \in Seq(Nat) /\ sess[i].chain # <<>>
           /\ sess[i].chain[1] \in Chain(i) /\ Chain(i) \subseteq Sessions
           /\ i \in Chain(i) /\ SessionFits(i) /\ Ends(i) \in Nat
           /\ Ends(i) <= MediumUnits
<1>1. sess[i] \in Records /\ Len(sess) \in Nat /\ SessionFits(i) /\ i \in 1 .. Len(sess)
  BY DEF SessionsInv, Sessions
<1>2. 1 .. i \subseteq Sessions
  BY <1>1 DEF Sessions
<1>3. sess[i].chain \in Seq(Nat) /\ sess[i].chain # <<>>
  BY <1>1 DEF Records, SessionFits
<1>4. sess[i].chain[1] \in Chain(i)
  BY <1>3 DEF Chain, Range
<1>5. MediumUnits \in Nat
  BY MSAssumption
<1>6. /\ sess[i].start \in Nat /\ sess[i].size \in Nat /\ sess[i].padded \in Nat
  BY <1>1 DEF Records
<1>7. Ends(i) \in Nat /\ Ends(i) <= MediumUnits
  BY <1>1, <1>5, <1>6 DEF SessionFits, Ends
<1>8. /\ sess[i].refs \subseteq Sessions /\ Chain(i) \subseteq Sessions /\ i \in Chain(i)
  BY <1>1, <1>2 DEF SessionFits
<1> QED BY <1>1, <1>3, <1>4, <1>6, <1>7, <1>8

\* The members of an emulated chain.
LEMMA EmulatedChain ==
    ASSUME SessionsInv, NEW i \in Sessions, Emulated(i), NEW c \in Chain(i)
    PROVE  /\ c \in Sessions /\ Emulated(c) /\ Chain(c) \subseteq Chain(i)
           /\ sess[c].start >= 2 /\ sess[c].refs \subseteq Chain(i)
BY SessionTypes DEF SessionsInv, SessionFits

\* The session which the head names, and the least size it can tell.
LEMMA HeadFacts ==
    ASSUME SessionsInv, MediumInv, HasHeader(1)
    PROVE  /\ HeadSession \in Sessions /\ medium[1].n \in Nat /\ medium[1].n >= 2
           /\ Emulated(HeadSession) => medium[1].n >= 4
           /\ HeadKept /\ TRUE \in NoEmulToc => medium[1].n >= 3
<1>1. 1 \in Units /\ medium[1] \in Cells
  BY DEF HasHeader, MediumInv
<1>2. /\ HeadSession \in Sessions /\ medium[1].n \in Nat /\ medium[1].n >= 2
      /\ medium[1].n = 2 => 2 \in ImageSizes
  BY <1>1 DEF MediumInv, HeadSession, Cells
<1>3. ASSUME Emulated(HeadSession) PROVE medium[1].n >= 4
  <2>1. HeadSession \in Chain(HeadSession) /\ SessionFits(HeadSession)
        /\ sess[HeadSession].start \in Nat /\ sess[HeadSession].size \in Nat
    BY <1>2, SessionTypes
  <2>2. Ends(HeadSession) <= medium[1].n
    BY <2>1, <1>3 DEF MediumInv, EmulatedHead
  <2>3. sess[HeadSession].start >= 2 /\ sess[HeadSession].size >= 2
    BY <2>1, <1>2, <1>3, EmulatedChain DEF SessionFits
  <2> QED BY <1>2, <2>1, <2>2, <2>3 DEF Ends
<1>4. ASSUME HeadKept, TRUE \in NoEmulToc PROVE medium[1].n >= 3
  <2>1. medium[1].n # 2
    BY <1>2, <1>4 DEF HeadKept
  <2> QED BY <1>2, <2>1
<1> QED BY <1>2, <1>3, <1>4

\* One step of isoburn_emulate_toc() at address nwa, with f for the rest.
TocStep(f, size, nwa) ==
    LET lba   == Aligned(nwa)
        start == IF lba # nwa /\ HasHeader(lba) THEN nwa ELSE lba
        n     == Readable(start, medium[start + 1].n)
    IN  IF lba >= size THEN <<>>
        ELSE IF ~ HasHeader(start + 1) THEN <<TocEntry(0, size)>>
        ELSE <<TocEntry(start, n)>> \o f[start + n]

TocFcn(size) == CHOOSE f : f = [nwa \in 0 .. MediumUnits |-> TocStep(f, size, nwa)]

LEMMA TocOfFunction ==
    ASSUME NEW size
    PROVE  EmulateToc(size) = TocFcn(size)[2]
BY DEF EmulateToc, TocFcn, TocStep

HeadersFit ==
    \A u \in Units : HasHeader(u) => medium[u].n \in Nat /\ medium[u].n >= 2

\* A step looks at the rest only behind its own address ...
LEMMA TocStepAhead ==
    ASSUME HeadersFit, NEW size, NEW f, NEW g, NEW nwa \in 0 .. MediumUnits,
           \A v \in 0 .. MediumUnits : v > nwa => f[v] = g[v]
    PROVE  TocStep(f, size, nwa) = TocStep(g, size, nwa)
<1>1. PICK lba : lba = Aligned(nwa)
  OBVIOUS
<1>2. PICK start : start = IF lba # nwa /\ HasHeader(lba) THEN nwa ELSE lba
  OBVIOUS
<1>3. PICK n : n = Readable(start, medium[start + 1].n)
  OBVIOUS
<1>4. CASE HasHeader(start + 1)
  <2>1. nwa \in Nat /\ MediumUnits \in Nat
    BY MSAssumption
  <2>2. lba \in Nat /\ lba >= nwa /\ start \in Nat /\ start >= nwa
    BY <1>1, <1>2, <2>1, AlignedIsAbove
  <2>3. /\ start + 1 \in Units /\ medium[start + 1].n \in Nat /\ medium[start + 1].n >= 2
    BY <1>4 DEF HeadersFit, HasHeader
  <2>4. n \in Nat /\ n >= 1 /\ start + n <= MediumUnits
    BY <1>3, <2>1, <2>2, <2>3 DEF Readable, Units
  <2>5. f[start + n] = g[start + n]
    BY <2>1, <2>2, <2>4
  <2> QED BY <1>1, <1>2, <1>3, <2>5 DEF TocStep
<1>5. CASE ~ HasHeader(start + 1)
  BY <1>1, <1>2, <1>5 DEF TocStep
<1> QED BY <1>4, <1>5

\* ... so that the recursive function exists: it can be defined from the end of
\* the medium downwards, to the least address 0.
LEMMA TocDefined ==
    ASSUME HeadersFit, NEW size, NEW nwa \in 0 .. MediumUnits
    PROVE  TocFcn(size)[nwa] = TocStep(TocFcn(size), size, nwa)
<1>1. PICK M \in Nat : M = MediumUnits
  BY MSAssumption
<1> DEFINE Solves(f, k) ==
             f = [u \in 0 .. M |-> IF u >= k THEN TocStep(f, size, u) ELSE <<>>]
           T == {k \in 0 .. M + 1 : \E f : Solves(f, k)}
<1>2. M + 1 \in T
  <2> DEFINE f == [u \in 0 .. M |-> <<>>]
  <2>1. \A u \in 0 .. M : ~ (u >= M + 1)
    OBVIOUS
  <2>2. Solves(f, M + 1)
    BY <2>1
  <2> QED BY <2>2
<1>3. PICK k \in T : \A y \in T : k <= y
  <2>1. T \in SUBSET Nat
    OBVIOUS
  <2> HIDE DEF T
  <2> QED BY <1>2, <2>1, Least
<1>4. PICK f : Solves(f, k)
  BY <1>3
<1>5. k = 0
  <2> SUFFICES ASSUME k # 0 PROVE FALSE
    OBVIOUS
  <2>1. k - 1 \in 0 .. M /\ k \in 0 .. M + 1
    OBVIOUS
  <2> DEFINE g == [u \in 0 .. M |-> IF u = k - 1 THEN TocStep(f, size, u) ELSE f[u]]
  <2>2. \A v \in 0 .. M : v # k - 1 => f[v] = g[v]
    OBVIOUS
  <2>3. \A u \in 0 .. M : u >= k - 1 => TocStep(f, size, u) = TocStep(g, size, u)
    <3> SUFFICES ASSUME NEW u \in 0 .. M, u >= k - 1
                 PROVE  TocStep(f, size, u) = TocStep(g, size, u)
      OBVIOUS
    <3>1. \A v \in 0 .. MediumUnits : v > u => f[v] = g[v]
      BY <1>1, <2>1, <2>2
    <3> HIDE DEF g
    <3> QED BY <1>1, <3>1, TocStepAhead
  <2>4. \A u \in 0 .. M : f[u] = IF u >= k THEN TocStep(f, size, u) ELSE <<>>
    BY <1>4
  <2>5. \A u \in 0 .. M : g[u] = IF u >= k - 1 THEN TocStep(g, size, u) ELSE <<>>
    <3> SUFFICES ASSUME NEW u \in 0 .. M
                 PROVE  g[u] = IF u >= k - 1 THEN TocStep(g, size, u) ELSE <<>>
      OBVIOUS
    <3>1. g[u] = IF u = k - 1 THEN TocStep(f, size, u) ELSE f[u]
      OBVIOUS
    <3> HIDE DEF g
    <3> QED BY <2>1, <2>3, <2>4, <3>1
  <2>6. g = [u \in 0 .. M |-> g[u]]
    OBVIOUS
  <2> HIDE DEF g
  <2>7. Solves(g, k - 1)
    BY <2>5, <2>6
  <2>8. k - 1 \in T
    BY <2>1, <2>7
  <2> QED BY <1>3, <2>8, <2>1
<1>6. f = [u \in 0 .. MediumUnits |-> TocStep(f, size, u)]
  <2>1. \A u \in 0 .. M : u >= k
    BY <1>5
  <2> QED BY <1>1, <1>4, <2>1
<1>7. TocFcn(size) = [u \in 0 .. MediumUnits |-> TocStep(TocFcn(size), size, u)]
  BY <1>6 DEF TocFcn
<1>8. PICK F : F = TocFcn(size)
  OBVIOUS
<1>9. F = [u \in 0 .. MediumUnits |-> TocStep(F, size, u)]
  BY <1>7, <1>8
<1> QED BY <1>8, <1>9

\* At the end of a session, the step finds its successor of the chain, be it
\* at that address, as by growisofs, or at the aligned one.
LEMMA TocStepOfSession ==
    ASSUME SessionsInv, MediumInv, EmulatedHead, NEW c \in Chain(HeadSession),
           NEW f, NEW nwa \in 0 .. MediumUnits,
           sess[c].start \in {nwa, Aligned(nwa)}
    PROVE  TocStep(f, medium[1].n, nwa)
             = <<TocEntry(sess[c].start, sess[c].size)>> \o f[Ends(c)]
<1>1. PICK a : a = sess[c].start
  OBVIOUS
<1>2. PICK m : m = sess[c].size
  OBVIOUS
<1>3. PICK lba : lba = Aligned(nwa)
  OBVIOUS
<1>4. HeadSession \in Sessions /\ Emulated(HeadSession) /\ medium[1].n \in Nat
  BY HeadFacts DEF EmulatedHead
<1>5. /\ c \in Sessions /\ a \in Nat /\ a >= 2 /\ m \in Nat /\ m >= 2
      /\ Ends(c) = a + m /\ a + m <= MediumUnits /\ a + m <= medium[1].n /\ Intact(c)
  BY <1>1, <1>2, <1>4, EmulatedChain, SessionTypes DEF MediumInv, SessionFits, Ends
<1>6. MediumUnits \in Nat /\ nwa \in Nat
  BY MSAssumption
<1>7. a \in Units /\ a + 1 \in Units
  BY <1>5, <1>6 DEF Units
<1>8. /\ medium[a] = [k |-> "sys", s |-> c, n |-> 0]
      /\ medium[a + 1] = [k |-> "vd", s |-> c, n |-> m]
  <2>1. 0 \in 0 .. m - 1 /\ 1 \in 0 .. m - 1 /\ a # 0 /\ a + 0 = a
    BY <1>5
  <2>2. medium[a + 0] = SessionCell(c, m, 0) /\ medium[a + 1] = SessionCell(c, m, 1)
    BY <1>1, <1>2, <1>5, <2>1 DEF Intact
  <2> QED BY <2>1, <2>2 DEF SessionCell
<1>9. HasHeader(a + 1) /\ ~ HasHeader(a)
  BY <1>7, <1>8 DEF HasHeader
<1>10. lba \in Nat /\ lba >= nwa /\ lba <= nwa + 1
  BY <1>3, <1>6 DEF Aligned
<1>11. a = (IF lba # nwa /\ HasHeader(lba) THEN nwa ELSE lba)
  <2>1. CASE a = lba
    BY <2>1, <1>9
  <2>2. CASE a = nwa /\ lba # nwa
    BY <2>2, <1>6, <1>9, <1>10
  <2> QED BY <1>1, <1>3, <2>1, <2>2
<1>12. lba <= a + 1 /\ ~ (lba >= medium[1].n)
  BY <1>1, <1>3, <1>4, <1>5, <1>6, <1>10
<1>13. Readable(a, medium[a + 1].n) = m
  BY <1>5, <1>6, <1>8 DEF Readable
<1> QED BY <1>1, <1>2, <1>3, <1>5, <1>9, <1>11, <1>12, <1>13 DEF TocStep

\* The emulated table of content of an intact chain is the chain.
LEMMA TocOfChain ==
    ASSUME SessionsInv, MediumInv, EmulatedHead
    PROVE  LET chain == sess[HeadSession].chain
           IN  EmulateToc(medium[1].n) =
                 [i \in DOMAIN chain |->
                     TocEntry(sess[chain[i]].start, sess[chain[i]].size)]
<1>1. PICK h : h = HeadSession
  OBVIOUS
<1>2. PICK c : c = sess[h].chain
  OBVIOUS
<1>3. PICK F : F = TocFcn(medium[1].n)
  OBVIOUS
<1>4. PICK L : L = Len(c)
  OBVIOUS
<1> DEFINE E(j) == TocEntry(sess[c[j]].start, sess[c[j]].size)
           Rest(j) == F[Ends(c[j])] = [i \in 1 .. L - j |-> E(j + i)]
           T == {j \in 1 .. L : Rest(j)}
<1>5. /\ h \in Sessions /\ Emulated(h) /\ SessionFits(h) /\ Follows(h)
      /\ c \in Seq(Nat) /\ c # <<>> /\ medium[1].n = Ends(h)
  BY <1>1, <1>2, HeadFacts, SessionTypes DEF EmulatedHead, SessionFits, MediumInv
<1>6. L \in Nat /\ L >= 1 /\ DOMAIN c = 1 .. L
  BY <1>4, <1>5
<1>7. \A j \in 1 .. L : /\ c[j] \in Chain(h) /\ Ends(c[j]) \in Nat
                        /\ Ends(c[j]) <= MediumUnits /\ Ends(c[j]) \in 0 .. MediumUnits
  <2> SUFFICES ASSUME NEW j \in 1 .. L
               PROVE  /\ c[j] \in Chain(h) /\ Ends(c[j]) \in Nat
                      /\ Ends(c[j]) <= MediumUnits /\ Ends(c[j]) \in 0 .. MediumUnits
    OBVIOUS
  <2>1. c[j] \in Chain(h)
    BY <1>2, <1>6 DEF Chain, Range
  <2>2. c[j] \in Sessions
    BY <1>5, <2>1, EmulatedChain
  <2>3. Ends(c[j]) \in Nat /\ Ends(c[j]) <= MediumUnits /\ MediumUnits \in Nat
    BY <2>2, SessionTypes, MSAssumption
  <2> QED BY <2>1, <2>3
<1>8. /\ c[L] = h
      /\ \A j \in 1 .. L - 1 : sess[c[j + 1]].start \in {Ends(c[j]), Aligned(Ends(c[j]))}
  BY <1>2, <1>4, <1>5 DEF Follows
<1>9. HeadersFit
  BY DEF HeadersFit, MediumInv, Cells
<1>10. \A nwa \in 0 .. MediumUnits : F[nwa] = TocStep(F, medium[1].n, nwa)
  BY <1>3, <1>9, TocDefined
<1>11. \A j \in 1 .. L - 1 : F[Ends(c[j])] = <<E(j + 1)>> \o F[Ends(c[j + 1])]
  <2> SUFFICES ASSUME NEW j \in 1 .. L - 1
               PROVE  F[Ends(c[j])] = <<E(j + 1)>> \o F[Ends(c[j + 1])]
    OBVIOUS
  <2>1. j \in 1 .. L /\ j + 1 \in 1 .. L
    BY <1>6
  <2>2. c[j + 1] \in Chain(HeadSession) /\ Ends(c[j]) \in 0 .. MediumUnits
    BY <1>1, <1>7, <2>1
  <2>3. TocStep(F, medium[1].n, Ends(c[j])) = <<E(j + 1)>> \o F[Ends(c[j + 1])]
    BY <1>8, <2>2, TocStepOfSession
  <2> QED BY <1>10, <2>2, <2>3
<1>12. L \in T
  <2>1. Aligned(Ends(h)) >= medium[1].n
    BY <1>5, <1>6, <1>7, <1>8, AlignedIsAbove
  <2>2. TocStep(F, medium[1].n, Ends(h)) = <<>>
    BY <2>1 DEF TocStep
  <2>3. F[Ends(c[L])] = <<>>
    BY <1>6, <1>7, <1>8, <1>10, <2>2
  <2>4. [i \in 1 .. L - L |-> E(L + i)] = <<>>
    BY <1>6
  <2> QED BY <1>6, <2>3, <2>4
<1>13. PICK k \in T : \A y \in T : k <= y
  <2>1. T \in SUBSET Nat
    OBVIOUS
  <2> HIDE DEF T
  <2> QED BY <1>12, <2>1, Least
<1>14. k = 1
  <2> SUFFICES ASSUME k # 1 PROVE FALSE
    OBVIOUS
  <2>1. k \in 1 .. L /\ Rest(k)
    OBVIOUS
  <2>2. PICK j : j = k - 1
    OBVIOUS
  <2>3. j \in 1 .. L - 1 /\ j \in 1 .. L /\ k = j + 1
    BY <1>6, <2>1, <2>2
  <2>4. F[Ends(c[j])] = <<E(j + 1)>> \o [i \in 1 .. L - (j + 1) |-> E(j + 1 + i)]
    BY <1>11, <2>1, <2>3
  <2>5. <<E(j + 1)>> \o [i \in 1 .. L - (j + 1) |-> E(j + 1 + i)]
          = [i \in 1 .. L - j |-> E(j + i)]
    <3> HIDE DEF E
    <3> QED BY <1>6, <2>3
  <2>6. j \in T
    BY <2>3, <2>4, <2>5
  <2> QED BY <1>13, <2>2, <2>3, <2>6
<1>15. F[Ends(c[1])] = [i \in 1 .. L - 1 |-> E(1 + i)]
  BY <1>14
<1>16. F[2] = <<E(1)>> \o [i \in 1 .. L - 1 |-> E(1 + i)]
  <2>1. c[1] \in Chain(HeadSession) /\ 2 \in 0 .. MediumUnits
    BY <1>1, <1>6, <1>7, MSAssumption
  <2>2. sess[c[1]].start = 2
    BY <1>2, <1>5 DEF Emulated
  <2>3. TocStep(F, medium[1].n, 2) = <<E(1)>> \o F[Ends(c[1])]
    BY <2>1, <2>2, TocStepOfSession
  <2> QED BY <1>10, <1>15, <2>1, <2>3
<1>17. <<E(1)>> \o [i \in 1 .. L - 1 |-> E(1 + i)] = [i \in 1 .. L |-> E(i)]
  <2> HIDE DEF E
  <2> QED BY <1>6
<1>18. EmulateToc(medium[1].n) = [i \in DOMAIN c |-> E(i)]
  BY <1>3, <1>6, <1>16, <1>17, TocOfFunction
<1> QED BY <1>1, <1>2, <1>18

\* The assessment of the medium.
LEMMA WelcomeFits ==
    ASSUME SessionsInv, MediumInv, NEW e
    PROVE  /\ Struct(WelcomeMedia(e)) /\ AtRest(WelcomeMedia(e))
           /\ WelcomeMedia(e).status # "unready" /\ WelcomeMedia(e).msc1 = 0
           /\ WelcomeMedia(e).zeroNwa = 2
<1> DEFINE d == WelcomeMedia(e)
<1>1. 0 \in Units /\ 1 \in Units
  BY MSAssumption DEF Units
<1>2. medium[0] \in Cells /\ medium[1] \in Cells /\ medium[0].k # "vd"
  BY <1>1 DEF MediumInv, HasHeader
<1>3. Zero \in Cells /\ Zero.k # "vd"
  BY DEF Zero, Cells
<1>4. CASE e
  BY <1>3, <1>4 DEF WelcomeMedia, NewO, Struct, AtRest, LoadPoint, TocFits
<1>5. CASE ~ e /\ HeadStatus = "appendable"
  <2>1. d = [NewO EXCEPT !.status = "appendable", !.head = <<medium[0], medium[1]>>,
                         !.toc = EmulateToc(medium[1].n), !.nwa = Aligned(medium[1].n)]
    BY <1>5 DEF WelcomeMedia, NewO
  <2>2. HasHeader(1)
    BY <1>1, <1>5 DEF HeadStatus, HasHeader
  <2>3. Aligned(medium[1].n) \in Nat
    BY <2>2, HeadFacts, AlignedIsAbove
  <2> HIDE DEF d
  <2>4. /\ DOMAIN d = DOMAIN NewO /\ d.status = "appendable" /\ d.zeroNwa = 2
        /\ d.head = <<medium[0], medium[1]>> /\ d.nwa = Aligned(medium[1].n)
        /\ d.msc1 = 0 /\ d.toc = EmulateToc(medium[1].n)
    BY <2>1 DEF NewO
  <2>5. TocFits(d)
    BY <2>4, TocOfChain DEF TocFits
  <2>6. Struct(d)
    BY <1>2, <2>3, <2>4 DEF Struct
  <2> QED BY <2>2, <2>4, <2>5, <2>6 DEF AtRest, LoadPoint, d
<1>6. CASE ~ e /\ HeadStatus # "appendable"
  <2>1. d = [NewO EXCEPT !.status = HeadStatus, !.head = <<medium[0], medium[1]>>]
    BY <1>6 DEF WelcomeMedia, NewO
  <2>2. HeadStatus \in {"blank", "full"} /\ ~ HasHeader(1)
    <3>1. medium[1].k # "vd"
      <4>1. SUFFICES ASSUME medium[1].k = "vd" PROVE HeadStatus = "appendable"
        BY <1>6
      <4>2. medium[1] # Zero /\ medium[1].k # "xx"
        BY <4>1 DEF Zero
      <4> QED BY <4>1, <4>2 DEF HeadStatus
    <3>2. HeadStatus = "blank" \/ HeadStatus = "full"
      BY <3>1 DEF HeadStatus
    <3> QED BY <3>1, <3>2 DEF HasHeader
  <2> HIDE DEF d
  <2>3. /\ DOMAIN d = DOMAIN NewO /\ d.status = HeadStatus /\ d.zeroNwa = 2
        /\ d.head = <<medium[0], medium[1]>> /\ d.nwa = 2 /\ d.msc1 = 0 /\ d.toc = <<>>
    BY <2>1 DEF NewO
  <2> QED BY <1>2, <2>2, <2>3 DEF Struct, AtRest, LoadPoint, TocFits, d
<1> QED BY <1>4, <1>5, <1>6

\* The loading of a tree from a load address.
LEMMA LoadedFits ==
    ASSUME SessionsInv, MediumInv, NEW d, Struct(d), AtRest(d), NEW e
    PROVE  /\ ImageType(LoadedImage(d, e), "disc") /\ ImageFits(LoadedImage(d, e), d)
<1> DEFINE m == LoadedImage(d, e)
<1>1. CASE d.status = "blank" \/ e \/ ~ HasHeader(d.msc1 + 1)
  BY <1>1 DEF LoadedImage, EmptyImage, NoImage, ImageType, ImageFits
<1>2. CASE ~ (d.status = "blank" \/ e \/ ~ HasHeader(d.msc1 + 1))
  <2> DEFINE h == medium[d.msc1 + 1].s
  <2>1. h \in Sessions
    BY <1>2 DEF MediumInv, HasHeader
  <2>2. /\ DOMAIN m = DOMAIN NoImage /\ m.refs = sess[h].refs /\ m.present = TRUE
    BY <1>2 DEF LoadedImage, EmptyImage, NoImage
  <2>3. ImageType(m, "disc")
    BY <2>1, <2>2, SessionTypes DEF ImageType
  <2>4. ASSUME EmulatedHead PROVE m.refs \subseteq Chain(HeadSession)
    <3>1. HeadSession \in Sessions /\ Emulated(HeadSession)
      BY <2>4, HeadFacts DEF EmulatedHead
    <3>2. h \in Chain(HeadSession)
      <4>1. CASE d.msc1 = 0
        BY <4>1, <3>1, SessionTypes DEF HeadSession
      <4>2. CASE d.msc1 # 0
        <5>1. PICK c \in Chain(HeadSession) : d.msc1 = sess[c].start
          BY <4>2, <2>4 DEF AtRest, LoadPoint
        <5>2. c \in Sessions /\ sess[c].start >= 2 /\ Intact(c)
          BY <5>1, <3>1, <2>4, EmulatedChain DEF MediumInv
        <5>3. sess[c].start \in Nat /\ sess[c].size \in Nat /\ sess[c].size >= 2
          BY <5>2, SessionTypes DEF SessionFits
        <5>4. 1 \in 0 .. sess[c].size - 1 /\ sess[c].start # 0
          BY <5>2, <5>3
        <5>5. medium[sess[c].start + 1] = SessionCell(c, sess[c].size, 1)
          BY <5>2, <5>4 DEF Intact
        <5> QED BY <5>1, <5>5 DEF SessionCell
      <4> QED BY <4>1, <4>2
    <3> QED BY <3>1, <3>2, <2>2, EmulatedChain
  <2> QED BY <1>2, <2>3, <2>4 DEF ImageFits
<1> QED BY <1>1, <1>2

\* The struct isoburn of an unknown medium.
LEMMA NewOFits ==
    /\ Struct(NewO) /\ AtRest(NewO) /\ NewO.status = "unready" /\ NewO.zeroNwa = 2
BY DEF NewO, Struct, AtRest, LoadPoint, TocFits, Zero, Cells

\* Images without files of the medium.
LEMMA EmptyFits ==
    ASSUME NEW in, NEW d, NEW m \in {EmptyImage, NoImage}
    PROVE  ImageType(m, in) /\ ImageFits(m, d) /\ m.refs = {}
<1>1. CASE m = NoImage
  <2>1. DOMAIN m = DOMAIN NoImage /\ m.refs = {} /\ m.present = FALSE
    BY <1>1 DEF NoImage
  <2> QED BY <2>1 DEF ImageType, ImageFits
<1>2. CASE m = EmptyImage
  <2>1. DOMAIN m = DOMAIN NoImage /\ m.refs = {} /\ m.present = TRUE
    BY <1>2 DEF EmptyImage, NoImage
  <2> QED BY <2>1 DEF ImageType, ImageFits
<1> QED BY <1>1, <1>2

\* The choice of a session of the table of content by -load.
LEMMA AddressFits ==
    ASSUME SessionsInv, MediumInv, NEW d, Struct(d), AtRest(d),
           NEW a \in LoadAddresses(d)
    PROVE  LET f == [d EXCEPT !.msc1 = a]
           IN  Struct(f) /\ AtRest(f)
<1> DEFINE f == [d EXCEPT !.msc1 = a]
<1>1. /\ DOMAIN f = DOMAIN NewO /\ f.msc1 = a
      /\ f.status = d.status /\ f.nwa = d.nwa /\ f.zeroNwa = d.zeroNwa
      /\ f.head = d.head /\ f.toc = d.toc
  BY DEF Struct, NewO
<1> HIDE DEF f
<1>2. Struct(f)
  BY <1>1 DEF Struct
<1>3. CASE a = 0
  BY <1>1, <1>2, <1>3 DEF AtRest, LoadPoint, TocFits, f
<1>4. CASE a # 0
  <2>1. PICK i \in DOMAIN d.toc : a = d.toc[i].lba
    BY <1>4 DEF LoadAddresses
  <2>2. d.toc # <<>>
    BY <2>1
  <2>3. d.status = "appendable" /\ HasHeader(1)
    BY <2>2 DEF AtRest
  <2>4. ASSUME EmulatedHead
        PROVE  \E c \in Chain(HeadSession) : a = sess[c].start
    <3> DEFINE chain == sess[HeadSession].chain
    <3>1. d.toc = [j \in DOMAIN chain |->
                      TocEntry(sess[chain[j]].start, sess[chain[j]].size)]
      BY <2>3, <2>4 DEF AtRest, TocFits
    <3>2. DOMAIN d.toc = DOMAIN chain
      BY <3>1
    <3>3. d.toc[i] = TocEntry(sess[chain[i]].start, sess[chain[i]].size)
      BY <2>1, <3>1, <3>2
    <3>4. i \in DOMAIN chain /\ a = sess[chain[i]].start
      BY <2>1, <3>2, <3>3 DEF TocEntry
    <3> QED BY <3>4 DEF Chain, Range
  <2>5. LoadPoint(a)
    BY <2>3, <2>4 DEF LoadPoint
  <2> QED BY <1>1, <1>2, <2>3, <2>5 DEF AtRest, TocFits, f
<1> QED BY <1>3, <1>4

\* The outcomes of loading.
LEMMA LoadFromFits ==
    ASSUME SessionsInv, MediumInv, NEW d, NEW out \in {"none", "disc"}, Struct(d),
           d.status # "unready", AtRest(d), LoadFrom(d, out)
    PROVE  /\ Struct(o') /\ AtRest(o') /\ Roles(indev', out, o')
           /\ ImageType(img', indev') /\ ImageFits(img', o')
           /\ o' # d => o' = NewO
           /\ indev' \in {"none", "disc"}
<1>1. CASE \E e \in MayFail : img' = LoadedImage(d, e) /\ indev' = "disc" /\ o' = d
  <2>1. AtRest(d) /\ indev' = "disc" /\ o' = d
    BY <1>1
  <2>2. ImageType(img', "disc") /\ ImageFits(img', d)
    BY <1>1, <2>1, LoadedFits
  <2> QED BY <2>1, <2>2 DEF Roles
<1>2. CASE /\ indev' = "none" /\ img' = (IF out # "none" THEN EmptyImage ELSE NoImage)
           /\ o' = (IF out = "disc" THEN d ELSE NewO)
  <2>1. ImageType(img', indev') /\ ImageFits(img', o')
    BY <1>2, EmptyFits
  <2>2. Struct(o') /\ AtRest(o')
    BY <1>2, NewOFits
  <2>3. Roles(indev', out, o')
    BY <1>2, NewOFits DEF Roles
  <2> QED BY <1>2, <2>1, <2>2, <2>3
<1> QED BY <1>1, <1>2 DEF LoadFrom

\* A session fits as long as its record and those of its chain stay.
LEMMA FitsStays ==
    ASSUME NEW i, SessionFits(i), sess'[i] = sess[i], Chain(i)' = Chain(i),
           Emulated(i)' <=> Emulated(i), Emulated(i) /\ Follows(i) => Follows(i)',
           \A c \in Chain(i) : /\ sess'[c] = sess[c] /\ Chain(c)' = Chain(c)
                               /\ Emulated(c)' <=> Emulated(c)
    PROVE  SessionFits(i)'
BY DEF SessionFits

\* Steps which begin no session.
LEMMA SessionsStay ==
    ASSUME SessionsInv, sess' = sess
    PROVE  SessionsInv' /\ Sessions' = Sessions
<1>1. Sessions' = Sessions /\ sess' \in Seq(Records)
  BY DEF SessionsInv, Sessions
<1>2. ASSUME NEW i \in Sessions
      PROVE  /\ sess'[i] = sess[i] /\ Ends(i)' = Ends(i) /\ Chain(i)' = Chain(i)
             /\ Emulated(i)' <=> Emulated(i)
             /\ Follows(i) => Follows(i)'
  BY DEF Ends, Chain, Emulated, Follows
<1>3. ASSUME NEW i \in Sessions PROVE SessionFits(i)'
  <2>1. SessionFits(i) /\ Chain(i) \subseteq Sessions
    BY SessionTypes
  <2>2. \A c \in Chain(i) : /\ sess'[c] = sess[c] /\ Chain(c)' = Chain(c)
                            /\ Emulated(c)' <=> Emulated(c)
    BY <1>2, <2>1
  <2> QED BY <1>2, <2>1, <2>2, FitsStays
<1> QED BY <1>1, <1>3 DEF SessionsInv

\* Steps which write nothing.
LEMMA MediumStays ==
    ASSUME SessionsInv, MediumInv, UNCHANGED <<medium, sess>>
    PROVE  /\ SessionsInv' /\ MediumInv'
           /\ Sessions' = Sessions /\ EmulatedHead' = EmulatedHead
<1>1. SessionsInv'
  BY SessionsStay
<1>2. /\ Sessions' = Sessions /\ EmulatedHead' = EmulatedHead
      /\ \A u : HasHeader(u)' <=> HasHeader(u)
      /\ \A i : Intact(i)' <=> Intact(i)
      /\ Chain(HeadSession)' = Chain(HeadSession) /\ Ends(HeadSession)' = Ends(HeadSession)
      /\ \A i : Ends(i)' = Ends(i)
  BY DEF Sessions, EmulatedHead, HasHeader, Emulated, HeadSession, Intact, Chain, Ends
<1>3. MediumInv'
  BY <1>2 DEF MediumInv
<1> QED BY <1>1, <1>2, <1>3

\* The end of a command that wrote nothing with this step.
LEMMA CommandStep ==
    ASSUME MSInv, UNCHANGED <<medium, sess>>, pc' = "cmd", unit' = 0, cur' = 0,
           safe' \in 0 .. Len(sess), pending' \in BOOLEAN, ending' \in BOOLEAN,
           Struct(o'), AtRest(o'), Roles(indev', outdev', o'),
           ImageType(img', indev'), ImageFits(img', o')
    PROVE  MSInv'
<1>1. SessionsInv' /\ MediumInv'
  BY MediumStays DEF MSInv
<1>2. /\ Struct(o)' /\ AtRest(o)' /\ Roles(indev, outdev, o)'
      /\ ImageType(img, indev)' /\ ImageFits(img, o)'
  BY DEF Struct, AtRest, Roles, ImageType, ImageFits, LoadPoint, TocFits, HasHeader,
         EmulatedHead, Emulated, HeadSession, Chain, Sessions
<1>3. DriveInv'
  BY <1>2 DEF DriveInv
<1>4. StepInv'
  BY DEF StepInv
<1>5. WritingInv'
  BY DEF WritingInv
<1> QED BY <1>1, <1>3, <1>4, <1>5 DEF MSInv

\* The end of the program.
LEMMA EndStep ==
    ASSUME MSInv, UNCHANGED <<medium, sess>>, safe' \in 0 .. Len(sess), ProgramEnds
    PROVE  MSInv'
<1>1. SessionsInv' /\ MediumInv'
  BY MediumStays DEF MSInv
<1>2. /\ indev' = "none" /\ outdev' = "none" /\ img' = NoImage /\ pending' = FALSE
      /\ o' = NewO /\ pc' = "ended" /\ unit' = 0 /\ cur' = 0 /\ ending' = FALSE
  BY DEF ProgramEnds
<1>3. Struct(o)'
  BY <1>2, NewOFits DEF Struct
<1>4. Roles(indev, outdev, o)'
  BY <1>2, NewOFits DEF Roles
<1>5. ImageType(img, indev)'
  BY <1>2, EmptyFits DEF ImageType, NoImage
<1>6. DriveInv'
  BY <1>2, <1>3, <1>4, <1>5 DEF DriveInv
<1>7. StepInv'
  <2>1. pending' \in BOOLEAN /\ ending' \in BOOLEAN
    BY <1>2
  <2>2. safe' \in 0 .. Len(sess')
    OBVIOUS
  <2> HIDE DEF ProgramEnds
  <2> QED BY <1>2, <2>1, <2>2 DEF StepInv
<1>8. WritingInv'
  BY <1>2 DEF WritingInv
<1> QED BY <1>1, <1>6, <1>7, <1>8 DEF MSInv

-----------------------------------------------------------------------------
\* What remains of the drives after giving up.
LEMMA GivenUpFits ==
    ASSUME MSInv, pc = "cmd", NEW in \in BOOLEAN, NEW out \in BOOLEAN
    PROVE  LET g == GivenUp(in, out)
               d == IF "disc" \in {g.indev, g.outdev} THEN o ELSE NewO
           IN  /\ Struct(d) /\ AtRest(d) /\ Roles(g.indev, g.outdev, d)
               /\ ImageType(g.img, g.indev) /\ ImageFits(g.img, d)
               /\ g.pending \in BOOLEAN
               /\ ~ in => g.indev = indev /\ g.img = img
               /\ "disc" \in {g.indev, g.outdev} => o.status # "unready"
<1> DEFINE g == GivenUp(in, out)
           d == IF "disc" \in {g.indev, g.outdev} THEN o ELSE NewO
<1>1. /\ Struct(o) /\ AtRest(o) /\ Roles(indev, outdev, o)
      /\ ImageType(img, indev) /\ ImageFits(img, o) /\ pending \in BOOLEAN
  BY DEF MSInv, DriveInv, StepInv
<1>2. /\ g.indev = IF in THEN "none" ELSE indev
      /\ g.outdev = IF out THEN "none" ELSE outdev
      /\ g.img \in {img, EmptyImage, NoImage}
      /\ g.img = img \/ in
  BY DEF GivenUp
<1>3. g.pending \in BOOLEAN
  BY <1>1 DEF GivenUp
<1>4. in /\ indev # "none" => g.img \in {EmptyImage, NoImage}
  BY DEF GivenUp
<1> HIDE DEF g
<1>5. Struct(d) /\ AtRest(d)
  BY <1>1, NewOFits
<1>6. Roles(g.indev, g.outdev, d) /\ ("disc" \in {g.indev, g.outdev} => o.status # "unready")
  BY <1>1, <1>2, NewOFits DEF Roles
<1>7. ImageType(g.img, g.indev) /\ ImageFits(g.img, d)
  <2>1. CASE g.img = img /\ ~ in
    BY <1>1, <1>2, <2>1, NewOFits DEF ImageFits
  <2>2. CASE g.img = img /\ in /\ indev = "none"
    BY <1>1, <1>2, <2>2 DEF ImageFits, ImageType
  <2>3. CASE g.img \in {EmptyImage, NoImage}
    BY <2>3, EmptyFits
  <2> QED BY <1>2, <1>4, <2>1, <2>2, <2>3
<1> QED BY <1>2, <1>3, <1>5, <1>6, <1>7 DEF g

\* GiveUp and Eject.
LEMMA GiveUpKeeps ==
    ASSUME MSInv, NEW in \in BOOLEAN, NEW out \in BOOLEAN, pc = "cmd",
           LET g == GivenUp(in, out)
           IN  /\ indev' = g.indev /\ outdev' = g.outdev
               /\ img' = g.img /\ pending' = g.pending
               /\ o' = IF "disc" \in {g.indev, g.outdev} THEN o ELSE NewO,
           UNCHANGED <<medium, sess, safe, pc, unit, cur, ending>>
    PROVE  MSInv'
<1> DEFINE g == GivenUp(in, out)
           d == IF "disc" \in {g.indev, g.outdev} THEN o ELSE NewO
<1>1. /\ Struct(d) /\ AtRest(d) /\ Roles(g.indev, g.outdev, d)
      /\ ImageType(g.img, g.indev) /\ ImageFits(g.img, d) /\ g.pending \in BOOLEAN
  BY GivenUpFits
<1>2. /\ indev' = g.indev /\ outdev' = g.outdev /\ img' = g.img
      /\ pending' = g.pending /\ o' = d
  OBVIOUS
<1>3. /\ pc' = "cmd" /\ unit' = 0 /\ cur' = 0 /\ safe' \in 0 .. Len(sess)
      /\ ending' \in BOOLEAN
  BY DEF MSInv, StepInv
<1> HIDE DEF g, d
<1> QED BY <1>1, <1>2, <1>3, CommandStep

LEMMA AcquireDiscKeeps ==
    ASSUME MSInv, NEW in \in BOOLEAN, NEW out \in BOOLEAN, AcquireDisc(in, out)
    PROVE  MSInv'
<1> DEFINE left == GivenUp(in, out)
           shared == "disc" \in {left.indev, left.outdev}
<1>1. /\ pc = "cmd" /\ (in \/ out)
      /\ outdev' = (IF out THEN "disc" ELSE left.outdev) /\ pending' = left.pending
      /\ UNCHANGED <<medium, sess, safe, pc, unit, cur, ending>>
  BY DEF AcquireDisc
<1>2. PICK e \in MayFail :
        LET d == IF shared THEN o ELSE WelcomeMedia(e)
        IN  IF in
            THEN \E a \in LoadAddresses(d) : LoadFrom([d EXCEPT !.msc1 = a], outdev')
            ELSE /\ indev' = left.indev /\ o' = d
                 /\ img' = IF left.img.present THEN left.img ELSE EmptyImage
  BY DEF AcquireDisc
<1> DEFINE d == IF shared THEN o ELSE WelcomeMedia(e)
<1>3. /\ Roles(left.indev, left.outdev, IF shared THEN o ELSE NewO)
      /\ ImageType(left.img, left.indev) /\ left.pending \in BOOLEAN
      /\ ImageFits(left.img, IF shared THEN o ELSE NewO)
      /\ ~ in => left.indev = indev /\ left.img = img
      /\ shared => o.status # "unready"
  BY <1>1, GivenUpFits
<1> HIDE DEF left, shared
<1>4. /\ pc' = "cmd" /\ unit' = 0 /\ cur' = 0 /\ safe' \in 0 .. Len(sess)
      /\ ending' \in BOOLEAN /\ pending' \in BOOLEAN
  BY <1>1, <1>3 DEF MSInv, StepInv
<1>5. SessionsInv /\ MediumInv /\ Struct(o) /\ AtRest(o)
  BY <1>1 DEF MSInv, DriveInv
<1>6. Struct(d) /\ AtRest(d) /\ d.status # "unready"
  BY <1>3, <1>5, WelcomeFits
<1>7. outdev' \in {"none", "disc"} /\ left.indev \in {"none", "disc", "other"}
  BY <1>1, <1>3 DEF Roles
<1>8. /\ Struct(o') /\ AtRest(o') /\ Roles(indev', outdev', o')
      /\ ImageType(img', indev') /\ ImageFits(img', o')
  <2>1. CASE in
    <3>1. PICK a \in LoadAddresses(d) : LoadFrom([d EXCEPT !.msc1 = a], outdev')
      BY <1>2, <2>1
    <3> DEFINE f == [d EXCEPT !.msc1 = a]
    <3> HIDE DEF d
    <3>2. DOMAIN f = DOMAIN NewO /\ f.status = d.status /\ f.nwa = d.nwa
          /\ f.zeroNwa = d.zeroNwa /\ f.head = d.head
      BY <1>6 DEF Struct, NewO
    <3>3. Struct(f) /\ f.status # "unready"
      <4> HIDE DEF f
      <4> QED BY <3>2, <1>6 DEF Struct
    <3>4. AtRest(f)
      BY <1>5, <1>6, <3>1, AddressFits
    <3> HIDE DEF f
    <3> QED BY <1>5, <1>7, <3>1, <3>3, <3>4, LoadFromFits DEF f, Roles
  <2>2. CASE ~ in
    <3>1. /\ indev' = indev /\ o' = d /\ outdev' = "disc"
          /\ img' = IF img.present THEN img ELSE EmptyImage
      BY <1>1, <1>2, <1>3, <2>2
    <3>2. ImageType(img, indev) /\ ImageFits(img, IF shared THEN o ELSE NewO)
      BY <1>3, <2>2
    <3>3. Roles(indev', outdev', o')
      BY <1>3, <1>6, <1>7, <3>1, <2>2 DEF Roles
    <3>4. ~ shared => indev # "disc"
      BY <1>3, <2>2 DEF shared
    <3> HIDE DEF shared
    <3>5. ImageFits(img, d)
      BY <3>2, <3>4 DEF ImageFits, ImageType
    <3> HIDE DEF d
    <3>6. ImageType(img', indev') /\ ImageFits(img', o')
      BY <3>1, <3>2, <3>5, EmptyFits
    <3> QED BY <1>6, <3>1, <3>3, <3>6
  <2> QED BY <2>1, <2>2
<1> QED BY <1>1, <1>4, <1>8, CommandStep

LEMMA AcquireOtherKeeps ==
    ASSUME MSInv, AcquireOther
    PROVE  MSInv'
<1>1. /\ pc' = "cmd" /\ unit' = 0 /\ cur' = 0 /\ safe' \in 0 .. Len(sess)
      /\ ending' \in BOOLEAN /\ pending' \in BOOLEAN
      /\ UNCHANGED <<medium, sess, outdev>> /\ indev' = "other" /\ img' = EmptyImage
      /\ o' = IF outdev = "disc" THEN o ELSE NewO
  BY DEF MSInv, StepInv, AcquireOther
<1>2. Struct(o) /\ AtRest(o) /\ Roles(indev, outdev, o)
  BY DEF MSInv, DriveInv, AcquireOther
<1>3. Struct(o') /\ AtRest(o') /\ Roles(indev', outdev', o')
  BY <1>1, <1>2, NewOFits DEF Roles
<1>4. ImageType(img', indev') /\ ImageFits(img', o')
  BY <1>1, EmptyFits
<1> QED BY <1>1, <1>3, <1>4, CommandStep

\* The drive gets acquired anew after writing or blanking.
LEMMA ReacquireFits ==
    ASSUME SessionsInv, MediumInv, NEW in \in BOOLEAN, Reacquire(in),
           outdev = "disc", ImageType(img, indev), indev \in {"none", "disc", "other"},
           ~ in => indev # "disc"
    PROVE  /\ pc' = "cmd" /\ outdev' = "disc"
           /\ Struct(o') /\ AtRest(o') /\ Roles(indev', outdev', o')
           /\ ImageType(img', indev') /\ ImageFits(img', o')
<1>1. pc' = "cmd" /\ outdev' = "disc"
  BY DEF Reacquire
<1>2. CASE in
  <2>1. PICK e \in MayFail : LoadFrom(WelcomeMedia(e), outdev)
    BY <1>2 DEF Reacquire
  <2>2. /\ Struct(WelcomeMedia(e)) /\ AtRest(WelcomeMedia(e))
        /\ WelcomeMedia(e).status # "unready"
    BY WelcomeFits
  <2> QED BY <1>1, <2>1, <2>2, LoadFromFits
<1>3. CASE ~ in
  <2>1. PICK e \in MayFail : /\ o' = WelcomeMedia(e) /\ indev' = indev
                             /\ img' = (IF img.present THEN img ELSE EmptyImage)
    BY <1>3 DEF Reacquire
  <2>2. Struct(o') /\ AtRest(o') /\ o'.status # "unready"
    BY <2>1, WelcomeFits
  <2>3. Roles(indev', outdev', o')
    BY <1>1, <2>1, <2>2 DEF Roles
  <2>4. ImageType(img, indev) /\ ImageFits(img, o')
    BY <1>3 DEF ImageType, ImageFits
  <2>5. ImageType(img', indev') /\ ImageFits(img', o')
    BY <2>1, <2>4, EmptyFits
  <2> QED BY <1>1, <2>2, <2>3, <2>5
<1> QED BY <1>2, <1>3

LEMMA RollbackKeeps ==
    ASSUME MSInv, Rollback
    PROVE  MSInv'
<1>1. /\ pc = "cmd" /\ pc' = "cmd" /\ unit' = 0 /\ cur' = 0
      /\ safe' \in 0 .. Len(sess) /\ ending' \in BOOLEAN /\ pending' \in BOOLEAN
      /\ UNCHANGED <<medium, sess, outdev>>
  BY DEF MSInv, StepInv, Rollback
<1>2. /\ SessionsInv /\ MediumInv /\ Struct(o) /\ AtRest(o) /\ Roles(indev, outdev, o)
      /\ ImageType(img, indev) /\ ImageFits(img, o)
  BY <1>1 DEF MSInv, DriveInv
<1>3. CASE indev = "none"
  <2>1. indev' = "none" /\ o' = o /\ img' = GivenUp(TRUE, FALSE).img
    BY <1>3 DEF Rollback
  <2>2. img' \in {img, EmptyImage}
    BY <2>1, <1>3 DEF GivenUp
  <2>3. ImageType(img', indev') /\ ImageFits(img', o')
    BY <1>2, <1>3, <2>1, <2>2, EmptyFits
  <2> QED BY <1>1, <1>2, <1>3, <2>1, <2>3, CommandStep
<1>4. CASE indev = "other"
  <2>1. indev' = "other" /\ o' = o /\ img' = EmptyImage
    BY <1>4 DEF Rollback
  <2>2. ImageType(img', indev') /\ ImageFits(img', o')
    BY <2>1, EmptyFits
  <2> QED BY <1>1, <1>2, <1>4, <2>1, <2>2, CommandStep
<1>5. CASE indev = "disc"
  <2>1. PICK e \in MayFail :
          LoadFrom(IF outdev = "disc" THEN o
                   ELSE [WelcomeMedia(e) EXCEPT !.msc1 = o.msc1], outdev)
    BY <1>5 DEF Rollback
  <2> DEFINE w == WelcomeMedia(e)
             f == [w EXCEPT !.msc1 = o.msc1]
             d == IF outdev = "disc" THEN o ELSE f
  <2>2. Struct(w) /\ AtRest(w) /\ w.status # "unready" /\ w.zeroNwa = 2
    BY <1>2, WelcomeFits
  <2> HIDE DEF w
  <2>3. DOMAIN f = DOMAIN NewO /\ f.status = w.status /\ f.nwa = w.nwa
        /\ f.zeroNwa = w.zeroNwa /\ f.head = w.head /\ f.toc = w.toc
        /\ f.msc1 = o.msc1
    BY <2>2 DEF Struct, NewO
  <2> HIDE DEF f
  <2>4. Struct(f) /\ f.status # "unready"
    BY <2>2, <2>3 DEF Struct
  <2>5. w.status = "blank" => o.msc1 = 0
    BY <1>2, <2>2 DEF AtRest, LoadPoint
  <2>6. AtRest(f)
    BY <1>2, <2>2, <2>3, <2>5 DEF AtRest, TocFits
  <2>7. Struct(d) /\ AtRest(d) /\ d.status # "unready" /\ LoadFrom(d, outdev)
    BY <1>2, <1>5, <2>1, <2>4, <2>6 DEF Roles, f, w
  <2>8. outdev \in {"none", "disc"}
    BY <1>2 DEF Roles
  <2> HIDE DEF d
  <2>9. /\ Struct(o') /\ AtRest(o') /\ Roles(indev', outdev, o')
        /\ ImageType(img', indev') /\ ImageFits(img', o')
    BY <1>2, <2>7, <2>8, LoadFromFits
  <2> QED BY <1>1, <2>9, CommandStep
<1> QED BY <1>2, <1>3, <1>4, <1>5 DEF Roles

-----------------------------------------------------------------------------
\* A session stays intact if its units are left alone.
LEMMA IntactStays ==
    ASSUME NEW c, sess[c].start \in Nat, sess[c].start >= 2, sess[c].size \in Nat,
           sess'[c] = sess[c], Intact(c),
           \A u \in sess[c].start .. Ends(c) - 1 : medium'[u] = medium[u]
    PROVE  Intact(c)'
<1>1. \A i \in 0 .. sess[c].size - 1 :
        /\ sess[c].start + i \in sess[c].start .. Ends(c) - 1
        /\ medium[sess[c].start + i] = SessionCell(c, sess[c].size, i)
  BY DEF Intact, Ends
<1> QED BY <1>1 DEF Intact

\* Record r of a new session s: it starts a chain, or continues the one of h.
Begins(r, s, old, h) ==
    /\ r \in Records /\ s = Len(sess) + 1 /\ sess' = Append(sess, r)
    /\ old \in Seq(Nat) /\ r.chain = old \o <<s>>
    /\ r.size \in ImageSizes /\ r.size <= r.padded
    /\ r.start + r.padded <= MediumUnits /\ r.refs \subseteq 1 .. s
    /\ \/ old = <<>> /\ (r.start = 2 => r.refs \subseteq {s})
       \/ /\ h \in Sessions /\ old = sess[h].chain
          /\ Emulated(h) => /\ r.start >= 2 /\ r.refs \subseteq Chain(h) \cup {s}
                            /\ r.start \in {Ends(h), Aligned(Ends(h))}

\* The sessions with a new one among them, from xorriso or from growisofs.
LEMMA SessionsGrow ==
    ASSUME SessionsInv, NEW r, NEW s, NEW old, NEW h, Begins(r, s, old, h)
    PROVE  /\ SessionsInv' /\ s \in Nat /\ Sessions' = Sessions \cup {s} /\ s \notin Sessions
           /\ sess'[s] = r
           /\ \A i \in Sessions : /\ sess'[i] = sess[i] /\ Chain(i)' = Chain(i)
                                  /\ Emulated(i)' <=> Emulated(i)
                                  /\ Ends(i)' = Ends(i)
           /\ Chain(s)' = Range(old) \cup {s}
           /\ old = <<>> => (Emulated(s)' <=> r.start = 2)
           /\ old # <<>> => (Emulated(s)' <=> Emulated(h))
           /\ old # <<>> => h \in Sessions /\ old = sess[h].chain
<1> USE DEF Begins
<1>1. /\ sess \in Seq(Records) /\ Len(sess) \in Nat /\ s \in Nat
      /\ sess' \in Seq(Records) /\ Len(sess') = s
      /\ sess'[s] = r /\ \A i \in 1 .. Len(sess) : sess'[i] = sess[i]
  BY DEF SessionsInv
<1>2. Sessions' = Sessions \cup {s} /\ s \notin Sessions /\ Sessions' = 1 .. s
  BY <1>1 DEF Sessions
<1>3. \A i \in Sessions : sess'[i] = sess[i] /\ Chain(i)' = Chain(i) /\ Ends(i)' = Ends(i)
  BY <1>1 DEF Sessions, Chain, Ends
<1>4. \A i \in Sessions : sess[i].chain[1] \in Sessions
  BY SessionTypes
<1>5. \A i \in Sessions : Emulated(i)' <=> Emulated(i)
  <2> SUFFICES ASSUME NEW i \in Sessions PROVE Emulated(i)' <=> Emulated(i)
    OBVIOUS
  <2>1. sess'[i] = sess[i] /\ sess'[sess[i].chain[1]] = sess[sess[i].chain[1]]
    BY <1>3, <1>4
  <2> QED BY <2>1 DEF Emulated
<1>6. /\ r.chain # <<>> /\ Range(r.chain) = Range(old) \cup {s}
      /\ r.chain[1] = IF old = <<>> THEN s ELSE old[1]
      /\ Range(old) \subseteq Nat
  <2>1. old \in Seq(Nat) /\ s \in Nat /\ r.chain = old \o <<s>>
    BY <1>1
  <2> HIDE DEF Begins
  <2> QED BY <2>1, RangeOfAppend
<1>7. Chain(s)' = Range(old) \cup {s}
  BY <1>1, <1>6 DEF Chain
<1>8. old # <<>> => h \in Sessions /\ old = sess[h].chain
  OBVIOUS
<1>9. /\ old = <<>> => (Emulated(s)' <=> r.start = 2)
      /\ old # <<>> => (Emulated(s)' <=> Emulated(h))
  <2>1. CASE old = <<>>
    BY <1>1, <1>6, <2>1 DEF Emulated
  <2>2. CASE old # <<>>
    <3>1. sess[h].chain[1] \in Sessions
      BY <1>4, <1>8, <2>2
    <3> QED BY <1>1, <1>3, <1>6, <1>8, <2>2, <3>1 DEF Emulated
  <2> QED BY <2>1, <2>2
<1> HIDE DEF Begins
<1>10. \A i \in Sessions : SessionFits(i)'
  <2> SUFFICES ASSUME NEW i \in Sessions PROVE SessionFits(i)'
    OBVIOUS
  <2>1. SessionFits(i) /\ Chain(i) \subseteq Sessions
    BY SessionTypes
  <2>2. sess'[i] = sess[i] /\ Chain(i)' = Chain(i) /\ (Emulated(i)' <=> Emulated(i))
    BY <1>3, <1>5
  <2>3. \A c \in Chain(i) : /\ sess'[c] = sess[c] /\ Chain(c)' = Chain(c)
                            /\ Emulated(c)' <=> Emulated(c)
    BY <1>3, <1>5, <2>1
  <2>4. ASSUME Emulated(i) PROVE Follows(i)'
    <3>1. Follows(i) /\ sess[i].chain \in Seq(Nat)
      BY <2>1, <2>4, SessionTypes DEF SessionFits
    <3>2. \A j \in 1 .. Len(sess[i].chain) : sess[i].chain[j] \in Sessions
      BY <2>1, <3>1 DEF Chain, Range
    <3>3. \A j \in 1 .. Len(sess[i].chain) - 1 :
            /\ j \in 1 .. Len(sess[i].chain) /\ j + 1 \in 1 .. Len(sess[i].chain)
      BY <3>1
    <3>4. \A c \in Sessions : sess'[c] = sess[c] /\ Ends(c)' = Ends(c)
      BY <1>3
    <3>6. PICK c : c = sess[i].chain
      OBVIOUS
    <3>7. c[Len(c)] = i /\ sess'[i].chain = c
      BY <2>2, <3>1, <3>6 DEF Follows
    <3>8. ASSUME NEW j \in 1 .. Len(c) - 1
          PROVE  sess'[c[j + 1]].start \in {Ends(c[j])', Aligned(Ends(c[j]))'}
      <4>1. PICK x : x = c[j]
        OBVIOUS
      <4>2. PICK y : y = c[j + 1]
        OBVIOUS
      <4>3. x \in Sessions /\ y \in Sessions
        BY <3>2, <3>3, <3>6, <4>1, <4>2
      <4>4. sess[y].start \in {Ends(x), Aligned(Ends(x))}
        BY <3>1, <3>6, <4>1, <4>2 DEF Follows
      <4>5. sess'[y] = sess[y] /\ Ends(x)' = Ends(x)
        BY <3>4, <4>3
      <4>6. Ends(c[j])' = Ends(x)'
        BY <3>6, <4>1 DEF Ends
      <4> QED BY <4>2, <4>4, <4>5, <4>6 DEF Aligned
    <3> QED BY <3>7, <3>8 DEF Follows
  <2> QED BY <2>1, <2>2, <2>3, <2>4, FitsStays
<1> USE DEF Begins
<1>11. SessionFits(s)'
  <2>1. r.size \in Nat /\ r.size >= 2
    <3>1. r.size \in Nat \ {0, 1}
      BY MSAssumption
    <3>2. \A n \in Nat \ {0, 1} : n >= 2
      OBVIOUS
    <3> QED BY <3>1, <3>2
  <2>2. Range(old) \subseteq Sessions
    <3>1. CASE old = <<>>
      BY <3>1 DEF Range
    <3>2. CASE old # <<>>
      BY <3>2, <1>8, SessionTypes DEF Chain
    <3> QED BY <3>1, <3>2
  <2>3. Chain(s)' \subseteq 1 .. s
    BY <2>2, <1>2, <1>7
  <2>4. ASSUME Emulated(s)'
        PROVE  /\ r.refs \subseteq Chain(s)'
               /\ \A c \in Chain(s)' : /\ Emulated(c)' /\ Chain(c)' \subseteq Chain(s)'
                                       /\ sess'[c].start >= 2
    <3>1. CASE old = <<>>
      <4>1. Chain(s)' = {s} /\ r.start = 2
        BY <3>1, <1>7, <1>9, <2>4 DEF Range
      <4> QED BY <4>1, <3>1, <1>1, <1>8, <2>4, SessionTypes
    <3>2. CASE old # <<>>
      <4>1. Emulated(h) /\ h \in Sessions /\ Range(old) = Chain(h)
        BY <3>2, <1>8, <1>9, <2>4 DEF Chain
      <4>2. r.start >= 2 /\ r.refs \subseteq Chain(h) \cup {s}
        BY <3>2, <4>1
      <4>3. \A c \in Chain(h) : /\ c \in Sessions /\ Emulated(c)
                                /\ Chain(c) \subseteq Chain(h) /\ sess[c].start >= 2
        BY <4>1, EmulatedChain
      <4>4. Chain(s)' = Chain(h) \cup {s}
        BY <4>1, <1>7
      <4>5. \A c \in Chain(h) : /\ Emulated(c)' /\ Chain(c)' \subseteq Chain(s)'
                                /\ sess'[c].start >= 2
        BY <4>3, <4>4, <1>3, <1>5
      <4> QED BY <4>2, <4>4, <4>5, <1>1, <2>4
    <3> QED BY <3>1, <3>2
  <2>5. ASSUME Emulated(s)' PROVE Follows(s)'
    <3>1. PICK chain : chain = r.chain
      OBVIOUS
    <3>2. /\ chain = old \o <<s>> /\ Len(chain) = Len(old) + 1 /\ Len(old) \in Nat
          /\ chain[Len(chain)] = s /\ \A j \in 1 .. Len(old) : chain[j] = old[j]
      BY <1>1, <3>1
    <3>3. CASE old = <<>>
      <4>1. Len(chain) = 1 /\ 1 .. Len(chain) - 1 = {}
        BY <3>2, <3>3
      <4> QED BY <1>1, <3>1, <3>2, <4>1 DEF Follows
    <3>4. CASE old # <<>>
      <4>1. /\ h \in Sessions /\ old = sess[h].chain /\ Emulated(h)
            /\ r.start \in {Ends(h), Aligned(Ends(h))}
        BY <3>4, <1>8, <1>9, <2>5
      <4>2. Follows(h)
        BY <4>1, SessionTypes DEF SessionFits
      <4>3. old[Len(old)] = h /\ Len(old) >= 1
        BY <4>1, <4>2, <3>2, <3>4 DEF Follows
      <4>4. \A j \in 1 .. Len(old) : old[j] \in Sessions
        BY <2>2 DEF Range
      <4>5. ASSUME NEW j \in 1 .. Len(chain) - 1
            PROVE  sess'[chain[j + 1]].start \in {Ends(chain[j])', Aligned(Ends(chain[j]))'}
        <5>1. PICK x : x = old[j]
          OBVIOUS
        <5>2. j \in 1 .. Len(old) /\ chain[j] = x /\ x \in Sessions
          BY <3>2, <4>4, <5>1
        <5>3. Ends(x)' = Ends(x) /\ Aligned(Ends(x))' = Aligned(Ends(x))
          BY <1>3, <5>2 DEF Aligned
        <5>4. Ends(chain[j])' = Ends(x)
          BY <1>3, <5>2 DEF Ends
        <5>5. CASE j = Len(old)
          <6>1. j + 1 = Len(chain) /\ chain[j + 1] = s /\ x = h
            BY <3>2, <4>3, <5>1, <5>5
          <6>2. sess'[s].start \in {Ends(h), Aligned(Ends(h))}
            BY <1>1, <4>1
          <6> QED BY <5>2, <5>3, <5>4, <6>1, <6>2
        <5>6. CASE j # Len(old)
          <6>1. PICK y : y = old[j + 1]
            OBVIOUS
          <6>2. j \in 1 .. Len(old) - 1 /\ j + 1 \in 1 .. Len(old) /\ chain[j + 1] = y
                /\ y \in Sessions
            BY <3>2, <4>4, <5>2, <5>6, <6>1
          <6>3. sess[y].start \in {Ends(x), Aligned(Ends(x))}
            BY <4>1, <4>2, <5>1, <6>1, <6>2 DEF Follows
          <6>4. sess'[y] = sess[y]
            BY <1>3, <6>2
          <6> QED BY <5>2, <5>4, <6>2, <6>3, <6>4 DEF Aligned
        <5> QED BY <5>5, <5>6
      <4> QED BY <1>1, <3>1, <3>2, <4>5 DEF Follows
    <3> QED BY <3>3, <3>4
  <2> QED BY <1>1, <1>6, <1>7, <2>1, <2>3, <2>4, <2>5 DEF SessionFits
<1>12. SessionsInv'
  BY <1>1, <1>2, <1>10, <1>11 DEF SessionsInv
<1> QED BY <1>1, <1>2, <1>3, <1>5, <1>7, <1>8, <1>9, <1>12

\* The struct isoburn with the copy of a head in its buffer.
LEMMA HeadedFits ==
    ASSUME NEW d, Struct(d), AtRest(d), NEW s \in Nat, NEW n \in Nat
    PROVE  LET f == [d EXCEPT !.head = NewHead(d, s, n)]
           IN  /\ Struct(f) /\ AtRest(f) /\ f.status = d.status /\ f.nwa = d.nwa
               /\ f.zeroNwa = d.zeroNwa /\ f.msc1 = d.msc1
               /\ d.nwa # 0 => f.head[2] = [k |-> "vd", s |-> s, n |-> d.nwa + n]
<1> DEFINE f == [d EXCEPT !.head = NewHead(d, s, n)]
<1>1. /\ DOMAIN f = DOMAIN NewO /\ f.head = NewHead(d, s, n)
      /\ f.status = d.status /\ f.nwa = d.nwa /\ f.zeroNwa = d.zeroNwa
      /\ f.toc = d.toc /\ f.msc1 = d.msc1
  BY DEF Struct, NewO
<1> HIDE DEF f
<1>2. d.nwa \in Nat /\ d.nwa + n \in Nat
  BY DEF Struct
<1>3. CASE d.nwa = 0
  <2>1. f.head = d.head
    BY <1>1, <1>3 DEF NewHead
  <2> QED BY <1>1, <1>3, <2>1 DEF Struct, AtRest, TocFits, f
<1>4. CASE d.nwa # 0
  <2> DEFINE x == SessionCell(s, n, 0)
             y == [SessionCell(s, n, 1) EXCEPT !.n = d.nwa + n]
  <2>1. x = [k |-> "sys", s |-> s, n |-> 0]
    BY DEF SessionCell
  <2>2. y = [k |-> "vd", s |-> s, n |-> d.nwa + n]
    BY DEF SessionCell
  <2>3. x \in Cells /\ y \in Cells /\ x.k # "vd"
    BY <2>1, <2>2, <1>2 DEF Cells
  <2>4. f.head = <<x, y>>
    BY <1>1, <1>4 DEF NewHead
  <2> HIDE DEF x, y
  <2>5. f.head[1] = x /\ f.head[2] = y
    BY <2>4
  <2> QED BY <1>1, <2>2, <2>3, <2>5 DEF Struct, AtRest, TocFits, f
<1> QED BY <1>3, <1>4

\* The struct isoburn after isoburn_prepare_disc_aux().
LEMMA PreparedFits ==
    ASSUME MSInv, pc = "cmd", HeadKept, NEW ne \in NoEmulToc, MayWrite
    PROVE  LET d == Prepared(ne)
           IN  /\ Struct(d) /\ AtRest(d) /\ d.status = o.status /\ d.head = o.head
               /\ d.status \in {"blank", "appendable"}
               /\ d.status = "appendable" => d.nwa >= 2 /\ d = o
               /\ ~ ne => d = o
<1> DEFINE d == Prepared(ne)
<1>1. Struct(o) /\ AtRest(o) /\ o.status \in {"blank", "appendable"}
  BY DEF MSInv, DriveInv, MayWrite
<1>2. SessionsInv /\ MediumInv /\ ne \in BOOLEAN
  BY MSAssumption DEF MSInv
<1>3. ASSUME o.status = "appendable" PROVE o.nwa >= 2 /\ (ne => o.nwa # 2)
  <2>1. HasHeader(1) /\ o.nwa = Aligned(medium[1].n)
    BY <1>1, <1>3 DEF AtRest
  <2>2. medium[1].n \in Nat /\ medium[1].n >= 2
    BY <2>1, <1>2, HeadFacts
  <2>3. ne => medium[1].n >= 3
    BY <2>1, <1>2, HeadFacts
  <2> QED BY <2>1, <2>2, <2>3, AlignedIsAbove
<1>4. CASE ~ (ne /\ o.nwa = o.zeroNwa /\ o.zeroNwa = 2)
  BY <1>1, <1>3, <1>4 DEF Prepared
<1>5. CASE ne /\ o.nwa = o.zeroNwa /\ o.zeroNwa = 2
  <2>1. o.status = "blank" /\ ~ HasHeader(1)
    BY <1>1, <1>3, <1>5 DEF AtRest
  <2>2. d = [o EXCEPT !.nwa = 0, !.zeroNwa = 0]
    BY <1>5 DEF Prepared
  <2> HIDE DEF d
  <2>3. /\ DOMAIN d = DOMAIN NewO /\ d.nwa = 0 /\ d.zeroNwa = 0
        /\ d.status = o.status /\ d.head = o.head /\ d.toc = o.toc /\ d.msc1 = o.msc1
    BY <1>1, <2>2 DEF Struct, NewO
  <2>4. Struct(d)
    BY <1>1, <2>3 DEF Struct
  <2>5. AtRest(d)
    BY <1>1, <2>1, <2>3 DEF AtRest, TocFits
  <2> QED BY <1>1, <1>5, <2>1, <2>3, <2>4, <2>5 DEF d
<1> QED BY <1>4, <1>5

-----------------------------------------------------------------------------
LEMMA ModifyKeeps ==
    ASSUME MSInv, Modify
    PROVE  MSInv'
<1>1. /\ pc' = "cmd" /\ unit' = 0 /\ cur' = 0 /\ safe' \in 0 .. Len(sess)
      /\ ending' \in BOOLEAN /\ pending' \in BOOLEAN /\ pc = "cmd"
      /\ UNCHANGED <<medium, sess, indev, outdev, o>>
      /\ img' = [img EXCEPT !.changed = TRUE]
  BY DEF MSInv, StepInv, Modify
<1>2. /\ Struct(o) /\ AtRest(o) /\ Roles(indev, outdev, o)
      /\ ImageType(img, indev) /\ ImageFits(img, o)
  BY <1>1 DEF MSInv, DriveInv
<1>3. DOMAIN img' = DOMAIN NoImage /\ img'.refs = img.refs /\ img'.present = img.present
  BY <1>1, <1>2 DEF ImageType, NoImage
<1>4. ImageType(img', indev) /\ ImageFits(img', o)
  BY <1>2, <1>3 DEF ImageType, ImageFits
<1> QED BY <1>1, <1>2, <1>4, CommandStep

LEMMA PrintSizeKeeps ==
    ASSUME MSInv, HeadKept, PrintSize
    PROVE  MSInv'
<1>1. /\ pc' = "cmd" /\ unit' = 0 /\ cur' = 0 /\ safe' \in 0 .. Len(sess)
      /\ ending' \in BOOLEAN /\ pending' \in BOOLEAN /\ pc = "cmd" /\ MayWrite
      /\ UNCHANGED <<medium, sess, xVars>>
  BY DEF MSInv, StepInv, PrintSize, xVars
<1>2. PICK n \in ImageSizes, ne \in NoEmulToc :
        o' = [Prepared(ne) EXCEPT !.head = NewHead(Prepared(ne), 0, n)]
  BY DEF PrintSize
<1> DEFINE d == Prepared(ne)
<1>3. /\ Roles(indev, outdev, o) /\ ImageType(img, indev) /\ ImageFits(img, o)
  BY <1>1 DEF MSInv, DriveInv
<1>4. Struct(d) /\ AtRest(d) /\ d.status = o.status /\ o.status # "unready"
  BY <1>1, PreparedFits
<1>5. n \in Nat
  BY MSAssumption
<1>6. Struct(o') /\ AtRest(o') /\ o'.status = o.status
  <2>1. o' = [d EXCEPT !.head = NewHead(d, 0, n)] /\ 0 \in Nat
    BY <1>2
  <2> HIDE DEF d
  <2> QED BY <1>4, <1>5, <2>1, HeadedFits
<1> HIDE DEF d
<1>7. Roles(indev, outdev, o') /\ ImageFits(img, o')
  BY <1>3, <1>4, <1>6 DEF Roles, ImageFits
<1> QED BY <1>1, <1>3, <1>6, <1>7, CommandStep DEF xVars

\* The new session of BeginSession: behind its chain, or the first of one.
LEMMA NewSessionFits ==
    ASSUME MSInv, pc = "cmd", HeadKept, MayWrite, NEW ne \in NoEmulToc,
           NEW n \in ImageSizes, NEW d, d = Prepared(ne),
           d.nwa + Padded(n, ne) <= MediumUnits,
           NEW s, s = Len(sess) + 1, NEW h, h = HeadSession,
           sess' = Append(sess, NewSession(d, n, ne))
    PROVE  /\ SessionsInv' /\ s \in Nat /\ Sessions' = Sessions \cup {s}
           /\ s \notin Sessions
           /\ sess'[s].start = d.nwa /\ sess'[s].size = n
           /\ sess'[s].padded > 0
           /\ \A i \in Sessions : /\ sess'[i] = sess[i] /\ Chain(i)' = Chain(i)
                                  /\ Emulated(i)' <=> Emulated(i)
                                  /\ Ends(i)' = Ends(i)
           /\ o.status = "appendable" =>
                /\ HasHeader(1) /\ h \in Sessions /\ Chain(s)' = Chain(h) \cup {s}
                /\ Emulated(s)' <=> Emulated(h)
           /\ o.status # "appendable" =>
                Chain(s)' = {s} /\ (Emulated(s)' <=> d.nwa = 2)
<1> DEFINE kept == IF indev = outdev THEN img.refs ELSE {}
           old == IF d.status = "appendable" THEN sess[h].chain ELSE <<>>
           sound == \A x \in kept \cup Range(old) : Intact(x)
           r == [start |-> d.nwa, size |-> n, padded |-> Padded(n, ne),
                 refs |-> {s} \cup kept, chain |-> old \o <<s>>, sound |-> sound]
<1>1. NewSession(d, n, ne) = r
  BY DEF NewSession
<1>2. sound \in BOOLEAN
  OBVIOUS
<1> HIDE DEF sound
<1>3. /\ Struct(d) /\ AtRest(d) /\ d.status = o.status
      /\ d.status \in {"blank", "appendable"}
      /\ d.status = "appendable" => d.nwa >= 2 /\ d = o
  BY PreparedFits
<1>4. /\ SessionsInv /\ MediumInv /\ ImageType(img, indev) /\ ImageFits(img, o)
      /\ Len(sess) \in Nat /\ s \in Nat
  BY DEF MSInv, DriveInv, SessionsInv
<1>5. kept \subseteq Sessions
  BY <1>4 DEF ImageType
<1>6. d.status = "appendable" => HasHeader(1) /\ h \in Sessions
  BY <1>3, <1>4, HeadFacts DEF AtRest
<1>7. old \in Seq(Nat)
  BY <1>4, <1>6, SessionTypes
<1>8. {s} \cup kept \subseteq 1 .. s
  BY <1>4, <1>5 DEF Sessions
<1>9. n \in Nat /\ Padding \in Nat
  BY MSAssumption
<1>10. Padded(n, ne) \in Nat /\ n <= Padded(n, ne) /\ d.nwa \in Nat
  <2>1. d.nwa \in Nat /\ n + Padding \in Nat /\ n <= n + Padding
    BY <1>3, <1>9 DEF Struct
  <2>2. Aligned(n + Padding) \in Nat /\ n + Padding <= Aligned(n + Padding)
    BY <2>1, AlignedIsAbove
  <2> QED BY <1>9, <2>1, <2>2 DEF Padded
<1>11. old \o <<s>> \in Seq(Nat)
  BY <1>4, <1>7
<1>12. r \in Records
  BY <1>2, <1>8, <1>9, <1>10, <1>11 DEF Records
<1>13. Padded(n, ne) > 0
  <2>1. n \in Nat \ {0}
    BY MSAssumption
  <2> QED BY <2>1, <1>10
<1>14. \/ old = <<>> /\ (r.start = 2 => r.refs \subseteq {s})
       \/ /\ h \in Sessions /\ old = sess[h].chain
          /\ Emulated(h) => /\ r.start >= 2 /\ r.refs \subseteq Chain(h) \cup {s}
                            /\ r.start \in {Ends(h), Aligned(Ends(h))}
  <2>1. CASE d.status = "appendable"
    <3>1. h \in Sessions /\ old = sess[h].chain /\ r.start >= 2
      BY <2>1, <1>3, <1>6
    <3>2. Emulated(h) => kept \subseteq Chain(h) /\ medium[1].n = Ends(h)
      BY <2>1, <1>4, <1>6 DEF ImageFits, EmulatedHead, MediumInv
    <3>3. r.start = Aligned(medium[1].n)
      BY <2>1, <1>3 DEF AtRest
    <3> QED BY <3>1, <3>2, <3>3
  <2>2. CASE d.status = "blank"
    <3>1. old = <<>> /\ kept = {}
      BY <2>2, <1>3, <1>4 DEF ImageFits
    <3> QED BY <3>1
  <2> QED BY <2>1, <2>2, <1>3
<1>15. /\ r.start = d.nwa /\ r.size = n /\ r.padded = Padded(n, ne)
       /\ r.refs \subseteq 1 .. s /\ r.chain = old \o <<s>>
  BY <1>8
<1>16. old = <<>> <=> d.status # "appendable"
  BY <1>4, <1>6, SessionTypes
<1>17. Range(<<>>) = {}
  BY DEF Range
<1> HIDE DEF r, old
<1>18. /\ SessionsInv' /\ s \in Nat /\ Sessions' = Sessions \cup {s} /\ s \notin Sessions
       /\ sess'[s] = r
       /\ \A i \in Sessions : /\ sess'[i] = sess[i] /\ Chain(i)' = Chain(i)
                              /\ Emulated(i)' <=> Emulated(i)
                              /\ Ends(i)' = Ends(i)
       /\ Chain(s)' = Range(old) \cup {s}
       /\ old = <<>> => (Emulated(s)' <=> r.start = 2)
       /\ old # <<>> => (Emulated(s)' <=> Emulated(h))
       /\ old # <<>> => h \in Sessions /\ old = sess[h].chain
  <2>1. s = Len(sess) + 1 /\ sess' = Append(sess, r)
    BY <1>1 DEF r
  <2>2. /\ r.size \in ImageSizes /\ r.size <= r.padded
        /\ r.start + r.padded <= MediumUnits
    BY <1>10, <1>15
  <2>3. SessionsInv /\ Begins(r, s, old, h)
    BY <1>4, <1>7, <1>12, <1>14, <1>15, <2>1, <2>2 DEF Begins
  <2>4. SessionsInv' /\ s \in Nat /\ Sessions' = Sessions \cup {s} /\ s \notin Sessions
    BY <2>3, SessionsGrow
  <2>5. sess'[s] = r
    BY <2>3, SessionsGrow
  <2>6. \A i \in Sessions : /\ sess'[i] = sess[i] /\ Chain(i)' = Chain(i)
                            /\ Emulated(i)' <=> Emulated(i)
                            /\ Ends(i)' = Ends(i)
    BY <2>3, SessionsGrow
  <2>7. /\ Chain(s)' = Range(old) \cup {s}
        /\ old = <<>> => (Emulated(s)' <=> r.start = 2)
        /\ old # <<>> => (Emulated(s)' <=> Emulated(h))
    BY <2>3, SessionsGrow
  <2>8. old # <<>> => h \in Sessions /\ old = sess[h].chain
    BY <2>3 DEF Begins
  <2> QED BY <2>4, <2>5, <2>6, <2>7, <2>8
<1>19. /\ o.status = "appendable" =>
            /\ HasHeader(1) /\ h \in Sessions /\ Chain(s)' = Chain(h) \cup {s}
            /\ Emulated(s)' <=> Emulated(h)
       /\ o.status # "appendable" =>
            Chain(s)' = {s} /\ (Emulated(s)' <=> d.nwa = 2)
  <2>1. CASE o.status = "appendable"
    BY <2>1, <1>3, <1>6, <1>16, <1>18 DEF Chain
  <2>2. CASE o.status # "appendable"
    <3>1. old = <<>>
      BY <2>2, <1>3, <1>16
    <3> QED BY <2>2, <3>1, <1>15, <1>17, <1>18
  <2> QED BY <2>1, <2>2
<1> QED BY <1>13, <1>15, <1>18, <1>19

\* The begin of a session does not touch what is on the medium.
LEMMA MediumOfGrown ==
    ASSUME SessionsInv, MediumInv, medium' = medium, NEW s,
           Sessions' = Sessions \cup {s},
           \A i \in Sessions : /\ sess'[i] = sess[i] /\ Chain(i)' = Chain(i)
                               /\ Emulated(i)' <=> Emulated(i)
                               /\ Ends(i)' = Ends(i)
    PROVE  /\ MediumInv' /\ (EmulatedHead' <=> EmulatedHead)
           /\ \A c \in Sessions : Intact(c)' <=> Intact(c)
           /\ EmulatedHead => /\ HeadSession \in Sessions
                              /\ Chain(HeadSession)' = Chain(HeadSession)
                              /\ Chain(HeadSession) \subseteq Sessions
<1>1. /\ \A u : HasHeader(u)' <=> HasHeader(u)
      /\ HeadSession' = HeadSession
  BY DEF HasHeader, HeadSession
<1>2. HasHeader(1) => HeadSession \in Sessions
  BY HeadFacts
<1>3. EmulatedHead' <=> EmulatedHead
  <2>1. CASE HasHeader(1)
    <3>1. Emulated(HeadSession)' <=> Emulated(HeadSession)
      <4>1. PICK h : h = HeadSession
        OBVIOUS
      <4>2. Emulated(h)' <=> Emulated(h)
        BY <4>1, <2>1, <1>2
      <4>3. sess'[h].chain = sess[h].chain
        BY <4>1, <2>1, <1>2
      <4> QED BY <4>1, <4>2, <1>1 DEF Emulated
    <3> QED BY <3>1, <1>1 DEF EmulatedHead
  <2>2. CASE ~ HasHeader(1)
    BY <2>2, <1>1 DEF EmulatedHead
  <2> QED BY <2>1, <2>2
<1>4. \A c \in Sessions : Intact(c)' <=> Intact(c)
  BY DEF Intact
<1>5. EmulatedHead => /\ HeadSession \in Sessions
                      /\ sess'[HeadSession] = sess[HeadSession]
                      /\ Chain(HeadSession)' = Chain(HeadSession)
                      /\ Chain(HeadSession) \subseteq Sessions
  <2> SUFFICES ASSUME EmulatedHead
               PROVE  /\ HeadSession \in Sessions
                      /\ sess'[HeadSession] = sess[HeadSession]
                      /\ Chain(HeadSession)' = Chain(HeadSession)
                      /\ Chain(HeadSession) \subseteq Sessions
    OBVIOUS
  <2>1. HeadSession \in Sessions
    BY <1>2 DEF EmulatedHead
  <2>2. sess'[HeadSession] = sess[HeadSession]
    BY <2>1
  <2> QED BY <2>1, <2>2, <1>1, SessionTypes DEF Chain
<1>6. MediumInv'
  <2>1. ASSUME EmulatedHead
        PROVE  \A c \in Chain(HeadSession) : Intact(c)' /\ Ends(c)' <= medium[1].n
    <3> SUFFICES ASSUME NEW c \in Chain(HeadSession)
                 PROVE  Intact(c)' /\ Ends(c)' <= medium[1].n
      OBVIOUS
    <3>1. c \in Sessions /\ Intact(c) /\ Ends(c) <= medium[1].n
      BY <2>1, <1>5 DEF MediumInv
    <3> QED BY <3>1, <1>4
  <2>2. EmulatedHead' => \A c \in Chain(HeadSession)' : Intact(c)' /\ Ends(c)' <= medium'[1].n
    BY <2>1, <1>3, <1>5
  <2>3. \A u \in Units : HasHeader(u)' =>
           /\ medium'[u].s \in Sessions' /\ medium'[u].n >= 2
           /\ medium'[u].n = 2 => 2 \in ImageSizes
    BY <1>1 DEF MediumInv
  <2>4. medium' \in [Units -> Cells] /\ ~ HasHeader(0)'
    BY <1>1 DEF MediumInv
  <2>5. EmulatedHead' => medium'[1].n = Ends(HeadSession)'
    BY <1>1, <1>3, <1>5 DEF MediumInv, Ends
  <2> QED BY <2>2, <2>3, <2>4, <2>5 DEF MediumInv
<1> QED BY <1>3, <1>4, <1>5, <1>6

\* The session begins, or its size does not fit.
LEMMA BeginSessionKeeps ==
    ASSUME MSInv, HeadKept, NEW byEnd \in BOOLEAN, BeginSession(byEnd)
    PROVE  MSInv'
<1>1. /\ pc = "cmd" /\ pending /\ MayWrite /\ UNCHANGED <<medium, safe>>
      /\ unit = 0 /\ cur = 0 /\ safe \in 0 .. Len(sess) /\ pending \in BOOLEAN
      /\ ending \in BOOLEAN
  BY DEF BeginSession, MSInv, StepInv
<1>2. PICK n \in ImageSizes, ne \in NoEmulToc :
         LET d == Prepared(ne)
             fits == d.nwa + Padded(n, ne) <= MediumUnits
             s == IF fits THEN Len(sess) + 1 ELSE 0
         IN  IF fits
             THEN /\ sess' = Append(sess, NewSession(d, n, ne))
                  /\ o' = [d EXCEPT !.head = NewHead(d, s, n)]
                  /\ cur' = s /\ pc' = "write" /\ unit' = 0 /\ ending' = byEnd
                  /\ UNCHANGED xVars
             ELSE /\ sess' = sess
                  /\ IF byEnd THEN ProgramEnds
                     ELSE /\ o' = [d EXCEPT !.head = NewHead(d, s, n)]
                          /\ UNCHANGED <<xVars, pc, unit, cur, ending>>
  BY DEF BeginSession
<1>3. PICK d : d = Prepared(ne)
  OBVIOUS
<1>4. /\ Struct(d) /\ AtRest(d) /\ d.status = o.status
      /\ d.status \in {"blank", "appendable"}
      /\ d.status = "appendable" => d.nwa >= 2 /\ d = o
  BY <1>1, <1>3, PreparedFits
<1>5. /\ SessionsInv /\ MediumInv /\ Roles(indev, outdev, o) /\ AtRest(o)
      /\ ImageType(img, indev) /\ ImageFits(img, o) /\ Len(sess) \in Nat
  BY <1>1 DEF MSInv, DriveInv, SessionsInv
<1>6. n \in Nat
  BY MSAssumption
<1>7. CASE ~ (d.nwa + Padded(n, ne) <= MediumUnits)
  <2>1. CASE byEnd
    <3>1. sess' = sess /\ ProgramEnds
      BY <1>2, <1>3, <1>7, <2>1
    <3> QED BY <1>1, <3>1, EndStep
  <2>2. CASE ~ byEnd
    <3>1. /\ sess' = sess /\ o' = [d EXCEPT !.head = NewHead(d, 0, n)]
          /\ UNCHANGED <<xVars, pc, unit, cur, ending>> /\ 0 \in Nat
      BY <1>2, <1>3, <1>7, <2>2
    <3>2. Struct(o') /\ AtRest(o') /\ o'.status = o.status
      BY <1>4, <1>6, <3>1, HeadedFits
    <3>3. Roles(indev, outdev, o') /\ ImageFits(img, o')
      BY <1>4, <1>5, <3>2 DEF Roles, ImageFits
    <3> QED BY <1>1, <1>5, <3>1, <3>2, <3>3, CommandStep DEF xVars
  <2> QED BY <2>1, <2>2
<1>8. CASE d.nwa + Padded(n, ne) <= MediumUnits
  <2>1. PICK s : s = Len(sess) + 1
    OBVIOUS
  <2>2. PICK h : h = HeadSession
    OBVIOUS
  <2>3. /\ sess' = Append(sess, NewSession(d, n, ne))
        /\ o' = [d EXCEPT !.head = NewHead(d, s, n)]
        /\ cur' = s /\ pc' = "write" /\ unit' = 0 /\ ending' = byEnd
        /\ UNCHANGED <<indev, outdev, img, pending>>
    BY <1>2, <1>3, <1>8, <2>1 DEF xVars
  <2>4. /\ SessionsInv' /\ s \in Nat /\ Sessions' = Sessions \cup {s}
        /\ s \notin Sessions
        /\ sess'[s].start = d.nwa /\ sess'[s].size = n
        /\ sess'[s].padded > 0
        /\ \A i \in Sessions : /\ sess'[i] = sess[i] /\ Chain(i)' = Chain(i)
                               /\ Emulated(i)' <=> Emulated(i)
                               /\ Ends(i)' = Ends(i)
        /\ o.status = "appendable" =>
             /\ HasHeader(1) /\ h \in Sessions /\ Chain(s)' = Chain(h) \cup {s}
             /\ Emulated(s)' <=> Emulated(h)
        /\ o.status # "appendable" =>
             Chain(s)' = {s} /\ (Emulated(s)' <=> d.nwa = 2)
    <3>1. /\ MSInv /\ pc = "cmd" /\ HeadKept /\ MayWrite /\ ne \in NoEmulToc
          /\ n \in ImageSizes /\ d = Prepared(ne)
          /\ d.nwa + Padded(n, ne) <= MediumUnits
          /\ s = Len(sess) + 1 /\ h = HeadSession
          /\ sess' = Append(sess, NewSession(d, n, ne))
      BY <1>1, <1>3, <1>8, <2>1, <2>2, <2>3
    <3>2. /\ SessionsInv' /\ s \in Nat /\ Sessions' = Sessions \cup {s}
          /\ s \notin Sessions
      BY <3>1, NewSessionFits
    <3>3. sess'[s].start = d.nwa /\ sess'[s].size = n /\ sess'[s].padded > 0
      BY <3>1, NewSessionFits
    <3>4. \A i \in Sessions : /\ sess'[i] = sess[i] /\ Chain(i)' = Chain(i)
                              /\ Emulated(i)' <=> Emulated(i)
                              /\ Ends(i)' = Ends(i)
      BY <3>1, NewSessionFits
    <3>5. o.status = "appendable" =>
            /\ HasHeader(1) /\ h \in Sessions /\ Chain(s)' = Chain(h) \cup {s}
            /\ Emulated(s)' <=> Emulated(h)
      BY <3>1, NewSessionFits
    <3>6. o.status # "appendable" =>
            Chain(s)' = {s} /\ (Emulated(s)' <=> d.nwa = 2)
      BY <3>1, NewSessionFits
    <3> QED BY <3>2, <3>3, <3>4, <3>5, <3>6
  <2>5. /\ MediumInv' /\ (EmulatedHead' <=> EmulatedHead)
        /\ \A c \in Sessions : Intact(c)' <=> Intact(c)
        /\ EmulatedHead => /\ HeadSession \in Sessions
                           /\ Chain(HeadSession)' = Chain(HeadSession)
                           /\ Chain(HeadSession) \subseteq Sessions
    BY <1>1, <1>5, <2>4, MediumOfGrown
  <2>6. /\ Struct(o') /\ AtRest(o') /\ o'.status = o.status /\ o'.nwa = d.nwa
        /\ o'.zeroNwa = d.zeroNwa
        /\ d.nwa # 0 => o'.head[2] = [k |-> "vd", s |-> s, n |-> d.nwa + n]
    BY <1>4, <1>6, <2>3, <2>4, HeadedFits
  <2>7. medium' = medium /\ (HasHeader(1)' <=> HasHeader(1))
    BY <1>1 DEF HasHeader
  <2>8. ASSUME NEW a, LoadPoint(a) PROVE LoadPoint(a)'
    <3>1. CASE a # 0 /\ EmulatedHead
      <4>1. PICK c \in Chain(HeadSession) : a = sess[c].start
        BY <3>1, <2>8 DEF LoadPoint
      <4>2. c \in Chain(HeadSession)' /\ a = sess'[c].start
        BY <4>1, <3>1, <2>4, <2>5
      <4> QED BY <4>2, <2>7, <2>8, <3>1 DEF LoadPoint
    <3>2. CASE a = 0 \/ ~ EmulatedHead
      BY <3>2, <2>5, <2>7, <2>8 DEF LoadPoint
    <3> QED BY <3>1, <3>2
  <2>9. AtRest(o)'
    <3>1. PICK a : a = o'.msc1
      OBVIOUS
    <3>2. LoadPoint(a)'
      BY <2>6, <2>8, <3>1 DEF AtRest
    <3>3. LoadPoint(o.msc1)'
      BY <3>1, <3>2 DEF LoadPoint
    <3>4. o'.status = "appendable" => o'.toc = o.toc
      BY <1>4, <2>3, <2>6 DEF Struct, NewO
    <3>5. TocFits(o)'
      <4> SUFFICES ASSUME o'.status = "appendable", EmulatedHead'
                   PROVE  LET chain == sess'[HeadSession'].chain
                          IN  o'.toc = [i \in DOMAIN chain |->
                                TocEntry(sess'[chain[i]].start, sess'[chain[i]].size)]
        BY DEF TocFits
      <4>1. HeadSession' = h /\ h \in Sessions /\ Emulated(h) /\ EmulatedHead
        BY <2>2, <2>5, <2>7 DEF HeadSession, EmulatedHead
      <4>2. sess'[h] = sess[h]
        BY <2>4, <4>1
      <4>3. PICK c : c = sess[h].chain
        OBVIOUS
      <4>4. \A i \in DOMAIN c : sess'[c[i]] = sess[c[i]]
        BY <1>5, <2>4, <4>1, <4>3, EmulatedChain DEF Chain, Range
      <4>5. o.toc = [i \in DOMAIN c |-> TocEntry(sess[c[i]].start, sess[c[i]].size)]
        BY <1>5, <2>2, <2>6, <4>1, <4>3 DEF AtRest, TocFits
      <4>6. [i \in DOMAIN c |-> TocEntry(sess[c[i]].start, sess[c[i]].size)]
              = [i \in DOMAIN c |-> TocEntry(sess'[c[i]].start, sess'[c[i]].size)]
        BY <4>4
      <4> QED BY <3>4, <4>1, <4>2, <4>3, <4>5, <4>6
    <3> QED BY <2>5, <2>6, <2>7, <3>3, <3>5 DEF AtRest
  <2>10. ImageType(img, indev)' /\ ImageFits(img, o)'
    BY <1>5, <2>3, <2>4, <2>5, <2>6 DEF ImageType, ImageFits
  <2>11. Struct(o)' /\ Roles(indev, outdev, o)'
    BY <1>4, <1>5, <2>3, <2>6 DEF Struct, Roles
  <2>12. DriveInv'
    BY <2>9, <2>10, <2>11 DEF DriveInv
  <2>13. StepInv'
    <3>1. safe' \in 0 .. Len(sess') /\ Len(sess') = s
      BY <1>1, <1>5, <2>1, <2>3 DEF SessionsInv
    <3>2. outdev' = "disc" /\ s # 0 /\ s \in Nat
      BY <1>1, <1>5, <2>1, <2>3 DEF MayWrite
    <3>3. pending' \in BOOLEAN /\ ending' \in BOOLEAN
      BY <1>1, <2>3
    <3> QED BY <2>3, <3>1, <3>2, <3>3 DEF StepInv
  <2>14. ASSUME Emulated(s)'
         PROVE  \A c \in Chain(s)' \ {s} : Intact(c)' /\ Ends(c)' <= d.nwa
    <3>1. CASE o.status = "appendable"
      <4>1. /\ HasHeader(1) /\ h \in Sessions /\ Chain(s)' = Chain(h) \cup {s}
            /\ Emulated(h)
        BY <2>4, <2>14, <3>1
      <4>2. EmulatedHead
        BY <4>1, <2>2 DEF EmulatedHead
      <4>3. \A c \in Chain(h) : Intact(c) /\ Ends(c) <= medium[1].n /\ c \in Sessions
        BY <4>2, <2>2, <2>5, <1>5 DEF MediumInv
      <4>4. medium[1].n \in Nat /\ d.nwa = Aligned(medium[1].n)
        BY <1>4, <1>5, <3>1, <4>1, HeadFacts DEF AtRest
      <4>5. medium[1].n <= d.nwa /\ d.nwa \in Nat
        BY <4>4, AlignedIsAbove
      <4> SUFFICES ASSUME NEW c \in Chain(h) PROVE Intact(c)' /\ Ends(c)' <= d.nwa
        BY <4>1
      <4>6. /\ Intact(c)' /\ Ends(c)' = Ends(c) /\ Ends(c) \in Nat
            /\ Ends(c) <= medium[1].n
        BY <4>3, <2>4, <2>5, <1>5, SessionTypes
      <4> QED BY <4>4, <4>5, <4>6
    <3>2. CASE o.status # "appendable"
      BY <2>4, <3>2
    <3> QED BY <3>1, <3>2
  <2>15. CASE d.status = "appendable" \/ d.zeroNwa > 0
    <3>1. NeedsActivation'
      BY <1>4, <2>6, <2>15 DEF NeedsActivation
    <3>2. d.nwa >= 2 /\ d.nwa \in Nat
      BY <1>4, <2>15 DEF AtRest, Struct
    <3>3. o'.head[2] = [k |-> "vd", s |-> s, n |-> Ends(s)']
      BY <2>4, <2>6, <3>2 DEF Ends
    <3>4. \A i \in 0 .. sess'[s].size - 1 : ~ Written(i)'
      BY <1>6, <2>3, <2>4 DEF Written
    <3>5. WritingFits'
      BY <1>4, <2>3, <2>4, <2>6, <2>14, <3>1, <3>2, <3>3, <3>4
         DEF WritingFits, Ends
    <3> QED BY <2>4, <2>5, <2>12, <2>13, <3>5 DEF MSInv, WritingInv
  <2>16. CASE ~ (d.status = "appendable" \/ d.zeroNwa > 0)
    <3>1. d.status = "blank" /\ d.zeroNwa = 0 /\ d.nwa = 0
      BY <1>4, <2>16 DEF AtRest, Struct
    <3>2. ~ NeedsActivation' /\ ~ Emulated(s)' /\ o'.nwa = 0 /\ o'.status = "blank"
      BY <1>4, <2>4, <2>6, <3>1 DEF NeedsActivation
    <3>3. WritingFits'
      BY <2>3, <2>4, <3>1, <3>2 DEF WritingFits, Emulated
    <3> QED BY <2>4, <2>5, <2>12, <2>13, <3>3 DEF MSInv, WritingInv
  <2> QED BY <2>15, <2>16
<1> QED BY <1>7, <1>8

\* A unit gets written behind the chain of the head.
LEMMA WriteUnitKeeps ==
    ASSUME MSInv, WriteUnit
    PROVE  MSInv'
<1>1. /\ pc = "write" /\ cur # 0 /\ outdev = "disc" /\ unit \in Nat
      /\ UNCHANGED <<sess, safe, indev, outdev, img, pending, o, cur, ending>>
  BY DEF WriteUnit, MSInv, StepInv, xVars
<1>2. PICK s : s = cur
  OBVIOUS
<1>3. /\ SessionsInv /\ MediumInv /\ AtRest(o) /\ ImageFits(img, o) /\ WritingFits
      /\ Struct(o) /\ s \in Sessions /\ o.nwa = sess[s].start
      /\ unit < sess[s].padded /\ o.status \in {"blank", "appendable"}
  BY <1>1, <1>2 DEF MSInv, DriveInv, WritingInv, WritingFits
<1>4. /\ sess[s].start \in Nat /\ sess[s].size \in Nat /\ sess[s].padded \in Nat
      /\ sess[s].size >= 2 /\ sess[s].size <= sess[s].padded
      /\ sess[s].start + sess[s].padded <= MediumUnits
      /\ sess[s].size \in ImageSizes /\ s \in Nat
  BY <1>3, SessionTypes DEF SessionFits, Sessions
<1>5. PICK a : a = sess[s].start + unit
  OBVIOUS
<1>6. PICK y : y = IF unit < sess[s].size THEN SessionCell(s, sess[s].size, unit) ELSE Zero
  OBVIOUS
<1>7. a \in Units /\ a \in Nat /\ MediumUnits \in Nat
  BY <1>1, <1>3, <1>4, <1>5, MSAssumption DEF Units
<1>8. medium' = [medium EXCEPT ![a] = y] /\ medium \in [Units -> Cells]
  BY <1>2, <1>3, <1>5, <1>6 DEF WriteUnit, MediumInv
<1>9. /\ y \in Cells
      /\ y.k = "vd" => unit = 1
      /\ unit = 1 => y = [k |-> "vd", s |-> s, n |-> sess[s].size]
  BY <1>1, <1>4, <1>6 DEF SessionCell, Zero, Cells
<1>10. /\ medium' \in [Units -> Cells] /\ medium'[a] = y
       /\ \A u \in Units \ {a} : medium'[u] = medium[u]
  BY <1>7, <1>8, <1>9
<1>11. Sessions' = Sessions /\ SessionsInv'
  BY <1>1, <1>3, SessionsStay
<1>12. ~ HasHeader(0)'
  <2>1. CASE a = 0
    BY <2>1, <1>1, <1>4, <1>5, <1>9, <1>10 DEF HasHeader
  <2>2. CASE a # 0
    BY <2>2, <1>3, <1>10 DEF HasHeader, MediumInv
  <2> QED BY <2>1, <2>2
<1>13. \A u \in Units : HasHeader(u)' =>
         /\ medium'[u].s \in Sessions' /\ medium'[u].n >= 2
         /\ medium'[u].n = 2 => 2 \in ImageSizes
  <2> SUFFICES ASSUME NEW u \in Units, HasHeader(u)'
               PROVE  /\ medium'[u].s \in Sessions /\ medium'[u].n >= 2
                      /\ medium'[u].n = 2 => 2 \in ImageSizes
    BY <1>11
  <2>1. CASE u = a
    <3>1. medium'[u] = [k |-> "vd", s |-> s, n |-> sess[s].size]
      BY <2>1, <1>9, <1>10 DEF HasHeader
    <3> QED BY <3>1, <1>3, <1>4
  <2>2. CASE u # a
    <3>1. HasHeader(u) /\ medium'[u] = medium[u]
      BY <2>2, <1>10 DEF HasHeader
    <3> QED BY <3>1, <1>3 DEF MediumInv
  <2> QED BY <2>1, <2>2
<1>14. /\ Emulated(s)' <=> Emulated(s)
       /\ \A c : Chain(c)' = Chain(c) /\ Ends(c)' = Ends(c)
  BY <1>1 DEF Emulated, Chain, Ends
<1>15. ASSUME NEW c \in Sessions, Intact(c), sess[c].start >= 2,
              Ends(c) <= sess[s].start
       PROVE  Intact(c)'
  <2>1. /\ sess[c].start \in Nat /\ sess[c].size \in Nat /\ Ends(c) \in Nat
        /\ Ends(c) <= MediumUnits /\ Ends(c) = sess[c].start + sess[c].size
    BY SessionTypes, <1>3 DEF Ends
  <2>2. ASSUME NEW u \in sess[c].start .. Ends(c) - 1 PROVE medium'[u] = medium[u]
    <3>1. u \in Units /\ u # a
      BY <1>1, <1>4, <1>5, <1>7, <1>15, <2>1 DEF Units
    <3> QED BY <3>1, <1>10
  <2> QED BY <1>1, <1>15, <2>1, <2>2, IntactStays
<1>16. unit + 1 < sess[s].padded => unit' = unit + 1 /\ pc' = "write"
  BY <1>1, <1>2 DEF WriteUnit
<1>17. ~ (unit + 1 < sess[s].padded) => unit' = 0 /\ pc' = "wrote"
  BY <1>1, <1>2 DEF WriteUnit
<1>18. pc' \in {"write", "wrote"} /\ unit' \in Nat /\ (pc' = "wrote" => unit' = 0)
  BY <1>1, <1>16, <1>17
<1>19. StepInv'
  <2>1. safe' \in 0 .. Len(sess') /\ pending' \in BOOLEAN /\ ending' \in BOOLEAN
    BY <1>1 DEF MSInv, StepInv
  <2> QED BY <1>1, <1>18, <2>1 DEF StepInv
<1>20. Struct(o)' /\ Roles(indev, outdev, o)' /\ ImageType(img, indev)'
  BY <1>1, <1>11 DEF MSInv, DriveInv, Struct, Roles, ImageType
<1>21. /\ cur' = s /\ sess' = sess /\ o' = o /\ (Emulated(cur)' <=> Emulated(s))
       /\ Chain(cur)' = Chain(s) /\ Ends(cur)' = Ends(s)
       /\ pc' = "write" => unit' < sess[s].padded
  BY <1>1, <1>2, <1>16, <1>17 DEF Chain, Ends, Emulated
<1>22. CASE NeedsActivation
  <2>1. /\ sess[s].start >= 2 /\ a >= 2
        /\ \A i \in 0 .. sess[s].size - 1 : i < unit =>
               medium[sess[s].start + i] = SessionCell(s, sess[s].size, i)
        /\ o.head[2] = [k |-> "vd", s |-> s, n |-> Ends(s)]
        /\ Emulated(s) => \A c \in Chain(s) \ {s} :
                            Intact(c) /\ Ends(c) <= sess[s].start
    BY <1>1, <1>2, <1>3, <1>4, <1>5, <1>22 DEF WritingFits, Written
  <2>2. medium'[1] = medium[1] /\ (HasHeader(1)' <=> HasHeader(1))
        /\ (EmulatedHead' <=> EmulatedHead) /\ HeadSession' = HeadSession
        /\ Chain(HeadSession)' = Chain(HeadSession)
        /\ Ends(HeadSession)' = Ends(HeadSession)
    <3>1. 1 \in Units /\ 1 # a
      BY <2>1, <1>7, MSAssumption DEF Units
    <3>2. medium'[1] = medium[1]
      BY <3>1, <1>10
    <3> QED BY <3>2, <1>1 DEF HasHeader, EmulatedHead, HeadSession, Emulated, Chain, Ends
  <2>3. ASSUME EmulatedHead
        PROVE  \A c \in Chain(HeadSession) : Intact(c)' /\ Ends(c) <= medium[1].n
    <3>1. o.status = "appendable"
      BY <2>1, <2>3, <1>3 DEF AtRest, EmulatedHead
    <3>2. /\ HasHeader(1) /\ HeadSession \in Sessions /\ medium[1].n \in Nat
          /\ o.nwa = Aligned(medium[1].n) /\ Emulated(HeadSession)
      BY <3>1, <2>3, <1>3, HeadFacts DEF AtRest, EmulatedHead
    <3>3. medium[1].n <= sess[s].start
      BY <3>2, <1>3, AlignedIsAbove
    <3> SUFFICES ASSUME NEW c \in Chain(HeadSession)
                 PROVE  Intact(c)' /\ Ends(c) <= medium[1].n
      OBVIOUS
    <3>4. Intact(c) /\ Ends(c) <= medium[1].n
      BY <2>3, <1>3 DEF MediumInv
    <3>5. c \in Sessions /\ sess[c].start >= 2 /\ Ends(c) \in Nat
      BY <1>3, <3>2, EmulatedChain, SessionTypes
    <3> QED BY <1>4, <1>15, <3>2, <3>3, <3>4, <3>5
  <2>4. MediumInv'
    <3>1. EmulatedHead => medium'[1].n = Ends(HeadSession)'
      BY <1>3, <2>2 DEF MediumInv
    <3> QED BY <1>10, <1>12, <1>13, <1>14, <2>2, <2>3, <3>1 DEF MediumInv
  <2>5. AtRest(o)' /\ ImageFits(img, o)'
    BY <1>1, <1>3, <2>2 DEF AtRest, ImageFits, LoadPoint, TocFits
  <2>6. \A i \in 0 .. sess[s].size - 1 : Written(i)' =>
            medium'[sess[s].start + i] = SessionCell(s, sess[s].size, i)
    <3> SUFFICES ASSUME NEW i \in 0 .. sess[s].size - 1, Written(i)'
                 PROVE  medium'[sess[s].start + i] = SessionCell(s, sess[s].size, i)
      OBVIOUS
    <3>1. i <= unit
      BY <1>1, <1>4, <1>16, <1>17 DEF Written
    <3>2. CASE i = unit
      <4>1. unit < sess[s].size
        BY <3>2, <1>4
      <4> QED BY <4>1, <3>2, <1>5, <1>6, <1>10
    <3>3. CASE i # unit
      <4>1. i < unit /\ sess[s].start + i \in Units \ {a}
        BY <3>1, <3>3, <1>1, <1>4, <1>5, <1>7 DEF Units
      <4> QED BY <4>1, <2>1, <1>10
    <3> QED BY <3>2, <3>3
  <2>7. Emulated(s) => \A c \in Chain(s) \ {s} : Intact(c)' /\ Ends(c) <= sess[s].start
    <3> SUFFICES ASSUME Emulated(s), NEW c \in Chain(s) \ {s}
                 PROVE  Intact(c)' /\ Ends(c) <= sess[s].start
      OBVIOUS
    <3>1. c \in Sessions /\ sess[c].start >= 2 /\ Intact(c) /\ Ends(c) <= sess[s].start
      BY <1>3, <2>1, EmulatedChain
    <3> QED BY <3>1, <1>15
  <2>8. NeedsActivation'
    BY <1>1, <1>22 DEF NeedsActivation
  <2>9. WritingFits'
    <3>1. /\ cur' \in Sessions' /\ o'.status \in {"blank", "appendable"}
          /\ o'.nwa = sess'[cur'].start
          /\ pc' = "write" => unit' < sess'[cur'].padded
      BY <1>21, <1>3, <1>11
    <3>2. /\ o'.nwa >= 2
          /\ \A i \in 0 .. sess'[cur'].size - 1 : Written(i)' =>
                medium'[sess'[cur'].start + i] = SessionCell(cur', sess'[cur'].size, i)
          /\ o'.head[2] = [k |-> "vd", s |-> cur', n |-> Ends(cur)']
      BY <1>21, <1>3, <2>1, <2>6
    <3>3. Emulated(cur)' => \A c \in Chain(cur)' \ {cur'} :
                              Intact(c)' /\ Ends(c)' <= sess'[cur'].start
      BY <1>21, <1>14, <2>7
    <3>4. ~ (pc' = "wrote" /\ unit' = 2)
      BY <1>18
    <3> QED BY <2>8, <3>1, <3>2, <3>3, <3>4 DEF WritingFits
  <2> QED BY <1>11, <1>19, <1>20, <2>4, <2>5, <2>9 DEF MSInv, DriveInv, WritingInv
<1>23. CASE ~ NeedsActivation
  <2>1. o.status = "blank" /\ o.nwa = 0 /\ ~ Emulated(s) /\ sess[s].start = 0
    BY <1>2, <1>3, <1>23 DEF WritingFits
  <2>2. ~ EmulatedHead
    BY <2>1, <1>3 DEF AtRest, EmulatedHead
  <2>3. ~ EmulatedHead'
    <3>1. CASE unit = 1
      <4>1. a = 1
        BY <3>1, <2>1, <1>5
      <4>2. medium'[1] = [k |-> "vd", s |-> s, n |-> sess[s].size]
        BY <4>1, <3>1, <1>9, <1>10
      <4>3. HeadSession' = s
        BY <4>2 DEF HeadSession
      <4> QED BY <4>3, <2>1, <1>1 DEF EmulatedHead, Emulated
    <3>2. CASE unit # 1
      <4>1. 1 \in Units /\ 1 # a
        BY <3>2, <2>1, <1>1, <1>5, MSAssumption DEF Units
      <4>2. medium'[1] = medium[1]
        BY <4>1, <1>10
      <4> QED BY <4>2, <2>2, <1>1 DEF EmulatedHead, Emulated, HasHeader, HeadSession
    <3> QED BY <3>1, <3>2
  <2>4. MediumInv'
    BY <1>10, <1>12, <1>13, <2>3 DEF MediumInv
  <2>5. AtRest(o)' /\ ImageFits(img, o)'
    BY <1>1, <1>3, <2>1, <2>3 DEF AtRest, ImageFits, LoadPoint, TocFits
  <2>6. ~ NeedsActivation'
    BY <1>1, <1>23 DEF NeedsActivation
  <2>7. WritingFits'
    BY <1>21, <1>3, <1>11, <2>1, <2>6 DEF WritingFits
  <2> QED BY <1>11, <1>19, <1>20, <2>4, <2>5, <2>7 DEF MSInv, DriveInv, WritingInv
<1> QED BY <1>22, <1>23

LEMMA WriteFailsKeeps ==
    ASSUME MSInv, WriteFails
    PROVE  MSInv'
<1>1. /\ pc = "write" /\ UNCHANGED <<medium, sess, safe>>
      /\ safe \in 0 .. Len(sess) /\ pending \in BOOLEAN /\ ending \in BOOLEAN
  BY DEF WriteFails, MSInv, StepInv
<1>2. CASE ending
  BY <1>1, <1>2, EndStep DEF WriteFails
<1>3. CASE ~ ending
  <2>1. /\ pc' = "cmd" /\ unit' = 0 /\ cur' = 0
        /\ UNCHANGED <<indev, outdev, img, pending, o, ending>>
    BY <1>3 DEF WriteFails, xVars
  <2>2. /\ Struct(o) /\ AtRest(o) /\ Roles(indev, outdev, o)
        /\ ImageType(img, indev) /\ ImageFits(img, o)
    BY <1>1 DEF MSInv, DriveInv
  <2> QED BY <1>1, <2>1, <2>2, CommandStep
<1> QED BY <1>2, <1>3

LEMMA ProgramEndsKeeps ==
    ASSUME MSInv, RefuseSession \/ ActivateFails \/ Crash
    PROVE  MSInv'
<1>1. UNCHANGED <<medium, sess, safe>> /\ ProgramEnds
  BY DEF RefuseSession, ActivateFails, Crash
<1>2. safe' \in 0 .. Len(sess)
  BY <1>1 DEF MSInv, StepInv
<1> QED BY <1>1, <1>2, EndStep

LEMMA SessionDoneKeeps ==
    ASSUME MSInv, SessionDone
    PROVE  MSInv'
<1>1. /\ pc = "wrote" /\ UNCHANGED <<medium, sess>> /\ safe' = cur /\ cur \in Sessions
      /\ outdev = "disc" /\ ending \in BOOLEAN
  BY DEF SessionDone, MSInv, StepInv, WritingInv, WritingFits
<1>2. safe' \in 0 .. Len(sess)
  BY <1>1 DEF Sessions
<1>3. /\ SessionsInv /\ MediumInv /\ ImageType(img, indev)
      /\ indev \in {"none", "disc", "other"}
  BY DEF MSInv, DriveInv, Roles
<1>4. CASE ending
  BY <1>1, <1>2, <1>4, EndStep DEF SessionDone
<1>5. CASE ~ ending
  <2>1. pending' = FALSE /\ Reacquire(TRUE) /\ unit' = 0 /\ cur' = 0 /\ ending' = FALSE
    BY <1>5 DEF SessionDone
  <2>2. /\ pc' = "cmd" /\ Struct(o') /\ AtRest(o') /\ Roles(indev', outdev', o')
        /\ ImageType(img', indev') /\ ImageFits(img', o')
    BY <1>1, <1>3, <2>1, ReacquireFits
  <2>3. pending' \in BOOLEAN /\ ending' \in BOOLEAN
    BY <2>1
  <2> QED BY <1>1, <1>2, <2>1, <2>2, <2>3, CommandStep
<1> QED BY <1>4, <1>5

LEMMA StartKeeps ==
    ASSUME MSInv, Start
    PROVE  MSInv'
<1>1. /\ pc' = "cmd" /\ unit' = 0 /\ cur' = 0 /\ safe' \in 0 .. Len(sess)
      /\ ending' \in BOOLEAN /\ pending' \in BOOLEAN
      /\ indev = "none" /\ outdev = "none"
      /\ UNCHANGED <<medium, sess, indev, outdev, img, o>>
  BY DEF Start, MSInv, StepInv, xVars
<1>2. Struct(o) /\ Roles(indev, outdev, o) /\ ImageType(img, indev)
  BY DEF MSInv, DriveInv
<1>3. o = NewO /\ img.refs = {}
  BY <1>1, <1>2 DEF Roles, ImageType
<1>4. AtRest(o) /\ ImageFits(img, o)
  BY <1>3, NewOFits DEF ImageFits
<1> QED BY <1>1, <1>2, <1>4, CommandStep

\* A unit of the head gets replaced, by something which is no header.
LEMMA HeadUnitWritten ==
    ASSUME SessionsInv, MediumInv, NEW u \in {0, 1}, NEW y \in Cells, y.k # "vd",
           medium' = [medium EXCEPT ![u] = y], sess' = sess
    PROVE  MediumInv'
<1>1. /\ 0 \in Units /\ 1 \in Units /\ medium \in [Units -> Cells]
      /\ MediumUnits \in Nat
  BY MSAssumption DEF Units, MediumInv
<1>2. /\ medium' \in [Units -> Cells] /\ medium'[u] = y
      /\ \A v \in Units \ {u} : medium'[v] = medium[v]
  BY <1>1
<1>3. \A v \in Units : HasHeader(v)' => HasHeader(v) /\ v # u /\ medium'[v] = medium[v]
  BY <1>2 DEF HasHeader
<1>4. ~ HasHeader(0)'
  BY <1>1, <1>3 DEF MediumInv
<1>5. \A v \in Units : HasHeader(v)' =>
         /\ medium'[v].s \in Sessions' /\ medium'[v].n >= 2
         /\ medium'[v].n = 2 => 2 \in ImageSizes
  <2>1. Sessions' = Sessions
    BY DEF Sessions
  <2> QED BY <2>1, <1>3 DEF MediumInv
<1>6. ASSUME EmulatedHead'
      PROVE  /\ medium'[1].n = Ends(HeadSession)'
             /\ \A c \in Chain(HeadSession)' : Intact(c)' /\ Ends(c)' <= medium'[1].n
  <2>1. HasHeader(1) /\ 1 # u /\ medium'[1] = medium[1]
    BY <1>1, <1>3, <1>6 DEF EmulatedHead
  <2>2. EmulatedHead /\ HeadSession' = HeadSession
        /\ Chain(HeadSession)' = Chain(HeadSession)
        /\ Ends(HeadSession)' = Ends(HeadSession) /\ medium[1].n = Ends(HeadSession)
    BY <1>6, <2>1 DEF EmulatedHead, Emulated, HeadSession, Chain, Ends, MediumInv
  <2>3. HeadSession \in Sessions /\ Emulated(HeadSession)
    BY <2>1, <2>2, HeadFacts DEF EmulatedHead
  <2> SUFFICES ASSUME NEW c \in Chain(HeadSession)
               PROVE  Intact(c)' /\ Ends(c)' <= medium'[1].n
    BY <2>1, <2>2
  <2>4. Intact(c) /\ Ends(c) <= medium[1].n
    BY <2>2 DEF MediumInv
  <2>5. c \in Sessions /\ sess[c].start >= 2
    BY <2>3, EmulatedChain
  <2>6. /\ sess[c].start \in Nat /\ sess[c].size \in Nat
        /\ Ends(c) <= MediumUnits /\ Ends(c) = sess[c].start + sess[c].size
    BY <2>5, SessionTypes DEF Ends
  <2>7. ASSUME NEW v \in sess[c].start .. Ends(c) - 1 PROVE medium'[v] = medium[v]
    <3>1. v \in Units /\ v # u
      BY <1>1, <2>5, <2>6 DEF Units
    <3> QED BY <3>1, <1>2
  <2>8. Intact(c)'
    BY <2>4, <2>5, <2>6, <2>7, IntactStays
  <2> QED BY <2>1, <2>4, <2>8 DEF Ends
<1> QED BY <1>2, <1>4, <1>5, <1>6 DEF MediumInv

\* The head comes to name the new session, of which all units are written.
LEMMA ActivateUnitKeeps ==
    ASSUME MSInv, ActivateUnit
    PROVE  MSInv'
<1>1. /\ pc = "wrote" /\ NeedsActivation /\ unit \in {0, 1}
      /\ UNCHANGED <<sess, safe, indev, outdev, img, pending, o, pc, cur, ending>>
      /\ medium' = [medium EXCEPT ![unit] = o.head[unit + 1]] /\ unit' = unit + 1
  BY DEF ActivateUnit, MSInv, StepInv, xVars
<1>2. PICK s : s = cur
  OBVIOUS
<1>3. /\ SessionsInv /\ MediumInv /\ WritingFits /\ Struct(o) /\ s \in Sessions
      /\ o.nwa = sess[s].start /\ o.nwa >= 2
      /\ o.head[2] = [k |-> "vd", s |-> s, n |-> Ends(s)]
      /\ o.status \in {"blank", "appendable"}
  BY <1>1, <1>2 DEF MSInv, DriveInv, WritingInv, WritingFits
<1>4. /\ \A i \in 0 .. sess[s].size - 1 :
            medium[sess[s].start + i] = SessionCell(s, sess[s].size, i)
      /\ Emulated(s) => \A c \in Chain(s) \ {s} : Intact(c) /\ Ends(c) <= sess[s].start
  BY <1>1, <1>2, <1>3 DEF WritingFits, Written
<1>5. /\ sess[s].start \in Nat /\ sess[s].size \in Nat /\ sess[s].size >= 2
      /\ sess[s].start >= 2 /\ Ends(s) = sess[s].start + sess[s].size
      /\ Ends(s) \in Nat /\ s \in Nat
  BY <1>3, SessionTypes DEF SessionFits, Ends, Sessions
<1>6. /\ 0 \in Units /\ 1 \in Units /\ medium \in [Units -> Cells]
      /\ MediumUnits \in Nat
  BY <1>3, MSAssumption DEF Units, MediumInv
<1>7. o.head[1] \in Cells /\ o.head[1].k # "vd" /\ o.head[2] \in Cells
  BY <1>3 DEF Struct
<1>8. /\ medium' \in [Units -> Cells]
      /\ \A u \in Units : u >= 2 => medium'[u] = medium[u]
      /\ unit = 0 => medium'[1] = medium[1]
      /\ unit = 1 => medium'[1] = o.head[2] /\ medium'[0] = medium[0]
  <2>1. CASE unit = 0
    BY <2>1, <1>1, <1>6, <1>7
  <2>2. CASE unit = 1
    BY <2>2, <1>1, <1>6, <1>7
  <2> QED BY <1>1, <2>1, <2>2
<1>9. ASSUME NEW c \in Sessions, sess[c].start >= 2, Intact(c)
      PROVE  Intact(c)'
  <2>1. /\ sess[c].start \in Nat /\ sess[c].size \in Nat
        /\ Ends(c) <= MediumUnits /\ Ends(c) = sess[c].start + sess[c].size
    BY <1>3, SessionTypes DEF Ends
  <2>2. ASSUME NEW u \in sess[c].start .. Ends(c) - 1 PROVE medium'[u] = medium[u]
    <3>1. u \in Units /\ u >= 2
      BY <1>6, <1>9, <2>1 DEF Units
    <3> QED BY <3>1, <1>8
  <2> QED BY <1>1, <1>9, <2>1, <2>2, IntactStays
<1>10. Intact(s) /\ (Emulated(s) => \A c \in Chain(s) :
                       c \in Sessions /\ sess[c].start >= 2 /\ Intact(c) /\ Ends(c) <= Ends(s))
  <2>1. Intact(s)
    BY <1>4 DEF Intact
  <2> SUFFICES ASSUME Emulated(s), NEW c \in Chain(s)
               PROVE  c \in Sessions /\ sess[c].start >= 2 /\ Intact(c) /\ Ends(c) <= Ends(s)
    BY <2>1
  <2>2. c \in Sessions /\ sess[c].start >= 2 /\ Ends(c) \in Nat
    BY <1>3, EmulatedChain, SessionTypes
  <2>3. CASE c = s
    BY <2>1, <2>2, <2>3
  <2>4. CASE c # s
    <3>1. Intact(c) /\ Ends(c) <= sess[s].start
      BY <1>4, <2>4
    <3> QED BY <1>5, <2>2, <3>1
  <2> QED BY <2>3, <2>4
<1>11. Sessions' = Sessions /\ SessionsInv'
  BY <1>1, <1>3, SessionsStay
<1>12. /\ cur' = s /\ sess' = sess /\ o' = o /\ (Emulated(cur)' <=> Emulated(s))
       /\ Chain(cur)' = Chain(s) /\ Ends(cur)' = Ends(s) /\ (Emulated(s)' <=> Emulated(s))
       /\ Chain(s)' = Chain(s) /\ \A c : Ends(c)' = Ends(c)
  BY <1>1, <1>2 DEF Chain, Ends, Emulated
<1>13. MediumInv'
  <2>1. CASE unit = 0
    <3>1. medium' = [medium EXCEPT ![0] = o.head[1]]
      BY <2>1, <1>1
    <3> QED BY <3>1, <1>1, <1>3, <1>7, HeadUnitWritten
  <2>2. CASE unit = 1
    <3>1. /\ medium'[1] = [k |-> "vd", s |-> s, n |-> Ends(s)] /\ HeadSession' = s
          /\ medium'[0] = medium[0] /\ Ends(s) >= 4
      BY <2>2, <1>3, <1>5, <1>8 DEF HeadSession
    <3>2. ~ HasHeader(0)'
      BY <3>1, <1>3 DEF HasHeader, MediumInv
    <3>3. \A u \in Units : HasHeader(u)' =>
            /\ medium'[u].s \in Sessions' /\ medium'[u].n >= 2
            /\ medium'[u].n = 2 => 2 \in ImageSizes
      <4> SUFFICES ASSUME NEW u \in Units, HasHeader(u)'
                   PROVE  /\ medium'[u].s \in Sessions /\ medium'[u].n >= 2
                          /\ medium'[u].n = 2 => 2 \in ImageSizes
        BY <1>11
      <4>1. CASE u = 1
        <5>1. medium'[u].s = s /\ medium'[u].n = Ends(s)
          BY <3>1, <4>1
        <5> QED BY <5>1, <3>1, <1>3, <1>5
      <4>2. CASE u >= 2
        <5>1. HasHeader(u) /\ medium'[u] = medium[u]
          BY <4>2, <1>8 DEF HasHeader
        <5> QED BY <5>1, <1>3 DEF MediumInv
      <4>3. u # 0
        BY <3>2
      <4> QED BY <4>1, <4>2, <4>3, <1>6 DEF Units
    <3>4. EmulatedHead' =>
            /\ medium'[1].n = Ends(HeadSession)'
            /\ \A c \in Chain(HeadSession)' : Intact(c)' /\ Ends(c)' <= medium'[1].n
      <4> SUFFICES ASSUME EmulatedHead'
                   PROVE  /\ medium'[1].n = Ends(HeadSession)'
                          /\ \A c \in Chain(HeadSession)' : Intact(c)' /\ Ends(c)' <= medium'[1].n
        OBVIOUS
      <4>1. Emulated(s) /\ Chain(HeadSession)' = Chain(s)
        BY <3>1, <1>1 DEF EmulatedHead, Emulated, Chain
      <4>2. medium'[1].n = Ends(s) /\ Ends(HeadSession)' = Ends(s)
        BY <3>1, <1>1 DEF Ends
      <4> SUFFICES ASSUME NEW c \in Chain(s)
                   PROVE  Intact(c)' /\ Ends(c)' <= medium'[1].n
        BY <4>1, <4>2
      <4> QED BY <4>1, <4>2, <1>9, <1>10, <1>12
    <3> QED BY <1>8, <3>2, <3>3, <3>4 DEF MediumInv
  <2> QED BY <1>1, <2>1, <2>2
<1>14. DriveInv'
  BY <1>1, <1>11 DEF MSInv, DriveInv, Struct, Roles, ImageType
<1>15. StepInv'
  <2>1. unit' \in Nat /\ unit' <= 2
    BY <1>1
  <2>2. /\ safe \in 0 .. Len(sess) /\ pending \in BOOLEAN /\ ending \in BOOLEAN
        /\ outdev = "disc" /\ cur # 0
    BY <1>1 DEF MSInv, StepInv
  <2> QED BY <1>1, <2>1, <2>2 DEF StepInv
<1>16. WritingFits'
  <2>1. NeedsActivation'
    BY <1>1 DEF NeedsActivation
  <2>2. /\ cur' \in Sessions' /\ o'.status \in {"blank", "appendable"}
        /\ o'.nwa = sess'[cur'].start /\ pc' # "write" /\ o'.nwa >= 2
        /\ o'.head[2] = [k |-> "vd", s |-> cur', n |-> Ends(cur)']
    BY <1>1, <1>3, <1>11, <1>12
  <2>3. \A i \in 0 .. sess'[cur'].size - 1 :
           medium'[sess'[cur'].start + i] = SessionCell(cur', sess'[cur'].size, i)
    <3>1. Intact(s)'
      BY <1>3, <1>5, <1>9, <1>10
    <3>2. sess'[s].start # 0 /\ sess'[s] = sess[s]
      BY <1>5, <1>12
    <3> QED BY <3>1, <3>2, <1>12 DEF Intact
  <2>4. Emulated(cur)' => \A c \in Chain(cur)' \ {cur'} :
                            Intact(c)' /\ Ends(c)' <= sess'[cur'].start
    BY <1>4, <1>9, <1>10, <1>12
  <2>5. unit' = 2 => medium'[1] = o'.head[2]
    BY <1>1, <1>8
  <2> QED BY <2>1, <2>2, <2>3, <2>4, <2>5 DEF WritingFits
<1> QED BY <1>11, <1>13, <1>14, <1>15, <1>16 DEF MSInv, WritingInv

LEMMA BlankKeeps ==
    ASSUME MSInv, Blank
    PROVE  MSInv'
<1>1. /\ pc = "cmd" /\ outdev = "disc" /\ cur = 0
      /\ UNCHANGED <<medium, sess, indev, outdev, img, pending, cur, ending>>
      /\ safe' = 0 /\ pc' = "erase" /\ unit' = 0
      /\ o' = [o EXCEPT !.head = IF o.status = "full" THEN <<Zero, Zero>>
                                 ELSE <<o.head[1], XX>>]
  BY DEF Blank, MSInv, StepInv, xVars
<1>2. /\ SessionsInv /\ MediumInv /\ Struct(o) /\ Roles(indev, outdev, o)
      /\ ImageType(img, indev) /\ pending \in BOOLEAN /\ ending \in BOOLEAN
      /\ Len(sess) \in Nat
  BY DEF MSInv, DriveInv, StepInv, SessionsInv
<1>3. /\ Zero \in Cells /\ XX \in Cells /\ Zero.k = "zero" /\ XX.k = "xx"
  BY DEF Zero, XX, Cells
<1>4. /\ DOMAIN o' = DOMAIN NewO /\ o'.status = o.status /\ o'.nwa = o.nwa
      /\ o'.zeroNwa = o.zeroNwa
      /\ o'.head = IF o.status = "full" THEN <<Zero, Zero>> ELSE <<o.head[1], XX>>
  BY <1>1, <1>2 DEF Struct, NewO
<1>5. /\ o'.head[1] \in {Zero, o.head[1]} /\ o'.head[2] \in {Zero, XX}
  BY <1>4
<1>6. Struct(o)' /\ o'.head[2].k \in {"zero", "xx"}
  BY <1>2, <1>3, <1>4, <1>5 DEF Struct
<1>7. Roles(indev, outdev, o)' /\ ImageType(img, indev)'
  BY <1>1, <1>2, <1>4 DEF Roles, ImageType, Sessions
<1>8. DriveInv'
  BY <1>1, <1>6, <1>7 DEF DriveInv
<1>9. StepInv'
  BY <1>1, <1>2, <1>6 DEF StepInv
<1>10. SessionsInv' /\ MediumInv'
  BY <1>1, <1>2, MediumStays
<1> QED BY <1>1, <1>8, <1>9, <1>10 DEF MSInv, WritingInv

LEMMA EraseUnitKeeps ==
    ASSUME MSInv, EraseUnit
    PROVE  MSInv'
<1>1. /\ pc = "erase" /\ unit \in {0, 1} /\ cur = 0
      /\ UNCHANGED <<sess, safe, indev, outdev, img, pending, o, pc, cur, ending>>
      /\ medium' = [medium EXCEPT ![unit] = o.head[unit + 1]] /\ unit' = unit + 1
      /\ o.head[2].k \in {"zero", "xx"}
  BY DEF EraseUnit, MSInv, StepInv, xVars
<1>2. SessionsInv /\ MediumInv /\ Struct(o)
  BY DEF MSInv, DriveInv
<1>3. PICK y : y = o.head[unit + 1]
  OBVIOUS
<1>4. y \in Cells /\ y.k # "vd"
  <2>1. CASE unit = 0
    BY <2>1, <1>2, <1>3 DEF Struct
  <2>2. CASE unit = 1
    BY <2>2, <1>1, <1>2, <1>3 DEF Struct
  <2> QED BY <1>1, <2>1, <2>2
<1>5. MediumInv'
  BY <1>1, <1>2, <1>3, <1>4, HeadUnitWritten
<1>6. Sessions' = Sessions /\ SessionsInv'
  BY <1>1, <1>2, SessionsStay
<1>7. DriveInv'
  BY <1>1, <1>6 DEF MSInv, DriveInv, Struct, Roles, ImageType
<1>8. StepInv'
  <2>1. unit' \in Nat /\ unit' <= 2
    BY <1>1
  <2> QED BY <1>1, <2>1 DEF MSInv, StepInv
<1> QED BY <1>1, <1>5, <1>6, <1>7, <1>8 DEF MSInv, WritingInv

LEMMA EraseEndsKeeps ==
    ASSUME MSInv, EraseEnds
    PROVE  MSInv'
<1>1. /\ pc = "erase" /\ Reacquire(indev = outdev) /\ unit' = 0 /\ cur = 0
      /\ outdev = "disc"
      /\ UNCHANGED <<medium, sess, safe, pending, cur, ending>>
      /\ safe \in 0 .. Len(sess) /\ pending \in BOOLEAN /\ ending \in BOOLEAN
  BY DEF EraseEnds, MSInv, StepInv
<1>2. /\ SessionsInv /\ MediumInv /\ ImageType(img, indev)
      /\ indev \in {"none", "disc", "other"}
  BY DEF MSInv, DriveInv, Roles
<1>3. PICK in \in BOOLEAN : in <=> indev = outdev
  OBVIOUS
<1>4. Reacquire(in) /\ (~ in => indev # "disc")
  BY <1>1, <1>3 DEF Reacquire
<1>5. /\ pc' = "cmd" /\ outdev' = "disc" /\ Struct(o') /\ AtRest(o')
      /\ Roles(indev', outdev', o') /\ ImageType(img', indev') /\ ImageFits(img', o')
  BY <1>1, <1>2, <1>4, ReacquireFits
<1> QED BY <1>1, <1>5, CommandStep

\* Another program adds a session behind the end which the head tells.
LEMMA GrowisofsKeeps ==
    ASSUME MSInv, NEW n \in ImageSizes, Growisofs(n)
    PROVE  MSInv'
<1>1. PICK s : s = Len(sess) + 1
  OBVIOUS
<1>2. PICK h : h = HeadSession
  OBVIOUS
<1>3. PICK a : a = medium[1].n
  OBVIOUS
<1>4. /\ indev # "disc" /\ outdev # "disc" /\ HasHeader(1) /\ a + n <= MediumUnits
      /\ safe' = IF safe = 0 THEN 0 ELSE s
      /\ UNCHANGED <<indev, outdev, img, pending, o, pc, unit, cur, ending>>
  BY <1>1, <1>2, <1>3 DEF Growisofs, xVars
<1>5. /\ SessionsInv /\ MediumInv /\ Struct(o) /\ Roles(indev, outdev, o)
      /\ ImageType(img, indev) /\ pc \in {"cmd", "ended"} /\ cur = 0
      /\ pc = "cmd" => unit = 0
      /\ pc = "ended" => unit = 0 /\ indev = "none" /\ outdev = "none"
      /\ Len(sess) \in Nat /\ safe \in 0 .. Len(sess)
      /\ pending \in BOOLEAN /\ ending \in BOOLEAN
  BY <1>4 DEF MSInv, DriveInv, StepInv, SessionsInv
<1>6. h \in Sessions /\ a \in Nat /\ a >= 2 /\ (Emulated(h) => a >= 4)
  BY <1>2, <1>3, <1>4, <1>5, HeadFacts
<1>7. n \in Nat /\ n >= 2 /\ MediumUnits \in Nat /\ 0 \in Units /\ 1 \in Units
  <2>1. n \in Nat \ {0, 1} /\ MediumUnits \in Nat \ 0 .. 3
    BY MSAssumption
  <2> QED BY <2>1 DEF Units
<1> DEFINE sound == \A x \in sess[h].refs \cup Range(sess[h].chain) : Intact(x)
           r == [start |-> a, size |-> n, padded |-> n, refs |-> {s} \cup sess[h].refs,
                 sound |-> sound, chain |-> sess[h].chain \o <<s>>]
<1>8. sound \in BOOLEAN
  OBVIOUS
<1>9. /\ sess[h].refs \subseteq Sessions /\ sess[h].chain \in Seq(Nat)
      /\ sess[h].chain # <<>> /\ (Emulated(h) => sess[h].refs \subseteq Chain(h))
  BY <1>5, <1>6, SessionTypes DEF SessionFits
<1>10. s \in Nat /\ {s} \cup sess[h].refs \subseteq 1 .. s
       /\ sess[h].chain \o <<s>> \in Seq(Nat)
  BY <1>1, <1>5, <1>9 DEF Sessions
<1> HIDE DEF sound
<1>11. r \in Records
  BY <1>6, <1>7, <1>8, <1>10 DEF Records
<1>12. /\ r.start = a /\ r.size = n /\ r.padded = n /\ r.refs = {s} \cup sess[h].refs
       /\ r.chain = sess[h].chain \o <<s>>
  OBVIOUS
<1>13. sess' = Append(sess, r)
  BY <1>1, <1>2, <1>3 DEF Growisofs, sound
<1> HIDE DEF r
<1>14. PICK old : old = sess[h].chain
  OBVIOUS
<1>15. SessionsInv /\ Begins(r, s, old, h)
  <2>1. /\ r.size \in ImageSizes /\ r.size <= r.padded
        /\ r.start + r.padded <= MediumUnits
    BY <1>4, <1>7, <1>12
  <2>2. /\ SessionsInv /\ r \in Records /\ s = Len(sess) + 1 /\ sess' = Append(sess, r)
        /\ old \in Seq(Nat) /\ r.chain = old \o <<s>> /\ r.refs \subseteq 1 .. s
    BY <1>1, <1>5, <1>9, <1>10, <1>11, <1>12, <1>13, <1>14
  <2>3. /\ h \in Sessions /\ old = sess[h].chain
        /\ Emulated(h) => /\ r.start >= 2 /\ r.refs \subseteq Chain(h) \cup {s}
                          /\ r.start \in {Ends(h), Aligned(Ends(h))}
    <3>1. Emulated(h) => a = Ends(h)
      BY <1>2, <1>3, <1>4, <1>5 DEF MediumInv, EmulatedHead
    <3> QED BY <3>1, <1>6, <1>9, <1>12, <1>14
  <2> QED BY <2>1, <2>2, <2>3 DEF Begins
<1>16. SessionsInv' /\ Sessions' = Sessions \cup {s} /\ s \notin Sessions
  <2>1. SessionsInv'
    BY <1>15, SessionsGrow
  <2>2. Sessions' = Sessions \cup {s} /\ s \notin Sessions
    BY <1>15, SessionsGrow
  <2> QED BY <2>1, <2>2
<1>17. sess'[s] = r
  BY <1>15, SessionsGrow
<1>18. \A i \in Sessions : /\ sess'[i] = sess[i] /\ Chain(i)' = Chain(i)
                           /\ Emulated(i)' <=> Emulated(i)
                           /\ Ends(i)' = Ends(i)
  BY <1>15, SessionsGrow
<1>19. Chain(s)' = Chain(h) \cup {s} /\ (Emulated(s)' <=> Emulated(h))
  <2>1. Chain(s)' = Range(old) \cup {s}
    BY <1>15, SessionsGrow
  <2>2. old # <<>>
    BY <1>9, <1>14
  <2>3. Emulated(s)' <=> Emulated(h)
    BY <1>15, <2>2, SessionsGrow
  <2>4. Range(old) = Chain(h)
    BY <1>14 DEF Chain
  <2> QED BY <2>1, <2>3, <2>4
<1>20. /\ medium'[1] = [k |-> "vd", s |-> s, n |-> a + n]
       /\ \A u \in Units : u # 1 /\ u \in a .. a + n - 1 =>
             medium'[u] = SessionCell(s, n, u - a)
       /\ \A u \in Units : u # 1 /\ u \notin a .. a + n - 1 => medium'[u] = medium[u]
       /\ medium' = [u \in Units |-> medium'[u]]
  <2>1. medium' = [u \in Units |->
                  CASE u = 1 -> [SessionCell(s, n, 1) EXCEPT !.n = a + n]
                    [] u \in a .. a + n - 1 -> SessionCell(s, n, u - a)
                    [] OTHER -> medium[u]]
    BY <1>1, <1>2, <1>3 DEF Growisofs
  <2>2. medium'[1] = [SessionCell(s, n, 1) EXCEPT !.n = a + n]
    BY <1>6, <1>7, <2>1
  <2>3. SessionCell(s, n, 1) = [k |-> "vd", s |-> s, n |-> n]
    BY DEF SessionCell
  <2>4. \A u \in Units : u # 1 /\ u \in a .. a + n - 1 =>
             medium'[u] = SessionCell(s, n, u - a)
    BY <2>1
  <2>5. \A u \in Units : u # 1 /\ u \notin a .. a + n - 1 => medium'[u] = medium[u]
    BY <2>1
  <2>6. medium' = [u \in Units |-> medium'[u]]
    BY <2>1
  <2> QED BY <2>2, <2>3, <2>4, <2>5, <2>6
<1>21. \A i \in 0 .. n - 1 : SessionCell(s, n, i) =
           IF i = 0 THEN [k |-> "sys", s |-> s, n |-> 0]
           ELSE IF i = 1 THEN [k |-> "vd", s |-> s, n |-> n]
           ELSE [k |-> "data", s |-> s, n |-> i]
  BY DEF SessionCell
<1>22. medium' \in [Units -> Cells]
  <2>1. \A u \in Units : medium'[u] \in Cells
    <3> SUFFICES ASSUME NEW u \in Units PROVE medium'[u] \in Cells
      OBVIOUS
    <3>1. CASE u = 1
      BY <3>1, <1>6, <1>7, <1>10, <1>20 DEF Cells
    <3>2. CASE u # 1 /\ u \in a .. a + n - 1
      <4>1. u - a \in 0 .. n - 1 /\ medium'[u] = SessionCell(s, n, u - a)
        BY <3>2, <1>6, <1>7, <1>20
      <4> QED BY <4>1, <1>7, <1>10, <1>21 DEF Cells
    <3>3. CASE u # 1 /\ u \notin a .. a + n - 1
      BY <3>3, <1>5, <1>20 DEF MediumInv
    <3> QED BY <3>1, <3>2, <3>3
  <2> QED BY <2>1, <1>20
<1>23. ~ HasHeader(0)'
  <2>1. medium'[0] = medium[0]
    BY <1>6, <1>7, <1>20
  <2> QED BY <2>1, <1>5 DEF HasHeader, MediumInv
<1>24. \A u \in Units : HasHeader(u)' =>
         /\ medium'[u].s \in Sessions' /\ medium'[u].n >= 2
         /\ medium'[u].n = 2 => 2 \in ImageSizes
  <2> SUFFICES ASSUME NEW u \in Units, HasHeader(u)'
               PROVE  /\ medium'[u].s \in Sessions' /\ medium'[u].n >= 2
                      /\ medium'[u].n = 2 => 2 \in ImageSizes
    OBVIOUS
  <2>1. CASE u = 1
    <3>1. medium'[u].s = s /\ medium'[u].n = a + n
      BY <2>1, <1>20
    <3> QED BY <3>1, <1>6, <1>7, <1>16
  <2>2. CASE u # 1 /\ u \in a .. a + n - 1
    <3>1. u - a \in 0 .. n - 1 /\ medium'[u] = SessionCell(s, n, u - a)
      BY <2>2, <1>6, <1>7, <1>20
    <3>2. SessionCell(s, n, u - a).k = "vd"
      BY <3>1 DEF HasHeader
    <3>3. medium'[u] = [k |-> "vd", s |-> s, n |-> n]
      BY <3>1, <3>2, <1>21
    <3> QED BY <3>3, <1>7, <1>16
  <2>3. CASE u # 1 /\ u \notin a .. a + n - 1
    <3>1. medium'[u] = medium[u] /\ HasHeader(u)
      BY <2>3, <1>20 DEF HasHeader
    <3> QED BY <3>1, <1>5, <1>16 DEF MediumInv
  <2> QED BY <2>1, <2>2, <2>3
<1>25. HeadSession' = s
  BY <1>20 DEF HeadSession
<1>26. EmulatedHead' => Emulated(h)
  BY <1>19, <1>25 DEF EmulatedHead, Emulated
<1>27. ASSUME Emulated(h)
       PROVE  \A c \in Chain(s)' : Intact(c)' /\ Ends(c)' <= a + n
  <2>1. \A c \in Chain(h) : Intact(c) /\ Ends(c) <= a
    BY <1>2, <1>3, <1>4, <1>5, <1>27 DEF MediumInv, EmulatedHead
  <2> SUFFICES ASSUME NEW c \in Chain(s)' PROVE Intact(c)' /\ Ends(c)' <= a + n
    OBVIOUS
  <2>2. CASE c \in Chain(h)
    <3>1. /\ c \in Sessions /\ sess[c].start >= 2 /\ Intact(c) /\ Ends(c) <= a
          /\ sess[c].start \in Nat /\ sess[c].size \in Nat
          /\ Ends(c) = sess[c].start + sess[c].size /\ sess'[c] = sess[c]
          /\ Ends(c)' = Ends(c)
      BY <2>1, <2>2, <1>5, <1>6, <1>18, <1>27, EmulatedChain, SessionTypes DEF Ends
    <3>2. ASSUME NEW u \in sess[c].start .. Ends(c) - 1 PROVE medium'[u] = medium[u]
      <4>1. u \in Units /\ u # 1 /\ u \notin a .. a + n - 1
        BY <3>1, <1>4, <1>6, <1>7 DEF Units
      <4> QED BY <4>1, <1>20
    <3>3. Intact(c)'
      BY <3>1, <3>2, IntactStays
    <3> QED BY <3>1, <3>3, <1>6, <1>7
  <2>3. CASE c = s
    <3>1. sess'[s].start = a /\ sess'[s].size = n
      BY <1>12, <1>17
    <3>2. ASSUME NEW i \in 0 .. n - 1 PROVE medium'[a + i] = SessionCell(s, n, i)
      <4>1. a + i \in Units /\ a + i # 1 /\ a + i \in a .. a + n - 1 /\ (a + i) - a = i
        BY <1>4, <1>6, <1>7 DEF Units
      <4> QED BY <4>1, <1>20
    <3> QED BY <2>3, <3>1, <3>2, <1>6, <1>7 DEF Intact, Ends
  <2> QED BY <2>2, <2>3, <1>19
<1>28. MediumInv'
  <2>1. ASSUME EmulatedHead'
        PROVE  /\ medium'[1].n = Ends(HeadSession)'
               /\ \A c \in Chain(HeadSession)' : Intact(c)' /\ Ends(c)' <= medium'[1].n
    <3>1. Chain(HeadSession)' = Chain(s)' /\ medium'[1].n = a + n
      BY <1>20, <1>25 DEF Chain
    <3>2. Ends(HeadSession)' = a + n
      BY <1>12, <1>17, <1>25 DEF Ends
    <3> QED BY <2>1, <3>1, <3>2, <1>26, <1>27
  <2> QED BY <2>1, <1>22, <1>23, <1>24 DEF MediumInv
<1>29. o = NewO /\ img.refs = {}
  BY <1>4, <1>5 DEF Roles, ImageType
<1>30. AtRest(o)' /\ ImageFits(img, o)'
  BY <1>4, <1>29 DEF NewO, AtRest, LoadPoint, TocFits, ImageFits
<1>31. DriveInv'
  <2>1. Struct(o)' /\ Roles(indev, outdev, o)' /\ ImageType(img, indev)'
    BY <1>4, <1>5, <1>16 DEF Struct, Roles, ImageType
  <2> QED BY <2>1, <1>30 DEF DriveInv
<1>32. StepInv'
  <2>1. Len(sess') = s /\ safe' \in 0 .. s
    BY <1>1, <1>4, <1>5, <1>10, <1>11, <1>13 DEF SessionsInv
  <2> QED BY <2>1, <1>4, <1>5 DEF StepInv
<1> QED BY <1>4, <1>5, <1>16, <1>28, <1>31, <1>32 DEF MSInv, WritingInv

-----------------------------------------------------------------------------
LEMMA MSInitInv == MSInit => MSInv
<1> SUFFICES ASSUME MSInit PROVE MSInv
  OBVIOUS
<1>1. /\ medium = [u \in Units |-> Zero] /\ sess = <<>> /\ safe = 0
      /\ indev = "none" /\ outdev = "none" /\ img = NoImage /\ pending = FALSE
      /\ o = NewO /\ pc = "cmd" /\ unit = 0 /\ cur = 0 /\ ending = FALSE
  BY DEF MSInit
<1>2. Zero \in Cells /\ Zero.k # "vd"
  BY DEF Zero, Cells
<1>3. medium \in [Units -> Cells] /\ \A u : ~ HasHeader(u)
  BY <1>1, <1>2 DEF HasHeader
<1>4. SessionsInv
  BY <1>1 DEF SessionsInv, Sessions
<1>5. MediumInv
  BY <1>3 DEF MediumInv, EmulatedHead
<1>6. /\ Struct(o) /\ AtRest(o) /\ Roles(indev, outdev, o)
      /\ ImageType(img, indev) /\ ImageFits(img, o)
  BY <1>1, NewOFits, EmptyFits DEF Roles
<1>7. StepInv
  <2>1. pending \in BOOLEAN /\ ending \in BOOLEAN
    BY <1>1
  <2> QED BY <1>1, <2>1 DEF StepInv
<1> QED BY <1>1, <1>4, <1>5, <1>6, <1>7 DEF MSInv, DriveInv, WritingInv

LEMMA MSNextInv ==
    ASSUME HeadKept, MSInv, [MSNext]_msVars
    PROVE  MSInv'
<1>1. ASSUME NEW in \in BOOLEAN, NEW out \in BOOLEAN, GiveUp(in, out) PROVE MSInv'
  BY <1>1, GiveUpKeeps DEF GiveUp
<1>2. ASSUME NEW in \in BOOLEAN, NEW out \in BOOLEAN, AcquireDisc(in, out) PROVE MSInv'
  BY <1>2, AcquireDiscKeeps
<1>3. ASSUME NEW roles \in EjectRoles, Eject("in" \in roles, "out" \in roles)
      PROVE  MSInv'
  <2>1. PICK in \in BOOLEAN : in <=> ("in" \in roles \/ indev = outdev)
    OBVIOUS
  <2>2. PICK out \in BOOLEAN : out <=> ("out" \in roles \/ indev = outdev)
    OBVIOUS
  <2>3. /\ pc = "cmd"
        /\ LET g == GivenUp(in, out)
           IN  /\ indev' = g.indev /\ outdev' = g.outdev
               /\ img' = g.img /\ pending' = g.pending
               /\ o' = IF "disc" \in {g.indev, g.outdev} THEN o ELSE NewO
        /\ UNCHANGED <<medium, sess, safe, pc, unit, cur, ending>>
    BY <1>3, <2>1, <2>2 DEF Eject, GivenUp
  <2> QED BY <2>3, GiveUpKeeps
<1>4. CASE AcquireOther
  BY <1>4, AcquireOtherKeeps
<1>5. CASE Modify \/ Rollback \/ PrintSize
  BY <1>5, ModifyKeeps, RollbackKeeps, PrintSizeKeeps
<1>6. ASSUME NEW byEnd \in BOOLEAN, BeginSession(byEnd) PROVE MSInv'
  BY <1>6, BeginSessionKeeps
<1>7. CASE RefuseSession \/ ActivateFails \/ Crash
  BY <1>7, ProgramEndsKeeps
<1>8. CASE WriteUnit \/ WriteFails \/ ActivateUnit \/ SessionDone
  BY <1>8, WriteUnitKeeps, WriteFailsKeeps, ActivateUnitKeeps, SessionDoneKeeps
<1>9. CASE Blank \/ EraseUnit \/ EraseEnds \/ Start
  BY <1>9, BlankKeeps, EraseUnitKeeps, EraseEndsKeeps, StartKeeps
<1>10. ASSUME NEW n \in ImageSizes, Growisofs(n) PROVE MSInv'
  BY <1>10, GrowisofsKeeps
<1>11. CASE UNCHANGED msVars
  <2>1. SessionsInv' /\ MediumInv'
    BY <1>11, MediumStays DEF msVars, MSInv
  <2>2. DriveInv' /\ StepInv'
    <3>1. AtRest(o) => AtRest(o)'
      BY <1>11 DEF msVars, AtRest, LoadPoint, TocFits, HasHeader, EmulatedHead,
         Emulated, HeadSession, Chain
    <3> QED BY <1>11, <3>1 DEF msVars, MSInv, DriveInv, StepInv, Struct, Roles,
       ImageType, ImageFits, HasHeader, EmulatedHead, Emulated, HeadSession, Chain,
       Sessions
  <2>3. WritingInv'
    BY <1>11 DEF msVars, MSInv, WritingInv, WritingFits, NeedsActivation, Written,
       Emulated, Intact, Chain, Ends, Sessions
  <2> QED BY <2>1, <2>2, <2>3 DEF MSInv
<1> QED BY <1>1, <1>2, <1>3, <1>4, <1>5, <1>6, <1>7, <1>8, <1>9, <1>10, <1>11
        DEF MSNext, Drives

\* What the properties ask for.
LEMMA MSInvType == MSInv => MSTypeOK
<1> SUFFICES ASSUME MSInv PROVE MSTypeOK
  OBVIOUS
<1>1. SessionsInv /\ MediumInv /\ Struct(o) /\ Roles(indev, outdev, o)
      /\ ImageType(img, indev) /\ StepInv
  BY DEF MSInv, DriveInv
<1>2. unit \in Units
  <2>1. MediumUnits \in Nat /\ MediumUnits >= 4
    BY MSAssumption
  <2>2. CASE pc = "write"
    <3>1. cur \in Sessions /\ unit < sess[cur].padded
      BY <2>2 DEF MSInv, WritingInv, WritingFits
    <3>2. /\ sess[cur].start \in Nat /\ sess[cur].padded \in Nat
          /\ sess[cur].start + sess[cur].padded <= MediumUnits
      BY <1>1, <3>1, SessionTypes DEF SessionFits
    <3> QED BY <1>1, <2>1, <3>1, <3>2 DEF StepInv, Units
  <2>3. CASE pc # "write"
    <3>1. unit \in Nat /\ unit <= 2
      BY <1>1, <2>3 DEF StepInv
    <3> QED BY <2>1, <3>1 DEF Units
  <2> QED BY <2>2, <2>3
<1>3. medium \in [Units -> Cells] /\ o.status \in {"unready", "blank", "appendable", "full"}
  BY <1>1 DEF MediumInv, Struct
<1>4. /\ indev \in {"none", "disc", "other"} /\ outdev \in {"none", "disc"}
      /\ (o.status = "unready") = ("disc" \notin {indev, outdev})
  BY <1>1 DEF Roles
<1>5. img.refs \subseteq Sessions /\ img.present \in BOOLEAN
  BY <1>1 DEF ImageType
<1>6. /\ safe \in 0 .. Len(sess) /\ pending \in BOOLEAN /\ ending \in BOOLEAN
      /\ pc \in {"cmd", "write", "wrote", "erase", "ended"}
      /\ (cur # 0) = (pc \in {"write", "wrote"})
  BY <1>1 DEF StepInv
<1> QED BY <1>2, <1>3, <1>4, <1>5, <1>6 DEF MSTypeOK

LEMMA MSInvReadable == MSInv => LastSessionReadable
<1> SUFFICES ASSUME MSInv PROVE LastSessionReadable
  OBVIOUS
<1>1. MSTypeOK /\ SessionsInv /\ MediumInv
  BY MSInvType DEF MSInv
<1>2. ASSUME HasHeader(1)
      PROVE  /\ HeadSession \in Sessions
             /\ Emulated(HeadSession) => \A s \in sess[HeadSession].refs : Intact(s)
  <2>1. HeadSession \in Sessions
    BY <1>1, <1>2, HeadFacts
  <2>2. ASSUME Emulated(HeadSession), NEW s \in sess[HeadSession].refs PROVE Intact(s)
    <3>1. EmulatedHead /\ HeadSession \in Chain(HeadSession)
      BY <1>1, <1>2, <2>1, <2>2, SessionTypes DEF EmulatedHead
    <3>2. s \in Chain(HeadSession)
      BY <1>1, <2>1, <2>2, <3>1, EmulatedChain
    <3> QED BY <1>1, <3>1, <3>2 DEF MediumInv
  <2> QED BY <2>1, <2>2
<1> QED BY <1>1, <1>2 DEF LastSessionReadable

\* Whatever fails or gets interrupted, in any series of commands, the head of
\* the medium names a session that is complete, with all older sessions on which
\* its tree relies: burn_disc_write() and isoburn_activate_session() write in an
\* order that never exposes half a session.
THEOREM LastSessionStaysReadable ==
    ASSUME HeadKept
    PROVE  MSSpec => []LastSessionReadable
<1>1. MSInit => MSInv
  BY MSInitInv
<1>2. MSInv /\ [MSNext]_msVars => MSInv'
  BY MSNextInv
<1>3. MSInv => LastSessionReadable
  BY MSInvReadable
<1> QED BY <1>1, <1>2, <1>3, PTL DEF MSSpec

-----------------------------------------------------------------------------
\* Steps which write nothing and report no success.
LEMMA SafeStep ==
    ASSUME MSInv, SafeInv, TRUE \notin NoEmulToc, UNCHANGED <<medium, sess, safe>>,
           o'.zeroNwa = 2, pc' \in {"write", "wrote"} => UNCHANGED <<pc, cur>>
    PROVE  SafeInv'
BY DEF SafeInv, Sessions, Emulated, HasHeader, HeadSession, Chain

\* Without -compliance no_emul_toc each first session goes to unit 2.
LEMMA ZeroNwaStays ==
    ASSUME MSInv, o.zeroNwa = 2, TRUE \notin NoEmulToc, [MSNext]_msVars
    PROVE  o'.zeroNwa = 2
<1>1. Struct(o) /\ SessionsInv /\ MediumInv
  BY DEF MSInv, DriveInv
<1>2. NewO.zeroNwa = 2 /\ \A e : Struct(WelcomeMedia(e)) /\ WelcomeMedia(e).zeroNwa = 2
  BY <1>1, NewOFits, WelcomeFits
<1>3. \A d, a : Struct(d) => [d EXCEPT !.msc1 = a].zeroNwa = d.zeroNwa
  BY DEF Struct, NewO
<1>4. \A d, x : Struct(d) => [d EXCEPT !.head = x].zeroNwa = d.zeroNwa
  BY DEF Struct, NewO
<1>5. \A ne \in NoEmulToc : Prepared(ne) = o
  <2>1. \A ne \in NoEmulToc : ne = FALSE
    BY MSAssumption
  <2> QED BY <2>1 DEF Prepared
<1>6. \A d, out : LoadFrom(d, out) /\ d.zeroNwa = 2 => o'.zeroNwa = 2
  BY <1>2 DEF LoadFrom
<1>7. ASSUME NEW in, Reacquire(in) PROVE o'.zeroNwa = 2
  BY <1>2, <1>6, <1>7 DEF Reacquire
<1>8. CASE ProgramEnds
  BY <1>2, <1>8 DEF ProgramEnds
<1>9. ASSUME NEW in, NEW out, GiveUp(in, out) \/ Eject(in, out) PROVE o'.zeroNwa = 2
  BY <1>2, <1>9 DEF GiveUp, Eject
<1>10. ASSUME NEW in, NEW out, AcquireDisc(in, out) PROVE o'.zeroNwa = 2
  <2> DEFINE left == GivenUp(in, out)
             shared == "disc" \in {left.indev, left.outdev}
  <2>1. PICK e \in MayFail :
          LET d == IF shared THEN o ELSE WelcomeMedia(e)
          IN  IF in
              THEN \E a \in LoadAddresses(d) : LoadFrom([d EXCEPT !.msc1 = a], outdev')
              ELSE o' = d
    BY <1>10 DEF AcquireDisc
  <2> HIDE DEF shared
  <2>2. PICK d : d = IF shared THEN o ELSE WelcomeMedia(e)
    OBVIOUS
  <2>3. Struct(d) /\ d.zeroNwa = 2
    BY <1>1, <1>2, <2>2
  <2>4. CASE in
    <3>1. PICK a : LoadFrom([d EXCEPT !.msc1 = a], outdev')
      BY <2>1, <2>2, <2>4
    <3>2. [d EXCEPT !.msc1 = a].zeroNwa = 2
      BY <1>3, <2>3
    <3> QED BY <1>6, <3>1, <3>2
  <2>5. CASE ~ in
    BY <2>1, <2>2, <2>3, <2>5
  <2> QED BY <2>4, <2>5
<1>11. CASE AcquireOther \/ Modify
  BY <1>2, <1>11 DEF AcquireOther, Modify
<1>12. CASE Rollback
  <2>1. CASE indev \in {"none", "other"}
    BY <1>12, <2>1 DEF Rollback
  <2>2. CASE indev = "disc"
    <3>1. PICK e \in MayFail :
            LoadFrom(IF outdev = "disc" THEN o
                     ELSE [WelcomeMedia(e) EXCEPT !.msc1 = o.msc1], outdev)
      BY <1>12, <2>2 DEF Rollback
    <3>2. [WelcomeMedia(e) EXCEPT !.msc1 = o.msc1].zeroNwa = 2
      BY <1>2, <1>3
    <3> QED BY <1>6, <3>1, <3>2
  <2>3. indev \in {"none", "disc", "other"}
    BY DEF MSInv, DriveInv, Roles
  <2> QED BY <2>1, <2>2, <2>3
<1>13. ASSUME NEW byEnd, BeginSession(byEnd) PROVE o'.zeroNwa = 2
  <2>1. PICK x : o' = [o EXCEPT !.head = x] \/ ProgramEnds
    BY <1>5, <1>13 DEF BeginSession
  <2> QED BY <1>1, <1>4, <1>8, <2>1
<1>14. CASE PrintSize
  <2>1. PICK x : o' = [o EXCEPT !.head = x]
    BY <1>5, <1>14 DEF PrintSize
  <2> QED BY <1>1, <1>4, <2>1
<1>15. CASE Blank
  <2>1. PICK x : o' = [o EXCEPT !.head = x]
    BY <1>15 DEF Blank
  <2> QED BY <1>1, <1>4, <2>1
<1>16. CASE RefuseSession \/ ActivateFails \/ Crash \/ SessionDone \/ EraseEnds \/ WriteFails
  BY <1>7, <1>8, <1>16 DEF RefuseSession, ActivateFails, Crash, SessionDone,
     EraseEnds, WriteFails
<1>17. CASE WriteUnit \/ ActivateUnit \/ EraseUnit \/ Start \/ UNCHANGED msVars
  BY <1>17 DEF WriteUnit, ActivateUnit, EraseUnit, Start, msVars
<1>18. ASSUME NEW n, Growisofs(n) PROVE o'.zeroNwa = 2
  BY <1>18 DEF Growisofs
<1> QED BY <1>9, <1>10, <1>11, <1>12, <1>13, <1>14, <1>15, <1>16, <1>17, <1>18
        DEF MSNext, Drives

\* The new session continues the chain with what was reported before.
LEMMA SafeBegin ==
    ASSUME MSInv, SafeInv, HeadKept, TRUE \notin NoEmulToc, NEW byEnd \in BOOLEAN,
           BeginSession(byEnd)
    PROVE  SafeInv'
<1>1. /\ pc = "cmd" /\ MayWrite /\ UNCHANGED <<medium, safe>>
      /\ SessionsInv /\ MediumInv /\ AtRest(o) /\ o.zeroNwa = 2
      /\ \A i \in Sessions : Emulated(i)
      /\ safe # 0 => HasHeader(1) /\ safe \in Chain(HeadSession)
  BY DEF BeginSession, MSInv, DriveInv, SafeInv
<1>2. PICK n \in ImageSizes, ne \in NoEmulToc :
         LET d == Prepared(ne)
             fits == d.nwa + Padded(n, ne) <= MediumUnits
         IN  IF fits
             THEN /\ sess' = Append(sess, NewSession(d, n, ne))
                  /\ cur' = Len(sess) + 1 /\ pc' = "write"
             ELSE sess' = sess /\ (ProgramEnds \/ pc' = pc)
  BY DEF BeginSession
<1>3. ~ ne
  BY <1>2
<1>4. Prepared(ne) = o
  BY <1>3 DEF Prepared
<1>5. o'.zeroNwa = 2
  BY <1>1, ZeroNwaStays DEF MSNext
<1>6. CASE ~ (o.nwa + Padded(n, ne) <= MediumUnits)
  <2>1. sess' = sess /\ pc' \in {"cmd", "ended"}
    BY <1>1, <1>2, <1>4, <1>6 DEF ProgramEnds
  <2> QED BY <1>1, <1>5, <2>1, SafeStep
<1>7. CASE o.nwa + Padded(n, ne) <= MediumUnits
  <2>1. PICK s : s = Len(sess) + 1
    OBVIOUS
  <2>2. PICK h : h = HeadSession
    OBVIOUS
  <2>3. /\ sess' = Append(sess, NewSession(o, n, ne)) /\ cur' = s /\ pc' = "write"
    BY <1>2, <1>4, <1>7, <2>1
  <2>4. /\ MSInv /\ pc = "cmd" /\ HeadKept /\ MayWrite /\ ne \in NoEmulToc
        /\ n \in ImageSizes /\ o = Prepared(ne)
        /\ o.nwa + Padded(n, ne) <= MediumUnits
        /\ s = Len(sess) + 1 /\ h = HeadSession
        /\ sess' = Append(sess, NewSession(o, n, ne))
    BY <1>1, <1>4, <1>7, <2>1, <2>2, <2>3
  <2>5. Sessions' = Sessions \cup {s} /\ s \notin Sessions
    BY <2>4, NewSessionFits
  <2>6. \A i \in Sessions : /\ sess'[i] = sess[i] /\ Chain(i)' = Chain(i)
                            /\ Emulated(i)' <=> Emulated(i)
    BY <2>4, NewSessionFits
  <2>7. o.status = "appendable" =>
            /\ HasHeader(1) /\ h \in Sessions /\ Chain(s)' = Chain(h) \cup {s}
            /\ Emulated(s)' <=> Emulated(h)
    BY <2>4, NewSessionFits
  <2>8. o.status # "appendable" => (Emulated(s)' <=> o.nwa = 2)
    BY <2>4, NewSessionFits
  <2>9. o.status # "appendable" => o.nwa = 2 /\ ~ HasHeader(1)
    BY <1>1 DEF MayWrite, AtRest
  <2>10. Emulated(s)'
    BY <1>1, <2>7, <2>8, <2>9
  <2>11. \A i \in Sessions' : Emulated(i)'
    BY <1>1, <2>5, <2>6, <2>10
  <2>12. HasHeader(1)' <=> HasHeader(1)
    BY <1>1 DEF HasHeader
  <2>13. safe # 0 => HasHeader(1)' /\ safe \in Chain(HeadSession)' /\ safe \in Chain(cur)'
    <3> SUFFICES ASSUME safe # 0
                 PROVE  HasHeader(1)' /\ safe \in Chain(HeadSession)' /\ safe \in Chain(cur)'
      OBVIOUS
    <3>1. o.status = "appendable" /\ safe \in Chain(h) /\ h \in Sessions
      BY <1>1, <2>2, <2>7, <2>9
    <3>2. safe \in Chain(h)' /\ safe \in Chain(s)'
      BY <2>6, <2>7, <3>1
    <3>3. HeadSession' = h
      BY <1>1, <2>2 DEF HeadSession
    <3> QED BY <1>1, <2>3, <2>12, <3>2, <3>3 DEF Chain
  <2> QED BY <1>1, <1>5, <2>11, <2>13 DEF SafeInv
<1> QED BY <1>6, <1>7

LEMMA SafeWrite ==
    ASSUME MSInv, SafeInv, TRUE \notin NoEmulToc,
           WriteUnit \/ ActivateUnit \/ SessionDone
    PROVE  SafeInv'
<1>1. /\ sess' = sess /\ pc \in {"write", "wrote"} /\ o'.zeroNwa = 2
      /\ \A i \in Sessions : Emulated(i)
      /\ safe # 0 => HasHeader(1) /\ safe \in Chain(HeadSession) /\ safe \in Chain(cur)
  <2>1. o'.zeroNwa = 2
    BY ZeroNwaStays DEF MSNext, SafeInv
  <2> QED BY <2>1 DEF WriteUnit, ActivateUnit, SessionDone, SafeInv
<1>2. \A i \in Sessions' : Emulated(i)'
  BY <1>1 DEF Sessions, Emulated
<1>3. PICK s : s = cur
  OBVIOUS
<1>4. /\ SessionsInv /\ MediumInv /\ s \in Sessions /\ NeedsActivation
      /\ o.nwa = sess[s].start /\ o.nwa >= 2 /\ unit \in Nat
      /\ o.head[2] = [k |-> "vd", s |-> s, n |-> Ends(s)]
      /\ pc = "wrote" /\ unit = 2 => medium[1] = o.head[2]
  <2>1. WritingFits /\ o.status \in {"blank", "appendable"} /\ o.zeroNwa = 2
        /\ SessionsInv /\ MediumInv /\ unit \in Nat
    BY <1>1 DEF MSInv, StepInv, WritingInv, WritingFits, SafeInv
  <2>2. NeedsActivation
    BY <2>1 DEF NeedsActivation
  <2> QED BY <1>3, <2>1, <2>2 DEF WritingFits
<1>5. 1 \in Units /\ 0 \in Units /\ medium \in [Units -> Cells]
  BY <1>4, MSAssumption DEF Units, MediumInv
<1>6. CASE WriteUnit
  <2>1. PICK a : a = sess[s].start + unit
    OBVIOUS
  <2>2. PICK y : medium' = [medium EXCEPT ![a] = y]
    BY <1>3, <1>6, <2>1 DEF WriteUnit
  <2>3. a # 1
    BY <1>4, <2>1, SessionTypes
  <2>4. medium'[1] = medium[1]
    BY <1>5, <2>2, <2>3
  <2>5. safe' = safe /\ cur' = cur
    BY <1>6 DEF WriteUnit
  <2> QED BY <1>1, <1>2, <2>4, <2>5 DEF SafeInv, HasHeader, HeadSession, Chain
<1>7. CASE ActivateUnit
  <2>1. /\ safe' = safe /\ cur' = cur /\ unit \in {0, 1}
        /\ medium' = [medium EXCEPT ![unit] = o.head[unit + 1]]
    BY <1>4, <1>7 DEF ActivateUnit
  <2>2. CASE unit = 0
    <3>1. medium'[1] = medium[1]
      BY <1>5, <2>1, <2>2
    <3> QED BY <1>1, <1>2, <2>1, <3>1 DEF SafeInv, HasHeader, HeadSession, Chain
  <2>3. CASE unit = 1
    <3>1. medium'[1] = [k |-> "vd", s |-> s, n |-> Ends(s)]
      BY <1>4, <1>5, <2>1, <2>3
    <3>2. HasHeader(1)' /\ HeadSession' = s
      BY <1>5, <3>1 DEF HasHeader, HeadSession
    <3> QED BY <1>1, <1>2, <1>3, <2>1, <3>2 DEF SafeInv, Chain
  <2> QED BY <2>1, <2>2, <2>3
<1>8. CASE SessionDone
  <2>1. /\ safe' = s /\ medium' = medium /\ pc = "wrote" /\ unit = 2
        /\ pc' \in {"cmd", "ended"}
    BY <1>3, <1>4, <1>8 DEF SessionDone, ProgramEnds, Reacquire
  <2>2. medium'[1] = [k |-> "vd", s |-> s, n |-> Ends(s)]
    BY <1>4, <2>1
  <2>3. HasHeader(1)' /\ HeadSession' = s
    BY <1>5, <2>2 DEF HasHeader, HeadSession
  <2>4. s \in Chain(s)
    BY <1>4, SessionTypes
  <2> QED BY <1>1, <1>2, <2>1, <2>3, <2>4 DEF SafeInv, Chain
<1> QED BY <1>6, <1>7, <1>8

LEMMA SafeGrowisofs ==
    ASSUME MSInv, MSInv', SafeInv, NEW n \in ImageSizes, Growisofs(n)
    PROVE  SafeInv'
<1>1. PICK s : s = Len(sess) + 1
  OBVIOUS
<1>2. PICK h : h = HeadSession
  OBVIOUS
<1>3. /\ SessionsInv /\ MediumInv /\ h \in Sessions /\ Emulated(h) /\ Len(sess) \in Nat
      /\ o' = o /\ o.zeroNwa = 2 /\ \A i \in Sessions : Emulated(i)
      /\ pc' \notin {"write", "wrote"} /\ safe' \in {0, s}
  <2>1. HasHeader(1) /\ outdev # "disc" /\ pc' = pc /\ o' = o /\ safe' \in {0, s}
    BY <1>1 DEF Growisofs
  <2>2. SessionsInv /\ MediumInv /\ Len(sess) \in Nat /\ pc' \notin {"write", "wrote"}
    BY <2>1 DEF MSInv, StepInv, SessionsInv
  <2>3. h \in Sessions
    BY <1>2, <2>1, <2>2, HeadFacts
  <2> QED BY <2>1, <2>2, <2>3 DEF SafeInv
<1>4. PICK r : sess' = Append(sess, r) /\ r.chain = sess[h].chain \o <<s>>
  <2> DEFINE sound == \A x \in sess[h].refs \cup Range(sess[h].chain) : Intact(x)
             r == [start |-> medium[1].n, size |-> n, padded |-> n,
                   refs |-> {s} \cup sess[h].refs, sound |-> sound,
                   chain |-> sess[h].chain \o <<s>>]
  <2>1. sess' = Append(sess, r)
    BY <1>1, <1>2 DEF Growisofs
  <2> HIDE DEF sound
  <2>2. r.chain = sess[h].chain \o <<s>>
    OBVIOUS
  <2> QED BY <2>1, <2>2
<1>5. /\ sess[h].chain \in Seq(Nat) /\ sess[h].chain # <<>>
      /\ sess[h].chain[1] \in Sessions /\ s \in Nat
  BY <1>1, <1>3, SessionTypes
<1>6. r.chain[1] = sess[h].chain[1]
  BY <1>4, <1>5
<1>7. /\ Sessions' = Sessions \cup {s} /\ sess'[s] = r
      /\ \A i \in Sessions : sess'[i] = sess[i] /\ sess[i].chain[1] \in Sessions
  <2>1. sess \in Seq(Records) /\ Len(sess') = s
    BY <1>1, <1>3, <1>4 DEF SessionsInv
  <2>2. sess'[s] = r /\ \A i \in 1 .. Len(sess) : sess'[i] = sess[i]
    BY <1>1, <1>4, <2>1
  <2>3. 1 .. s = (1 .. Len(sess)) \cup {s}
    BY <1>1, <1>3
  <2> QED BY <1>3, <2>1, <2>2, <2>3, SessionTypes DEF Sessions
<1>8. \A i \in Sessions' : Emulated(i)'
  <2>1. Emulated(s)'
    BY <1>3, <1>5, <1>6, <1>7 DEF Emulated
  <2>2. ASSUME NEW i \in Sessions PROVE Emulated(i)'
    BY <1>3, <1>7 DEF Emulated
  <2> QED BY <1>7, <2>1, <2>2
<1>9. HasHeader(1)' /\ HeadSession' = s
  <2>1. 1 \in Units
    BY MSAssumption DEF Units
  <2>2. medium'[1] = [SessionCell(s, n, 1) EXCEPT !.n = medium[1].n + n]
    <3>1. medium' = [u \in Units |->
                CASE u = 1 -> [SessionCell(s, n, 1) EXCEPT !.n = medium[1].n + n]
                  [] u \in medium[1].n .. medium[1].n + n - 1
                       -> SessionCell(s, n, u - medium[1].n)
                  [] OTHER -> medium[u]]
      BY <1>1 DEF Growisofs
    <3>2. ~ (1 \in medium[1].n .. medium[1].n + n - 1)
      BY <1>3, HeadFacts DEF Growisofs
    <3> QED BY <2>1, <3>1, <3>2
  <2>3. medium'[1].k = "vd" /\ medium'[1].s = s
    BY <2>2 DEF SessionCell
  <2> QED BY <2>1, <2>3 DEF HasHeader, HeadSession
<1>10. s \in Chain(s)'
  BY <1>7 DEF MSInv, SessionsInv, SessionFits
<1>11. s \in Chain(HeadSession)'
  BY <1>9, <1>10 DEF Chain
<1> QED BY <1>3, <1>8, <1>9, <1>11 DEF SafeInv

\* SafeInv is inductive, together with MSInv.
LEMMA SafeNextInv ==
    ASSUME HeadKept, TRUE \notin NoEmulToc, MSInv, MSInv', SafeInv, [MSNext]_msVars
    PROVE  SafeInv'
<1>1. o'.zeroNwa = 2
  BY ZeroNwaStays DEF SafeInv
<1>2. ASSUME NEW in \in BOOLEAN, NEW out \in BOOLEAN,
             GiveUp(in, out) \/ AcquireDisc(in, out) \/ Eject(in, out)
      PROVE  SafeInv'
  BY <1>1, <1>2, SafeStep DEF GiveUp, AcquireDisc, Eject
<1>3. ASSUME NEW roles \in EjectRoles, Eject("in" \in roles, "out" \in roles)
      PROVE  SafeInv'
  <2>1. ("in" \in roles) \in BOOLEAN /\ ("out" \in roles) \in BOOLEAN
    OBVIOUS
  <2> QED BY <1>1, <1>3, SafeStep DEF Eject
<1>4. CASE AcquireOther \/ Modify \/ Rollback \/ PrintSize \/ Start \/ EraseEnds
  <2>1. /\ UNCHANGED <<medium, sess, safe>> /\ pc' \notin {"write", "wrote"}
    BY <1>4 DEF AcquireOther, Modify, Rollback, PrintSize, Start, EraseEnds, Reacquire
  <2> QED BY <1>1, <2>1, SafeStep
<1>5. CASE RefuseSession \/ WriteFails \/ ActivateFails \/ Crash
  <2>1. /\ UNCHANGED <<medium, sess, safe>> /\ pc' \notin {"write", "wrote"}
    BY <1>5 DEF RefuseSession, WriteFails, ActivateFails, Crash, ProgramEnds
  <2> QED BY <1>1, <2>1, SafeStep
<1>6. CASE UNCHANGED msVars
  BY <1>1, <1>6, SafeStep DEF msVars
<1>7. ASSUME NEW byEnd \in BOOLEAN, BeginSession(byEnd) PROVE SafeInv'
  BY <1>7, SafeBegin
<1>8. CASE WriteUnit \/ ActivateUnit \/ SessionDone
  BY <1>8, SafeWrite
<1>9. CASE Blank
  <2>1. sess' = sess /\ safe' = 0
    BY <1>9 DEF Blank
  <2> QED BY <1>1, <2>1 DEF SafeInv, Sessions, Emulated
<1>10. CASE EraseUnit
  <2>1. sess' = sess /\ safe' = 0
    BY <1>10 DEF EraseUnit, MSInv, StepInv
  <2> QED BY <1>1, <2>1 DEF SafeInv, Sessions, Emulated
<1>11. ASSUME NEW n \in ImageSizes, Growisofs(n) PROVE SafeInv'
  BY <1>11, SafeGrowisofs
<1> QED BY <1>2, <1>3, <1>4, <1>5, <1>6, <1>7, <1>8, <1>9, <1>10, <1>11
        DEF MSNext, Drives

LEMMA SafeLasts == MSInv /\ SafeInv => WrittenWellLasts
<1> SUFFICES ASSUME MSInv, SafeInv, safe # 0
             PROVE  /\ HasHeader(1) /\ HeadSession \in Sessions
                    /\ safe \in Chain(HeadSession)
                    /\ \A s \in sess[safe].refs : Intact(s)
  BY DEF WrittenWellLasts, Chain
<1>1. /\ SessionsInv /\ MediumInv /\ HasHeader(1) /\ safe \in Chain(HeadSession)
      /\ \A i \in Sessions : Emulated(i)
  BY DEF MSInv, SafeInv
<1>2. HeadSession \in Sessions /\ EmulatedHead /\ Emulated(HeadSession)
  BY <1>1, HeadFacts DEF EmulatedHead
<1>3. sess[safe].refs \subseteq Chain(HeadSession)
  BY <1>1, <1>2, EmulatedChain
<1> QED BY <1>1, <1>2, <1>3 DEF MediumInv

\* What xorriso has reported as written well is in the chain which the head of
\* the medium ends, and intact with all it relies on, until the user has it
\* blanked.  -compliance no_emul_toc is excluded (MCMultiNoEmul).
THEOREM SuccessLasts ==
    ASSUME TRUE \notin NoEmulToc
    PROVE  MSSpec => []WrittenWellLasts
<1>1. HeadKept
  BY DEF HeadKept
<1>2. MSInit => MSInv /\ SafeInv
  <2>1. MSInit => MSInv
    BY MSInitInv
  <2>2. MSInit => SafeInv
    BY NewOFits DEF MSInit, SafeInv, Sessions
  <2> QED BY <2>1, <2>2
<1>3. MSInv /\ SafeInv /\ [MSNext]_msVars => MSInv' /\ SafeInv'
  BY <1>1, MSNextInv, SafeNextInv
<1>4. MSInv /\ SafeInv => WrittenWellLasts
  BY SafeLasts
<1> QED BY <1>2, <1>3, <1>4, PTL DEF MSSpec

-----------------------------------------------------------------------------
\* A consequence of the part about the table of content.
LEMMA MSInvToc == MSInv => TocListsSessions
<1> SUFFICES ASSUME MSInv, pc = "cmd", o.status = "appendable", Emulated(HeadSession)
             PROVE  LET chain == sess[HeadSession].chain
                    IN  o.toc = [i \in DOMAIN chain |->
                                   TocEntry(sess[chain[i]].start, sess[chain[i]].size)]
  BY DEF TocListsSessions
<1>1. AtRest(o)
  BY DEF MSInv, DriveInv
<1> QED BY <1>1 DEF AtRest, TocFits, EmulatedHead

\* isoburn_emulate_toc() finds all sessions of the chain which ends at the head,
\* those from growisofs too, with their addresses and sizes, and nothing else.
THEOREM TocIsTrue ==
    ASSUME HeadKept
    PROVE  MSSpec => []TocListsSessions
<1>1. MSInit => MSInv
  BY MSInitInv
<1>2. MSInv /\ [MSNext]_msVars => MSInv'
  BY MSNextInv
<1>3. MSInv => TocListsSessions
  BY MSInvToc
<1> QED BY <1>1, <1>2, <1>3, PTL DEF MSSpec

-----------------------------------------------------------------------------
\* Images that were just loaded or made have no changes.
LEMMA LoadedUnchanged ==
    ASSUME NEW d, NEW e
    PROVE  DOMAIN LoadedImage(d, e) = DOMAIN NoImage /\ LoadedImage(d, e).changed = FALSE
BY DEF LoadedImage, EmptyImage, NoImage

LEMMA EmptyUnchanged ==
    /\ DOMAIN EmptyImage = DOMAIN NoImage
    /\ EmptyImage.changed = FALSE /\ NoImage.changed = FALSE
BY DEF EmptyImage, NoImage

ImageNew == DOMAIN img' = DOMAIN NoImage /\ img'.changed = FALSE

LEMMA LoadFromNew ==
    ASSUME NEW d, NEW out, LoadFrom(d, out)
    PROVE  ImageNew /\ indev' \in {"none", "disc"}
<1>1. CASE \E e \in MayFail : img' = LoadedImage(d, e) /\ indev' = "disc" /\ o' = d
  BY <1>1, LoadedUnchanged DEF ImageNew
<1>2. CASE indev' = "none" /\ img' \in {EmptyImage, NoImage}
  BY <1>2, EmptyUnchanged DEF ImageNew
<1> QED BY <1>1, <1>2 DEF LoadFrom

\* The image in memory stays, or a new one takes the place of one without
\* changes, whichever step it is.
ImageGuarded ==
    /\ indev' \in {"none", "disc", "other"}
    /\ \/ img' = img /\ (pending' <=> pending)
       \/ ImageNew /\ ~ img.changed

\* The second part of ChangesNotForgotten.
ChangesKept ==
    img.changed /\ ~ img'.changed =>
       \/ pc' = "ended"
       \/ Rollback
       \/ pc = "wrote" /\ safe' = cur

\* Such a step forgets nothing.
LEMMA GuardedKeeps ==
    ASSUME PendingInv, ImageGuarded, pc' # "erase" \/ UNCHANGED <<pc, indev, outdev, img>>
    PROVE  PendingInv' /\ ChangesKept
<1>1. CASE img' = img /\ (pending' <=> pending)
  <2>1. DOMAIN img' = DOMAIN NoImage /\ img'.changed \in BOOLEAN
    BY <1>1 DEF PendingInv
  <2>2. img'.changed => pending' /\ img'.present
    BY <1>1 DEF PendingInv
  <2>3. pc' = "erase" /\ indev' = outdev' => ~ img'.changed
    BY <1>1 DEF PendingInv
  <2> QED BY <1>1, <2>1, <2>2, <2>3 DEF PendingInv, ImageGuarded, ChangesKept
<1>2. CASE ImageNew /\ ~ img.changed
  BY <1>2 DEF PendingInv, ImageGuarded, ImageNew, ChangesKept
<1> QED BY <1>1, <1>2 DEF ImageGuarded

\* Giving up drives without pending changes, or the output role only.
LEMMA GivenUpGuarded ==
    ASSUME PendingInv, NEW in \in BOOLEAN, NEW out \in BOOLEAN, in => ~ pending,
           indev' = GivenUp(in, out).indev, img' = GivenUp(in, out).img,
           pending' = GivenUp(in, out).pending
    PROVE  ImageGuarded
<1>1. CASE in
  <2>1. img' \in {img, EmptyImage, NoImage} /\ indev' = "none"
    BY <1>1 DEF GivenUp
  <2>2. ~ img.changed /\ DOMAIN img = DOMAIN NoImage /\ img.changed = FALSE
    BY <1>1 DEF PendingInv
  <2> QED BY <2>1, <2>2, EmptyUnchanged DEF ImageGuarded, ImageNew
<1>2. CASE ~ in
  BY <1>2 DEF GivenUp, ImageGuarded, PendingInv
<1> QED BY <1>1, <1>2

\* An image is made where there is none.
LEMMA EmptyGuarded ==
    ASSUME PendingInv, pending' <=> pending, indev' \in {"none", "disc", "other"},
           img' = IF img.present THEN img ELSE EmptyImage
    PROVE  ImageGuarded
<1>1. CASE img.present
  BY <1>1 DEF ImageGuarded
<1>2. CASE ~ img.present
  BY <1>2, EmptyUnchanged DEF ImageGuarded, ImageNew, PendingInv
<1> QED BY <1>1, <1>2

\* Commands for drives regard the pending changes, except -eject "out".
LEMMA DrivesGuarded ==
    ASSUME PendingInv, Drives, \A roles \in EjectRoles : "in" \in roles
    PROVE  PendingInv' /\ ChangesKept
<1>1. ASSUME NEW in \in BOOLEAN, NEW out \in BOOLEAN, GiveUp(in, out)
      PROVE  ImageGuarded /\ pc' # "erase"
  BY <1>1, GivenUpGuarded DEF GiveUp, MayReplace
<1>2. ASSUME NEW roles \in EjectRoles, Eject("in" \in roles, "out" \in roles)
      PROVE  ImageGuarded /\ pc' # "erase"
  <2>1. PICK out \in BOOLEAN : out <=> ("out" \in roles \/ indev = outdev)
    OBVIOUS
  <2>2. /\ ~ pending /\ pc' # "erase" /\ indev' = GivenUp(TRUE, out).indev
        /\ img' = GivenUp(TRUE, out).img /\ pending' = GivenUp(TRUE, out).pending
    BY <1>2, <2>1 DEF Eject, GivenUp
  <2> QED BY <2>2, GivenUpGuarded
<1>3. ASSUME NEW in \in BOOLEAN, NEW out \in BOOLEAN, AcquireDisc(in, out)
      PROVE  ImageGuarded /\ pc' # "erase"
  <2>1. pc' # "erase" /\ (in => ~ pending)
    BY <1>3 DEF AcquireDisc, MayReplace
  <2>2. CASE in
    <3>1. \E d : LoadFrom(d, outdev')
      BY <1>3, <2>2 DEF AcquireDisc
    <3>2. ImageNew /\ indev' \in {"none", "disc"}
      BY <3>1, LoadFromNew
    <3> QED BY <2>1, <2>2, <3>2 DEF ImageGuarded, PendingInv
  <2>3. CASE ~ in
    <3>1. /\ indev' = GivenUp(in, out).indev /\ pending' = GivenUp(in, out).pending
          /\ img' = IF GivenUp(in, out).img.present THEN GivenUp(in, out).img
                    ELSE EmptyImage
      BY <1>3, <2>3 DEF AcquireDisc
    <3>2. /\ GivenUp(in, out).indev = indev /\ GivenUp(in, out).img = img
          /\ (GivenUp(in, out).pending <=> pending)
      BY <2>3 DEF GivenUp, PendingInv
    <3> QED BY <2>1, <3>1, <3>2, EmptyGuarded DEF PendingInv
  <2> QED BY <2>2, <2>3, <2>1
<1>4. ASSUME AcquireOther PROVE ImageGuarded /\ pc' # "erase"
  BY <1>4, EmptyUnchanged
  DEF AcquireOther, MayReplace, ImageGuarded, ImageNew, PendingInv
<1> QED BY <1>1, <1>2, <1>3, <1>4, GuardedKeeps DEF Drives

LEMMA RollbackGuarded ==
    ASSUME PendingInv, Rollback
    PROVE  PendingInv' /\ ChangesKept
<1>1. pc' = "cmd" /\ ChangesKept
  BY DEF Rollback, ChangesKept
<1>2. ImageNew /\ indev' \in {"none", "disc", "other"}
  <2>1. CASE indev = "none"
    <3>1. img' = GivenUp(TRUE, FALSE).img /\ indev' = "none" /\ outdev # "none"
      BY <2>1 DEF Rollback
    <3> QED BY <2>1, <3>1, EmptyUnchanged DEF GivenUp, ImageNew
  <2>2. CASE indev = "other"
    BY <2>2, EmptyUnchanged DEF Rollback, ImageNew
  <2>3. CASE indev = "disc"
    <3>1. \E d : LoadFrom(d, outdev)
      BY <2>3 DEF Rollback
    <3> QED BY <3>1, LoadFromNew
  <2> QED BY <2>1, <2>2, <2>3 DEF PendingInv
<1> QED BY <1>1, <1>2 DEF PendingInv, ImageNew

LEMMA EndGuarded ==
    ASSUME PendingInv, ProgramEnds
    PROVE  PendingInv' /\ ChangesKept
<1>1. img' = NoImage /\ indev' = "none" /\ pc' = "ended"
  BY DEF ProgramEnds
<1> QED BY <1>1, EmptyUnchanged DEF PendingInv, ChangesKept

\* Steps that leave the image and the roles of the drives alone.
LEMMA StayGuarded ==
    ASSUME PendingInv, UNCHANGED xVars, pc' # "erase" \/ UNCHANGED pc
    PROVE  PendingInv' /\ ChangesKept
<1>1. UNCHANGED <<indev, outdev, img, pending>>
  BY DEF xVars
<1> QED BY <1>1, GuardedKeeps DEF ImageGuarded, PendingInv

LEMMA WritingGuarded ==
    ASSUME PendingInv,
           \/ \E byEnd \in BOOLEAN : BeginSession(byEnd)
           \/ RefuseSession \/ PrintSize \/ WriteUnit \/ WriteFails
           \/ ActivateUnit \/ ActivateFails \/ EraseUnit \/ Crash \/ Start
           \/ \E n \in ImageSizes : Growisofs(n)
    PROVE  PendingInv' /\ ChangesKept
<1>1. ASSUME NEW byEnd \in BOOLEAN, BeginSession(byEnd)
      PROVE  ProgramEnds \/ (UNCHANGED xVars /\ pc' # "erase")
  BY <1>1 DEF BeginSession
<1>2. CASE RefuseSession \/ ActivateFails \/ Crash
  BY <1>2, EndGuarded DEF RefuseSession, ActivateFails, Crash
<1>3. CASE WriteFails
  BY <1>3, EndGuarded, StayGuarded DEF WriteFails
<1>4. CASE PrintSize \/ ActivateUnit \/ EraseUnit \/ Start
  BY <1>4, StayGuarded DEF PrintSize, ActivateUnit, EraseUnit, Start
<1>5. CASE WriteUnit
  <2>1. UNCHANGED xVars /\ pc' # "erase"
    BY <1>5 DEF WriteUnit
  <2> QED BY <2>1, StayGuarded
<1>6. ASSUME NEW n \in ImageSizes, Growisofs(n) PROVE UNCHANGED xVars /\ UNCHANGED pc
  BY <1>6 DEF Growisofs
<1> QED BY <1>1, <1>2, <1>3, <1>4, <1>5, <1>6, EndGuarded, StayGuarded

LEMMA PendingNextInv ==
    ASSUME PendingInv, [MSNext]_msVars, \A roles \in EjectRoles : "in" \in roles
    PROVE  PendingInv' /\ ChangesKept
<1>1. CASE Modify
  <2>1. /\ img.present /\ img' = [img EXCEPT !.changed = TRUE] /\ pending' = TRUE
        /\ pc' = "cmd" /\ indev' = indev
    BY <1>1 DEF Modify
  <2>2. img'.changed = TRUE /\ img'.present = img.present /\ DOMAIN img' = DOMAIN img
    BY <2>1 DEF PendingInv, NoImage
  <2> QED BY <2>1, <2>2 DEF PendingInv, ChangesKept
<1>2. CASE SessionDone
  <2>1. CASE ProgramEnds
    BY <2>1, EndGuarded
  <2>2. CASE pending' = FALSE /\ Reacquire(TRUE)
    <3>1. \E d : LoadFrom(d, outdev)
      BY <2>2 DEF Reacquire
    <3>2. ImageNew /\ indev' \in {"none", "disc"} /\ pc' = "cmd"
      BY <2>2, <3>1, LoadFromNew DEF Reacquire
    <3>3. pc = "wrote" /\ safe' = cur
      BY <1>2 DEF SessionDone
    <3> QED BY <3>2, <3>3 DEF PendingInv, ChangesKept, ImageNew
  <2> QED BY <1>2, <2>1, <2>2 DEF SessionDone
<1>3. CASE EraseEnds
  <2>1. pc = "erase" /\ pc' = "cmd" /\ pending' = pending
    BY <1>3 DEF EraseEnds, Reacquire
  <2>2. CASE indev = outdev
    <3>1. \E d : LoadFrom(d, outdev)
      BY <1>3, <2>2 DEF EraseEnds, Reacquire
    <3>2. ImageNew /\ indev' \in {"none", "disc"}
      BY <3>1, LoadFromNew
    <3>3. ImageGuarded
      BY <2>1, <2>2, <3>2 DEF ImageGuarded, PendingInv
    <3> QED BY <2>1, <3>3, GuardedKeeps
  <2>3. CASE indev # outdev
    <3>1. indev' = indev /\ img' = IF img.present THEN img ELSE EmptyImage
      BY <1>3, <2>3 DEF EraseEnds, Reacquire
    <3>2. ImageGuarded
      BY <2>1, <3>1, EmptyGuarded DEF PendingInv
    <3> QED BY <2>1, <3>2, GuardedKeeps
  <2> QED BY <2>2, <2>3
<1>4. CASE Blank
  <2>1. UNCHANGED <<indev, outdev, img, pending>> /\ (indev = outdev => ~ pending)
    BY <1>4 DEF Blank, xVars
  <2> QED BY <2>1 DEF PendingInv, ChangesKept
<1>5. CASE UNCHANGED msVars
  BY <1>5, StayGuarded DEF msVars, xVars
<1> QED BY <1>1, <1>2, <1>3, <1>4, <1>5, DrivesGuarded, RollbackGuarded, WritingGuarded
        DEF MSNext

\* Changes of the image in memory are known as pending until they are written
\* and reported, revoked, or the program ends, provided that every -eject
\* which is used regards the input role (MCMultiEject shows what else happens).
THEOREM ChangesStayPending ==
    ASSUME \A roles \in EjectRoles : "in" \in roles
    PROVE  MSSpec => ChangesNotForgotten
<1>1. MSInit => PendingInv
  BY EmptyUnchanged DEF MSInit, PendingInv
<1>2. PendingInv /\ [MSNext]_msVars => PendingInv'
  BY PendingNextInv
<1>3. PendingInv /\ [MSNext]_msVars =>
        [ /\ img.changed /\ pc = "cmd" => pending
          /\ img.changed /\ ~ img'.changed =>
               \/ pc' = "ended"
               \/ Rollback
               \/ pc = "wrote" /\ safe' = cur ]_msVars
  BY PendingNextInv DEF PendingInv, ChangesKept
<1> QED BY <1>1, <1>2, <1>3, PTL DEF MSSpec, ChangesNotForgotten

-----------------------------------------------------------------------------
\* Loading yields the tree of the last session, or of the one chosen by -load.
LEMMA FreshTree ==
    ASSUME MSInv, MSInv', ~ ReadErrors, NEW d, NEW out, LoadFrom(d, out),
           pc' = "cmd", medium' = medium, sess' = sess
    PROVE  LoadInv'
<1>1. /\ img' = LoadedImage(d, FALSE) /\ indev' = "disc" /\ o' = d
  BY DEF LoadFrom, MayFail
<1>2. img'.present = TRUE
  BY <1>1 DEF LoadedImage, EmptyImage, NoImage
<1>3. ASSUME o'.status = "appendable", o'.msc1 = 0
      PROVE  img'.refs = sess'[HeadSession'].refs
  <2>1. HasHeader(1)
    BY <1>3 DEF MSInv, DriveInv, AtRest, HasHeader
  <2>2. d.status # "blank" /\ d.msc1 + 1 = 1
    BY <1>1, <1>3
  <2>3. img' = [EmptyImage EXCEPT !.refs = sess[medium[1].s].refs]
    BY <1>1, <2>1, <2>2 DEF LoadedImage
  <2> QED BY <2>3 DEF EmptyImage, NoImage, HeadSession
<1> QED BY <1>1, <1>2, <1>3 DEF LoadInv

\* Steps that let the loaded image and the state of the disc be.
LEMMA TreeStays ==
    ASSUME LoadInv, indev' = indev, img' = img, o'.status = o.status,
           o'.msc1 = o.msc1, sess'[HeadSession'] = sess[HeadSession],
           pc' \in {"cmd", "write"} => pc \in {"cmd", "write"}
    PROVE  LoadInv'
BY DEF LoadInv

LEMMA DrivesLoad ==
    ASSUME MSInv, MSInv', LoadInv, ~ ReadErrors, Drives
    PROVE  LoadInv'
<1>1. ASSUME NEW in \in BOOLEAN, NEW out \in BOOLEAN,
             indev' = GivenUp(in, out).indev, img' = GivenUp(in, out).img,
             o' = (IF "disc" \in {GivenUp(in, out).indev, GivenUp(in, out).outdev}
                   THEN o ELSE NewO),
             UNCHANGED <<medium, sess, pc>>
      PROVE  LoadInv'
  <2>1. CASE indev' # "disc"
    BY <2>1 DEF LoadInv
  <2>2. CASE indev' = "disc"
    <3>1. ~ in /\ indev' = indev /\ img' = img /\ o' = o
      BY <1>1, <2>2 DEF GivenUp
    <3> QED BY <1>1, <3>1, TreeStays DEF HeadSession
  <2> QED BY <2>1, <2>2
<1>2. ASSUME NEW in \in BOOLEAN, NEW out \in BOOLEAN, GiveUp(in, out) PROVE LoadInv'
  BY <1>1, <1>2 DEF GiveUp
<1>3. ASSUME NEW roles \in EjectRoles, Eject("in" \in roles, "out" \in roles)
      PROVE  LoadInv'
  <2>1. PICK in \in BOOLEAN : in <=> ("in" \in roles \/ indev = outdev)
    OBVIOUS
  <2>2. PICK out \in BOOLEAN : out <=> ("out" \in roles \/ indev = outdev)
    OBVIOUS
  <2>3. /\ indev' = GivenUp(in, out).indev /\ img' = GivenUp(in, out).img
        /\ o' = IF "disc" \in {GivenUp(in, out).indev, GivenUp(in, out).outdev}
                THEN o ELSE NewO
        /\ UNCHANGED <<medium, sess, pc>>
    BY <1>3, <2>1, <2>2 DEF Eject, GivenUp
  <2> QED BY <1>1, <2>3
<1>4. ASSUME NEW in \in BOOLEAN, NEW out \in BOOLEAN, AcquireDisc(in, out)
      PROVE  LoadInv'
  <2>1. pc = "cmd" /\ UNCHANGED <<medium, sess, pc>>
    BY <1>4 DEF AcquireDisc
  <2>2. CASE in
    <3>1. \E d : LoadFrom(d, outdev')
      BY <1>4, <2>2 DEF AcquireDisc
    <3> QED BY <2>1, <3>1, FreshTree
  <2>3. CASE ~ in /\ indev = "disc"
    <3>1. /\ GivenUp(in, out).indev = indev /\ GivenUp(in, out).img = img
          /\ img.present
      BY <2>3 DEF GivenUp, LoadInv
    <3>2. indev' = indev /\ img' = img /\ o' = o
      BY <1>4, <2>3, <3>1 DEF AcquireDisc
    <3> QED BY <2>1, <3>2, TreeStays DEF HeadSession
  <2>4. CASE ~ in /\ indev # "disc"
    <3>1. indev' = indev
      BY <1>4, <2>4 DEF AcquireDisc, GivenUp
    <3> QED BY <2>4, <3>1 DEF LoadInv
  <2> QED BY <2>2, <2>3, <2>4
<1>5. ASSUME AcquireOther PROVE LoadInv'
  BY <1>5 DEF AcquireOther, LoadInv
<1> QED BY <1>2, <1>3, <1>4, <1>5 DEF Drives

LEMMA LoadNextInv ==
    ASSUME MSInv, MSInv', LoadInv, ~ ReadErrors, [MSNext]_msVars
    PROVE  LoadInv'
<1>1. CASE Modify
  <2>1. /\ img' = [img EXCEPT !.changed = TRUE]
        /\ UNCHANGED <<medium, sess, indev, o, pc>>
    BY <1>1 DEF Modify
  <2>2. img'.refs = img.refs /\ img'.present = img.present
    BY <2>1 DEF MSInv, DriveInv, ImageType, NoImage
  <2> QED BY <2>1, <2>2 DEF LoadInv, HeadSession
<1>2. CASE Rollback
  <2>1. UNCHANGED <<medium, sess, pc>> /\ pc = "cmd"
    BY <1>2 DEF Rollback
  <2>2. CASE indev = "disc"
    <3>1. \E d : LoadFrom(d, outdev)
      BY <1>2, <2>2 DEF Rollback
    <3> QED BY <2>1, <3>1, FreshTree
  <2>3. CASE indev # "disc"
    <3>1. indev' # "disc"
      BY <1>2, <2>3 DEF Rollback, MSInv, DriveInv, Roles
    <3> QED BY <3>1 DEF LoadInv
  <2> QED BY <2>2, <2>3
<1>3. ASSUME ProgramEnds PROVE LoadInv'
  BY <1>3 DEF ProgramEnds, LoadInv
<1>4. ASSUME NEW byEnd \in BOOLEAN, BeginSession(byEnd) PROVE LoadInv'
  <2>1. CASE ~ ProgramEnds
    <3>1. PICK x : sess' = sess \/ sess' = Append(sess, x)
      BY <1>4 DEF BeginSession
    <3>2. /\ pc = "cmd" /\ medium' = medium /\ indev' = indev /\ img' = img
          /\ \E n \in ImageSizes, ne \in NoEmulToc, s \in {0, Len(sess) + 1} :
               o' = [Prepared(ne) EXCEPT !.head = NewHead(Prepared(ne), s, n)]
      BY <1>4, <2>1 DEF BeginSession, xVars
    <3>3. o'.status = o.status /\ o'.msc1 = o.msc1
      BY <3>2 DEF Prepared, MSInv, DriveInv, Struct, NewO
    <3>4. CASE indev = "disc" /\ o.status = "appendable"
      <4>1. HeadSession \in Sessions /\ sess \in Seq(Records)
        BY <3>2, <3>4 DEF MSInv, DriveInv, AtRest, MediumInv, SessionsInv, HasHeader,
           HeadSession
      <4>2. sess'[HeadSession'] = sess[HeadSession]
        BY <3>1, <3>2, <4>1 DEF HeadSession, Sessions
      <4> QED BY <3>2, <3>3, <4>2, TreeStays
    <3>5. CASE ~ (indev = "disc" /\ o.status = "appendable")
      BY <3>2, <3>3, <3>5 DEF LoadInv
    <3> QED BY <3>4, <3>5
  <2> QED BY <1>3, <2>1
<1>5. CASE RefuseSession \/ ActivateFails \/ Crash
  BY <1>3, <1>5 DEF RefuseSession, ActivateFails, Crash
<1>6. CASE PrintSize
  <2>1. /\ UNCHANGED <<medium, sess, indev, img, pc>>
        /\ \E n \in ImageSizes, ne \in NoEmulToc :
             o' = [Prepared(ne) EXCEPT !.head = NewHead(Prepared(ne), 0, n)]
    BY <1>6 DEF PrintSize, xVars
  <2>2. o'.status = o.status /\ o'.msc1 = o.msc1
    BY <2>1 DEF Prepared, MSInv, DriveInv, Struct, NewO
  <2> QED BY <2>1, <2>2, TreeStays DEF HeadSession
<1>7. CASE WriteUnit
  <2>1. /\ UNCHANGED <<sess, indev, img, o>> /\ pc = "write"
        /\ \E x : medium' = [medium EXCEPT ![sess[cur].start + unit] = x]
    BY <1>7 DEF WriteUnit, xVars
  <2>2. CASE o.status = "appendable"
    <3>1. sess[cur].start >= 2 /\ sess[cur].start \in Nat /\ unit \in Nat
      BY <2>1, <2>2 DEF MSInv, WritingInv, WritingFits, NeedsActivation, DriveInv,
         Struct, StepInv
    <3>2. medium'[1] = medium[1]
      BY <2>1, <3>1, MSAssumption DEF MSInv, MediumInv, Units
    <3> QED BY <2>1, <3>2, TreeStays DEF HeadSession
  <2>3. CASE o.status # "appendable"
    BY <2>1, <2>3 DEF LoadInv
  <2> QED BY <2>2, <2>3
<1>8. CASE WriteFails
  <2>1. CASE UNCHANGED <<xVars, o>>
    <3>1. UNCHANGED <<medium, sess, indev, img, o>> /\ pc = "write"
      BY <1>8, <2>1 DEF WriteFails, xVars
    <3> QED BY <3>1, TreeStays DEF HeadSession
  <2> QED BY <1>3, <1>8, <2>1 DEF WriteFails
<1>9. CASE ActivateUnit \/ EraseUnit \/ Blank
  BY <1>9 DEF ActivateUnit, EraseUnit, Blank, xVars, LoadInv
<1>10. CASE SessionDone
  <2>1. CASE Reacquire(TRUE)
    <3>1. (\E d : LoadFrom(d, outdev)) /\ pc' = "cmd" /\ medium' = medium /\ sess' = sess
      BY <1>10, <2>1 DEF Reacquire, SessionDone
    <3> QED BY <3>1, FreshTree
  <2> QED BY <1>3, <1>10, <2>1 DEF SessionDone
<1>11. CASE EraseEnds
  <2>1. /\ medium' = medium /\ sess' = sess /\ pc' = "cmd" /\ outdev = "disc"
    BY <1>11 DEF EraseEnds, Reacquire, MSInv, StepInv
  <2>2. CASE indev = outdev
    <3>1. \E d : LoadFrom(d, outdev)
      BY <1>11, <2>2 DEF EraseEnds, Reacquire
    <3> QED BY <2>1, <3>1, FreshTree
  <2>3. CASE indev # outdev
    <3>1. indev' # "disc"
      BY <1>11, <2>1, <2>3 DEF EraseEnds, Reacquire
    <3> QED BY <3>1 DEF LoadInv
  <2> QED BY <2>2, <2>3
<1>12. CASE Start \/ UNCHANGED msVars
  <2>1. UNCHANGED <<medium, sess, indev, img, o>> /\ (pc = "ended" \/ pc' = pc)
    BY <1>12 DEF Start, msVars, xVars
  <2>2. pc = "ended" => indev = "none"
    BY DEF MSInv, StepInv
  <2> QED BY <2>1, <2>2, TreeStays DEF HeadSession, LoadInv
<1>13. ASSUME NEW n \in ImageSizes, Growisofs(n) PROVE LoadInv'
  BY <1>13 DEF Growisofs, xVars, LoadInv
<1> QED BY <1>1, <1>2, <1>4, <1>5, <1>6, <1>7, <1>8, <1>9, <1>10, <1>11, <1>12, <1>13,
           DrivesLoad DEF MSNext

\* The tree that -dev and -indev load is the one of the youngest session, if
\* nothing goes wrong with reading: read errors are the only cause for the
\* empty tree which MCMultiReadError meets.
THEOREM LoadedTreeComplete ==
    ASSUME HeadKept, ~ ReadErrors
    PROVE  MSSpec => []LoadedTreeIsComplete
<1>1. MSInit => MSInv /\ LoadInv
  BY MSInitInv DEF MSInit, LoadInv, NewO
<1>2. MSInv /\ LoadInv /\ [MSNext]_msVars => MSInv' /\ LoadInv'
  BY MSNextInv, LoadNextInv
<1>3. LoadInv => LoadedTreeIsComplete
  BY DEF LoadInv, LoadedTreeIsComplete
<1> QED BY <1>1, <1>2, <1>3, PTL DEF MSSpec

=============================================================================
