-------------------------- MODULE FileSourcesProofs --------------------------
(***************************************************************************)
(* Proofs about the content of data files, for any files, sizes, order of  *)
(* writing, block and extent size, and any changes of the files on disk:   *)
(*                                                                         *)
(*   ContentIsAlwaysInPlace   the extents of each file lead to its content *)
(*   ExtentsAlwaysFit         no extent is too large, or empty             *)
(*   ChangesAreAlwaysReported what differed when read twice gets reported  *)
(*   SumsAlwaysMatch          checksums are those of the data in the image *)
(*                                                                         *)
(* All but ExtentsAlwaysFit have the premise ClaimsAreCounted: no file is  *)
(* claimed as EFI partition for which the 32 bit sum of blocks wraps       *)
(* around.  They rest on the inductive invariant FSInv: how long the image *)
(* is at each position of the list (ProgressInv), by the places which the  *)
(* first pass computed (LayoutInv); what holds of the files behind that    *)
(* position (PastInv), where nothing writes any more; what holds of the    *)
(* current file up to its block b (FilledInv, CurrentInv).  A file may     *)
(* change during each of the two readings: if both saw the same, there is  *)
(* a generation which parts them (Parts), so that the image holds units of *)
(* one generation or zeros.                                                *)
(*                                                                         *)
(* The recursive function Places and the one inside FlattenSeq get their   *)
(* values from the lemma Recursion, which only needs that every set of     *)
(* natural numbers has a least element.                                    *)
(***************************************************************************)
EXTENDS FileSources, TLAPS, FiniteSetTheorems

-----------------------------------------------------------------------------
(* The inductive invariant                                                 *)

\* The extents of a file that begins at block a.
Extents(k, a) ==
    [e \in 1 .. NSections(Size(k)) |->
       [block |-> a + (e - 1) * ExtentBlocks,
        size  |-> IF e < NSections(Size(k)) THEN Extent
                  ELSE Size(k) - (NSections(Size(k)) - 1) * Extent]]

\* Units of these generations
Of(gens) == {Zero} \cup (Inodes \X gens \X Nat)
Units    == Of(Nat)
Since(g) == {h \in Nat : h >= g}
ImageBlocks == [1 .. BlockSize -> Units]

\* Where the state machine is within a file.
Filling == {"read", "fill"}
Within  == Filling \cup {"first", "open", "zeros"}
Ended   == {"done", "aborted"}

TypeInv ==
    /\ disk \in [Inodes -> [size : Sizes, gen : 1 .. changes + 1]]
    /\ changes \in 0 .. MaxChanges
    /\ DOMAIN src \subseteq Keys /\ IsFiniteSet(DOMAIN src) /\ efi \in DOMAIN src \cup {NoKey}
    /\ efi # NoKey => LastSection(Size(efi)) <= Extent
    /\ broken \subseteq reported /\ reported \subseteq DOMAIN src /\ twice \subseteq DOMAIN src
    /\ DOMAIN sums \subseteq DOMAIN src
    /\ img \in Seq(ImageBlocks)
    /\ n \in Nat /\ b \in Nat
    /\ pc \in {"tree", "partition", "next"} \cup Within \cup Ended

\* Before the first pass there are numbers of extents only.
TreeInv ==
    pc = "tree" =>
      /\ n = 0 /\ img = <<>> /\ twice = {} /\ reported = {} /\ sums = <<>>
      /\ \A k \in DOMAIN src :
            src[k] = [e \in 1 .. NSections(Size(k)) |-> [block |-> 0, size |-> 0]]

\* A file that was never changed has still the size by which it is known.
FreshInv == \A k \in DOMAIN src : disk[k[1]].gen = 1 => disk[k[1]].size = Size(k)

\* The positions at which a file gets written, the partition at 0, its key and
\* its first block.
KeyAt(m) == IF m = 0 THEN efi ELSE list[m]
At(m)    == IF m = 0 THEN Start ELSE First + Places(list)[m]
Writes   == {m \in 0 .. Len(list) : IF m = 0 THEN EfiBlocks > 0 ELSE list[m] # efi}

\* The result of the first pass
LayoutInv ==
    pc # "tree" =>
      /\ list \in Seq(Keys) /\ n <= Len(list) + 1
      /\ \A m \in DOMAIN list : list[m] \in DOMAIN src
      /\ \A m1, m2 \in DOMAIN list : list[m1] = list[m2] => m1 = m2
      /\ \A k \in DOMAIN src : \E m \in DOMAIN list : list[m] = k
      /\ end = At(Len(list) + 1)
      /\ \A m \in Writes : Size(KeyAt(m)) > 0 => src[KeyAt(m)] = Extents(KeyAt(m), At(m))
      /\ \A k \in DOMAIN src : Size(k) = 0 => DOMAIN src[k] = {1} /\ src[k][1].size = 0

\* What was written before: the files at smaller positions, and the partition.
Past(m) == m < n \/ (m = 0 /\ n = 0 /\ pc = "next")
Filled  == IF pc \in Filling THEN b ELSE 0

\* How long the image is: up to file n and b blocks of it.
ProgressInv ==
    pc \notin {"tree", "aborted"} =>
      /\ pc = "partition" => n = 0 /\ 0 \in Writes
      /\ pc \in Within => n \in Writes
      /\ pc = "done" => n = Len(list) + 1
      /\ Start + Len(img) = IF n = 0 /\ pc = "next" THEN First ELSE At(n) + Filled

\* What the image shows of a file is what the file was at some time, or zeros.
TrueUnit(k, p, u) ==
    /\ u = Zero \/ \E g \in 1 .. disk[k[1]].gen : u = <<k[1], g, p>>
    /\ disk[k[1]].gen = 1 /\ k \notin broken => u = <<k[1], 1, p>>

\* What holds of a file that was written.
Done(m) ==
    /\ At(m) + DivUp(Size(KeyAt(m))) <= Start + Len(img)
    /\ \A p \in 1 .. Size(KeyAt(m)) : TrueUnit(KeyAt(m), p, ImageUnit(At(m), p))
    /\ KeyAt(m) \in DOMAIN sums \ broken =>
         sums[KeyAt(m)] = [p \in 1 .. Size(KeyAt(m)) |-> ImageUnit(At(m), p)]
    /\ KeyAt(m) \in twice \ reported =>
         \E g \in 1 .. disk[KeyAt(m)[1]].gen : \A p \in 1 .. Size(KeyAt(m)) :
            ImageUnit(At(m), p) = Zero \/ ImageUnit(At(m), p) = <<KeyAt(m)[1], g, p>>

PastInv ==
    pc \notin {"tree", "aborted"} =>
      /\ \A m \in Writes : Past(m) => Done(m)
      /\ \A k \in DOMAIN sums : \E m \in Writes : Past(m) /\ KeyAt(m) = k
      /\ \A k \in twice : \E m \in Writes :
           KeyAt(m) = k /\ (Past(m) \/ (m = n /\ pc \in Within))

\* What holds of the file that is being written: b blocks of it are well, and
\* the checksum has seen them.
FilledInv ==
    pc \in Filling =>
      /\ b <= DivUp(Size(Key))
      /\ \A p \in 1 .. Size(Key) :
           p <= b * BlockSize => TrueUnit(Key, p, ImageUnit(At(n), p))
      /\ Key \notin broken =>
           /\ digest \in Seq(Units)
           /\ Len(digest) = IF b * BlockSize < Size(Key) THEN b * BlockSize ELSE Size(Key)
           /\ \A p \in 1 .. Len(digest) : digest[p] = ImageUnit(At(n), p)

\* Generation g parts the two readings: the first one has seen none that is
\* younger, and the image gets none that is older.
Parts(g) ==
    /\ \A p \in DOMAIN pre : pre[p] \in Of(1 .. g)
    /\ pc \in Filling => \A p \in 1 .. Size(Key) :
         p <= b * BlockSize => ImageUnit(At(n), p) \in Of(Since(g))

CurrentInv ==
    pc \in Within =>
      /\ pc \in {"first", "open"} => digest = <<>>
      /\ pc = "open" => b = 0
      /\ pc \in {"zeros", "fill"} => Key \in broken
      /\ pc = "first" =>
           /\ Key \notin twice /\ pre \in Seq(Units)
           /\ \A p \in DOMAIN pre : pre[p] \in Of(1 .. disk[Key[1]].gen)
      /\ Key \in twice => \E g \in 1 .. disk[Key[1]].gen : Parts(g)

FSInv == TypeInv /\ TreeInv /\ FreshInv /\ LayoutInv /\ ProgressInv /\ PastInv
         /\ FilledInv /\ CurrentInv

-----------------------------------------------------------------------------
(* Induction and recursion over numbers                                    *)

LEMMA Least ==
    ASSUME NEW T \in SUBSET Nat, T # {}
    PROVE  \E x \in T : \A y \in T : x <= y
<1> SUFFICES ASSUME \A x \in T : \E y \in T : y < x
             PROVE  FALSE
  <2>1. \A x, y \in T : ~ (x <= y) => y < x
    OBVIOUS
  <2> QED BY <2>1
<1>1. PICK t \in T : TRUE
  OBVIOUS
<1> DEFINE W == {w \in 0 .. t : \A m \in T : w < m}
           f == [w \in W |-> w + 1]
<1>2. 0 \in W
  OBVIOUS
<1>3. \A w \in W : w + 1 \in W
  OBVIOUS
<1>4. IsFiniteSet(W)
  <2>1. IsFiniteSet(0 .. t) /\ W \in SUBSET (0 .. t)
    BY FS_Interval
  <2> QED BY <2>1, FS_Subset
<1>5. IsFiniteSet(W \ {0}) /\ Cardinality(W \ {0}) = Cardinality(W) - 1
  BY <1>2, <1>4, FS_RemoveElement
<1>6. Cardinality(W) \in Nat
  BY <1>4, FS_CardinalityType
<1>7. f \in [W -> W \ {0}]
  BY <1>3
<1>8. \E x, y \in W : x # y /\ f[x] = f[y]
  <2>1. Cardinality(W \ {0}) < Cardinality(W)
    BY <1>5, <1>6
  <2> HIDE DEF f, W
  <2> QED BY <1>4, <1>5, <1>7, <2>1, FS_PigeonHole
<1> QED BY <1>8

LEMMA Induct ==
    ASSUME NEW N \in Nat, NEW T, 0 \in T, \A i \in 1 .. N : i - 1 \in T => i \in T
    PROVE  \A i \in 0 .. N : i \in T
<1> DEFINE Out == {i \in 0 .. N : i \notin T}
<1> SUFFICES ASSUME Out # {} PROVE FALSE
  OBVIOUS
<1>1. PICK x \in Out : \A y \in Out : x <= y
  <2>1. Out \in SUBSET Nat
    OBVIOUS
  <2> HIDE DEF Out
  <2> QED BY <2>1, Least
<1>2. x # 0 /\ x \in 1 .. N /\ x - 1 \in 0 .. N /\ ~ (x <= x - 1)
  OBVIOUS
<1>3. x - 1 \in T
  BY <1>1, <1>2
<1> QED BY <1>2, <1>3

\* h has the results of iterating N functions on a base.
Iterates(h, N, base, g) == h[0] = base /\ \A i \in 1 .. N : h[i] = g[i][h[i - 1]]

\* A recursion over the numbers up to N is defined.
LEMMA Recursion ==
    ASSUME NEW N \in Nat, NEW V, NEW base \in V, NEW g \in [1 .. N -> [V -> V]]
    PROVE  \E h \in [0 .. N -> V] : Iterates(h, N, base, g)
<1> USE DEF Iterates
<1> DEFINE T == {m \in 0 .. N : \E h \in [0 .. m -> V] :
                    h[0] = base /\ \A i \in 1 .. m : h[i] = g[i][h[i - 1]]}
<1>1. 0 \in T
  <2> DEFINE f == [i \in 0 .. 0 |-> base]
  <2>1. f \in [0 .. 0 -> V] /\ f[0] = base /\ 1 .. 0 = {}
    OBVIOUS
  <2>2. \A i \in 1 .. 0 : f[i] = g[i][f[i - 1]]
    BY <2>1
  <2> HIDE DEF f
  <2> QED BY <2>1, <2>2
<1>2. ASSUME NEW m \in 1 .. N, m - 1 \in T PROVE m \in T
  <2>1. PICK h \in [0 .. m - 1 -> V] :
           h[0] = base /\ \A i \in 1 .. m - 1 : h[i] = g[i][h[i - 1]]
    BY <1>2
  <2> DEFINE f == [i \in 0 .. m |-> IF i = m THEN g[m][h[m - 1]] ELSE h[i]]
  <2>2. f \in [0 .. m -> V]
    <3>1. h[m - 1] \in V /\ g[m] \in [V -> V]
      BY <2>1
    <3> QED BY <3>1
  <2>3. f[0] = base /\ \A i \in 1 .. m : f[i] = g[i][f[i - 1]]
    <3>1. f[0] = base
      BY <2>1
    <3>2. ASSUME NEW i \in 1 .. m PROVE f[i] = g[i][f[i - 1]]
      <4>1. i - 1 \in 0 .. m /\ i - 1 # m /\ f[i - 1] = h[i - 1]
        OBVIOUS
      <4>2. CASE i = m
        BY <4>1, <4>2
      <4>3. CASE i # m
        BY <2>1, <4>1, <4>3
      <4> QED BY <4>2, <4>3
    <3> QED BY <3>1, <3>2
  <2> HIDE DEF f
  <2> QED BY <2>2, <2>3
<1>3. N \in T
  <2>1. \A m \in 1 .. N : m - 1 \in T => m \in T
    BY <1>2
  <2>2. N \in 0 .. N
    OBVIOUS
  <2> HIDE DEF T
  <2> QED BY <1>1, <2>1, <2>2, Induct
<1> QED BY <1>3

-----------------------------------------------------------------------------
(* Blocks, extents and the image                                           *)

LEMMA Constants ==
    /\ BlockSize \in Nat /\ BlockSize >= 1 /\ ExtentBlocks \in Nat /\ ExtentBlocks >= 1
    /\ Extent \in Nat /\ Extent >= BlockSize /\ Extent = ExtentBlocks * BlockSize
    /\ MaxSection = Extent + BlockSize - 1
    /\ Start \in Nat /\ Start >= 1
<1>1. /\ BlockSize \in Nat /\ BlockSize >= 1 /\ ExtentBlocks \in Nat /\ ExtentBlocks >= 1
      /\ Start \in Nat /\ Start >= 1
  BY FSAssumption
<1>2. ASSUME NEW x \in Nat, NEW y \in Nat, x >= 1, y >= 1 PROVE x * y \in Nat /\ x * y >= y
  BY <1>2, Z3
<1> QED BY <1>1, <1>2 DEF Extent, MaxSection

LEMMA Steps ==
    ASSUME NEW B \in Nat, B >= 1, NEW x \in Int, NEW y \in Int
    PROVE  /\ x * B \in Int /\ (x + 1) * B = x * B + B /\ (x - 1) * B = x * B - B
           /\ (x + y) * B = x * B + y * B
           /\ x < y => x * B + B <= y * B
           /\ x <= y => x * B <= y * B
           /\ x * B < y * B => x < y
BY Z3

LEMMA DivMod ==
    ASSUME NEW B \in Nat, B >= 1, NEW a \in Nat
    PROVE  /\ a \div B \in Nat /\ a % B \in 0 .. B - 1
           /\ a = (a \div B) * B + (a % B)
BY Z3

LEMMA DivIs ==
    ASSUME NEW B \in Nat, B >= 1, NEW d \in Nat, NEW r \in 0 .. B - 1
    PROVE  (d * B + r) \div B = d /\ (d * B + r) % B = r
<1> DEFINE a == d * B + r
<1>1. a \in Nat
  BY Z3
<1>2. /\ a \div B \in Nat /\ a % B \in 0 .. B - 1
      /\ a = (a \div B) * B + (a % B)
  BY <1>1, DivMod
<1> DEFINE e == a \div B
           s == a % B
<1>3. e \in Nat /\ s \in 0 .. B - 1 /\ e * B + s = d * B + r
  BY <1>2
<1> HIDE DEF e, s
<1>4. ~ (e < d) /\ ~ (d < e)
  <2>1. (e < d => e * B + B <= d * B) /\ (d < e => d * B + B <= e * B)
        /\ e * B \in Int /\ d * B \in Int
    BY <1>3, Steps
  <2> QED BY <1>3, <2>1
<1>5. e = d /\ s = r
  BY <1>3, <1>4, Z3
<1> QED BY <1>5 DEF e, s

\* How many blocks a file takes.
LEMMA DivUpFacts ==
    ASSUME NEW size \in Nat
    PROVE  /\ DivUp(size) \in Nat
           /\ size <= DivUp(size) * BlockSize /\ DivUp(size) * BlockSize < size + BlockSize
           /\ DivUp(size) = 0 <=> size = 0
           /\ \A m \in Nat : m < DivUp(size) <=> m * BlockSize < size
<1> DEFINE B == BlockSize
           a == size + B - 1
           d == a \div B
           r == a % B
<1>1. B \in Nat /\ B >= 1 /\ a \in Nat
  BY Constants
<1>2. d \in Nat /\ r \in 0 .. B - 1 /\ a = d * B + r
  <2> HIDE DEF B, a
  <2> QED BY <1>1, DivMod
<1>3. DivUp(size) = d
  BY DEF DivUp
<1> HIDE DEF d, r
<1>4. d * B \in Int
  BY <1>1, <1>2, Steps
<1>5. size <= d * B /\ d * B < size + B
  BY <1>1, <1>2, <1>4
<1>6. ASSUME NEW m \in Nat PROVE m < d <=> m * B < size
  <2>1. /\ m * B \in Int /\ (m < d => m * B + B <= d * B)
        /\ (m * B < d * B => m < d)
    BY <1>1, <1>2, Steps
  <2> HIDE DEF B
  <2> QED BY <1>1, <1>2, <1>4, <1>5, <2>1
<1>7. d = 0 <=> size = 0
  <2>1. 0 * B = 0
    BY <1>1
  <2>2. 0 < d <=> 0 < size
    BY <1>6, <2>1
  <2> QED BY <1>2, <2>2
<1> QED BY <1>2, <1>3, <1>5, <1>6, <1>7

\* Where unit p of a file is.
LEMMA UnitPlace ==
    ASSUME NEW p \in Nat, p >= 1
    PROVE  /\ (p - 1) \div BlockSize \in Nat /\ ((p - 1) % BlockSize) + 1 \in 1 .. BlockSize
           /\ p = ((p - 1) \div BlockSize) * BlockSize + ((p - 1) % BlockSize) + 1
           /\ \A m \in Nat : /\ p <= m * BlockSize => (p - 1) \div BlockSize < m
                             /\ m * BlockSize < p => m <= (p - 1) \div BlockSize
<1> DEFINE B == BlockSize
           a == p - 1
           d == a \div B
           r == a % B
<1>1. B \in Nat /\ B >= 1 /\ a \in Nat
  BY Constants
<1>2. d \in Nat /\ r \in 0 .. B - 1 /\ a = d * B + r
  <2> HIDE DEF B, a
  <2> QED BY <1>1, DivMod
<1> HIDE DEF d, r
<1>3. d * B \in Int
  BY <1>1, <1>2, Steps
<1>4. ASSUME NEW m \in Nat
      PROVE  (p <= m * B => d < m) /\ (m * B < p => m <= d)
  <2>1. /\ m * B \in Int /\ (d * B < m * B => d < m)
        /\ (d < m => d * B + B <= m * B)
    BY <1>1, <1>2, Steps
  <2> HIDE DEF B
  <2>2. CASE p <= m * B
    BY <1>1, <1>2, <1>3, <2>1, <2>2
  <2>3. CASE m * B < p
    BY <1>1, <1>2, <1>3, <2>1, <2>3
  <2> QED BY <1>2, <1>3, <2>1, <2>2, <2>3
<1>5. p = d * B + r + 1 /\ r + 1 \in 1 .. B
  BY <1>1, <1>2, <1>3
<1> QED BY <1>2, <1>4, <1>5 DEF d, r

\* Which unit of a file is unit r of its block d.
LEMMA UnitAt ==
    ASSUME NEW d \in Nat, NEW r \in 1 .. BlockSize, NEW p, p = d * BlockSize + r
    PROVE  p \in Nat /\ p >= 1 /\ (p - 1) \div BlockSize = d /\ ((p - 1) % BlockSize) + 1 = r
<1>1. BlockSize \in Nat /\ BlockSize >= 1 /\ r - 1 \in 0 .. BlockSize - 1
  BY Constants
<1>2. d * BlockSize \in Nat
  BY <1>1, Z3
<1>3. p - 1 = d * BlockSize + (r - 1) /\ p \in Nat /\ p >= 1
  BY <1>1, <1>2
<1>4. (p - 1) \div BlockSize = d /\ (p - 1) % BlockSize = r - 1
  <2>1. PICK w : w = r - 1
    OBVIOUS
  <2>2. w \in 0 .. BlockSize - 1 /\ BlockSize \in Nat /\ BlockSize >= 1
    BY <1>1, <2>1
  <2>3. (d * BlockSize + w) \div BlockSize = d /\ (d * BlockSize + w) % BlockSize = w
    BY <2>2, DivIs
  <2>4. p - 1 = d * BlockSize + w
    BY <1>3, <2>1
  <2> QED BY <2>1, <2>3, <2>4
<1> QED BY <1>3, <1>4

\* An extent that begins c blocks later shows the units from there on.
LEMMA ImageShift ==
    ASSUME NEW q \in Nat, q >= 1, NEW c \in Nat, NEW block \in Int
    PROVE  ImageUnit(block + c, q) = ImageUnit(block, q + c * BlockSize)
<1> DEFINE d == (q - 1) \div BlockSize
           r == ((q - 1) % BlockSize) + 1
<1>1. d \in Nat /\ r \in 1 .. BlockSize /\ q = d * BlockSize + r
  <2>1. q = d * BlockSize + ((q - 1) % BlockSize) + 1
    BY UnitPlace
  <2>2. d \in Nat /\ r \in 1 .. BlockSize
    BY UnitPlace
  <2>3. BlockSize \in Nat /\ d * BlockSize \in Int /\ (q - 1) % BlockSize \in Int
    BY <2>2, Constants, Steps
  <2> QED BY <2>1, <2>2, <2>3
<1> HIDE DEF d, r
<1>2. BlockSize \in Nat /\ BlockSize >= 1
  BY Constants
<1>3. /\ (d + c) * BlockSize = d * BlockSize + c * BlockSize
      /\ d * BlockSize \in Int /\ c * BlockSize \in Int
  BY <1>1, <1>2, Steps
<1>4. q + c * BlockSize = (d + c) * BlockSize + r
  BY <1>1, <1>2, <1>3
<1> DEFINE p == q + c * BlockSize
           x == (block + c) - Start + 1 + d
           y == block - Start + 1 + (d + c)
<1>5. p = (d + c) * BlockSize + r /\ d + c \in Nat
  BY <1>1, <1>4
<1>6. x = y
  BY <1>1, Constants
<1>7. ImageUnit(block + c, q) = IF x \in DOMAIN img THEN img[x][r] ELSE Beyond
  BY DEF ImageUnit, d, r
<1>8. ImageUnit(block, p) = IF y \in DOMAIN img THEN img[y][r] ELSE Beyond
  <2> HIDE DEF p
  <2>1. (p - 1) \div BlockSize = d + c /\ ((p - 1) % BlockSize) + 1 = r
    BY <1>1, <1>5, UnitAt
  <2> QED BY <2>1 DEF ImageUnit
<1> HIDE DEF x, y
<1> QED BY <1>6, <1>7, <1>8

\* What remains for the last extent: not too much, and nothing for empty files only.
LEMMA SectionCount ==
    ASSUME NEW size \in Nat
    PROVE  LET last == NSections(size)
               rest == size - (last - 1) * Extent
           IN  /\ last \in Nat /\ last >= 1 /\ (last - 1) * Extent \in Nat
               /\ rest \in Nat /\ rest <= MaxSection
               /\ rest > 0 \/ (size = 0 /\ last = 1)
<1> DEFINE E == Extent
           M == MaxSection
           a == size - M + E - 1
           d == a \div E
           r == a % E
<1>1. E \in Nat /\ E >= 1 /\ M \in Nat /\ M >= E
  BY Constants
<1>2. CASE size <= M
  <2>1. NSections(size) = 1 /\ 0 * E = 0
    BY <1>1, <1>2 DEF NSections
  <2> QED BY <1>1, <1>2, <2>1
<1>3. CASE size > M
  <2>1. a \in Nat
    BY <1>1, <1>3
  <2>2. d \in Nat /\ r \in 0 .. E - 1 /\ a = d * E + r
    <3> HIDE DEF E, a
    <3> QED BY <1>1, <2>1, DivMod
  <2>3. NSections(size) = d + 1
    BY <1>1, <1>3 DEF NSections
  <2> HIDE DEF d, r
  <2>4. d * E \in Nat /\ (d + 1) - 1 = d
    BY <1>1, <2>2, Z3
  <2>5. size - d * E <= M /\ size - d * E > 0
    <3>1. M = E + BlockSize - 1 /\ BlockSize \in Nat /\ BlockSize >= 1
      BY Constants
    <3> HIDE DEF E, M
    <3> QED BY <1>1, <1>3, <2>1, <2>2, <2>4, <3>1
  <2> QED BY <1>1, <2>2, <2>3, <2>4, <2>5
<1> QED BY <1>1, <1>2, <1>3

\* The addition of uint32_t yields the sum unless the last extent is too large.
LEMMA SumOfBlocksIs ==
    ASSUME NEW size \in Nat, LastSection(size) <= Extent
    PROVE  SumOfBlocks(size) = DivUp(size)
<1> DEFINE B == BlockSize
           rest == LastSection(size)
           q == (NSections(size) - 1) * ExtentBlocks
           x == rest + B - 1
           d == x \div B
           r == x % B
<1>1. /\ B \in Nat /\ B >= 1 /\ Extent \in Nat /\ ExtentBlocks \in Nat
      /\ Extent = ExtentBlocks * B
  BY Constants
<1>2. NSections(size) \in Nat /\ NSections(size) >= 1 /\ rest \in Nat
      /\ rest = size - (NSections(size) - 1) * Extent
      /\ (NSections(size) - 1) * Extent \in Nat
  BY SectionCount DEF LastSection
<1>3. q \in Nat /\ q * B = (NSections(size) - 1) * Extent
  <2>1. \A i, j, k \in Nat : i * j \in Nat /\ (i * j) * k = i * (j * k)
    BY Z3
  <2>2. NSections(size) - 1 \in Nat
    BY <1>2
  <2> QED BY <1>1, <2>1, <2>2
<1> HIDE DEF q, rest
<1>4. size = q * B + rest /\ q * B \in Nat
  BY <1>2, <1>3
<1>5. x \in Nat /\ Word = Extent + B /\ x \in 0 .. Word - 1 /\ Word \in Nat /\ Word >= 1
  BY <1>1, <1>2 DEF rest, Word
<1>6. x % Word = x
  <2> HIDE DEF x
  <2>1. PICK W \in Nat : W = Word
    BY <1>5
  <2>2. (0 * W + x) % W = x /\ 0 * W + x = x
    BY <1>5, <2>1, DivIs
  <2> QED BY <2>1, <2>2
<1>7. d \in Nat /\ r \in 0 .. B - 1 /\ x = d * B + r
  <2> HIDE DEF x, B
  <2> QED BY <1>1, <1>5, DivMod
<1>8. SumOfBlocks(size) = q + d
  BY <1>6 DEF SumOfBlocks, q, rest
<1>9. DivUp(size) = (q * B + x) \div B
  <2>1. size + B - 1 = q * B + x
    BY <1>1, <1>2, <1>4
  <2> QED BY <2>1 DEF DivUp
<1> HIDE DEF x, d, r
<1>10. q * B + x = (q + d) * B + r /\ q + d \in Nat
  BY <1>1, <1>3, <1>4, <1>7, Steps
<1>11. ((q + d) * B + r) \div B = q + d
  <2> HIDE DEF B
  <2> QED BY <1>1, <1>7, <1>10, DivIs
<1> QED BY <1>8, <1>9, <1>10, <1>11

\* The recursive function Places is what its definition says.
LEMMA PlacesFacts ==
    ASSUME NEW K, NEW order \in Seq(K), \A k \in K : Blocks(k) \in Nat
    PROVE  /\ Places(order) \in [1 .. Len(order) + 1 -> Nat]
           /\ Places(order)[1] = IF OldEmpty THEN 0 ELSE 1
           /\ \A m \in 1 .. Len(order) :
                 Places(order)[m + 1] = Places(order)[m] + Blocks(order[m])
<1> DEFINE L == Len(order)
           base == IF OldEmpty THEN 0 ELSE 1
           g == [i \in 1 .. L |-> [v \in Nat |-> v + Blocks(order[i])]]
           Def(f) == f = [m \in 1 .. L + 1 |->
                            IF m = 1 THEN base ELSE f[m - 1] + Blocks(order[m - 1])]
<1>1. L \in Nat /\ base \in Nat /\ \A i \in 1 .. L : order[i] \in K
  OBVIOUS
<1>2. g \in [1 .. L -> [Nat -> Nat]]
  BY <1>1
<1>3. PICK h \in [0 .. L -> Nat] : Iterates(h, L, base, g)
  <2> HIDE DEF L, g, base, Def
  <2> QED BY <1>1, <1>2, Recursion
<1> USE DEF Iterates
<1> DEFINE f == [m \in 1 .. L + 1 |-> h[m - 1]]
<1>4. Def(f)
  <2>1. ASSUME NEW m \in 1 .. L + 1
        PROVE  f[m] = IF m = 1 THEN base ELSE f[m - 1] + Blocks(order[m - 1])
    <3>1. CASE m = 1
      BY <1>3, <3>1
    <3>2. CASE m # 1
      <4>1. m - 1 \in 1 .. L /\ m - 1 \in 1 .. L + 1 /\ (m - 1) - 1 \in 0 .. L
        BY <1>1, <3>2
      <4>2. h[m - 1] = g[m - 1][h[(m - 1) - 1]] /\ h[(m - 1) - 1] \in Nat
        BY <1>3, <4>1
      <4> QED BY <3>2, <4>1, <4>2
    <3> QED BY <3>1, <3>2
  <2> QED BY <2>1
<1>5. Places(order) = CHOOSE p : Def(p)
  BY DEF Places
<1>6. Def(Places(order))
  <2>1. \E p : Def(p)
    BY <1>4
  <2> HIDE DEF Def
  <2> QED BY <1>5, <2>1
<1> DEFINE P == Places(order)
<1>7. DOMAIN P = 1 .. L + 1 /\ P[1] = base
  BY <1>1, <1>6
<1>8. \A m \in 1 .. L : P[m + 1] = P[m] + Blocks(order[m])
  <2> TAKE m \in 1 .. L
  <2>1. m + 1 \in 1 .. L + 1 /\ m + 1 # 1 /\ (m + 1) - 1 = m
    BY <1>1
  <2> QED BY <1>6, <2>1
<1>9. \A m \in 1 .. L + 1 : P[m] \in Nat
  <2> DEFINE T == {i \in 0 .. L : P[i + 1] \in Nat}
  <2>1. 0 \in T
    BY <1>1, <1>7
  <2>2. \A i \in 1 .. L : i - 1 \in T => i \in T
    <3> TAKE i \in 1 .. L
    <3>1. (i - 1) + 1 = i /\ order[i] \in K
      BY <1>1
    <3> QED BY <1>8, <3>1
  <2>3. \A i \in 0 .. L : i \in T
    <3> HIDE DEF T, L
    <3> QED BY <1>1, <2>1, <2>2, Induct
  <2>4. ASSUME NEW m \in 1 .. L + 1 PROVE P[m] \in Nat
    <3>1. m - 1 \in 0 .. L /\ (m - 1) + 1 = m
      BY <1>1
    <3> QED BY <2>3, <3>1
  <2> QED BY <2>4
<1>10. P \in [1 .. L + 1 -> Nat]
  <2>1. P = [m \in 1 .. L + 1 |-> P[m]]
    BY <1>6, <1>7
  <2> HIDE DEF P
  <2> QED BY <1>9, <2>1
<1> QED BY <1>7, <1>8, <1>10

LEMMA ConcatAt ==
    ASSUME NEW U, NEW s \in Seq(U), NEW t \in Seq(U)
    PROVE  /\ s \o t \in Seq(U) /\ Len(s) \in Nat /\ Len(t) \in Nat
           /\ Len(s \o t) = Len(s) + Len(t)
           /\ \A j \in 1 .. Len(s) : (s \o t)[j] = s[j]
           /\ \A j \in 1 .. Len(t) : (s \o t)[Len(s) + j] = t[j]
OBVIOUS

\* What FlattenSeq() makes of extents that have equal sizes but for the last.
LEMMA FlattenFacts ==
    ASSUME NEW U, NEW seqs \in Seq(Seq(U)), Len(seqs) >= 1, NEW E \in Nat, E >= 1,
           \A e \in 1 .. Len(seqs) - 1 : Len(seqs[e]) = E
    PROVE  /\ FlattenSeq(seqs) \in Seq(U)
           /\ Len(FlattenSeq(seqs)) = (Len(seqs) - 1) * E + Len(seqs[Len(seqs)])
           /\ \A e \in 1 .. Len(seqs) : \A q \in 1 .. Len(seqs[e]) :
                 FlattenSeq(seqs)[(e - 1) * E + q] = seqs[e][q]
<1> DEFINE L == Len(seqs)
           V == Seq(U)
           g == [i \in 1 .. L - 1 |-> [v \in V |-> v \o seqs[i + 1]]]
           Def(f) == f = [i \in 1 .. L |->
                            IF i = 1 THEN seqs[i] ELSE f[i - 1] \o seqs[i]]
<1>1. L \in Nat /\ L - 1 \in Nat /\ seqs[1] \in V /\ \A i \in 1 .. L : seqs[i] \in V
  OBVIOUS
<1>2. g \in [1 .. L - 1 -> [V -> V]]
  BY <1>1
<1>3. PICK h \in [0 .. L - 1 -> V] : Iterates(h, L - 1, seqs[1], g)
  <2> HIDE DEF L, V, g, Def
  <2> QED BY <1>1, <1>2, Recursion
<1> USE DEF Iterates
<1> DEFINE f == [i \in 1 .. L |-> h[i - 1]]
<1>4. Def(f)
  <2>1. ASSUME NEW i \in 1 .. L
        PROVE  f[i] = IF i = 1 THEN seqs[i] ELSE f[i - 1] \o seqs[i]
    <3>1. CASE i = 1
      BY <1>3, <3>1
    <3>2. CASE i # 1
      <4>1. i - 1 \in 1 .. L - 1 /\ i - 1 \in 1 .. L /\ (i - 1) - 1 \in 0 .. L - 1
            /\ (i - 1) + 1 = i
        BY <1>1, <3>2
      <4>2. h[i - 1] = g[i - 1][h[(i - 1) - 1]] /\ h[(i - 1) - 1] \in V
        BY <1>3, <4>1
      <4>3. g[i - 1][h[(i - 1) - 1]] = h[(i - 1) - 1] \o seqs[i]
        BY <4>1, <4>2
      <4>4. f[i] = h[i - 1] /\ f[i - 1] = h[(i - 1) - 1]
        BY <4>1
      <4> QED BY <3>2, <4>2, <4>3, <4>4
    <3> QED BY <3>1, <3>2
  <2> QED BY <2>1
<1> DEFINE C == CHOOSE p : Def(p)
<1>5. FlattenSeq(seqs) = C[L]
  BY <1>1 DEF FlattenSeq
<1>6. Def(C)
  <2>1. \E p : Def(p)
    BY <1>4
  <2> HIDE DEF Def
  <2> QED BY <2>1
<1> HIDE DEF C
<1>7. C[1] = seqs[1] /\ \A i \in 1 .. L - 1 : C[i + 1] = C[i] \o seqs[i + 1]
  <2>1. C[1] = seqs[1]
    BY <1>1, <1>6
  <2>2. ASSUME NEW i \in 1 .. L - 1 PROVE C[i + 1] = C[i] \o seqs[i + 1]
    <3>1. i + 1 \in 1 .. L /\ i + 1 # 1 /\ (i + 1) - 1 = i
      BY <1>1
    <3> QED BY <1>6, <3>1
  <2> QED BY <2>1, <2>2
<1> HIDE DEF Def, f, g
<1> DEFINE Good(i) == /\ C[i + 1] \in V
                      /\ Len(C[i + 1]) = i * E + Len(seqs[i + 1])
                      /\ \A e \in 1 .. i + 1 : \A q \in 1 .. Len(seqs[e]) :
                            C[i + 1][(e - 1) * E + q] = seqs[e][q]
           T == {i \in 0 .. L - 1 : Good(i)}
<1>8. 0 \in T
  <2>1. 0 + 1 = 1 /\ 0 * E = 0 /\ (1 - 1) * E = 0
    OBVIOUS
  <2>2. ASSUME NEW e \in 1 .. 1, NEW q \in 1 .. Len(seqs[e])
        PROVE C[1][(e - 1) * E + q] = seqs[e][q]
    <3>1. e = 1 /\ (e - 1) * E + q = q
      OBVIOUS
    <3> QED BY <1>7, <3>1
  <2>3. Len(seqs[1]) \in Nat
    BY <1>1
  <2>4. Len(seqs[1]) = 0 * E + Len(seqs[1])
    <3>1. \A x \in Nat : x = 0 * E + x
      OBVIOUS
    <3> QED BY <2>3, <3>1
  <2>5. Good(0)
    <3> HIDE DEF V
    <3> QED BY <1>1, <1>7, <2>1, <2>2, <2>4
  <2> HIDE DEF Good
  <2> QED BY <1>1, <2>5
<1>9. ASSUME NEW i \in 1 .. L - 1, i - 1 \in T PROVE i \in T
  <2>1. (i - 1) + 1 = i /\ i \in 1 .. L /\ i + 1 \in 1 .. L
    BY <1>1
  <2>2. /\ C[i] \in V /\ Len(C[i]) = (i - 1) * E + Len(seqs[i])
        /\ \A e \in 1 .. i : \A q \in 1 .. Len(seqs[e]) :
              C[i][(e - 1) * E + q] = seqs[e][q]
    BY <1>9, <2>1
  <2>3. Len(seqs[i]) = E /\ seqs[i + 1] \in V
    BY <1>1, <2>1
  <2>4. i * E \in Int /\ (i - 1) * E = i * E - E
    BY <2>1, Steps
  <2> DEFINE A == C[i]
             B == seqs[i + 1]
             M == i * E
             m == (i - 1) * E
  <2>5. Len(A) = M
    <3>1. Len(A) = m + E /\ M \in Int /\ m = M - E
      BY <2>2, <2>3, <2>4
    <3> HIDE DEF A, M, m
    <3> QED BY <3>1
  <2>6. C[i + 1] = A \o B /\ A \in Seq(U) /\ B \in Seq(U)
    BY <1>7, <2>2, <2>3
  <2>7. /\ C[i + 1] \in V /\ Len(C[i + 1]) = M + Len(B) /\ M \in Nat
        /\ \A j \in 1 .. M : C[i + 1][j] = A[j]
        /\ \A j \in 1 .. Len(B) : C[i + 1][M + j] = B[j]
    <3> HIDE DEF A, B, M
    <3>1. /\ A \o B \in Seq(U) /\ Len(A) \in Nat /\ Len(A \o B) = Len(A) + Len(B)
          /\ \A j \in 1 .. Len(A) : (A \o B)[j] = A[j]
          /\ \A j \in 1 .. Len(B) : (A \o B)[Len(A) + j] = B[j]
      BY <2>6, ConcatAt
    <3> QED BY <2>5, <2>6, <3>1
  <2> HIDE DEF A, B, M, m
  <2>8. ASSUME NEW e \in 1 .. i + 1, NEW q \in 1 .. Len(seqs[e])
        PROVE  C[i + 1][(e - 1) * E + q] = seqs[e][q]
    <3>1. CASE e = i + 1
      <4>1. (e - 1) * E + q = M + q /\ seqs[e] = B
        BY <3>1, <2>1 DEF M, B
      <4> QED BY <2>7, <4>1
    <3>2. CASE e # i + 1
      <4>1. e \in 1 .. i /\ e - 1 < i /\ e \in 1 .. L - 1
        BY <3>2, <2>1
      <4>2. Len(seqs[e]) = E
        BY <4>1
      <4>3. (e - 1) * E \in Int /\ (e - 1) * E + E <= i * E /\ 0 * E <= (e - 1) * E
        BY <4>1, Steps
      <4> DEFINE j == (e - 1) * E + q
      <4>4. j \in 1 .. M
        <5>1. 0 * E = 0 /\ q <= E /\ q >= 1
          BY <4>2
        <5>2. (e - 1) * E + E <= M
          BY <4>3 DEF M
        <5>3. (e - 1) * E \in Nat
          BY <4>3, <5>1
        <5> DEFINE x == (e - 1) * E
        <5>4. x \in Nat /\ x + E <= M /\ q \in Nat
          BY <5>2, <5>3, <5>1
        <5> HIDE DEF x
        <5>5. x + q \in 1 .. M
          BY <2>7, <5>1, <5>4
        <5> QED BY <5>5 DEF x
      <4>5. A[j] = seqs[e][q]
        BY <2>2, <4>1 DEF A
      <4> HIDE DEF j
      <4>6. C[i + 1][j] = A[j]
        BY <2>7, <4>4
      <4> QED BY <4>5, <4>6 DEF j
    <3> QED BY <3>1, <3>2
  <2>9. Good(i)
    <3>1. Len(C[i + 1]) = i * E + Len(seqs[i + 1])
      BY <2>7 DEF M, B
    <3> HIDE DEF V
    <3> QED BY <2>7, <2>8, <3>1
  <2> HIDE DEF Good
  <2> QED BY <1>1, <2>9
<1>10. Good(L - 1)
  <2>1. \A i \in 1 .. L - 1 : i - 1 \in T => i \in T
    BY <1>9
  <2>2. L - 1 \in 0 .. L - 1
    BY <1>1
  <2>3. L - 1 \in T
    <3> HIDE DEF T, L
    <3> QED BY <1>1, <1>8, <2>1, <2>2, Induct
  <2> QED BY <2>3
<1>11. (L - 1) + 1 = L
  BY <1>1
<1> QED BY <1>5, <1>10, <1>11

\* Who follows these extents finds the units from block a on.
LEMMA StoredAt ==
    ASSUME NEW k, Size(k) \in Nat, NEW a \in Int, src[k] = Extents(k, a)
    PROVE  Stored(k) = [p \in 1 .. Size(k) |-> ImageUnit(a, p)]
<1> DEFINE L == NSections(Size(k))
           E == Extent
           U == {ImageUnit(a, p) : p \in 1 .. Size(k)}
           seqs == [e \in 1 .. L |->
                      [p \in 1 .. src[k][e].size |-> ImageUnit(src[k][e].block, p)]]
           rest == Size(k) - (L - 1) * E
<1>1. L \in Nat /\ L >= 1 /\ (L - 1) * E \in Nat /\ rest \in Nat /\ L \in 1 .. L
  BY SectionCount
<1>2. E \in Nat /\ E >= 1 /\ E = ExtentBlocks * BlockSize
  BY Constants
<1>3. DOMAIN src[k] = 1 .. L
  BY DEF Extents
<1>4. ASSUME NEW e \in 1 .. L
      PROVE  /\ src[k][e].size = (IF e < L THEN E ELSE rest)
             /\ src[k][e].size \in Nat
             /\ (e - 1) * E \in Nat /\ (e - 1) * E + src[k][e].size <= Size(k)
             /\ \A q \in 1 .. src[k][e].size :
                   ImageUnit(src[k][e].block, q) = ImageUnit(a, (e - 1) * E + q)
  <2>1. src[k][e].size = (IF e < L THEN E ELSE rest)
        /\ src[k][e].block = a + (e - 1) * ExtentBlocks
    BY DEF Extents
  <2>2. src[k][e].size \in Nat
    BY <1>1, <1>2, <2>1
  <2>3. (e - 1) * E \in Nat /\ (e - 1) * ExtentBlocks \in Nat
    BY <1>1, <1>2, Constants, Z3
  <2>4. (e - 1) * E + src[k][e].size <= Size(k)
    <3>1. CASE e = L
      BY <1>1, <2>1, <3>1
    <3>2. CASE e # L
      <4>1. e - 1 < L - 1 /\ e < L
        BY <1>1, <3>2
      <4>2. (e - 1) * E + E <= (L - 1) * E
        BY <1>1, <1>2, <4>1, Steps
      <4>3. (L - 1) * E <= Size(k) /\ src[k][e].size = E
        BY <1>1, <2>1, <4>1
      <4> HIDE DEF E, L
      <4> QED BY <1>1, <1>2, <2>3, <4>2, <4>3
    <3> QED BY <3>1, <3>2
  <2>5. ASSUME NEW q \in 1 .. src[k][e].size
        PROVE  ImageUnit(src[k][e].block, q) = ImageUnit(a, (e - 1) * E + q)
    <3> DEFINE c == (e - 1) * ExtentBlocks
    <3>1. c * BlockSize = (e - 1) * E
      <4>1. \A x, y, z \in Int : (x * y) * z = x * (y * z)
        BY Z3
      <4> QED BY <1>2, <4>1, Constants
    <3>2. q \in Nat /\ q >= 1 /\ c \in Nat
      BY <2>2, <2>3
    <3>3. q + c * BlockSize = (e - 1) * E + q
      BY <2>3, <3>1, <3>2
    <3> HIDE DEF c
    <3>4. ImageUnit(a + c, q) = ImageUnit(a, q + c * BlockSize)
      BY <3>2, ImageShift
    <3> QED BY <2>1, <3>3, <3>4 DEF c
  <2> QED BY <2>1, <2>2, <2>3, <2>4, <2>5
<1>5. ASSUME NEW e \in 1 .. L
      PROVE  /\ seqs[e] \in Seq(U) /\ Len(seqs[e]) = src[k][e].size
             /\ \A q \in 1 .. src[k][e].size : seqs[e][q] = ImageUnit(a, (e - 1) * E + q)
  <2>1. /\ src[k][e].size \in Nat
        /\ seqs[e] = [p \in 1 .. src[k][e].size |-> ImageUnit(src[k][e].block, p)]
    BY <1>4
  <2>2. \A q \in 1 .. src[k][e].size :
           /\ seqs[e][q] = ImageUnit(a, (e - 1) * E + q)
           /\ (e - 1) * E + q \in 1 .. Size(k)
    BY <1>4, <2>1
  <2>3. \A q \in 1 .. src[k][e].size : seqs[e][q] \in U
    BY <2>2
  <2>4. seqs[e] \in [1 .. src[k][e].size -> U]
    <3> HIDE DEF U
    <3> QED BY <2>1, <2>3
  <2> DEFINE z == src[k][e].size
             t == seqs[e]
  <2>5. z \in Nat /\ t \in [1 .. z -> U]
    BY <2>1, <2>4
  <2>6. t \in Seq(U) /\ Len(t) = z
    <3> HIDE DEF U, t, z
    <3> QED BY <2>5
  <2> HIDE DEF U, seqs
  <2> QED BY <2>2, <2>6
<1>6. seqs \in Seq(Seq(U)) /\ Len(seqs) = L
  <2>1. seqs \in [1 .. L -> Seq(U)]
    BY <1>5
  <2> HIDE DEF seqs
  <2> QED BY <1>1, <2>1
<1>7. \A e \in 1 .. L - 1 : e \in 1 .. L /\ e < L /\ Len(seqs[e]) = E
  BY <1>1, <1>4, <1>5
<1>8. Len(seqs[L]) = rest
  BY <1>1, <1>4, <1>5
<1> DEFINE F == FlattenSeq(seqs)
<1>9. /\ F \in Seq(U) /\ Len(F) = (L - 1) * E + Len(seqs[L])
      /\ \A e \in 1 .. L : \A q \in 1 .. Len(seqs[e]) : F[(e - 1) * E + q] = seqs[e][q]
  <2>1. \A e \in 1 .. Len(seqs) - 1 : Len(seqs[e]) = E
    BY <1>6, <1>7
  <2>2. seqs \in Seq(Seq(U)) /\ Len(seqs) >= 1 /\ E \in Nat /\ E >= 1
    BY <1>1, <1>2, <1>6
  <2>3. /\ F \in Seq(U) /\ Len(F) = (Len(seqs) - 1) * E + Len(seqs[Len(seqs)])
        /\ \A e \in 1 .. Len(seqs) : \A q \in 1 .. Len(seqs[e]) :
              F[(e - 1) * E + q] = seqs[e][q]
    <3> HIDE DEF U, seqs, E, L
    <3> QED BY <2>1, <2>2, FlattenFacts
  <2> HIDE DEF U, seqs, E, L, F
  <2> QED BY <1>6, <2>3
<1>10. Stored(k) = F
  BY <1>3 DEF Stored
<1>11. Len(F) = Size(k)
  <2>1. rest = Size(k) - (L - 1) * E
    OBVIOUS
  <2> HIDE DEF F, L, E, rest, seqs
  <2> QED BY <1>1, <1>8, <1>9, <2>1
<1>12. ASSUME NEW p \in 1 .. Size(k) PROVE F[p] = ImageUnit(a, p)
  <2>1. \E e \in 1 .. L : \E q \in 1 .. src[k][e].size : p = (e - 1) * E + q
    <3>1. CASE p > (L - 1) * E
      <4>1. p - (L - 1) * E \in 1 .. src[k][L].size /\ p = (L - 1) * E + (p - (L - 1) * E)
        BY <1>1, <1>4, <3>1
      <4> QED BY <1>1, <4>1
    <3>2. CASE p <= (L - 1) * E
      <4> DEFINE d == (p - 1) \div E
                 r == (p - 1) % E
      <4>1. d \in Nat /\ r \in 0 .. E - 1 /\ p - 1 = d * E + r
        <5>1. p - 1 \in Nat
          OBVIOUS
        <5> HIDE DEF E
        <5> QED BY <1>2, <5>1, DivMod
      <4> HIDE DEF d, r
      <4>2. d * E \in Int /\ (d * E < (L - 1) * E => d < L - 1)
        BY <1>1, <1>2, <4>1, Steps
      <4>3. d < L - 1
        <5> HIDE DEF E, L
        <5> QED BY <1>1, <1>2, <3>2, <4>1, <4>2
      <4>4. d + 1 \in 1 .. L /\ d + 1 < L /\ (d + 1) - 1 = d
        BY <1>1, <4>1, <4>3
      <4>5. r + 1 \in 1 .. src[k][d + 1].size
        BY <1>2, <1>4, <4>1, <4>4
      <4>6. p = d * E + (r + 1)
        BY <4>1, <4>2
      <4>7. p = ((d + 1) - 1) * E + (r + 1)
        BY <4>4, <4>6
      <4> QED BY <4>4, <4>5, <4>7
    <3> QED BY <1>1, <3>1, <3>2
  <2>2. PICK e \in 1 .. L : \E q \in 1 .. src[k][e].size : p = (e - 1) * E + q
    BY <2>1
  <2>3. PICK q \in 1 .. src[k][e].size : p = (e - 1) * E + q
    BY <2>2
  <2> HIDE DEF F, U, seqs
  <2>4. F[(e - 1) * E + q] = seqs[e][q] /\ seqs[e][q] = ImageUnit(a, (e - 1) * E + q)
    BY <1>5, <1>9
  <2> QED BY <2>3, <2>4
<1> HIDE DEF F, U
<1>13. F = [p \in 1 .. Len(F) |-> F[p]]
  <2>1. F \in Seq(U)
    BY <1>9
  <2> QED BY <2>1
<1> QED BY <1>10, <1>11, <1>12, <1>13

-----------------------------------------------------------------------------
(* What the definitions of the invariant come to.                          *)

LEMMA KeyFacts ==
    ASSUME NEW k \in Keys
    PROVE  k # NoKey /\ k[1] \in Inodes /\ Size(k) \in Nat /\ k = <<k[1], Size(k)>>
           /\ Size(k) \in Sizes
<1>1. Sizes \subseteq Nat
  BY FSAssumption
<1>2. PICK i \in Inodes, z \in Sizes : k = <<i, z>>
  BY DEF Keys
<1>3. k[1] = i /\ k[2] = z /\ k # NoKey
  BY <1>2 DEF NoKey
<1> QED BY <1>1, <1>2, <1>3 DEF Size

LEMMA BlocksFacts ==
    ASSUME NEW k \in Keys
    PROVE  Blocks(k) \in Nat /\ (k # efi => Blocks(k) = DivUp(Size(k)))
           /\ (k = efi => Blocks(k) = 0)
BY KeyFacts, DivUpFacts DEF Blocks

LEMMA EfiFacts ==
    ASSUME TypeInv
    PROVE  EfiBlocks \in Nat /\ First \in Nat /\ First = Start + EfiBlocks
           /\ (efi # NoKey => EfiBlocks = DivUp(Size(efi)) /\ efi \in Keys)
           /\ (EfiBlocks > 0 => efi # NoKey)
<1>1. efi # NoKey => efi \in Keys /\ Size(efi) \in Nat /\ EfiBlocks = DivUp(Size(efi))
  BY KeyFacts, SumOfBlocksIs DEF TypeInv, EfiBlocks
<1>2. efi = NoKey => EfiBlocks = 0
  BY DEF EfiBlocks
<1>3. EfiBlocks \in Nat /\ Start \in Nat
  BY <1>1, <1>2, DivUpFacts, Constants
<1> QED BY <1>1, <1>2, <1>3 DEF First

\* Where the files are, after the first pass.
LEMMA AtFacts ==
    ASSUME TypeInv, list \in Seq(Keys)
    PROVE  /\ Len(list) \in Nat
           /\ At(0) = Start
           /\ At(1) = First + (IF OldEmpty THEN 0 ELSE 1)
           /\ \A m \in 0 .. Len(list) + 1 : At(m) \in Nat /\ At(m) >= Start
           /\ \A m \in 1 .. Len(list) : At(m + 1) = At(m) + Blocks(list[m])
<1> DEFINE P == Places(list)
<1>1. Len(list) \in Nat /\ \A k \in Keys : Blocks(k) \in Nat
  BY BlocksFacts
<1>2. /\ P \in [1 .. Len(list) + 1 -> Nat] /\ P[1] = IF OldEmpty THEN 0 ELSE 1
      /\ \A m \in 1 .. Len(list) : P[m + 1] = P[m] + Blocks(list[m])
  <2>1. /\ Places(list) \in [1 .. Len(list) + 1 -> Nat]
        /\ Places(list)[1] = IF OldEmpty THEN 0 ELSE 1
        /\ \A m \in 1 .. Len(list) :
                 Places(list)[m + 1] = Places(list)[m] + Blocks(list[m])
    BY <1>1, PlacesFacts
  <2> QED BY <2>1
<1>3. First \in Nat /\ First >= Start /\ Start \in Nat
  BY EfiFacts, Constants
<1> HIDE DEF P
<1>4. At(0) = Start
  BY DEF At
<1>5. ASSUME NEW m \in 1 .. Len(list) + 1
      PROVE  At(m) = First + P[m] /\ At(m) \in Nat /\ At(m) >= Start
  <2>1. P[m] \in Nat /\ m # 0
    BY <1>1, <1>2
  <2>2. At(m) = First + P[m]
    BY <2>1 DEF At, P
  <2> QED BY <1>3, <2>1, <2>2
<1>6. At(1) = First + (IF OldEmpty THEN 0 ELSE 1)
  BY <1>1, <1>2, <1>5
<1>7. ASSUME NEW m \in 0 .. Len(list) + 1 PROVE At(m) \in Nat /\ At(m) >= Start
  <2>1. m = 0 \/ m \in 1 .. Len(list) + 1
    BY <1>1
  <2> QED BY <1>3, <1>4, <1>5, <2>1
<1>8. ASSUME NEW m \in 1 .. Len(list) PROVE At(m + 1) = At(m) + Blocks(list[m])
  <2>1. m \in 1 .. Len(list) + 1 /\ m + 1 \in 1 .. Len(list) + 1 /\ list[m] \in Keys
    BY <1>1
  <2>2. At(m + 1) = First + P[m + 1] /\ At(m) = First + P[m] /\ P[m] \in Nat
    BY <1>2, <1>5, <2>1
  <2>3. P[m + 1] = P[m] + Blocks(list[m]) /\ Blocks(list[m]) \in Nat
    BY <1>1, <1>2, <2>1
  <2> QED BY <1>3, <2>2, <2>3
<1> QED BY <1>1, <1>4, <1>6, <1>7, <1>8

LEMMA WritesFacts ==
    ASSUME TypeInv, LayoutInv, pc # "tree"
    PROVE  /\ \A m \in Writes : /\ KeyAt(m) \in DOMAIN src /\ KeyAt(m) \in Keys
                                /\ Size(KeyAt(m)) \in Nat
                                /\ At(m) \in Nat /\ At(m) >= Start
           /\ \A m1, m2 \in Writes : KeyAt(m1) = KeyAt(m2) => m1 = m2
           /\ \A k \in DOMAIN src : Size(k) > 0 => \E m \in Writes : KeyAt(m) = k
<1>1. /\ list \in Seq(Keys) /\ DOMAIN src \subseteq Keys /\ efi \in DOMAIN src \cup {NoKey}
      /\ \A m \in 1 .. Len(list) : list[m] \in DOMAIN src
      /\ \A m1, m2 \in 1 .. Len(list) : list[m1] = list[m2] => m1 = m2
      /\ \A k \in DOMAIN src : \E m \in 1 .. Len(list) : list[m] = k
  BY DEF TypeInv, LayoutInv
<1>2. Len(list) \in Nat
  BY <1>1
<1>3. ASSUME NEW m \in Writes
      PROVE  m \in 0 .. Len(list) /\ (m = 0 => EfiBlocks > 0 /\ efi # NoKey)
             /\ (m # 0 => m \in 1 .. Len(list) /\ list[m] # efi)
  BY <1>1, <1>2, EfiFacts DEF Writes
<1>4. ASSUME NEW m \in Writes
      PROVE  /\ KeyAt(m) \in DOMAIN src /\ KeyAt(m) \in Keys /\ Size(KeyAt(m)) \in Nat
             /\ At(m) \in Nat /\ At(m) >= Start
  <2>1. KeyAt(m) \in DOMAIN src
    BY <1>1, <1>3 DEF KeyAt
  <2>2. m \in 0 .. Len(list) + 1
    BY <1>2, <1>3
  <2> QED BY <1>1, <2>1, <2>2, KeyFacts, AtFacts
<1>5. ASSUME NEW m1 \in Writes, NEW m2 \in Writes, KeyAt(m1) = KeyAt(m2) PROVE m1 = m2
  BY <1>1, <1>3, <1>5 DEF KeyAt
<1>6. ASSUME NEW k \in DOMAIN src, Size(k) > 0 PROVE \E m \in Writes : KeyAt(m) = k
  <2>1. k \in Keys /\ Size(k) \in Nat
    BY <1>1, KeyFacts
  <2>2. CASE k = efi
    <3>1. EfiBlocks = DivUp(Size(k)) /\ k # NoKey
      BY <2>1, <2>2, KeyFacts, EfiFacts
    <3>2. DivUp(Size(k)) \in Nat /\ DivUp(Size(k)) # 0
      BY <1>6, <2>1, DivUpFacts
    <3>3. 0 \in Writes /\ KeyAt(0) = k
      BY <1>2, <2>2, <3>1, <3>2 DEF Writes, KeyAt
    <3> QED BY <3>3
  <2>3. CASE k # efi
    <3>1. PICK m \in 1 .. Len(list) : list[m] = k
      BY <1>1
    <3>2. m \in Writes /\ KeyAt(m) = k
      BY <1>2, <2>3, <3>1 DEF Writes, KeyAt
    <3> QED BY <3>2
  <2> QED BY <2>2, <2>3
<1> QED BY <1>4, <1>5, <1>6

\* These change in the first pass only.
LEMMA LayoutStays ==
    ASSUME UNCHANGED outVars, NEW m
    PROVE  /\ KeyAt(m)' = KeyAt(m) /\ At(m)' = At(m) /\ Writes' = Writes
           /\ First' = First /\ EfiBlocks' = EfiBlocks
<1>1. efi' = efi /\ list' = list
  BY DEF outVars
<1>2. EfiBlocks' = EfiBlocks /\ First' = First
  BY <1>1 DEF EfiBlocks, First
<1>3. Places(list)' = Places(list)
  BY <1>1 DEF Places, Blocks
<1> QED BY <1>1, <1>2, <1>3 DEF KeyAt, At, Writes

\* The image gets longer.
LEMMA ImageGrows ==
    ASSUME img \in Seq(ImageBlocks), NEW X \in Seq(ImageBlocks), img' = img \o X,
           NEW a \in Nat, a >= Start, NEW d \in Nat, a + d <= Start + Len(img),
           NEW p \in Nat, p >= 1, p <= d * BlockSize
    PROVE  ImageUnit(a, p)' = ImageUnit(a, p)
<1> DEFINE e == (p - 1) \div BlockSize
           j == a - Start + 1 + e
<1>1. e \in Nat /\ e < d
  BY UnitPlace
<1> HIDE DEF e
<1>2. Start \in Nat /\ Len(img) \in Nat
  BY Constants
<1>3. j \in 1 .. Len(img)
  BY <1>1, <1>2
<1>4. img'[j] = img[j] /\ j \in DOMAIN img /\ j \in DOMAIN img'
  <2> HIDE DEF j
  <2>1. img'[j] = img[j] /\ j \in 1 .. Len(img \o X)
    BY <1>2, <1>3, ConcatAt
  <2> QED BY <1>3, <2>1
<1> QED BY <1>4 DEF ImageUnit, e

LEMMA ImageKept ==
    ASSUME img' = img, NEW a, NEW p
    PROVE  ImageUnit(a, p)' = ImageUnit(a, p)
BY DEF ImageUnit

\* Where unit u of a block is.
LEMMA ImageAt ==
    ASSUME NEW a, NEW d \in Nat, NEW u \in 1 .. BlockSize, NEW p, p = d * BlockSize + u
    PROVE  a - Start + 1 + (p - 1) \div BlockSize = a - Start + 1 + d
           /\ ((p - 1) % BlockSize) + 1 = u
BY UnitAt

\* A block that is appended.
LEMMA ImageGets ==
    ASSUME img \in Seq(ImageBlocks), NEW X \in Seq(ImageBlocks), img' = img \o X,
           NEW a \in Nat, NEW d \in Nat,
           NEW i \in 1 .. Len(X), a + d = Start + Len(img) + i - 1
    PROVE  img'[a - Start + 1 + d] = X[i] /\ a - Start + 1 + d \in DOMAIN img'
<1> DEFINE j == a - Start + 1 + d
<1>1. Start \in Nat /\ Len(img) \in Nat /\ i \in Nat
  BY Constants
<1>2. j = Len(img) + i
  BY <1>1
<1> HIDE DEF j
<1>3. img'[j] = X[i] /\ DOMAIN img' = 1 .. Len(img) + Len(X) /\ Len(X) \in Nat
  <2>1. img \o X \in Seq(ImageBlocks) /\ Len(img \o X) = Len(img) + Len(X)
        /\ Len(X) \in Nat
    BY ConcatAt
  <2>2. img'[j] = X[i]
    BY <1>2, ConcatAt
  <2> QED BY <2>1, <2>2
<1>4. j \in 1 .. Len(img) + Len(X)
  BY <1>1, <1>2, <1>3
<1> QED BY <1>3, <1>4 DEF j

-----------------------------------------------------------------------------
(* The first pass                                                          *)

LEMMA InitInv == FSInit => FSInv
<1> SUFFICES ASSUME FSInit PROVE FSInv
  OBVIOUS
<1>1. DOMAIN src = {} /\ DOMAIN sums = {} /\ MaxChanges \in Nat
  BY FSAssumption DEF FSInit
<1>2. disk \in [Inodes -> [size : Sizes, gen : 1 .. 0 + 1]]
  BY DEF FSInit
<1>3. IsFiniteSet(DOMAIN src)
  BY <1>1, FS_EmptySet
<1>4. img \in Seq(ImageBlocks)
  BY DEF FSInit
<1>5. TypeInv
  BY <1>1, <1>2, <1>3, <1>4 DEF FSInit, TypeInv
<1> QED BY <1>1, <1>5 DEF FSInit, FSInv, TreeInv, FreshInv, LayoutInv, ProgressInv, PastInv, FilledInv, CurrentInv,
     Filling, Within

LEMMA AddFileKeeps ==
    ASSUME ClaimsAreCounted, FSInv, NEW i \in Inodes, NEW claim \in BOOLEAN, AddFile(i, claim)
    PROVE  FSInv'
<1> DEFINE k == <<i, disk[i].size>>
           new == [e \in 1 .. NSections(Size(k)) |-> [block |-> 0, size |-> 0]]
<1>1. /\ pc = "tree" /\ pc' = pc /\ n' = n /\ img' = img /\ disk' = disk /\ changes' = changes
      /\ twice' = twice /\ reported' = reported /\ broken' = broken /\ sums' = sums
      /\ b' = b
      /\ src' = [x \in DOMAIN src \cup {k} |-> IF x \in DOMAIN src THEN src[x] ELSE new]
      /\ efi' = IF claim THEN k ELSE efi
      /\ claim => disk[i].size \in ClaimSizes
  BY DEF AddFile, diskVars
<1>2. disk[i].size \in Sizes /\ k \in Keys /\ k[1] = i /\ Size(k) = disk[i].size
  BY DEF FSInv, TypeInv, Keys, Size
<1> HIDE DEF k, new
<1>3. DOMAIN src' = DOMAIN src \cup {k}
  BY <1>1
<1>4. IsFiniteSet(DOMAIN src')
  BY <1>3, FS_AddElement DEF FSInv, TypeInv
<1>8. efi' # NoKey => LastSection(Size(efi')) <= Extent
  BY <1>1, <1>2 DEF ClaimsAreCounted, FSInv, TypeInv
<1>5. TypeInv'
  BY <1>1, <1>2, <1>3, <1>4, <1>8 DEF FSInv, TypeInv
<1>6. TreeInv'
  BY <1>1, <1>3 DEF FSInv, TreeInv, new
<1>7. FreshInv'
  BY <1>1, <1>2, <1>3 DEF FSInv, FreshInv
<1> QED BY <1>1, <1>5, <1>6, <1>7 DEF FSInv, LayoutInv, ProgressInv, PastInv, FilledInv, CurrentInv,
     Filling, Within

\* An order of the files has each of them once.
LEMMA OrderFacts ==
    ASSUME NEW S, IsFiniteSet(S), NEW order \in SetToSeqs(S)
    PROVE  /\ order \in Seq(S)
           /\ \A m1, m2 \in 1 .. Len(order) : order[m1] = order[m2] => m1 = m2
           /\ \A k \in S : \E m \in 1 .. Len(order) : order[m] = k
<1> DEFINE N == Cardinality(S)
<1>1. N \in Nat
  BY FS_CardinalityType
<1>2. order \in [1 .. N -> S] /\ \A m1, m2 \in 1 .. N : m1 # m2 => order[m1] # order[m2]
  BY DEF SetToSeqs
<1> HIDE DEF N
<1>3. order \in Seq(S) /\ Len(order) = N
  BY <1>1, <1>2
<1>4. ASSUME NEW k \in S, ~ \E m \in 1 .. N : order[m] = k PROVE FALSE
  <2>1. IsFiniteSet(S \ {k}) /\ Cardinality(S \ {k}) = N - 1
    BY FS_RemoveElement DEF N
  <2>2. order \in [1 .. N -> S \ {k}]
    BY <1>2, <1>4
  <2>3. IsFiniteSet(1 .. N) /\ Cardinality(1 .. N) = N
    BY <1>1, FS_Interval
  <2>4. \E x, y \in 1 .. N : x # y /\ order[x] = order[y]
    <3>1. Cardinality(S \ {k}) < Cardinality(1 .. N)
      BY <1>1, <2>1, <2>3
    <3> QED BY <2>1, <2>2, <2>3, <3>1, FS_PigeonHole
  <2> QED BY <1>2, <2>4
<1> QED BY <1>2, <1>3, <1>4

\* The extents which the first pass computes.
LEMMA SectionsFacts ==
    ASSUME NEW k \in Keys, NEW block \in Nat,
           src[k] = [e \in 1 .. NSections(Size(k)) |-> [block |-> 0, size |-> 0]]
    PROVE  /\ Len(src[k]) = NSections(Size(k)) /\ DOMAIN src[k] = 1 .. NSections(Size(k))
           /\ Size(k) > 0 => SectionsAt(k, block) = Extents(k, block)
           /\ Size(k) = 0 => DOMAIN SectionsAt(k, block) = {1} /\ DOMAIN src[k] = {1}
                             /\ SectionsAt(k, block)[1].size = 0
<1> DEFINE last == NSections(Size(k))
           rest == Size(k) - (last - 1) * Extent
<1>1. /\ Size(k) \in Nat /\ last \in Nat /\ last >= 1 /\ rest \in Nat
      /\ rest > 0 \/ (Size(k) = 0 /\ last = 1)
  BY KeyFacts, SectionCount
<1> HIDE DEF last
<1>2. Len(src[k]) = last /\ DOMAIN src[k] = 1 .. last
  <2> DEFINE s == src[k]
             S == [block : Nat, size : Nat]
  <2>1. s \in [1 .. last -> S]
    BY DEF last
  <2> HIDE DEF s, S
  <2>2. Len(s) = last /\ DOMAIN s = 1 .. last
    BY <1>1, <2>1
  <2> QED BY <2>2 DEF s
<1>7. LastSection(Size(k)) = rest
  BY DEF LastSection, last
<1>3. SectionsAt(k, block) =
        [e \in 1 .. last |->
           IF e < last THEN [block |-> block + (e - 1) * ExtentBlocks, size |-> Extent]
           ELSE [block |-> IF rest <= 0 THEN Unplaced ELSE block + (e - 1) * ExtentBlocks,
                 size |-> rest]]
  BY <1>2, <1>7 DEF SectionsAt
<1>4. CASE Size(k) > 0
  <2>1. rest > 0 /\ ~ (rest <= 0)
    BY <1>1, <1>4
  <2>2. SectionsAt(k, block) =
          [e \in 1 .. last |->
             [block |-> block + (e - 1) * ExtentBlocks,
              size |-> IF e < last THEN Extent ELSE rest]]
    <3> HIDE DEF rest
    <3> QED BY <1>3, <2>1
  <2>3. SectionsAt(k, block) = Extents(k, block)
    BY <2>2 DEF Extents, last
  <2> QED BY <1>1, <1>2, <1>4, <2>3 DEF last
<1>5. CASE Size(k) = 0
  <2>1. last = 1 /\ rest = 0
    <3>1. last = 1 /\ 0 * Extent = 0
      BY <1>1, <1>5, Constants
    <3> QED BY <1>5, <3>1
  <2>2. 1 .. last = {1}
    BY <2>1
  <2>3. SectionsAt(k, block)[1].size = rest /\ DOMAIN SectionsAt(k, block) = {1}
    <3> HIDE DEF rest
    <3> QED BY <1>3, <2>1, <2>2
  <2> QED BY <1>1, <1>2, <1>5, <2>1, <2>2, <2>3 DEF last
<1>6. Size(k) > 0 \/ Size(k) = 0
  BY <1>1
<1> HIDE DEF rest
<1> QED BY <1>4, <1>5, <1>6

LEMMA AbsoluteFacts ==
    ASSUME NEW k, Size(k) \in Nat, NEW a \in Nat, First \in Nat
    PROVE  Absolute(Extents(k, a)) = Extents(k, First + a)
<1> DEFINE last == NSections(Size(k))
           s == Extents(k, a)
<1>1. last \in Nat
  BY SectionCount
<1>2. DOMAIN s = 1 .. last
  BY DEF Extents
<1>3. ASSUME NEW e \in 1 .. last
      PROVE  [s[e] EXCEPT !.block = IF @ # Unplaced THEN @ + First
                                    ELSE IF OldEmpty THEN Start - 1 ELSE First]
             = Extents(k, First + a)[e]
  <2> DEFINE c == (e - 1) * ExtentBlocks
  <2>1. c \in Nat
    BY <1>1, Constants, Z3
  <2>2. /\ s[e] = [block |-> a + c,
                   size |-> IF e < last THEN Extent ELSE Size(k) - (last - 1) * Extent]
        /\ Extents(k, First + a)[e] =
             [block |-> (First + a) + c,
              size |-> IF e < last THEN Extent ELSE Size(k) - (last - 1) * Extent]
    BY DEF Extents
  <2> HIDE DEF c, s, last
  <2>3. a + c # Unplaced /\ (a + c) + First = (First + a) + c
    BY <2>1 DEF Unplaced
  <2> QED BY <2>2, <2>3
<1>4. Extents(k, First + a) = [e \in 1 .. last |-> Extents(k, First + a)[e]]
  BY DEF Extents
<1> QED BY <1>2, <1>3, <1>4 DEF Absolute

LEMMA ComputeKeeps ==
    ASSUME FSInv, Compute
    PROVE  FSInv'
<1>1. /\ pc = "tree" /\ pc' = (IF EfiBlocks = 0 THEN "next" ELSE "partition")
      /\ UNCHANGED <<disk, changes, efi, n, img, b, digest, pre, sums, twice, reported, broken>>
  BY DEF Compute, diskVars
<1>2. PICK order \in SetToSeqs(DOMAIN src) :
        LET at == Places(order)
            nr(k) == CHOOSE m \in DOMAIN order : order[m] = k
        IN  /\ list' = order
            /\ end' = First + at[Len(order) + 1]
            /\ src' = [k \in DOMAIN src |->
                         IF k = efi THEN EfiSections
                         ELSE Absolute(SectionsAt(k, at[nr(k)]))]
  BY DEF Compute
<1> DEFINE L == Len(order)
           P == Places(order)
           nr(k) == CHOOSE m \in DOMAIN order : order[m] = k
<1>3. /\ list' = order /\ end' = First + P[L + 1] /\ DOMAIN src' = DOMAIN src
      /\ \A k \in DOMAIN src : src'[k] = IF k = efi THEN EfiSections
                                         ELSE Absolute(SectionsAt(k, P[nr(k)]))
  BY <1>2
<1>4. /\ DOMAIN src \subseteq Keys /\ IsFiniteSet(DOMAIN src) /\ efi \in DOMAIN src \cup {NoKey}
      /\ n = 0 /\ img = <<>> /\ twice = {} /\ reported = {} /\ DOMAIN sums = {}
      /\ \A k \in DOMAIN src :
            src[k] = [e \in 1 .. NSections(Size(k)) |-> [block |-> 0, size |-> 0]]
  BY <1>1 DEF FSInv, TypeInv, TreeInv
<1>5. /\ order \in Seq(DOMAIN src)
      /\ \A m1, m2 \in 1 .. L : order[m1] = order[m2] => m1 = m2
      /\ \A k \in DOMAIN src : \E m \in 1 .. L : order[m] = k
  <2> HIDE DEF P, nr
  <2>1. IsFiniteSet(DOMAIN src)
    BY <1>4
  <2> QED BY <2>1, OrderFacts
<1>6. order \in Seq(Keys) /\ L \in Nat /\ DOMAIN order = 1 .. L
      /\ \A m \in 1 .. L : order[m] \in DOMAIN src /\ order[m] \in Keys
  <2>1. L \in Nat /\ DOMAIN order = 1 .. L /\ \A m \in 1 .. L : order[m] \in DOMAIN src
    BY <1>5
  <2>2. order \in [1 .. L -> Keys]
    <3>1. order \in [1 .. L -> DOMAIN src]
      BY <1>5
    <3> HIDE DEF L
    <3> QED BY <1>4, <3>1
  <2> HIDE DEF L
  <2>3. order \in Seq(Keys)
    BY <2>1, <2>2
  <2> QED BY <1>4, <2>1, <2>3
<1>7. P \in [1 .. L + 1 -> Nat]
  BY <1>6, BlocksFacts, PlacesFacts
<1>8. efi' = efi /\ EfiBlocks' = EfiBlocks /\ First' = First /\ Places(list)' = P
  BY <1>1, <1>3 DEF EfiBlocks, First, Places, Blocks
<1>9. EfiBlocks \in Nat /\ First \in Nat /\ First = Start + EfiBlocks /\ Start \in Nat
      /\ (EfiBlocks > 0 => efi \in DOMAIN src)
  BY <1>4, EfiFacts, Constants DEF FSInv
<1> HIDE DEF P, L
<1>10. At(0)' = Start /\ \A m \in 1 .. L + 1 : At(m)' = First + P[m]
  BY <1>6, <1>8 DEF At
<1>11. Writes' = {m \in 0 .. L : IF m = 0 THEN EfiBlocks > 0 ELSE order[m] # efi}
  BY <1>3, <1>8 DEF Writes, L
<1>12. ASSUME NEW m \in 1 .. L PROVE nr(order[m]) = m
  <2>1. m \in DOMAIN order /\ \A j \in DOMAIN order : order[j] = order[m] => j = m
    BY <1>5, <1>6
  <2> QED BY <2>1
<1>13. ASSUME NEW m \in Writes', Size(KeyAt(m)') > 0
       PROVE  src'[KeyAt(m)'] = Extents(KeyAt(m)', At(m)')
  <2>1. CASE m = 0
    <3>1. KeyAt(m)' = efi /\ At(m)' = Start /\ EfiBlocks > 0
      BY <1>8, <1>10, <1>11, <2>1 DEF KeyAt
    <3>2. efi \in DOMAIN src /\ efi \in Keys /\ src'[efi] = EfiSections
      BY <1>3, <1>4, <1>9, <3>1
    <3>3. SectionsAt(efi, Start) = Extents(efi, Start) /\ DOMAIN src[efi] = 1 .. NSections(Size(efi))
      BY <1>4, <1>9, <1>13, <3>1, <3>2, SectionsFacts
    <3> DEFINE x == Extents(efi, Start)
               last == NSections(Size(efi))
    <3>4. EfiSections = [e \in 1 .. last |-> [x[e] EXCEPT !.block = Start + (e - 1) * ExtentBlocks]]
      BY <3>3 DEF EfiSections
    <3>5. x = [e \in 1 .. last |-> x[e]]
      BY DEF Extents
    <3>6. ASSUME NEW e \in 1 .. last
          PROVE  [x[e] EXCEPT !.block = Start + (e - 1) * ExtentBlocks] = x[e]
      BY DEF Extents
    <3> HIDE DEF x, last
    <3>7. EfiSections = x
      BY <3>4, <3>5, <3>6
    <3> QED BY <3>1, <3>2, <3>7 DEF x
  <2>2. CASE m # 0
    <3>1. m \in 1 .. L /\ order[m] # efi
      BY <1>6, <1>11, <2>2
    <3>2. KeyAt(m)' = order[m] /\ At(m)' = First + P[m] /\ P[m] \in Nat
      BY <1>3, <1>6, <1>7, <1>10, <3>1, <2>2 DEF KeyAt
    <3>3. order[m] \in DOMAIN src /\ order[m] \in Keys /\ Size(order[m]) \in Nat
      BY <1>6, <3>1, KeyFacts
    <3>4. src'[order[m]] = Absolute(SectionsAt(order[m], P[m]))
      BY <1>3, <1>12, <3>1, <3>3
    <3>5. SectionsAt(order[m], P[m]) = Extents(order[m], P[m])
      BY <1>4, <1>13, <3>2, <3>3, SectionsFacts
    <3>6. Absolute(Extents(order[m], P[m])) = Extents(order[m], First + P[m])
      BY <1>9, <3>2, <3>3, AbsoluteFacts
    <3> QED BY <3>2, <3>4, <3>5, <3>6
  <2> QED BY <2>1, <2>2
<1>14. ASSUME NEW k \in DOMAIN src, Size(k) = 0
       PROVE  DOMAIN src'[k] = {1} /\ src'[k][1].size = 0
  <2>1. k \in Keys
    BY <1>4
  <2>2. CASE k = efi
    <3>1. /\ DOMAIN SectionsAt(k, Start) = {1} /\ DOMAIN src[k] = {1}
          /\ SectionsAt(k, Start)[1].size = 0
      BY <1>4, <1>9, <1>14, <2>1, SectionsFacts
    <3>2. src'[k] = [e \in {1} |-> [SectionsAt(k, Start)[e] EXCEPT
                                      !.block = Start + (e - 1) * ExtentBlocks]]
      BY <1>3, <2>2, <3>1 DEF EfiSections
    <3> DEFINE y == SectionsAt(k, Start)[1]
    <3>3. y = [block |-> IF LastSection(Size(k)) <= 0 THEN Unplaced
                         ELSE Start + (1 - 1) * ExtentBlocks,
               size |-> LastSection(Size(k))]
          \/ y = [block |-> Start + (1 - 1) * ExtentBlocks, size |-> Extent]
      BY <3>1 DEF SectionsAt
    <3>4. [y EXCEPT !.block = Start + (1 - 1) * ExtentBlocks].size = y.size
      <4> HIDE DEF y
      <4> QED BY <3>3
    <3> QED BY <3>1, <3>2, <3>4
  <2>3. CASE k # efi
    <3>1. PICK m \in 1 .. L : order[m] = k
      BY <1>5 DEF L
    <3>2. src'[k] = Absolute(SectionsAt(k, P[m])) /\ P[m] \in Nat
      <4>1. nr(k) = m
        BY <1>12, <3>1
      <4>2. P[m] \in Nat
        BY <1>6, <1>7
      <4>3. src'[k] = Absolute(SectionsAt(k, P[nr(k)]))
        BY <1>3, <2>3
      <4> HIDE DEF nr
      <4> QED BY <4>1, <4>2, <4>3
    <3>3. DOMAIN SectionsAt(k, P[m]) = {1} /\ SectionsAt(k, P[m])[1].size = 0
      BY <1>4, <1>14, <2>1, <3>2, SectionsFacts
    <3> DEFINE y == SectionsAt(k, P[m])[1]
    <3>4. \E x, z : y = [block |-> x, size |-> z]
      BY <3>3 DEF SectionsAt
    <3>5. DOMAIN src'[k] = {1} /\ \E x : src'[k][1] = [y EXCEPT !.block = x]
      BY <3>2, <3>3 DEF Absolute
    <3>6. src'[k][1].size = y.size
      <4> HIDE DEF y
      <4> QED BY <3>4, <3>5
    <3> QED BY <3>3, <3>5, <3>6
  <2> QED BY <2>2, <2>3
<1>15. LayoutInv'
  <2>1. list' \in Seq(Keys) /\ n' <= Len(list') + 1 /\ DOMAIN list' = 1 .. L
    BY <1>1, <1>3, <1>4, <1>6 DEF L
  <2>2. end' = At(Len(list) + 1)'
    <3>1. At(Len(list) + 1)' = First' + Places(list)'[Len(list') + 1]
      BY <2>1, <1>3, <1>6 DEF At, L
    <3> QED BY <1>3, <1>8, <3>1 DEF L
  <2>3. \A m \in Writes' : Size(KeyAt(m)') > 0 => src'[KeyAt(m)'] = Extents(KeyAt(m)', At(m)')
    BY <1>13
  <2>4. \A k \in DOMAIN src' : Size(k) = 0 => DOMAIN src'[k] = {1} /\ src'[k][1].size = 0
    BY <1>3, <1>14
  <2>5. /\ \A m \in DOMAIN list' : list'[m] \in DOMAIN src'
        /\ \A m1, m2 \in DOMAIN list' : list'[m1] = list'[m2] => m1 = m2
        /\ \A k \in DOMAIN src' : \E m \in DOMAIN list' : list'[m] = k
    BY <1>3, <1>5, <1>6, <2>1 DEF L
  <2> QED BY <2>1, <2>2, <2>3, <2>4, <2>5 DEF LayoutInv
<1>16. pc' \in {"next", "partition"} /\ pc' \notin Filling /\ pc' \notin Within
  BY <1>1 DEF Filling, Within
<1>17. TypeInv'
  BY <1>1, <1>3, <1>16 DEF FSInv, TypeInv
<1>18. FreshInv'
  BY <1>1, <1>3 DEF FSInv, FreshInv
<1>19. \A m \in Writes' : ~ Past(m)'
  <2>1. n' = 0
    BY <1>1, <1>4
  <2>2. ASSUME NEW m \in Writes' PROVE ~ Past(m)'
    BY <1>1, <1>6, <1>9, <1>11, <2>1 DEF Past
  <2> QED BY <2>2
<1>20. ProgressInv'
  <2>1. n' = 0 /\ Len(img') = 0 /\ Filled' = 0
    BY <1>1, <1>4, <1>16 DEF Filled
  <2>2. At(n)' = Start
    BY <1>10, <2>1 DEF At
  <2>3. pc' = "partition" => 0 \in Writes'
    BY <1>1, <1>6, <1>9, <1>11
  <2>4. Start + Len(img') = IF n' = 0 /\ pc' = "next" THEN First' ELSE At(n)' + Filled'
    BY <1>1, <1>8, <1>9, <2>1, <2>2
  <2> QED BY <1>16, <1>19, <2>1, <2>3, <2>4 DEF ProgressInv, Filling, Within
<1>21. PastInv'
  BY <1>1, <1>4, <1>16, <1>19 DEF PastInv
<1>22. FilledInv' /\ CurrentInv'
  BY <1>16 DEF FilledInv, CurrentInv
<1> QED BY <1>1, <1>15, <1>16, <1>17, <1>18, <1>20, <1>21, <1>22 DEF FSInv, TreeInv

-----------------------------------------------------------------------------
(* The second pass                                                         *)

LEMMA Stays ==
    ASSUME FSInv, pc # "tree", pc' # "tree", UNCHANGED <<diskVars, outVars>>,
           n' \in Nat, n' <= Len(list) + 1
    PROVE  /\ TreeInv' /\ FreshInv' /\ LayoutInv' /\ Writes' = Writes
           /\ \A m : KeyAt(m)' = KeyAt(m) /\ At(m)' = At(m)
<1>1. disk' = disk /\ src' = src /\ efi' = efi /\ list' = list /\ end' = end
      /\ UNCHANGED outVars
  BY DEF diskVars, outVars
<1>2. TreeInv' /\ FreshInv'
  BY <1>1 DEF FSInv, TreeInv, FreshInv
<1>3. Writes' = Writes
  BY <1>1, LayoutStays
<1>4. \A m : KeyAt(m)' = KeyAt(m) /\ At(m)' = At(m)
  BY <1>1, LayoutStays
<1>5. LayoutInv'
  <2>1. end' = At(Len(list) + 1)'
    BY <1>1, <1>4 DEF FSInv, LayoutInv
  <2>2. \A m \in Writes' : Size(KeyAt(m)') > 0 => src'[KeyAt(m)'] = Extents(KeyAt(m)', At(m)')
    BY <1>1, <1>3, <1>4 DEF FSInv, LayoutInv
  <2> QED BY <1>1, <2>1, <2>2 DEF FSInv, LayoutInv
<1> QED BY <1>2, <1>3, <1>4, <1>5

\* Files on disk get younger generations only, and keep their size until then.
Ages == \A i \in Inodes : /\ disk'[i].gen \in Nat /\ disk'[i].gen >= disk[i].gen
                          /\ disk'[i].gen = 1 => disk'[i] = disk[i]

LEMMA NoAging ==
    ASSUME TypeInv, disk' = disk
    PROVE  Ages
<1>1. \A i \in Inodes : disk[i].gen \in Nat
  BY DEF TypeInv
<1> QED BY <1>1 DEF Ages

LEMMA TrueStays ==
    ASSUME TypeInv, Ages, broken \subseteq broken', NEW k \in Keys, NEW p, NEW u,
           TrueUnit(k, p, u), NEW v, v = u
    PROVE  TrueUnit(k, p, v)'
<1>1. k[1] \in Inodes
  BY KeyFacts
<1>2. disk[k[1]].gen \in Nat /\ disk[k[1]].gen >= 1
  BY <1>1 DEF TypeInv
<1>3. disk'[k[1]].gen \in Nat /\ disk'[k[1]].gen >= disk[k[1]].gen
  BY <1>1 DEF Ages
<1> QED BY <1>2, <1>3 DEF TrueUnit

\* What was written stays as it is.
LEMMA DoneStays ==
    ASSUME FSInv, pc \notin {"tree", "aborted"}, UNCHANGED outVars, Ages,
           NEW X \in Seq(ImageBlocks), img' = img \o X,
           broken \subseteq broken', reported \subseteq reported',
           NEW m \in Writes, Past(m),
           KeyAt(m) \in DOMAIN sums' =>
              KeyAt(m) \in DOMAIN sums /\ sums'[KeyAt(m)] = sums[KeyAt(m)],
           KeyAt(m) \in twice' => KeyAt(m) \in twice
    PROVE  Done(m)'
<1> DEFINE k == KeyAt(m)
           a == At(m)
           d == DivUp(Size(k))
<1>1. k \in Keys /\ k[1] \in Inodes /\ Size(k) \in Nat /\ a \in Nat /\ a >= Start
  BY WritesFacts, KeyFacts DEF FSInv
<1>2. d \in Nat /\ Size(k) <= d * BlockSize /\ d * BlockSize \in Nat
  <2>1. Size(k) \in Nat
    BY <1>1
  <2> HIDE DEF k
  <2>2. d \in Nat /\ Size(k) <= d * BlockSize
    BY <2>1, DivUpFacts
  <2>3. BlockSize \in Nat
    BY Constants
  <2> QED BY <2>2, <2>3
<1>3. Done(m)
  BY DEF FSInv, PastInv
<1>4. KeyAt(m)' = k /\ At(m)' = a
  BY LayoutStays
<1>5. img \in Seq(ImageBlocks) /\ Len(img) \in Nat /\ Len(X) \in Nat /\ Len(img') = Len(img) + Len(X)
  BY DEF FSInv, TypeInv
<1>6. a + d <= Start + Len(img)
  BY <1>3 DEF Done
<1>7. disk[k[1]].gen \in Nat /\ disk'[k[1]].gen \in Nat /\ disk'[k[1]].gen >= disk[k[1]].gen
  BY <1>1 DEF FSInv, TypeInv, Ages
<1>8. \A p \in 1 .. Size(k) : TrueUnit(k, p, ImageUnit(a, p))
  BY <1>3 DEF Done
<1>9. k \in DOMAIN sums \ broken => sums[k] = [p \in 1 .. Size(k) |-> ImageUnit(a, p)]
  BY <1>3 DEF Done
<1>10. k \in twice \ reported =>
         \E g \in 1 .. disk[k[1]].gen : \A p \in 1 .. Size(k) :
            ImageUnit(a, p) = Zero \/ ImageUnit(a, p) = <<k[1], g, p>>
  BY <1>3 DEF Done
<1>11. a + d <= Start + Len(img')
  <2>1. a \in Nat /\ d \in Nat /\ Start \in Nat
    BY <1>1, <1>2, Constants
  <2> HIDE DEF a, d, k
  <2> QED BY <1>5, <1>6, <2>1
<1> HIDE DEF k, a, d
<1>12. PICK c : c = a
  OBVIOUS
<1>13. ASSUME NEW p \in 1 .. Size(k) PROVE ImageUnit(c, p)' = ImageUnit(c, p)
  <2>1. p \in Nat /\ p >= 1 /\ p <= d * BlockSize
    BY <1>1, <1>2
  <2> QED BY <1>1, <1>2, <1>5, <1>6, <1>12, <2>1, ImageGrows
<1>14. PICK q : q = k
  OBVIOUS
<1>15. ASSUME NEW p \in 1 .. Size(q) PROVE TrueUnit(q, p, ImageUnit(c, p))'
  <2>1. TrueUnit(q, p, ImageUnit(c, p)) /\ q \in Keys /\ TypeInv
    BY <1>1, <1>8, <1>12, <1>14 DEF FSInv
  <2>2. PICK u : u = ImageUnit(c, p)
    OBVIOUS
  <2>3. TrueUnit(q, p, u)'
    BY <2>1, <2>2, TrueStays
  <2>4. ImageUnit(c, p)' = u
    BY <1>13, <1>14, <2>2
  <2> QED BY <2>3, <2>4 DEF TrueUnit
<1>16. KeyAt(m)' = q /\ At(m)' = c
  BY <1>4, <1>12, <1>14
<1>17. q \in DOMAIN sums' \ broken' => sums'[q] = [p \in 1 .. Size(q) |-> ImageUnit(c, p)']
  BY <1>9, <1>12, <1>13, <1>14 DEF k
<1>18. q \in twice' \ reported' =>
         \E g \in 1 .. disk'[q[1]].gen : \A p \in 1 .. Size(q) :
            ImageUnit(c, p)' = Zero \/ ImageUnit(c, p)' = <<q[1], g, p>>
  <2> SUFFICES ASSUME q \in twice' \ reported'
               PROVE  \E g \in 1 .. disk'[q[1]].gen : \A p \in 1 .. Size(q) :
                         ImageUnit(c, p)' = Zero \/ ImageUnit(c, p)' = <<q[1], g, p>>
    OBVIOUS
  <2>1. q \in twice \ reported
    BY <1>14 DEF k
  <2>2. PICK g \in 1 .. disk[q[1]].gen : \A p \in 1 .. Size(q) :
            ImageUnit(c, p) = Zero \/ ImageUnit(c, p) = <<q[1], g, p>>
    BY <1>10, <1>12, <1>14, <2>1
  <2>3. g \in 1 .. disk'[q[1]].gen
    BY <1>7, <1>14
  <2> QED BY <1>13, <1>14, <2>2, <2>3
<1>19. c + DivUp(Size(q)) <= Start + Len(img')
  BY <1>11, <1>12, <1>14 DEF d
<1> QED BY <1>15, <1>16, <1>17, <1>18, <1>19 DEF Done

\* A step that neither begins nor completes a file, but for the first reading.
LEMMA PastStays ==
    ASSUME FSInv, pc \notin {"tree", "aborted"}, UNCHANGED outVars, Ages,
           NEW X \in Seq(ImageBlocks), img' = img \o X,
           broken \subseteq broken', reported \subseteq reported', sums' = sums,
           \A k \in twice' : k \in twice \/ (n \in Writes /\ ~ Past(n) /\ k = KeyAt(n)
                                              /\ n' = n /\ pc' \in Within),
           pc' # "aborted" => \A m \in Writes : Past(m)' <=> Past(m),
           pc \in Within => pc' = "aborted" \/ (n' = n /\ pc' \in Within)
    PROVE  PastInv'
<1> SUFFICES ASSUME pc' # "aborted" PROVE PastInv'
  BY DEF PastInv
<1>1. Writes' = Writes /\ \A m : KeyAt(m)' = KeyAt(m)
  BY LayoutStays
<1>2. ASSUME NEW m \in Writes, Past(m) PROVE Done(m)'
  <2>1. KeyAt(m) \in twice' => KeyAt(m) \in twice
    BY <1>2, WritesFacts DEF FSInv
  <2> QED BY <1>2, <2>1, DoneStays
<1>3. \A m \in Writes' : Past(m)' => Done(m)'
  BY <1>1, <1>2
<1>4. \A k \in DOMAIN sums' : \E m \in Writes' : Past(m)' /\ KeyAt(m)' = k
  BY <1>1 DEF FSInv, PastInv
<1>5. ASSUME NEW k \in twice'
      PROVE  \E m \in Writes' : KeyAt(m)' = k /\ (Past(m)' \/ (m = n' /\ pc' \in Within))
  <2>1. CASE k \in twice
    <3>1. PICK m \in Writes : KeyAt(m) = k /\ (Past(m) \/ (m = n /\ pc \in Within))
      BY <2>1 DEF FSInv, PastInv
    <3> QED BY <1>1, <3>1
  <2>2. CASE k \notin twice
    BY <1>1, <1>5, <2>2 DEF Within
  <2> QED BY <2>1, <2>2
<1> QED BY <1>3, <1>4, <1>5 DEF PastInv

\* The end of a file
LEMMA Completed ==
    ASSUME FSInv, pc \in Within, UNCHANGED outVars, FileDone
    PROVE  /\ n \in Writes /\ ~ Past(n) /\ n' \in Nat /\ n' <= Len(list) + 1
           /\ pc' = "next" => \A m \in Writes : Past(m)' <=> Past(m) \/ m = n
           /\ pc' = "next" => At(n) + DivUp(Size(Key)) =
                                IF n' = 0 THEN First' ELSE At(n)'
<1>1. n \in Writes /\ n \in Nat /\ n \in 0 .. Len(list) /\ Len(list) \in Nat
  BY DEF FSInv, ProgressInv, LayoutInv, TypeInv, Within, Filling, Writes
<1>2. ~ Past(n)
  BY <1>1 DEF Past, Within, Filling
<1>3. n' \in Nat /\ n' <= Len(list) + 1 /\ (n = 0 => n' = 0) /\ (n # 0 => n' = n + 1)
  BY <1>1 DEF FileDone
<1>4. ASSUME pc' = "next", NEW m \in Writes PROVE Past(m)' <=> Past(m) \/ m = n
  <2>1. m \in Nat
    BY <1>1, <1>4 DEF Writes
  <2> QED BY <1>1, <1>3, <1>4, <2>1 DEF Past, Within
<1>5. First' = First /\ (n = 0 => At(n)' = Start) /\ (n # 0 => At(n)' = At(n + 1))
  <2>1. First' = First /\ Places(list)' = Places(list)
    BY DEF outVars, First, EfiBlocks, Places, Blocks
  <2> QED BY <1>1, <1>3, <2>1 DEF At
<1>6. list \in Seq(Keys) /\ TypeInv
  BY DEF FSInv, LayoutInv, Within, Filling
<1>7. CASE n = 0
  <2>1. EfiBlocks > 0
    BY <1>1, <1>7 DEF Writes
  <2>2. First = Start + EfiBlocks /\ EfiBlocks = DivUp(Size(efi))
    BY <1>6, <2>1, EfiFacts
  <2>3. At(0) = Start /\ Key = efi
    BY <1>6, <1>7, AtFacts DEF Key
  <2> QED BY <1>1, <1>2, <1>3, <1>4, <1>5, <1>7, <2>2, <2>3
<1>8. CASE n # 0
  <2>1. n \in 1 .. Len(list) /\ list[n] # efi /\ list[n] \in Keys /\ Key = list[n]
    BY <1>1, <1>6, <1>8 DEF Writes, Key
  <2>2. At(n + 1) = At(n) + Blocks(list[n])
    BY <1>6, <2>1, AtFacts
  <2>3. Blocks(list[n]) = DivUp(Size(list[n]))
    BY <2>1, BlocksFacts
  <2> QED BY <1>1, <1>2, <1>3, <1>4, <1>5, <1>8, <2>1, <2>2, <2>3
<1> QED BY <1>7, <1>8

LEMMA NoBlocks ==
    ASSUME img \in Seq(ImageBlocks)
    PROVE  <<>> \in Seq(ImageBlocks) /\ img = img \o <<>>
OBVIOUS

\* Nothing gets written.
LEMMA FilledStays ==
    ASSUME FSInv, pc \in Filling, pc' \in Filling, UNCHANGED <<outVars, n, b, img, digest>>,
           Ages, broken \subseteq broken'
    PROVE  FilledInv'
<1>1. outVars' = outVars /\ n' = n /\ b' = b /\ img' = img /\ digest' = digest
  OBVIOUS
<1>2. n \in Writes /\ KeyAt(n) = Key /\ TypeInv
  BY DEF FSInv, ProgressInv, Key, KeyAt, Filling, Within
<1>3. Key \in Keys
  BY <1>2, WritesFacts DEF FSInv, Filling
<1>4. PICK k : k = Key
  OBVIOUS
<1>5. PICK a : a = At(n)
  OBVIOUS
<1>6. Key' = k
  BY <1>1, <1>4 DEF Key, outVars
<1>7. At(n)' = a
  <2>1. PICK m : m = n
    OBVIOUS
  <2>2. At(m)' = At(m)
    BY <1>1, LayoutStays
  <2>3. At(n)' = At(m)'
    BY <1>1, <2>1 DEF At
  <2> QED BY <1>5, <2>1, <2>2, <2>3
<1>8. \A p : ImageUnit(a, p)' = ImageUnit(a, p)
  BY <1>1, ImageKept
<1>9. FilledInv
  BY DEF FSInv
<1>10. ASSUME NEW p \in 1 .. Size(k), p <= b * BlockSize
       PROVE  TrueUnit(k, p, ImageUnit(a, p))'
  <2>1. TrueUnit(k, p, ImageUnit(a, p))
    BY <1>4, <1>5, <1>9, <1>10 DEF FilledInv
  <2>2. PICK u : u = ImageUnit(a, p)
    OBVIOUS
  <2>3. TrueUnit(k, p, u)'
    BY <1>2, <1>3, <1>4, <2>1, <2>2, TrueStays
  <2>4. ImageUnit(a, p)' = u
    BY <1>8, <2>2
  <2> QED BY <2>3, <2>4 DEF TrueUnit
<1>11. b' <= DivUp(Size(k))
  BY <1>1, <1>4, <1>9 DEF FilledInv
<1>12. ASSUME k \notin broken'
       PROVE  /\ digest' \in Seq(Units)
              /\ Len(digest') = IF b' * BlockSize < Size(k) THEN b' * BlockSize ELSE Size(k)
              /\ \A p \in 1 .. Len(digest') : digest'[p] = ImageUnit(a, p)'
  <2>1. /\ digest \in Seq(Units)
        /\ Len(digest) = IF b * BlockSize < Size(k) THEN b * BlockSize ELSE Size(k)
        /\ \A p \in 1 .. Len(digest) : digest[p] = ImageUnit(a, p)
    BY <1>4, <1>5, <1>9, <1>12 DEF FilledInv
  <2>2. \A p \in 1 .. Len(digest') : digest'[p] = ImageUnit(a, p)'
    BY <1>1, <1>8, <2>1
  <2> QED BY <1>1, <2>1, <2>2
<1> QED BY <1>1, <1>6, <1>7, <1>10, <1>11, <1>12 DEF FilledInv

LEMMA ChangeKeeps ==
    ASSUME FSInv, NEW i \in Inodes, Change(i)
    PROVE  FSInv'
<1>1. PICK s \in Sizes : disk' = [disk EXCEPT ![i] = [size |-> s, gen |-> @.gen + 1]]
  BY DEF Change
<1>2. /\ UNCHANGED <<src, efi, list, end, n, img, b, digest, pre, sums, twice,
                     reported, broken, pc>>
      /\ changes' = changes + 1 /\ changes' \in 0 .. MaxChanges
      /\ UNCHANGED outVars /\ pc \notin {"done", "aborted"}
  BY FSAssumption DEF Change, outVars, FSInv, TypeInv
<1>3. disk \in [Inodes -> [size : Sizes, gen : 1 .. changes + 1]]
      /\ changes \in 0 .. MaxChanges /\ MaxChanges \in Nat
  BY FSAssumption DEF FSInv, TypeInv
<1>4. ASSUME NEW j \in Inodes
      PROVE  /\ disk'[j].size \in Sizes /\ disk'[j].gen \in 1 .. changes' + 1
             /\ disk'[j] \in [size : Sizes, gen : 1 .. changes' + 1]
             /\ disk'[j].gen \in Nat /\ disk'[j].gen >= disk[j].gen
             /\ disk'[j].gen = 1 => disk'[j] = disk[j]
  <2>1. CASE j = i
    <3>1. disk'[j] = [size |-> s, gen |-> disk[j].gen + 1]
      BY <1>1, <1>3, <2>1
    <3>2. disk[j].gen \in 1 .. changes + 1
      BY <1>3
    <3> QED BY <1>2, <1>3, <3>1, <3>2
  <2>2. CASE j # i
    <3>1. disk'[j] = disk[j]
      BY <1>1, <1>3, <2>2
    <3> QED BY <1>2, <1>3, <3>1
  <2> QED BY <2>1, <2>2
<1>5. disk' \in [Inodes -> [size : Sizes, gen : 1 .. changes' + 1]]
  <2>1. DOMAIN disk' = Inodes /\ disk' = [j \in Inodes |-> disk'[j]]
    BY <1>1, <1>3
  <2> QED BY <1>4, <2>1
<1>6. Ages
  BY <1>4 DEF Ages
<1>7. TypeInv'
  BY <1>2, <1>5 DEF FSInv, TypeInv
<1>8. TreeInv'
  BY <1>2 DEF FSInv, TreeInv
<1>9. FreshInv'
  <2>1. \A k \in DOMAIN src : k[1] \in Inodes
    BY KeyFacts DEF FSInv, TypeInv
  <2> QED BY <1>2, <1>4, <2>1 DEF FSInv, FreshInv
<1>10. Writes' = Writes /\ First' = First /\ \A m : KeyAt(m)' = KeyAt(m) /\ At(m)' = At(m)
  BY <1>2, LayoutStays
<1>11. PICK m : m = n
  OBVIOUS
<1>12. At(n)' = At(n) /\ At(Len(list) + 1)' = At(Len(list) + 1)
  <2>1. PICK x : x = Len(list) + 1
    OBVIOUS
  <2>2. At(n)' = At(m)' /\ At(Len(list) + 1)' = At(x)'
    BY <1>2, <1>11, <2>1 DEF At
  <2> QED BY <1>10, <1>11, <2>1, <2>2
<1>13. LayoutInv'
  BY <1>2, <1>10, <1>12 DEF FSInv, LayoutInv
<1>14. ProgressInv'
  BY <1>2, <1>10, <1>12 DEF FSInv, ProgressInv, Filled
<1>15. PastInv'
  <2>1. CASE pc = "tree"
    BY <1>2, <2>1 DEF PastInv
  <2>2. CASE pc # "tree"
    <3>1. <<>> \in Seq(ImageBlocks) /\ img' = img \o <<>>
      BY <1>2, NoBlocks DEF FSInv, TypeInv
    <3>2. \A j \in Writes : Past(j)' <=> Past(j)
      BY <1>2 DEF Past
    <3> QED BY <1>2, <1>6, <2>2, <3>1, <3>2, PastStays
  <2> QED BY <2>1, <2>2
<1>16. FilledInv'
  <2>1. CASE pc \in Filling
    BY <1>2, <1>6, <2>1, FilledStays
  <2>2. CASE pc \notin Filling
    BY <1>2, <2>2 DEF FilledInv
  <2> QED BY <2>1, <2>2
<1>17. CurrentInv'
  <2> SUFFICES ASSUME pc' \in Within PROVE CurrentInv'
    BY DEF CurrentInv
  <2>1. Key' = Key /\ pc \in Within
    BY <1>2 DEF Key
  <2>2. Key[1] \in Inodes
    <3>1. n \in Writes /\ KeyAt(n) = Key /\ pc # "tree"
      BY <2>1 DEF FSInv, ProgressInv, Key, KeyAt, Within, Filling
    <3> QED BY <3>1, WritesFacts, KeyFacts DEF FSInv
  <2>3. disk[Key[1]].gen \in Nat /\ disk'[Key[1]].gen \in Nat /\ disk'[Key[1]].gen >= disk[Key[1]].gen
    BY <1>3, <1>4, <2>2
  <2>4. ASSUME pc = "first", NEW p \in DOMAIN pre
        PROVE  pre[p] \in Of(1 .. disk'[Key[1]].gen)
    <3>1. pre[p] \in Of(1 .. disk[Key[1]].gen)
      BY <2>1, <2>4 DEF FSInv, CurrentInv
    <3> QED BY <2>3, <3>1 DEF Of
  <2>5. ASSUME Key \in twice PROVE \E g \in 1 .. disk'[Key[1]].gen : Parts(g)'
    <3>1. PICK g \in 1 .. disk[Key[1]].gen : Parts(g)
      BY <2>1, <2>5 DEF FSInv, CurrentInv
    <3>2. g \in 1 .. disk'[Key[1]].gen
      BY <2>3
    <3>3. Parts(g)'
      BY <1>2, <1>12, <2>1, <3>1, ImageKept DEF Parts
    <3> QED BY <3>2, <3>3
  <2> QED BY <1>2, <2>1, <2>4, <2>5 DEF FSInv, CurrentInv
<1> QED BY <1>7, <1>8, <1>9, <1>13, <1>14, <1>15, <1>16, <1>17 DEF FSInv

LEMMA ZeroBlocks ==
    ASSUME NEW N \in Nat, NEW S \in Seq(ImageBlocks), NEW c \in ImageBlocks
    PROVE  /\ Zeros \in ImageBlocks /\ [m \in 1 .. N |-> Zeros] \in Seq(ImageBlocks)
           /\ Len([m \in 1 .. N |-> Zeros]) = N
           /\ <<c>> \in Seq(ImageBlocks) /\ Append(S, c) = S \o <<c>>
           /\ S \o [m \in 1 .. N |-> Zeros] \in Seq(ImageBlocks)
           /\ S \o <<c>> \in Seq(ImageBlocks) /\ Len(S \o <<c>>) = Len(S) + 1
<1>1. Zeros \in ImageBlocks
  BY DEF Zeros, ImageBlocks, Units, Of
<1> HIDE DEF Zeros, ImageBlocks
<1>2. [m \in 1 .. N |-> Zeros] \in Seq(ImageBlocks) /\ Len([m \in 1 .. N |-> Zeros]) = N
  BY <1>1
<1>3. /\ <<c>> \in Seq(ImageBlocks) /\ Append(S, c) = S \o <<c>>
      /\ S \o <<c>> \in Seq(ImageBlocks) /\ Len(S \o <<c>>) = Len(S) + 1
  OBVIOUS
<1>4. S \o [m \in 1 .. N |-> Zeros] \in Seq(ImageBlocks)
  BY <1>2, ConcatAt
<1> QED BY <1>1, <1>2, <1>3, <1>4

LEMMA WriteZeroBlockKeeps ==
    ASSUME FSInv, WriteZeroBlock
    PROVE  FSInv'
<1>1. /\ pc = "next" /\ pc' = "next" /\ n = 0 /\ n' = 1
      /\ UNCHANGED <<diskVars, outVars, b, digest, pre, sums, twice, reported, broken, pc>>
      /\ img' = IF OldEmpty THEN img ELSE Append(img, Zeros)
  BY DEF WriteZeroBlock
<1>2. /\ disk' = disk /\ changes' = changes /\ src' = src /\ efi' = efi /\ list' = list
      /\ end' = end /\ twice' = twice /\ reported' = reported /\ broken' = broken
      /\ sums' = sums /\ b' = b /\ UNCHANGED outVars /\ UNCHANGED <<diskVars, outVars>>
  BY <1>1 DEF diskVars, outVars
<1>3. list \in Seq(Keys) /\ Len(list) \in Nat /\ TypeInv /\ img \in Seq(ImageBlocks)
      /\ Len(img) \in Nat
  BY <1>1 DEF FSInv, LayoutInv, TypeInv
<1> DEFINE z == IF OldEmpty THEN 0 ELSE 1
<1>9. z \in Nat /\ (OldEmpty => z = 0) /\ (~ OldEmpty => z = 1)
  OBVIOUS
<1> HIDE DEF z
<1>4. PICK X \in Seq(ImageBlocks) :
        img' = img \o X /\ img' \in Seq(ImageBlocks) /\ Len(img') = Len(img) + z
  <2>1. CASE OldEmpty
    <3>1. <<>> \in Seq(ImageBlocks) /\ img' = img \o <<>>
      BY <1>1, <1>3, <2>1, NoBlocks
    <3>2. img' = img
      BY <1>1, <2>1
    <3>3. z = 0
      BY <1>9, <2>1
    <3>4. Len(img') = Len(img) + z /\ img' \in Seq(ImageBlocks)
      BY <1>3, <3>2, <3>3
    <3> QED BY <3>1, <3>4
  <2>2. CASE ~ OldEmpty
    <3>1. Zeros \in ImageBlocks
      BY <1>3, ZeroBlocks DEF Zeros, ImageBlocks, Units, Of
    <3>2. /\ <<Zeros>> \in Seq(ImageBlocks) /\ img' = img \o <<Zeros>>
          /\ img' \in Seq(ImageBlocks) /\ Len(img') = Len(img) + 1
      BY <1>1, <1>3, <2>2, <3>1, ZeroBlocks
    <3> QED BY <1>9, <2>2, <3>2
  <2> QED BY <2>1, <2>2
<1>5. TypeInv'
  BY <1>1, <1>2, <1>4 DEF FSInv, TypeInv
<1>6. TreeInv' /\ FreshInv' /\ LayoutInv' /\ Writes' = Writes
      /\ \A m : KeyAt(m)' = KeyAt(m) /\ At(m)' = At(m)
  BY <1>1, <1>2, <1>3, Stays
<1>7. ProgressInv'
  <2>1. At(1) = First + z /\ First \in Nat
    BY <1>3, AtFacts, EfiFacts DEF z
  <2>2. At(n)' = At(1)
    <3>1. At(n)' = At(1)'
      BY <1>1 DEF At
    <3> QED BY <1>6, <3>1
  <2>3. Filled' = 0
    BY <1>1 DEF Filled, Filling
  <2>4. Start + Len(img) = First
    BY <1>1 DEF FSInv, ProgressInv
  <2>5. Start + Len(img') = At(n)' + Filled'
    <3>1. Len(img') = Len(img) + z /\ z \in Nat /\ Len(img) \in Nat /\ Start \in Nat
      BY <1>3, <1>4, <1>9, Constants
    <3> QED BY <2>1, <2>2, <2>3, <2>4, <3>1
  <2> QED BY <1>1, <2>5 DEF ProgressInv, Within, Filling
<1>8. PastInv'
  <2>1. Ages
    BY <1>2, <1>3, NoAging
  <2>2. \A m \in Writes : Past(m)' <=> Past(m)
    BY <1>1, <1>3 DEF Past, Writes
  <2> QED BY <1>1, <1>2, <1>4, <2>1, <2>2, PastStays DEF Within, Filling
<1> QED BY <1>1, <1>5, <1>6, <1>7, <1>8 DEF FSInv, FilledInv, CurrentInv, Filling, Within

LEMMA SkipFileKeeps ==
    ASSUME FSInv, SkipFile
    PROVE  FSInv'
<1>1. /\ pc = "next" /\ pc' = "next" /\ n \in DOMAIN list /\ Key = efi /\ FileDone
      /\ UNCHANGED <<diskVars, outVars, img, b, digest, pre, sums, twice, reported, broken, pc>>
  BY DEF SkipFile, Listed
<1>2. /\ disk' = disk /\ changes' = changes /\ src' = src /\ efi' = efi /\ list' = list
      /\ end' = end /\ twice' = twice /\ reported' = reported /\ broken' = broken
      /\ sums' = sums /\ b' = b /\ img' = img
      /\ UNCHANGED outVars /\ UNCHANGED <<diskVars, outVars>>
  BY <1>1 DEF diskVars, outVars
<1>3. list \in Seq(Keys) /\ Len(list) \in Nat /\ TypeInv /\ img \in Seq(ImageBlocks)
      /\ n \in 1 .. Len(list) /\ list[n] \in Keys /\ list[n] = efi
  BY <1>1 DEF FSInv, LayoutInv, TypeInv, Key
<1>4. n' = n + 1
  BY <1>1, <1>3 DEF FileDone
<1>5. TypeInv'
  BY <1>1, <1>2, <1>3, <1>4 DEF FSInv, TypeInv
<1>6. TreeInv' /\ FreshInv' /\ LayoutInv' /\ Writes' = Writes
      /\ \A m : KeyAt(m)' = KeyAt(m) /\ At(m)' = At(m)
  BY <1>1, <1>2, <1>3, <1>4, Stays
<1>7. ProgressInv'
  <2>1. At(n + 1) = At(n) + Blocks(list[n]) /\ At(n) \in Nat
    BY <1>3, AtFacts
  <2>2. Blocks(list[n]) = 0
    BY <1>3, BlocksFacts
  <2>3. At(n)' = At(n + 1)
    <3>1. PICK x : x = n + 1
      OBVIOUS
    <3>2. At(n)' = At(x)'
      BY <1>4, <3>1 DEF At
    <3> QED BY <1>6, <3>1, <3>2
  <2>4. Filled' = 0 /\ Filled = 0
    BY <1>1 DEF Filled, Filling
  <2>5. Start + Len(img) = At(n) + Filled
    BY <1>1, <1>3 DEF FSInv, ProgressInv
  <2>6. Start + Len(img') = At(n)' + Filled'
    BY <1>2, <2>1, <2>2, <2>3, <2>4, <2>5
  <2> QED BY <1>1, <1>3, <1>4, <2>6 DEF ProgressInv, Within, Filling
<1>8. PastInv'
  <2>1. Ages
    BY <1>2, <1>3, NoAging
  <2>2. n \notin Writes
    BY <1>3 DEF Writes
  <2>3. \A m \in Writes : Past(m)' <=> Past(m)
    BY <1>1, <1>3, <1>4, <2>2 DEF Past, Writes
  <2>4. <<>> \in Seq(ImageBlocks) /\ img' = img \o <<>>
    BY <1>2, <1>3, NoBlocks
  <2> QED BY <1>1, <1>2, <2>1, <2>3, <2>4, PastStays DEF Within, Filling
<1> QED BY <1>1, <1>5, <1>6, <1>7, <1>8 DEF FSInv, FilledInv, CurrentInv, Filling, Within

LEMMA EndOfWritingKeeps ==
    ASSUME FSInv, EndOfWriting
    PROVE  FSInv'
<1>1. /\ pc = "next" /\ n = Len(list) + 1 /\ pc' = "done" /\ n' = n
      /\ UNCHANGED <<diskVars, outVars, n, img, b, digest, pre, sums, twice, reported, broken>>
  BY DEF EndOfWriting
<1>2. /\ disk' = disk /\ changes' = changes /\ src' = src /\ efi' = efi /\ list' = list
      /\ end' = end /\ twice' = twice /\ reported' = reported /\ broken' = broken
      /\ sums' = sums /\ b' = b /\ img' = img
      /\ UNCHANGED outVars /\ UNCHANGED <<diskVars, outVars>>
  BY <1>1 DEF diskVars, outVars
<1>3. list \in Seq(Keys) /\ Len(list) \in Nat /\ TypeInv /\ img \in Seq(ImageBlocks) /\ n # 0
  BY <1>1 DEF FSInv, LayoutInv, TypeInv
<1>4. TypeInv'
  BY <1>1, <1>2 DEF FSInv, TypeInv, Ended
<1>5. TreeInv' /\ FreshInv' /\ LayoutInv' /\ Writes' = Writes
      /\ \A m : KeyAt(m)' = KeyAt(m) /\ At(m)' = At(m)
  BY <1>1, <1>2, <1>3, Stays
<1>6. ProgressInv'
  <2>1. At(n)' = At(n)
    <3>1. PICK x : x = n
      OBVIOUS
    <3>2. At(n)' = At(x)'
      BY <1>1, <3>1 DEF At
    <3> QED BY <1>5, <3>1, <3>2
  <2>2. Filled' = Filled
    BY <1>1 DEF Filled, Filling
  <2> QED BY <1>1, <1>2, <1>3, <2>1, <2>2 DEF FSInv, ProgressInv, Within, Filling
<1>7. PastInv'
  <2>1. Ages
    BY <1>2, <1>3, NoAging
  <2>2. \A m \in Writes : Past(m)' <=> Past(m)
    BY <1>1, <1>3 DEF Past, Writes
  <2>3. <<>> \in Seq(ImageBlocks) /\ img' = img \o <<>>
    BY <1>2, <1>3, NoBlocks
  <2> QED BY <1>1, <1>2, <2>1, <2>2, <2>3, PastStays DEF Within, Filling
<1> QED BY <1>1, <1>4, <1>5, <1>6, <1>7 DEF FSInv, FilledInv, CurrentInv, Filling, Within

\* A step within a file, or from one file's begin into it
LEMMA SameFile ==
    ASSUME FSInv, UNCHANGED outVars, n' = n, pc \notin {"tree", "aborted"},
           n \in Writes, ~ Past(n), pc' \notin {"tree", "next"}
    PROVE  /\ KeyAt(n) = Key /\ Key \in Keys /\ Key \in DOMAIN src /\ Key' = Key
           /\ Size(Key) \in Nat /\ Key[1] \in Inodes
           /\ At(n)' = At(n) /\ At(n) \in Nat /\ At(n) >= Start
           /\ \A m \in Writes : Past(m)' <=> Past(m)
           /\ n' \in Nat /\ n' <= Len(list) + 1
           /\ Start + Len(img) = At(n) + Filled
<1>1. KeyAt(n) = Key /\ Key' = Key
  BY DEF KeyAt, Key, outVars
<1>2. Key \in Keys /\ Key \in DOMAIN src /\ At(n) \in Nat /\ At(n) >= Start
  BY <1>1, WritesFacts DEF FSInv
<1>3. Size(Key) \in Nat /\ Key[1] \in Inodes
  BY <1>2, KeyFacts
<1>4. At(n)' = At(n)
  <2>1. PICK x : x = n
    OBVIOUS
  <2>2. At(n)' = At(x)' /\ At(x)' = At(x)
    BY <2>1, LayoutStays DEF At
  <2> QED BY <2>1, <2>2
<1>5. n \in Nat /\ n <= Len(list) + 1 /\ Len(list) \in Nat
  BY DEF FSInv, TypeInv, LayoutInv
<1>6. \A m \in Writes : Past(m)' <=> Past(m)
  <2>1. ASSUME NEW m \in Writes PROVE Past(m)' <=> Past(m)
    BY <1>5 DEF Past, Writes
  <2> QED BY <2>1
<1>7. Start + Len(img) = At(n) + Filled
  BY <1>5 DEF FSInv, ProgressInv, Past
<1> QED BY <1>1, <1>2, <1>3, <1>4, <1>5, <1>6, <1>7

LEMMA BeginFileKeeps ==
    ASSUME FSInv, BeginFile
    PROVE  FSInv'
<1>1. /\ pc = "partition" \/ (pc = "next" /\ n \in DOMAIN list /\ Key # efi)
      /\ pc' \in {"first", "open"} /\ b' = 0 /\ digest' = <<>> /\ pre' = <<>> /\ n' = n
      /\ UNCHANGED <<diskVars, outVars, n, img, sums, twice, reported, broken>>
  BY DEF BeginFile, Listed
<1>2. /\ disk' = disk /\ changes' = changes /\ src' = src /\ efi' = efi /\ list' = list
      /\ end' = end /\ reported' = reported /\ broken' = broken /\ twice' = twice
      /\ sums' = sums /\ img' = img
      /\ UNCHANGED outVars /\ UNCHANGED <<diskVars, outVars>>
  BY <1>1 DEF diskVars, outVars
<1>3. list \in Seq(Keys) /\ Len(list) \in Nat /\ TypeInv /\ img \in Seq(ImageBlocks)
      /\ pc \notin {"tree", "aborted"}
  BY <1>1 DEF FSInv, LayoutInv, TypeInv
<1>4. n \in Writes /\ ~ Past(n)
  <2>1. CASE pc = "partition"
    BY <2>1 DEF FSInv, ProgressInv, Past
  <2>2. CASE pc # "partition"
    BY <1>1, <1>3, <2>2 DEF Past, Writes, Key
  <2> QED BY <2>1, <2>2
<1>5. /\ KeyAt(n) = Key /\ Key \in Keys /\ Key \in DOMAIN src /\ Key' = Key
      /\ Size(Key) \in Nat /\ Key[1] \in Inodes
      /\ At(n)' = At(n) /\ \A m \in Writes : Past(m)' <=> Past(m)
      /\ n' \in Nat /\ n' <= Len(list) + 1 /\ Start + Len(img) = At(n) + Filled
  BY <1>1, <1>2, <1>3, <1>4, SameFile
<1>6. TypeInv'
  BY <1>1, <1>2, <1>3, <1>5 DEF FSInv, TypeInv, Within
<1>7. TreeInv' /\ FreshInv' /\ LayoutInv' /\ Writes' = Writes
  BY <1>1, <1>2, <1>3, <1>5, Stays
<1>8. ProgressInv'
  <2>1. Filled' = 0 /\ Filled = 0
    BY <1>1 DEF Filled, Filling
  <2> QED BY <1>1, <1>2, <1>4, <1>5, <1>7, <2>1 DEF ProgressInv
<1>9. PastInv'
  <2>1. Ages
    BY <1>2, <1>3, NoAging
  <2>2. <<>> \in Seq(ImageBlocks) /\ img' = img \o <<>>
    BY <1>2, <1>3, NoBlocks
  <2>3. pc \notin Within
    BY <1>1 DEF Within, Filling
  <2> QED BY <1>2, <1>3, <1>5, <2>1, <2>2, <2>3, PastStays
<1>10. CurrentInv'
  <2>1. Key \notin twice
    <3> SUFFICES ASSUME Key \in twice PROVE FALSE
      OBVIOUS
    <3>1. PICK m \in Writes : KeyAt(m) = Key /\ (Past(m) \/ (m = n /\ pc \in Within))
      BY <1>3 DEF FSInv, PastInv
    <3>2. m = n
      BY <1>3, <1>4, <1>5, <3>1, WritesFacts DEF FSInv
    <3> QED BY <1>1, <1>4, <3>1, <3>2 DEF Within, Filling
  <2>2. pre' \in Seq(Units) /\ DOMAIN pre' = {}
    BY <1>1
  <2> QED BY <1>1, <1>2, <1>5, <2>1, <2>2 DEF CurrentInv
<1>11. FilledInv'
  BY <1>1 DEF FilledInv, Filling
<1> QED BY <1>6, <1>7, <1>8, <1>9, <1>10, <1>11 DEF FSInv

LEMMA GenFact ==
    ASSUME TypeInv, NEW i \in Inodes
    PROVE  disk[i].gen \in Nat /\ disk[i].gen >= 1 /\ disk[i].size \in Nat
<1>1. disk[i] \in [size : Sizes, gen : 1 .. changes + 1]
  BY DEF TypeInv
<1>2. changes \in Nat
  BY FSAssumption DEF TypeInv
<1>3. disk[i].gen \in 1 .. changes + 1 /\ disk[i].size \in Sizes
  BY <1>1
<1>4. Sizes \subseteq Nat
  BY FSAssumption
<1>5. disk[i].gen \in Nat /\ disk[i].gen >= 1
  BY <1>2, <1>3
<1> QED BY <1>3, <1>4, <1>5

\* What a file on disk yields is of its current generation.
LEMMA ContentFact ==
    ASSUME TypeInv, NEW k \in Keys, NEW m \in Nat
    PROVE  /\ disk[k[1]].gen \in Nat /\ disk[k[1]].gen >= 1
           /\ disk[k[1]].size \in Nat
           /\ Content(k, m) \in [1 .. BlockSize -> Of({disk[k[1]].gen})]
           /\ Content(k, m) \in ImageBlocks
<1> DEFINE i == k[1]
           g == disk[i].gen
           c == Content(k, m)
<1>1. i \in Inodes
  BY KeyFacts
<1>2. g \in Nat /\ g >= 1 /\ disk[i].size \in Nat
  BY <1>1, GenFact
<1>3. ASSUME NEW u \in 1 .. BlockSize PROVE c[u] \in Of({g}) /\ c[u] \in Units
  <2>1. c[u] = Unit(k, m * BlockSize + u) /\ m * BlockSize + u \in Nat
    BY Constants DEF Content
  <2>2. PICK p \in Nat : p = m * BlockSize + u
    BY <2>1
  <2>3. Unit(k, p) = <<i, g, p>> \/ Unit(k, p) = Zero
    BY DEF Unit
  <2> HIDE DEF c, g, i
  <2>4. Unit(k, p) \in Of({g}) /\ Unit(k, p) \in Units
    BY <1>1, <1>2, <2>3 DEF Of, Units
  <2> QED BY <2>1, <2>2, <2>4
<1>4. c = [u \in 1 .. BlockSize |-> c[u]]
  BY DEF Content
<1> HIDE DEF c
<1> QED BY <1>2, <1>3, <1>4 DEF ImageBlocks, c

\* How much of a block the first reading sees.
LEMMA FirstCountedFact ==
    ASSUME NEW k, Size(k) \in Nat, NEW m \in Nat, m * BlockSize < Size(k)
    PROVE  FirstCounted(k, m) \in 0 .. BlockSize
<1> DEFINE x == m * BlockSize
           y == x % Word
<1>1. BlockSize \in Nat /\ x \in Nat /\ Word \in Nat /\ Word >= 1
  BY Constants DEF Word
<1> HIDE DEF x
<1>2. y \in Nat /\ y <= x
  <2>1. PICK W \in Nat : W = Word /\ W >= 1
    BY <1>1
  <2>2. x \div W \in Nat /\ x % W \in 0 .. W - 1 /\ x = (x \div W) * W + (x % W)
    BY <1>1, <2>1, DivMod
  <2>3. (x \div W) * W \in Nat
    BY <2>1, <2>2, Z3
  <2> QED BY <1>1, <2>1, <2>2, <2>3
<1>3. x < Size(k)
  BY DEF x
<1> HIDE DEF y
<1> QED BY <1>1, <1>2, <1>3 DEF FirstCounted, x, y

\* A step of the first reading
LEMMA FirstKeeps ==
    ASSUME FSInv, pc = "first", pc' \in {"first", "open"},
           b' \in Nat, pc' = "open" => b' = 0, twice' \in {twice, twice \cup {Key}},
           UNCHANGED <<diskVars, outVars, n, img, digest, sums, reported, broken>>,
           pc' = "first" =>
             /\ twice' = twice /\ pre' \in Seq(Units)
             /\ \A p \in DOMAIN pre' : pre'[p] \in Of(1 .. disk[Key[1]].gen),
           twice' # twice => pre' = pre
    PROVE  FSInv'
<1>1. /\ disk' = disk /\ changes' = changes /\ src' = src /\ efi' = efi /\ list' = list
      /\ end' = end /\ sums' = sums /\ img' = img /\ n' = n /\ digest' = digest
      /\ broken' = broken /\ reported' = reported
      /\ UNCHANGED outVars /\ UNCHANGED <<diskVars, outVars>>
  BY DEF diskVars, outVars
<1>2. list \in Seq(Keys) /\ Len(list) \in Nat /\ TypeInv /\ img \in Seq(ImageBlocks)
      /\ pc \notin {"tree", "aborted", "next"} /\ pc \in Within /\ pc' \in Within
      /\ pc' \notin {"tree", "next"}
  BY DEF FSInv, LayoutInv, TypeInv, Within
<1>3. n \in Writes /\ ~ Past(n)
  BY <1>2 DEF FSInv, ProgressInv, Past, TypeInv
<1>4. /\ KeyAt(n) = Key /\ Key \in Keys /\ Key \in DOMAIN src /\ Key' = Key
      /\ At(n)' = At(n) /\ \A m \in Writes : Past(m)' <=> Past(m)
      /\ n' \in Nat /\ n' <= Len(list) + 1 /\ Start + Len(img) = At(n) + Filled
  BY <1>1, <1>2, <1>3, SameFile
<1>5. TypeInv'
  BY <1>1, <1>2, <1>4 DEF TypeInv
<1>6. TreeInv' /\ FreshInv' /\ LayoutInv' /\ Writes' = Writes
  BY <1>1, <1>2, <1>4, Stays
<1>7. ProgressInv'
  <2>1. Filled' = 0 /\ Filled = 0
    BY DEF Filled, Filling
  <2> QED BY <1>1, <1>2, <1>3, <1>4, <1>6, <2>1 DEF ProgressInv
<1>8. PastInv'
  <2>1. Ages
    BY <1>1, <1>2, NoAging
  <2>2. <<>> \in Seq(ImageBlocks) /\ img' = img \o <<>>
    BY <1>1, <1>2, NoBlocks
  <2>3. \A k \in twice' : k \in twice \/ (n \in Writes /\ ~ Past(n) /\ k = KeyAt(n)
                                              /\ n' = n /\ pc' \in Within)
    BY <1>1, <1>2, <1>3, <1>4
  <2> QED BY <1>1, <1>2, <1>4, <2>1, <2>2, <2>3, PastStays
<1>9. /\ digest = <<>> /\ Key \notin twice
      /\ \A p \in DOMAIN pre : pre[p] \in Of(1 .. disk[Key[1]].gen)
  BY <1>2 DEF FSInv, CurrentInv
<1>10. CurrentInv'
  <2>1. ASSUME Key \in twice' PROVE \E g \in 1 .. disk[Key[1]].gen : Parts(g)'
    <3>1. pre' = pre /\ pc' = "open"
      BY <1>9, <2>1
    <3>2. PICK g : g = disk[Key[1]].gen
      OBVIOUS
    <3>3. g \in 1 .. disk[Key[1]].gen
      <4>1. Key[1] \in Inodes
        BY <1>4, KeyFacts
      <4> QED BY <1>2, <3>2, <4>1, GenFact
    <3>4. \A p \in DOMAIN pre : pre[p] \in Of(1 .. g)
      BY <1>9, <3>2
    <3>5. Parts(g)'
      BY <3>1, <3>4 DEF Parts, Filling
    <3> QED BY <3>3, <3>5
  <2> QED BY <1>1, <1>4, <1>9, <2>1 DEF CurrentInv
<1>11. FilledInv'
  BY DEF FilledInv, Filling
<1> QED BY <1>5, <1>6, <1>7, <1>8, <1>10, <1>11 DEF FSInv

LEMMA FirstBlockKeeps ==
    ASSUME FSInv, FirstBlock
    PROVE  FSInv'
<1> DEFINE c == Content(Key, b)
           z == FirstCounted(Key, b)
           t == SubSeq(c, 1, z)
           gens == 1 .. disk[Key[1]].gen
<1>1. /\ pc = "first" /\ pc' = pc /\ b < DivUp(Size(Key)) /\ b' = b + 1
      /\ pre' = pre \o t /\ twice' = twice
      /\ UNCHANGED <<diskVars, outVars, n, img, digest, sums, reported, broken>>
      /\ pc \in Within /\ pc \notin {"tree", "next", "aborted"}
  BY DEF FirstBlock, Within
<1>2. TypeInv /\ n \in Writes /\ KeyAt(n) = Key /\ b \in Nat
  BY <1>1 DEF FSInv, TypeInv, ProgressInv, Key, KeyAt
<1>3. Key \in Keys /\ Size(Key) \in Nat
  BY <1>1, <1>2, WritesFacts DEF FSInv
<1>4. /\ disk[Key[1]].gen \in Nat /\ disk[Key[1]].gen >= 1
      /\ c \in [1 .. BlockSize -> Of({disk[Key[1]].gen})] /\ c \in ImageBlocks
  BY <1>2, <1>3, ContentFact
<1>5. z \in 0 .. BlockSize
  <2>1. b * BlockSize < Size(Key)
    BY <1>1, <1>2, <1>3, DivUpFacts
  <2> QED BY <1>2, <1>3, <2>1, FirstCountedFact
<1>6. /\ pre \in Seq(Units) /\ \A p \in DOMAIN pre : pre[p] \in Of(gens)
  BY <1>1 DEF FSInv, CurrentInv
<1>7. ASSUME NEW u \in 1 .. BlockSize PROVE c[u] \in Of(gens) /\ c[u] \in Units
  <2>1. c[u] \in Of({disk[Key[1]].gen})
    BY <1>4
  <2>2. c[u] \in Units
    BY <1>4 DEF ImageBlocks
  <2> QED BY <1>4, <2>1, <2>2 DEF Of
<1>8. c \in Seq(Units) /\ Len(c) = BlockSize
  <2>1. c \in [1 .. BlockSize -> Units] /\ BlockSize \in Nat
    BY <1>4, Constants DEF ImageBlocks
  <2> HIDE DEF c
  <2> QED BY <2>1
<1> HIDE DEF c, z, gens
<1>9. t \in Seq(Units) /\ Len(t) = z /\ \A u \in 1 .. z : t[u] = c[u]
  BY <1>5, <1>8
<1> HIDE DEF t
<1>10. pre' \in Seq(Units) /\ \A p \in DOMAIN pre' : pre'[p] \in Of(gens)
  <2>1. /\ pre' \in Seq(Units) /\ Len(pre) \in Nat /\ Len(pre') = Len(pre) + z
        /\ \A p \in 1 .. Len(pre) : pre'[p] = pre[p]
        /\ \A u \in 1 .. z : pre'[Len(pre) + u] = t[u]
    <3>1. PICK x \in Seq(Units), y \in Seq(Units) : x = pre /\ y = t
      BY <1>6, <1>9
    <3>2. pre' = x \o y
      BY <1>1, <3>1
    <3>3. /\ x \o y \in Seq(Units) /\ Len(x) \in Nat /\ Len(x \o y) = Len(x) + Len(y)
          /\ \A p \in 1 .. Len(x) : (x \o y)[p] = x[p]
          /\ \A u \in 1 .. Len(y) : (x \o y)[Len(x) + u] = y[u]
      BY ConcatAt
    <3> QED BY <1>9, <3>1, <3>2, <3>3
  <2>2. ASSUME NEW p \in DOMAIN pre' PROVE pre'[p] \in Of(gens)
    <3>1. p \in 1 .. Len(pre) + z
      BY <2>1
    <3>2. CASE p <= Len(pre)
      BY <1>6, <2>1, <3>1, <3>2
    <3>3. CASE p > Len(pre)
      <4>1. p - Len(pre) \in 1 .. z /\ p = Len(pre) + (p - Len(pre))
        BY <1>5, <2>1, <3>1, <3>3
      <4>2. PICK u \in 1 .. z : p = Len(pre) + u
        BY <4>1
      <4>3. pre'[p] = c[u] /\ u \in 1 .. BlockSize
        BY <1>5, <1>9, <2>1, <4>2, Constants
      <4> QED BY <1>7, <4>3
    <3> QED BY <2>1, <3>1, <3>2, <3>3
  <2> QED BY <2>1, <2>2
<1> QED BY <1>1, <1>2, <1>10, FirstKeeps DEF gens

LEMMA FirstFailsKeeps ==
    ASSUME FSInv, FirstFails
    PROVE  FSInv'
BY FirstKeeps DEF FirstFails

LEMMA FirstEndsKeeps ==
    ASSUME FSInv, FirstEnds
    PROVE  FSInv'
BY FirstKeeps DEF FirstEnds

LEMMA OpenFileKeeps ==
    ASSUME FSInv, OpenFile
    PROVE  FSInv'
<1>1. /\ pc = "open" /\ pc' \in {"zeros", "read", "aborted"} /\ n' = n
      /\ UNCHANGED <<diskVars, outVars, n, img, b, digest, pre, sums, twice>>
      /\ reported' \in {reported, reported \cup {Key}}
      /\ broken' \in {broken, broken \cup {Key}}
      /\ broken' # broken => reported' = reported \cup {Key}
      /\ pc' = "zeros" => broken' = broken \cup {Key}
  BY DEF OpenFile, Report
<1>2. /\ disk' = disk /\ changes' = changes /\ src' = src /\ efi' = efi /\ list' = list
      /\ end' = end /\ sums' = sums /\ img' = img /\ twice' = twice /\ pre' = pre
      /\ b' = b /\ digest' = digest
      /\ broken \subseteq broken' /\ reported \subseteq reported'
      /\ UNCHANGED outVars /\ UNCHANGED <<diskVars, outVars>>
  BY <1>1 DEF diskVars, outVars
<1>3. list \in Seq(Keys) /\ Len(list) \in Nat /\ TypeInv /\ img \in Seq(ImageBlocks)
      /\ pc \notin {"tree", "aborted"} /\ pc \in Within
  BY <1>1 DEF FSInv, LayoutInv, TypeInv, Within
<1>4. n \in Writes /\ ~ Past(n) /\ b = 0 /\ digest = <<>>
  BY <1>1, <1>3 DEF FSInv, ProgressInv, CurrentInv, Past, TypeInv
<1>5. /\ KeyAt(n) = Key /\ Key \in Keys /\ Key \in DOMAIN src /\ Key' = Key
      /\ Size(Key) \in Nat /\ Key[1] \in Inodes
      /\ At(n)' = At(n) /\ \A m \in Writes : Past(m)' <=> Past(m)
      /\ n' \in Nat /\ n' <= Len(list) + 1 /\ Start + Len(img) = At(n) + Filled
  BY <1>1, <1>2, <1>3, <1>4, SameFile
<1>6. TypeInv'
  <2>1. broken' \subseteq reported' /\ reported' \subseteq DOMAIN src
    BY <1>1, <1>3, <1>5 DEF TypeInv
  <2> QED BY <1>1, <1>2, <1>3, <2>1 DEF TypeInv, Within, Filling, Ended
<1>7. TreeInv' /\ FreshInv' /\ LayoutInv' /\ Writes' = Writes
  BY <1>1, <1>2, <1>3, <1>5, Stays
<1>8. ProgressInv'
  <2>1. Filled' = 0 /\ Filled = 0
    BY <1>1, <1>2, <1>4 DEF Filled, Filling
  <2> QED BY <1>1, <1>2, <1>4, <1>5, <1>7, <2>1 DEF ProgressInv
<1>9. PastInv'
  <2>1. Ages
    BY <1>2, <1>3, NoAging
  <2>2. <<>> \in Seq(ImageBlocks) /\ img' = img \o <<>>
    BY <1>2, <1>3, NoBlocks
  <2>3. pc' = "aborted" \/ (n' = n /\ pc' \in Within)
    BY <1>1 DEF Within, Filling
  <2> QED BY <1>2, <1>3, <1>5, <2>1, <2>2, <2>3, PastStays
<1>10. CurrentInv'
  <2>1. pc' \in {"zeros", "fill"} => Key \in broken'
    BY <1>1
  <2>2. ASSUME NEW g, Parts(g) PROVE Parts(g)'
    <3>1. b' * BlockSize = 0
      BY <1>2, <1>4, Constants
    <3>2. \A p \in 1 .. Size(Key) : ~ (p <= b' * BlockSize)
      BY <1>5, <3>1
    <3> QED BY <1>2, <1>5, <2>2, <3>2 DEF Parts
  <2>3. Key \in twice => \E g \in 1 .. disk[Key[1]].gen : Parts(g)
    BY <1>3 DEF FSInv, CurrentInv
  <2> QED BY <1>1, <1>2, <1>4, <1>5, <2>1, <2>2, <2>3 DEF CurrentInv
<1>11. FilledInv'
  <2>1. b' = 0 /\ digest' = <<>>
    BY <1>2, <1>4
  <2>2. 0 * BlockSize = 0 /\ 0 <= DivUp(Size(Key)) /\ BlockSize \in Nat
    BY <1>5, Constants, DivUpFacts
  <2>3. \A p \in 1 .. Size(Key) : ~ (p <= b' * BlockSize)
    BY <1>5, <2>1, <2>2
  <2>4. <<>> \in Seq(Units) /\ Len(<<>>) = 0
    OBVIOUS
  <2>5. Len(digest') = IF b' * BlockSize < Size(Key) THEN b' * BlockSize ELSE Size(Key)
    BY <1>5, <2>1, <2>2, <2>4
  <2>6. b' <= DivUp(Size(Key)) /\ digest' \in Seq(Units) /\ 1 .. Len(digest') = {}
    BY <2>1, <2>2, <2>4
  <2> QED BY <1>5, <2>3, <2>5, <2>6 DEF FilledInv
<1> QED BY <1>6, <1>7, <1>8, <1>9, <1>10, <1>11 DEF FSInv

LEMMA ReadFailsKeeps ==
    ASSUME FSInv, ReadFails
    PROVE  FSInv'
<1>1. /\ pc = "read" /\ pc' \in {"fill", "aborted"} /\ n' = n
      /\ UNCHANGED <<diskVars, outVars, n, img, b, digest, pre, sums, twice>>
      /\ reported' = reported \cup {Key} /\ broken' = broken \cup {Key}
  BY DEF ReadFails, Report
<1>2. /\ disk' = disk /\ changes' = changes /\ src' = src /\ efi' = efi /\ list' = list
      /\ end' = end /\ sums' = sums /\ img' = img /\ twice' = twice /\ pre' = pre
      /\ b' = b /\ digest' = digest
      /\ broken \subseteq broken' /\ reported \subseteq reported'
      /\ UNCHANGED outVars /\ UNCHANGED <<diskVars, outVars>>
  BY <1>1 DEF diskVars, outVars
<1>3. list \in Seq(Keys) /\ Len(list) \in Nat /\ TypeInv /\ img \in Seq(ImageBlocks)
      /\ pc \notin {"tree", "aborted"} /\ pc \in Within /\ pc \in Filling
  BY <1>1 DEF FSInv, LayoutInv, TypeInv, Within, Filling
<1>4. n \in Writes /\ ~ Past(n)
  BY <1>1, <1>3 DEF FSInv, ProgressInv, Past, TypeInv
<1>5. /\ KeyAt(n) = Key /\ Key \in Keys /\ Key \in DOMAIN src /\ Key' = Key
      /\ Size(Key) \in Nat /\ Key[1] \in Inodes
      /\ At(n)' = At(n) /\ \A m \in Writes : Past(m)' <=> Past(m)
      /\ n' \in Nat /\ n' <= Len(list) + 1 /\ Start + Len(img) = At(n) + Filled
  BY <1>1, <1>2, <1>3, <1>4, SameFile
<1>6. TypeInv'
  <2>1. broken' \subseteq reported' /\ reported' \subseteq DOMAIN src
    BY <1>1, <1>3, <1>5 DEF TypeInv
  <2> QED BY <1>1, <1>2, <1>3, <2>1 DEF TypeInv, Within, Filling, Ended
<1>7. TreeInv' /\ FreshInv' /\ LayoutInv' /\ Writes' = Writes
  BY <1>1, <1>2, <1>3, <1>5, Stays
<1>8. Ages
  BY <1>2, <1>3, NoAging
<1>9. PastInv'
  <2>1. <<>> \in Seq(ImageBlocks) /\ img' = img \o <<>>
    BY <1>2, <1>3, NoBlocks
  <2>2. pc' = "aborted" \/ (n' = n /\ pc' \in Within)
    BY <1>1 DEF Within, Filling
  <2> QED BY <1>2, <1>3, <1>5, <1>8, <2>1, <2>2, PastStays
<1>10. CASE pc' = "aborted"
  <2>1. ProgressInv' /\ FilledInv' /\ CurrentInv'
    BY <1>10 DEF ProgressInv, FilledInv, CurrentInv, Within, Filling
  <2> QED BY <1>6, <1>7, <1>9, <2>1 DEF FSInv
<1>11. CASE pc' = "fill"
  <2>1. ProgressInv'
    <3>1. Filled' = Filled
      BY <1>1, <1>2, <1>11 DEF Filled, Filling
    <3> QED BY <1>1, <1>2, <1>4, <1>5, <1>7, <1>11, <3>1 DEF ProgressInv
  <2>2. FilledInv'
    <3>1. pc' \in Filling
      BY <1>11 DEF Filling
    <3> QED BY <1>1, <1>2, <1>3, <1>8, <3>1, FilledStays
  <2>3. CurrentInv'
    <3>1. Key \in twice => \E g \in 1 .. disk[Key[1]].gen : Parts(g)
      BY <1>3 DEF FSInv, CurrentInv
    <3>2. ASSUME NEW g, Parts(g) PROVE Parts(g)'
      BY <1>2, <1>3, <1>5, <3>2, ImageKept DEF Parts
    <3> QED BY <1>1, <1>2, <1>5, <1>11, <3>1, <3>2 DEF CurrentInv
  <2> QED BY <1>6, <1>7, <1>9, <2>1, <2>2, <2>3 DEF FSInv
<1> QED BY <1>1, <1>10, <1>11

\* What the checksum has seen, after one more block.
LEMMA SummedFacts ==
    ASSUME NEW k, Size(k) \in Nat, NEW m \in Nat, m * BlockSize < Size(k),
           NEW block \in ImageBlocks, digest \in Seq(Units), Len(digest) = m * BlockSize
    PROVE  /\ Summed(k, m, block) \in Seq(Units)
           /\ Len(Summed(k, m, block)) = IF (m + 1) * BlockSize < Size(k)
                                         THEN (m + 1) * BlockSize ELSE Size(k)
           /\ \A p \in 1 .. Len(digest) : Summed(k, m, block)[p] = digest[p]
           /\ \A u \in 1 .. BlockSize : m * BlockSize + u <= Size(k) =>
                 Summed(k, m, block)[m * BlockSize + u] = block[u]
<1> DEFINE B == BlockSize
           c == Counted(k, m)
           z == m * B
           t == SubSeq(block, 1, c)
<1>1. B \in Nat /\ B >= 1 /\ z \in Nat /\ z < Size(k) /\ (m + 1) * B = z + B
  <2>1. B \in Nat /\ B >= 1
    BY Constants
  <2>2. m * B \in Nat /\ (m + 1) * B = m * B + B
    BY <2>1, Steps
  <2> QED BY <2>1, <2>2
<1>2. c = IF Size(k) - z > B THEN B ELSE Size(k) - z
  <2>1. ~ (Size(k) - z < 0)
    BY <1>1
  <2> QED BY <2>1 DEF Counted
<1>3. block \in [1 .. B -> Units]
  BY DEF ImageBlocks
<1> HIDE DEF B, c, z
<1>4. c \in 1 .. B /\ \A u \in 1 .. B : z + u <= Size(k) => u <= c
  BY <1>1, <1>2
<1>5. block \in Seq(Units) /\ Len(block) = B
  BY <1>1, <1>3
<1>6. t \in Seq(Units) /\ Len(t) = c /\ \A u \in 1 .. c : t[u] = block[u]
  BY <1>1, <1>4, <1>5
<1> DEFINE s == digest \o t
<1>7. Summed(k, m, block) = s
  BY DEF Summed, c
<1> HIDE DEF t
<1>8. /\ s \in Seq(Units) /\ Len(s) = z + c
      /\ \A p \in 1 .. Len(digest) : s[p] = digest[p]
      /\ \A u \in 1 .. c : s[z + u] = t[u]
  <2>1. Len(digest) = z
    BY DEF z, B
  <2>2. t \in Seq(Units) /\ digest \in Seq(Units)
    BY <1>6
  <2>3. /\ s \in Seq(Units) /\ Len(s) = Len(digest) + Len(t)
        /\ \A p \in 1 .. Len(digest) : s[p] = digest[p]
        /\ \A u \in 1 .. Len(t) : s[Len(digest) + u] = t[u]
    <3>1. PICK x \in Seq(Units), y \in Seq(Units) : x = digest /\ y = t
      BY <2>2
    <3>2. s = x \o y
      BY <3>1
    <3>3. /\ x \o y \in Seq(Units) /\ Len(x \o y) = Len(x) + Len(y)
          /\ \A p \in 1 .. Len(x) : (x \o y)[p] = x[p]
          /\ \A u \in 1 .. Len(y) : (x \o y)[Len(x) + u] = y[u]
      BY ConcatAt
    <3> HIDE DEF s
    <3> QED BY <3>1, <3>2, <3>3
  <2> HIDE DEF s
  <2> QED BY <1>6, <2>1, <2>3
<1> HIDE DEF s
<1>9. Len(s) = IF (m + 1) * B < Size(k) THEN (m + 1) * B ELSE Size(k)
  <2>1. CASE Size(k) - z > B
    <3>1. c = B /\ z + B < Size(k)
      BY <1>1, <1>2, <2>1
    <3> QED BY <1>1, <1>8, <3>1
  <2>2. CASE ~ (Size(k) - z > B)
    <3>1. c = Size(k) - z /\ ~ (z + B < Size(k))
      BY <1>1, <1>2, <2>2
    <3> QED BY <1>1, <1>8, <3>1
  <2> QED BY <2>1, <2>2
<1>10. \A u \in 1 .. B : z + u <= Size(k) => s[z + u] = block[u]
  <2>1. ASSUME NEW u \in 1 .. B, z + u <= Size(k) PROVE s[z + u] = block[u]
    <3>1. u \in 1 .. c
      BY <1>1, <1>4, <2>1
    <3> QED BY <1>6, <1>8, <3>1
  <2> QED BY <2>1
<1> QED BY <1>7, <1>8, <1>9, <1>10 DEF z, B

LEMMA BlockWritten ==
    ASSUME FSInv, pc \in Filling, b < DivUp(Size(Key)), NEW c \in ImageBlocks,
           img' = Append(img, c), n' = n, pc' = pc, b' = b + 1,
           UNCHANGED <<diskVars, outVars, pre, sums, twice, reported, broken>>,
           \A u \in 1 .. BlockSize : b * BlockSize + u <= Size(Key) =>
              TrueUnit(Key, b * BlockSize + u, c[u]),
           \A u \in 1 .. BlockSize : c[u] \in Of({disk[Key[1]].gen}),
           Key \notin broken => digest' = Summed(Key, b, c)
    PROVE  FSInv'
<1>1. /\ disk' = disk /\ changes' = changes /\ src' = src /\ efi' = efi /\ list' = list
      /\ end' = end /\ sums' = sums /\ twice' = twice /\ pre' = pre
      /\ broken' = broken /\ reported' = reported
      /\ UNCHANGED outVars /\ UNCHANGED <<diskVars, outVars>>
  BY DEF diskVars, outVars
<1>2. list \in Seq(Keys) /\ Len(list) \in Nat /\ TypeInv /\ img \in Seq(ImageBlocks)
      /\ Len(img) \in Nat /\ b \in Nat
      /\ pc \notin {"tree", "aborted", "next", "done"} /\ pc \in Within
  BY DEF FSInv, LayoutInv, TypeInv, Within, Filling
<1>3. n \in Writes /\ ~ Past(n)
  BY <1>2 DEF FSInv, ProgressInv, Past, TypeInv
<1>4. /\ KeyAt(n) = Key /\ Key \in Keys /\ Key \in DOMAIN src /\ Key' = Key
      /\ Size(Key) \in Nat /\ Key[1] \in Inodes
      /\ At(n)' = At(n) /\ At(n) \in Nat /\ At(n) >= Start
      /\ \A m \in Writes : Past(m)' <=> Past(m)
      /\ n' \in Nat /\ n' <= Len(list) + 1 /\ Start + Len(img) = At(n) + Filled
  BY <1>1, <1>2, <1>3, SameFile
<1>5. /\ <<c>> \in Seq(ImageBlocks) /\ img' = img \o <<c>> /\ img' \in Seq(ImageBlocks)
      /\ Len(img') = Len(img) + 1
  BY <1>2, ZeroBlocks
<1>6. TypeInv'
  BY <1>1, <1>2, <1>4, <1>5 DEF TypeInv
<1>7. TreeInv' /\ FreshInv' /\ LayoutInv' /\ Writes' = Writes
  BY <1>1, <1>2, <1>4, Stays
<1>8. Filled = b /\ Filled' = b + 1
  BY DEF Filled
<1>9. ProgressInv'
  <2>1. Start + Len(img') = At(n)' + Filled'
    <3>1. Len(img') = Len(img) + 1 /\ Len(img) \in Nat /\ Start \in Nat /\ b \in Nat
      BY <1>2, <1>5, Constants
    <3>2. At(n)' = At(n) /\ At(n) \in Nat /\ Start + Len(img) = At(n) + b
      BY <1>4, <1>8
    <3>3. PICK z \in Nat : z = Filled' /\ z = b + 1
      BY <1>8, <3>1
    <3> QED BY <3>1, <3>2, <3>3
  <2>2. n' \in Writes' /\ pc' \notin {"partition", "next", "done"}
    BY <1>2, <1>3, <1>7 DEF Filling
  <2> QED BY <2>1, <2>2 DEF ProgressInv
<1>10. PastInv'
  <2>1. Ages
    BY <1>1, <1>2, NoAging
  <2> QED BY <1>1, <1>2, <1>4, <1>5, <2>1, PastStays
<1>12. PICK k : k = Key
  OBVIOUS
<1>13. PICK a : a = At(n)
  OBVIOUS
<1> DEFINE B == BlockSize
           z == b * B
<1>14. B \in Nat /\ B >= 1 /\ z \in Nat /\ z < Size(k) /\ (b + 1) * B = z + B
       /\ b + 1 <= DivUp(Size(k))
  <2>1. B \in Nat /\ B >= 1
    BY Constants
  <2>2. b * B \in Nat /\ (b + 1) * B = b * B + B
    BY <1>2, <2>1, Steps
  <2>3. b * B < Size(k) /\ DivUp(Size(k)) \in Nat
    BY <1>2, <1>4, <1>12, DivUpFacts
  <2> QED BY <1>2, <1>12, <2>1, <2>2, <2>3
<1>15. ASSUME NEW p \in 1 .. Size(k), p <= z
       PROVE  ImageUnit(a, p)' = ImageUnit(a, p)
  <2>1. a \in Nat /\ a >= Start /\ a + b <= Start + Len(img) /\ p \in Nat /\ p >= 1
    BY <1>2, <1>4, <1>8, <1>12, <1>13, Constants
  <2> QED BY <1>2, <1>5, <1>15, <2>1, ImageGrows
<1>16. ASSUME NEW u \in 1 .. BlockSize, NEW p, p = z + u PROVE ImageUnit(a, p)' = c[u]
  <2>9. PICK X \in Seq(ImageBlocks) : X = <<c>>
    BY <1>5
  <2>1. PICK i : i = 1
    OBVIOUS
  <2>2. X \in Seq(ImageBlocks) /\ img' = img \o X /\ i \in 1 .. Len(X) /\ X[i] = c
    BY <1>5, <2>1, <2>9
  <2>3. a \in Nat /\ a >= Start /\ a + b = Start + Len(img) + i - 1
    <3>1. Start + Len(img) = At(n) + b /\ Start \in Nat
      BY <1>4, <1>8, Constants
    <3> QED BY <1>2, <1>4, <1>13, <2>1, <3>1
  <2>4. PICK d \in Nat : d = b
    BY <1>2
  <2>5. p = d * BlockSize + u /\ u \in 1 .. BlockSize
    BY <1>16, <2>4
  <2>6. img'[a - Start + 1 + d] = X[i] /\ a - Start + 1 + d \in DOMAIN img'
    <3>1. a + d = Start + Len(img) + i - 1
      BY <2>3, <2>4
    <3>2. img \in Seq(ImageBlocks) /\ a \in Nat
      BY <1>2, <2>3
    <3> QED BY <2>2, <3>1, <3>2, ImageGets
  <2>7. a - Start + 1 + (p - 1) \div BlockSize = a - Start + 1 + d
        /\ ((p - 1) % BlockSize) + 1 = u
    BY <2>5, ImageAt
  <2> QED BY <2>2, <2>6, <2>7 DEF ImageUnit
<1> HIDE DEF z, B
<1>17. ASSUME NEW p \in 1 .. Size(k), p <= z + B
       PROVE  p <= z \/ \E u \in 1 .. BlockSize : p = z + u
  <2>1. CASE p > z
    <3>1. p - z \in 1 .. BlockSize /\ p = z + (p - z)
      BY <1>4, <1>12, <1>14, <1>17, <2>1 DEF B
    <3> QED BY <3>1
  <2> QED BY <1>4, <1>12, <1>14, <2>1
<1>11. CurrentInv'
  <2>1. pc' \notin {"first", "open"} /\ (pc' \in {"zeros", "fill"} => Key \in broken)
    BY <1>2 DEF FSInv, CurrentInv, Filling
  <2>2. ASSUME NEW g \in 1 .. disk[Key[1]].gen, Parts(g) PROVE Parts(g)'
    <3>1. ASSUME NEW p \in 1 .. Size(k), p <= z + B
          PROVE  ImageUnit(a, p)' \in Of(Since(g))
      <4>1. CASE p <= z
        BY <1>12, <1>13, <1>15, <2>2, <4>1 DEF Parts, z, B
      <4>2. CASE \E u \in 1 .. BlockSize : p = z + u
        <5>1. PICK u \in 1 .. BlockSize : p = z + u
          BY <4>2
        <5>2. ImageUnit(a, p)' = c[u] /\ c[u] \in Of({disk[Key[1]].gen})
          BY <1>16, <5>1
        <5>3. disk[Key[1]].gen \in Since(g)
          <6>1. disk[Key[1]].gen \in Nat
            BY <1>2, <1>4, GenFact
          <6> QED BY <6>1 DEF Since
        <5> QED BY <5>2, <5>3 DEF Of
      <4> QED BY <1>17, <3>1, <4>1, <4>2
    <3>2. b' * BlockSize = z + B
      BY <1>14 DEF B
    <3> QED BY <1>1, <1>4, <1>12, <1>13, <2>2, <3>1, <3>2 DEF Parts
  <2>3. Key \in twice => \E g \in 1 .. disk[Key[1]].gen : Parts(g)
    BY <1>2 DEF FSInv, CurrentInv
  <2> QED BY <1>1, <1>4, <2>1, <2>2, <2>3 DEF CurrentInv
<1>18. FilledInv
  BY DEF FSInv
<1>19. ASSUME NEW p \in 1 .. Size(k), p <= z + B
       PROVE  TrueUnit(k, p, ImageUnit(a, p))'
  <2>1. TrueUnit(k, p, ImageUnit(a, p)')
    <3>1. CASE p <= z
      BY <1>12, <1>13, <1>15, <1>18, <3>1 DEF FilledInv, z, B
    <3>2. CASE \E u \in 1 .. BlockSize : p = z + u
      <4>1. PICK u \in 1 .. BlockSize : p = z + u
        BY <3>2
      <4>2. TrueUnit(k, z + u, c[u])
        BY <1>4, <1>12, <4>1 DEF z, B
      <4> QED BY <1>16, <4>1, <4>2
    <3> QED BY <1>17, <1>19, <3>1, <3>2
  <2> QED BY <1>1, <2>1 DEF TrueUnit
<1>20. ASSUME k \notin broken
       PROVE  /\ digest' \in Seq(Units)
              /\ Len(digest') = IF z + B < Size(k) THEN z + B ELSE Size(k)
              /\ \A p \in 1 .. Len(digest') : digest'[p] = ImageUnit(a, p)'
  <2>1. /\ digest \in Seq(Units) /\ Len(digest) = z
        /\ \A p \in 1 .. z : digest[p] = ImageUnit(a, p)
    <3>1. /\ digest \in Seq(Units)
          /\ Len(digest) = IF z < Size(k) THEN z ELSE Size(k)
          /\ \A p \in 1 .. Len(digest) : digest[p] = ImageUnit(a, p)
      BY <1>12, <1>13, <1>18, <1>20 DEF FilledInv, z, B
    <3> QED BY <1>14, <3>1
  <2>2. digest' = Summed(k, b, c)
    BY <1>12, <1>20
  <2>3. /\ digest' \in Seq(Units)
        /\ Len(digest') = IF (b + 1) * B < Size(k) THEN (b + 1) * B ELSE Size(k)
        /\ \A p \in 1 .. z : digest'[p] = digest[p]
        /\ \A u \in 1 .. BlockSize : z + u <= Size(k) => digest'[z + u] = c[u]
    BY <1>2, <1>4, <1>12, <1>14, <2>1, <2>2, SummedFacts DEF z, B
  <2>4. Len(digest') = IF z + B < Size(k) THEN z + B ELSE Size(k)
    BY <1>14, <2>3
  <2>5. ASSUME NEW p \in 1 .. Len(digest') PROVE digest'[p] = ImageUnit(a, p)'
    <3>1. p \in 1 .. Size(k) /\ p <= z + B
      BY <1>4, <1>12, <1>14, <2>4
    <3>2. CASE p <= z
      <4>1. p \in 1 .. z
        BY <1>14, <3>1, <3>2
      <4> QED BY <1>15, <2>1, <2>3, <3>1, <4>1
    <3>3. CASE \E u \in 1 .. BlockSize : p = z + u
      <4>1. PICK u \in 1 .. BlockSize : p = z + u
        BY <3>3
      <4>2. z + u <= Size(k)
        BY <1>4, <1>12, <3>1, <4>1
      <4> QED BY <1>16, <2>3, <4>1, <4>2
    <3> QED BY <1>17, <3>1, <3>2, <3>3
  <2> QED BY <2>3, <2>4, <2>5
<1>21. FilledInv'
  <2>1. b' * BlockSize = z + B /\ b' <= DivUp(Size(k))
    BY <1>14 DEF B
  <2>2. Key' = k /\ At(n)' = a /\ broken' = broken
    BY <1>1, <1>4, <1>12, <1>13
  <2> QED BY <1>19, <1>20, <2>1, <2>2 DEF FilledInv
<1> QED BY <1>6, <1>7, <1>9, <1>10, <1>11, <1>21 DEF FSInv

LEMMA ReadBlockKeeps ==
    ASSUME FSInv, ReadBlock
    PROVE  FSInv'
<1> DEFINE c == Content(Key, b)
<1>1. /\ pc = "read" /\ b < DivUp(Size(Key)) /\ img' = Append(img, c)
      /\ digest' = Summed(Key, b, c) /\ b' = b + 1 /\ n' = n /\ pc' = pc
      /\ UNCHANGED <<diskVars, outVars, pre, sums, twice, reported, broken>>
      /\ pc \in Filling /\ pc \notin {"tree", "next", "aborted"}
  BY DEF ReadBlock, Filling
<1>2. TypeInv /\ n \in Writes /\ KeyAt(n) = Key /\ b \in Nat
  BY <1>1 DEF FSInv, TypeInv, ProgressInv, Key, KeyAt, Within, Filling
<1>3. Key \in Keys /\ Key \in DOMAIN src
  BY <1>1, <1>2, WritesFacts DEF FSInv
<1> DEFINE i == Key[1]
           g == disk[i].gen
<1>4. /\ g \in Nat /\ g >= 1 /\ disk[i].size \in Nat
      /\ c \in ImageBlocks /\ c \in [1 .. BlockSize -> Of({g})]
  BY <1>2, <1>3, ContentFact
<1>5. g = 1 => disk[i].size = Size(Key)
  BY <1>3 DEF FSInv, FreshInv
<1>6. ASSUME NEW p \in Nat, p >= 1, p <= Size(Key)
      PROVE  TrueUnit(Key, p, Unit(Key, p))
  <2>1. CASE p <= disk[i].size
    <3>1. Unit(Key, p) = <<i, g, p>> /\ g \in 1 .. g
      BY <1>4, <2>1 DEF Unit
    <3> QED BY <3>1 DEF TrueUnit
  <2>2. CASE ~ (p <= disk[i].size)
    <3>1. Unit(Key, p) = Zero /\ g # 1
      BY <1>5, <1>6, <2>2 DEF Unit
    <3> QED BY <3>1 DEF TrueUnit
  <2> QED BY <2>1, <2>2
<1>7. ASSUME NEW u \in 1 .. BlockSize, b * BlockSize + u <= Size(Key)
      PROVE  TrueUnit(Key, b * BlockSize + u, c[u])
  <2>1. b * BlockSize \in Nat /\ u \in Nat /\ u >= 1
    BY <1>2, Constants
  <2>2. b * BlockSize + u \in Nat /\ b * BlockSize + u >= 1
    BY <2>1
  <2>3. c[u] = Unit(Key, b * BlockSize + u)
    BY DEF Content
  <2>4. TrueUnit(Key, b * BlockSize + u, Unit(Key, b * BlockSize + u))
    BY <1>6, <1>7, <2>2
  <2> HIDE DEF c
  <2> QED BY <2>3, <2>4
<1>8. \A u \in 1 .. BlockSize : c[u] \in Of({disk[Key[1]].gen})
  BY <1>4
<1> HIDE DEF c
<1> QED BY <1>1, <1>4, <1>7, <1>8, BlockWritten

LEMMA ZeroUnits == \A u \in 1 .. BlockSize : Zeros[u] = Zero
BY DEF Zeros

LEMMA FillBlockKeeps ==
    ASSUME FSInv, FillBlock
    PROVE  FSInv'
<1>1. /\ pc = "fill" /\ b < DivUp(Size(Key)) /\ img' = Append(img, Zeros)
      /\ b' = b + 1 /\ n' = n /\ pc' = pc
      /\ UNCHANGED <<diskVars, outVars, pre, sums, twice, reported, broken>>
      /\ pc \in Filling
  BY DEF FillBlock, Filling
<1>2. Key \in broken
  BY <1>1 DEF FSInv, CurrentInv, Within
<1>3. Zeros \in ImageBlocks
  BY DEF Zeros, ImageBlocks, Units, Of
<1>4. \A u \in 1 .. BlockSize : b * BlockSize + u <= Size(Key) =>
              TrueUnit(Key, b * BlockSize + u, Zeros[u])
  BY <1>2, ZeroUnits DEF TrueUnit
<1>5. \A u \in 1 .. BlockSize : Zeros[u] \in Of({disk[Key[1]].gen})
  BY ZeroUnits DEF Of
<1> QED BY <1>1, <1>2, <1>3, <1>4, <1>5, BlockWritten

\* A file that ends joins those which are written.
LEMMA PastJoins ==
    ASSUME FSInv, pc \in Within, UNCHANGED <<diskVars, outVars, twice, broken>>, FileDone,
           NEW X \in Seq(ImageBlocks), img' = img \o X, reported \subseteq reported',
           \/ sums' = sums
           \/ sums' = Recorded,
           pc' \in {"next", "aborted"}, NEW c, c = n, pc' = "next" => Done(c)'
    PROVE  PastInv'
<1> SUFFICES ASSUME pc' = "next" PROVE PastInv'
  BY DEF PastInv
<1>1. UNCHANGED outVars /\ disk' = disk /\ TypeInv /\ pc \notin {"tree", "aborted", "next"}
  BY DEF diskVars, FSInv, Within, Filling
<1>2. n \in Writes /\ ~ Past(n) /\ \A m \in Writes : Past(m)' <=> Past(m) \/ m = n
  BY <1>1, Completed
<1>3. KeyAt(n) = Key
  BY DEF KeyAt, Key
<1>4. Writes' = Writes /\ \A m : KeyAt(m)' = KeyAt(m)
  BY <1>1, LayoutStays
<1>5. \A m1, m2 \in Writes : KeyAt(m1) = KeyAt(m2) => m1 = m2
  BY <1>1, WritesFacts DEF FSInv
<1>6. Ages
  BY <1>1, NoAging
<1>7. ASSUME NEW m \in Writes, Past(m) PROVE Done(m)'
  <2>1. KeyAt(m) # Key
    BY <1>2, <1>3, <1>5, <1>7
  <2>2. KeyAt(m) \in DOMAIN sums' =>
              KeyAt(m) \in DOMAIN sums /\ sums'[KeyAt(m)] = sums[KeyAt(m)]
    BY <2>1 DEF Recorded
  <2> QED BY <1>1, <1>6, <1>7, <2>2, DoneStays
<1>8. ASSUME NEW m \in Writes', Past(m)' PROVE Done(m)'
  <2>1. CASE m = c
    BY <2>1
  <2>2. CASE m # c
    BY <1>2, <1>4, <1>7, <1>8, <2>2
  <2> QED BY <2>1, <2>2
<1>9. ASSUME NEW k \in DOMAIN sums' PROVE \E m \in Writes' : Past(m)' /\ KeyAt(m)' = k
  <2>1. k \in DOMAIN sums \/ k = Key
    BY <1>9 DEF Recorded
  <2>2. k \in DOMAIN sums => \E m \in Writes : Past(m) /\ KeyAt(m) = k
    BY <1>1 DEF FSInv, PastInv
  <2>3. \E m \in Writes : (Past(m) \/ m = n) /\ KeyAt(m) = k
    BY <1>2, <1>3, <2>1, <2>2
  <2> QED BY <1>2, <1>4, <2>3
<1>10. ASSUME NEW k \in twice' PROVE \E m \in Writes' : Past(m)' /\ KeyAt(m)' = k
  <2>1. \E m \in Writes : KeyAt(m) = k /\ (Past(m) \/ (m = n /\ pc \in Within))
    BY <1>1, <1>10 DEF FSInv, PastInv
  <2> QED BY <1>2, <1>4, <2>1
<1> QED BY <1>8, <1>9, <1>10 DEF PastInv

LEMMA FillUnreadableKeeps ==
    ASSUME FSInv, FillUnreadable
    PROVE  FSInv'
<1> DEFINE X == [m \in 1 .. DivUp(Size(Key)) |-> Zeros]
<1>1. /\ pc = "zeros" /\ pc' = "next" /\ FileDone /\ img' = img \o X
      /\ UNCHANGED <<diskVars, outVars, b, digest, pre, sums, twice, reported, broken>>
      /\ pc \in Within /\ pc \notin {"tree", "next", "aborted"}
  BY DEF FillUnreadable, Within
<1>2. /\ disk' = disk /\ changes' = changes /\ src' = src /\ efi' = efi /\ list' = list
      /\ end' = end /\ sums' = sums /\ twice' = twice /\ reported' = reported
      /\ broken' = broken /\ b' = b /\ UNCHANGED outVars /\ UNCHANGED <<diskVars, outVars>>
  BY <1>1 DEF diskVars, outVars
<1>3. TypeInv /\ img \in Seq(ImageBlocks) /\ Len(img) \in Nat /\ Key \in broken
      /\ Key \in reported
  BY <1>1 DEF FSInv, TypeInv, CurrentInv
<1>4. /\ n \in Writes /\ n' \in Nat /\ n' <= Len(list) + 1 /\ n \in Nat
      /\ At(n) + DivUp(Size(Key)) = IF n' = 0 THEN First' ELSE At(n)'
  BY <1>1, <1>2, <1>3, Completed DEF TypeInv
<1>5. KeyAt(n) = Key /\ Key \in Keys /\ At(n) \in Nat /\ At(n) >= Start /\ Size(Key) \in Nat
  <2>1. KeyAt(n) = Key
    BY DEF KeyAt, Key
  <2> QED BY <1>1, <1>4, <2>1, WritesFacts DEF FSInv
<1>6. DivUp(Size(Key)) \in Nat /\ Start \in Nat
  BY <1>5, DivUpFacts, Constants
<1>7. /\ X \in Seq(ImageBlocks) /\ Len(X) = DivUp(Size(Key))
      /\ \A m \in 1 .. DivUp(Size(Key)) : X[m] = Zeros
  <2>1. Zeros \in ImageBlocks
    BY DEF Zeros, ImageBlocks, Units, Of
  <2> QED BY <1>3, <1>6, <2>1, ZeroBlocks
<1> HIDE DEF X
<1>8. img' \in Seq(ImageBlocks) /\ Len(img') = Len(img) + DivUp(Size(Key))
  BY <1>1, <1>3, <1>7, ConcatAt
<1>9. TypeInv'
  BY <1>1, <1>2, <1>3, <1>4, <1>8 DEF TypeInv
<1>10. TreeInv' /\ FreshInv' /\ LayoutInv' /\ Writes' = Writes
       /\ \A m : KeyAt(m)' = KeyAt(m) /\ At(m)' = At(m)
  BY <1>1, <1>2, <1>4, Stays
<1>11. Start + Len(img) = At(n)
  <2>1. Filled = 0
    BY <1>1 DEF Filled, Filling
  <2> QED BY <1>1, <1>5, <2>1 DEF FSInv, ProgressInv
<1>12. Start + Len(img') = At(n) + DivUp(Size(Key))
  BY <1>3, <1>5, <1>6, <1>8, <1>11
<1>13. ProgressInv'
  <2>1. Filled' = 0
    BY <1>1 DEF Filled, Filling
  <2>2. n' # 0 => At(n)' \in Nat
    BY <1>4, <1>5, <1>6
  <2>3. Start + Len(img') = IF n' = 0 /\ pc' = "next" THEN First' ELSE At(n)' + Filled'
    BY <1>1, <1>4, <1>12, <2>1, <2>2
  <2> QED BY <1>1, <2>3 DEF ProgressInv, Within, Filling
<1>14. PICK c : c = n
  OBVIOUS
<1>15. PICK k : k = Key
  OBVIOUS
<1>16. PICK a : a = At(n)
  OBVIOUS
<1>17. KeyAt(c)' = k /\ At(c)' = a
  BY <1>5, <1>10, <1>14, <1>15, <1>16
<1>18. ASSUME NEW p \in 1 .. Size(k) PROVE ImageUnit(a, p)' = Zero
  <2> DEFINE d == (p - 1) \div BlockSize
             u == ((p - 1) % BlockSize) + 1
  <2>1. p \in Nat /\ p >= 1 /\ p <= DivUp(Size(k)) * BlockSize /\ DivUp(Size(k)) \in Nat
    BY <1>5, <1>6, <1>15, DivUpFacts, Constants
  <2>2. d \in Nat /\ u \in 1 .. BlockSize /\ d < DivUp(Size(k))
    BY <2>1, UnitPlace
  <2>3. PICK x \in Nat : x = d
    BY <2>2
  <2>4. img'[a - Start + 1 + x] = X[x + 1] /\ a - Start + 1 + x \in DOMAIN img'
    <3>1. x + 1 \in 1 .. Len(X) /\ a \in Nat /\ a + x = Start + Len(img) + (x + 1) - 1
      <4> HIDE DEF d
      <4> QED BY <1>3, <1>5, <1>6, <1>7, <1>11, <1>15, <1>16, <2>1, <2>2, <2>3
    <3> QED BY <1>1, <1>3, <1>7, <3>1, ImageGets
  <2>5. X[x + 1] = Zeros
    <3> HIDE DEF d
    <3> QED BY <1>7, <1>15, <2>1, <2>2, <2>3
  <2>6. ImageUnit(a, p)' = img'[a - Start + 1 + x][u]
    BY <2>3, <2>4 DEF ImageUnit
  <2>7. Zeros[u] = Zero
    BY <2>2, ZeroUnits
  <2> QED BY <2>4, <2>5, <2>6, <2>7
<1>19. Done(c)'
  <2>1. a + DivUp(Size(k)) <= Start + Len(img')
    BY <1>5, <1>6, <1>12, <1>15, <1>16
  <2>2. k \in broken' /\ k \in reported'
    BY <1>2, <1>3, <1>15
  <2>3. \A p \in 1 .. Size(k) : TrueUnit(k, p, ImageUnit(a, p))'
    BY <1>18, <2>2 DEF TrueUnit
  <2> QED BY <1>17, <2>1, <2>2, <2>3 DEF Done
<1>20. PastInv'
  BY <1>1, <1>2, <1>7, <1>14, <1>19, PastJoins
<1> QED BY <1>1, <1>9, <1>10, <1>13, <1>20 DEF FSInv, FilledInv, CurrentInv, Filling, Within

LEMMA FinishKeeps ==
    ASSUME FSInv, Finish
    PROVE  FSInv'
<1>1. /\ pc \in Filling /\ pc' \in {"next", "aborted"} /\ FileDone
      /\ b >= DivUp(Size(Key)) /\ sums' = Recorded
      /\ UNCHANGED <<diskVars, outVars, img, b, digest, pre, twice, broken>>
      /\ reported' \in {reported, reported \cup {Key}}
      /\ Key \in twice \ reported' => digest = pre
      /\ pc \in Within /\ pc \notin {"tree", "next", "aborted"}
  BY DEF Finish, Report, Filling, Within
<1>2. /\ disk' = disk /\ changes' = changes /\ src' = src /\ efi' = efi /\ list' = list
      /\ end' = end /\ twice' = twice /\ broken' = broken /\ b' = b /\ img' = img
      /\ UNCHANGED outVars /\ UNCHANGED <<diskVars, outVars>> /\ reported \subseteq reported'
  BY <1>1 DEF diskVars, outVars
<1>3. TypeInv /\ img \in Seq(ImageBlocks) /\ Len(img) \in Nat /\ b \in Nat
  BY DEF FSInv, TypeInv
<1>4. /\ n \in Writes /\ n' \in Nat /\ n' <= Len(list) + 1 /\ n \in Nat
      /\ pc' = "next" => At(n) + DivUp(Size(Key)) = IF n' = 0 THEN First' ELSE At(n)'
  BY <1>1, <1>2, <1>3, Completed DEF TypeInv
<1>5. /\ KeyAt(n) = Key /\ Key \in Keys /\ Key \in DOMAIN src /\ Key[1] \in Inodes
      /\ At(n) \in Nat /\ At(n) >= Start /\ Size(Key) \in Nat
  <2>1. KeyAt(n) = Key
    BY DEF KeyAt, Key
  <2> QED BY <1>1, <1>4, <2>1, WritesFacts, KeyFacts DEF FSInv
<1>6. DivUp(Size(Key)) \in Nat /\ Start \in Nat /\ FilledInv
  BY <1>5, DivUpFacts, Constants DEF FSInv
<1>7. b = DivUp(Size(Key))
  <2>1. b <= DivUp(Size(Key))
    BY <1>1, <1>6 DEF FilledInv
  <2> QED BY <1>1, <1>3, <1>6, <2>1
<1>8. b * BlockSize >= Size(Key) /\ b * BlockSize \in Nat
  <2>1. BlockSize \in Nat
    BY Constants
  <2>2. b * BlockSize \in Nat
    BY <1>3, <2>1
  <2>3. Size(Key) <= DivUp(Size(Key)) * BlockSize
    BY <1>5, DivUpFacts
  <2>4. Size(Key) <= b * BlockSize
    BY <1>7, <2>3
  <2> QED BY <1>5, <2>2, <2>4
<1>9. TypeInv'
  <2>1. DOMAIN sums' \subseteq DOMAIN src
    BY <1>1, <1>3, <1>5 DEF Recorded, TypeInv
  <2>2. broken' \subseteq reported' /\ reported' \subseteq DOMAIN src
    BY <1>1, <1>2, <1>3, <1>5 DEF TypeInv
  <2> QED BY <1>1, <1>2, <1>3, <1>4, <2>1, <2>2 DEF TypeInv, Ended
<1>10. TreeInv' /\ FreshInv' /\ LayoutInv' /\ Writes' = Writes
       /\ \A m : KeyAt(m)' = KeyAt(m) /\ At(m)' = At(m)
  BY <1>1, <1>2, <1>4, Stays
<1>11. Start + Len(img) = At(n) + b
  <2>1. Filled = b
    BY <1>1 DEF Filled
  <2> QED BY <1>1, <1>5, <2>1 DEF FSInv, ProgressInv
<1>12. ProgressInv'
  <2> SUFFICES ASSUME pc' = "next" PROVE ProgressInv'
    BY <1>1 DEF ProgressInv
  <2>1. Filled' = 0
    BY <1>1 DEF Filled, Filling
  <2>2. n' # 0 => At(n)' \in Nat
    BY <1>4, <1>5, <1>6
  <2>3. Start + Len(img') = At(n) + DivUp(Size(Key))
    BY <1>2, <1>7, <1>11
  <2>4. Start + Len(img') = IF n' = 0 /\ pc' = "next" THEN First' ELSE At(n)' + Filled'
    BY <1>4, <2>1, <2>2, <2>3
  <2> QED BY <2>4 DEF ProgressInv, Within, Filling
<1>13. PICK c : c = n
  OBVIOUS
<1>14. PICK k : k = Key
  OBVIOUS
<1>15. PICK a : a = At(n)
  OBVIOUS
<1>16. KeyAt(c)' = k /\ At(c)' = a
  BY <1>5, <1>10, <1>13, <1>14, <1>15
<1>17. \A p : ImageUnit(a, p)' = ImageUnit(a, p)
  BY <1>2, ImageKept
<1>18. ASSUME NEW p \in 1 .. Size(k) PROVE TrueUnit(k, p, ImageUnit(a, p))
  <2>1. p <= b * BlockSize
    BY <1>5, <1>8, <1>14
  <2> QED BY <1>1, <1>6, <1>14, <1>15, <2>1 DEF FilledInv
<1>19. ASSUME k \notin broken
       PROVE  digest = [p \in 1 .. Size(k) |-> ImageUnit(a, p)]
  <2>1. /\ digest \in Seq(Units)
        /\ Len(digest) = IF b * BlockSize < Size(k) THEN b * BlockSize ELSE Size(k)
        /\ \A p \in 1 .. Len(digest) : digest[p] = ImageUnit(a, p)
    BY <1>1, <1>6, <1>14, <1>15, <1>19 DEF FilledInv
  <2>2. Len(digest) = Size(k)
    BY <1>5, <1>8, <1>14, <2>1
  <2>3. digest = [p \in 1 .. Size(k) |-> digest[p]]
    BY <1>5, <1>14, <2>1, <2>2
  <2> QED BY <2>1, <2>2, <2>3
<1>20. ASSUME k \in twice \ reported'
       PROVE  \E g \in 1 .. disk[k[1]].gen : \A p \in 1 .. Size(k) :
                 ImageUnit(a, p) = Zero \/ ImageUnit(a, p) = <<k[1], g, p>>
  <2>1. k \notin broken /\ digest = pre
    BY <1>1, <1>2, <1>3, <1>14, <1>20 DEF TypeInv
  <2>2. PICK g \in 1 .. disk[k[1]].gen : Parts(g)
    BY <1>1, <1>14, <1>20 DEF FSInv, CurrentInv
  <2>3. ASSUME NEW p \in 1 .. Size(k)
        PROVE  ImageUnit(a, p) = Zero \/ ImageUnit(a, p) = <<k[1], g, p>>
    <3>1. PICK u : u = ImageUnit(a, p)
      OBVIOUS
    <3>2. p \in DOMAIN pre /\ pre[p] = u
      BY <1>19, <2>1, <3>1
    <3>3. u \in Of(1 .. g)
      BY <2>2, <3>2 DEF Parts
    <3>4. p <= b * BlockSize
      BY <1>5, <1>8, <1>14
    <3>5. u \in Of(Since(g))
      BY <1>1, <1>14, <1>15, <2>2, <3>1, <3>4 DEF Parts
    <3>6. u = Zero \/ \E h \in Nat : u = <<k[1], h, p>>
      <4>1. disk[k[1]].gen \in Nat
        BY <1>3, <1>5, <1>14, GenFact
      <4> QED BY <1>18, <3>1, <4>1 DEF TrueUnit
    <3>7. CASE u # Zero
      <4>1. PICK h \in Nat : u = <<k[1], h, p>>
        BY <3>6, <3>7
      <4>2. h \in 1 .. g /\ h \in Since(g)
        BY <3>3, <3>5, <3>7, <4>1 DEF Of
      <4>3. h = g
        BY <4>2 DEF Since
      <4> QED BY <3>1, <4>1, <4>3
    <3> QED BY <3>1, <3>7
  <2> QED BY <2>2, <2>3
<1>21. Done(c)'
  <2>1. a + DivUp(Size(k)) <= Start + Len(img')
    BY <1>2, <1>3, <1>5, <1>6, <1>7, <1>11, <1>14, <1>15
  <2>2. \A p \in 1 .. Size(k) : TrueUnit(k, p, ImageUnit(a, p))'
    BY <1>2, <1>17, <1>18 DEF TrueUnit
  <2>3. k \in DOMAIN sums' \ broken' => sums'[k] = [p \in 1 .. Size(k) |-> ImageUnit(a, p)']
    <3>1. sums'[k] = digest
      BY <1>1, <1>14 DEF Recorded
    <3> QED BY <1>2, <1>17, <1>19, <3>1
  <2>4. k \in twice' \ reported' =>
         \E g \in 1 .. disk'[k[1]].gen : \A p \in 1 .. Size(k) :
            ImageUnit(a, p)' = Zero \/ ImageUnit(a, p)' = <<k[1], g, p>>
    BY <1>2, <1>17, <1>20
  <2> QED BY <1>16, <2>1, <2>2, <2>3, <2>4 DEF Done
<1>22. PastInv'
  <2>1. <<>> \in Seq(ImageBlocks) /\ img' = img \o <<>>
    BY <1>2, <1>3, NoBlocks
  <2> QED BY <1>1, <1>2, <1>13, <1>21, <2>1, PastJoins
<1>23. FilledInv' /\ CurrentInv'
  BY <1>1 DEF FilledInv, CurrentInv, Filling, Within
<1> QED BY <1>9, <1>10, <1>12, <1>22, <1>23 DEF FSInv

-----------------------------------------------------------------------------
(* The theorems                                                            *)

LEMMA FSNextInv ==
    ASSUME ClaimsAreCounted, FSInv, [FSNext]_fsVars
    PROVE  FSInv'
<1>1. ASSUME NEW i \in Inodes, Change(i) PROVE FSInv'
  BY <1>1, ChangeKeeps
<1>2. ASSUME NEW i \in Inodes, NEW claim \in BOOLEAN, AddFile(i, claim) PROVE FSInv'
  BY <1>2, AddFileKeeps
<1>3. CASE Compute
  BY <1>3, ComputeKeeps
<1>4. CASE WriteZeroBlock
  BY <1>4, WriteZeroBlockKeeps
<1>5. CASE SkipFile
  BY <1>5, SkipFileKeeps
<1>6. CASE BeginFile
  BY <1>6, BeginFileKeeps
<1>15. CASE FirstBlock
  BY <1>15, FirstBlockKeeps
<1>16. CASE FirstFails
  BY <1>16, FirstFailsKeeps
<1>17. CASE FirstEnds
  BY <1>17, FirstEndsKeeps
<1>7. CASE OpenFile
  BY <1>7, OpenFileKeeps
<1>8. CASE FillUnreadable
  BY <1>8, FillUnreadableKeeps
<1>9. CASE ReadBlock
  BY <1>9, ReadBlockKeeps
<1>10. CASE ReadFails
  BY <1>10, ReadFailsKeeps
<1>11. CASE FillBlock
  BY <1>11, FillBlockKeeps
<1>12. CASE Finish
  BY <1>12, FinishKeeps
<1>13. CASE EndOfWriting
  BY <1>13, EndOfWritingKeeps
<1>14. CASE UNCHANGED fsVars
  <2>1. UNCHANGED <<disk, changes, src, efi, list, end, n, img, b, digest, pre, sums,
                    twice, reported, broken, pc>>
    BY <1>14 DEF fsVars
  <2>2. TypeInv' /\ TreeInv' /\ FreshInv'
    BY <2>1 DEF FSInv, TypeInv, TreeInv, FreshInv
  <2>3. Writes' = Writes /\ First' = First /\ Key' = Key /\ Filled' = Filled
    BY <2>1 DEF Writes, EfiBlocks, First, Key, Filled
  <2>4. At(n)' = At(n) /\ At(Len(list) + 1)' = At(Len(list) + 1)
        /\ \A m : At(m)' = At(m) /\ KeyAt(m)' = KeyAt(m) /\ (Past(m)' <=> Past(m))
    BY <2>1 DEF At, KeyAt, First, EfiBlocks, Places, Blocks, Past
  <2>6. LayoutInv' /\ ProgressInv'
    BY <2>1, <2>3, <2>4 DEF FSInv, LayoutInv, ProgressInv
  <2>7. \A m : Done(m)' <=> Done(m)
    BY <2>1 DEF Done, TrueUnit, ImageUnit, At, KeyAt, First, EfiBlocks, Places, Blocks
  <2>8. PastInv'
    BY <2>1, <2>3, <2>4, <2>7 DEF FSInv, PastInv
  <2>9. FilledInv'
    <3>1. Ages
      BY <2>1, NoAging DEF FSInv
    <3>2. UNCHANGED <<outVars, n, b, img, digest>> /\ broken' = broken /\ pc' = pc
      BY <2>1 DEF outVars
    <3> QED BY <3>1, <3>2, FilledStays DEF FilledInv
  <2>10. CurrentInv'
    <3>1. \A g : Parts(g)' <=> Parts(g)
      BY <2>1, <2>3, <2>4, ImageKept DEF Parts
    <3> QED BY <2>1, <2>3, <3>1 DEF FSInv, CurrentInv
  <2> QED BY <2>2, <2>6, <2>8, <2>9, <2>10 DEF FSInv
<1> QED BY <1>1, <1>2, <1>3, <1>4, <1>5, <1>6, <1>7, <1>8, <1>9, <1>10, <1>11, <1>12,
           <1>13, <1>14, <1>15, <1>16, <1>17 DEF FSNext

\* The inductive invariant holds always: it ties the position in the list, the
\* length of the image and what was written to the layout of the first pass.
THEOREM Invariance == ASSUME ClaimsAreCounted PROVE FSSpec => []FSInv
<1>1. FSInit => FSInv
  BY InitInv
<1>2. FSInv /\ [FSNext]_fsVars => FSInv'
  BY FSNextInv
<1> QED BY <1>1, <1>2, PTL DEF FSSpec

\* At the end every file was written, and its extents lead there.
LEMMA WhenDone ==
    ASSUME FSInv, pc = "done", NEW m \in Writes
    PROVE  /\ Done(m)
           /\ Size(KeyAt(m)) > 0 => Stored(KeyAt(m)) =
                [p \in 1 .. Size(KeyAt(m)) |-> ImageUnit(At(m), p)]
<1>1. n = Len(list) + 1 /\ Len(list) \in Nat
  BY DEF FSInv, ProgressInv, LayoutInv
<1>2. Past(m)
  BY <1>1 DEF Past, Writes
<1>3. Done(m)
  BY <1>2 DEF FSInv, PastInv
<1>4. Size(KeyAt(m)) \in Nat /\ At(m) \in Nat
  BY WritesFacts DEF FSInv
<1>5. Size(KeyAt(m)) > 0 => src[KeyAt(m)] = Extents(KeyAt(m), At(m))
  BY DEF FSInv, LayoutInv
<1> QED BY <1>3, <1>4, <1>5, StoredAt

LEMMA StoredEmpty ==
    ASSUME FSInv, pc # "tree", NEW k \in DOMAIN src, Size(k) = 0
    PROVE  Stored(k) = <<>>
<1>1. DOMAIN src[k] = {1} /\ src[k][1].size = 0
  BY DEF FSInv, LayoutInv
<1> DEFINE seqs == [e \in DOMAIN src[k] |->
                      [p \in 1 .. src[k][e].size |-> ImageUnit(src[k][e].block, p)]]
<1>2. DOMAIN seqs = {1} /\ seqs[1] = [p \in 1 .. 0 |-> ImageUnit(src[k][1].block, p)]
  BY <1>1
<1>3. seqs[1] = <<>>
  BY <1>2
<1>4. seqs = [e \in 1 .. 1 |-> <<>>]
  <2>1. seqs = [e \in DOMAIN seqs |-> seqs[e]]
    OBVIOUS
  <2> HIDE DEF seqs
  <2>2. \A e \in DOMAIN seqs : seqs[e] = <<>>
    BY <1>2, <1>3
  <2>3. DOMAIN seqs = 1 .. 1
    BY <1>2
  <2> QED BY <2>1, <2>2, <2>3
<1> HIDE DEF seqs
<1>5. seqs \in Seq(Seq({})) /\ Len(seqs) = 1 /\ seqs[1] = <<>>
  BY <1>4
<1>6. FlattenSeq(seqs) \in Seq({}) /\ Len(FlattenSeq(seqs)) = (Len(seqs) - 1) * 1 + Len(seqs[Len(seqs)])
  <2>1. \A e \in 1 .. Len(seqs) - 1 : Len(seqs[e]) = 1
    BY <1>5
  <2>2. Len(seqs) >= 1 /\ 1 \in Nat /\ 1 >= 1
    BY <1>5
  <2> QED BY <1>5, <2>1, <2>2, FlattenFacts
<1>7. Len(FlattenSeq(seqs)) = 0
  <2>1. Len(seqs[Len(seqs)]) = 0
    BY <1>5
  <2> QED BY <1>5, <1>6, <2>1
<1>8. FlattenSeq(seqs) = <<>>
  BY <1>6, <1>7
<1> QED BY <1>8 DEF Stored, seqs

LEMMA TypeFacts == FSInv => FSTypeOK
<1> SUFFICES ASSUME FSInv PROVE FSTypeOK
  OBVIOUS
<1>1. TypeInv /\ MaxChanges \in Nat
  BY FSAssumption DEF FSInv
<1>2. changes \in Nat /\ changes <= MaxChanges
  BY <1>1 DEF TypeInv
<1>3. disk \in [Inodes -> [size : Sizes, gen : 1 .. changes + 1]]
  BY <1>1 DEF TypeInv
<1>4. \A i \in Inodes : disk[i] \in [size : Sizes, gen : 1 .. MaxChanges + 1]
  <2>1. ASSUME NEW i \in Inodes PROVE disk[i] \in [size : Sizes, gen : 1 .. MaxChanges + 1]
    <3>1. disk[i] \in [size : Sizes, gen : 1 .. changes + 1]
      BY <1>3
    <3>2. 1 .. changes + 1 \subseteq 1 .. MaxChanges + 1
      BY <1>1, <1>2
    <3> QED BY <3>1, <3>2
  <2> QED BY <2>1
<1>5. disk \in [Inodes -> [size : Sizes, gen : 1 .. MaxChanges + 1]]
  BY <1>3, <1>4
<1> QED BY <1>1, <1>5 DEF FSTypeOK, TypeInv

LEMMA ContentFacts == FSInv => ContentIsInPlace
<1> SUFFICES ASSUME FSInv, pc = "done"
             PROVE  /\ Start + Len(img) = end
                    /\ \A k \in DOMAIN src :
                         /\ Len(Stored(k)) = Size(k)
                         /\ \A p \in 1 .. Size(k) :
                              \/ Stored(k)[p] = Zero
                              \/ \E g \in 1 .. disk[k[1]].gen : Stored(k)[p] = <<k[1], g, p>>
                         /\ disk[k[1]].gen = 1 /\ k \notin broken =>
                              \A p \in 1 .. Size(k) : Stored(k)[p] = <<k[1], 1, p>>
  BY TypeFacts DEF ContentIsInPlace
<1>1. TypeInv /\ list \in Seq(Keys) /\ n = Len(list) + 1 /\ Len(list) \in Nat
      /\ end = At(Len(list) + 1)
  BY DEF FSInv, LayoutInv, ProgressInv
<1>2. Start + Len(img) = end
  <2>1. Start + Len(img) = At(n) + Filled /\ Filled = 0
    BY <1>1 DEF FSInv, ProgressInv, Filled, Filling
  <2>2. At(n) \in Nat
    BY <1>1, AtFacts
  <2>3. At(n) = end
    BY <1>1
  <2> QED BY <2>1, <2>2, <2>3
<1>3. ASSUME NEW k \in DOMAIN src, Size(k) > 0
      PROVE  /\ Len(Stored(k)) = Size(k)
             /\ \A p \in 1 .. Size(k) : TrueUnit(k, p, Stored(k)[p])
  <2>1. PICK m \in Writes : KeyAt(m) = k
    BY <1>3, WritesFacts DEF FSInv
  <2>2. Stored(k) = [p \in 1 .. Size(k) |-> ImageUnit(At(m), p)] /\ Done(m)
    BY <1>3, <2>1, WhenDone
  <2>3. Size(k) \in Nat
    BY <2>1, WritesFacts DEF FSInv
  <2>4. \A p \in 1 .. Size(k) : TrueUnit(k, p, ImageUnit(At(m), p))
    BY <2>1, <2>2 DEF Done
  <2>5. Len(Stored(k)) = Size(k)
    BY <2>2, <2>3
  <2> QED BY <2>2, <2>4, <2>5
<1>4. ASSUME NEW k \in DOMAIN src, Size(k) = 0
      PROVE  Len(Stored(k)) = Size(k) /\ \A p \in 1 .. Size(k) : FALSE
  <2>1. Stored(k) = <<>>
    BY <1>4, StoredEmpty
  <2> QED BY <1>4, <2>1
<1>5. \A k \in DOMAIN src : Size(k) > 0 \/ Size(k) = 0
  BY <1>1, KeyFacts DEF TypeInv
<1> QED BY <1>2, <1>3, <1>4, <1>5 DEF TrueUnit

LEMMA ReportFacts == FSInv => ChangesAreReported
<1> SUFFICES ASSUME FSInv, pc = "done", NEW k \in twice \ reported, NEW p \in 1 .. Size(k)
             PROVE  \E g \in 1 .. disk[k[1]].gen : \A q \in 1 .. Size(k) :
                       Stored(k)[q] = Zero \/ Stored(k)[q] = <<k[1], g, q>>
  BY DEF ChangesAreReported
<1>1. PICK m \in Writes : KeyAt(m) = k
  BY DEF FSInv, PastInv
<1>2. Size(k) \in Nat /\ Size(k) > 0
  <2>1. Size(k) \in Nat
    BY <1>1, WritesFacts DEF FSInv
  <2> QED BY <2>1
<1>3. Stored(k) = [q \in 1 .. Size(k) |-> ImageUnit(At(m), q)] /\ Done(m)
  BY <1>1, <1>2, WhenDone
<1>4. PICK g \in 1 .. disk[k[1]].gen : \A q \in 1 .. Size(k) :
        ImageUnit(At(m), q) = Zero \/ ImageUnit(At(m), q) = <<k[1], g, q>>
  BY <1>1, <1>3 DEF Done
<1> QED BY <1>3, <1>4

LEMMA SumFacts == FSInv => SumsMatchData
<1> SUFFICES ASSUME FSInv, pc = "done", NEW k \in DOMAIN sums \ broken
             PROVE  sums[k] = Stored(k)
  BY DEF SumsMatchData
<1>1. PICK m \in Writes : KeyAt(m) = k
  BY DEF FSInv, PastInv
<1>2. Size(k) \in Nat /\ k \in DOMAIN src
  BY <1>1, WritesFacts DEF FSInv
<1>3. sums[k] = [p \in 1 .. Size(k) |-> ImageUnit(At(m), p)]
  BY <1>1, WhenDone DEF Done
<1>4. CASE Size(k) > 0
  BY <1>1, <1>3, <1>4, WhenDone
<1>5. CASE Size(k) = 0
  <2>1. Stored(k) = <<>> /\ 1 .. Size(k) = {}
    BY <1>2, <1>5, StoredEmpty
  <2> QED BY <1>3, <2>1
<1> QED BY <1>2, <1>4, <1>5

\* When all is written, it fills exactly the blocks computed by the first pass,
\* and the extents of each file lead to its content, whatever the sizes, the
\* order of the list and the changes on disk are.  The file that gets claimed as
\* EFI partition has no last extent above 0xFFFFF800.
THEOREM ContentIsAlwaysInPlace == ASSUME ClaimsAreCounted PROVE FSSpec => []ContentIsInPlace
BY Invariance, ContentFacts, PTL

\* A file that was read twice with differing results does not stay unreported,
\* also if it changed in the middle of a reading.
THEOREM ChangesAreAlwaysReported == ASSUME ClaimsAreCounted PROVE FSSpec => []ChangesAreReported
BY Invariance, ReportFacts, PTL

\* The recorded checksum of a file without read error is that of its data in the
\* image, also if it changed or became shorter meanwhile.
THEOREM SumsAlwaysMatch == ASSUME ClaimsAreCounted PROVE FSSpec => []SumsMatchData
BY Invariance, SumFacts, PTL

-----------------------------------------------------------------------------
(* The sizes of extents, which need no more than the first pass.  They hold  *)
(* for every claimed file.                                                   *)

TreeSections(k) == [e \in 1 .. NSections(Size(k)) |-> [block |-> 0, size |-> 0]]

ExtentInv ==
    /\ disk \in [Inodes -> [size : Sizes, gen : Nat]]
    /\ DOMAIN src \subseteq Keys
    /\ pc = "tree" => \A k \in DOMAIN src : src[k] = TreeSections(k)
    /\ ExtentsFit

\* What the first pass makes of the sizes.
LEMMA SectionSizes ==
    ASSUME NEW k \in Keys, src[k] = TreeSections(k), NEW block, NEW e \in DOMAIN src[k]
    PROVE  /\ DOMAIN SectionsAt(k, block) = DOMAIN src[k]
           /\ \E x, z : /\ SectionsAt(k, block)[e] = [block |-> x, size |-> z]
                        /\ z <= MaxSection /\ (z > 0 \/ Size(k) = 0)
<1> DEFINE last == NSections(Size(k))
           rest == LastSection(Size(k))
<1>1. /\ Size(k) \in Nat /\ last \in Nat /\ last >= 1 /\ rest \in Nat
      /\ rest <= MaxSection /\ (rest > 0 \/ Size(k) = 0)
  BY KeyFacts, SectionCount DEF LastSection
<1>2. Extent \in Nat /\ Extent >= 1 /\ Extent <= MaxSection
  BY Constants
<1> HIDE DEF last, rest
<1>3. Len(src[k]) = last /\ DOMAIN src[k] = 1 .. last
  <2> DEFINE s == src[k]
             S == [block : Nat, size : Nat]
  <2>1. s \in [1 .. last -> S]
    BY DEF last, TreeSections
  <2> HIDE DEF s, S
  <2>2. Len(s) = last /\ DOMAIN s = 1 .. last
    BY <1>1, <2>1
  <2> QED BY <2>2 DEF s
<1>4. SectionsAt(k, block) =
        [d \in 1 .. last |->
           IF d < last THEN [block |-> block + (d - 1) * ExtentBlocks, size |-> Extent]
           ELSE [block |-> IF rest <= 0 THEN Unplaced ELSE block + (d - 1) * ExtentBlocks,
                 size |-> rest]]
  BY <1>3 DEF SectionsAt, rest
<1>5. DOMAIN SectionsAt(k, block) = DOMAIN src[k]
  BY <1>3, <1>4
<1>6. CASE e < last
  <2>1. SectionsAt(k, block)[e] = [block |-> block + (e - 1) * ExtentBlocks, size |-> Extent]
    BY <1>3, <1>4, <1>6
  <2>2. Extent <= MaxSection /\ Extent > 0
    BY <1>2
  <2> QED BY <1>5, <2>1, <2>2
<1>7. CASE ~ (e < last)
  <2>1. SectionsAt(k, block)[e] =
          [block |-> IF rest <= 0 THEN Unplaced ELSE block + (e - 1) * ExtentBlocks,
           size |-> rest]
    BY <1>3, <1>4, <1>7
  <2> QED BY <1>1, <1>5, <2>1
<1> QED BY <1>6, <1>7

LEMMA ExtentCompute ==
    ASSUME ExtentInv, Compute
    PROVE  ExtentInv'
<1>1. /\ pc = "tree" /\ pc' # "tree" /\ disk' = disk /\ DOMAIN src' = DOMAIN src
      /\ \A k \in DOMAIN src :
           \/ src'[k] = EfiSections /\ k = efi
           \/ \E block : src'[k] = Absolute(SectionsAt(k, block))
  BY DEF Compute, diskVars
<1>2. ASSUME NEW k \in DOMAIN src, NEW e \in DOMAIN src'[k]
      PROVE  src'[k][e].size <= MaxSection /\ (src'[k][e].size > 0 \/ Size(k) = 0)
  <2>1. k \in Keys /\ src[k] = TreeSections(k)
    BY <1>1 DEF ExtentInv
  <2>2. CASE src'[k] = EfiSections /\ k = efi
    <3>1. e \in DOMAIN src[k]
      BY <1>2, <2>2 DEF EfiSections
    <3> DEFINE y == SectionsAt(k, Start)[e]
    <3>2. PICK x, z : y = [block |-> x, size |-> z] /\ z <= MaxSection /\ (z > 0 \/ Size(k) = 0)
      BY <2>1, <3>1, SectionSizes
    <3>3. \E v : src'[k][e] = [y EXCEPT !.block = v]
      BY <2>2, <3>1 DEF EfiSections
    <3> HIDE DEF y
    <3>4. src'[k][e].size = z
      BY <3>2, <3>3
    <3> QED BY <3>2, <3>4
  <2>3. CASE \E block : src'[k] = Absolute(SectionsAt(k, block))
    <3>1. PICK block : src'[k] = Absolute(SectionsAt(k, block))
      BY <2>3
    <3>2. 1 \in DOMAIN src[k]
      BY <2>1, KeyFacts, SectionCount DEF TreeSections
    <3>3. e \in DOMAIN SectionsAt(k, block) /\ DOMAIN SectionsAt(k, block) = DOMAIN src[k]
      BY <1>2, <2>1, <3>1, <3>2, SectionSizes DEF Absolute
    <3> DEFINE y == SectionsAt(k, block)[e]
    <3>7. e \in DOMAIN src[k]
      BY <3>3
    <3>4. PICK x, z : y = [block |-> x, size |-> z] /\ z <= MaxSection /\ (z > 0 \/ Size(k) = 0)
      BY <2>1, <3>7, SectionSizes
    <3>5. \E v : src'[k][e] = [y EXCEPT !.block = v]
      BY <3>1, <3>3 DEF Absolute
    <3> HIDE DEF y
    <3>6. src'[k][e].size = z
      BY <3>4, <3>5
    <3> QED BY <3>4, <3>6
  <2> QED BY <1>1, <2>2, <2>3
<1> QED BY <1>1, <1>2 DEF ExtentInv, ExtentsFit

LEMMA ExtentNext ==
    ASSUME ExtentInv, [FSNext]_fsVars
    PROVE  ExtentInv'
<1>1. ASSUME NEW i \in Inodes, Change(i) PROVE ExtentInv'
  <2>1. PICK s \in Sizes : disk' = [disk EXCEPT ![i] = [size |-> s, gen |-> disk[i].gen + 1]]
    BY <1>1 DEF Change
  <2>2. [size |-> s, gen |-> disk[i].gen + 1] \in [size : Sizes, gen : Nat]
    <3>1. disk[i] \in [size : Sizes, gen : Nat]
      BY DEF ExtentInv
    <3> QED BY <3>1
  <2>3. disk' \in [Inodes -> [size : Sizes, gen : Nat]]
    BY <2>1, <2>2 DEF ExtentInv
  <2> QED BY <1>1, <2>3 DEF Change, ExtentInv, ExtentsFit
<1>2. ASSUME NEW i \in Inodes, NEW claim \in BOOLEAN, AddFile(i, claim) PROVE ExtentInv'
  <2> DEFINE k == <<i, disk[i].size>>
  <2>1. /\ pc = "tree" /\ pc' = pc /\ disk' = disk
        /\ src' = [x \in DOMAIN src \cup {k} |->
                     IF x \in DOMAIN src THEN src[x] ELSE TreeSections(k)]
    BY <1>2 DEF AddFile, diskVars, TreeSections
  <2>2. k \in Keys
    BY DEF ExtentInv, Keys
  <2> HIDE DEF k
  <2> QED BY <2>1, <2>2 DEF ExtentInv, ExtentsFit
<1>3. CASE Compute
  BY <1>3, ExtentCompute
<1>4. ASSUME disk' = disk, src' = src, pc' = "tree" => pc = "tree", pc = "tree" => pc' = "tree"
      PROVE  ExtentInv'
  BY <1>4 DEF ExtentInv, ExtentsFit
<1>5. CASE WriteZeroBlock
  BY <1>4, <1>5 DEF WriteZeroBlock, diskVars, outVars
<1>6. CASE SkipFile
  BY <1>4, <1>6 DEF SkipFile, diskVars, outVars
<1>7. CASE BeginFile
  BY <1>4, <1>7 DEF BeginFile, diskVars, outVars
<1>8. CASE FirstBlock
  BY <1>4, <1>8 DEF FirstBlock, diskVars, outVars
<1>9. CASE FirstFails
  BY <1>4, <1>9 DEF FirstFails, diskVars, outVars
<1>10. CASE FirstEnds
  BY <1>4, <1>10 DEF FirstEnds, diskVars, outVars
<1>11. CASE OpenFile
  BY <1>4, <1>11 DEF OpenFile, Report, diskVars, outVars
<1>12. CASE FillUnreadable
  BY <1>4, <1>12 DEF FillUnreadable, diskVars, outVars
<1>13. CASE ReadBlock
  BY <1>4, <1>13 DEF ReadBlock, diskVars, outVars
<1>14. CASE ReadFails
  BY <1>4, <1>14 DEF ReadFails, Report, diskVars, outVars
<1>15. CASE FillBlock
  BY <1>4, <1>15 DEF FillBlock, diskVars, outVars
<1>16. CASE Finish
  BY <1>4, <1>16 DEF Finish, Report, diskVars, outVars
<1>17. CASE EndOfWriting
  BY <1>4, <1>17 DEF EndOfWriting, diskVars, outVars
<1>18. CASE UNCHANGED fsVars
  BY <1>4, <1>18 DEF fsVars
<1> QED BY <1>1, <1>2, <1>3, <1>5, <1>6, <1>7, <1>8, <1>9, <1>10, <1>11, <1>12, <1>13,
           <1>14, <1>15, <1>16, <1>17, <1>18 DEF FSNext

\* The number of extents suits every size: none of them is too large for its
\* 32 bit field, and none is empty but that of an empty file.
THEOREM ExtentsAlwaysFit == FSSpec => []ExtentsFit
<1>1. FSInit => ExtentInv
  <2> SUFFICES ASSUME FSInit PROVE ExtentInv
    OBVIOUS
  <2>1. DOMAIN src = {} /\ pc = "tree"
    BY DEF FSInit
  <2>2. disk \in [Inodes -> [size : Sizes, gen : Nat]]
    BY DEF FSInit
  <2> QED BY <2>1, <2>2 DEF ExtentInv, ExtentsFit
<1>2. ExtentInv /\ [FSNext]_fsVars => ExtentInv'
  BY ExtentNext
<1>3. ExtentInv => ExtentsFit
  BY DEF ExtentInv
<1> QED BY <1>1, <1>2, <1>3, PTL DEF FSSpec
==============================================================================
