--------------------------- MODULE BlockCacheProofs ---------------------------
(***************************************************************************)
(* For every size of cache, tiles, medium and address space: the cache of  *)
(* libisoburn/data_source.c never falsifies a block.                       *)
(***************************************************************************)
EXTENDS BlockCache, TLAPS

\* The inductive invariant.
BCInv == AnswersAreTrue /\ ErrorsAreTrue


\* The position of a block within its tile.
LEMMA AlignedInTile ==
    ASSUME NEW a \in Addresses
    PROVE  Aligned(a) \in Addresses /\ a - Aligned(a) \in Offsets
<1>1. a \in Nat /\ a < AddressLimit /\ AddressLimit \in Nat /\ TileBlocks \in Nat \ {0}
  BY SizeAssumption DEF Addresses
<1>2. a % TileBlocks \in 0 .. TileBlocks - 1
  BY <1>1, SMT
<1>3. a % TileBlocks <= a
  BY <1>1, SMT
<1>4. a - (a % TileBlocks) \in Addresses
  BY <1>1, <1>2, <1>3 DEF Addresses
<1> QED
  BY <1>1, <1>2, <1>4 DEF Aligned, Offsets

LEMMA BlocksAreInt ==
    ASSUME BCTypeOK, NEW a \in Addresses
    PROVE  Loaded(Aligned(a)) \in [Offsets -> Int]
<1>1. Aligned(a) \in Int
  BY AlignedInTile DEF Addresses
<1> QED
  BY <1>1, SizeAssumption DEF Loaded, Offsets, Zero

LEMMA InitInv == BCInit => BCInv
<1> SUFFICES ASSUME BCInit PROVE BCInv
  OBVIOUS
<1> USE SizeAssumption DEF BCInit
<1>1. None \in Addresses /\ 0 \in Addresses /\ Zero \in Int
  BY DEF None, Addresses, Zero
<1>2. BCTypeOK
  BY <1>1 DEF BCTypeOK, Reply
<1>3. TilesAreTrue
  BY DEF TilesAreTrue
<1>4. ErrorsAreTrue
  BY DEF ErrorsAreTrue, Readable, None
<1> QED
  BY <1>2, <1>3, <1>4 DEF BCInv, AnswersAreTrue, Reply

\* Using a tile keeps the ages below their limit.
LEMMA AgesAreLimited ==
    ASSUME BCTypeOK, NEW t \in Tiles, IncAge(t)
    PROVE  /\ age' \in [Tiles -> 0 .. MaxAge - 1]
           /\ currentAge' \in 0 .. MaxAge - 1
           /\ before' \subseteq Tiles \X Tiles
<1> USE SizeAssumption DEF BCTypeOK
<1>1. CASE currentAge + 1 >= MaxAge
  BY <1>1 DEF IncAge
<1>2. CASE ~(currentAge + 1 >= MaxAge)
  BY <1>2 DEF IncAge, UsedAfter
<1> QED
  BY <1>1, <1>2


LEMMA HitInv ==
    ASSUME BCInv, NEW t \in Tiles, NEW a \in Addresses, ReadHit(t, a)
    PROVE  BCInv'
<1> USE DEF BCInv, AnswersAreTrue, ReadHit, tileVars, errVars
<1> DEFINE i == a - Aligned(a)
<1>1. i \in Offsets /\ Aligned(a) \in Addresses
  BY AlignedInTile
<1>2. lba[t] = Aligned(a) /\ lba[t] # None
  BY DEF Holding
<1>3. a < MediumEnd => data[t][i] = a
  <2>1. lba[t] + i = a
    BY <1>1, <1>2 DEF Addresses
  <2> QED
    BY <1>1, <1>2, <2>1 DEF TilesAreTrue
<1>4. data[t][i] \in Int
  BY <1>1 DEF BCTypeOK
<1>5. BCTypeOK'
  BY <1>4, AgesAreLimited DEF BCTypeOK, Reply
<1>6. TilesAreTrue' /\ ErrorsAreTrue'
  BY DEF TilesAreTrue, ErrorsAreTrue
<1> QED
  BY <1>3, <1>5, <1>6 DEF Reply

LEMMA LoadInv ==
    ASSUME BCInv, NEW t \in Tiles, NEW a \in Addresses, LoadTile(t, a)
    PROVE  BCInv'
<1> USE DEF BCInv, AnswersAreTrue, LoadTile, errVars
<1> DEFINE i == a - Aligned(a)
<1>1. i \in Offsets /\ Aligned(a) \in Addresses
  BY AlignedInTile
<1>2. data' = [data EXCEPT ![t] = Loaded(Aligned(a))] /\ data' \in [Tiles -> [Offsets -> Int]]
  BY BlocksAreInt DEF BCTypeOK
<1>3. data'[t] = Loaded(Aligned(a)) /\ lba'[t] = Aligned(a)
  BY <1>2 DEF BCTypeOK
<1>4. \A j \in Offsets : lba'[t] + j < MediumEnd => data'[t][j] = lba'[t] + j
  BY <1>3 DEF Loaded
<1>5. BCTypeOK'
  BY <1>1, <1>2, AgesAreLimited DEF BCTypeOK, Reply
<1>6. TilesAreTrue'
  <2> SUFFICES ASSUME NEW u \in Tiles, lba'[u] # None
               PROVE  /\ \A j \in Offsets : lba'[u] + j < MediumEnd => data'[u][j] = lba'[u] + j
                      /\ \A v \in Tiles : lba'[v] = lba'[u] => v = u
    BY DEF TilesAreTrue, None
  <2>1. \A v \in Tiles \ {t} : lba'[v] = lba[v] /\ data'[v] = data[v]
    BY DEF BCTypeOK
  <2>2. \A v \in Tiles : lba[v] # Aligned(a) \/ lba[v] = None
    BY DEF Holding
  <2>3. CASE u = t
    BY <1>3, <1>4, <2>1, <2>2, <2>3
  <2>4. CASE u # t
    BY <1>3, <2>1, <2>2, <2>4 DEF TilesAreTrue
  <2> QED
    BY <2>3, <2>4
<1>7. ErrorsAreTrue'
  BY DEF ErrorsAreTrue
<1>8. a < MediumEnd => data'[t][i] = a
  BY <1>1, <1>3, <1>4 DEF Addresses
<1> QED
  BY <1>5, <1>6, <1>7, <1>8 DEF Reply

\* What a failing tile leaves behind.
LEMMA TileFailsInv ==
    ASSUME BCInv, NEW t \in Tiles, NEW a \in Addresses, TileFails(t, a)
    PROVE  /\ TilesAreTrue'
           /\ lba' \in [Tiles -> Addresses] /\ data' \in [Tiles -> [Offsets -> Int]]
           /\ errAligned' \in [Tiles -> Addresses]
<1> USE DEF BCInv, AnswersAreTrue, TileFails
<1>1. None \in Addresses
  BY SizeAssumption DEF None, Addresses
<1>2. \A v \in Tiles \ {t} : lba'[v] = lba[v] /\ data'[v] = data[v]
  BY DEF BCTypeOK
<1>3. lba'[t] = None
  BY DEF BCTypeOK
<1>4. TilesAreTrue'
  BY <1>2, <1>3 DEF TilesAreTrue, None
<1> QED
  BY <1>1, <1>4, AlignedInTile DEF BCTypeOK, Torn

LEMMA SingleInv ==
    ASSUME BCInv, NEW t \in Tiles, NEW a \in Addresses,
           ReadSingle(t, a) \/ ReadDenied(t, a)
    PROVE  BCInv'
<1> USE DEF BCInv, AnswersAreTrue
<1>1. TileFails(t, a)
  BY DEF ReadSingle, ReadDenied
<1>2. errLba' \in [Tiles -> Addresses] /\ ErrorsAreTrue'
  <2>1. CASE ReadSingle(t, a)
    BY <2>1 DEF ReadSingle, ErrorsAreTrue, Readable, BCTypeOK
  <2>2. CASE ReadDenied(t, a)
    BY <2>2 DEF ReadDenied, ErrorsAreTrue, Readable, BCTypeOK
  <2> QED
    BY <2>1, <2>2
<1>3. reply' \in [kind : {"none", "ok", "denied", "rollover", "gone"},
                  at : Addresses, content : Int]
  BY DEF ReadSingle, ReadDenied, Reply, Zero, Addresses
<1>4. BCTypeOK'
  BY <1>1, <1>2, <1>3, TileFailsInv DEF BCTypeOK, TileFails, ageVars
<1>5. TilesAreTrue'
  BY <1>1, TileFailsInv
<1>6. /\ reply'.kind = "ok" => reply'.content = reply'.at
      /\ reply'.kind = "denied" => ~Readable(reply'.at)
  BY DEF ReadSingle, ReadDenied, Reply, ErrorsAreTrue, Readable
<1> QED
  BY <1>2, <1>4, <1>5, <1>6 DEF Readable

LEMMA StepInv == BCInv /\ [BCNext]_bcVars => BCInv'
<1> SUFFICES ASSUME BCInv, [BCNext]_bcVars PROVE BCInv'
  OBVIOUS
<1> USE DEF tileVars, errVars, ageVars
<1>1. CASE Shutdown
  BY <1>1 DEF Shutdown, BCInv, AnswersAreTrue, BCTypeOK, TilesAreTrue, ErrorsAreTrue, Readable
<1>2. ASSUME NEW r \in Addresses, ReadReleased(r) \/ ReadRollover(r)
      PROVE  BCInv'
  BY <1>2 DEF ReadReleased, ReadRollover, Reply, Zero, BCInv, AnswersAreTrue, BCTypeOK,
              TilesAreTrue, ErrorsAreTrue, Readable
<1>3. ASSUME NEW r \in Addresses, InRange(r), NEW t \in Tiles, ReadHit(t, Displaced(r))
      PROVE  BCInv'
  BY <1>3, HitInv DEF InRange
<1>4. ASSUME NEW r \in Addresses, InRange(r), NEW t \in Tiles, LoadTile(t, Displaced(r))
      PROVE  BCInv'
  BY <1>4, LoadInv DEF InRange
<1>5. ASSUME NEW r \in Addresses, InRange(r), NEW t \in Tiles,
             ReadSingle(t, Displaced(r)) \/ ReadDenied(t, Displaced(r))
      PROVE  BCInv'
  BY <1>5, SingleInv DEF InRange
<1>6. CASE UNCHANGED bcVars
  BY <1>6 DEF bcVars, BCInv, AnswersAreTrue, BCTypeOK, TilesAreTrue, ErrorsAreTrue, Readable
<1> QED
  BY <1>1, <1>2, <1>3, <1>4, <1>5, <1>6 DEF BCNext, ReadBlock

\* ds_read_block() delivers each block of the medium with its own content and
\* denies only what is unreadable itself, whatever the sizes of the cache.
THEOREM AnswersInvariance == BCSpec => []AnswersAreTrue
<1>1. BCInv => AnswersAreTrue
  BY DEF BCInv
<1> QED
  BY InitInv, StepInv, <1>1, PTL DEF BCSpec

-----------------------------------------------------------------------------
(* Replacement. A tile has a smaller age than any that was used after it.  *)

AgesShowUse ==
    /\ \A p \in before : age[p[1]] < age[p[2]]
    /\ \A t \in Tiles : age[t] <= currentAge

LEMMA AgesShowUseKept ==
    ASSUME BCTypeOK, AgesShowUse, NEW t \in Tiles, IncAge(t)
    PROVE  AgesShowUse'
<1> USE SizeAssumption DEF BCTypeOK, AgesShowUse
<1>1. CASE currentAge + 1 >= MaxAge
  BY <1>1 DEF IncAge
<1>2. CASE ~(currentAge + 1 >= MaxAge)
  <2>1. age'[t] = currentAge + 1 /\ \A u \in Tiles \ {t} : age'[u] = age[u]
    BY <1>2 DEF IncAge
  <2>2. \A u \in Tiles : age'[u] <= currentAge'
    BY <1>2, <2>1 DEF IncAge
  <2>3. ASSUME NEW p \in before' PROVE age'[p[1]] < age'[p[2]]
    <3>1. p \in Tiles \X Tiles /\ p[1] \in Tiles /\ p[2] \in Tiles
      BY <1>2, <2>3 DEF IncAge, UsedAfter
    <3>2. p[1] # t /\ (p \in before \/ p[2] = t)
      BY <1>2, <2>3 DEF IncAge, UsedAfter
    <3>3. CASE p[2] = t
      BY <2>1, <3>1, <3>2, <3>3
    <3>4. CASE p[2] # t
      BY <2>1, <3>1, <3>2, <3>4
    <3> QED
      BY <3>3, <3>4
  <2> QED
    BY <2>2, <2>3
<1> QED
  BY <1>1, <1>2

LEMMA AgesShowUseStep == BCInv /\ AgesShowUse /\ [BCNext]_bcVars => AgesShowUse'
<1> SUFFICES ASSUME BCInv, AgesShowUse, [BCNext]_bcVars PROVE AgesShowUse'
  OBVIOUS
<1>1. BCTypeOK
  BY DEF BCInv, AnswersAreTrue
<1>2. ASSUME NEW r \in Addresses, NEW t \in Tiles,
             ReadHit(t, Displaced(r)) \/ LoadTile(t, Displaced(r))
      PROVE  AgesShowUse'
  BY <1>1, <1>2, AgesShowUseKept DEF ReadHit, LoadTile
<1>3. CASE UNCHANGED ageVars
  BY <1>3 DEF ageVars, AgesShowUse
<1> QED
  BY <1>2, <1>3 DEF BCNext, ReadBlock, Shutdown, ReadReleased, ReadRollover, ReadSingle,
                    ReadDenied, TileFails, bcVars, ageVars

\* A step that takes the content of a tile takes it from the oldest one.
LEMMA OldestGoes ==
    ASSUME BCInv, AgesShowUse, [BCNext]_bcVars, NEW t \in Tiles,
           lba[t] # None, lba'[t] # lba[t]
    PROVE  \A u \in Tiles : lba[u] # None /\ <<u, t>> \notin before
<1> USE DEF bcVars, tileVars
<1>1. PICK r \in Addresses, v \in Tiles : LoadTile(v, Displaced(r)) \/ TileFails(v, Displaced(r))
  BY DEF BCNext, ReadBlock, Shutdown, ReadReleased, ReadRollover, ReadHit, ReadSingle, ReadDenied
<1>2. \A u \in Tiles \ {v} : lba'[u] = lba[u]
  BY <1>1 DEF LoadTile, TileFails, BCInv, AnswersAreTrue, BCTypeOK
<1>3. t = v /\ IsOldest(t)
  BY <1>1, <1>2 DEF LoadTile, TileFails
<1>4. \A u \in Tiles : lba[u] # None /\ age[t] <= age[u]
  BY <1>3 DEF IsOldest
<1>5. \A u \in Tiles : <<u, t>> \in before => age[u] < age[t]
  BY DEF AgesShowUse
<1> QED
  BY <1>4, <1>5, SizeAssumption DEF BCInv, AnswersAreTrue, BCTypeOK

\* The cache gives up the least recently used content, for every number of
\* tiles and however often the ages begin anew.
THEOREM ReplacementIsFair == BCSpec => LeastRecentGoes
<1>1. BCInit => AgesShowUse
  BY DEF BCInit, AgesShowUse
<1>2. BCInv /\ AgesShowUse /\ [BCNext]_bcVars =>
        [\A t \in Tiles : lba[t] # None /\ lba'[t] # lba[t] =>
            \A u \in Tiles : lba[u] # None /\ <<u, t>> \notin before]_bcVars
  BY OldestGoes
<1> QED
  BY InitInv, StepInv, AgesShowUseStep, <1>1, <1>2, PTL DEF BCSpec, LeastRecentGoes

=============================================================================
