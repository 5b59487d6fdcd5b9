------------------------------ MODULE BlockCache ------------------------------
(***************************************************************************)
(* The cache through which libisofs reads the blocks of a loaded image:    *)
(* libisoburn/data_source.c on top of burn_read_data() in libburn/read.c.  *)
(* A tile holds TileBlocks blocks from an aligned address on. Reading is   *)
(* synchronous, so that one action is one call of ds_read_block(), told    *)
(* apart by the way that it takes through the function.                    *)
(*                                                                         *)
(* The content of a block of the medium is its address.  Blocks in         *)
(* BadBlocks can be read in one attempt and fail in another one.           *)
(***************************************************************************)
EXTENDS Integers

CONSTANTS
    NumTiles, TileBlocks,   \* -data_cache_size
    ChunkBlocks,            \* blocks per read operation, BUFFER_SIZE / 2048
    AddressLimit,           \* number of block addresses, 2^32 in the code
    MediumEnd,              \* first address after the readable capacity
    BadBlocks,
    Displacements,          \* offsets between addresses in image and on medium
    MaxAge,                 \* Libisoburn_max_agE
    Roles                   \* "mmc" for optical drives, "file" for stdio drives

ASSUME SizeAssumption ==
    /\ {NumTiles, TileBlocks, ChunkBlocks} \subseteq Nat \ {0}
    /\ {AddressLimit, MediumEnd, MaxAge} \subseteq Nat
    /\ AddressLimit % TileBlocks = 0 /\ MediumEnd < AddressLimit /\ MaxAge > 1
ASSUME SetAssumption ==
    Displacements \subseteq Int /\ Roles \subseteq {"mmc", "file"}

Tiles == 0 .. NumTiles - 1
Offsets == 0 .. TileBlocks - 1
Addresses == 0 .. AddressLimit - 1

\* 0xffffffff marks a tile without content and a memory without error.
None == AddressLimit - 1

\* What a buffer holds that was not read from the medium.
Zero == -1
Torn == -2

VARIABLES
    role, displacement,
    drive,          \* "grabbed", or "gone" after isoburn_data_source_shutdown()
    lba, data,      \* per tile: address and memory
    errLba, errAligned,   \* per tile: remembered failures
    age, currentAge,
    before,         \* history: <<t, u>> if tile t was used longer ago than u
    reply           \* what the last call returned

tileVars == <<lba, data>>
errVars == <<errLba, errAligned>>
ageVars == <<age, currentAge, before>>
bcVars == <<role, displacement, drive, lba, data, errLba, errAligned, age,
            currentAge, before, reply>>

Reply(kind, at, content) == [kind |-> kind, at |-> at, content |-> content]

BCInit ==
    /\ role \in Roles /\ displacement \in Displacements /\ drive = "grabbed"
    /\ lba = [t \in Tiles |-> None]
    /\ data = [t \in Tiles |-> [i \in Offsets |-> Zero]]
    /\ errLba = [t \in Tiles |-> None] /\ errAligned = [t \in Tiles |-> None]
    /\ age = [t \in Tiles |-> 0] /\ currentAge = 0 /\ before = {}
    /\ reply = Reply("none", 0, Zero)

-----------------------------------------------------------------------------
(* burn_read_data()                                                        *)

Readable(a) == a < MediumEnd /\ a \notin BadBlocks

\* Reading a tile of an optical drive succeeds only if all of it is on the
\* medium.  A file needs to have something for each chunk.
LastChunk(a) == a + ((TileBlocks - 1) \div ChunkBlocks) * ChunkBlocks
OnMedium(a) ==
    IF role = "mmc" THEN a + TileBlocks <= MediumEnd ELSE LastChunk(a) < MediumEnd

\* The blocks after the end of a file are what the chunk buffer held before.
Loaded(a) ==
    [i \in Offsets |->
       IF a + i < MediumEnd THEN a + i
       ELSE IF i < ChunkBlocks THEN Zero ELSE a + i - ChunkBlocks]

MayFail(a) == ~OnMedium(a) \/ \E i \in Offsets : a + i \in BadBlocks

-----------------------------------------------------------------------------
(* ds_read_block()                                                         *)

Displaced(r) == r + displacement
InRange(r) == Displaced(r) \in Addresses
Aligned(a) == a - (a % TileBlocks)

Holding(a) == {t \in Tiles : lba[t] = Aligned(a) /\ lba[t] # None}

\* Tile t has just been used.
UsedAfter(t) == {p \in before : p[1] # t} \cup ((Tiles \ {t}) \X {t})

\* ds_inc_age(). The ages begin anew before the counter overflows.
IncAge(t) ==
    IF currentAge + 1 >= MaxAge
    THEN /\ currentAge' = 1
         /\ age' = [u \in Tiles |-> IF u = t THEN 1 ELSE 0]
         /\ before' = (Tiles \ {t}) \X {t}
    ELSE /\ currentAge' = currentAge + 1
         /\ age' = [age EXCEPT ![t] = currentAge + 1]
         /\ before' = UsedAfter(t)

\* The tile for the next content: the first empty one, else the first among
\* those of least age.
IsOldest(t) ==
    \/ lba[t] = None /\ \A u \in 0 .. t - 1 : lba[u] # None
    \/ /\ \A u \in Tiles : lba[u] # None /\ age[t] <= age[u]
       /\ \A u \in 0 .. t - 1 : age[t] < age[u]

ReadReleased(r) ==
    /\ drive = "gone"
    /\ reply' = Reply("gone", r, Zero)
    /\ UNCHANGED <<role, displacement, drive, tileVars, errVars, ageVars>>

ReadRollover(r) ==
    /\ drive = "grabbed" /\ ~InRange(r)
    /\ reply' = Reply("rollover", r, Zero)
    /\ UNCHANGED <<role, displacement, drive, tileVars, errVars, ageVars>>

\* Defect: a hit does not count as use of the tile.
ReadHitDefect(t, a) ==
    /\ drive = "grabbed" /\ t \in Holding(a)
    /\ reply' = Reply("ok", a, data[t][a - Aligned(a)])
    /\ before' = UsedAfter(t)
    /\ UNCHANGED <<role, displacement, drive, tileVars, errVars, age, currentAge>>

ReadHit(t, a) ==
    /\ drive = "grabbed" /\ t \in Holding(a)
    /\ reply' = Reply("ok", a, data[t][a - Aligned(a)])
    /\ IncAge(t)
    /\ UNCHANGED <<role, displacement, drive, tileVars, errVars>>

\* The tile gets invalid before its memory is changed.
LoadTile(t, a) ==
    /\ drive = "grabbed" /\ Holding(a) = {} /\ IsOldest(t)
    /\ errAligned[t] # Aligned(a) /\ OnMedium(Aligned(a))
    /\ data' = [data EXCEPT ![t] = Loaded(Aligned(a))]
    /\ lba' = [lba EXCEPT ![t] = Aligned(a)]
    /\ reply' = Reply("ok", a, data'[t][a - Aligned(a)])
    /\ IncAge(t)
    /\ UNCHANGED <<role, displacement, drive, errVars>>

\* Defect: a tile stays valid until its reading has succeeded.
TileFailsDefect(t, a) ==
    /\ drive = "grabbed" /\ Holding(a) = {} /\ IsOldest(t)
    /\ \/ errAligned[t] = Aligned(a) /\ data' = data
       \/ /\ errAligned[t] # Aligned(a) /\ MayFail(Aligned(a))
          /\ data' = [data EXCEPT ![t] = [i \in Offsets |-> Torn]]
    /\ errAligned' = [errAligned EXCEPT ![t] = Aligned(a)]
    /\ UNCHANGED <<role, displacement, drive, lba, ageVars>>

\* The reading ahead has failed, now or earlier, and leaves the tile without
\* content; its memory may have got any part of the blocks.
TileFails(t, a) ==
    /\ drive = "grabbed" /\ Holding(a) = {} /\ IsOldest(t)
    /\ \/ errAligned[t] = Aligned(a) /\ data' = data
       \/ /\ errAligned[t] # Aligned(a) /\ MayFail(Aligned(a))
          /\ data' = [data EXCEPT ![t] = [i \in Offsets |-> Torn]]
    /\ lba' = [lba EXCEPT ![t] = None]
    /\ errAligned' = [errAligned EXCEPT ![t] = Aligned(a)]
    /\ UNCHANGED <<role, displacement, drive, ageVars>>

\* The wanted block is then read on its own, past the tile.
ReadSingle(t, a) ==
    /\ TileFails(t, a)
    /\ errLba[t] # a /\ a < MediumEnd
    /\ reply' = Reply("ok", a, a)
    /\ UNCHANGED errLba

\* A block that failed on its own is not tried again by way of this tile.
ReadDenied(t, a) ==
    /\ TileFails(t, a)
    /\ errLba[t] = a \/ ~Readable(a)
    /\ errLba' = [errLba EXCEPT ![t] = a]
    /\ reply' = Reply("denied", a, Zero)

ReadBlock(r) ==
    \/ ReadReleased(r)
    \/ ReadRollover(r)
    \/ /\ InRange(r)
       /\ \E t \in Tiles : LET a == Displaced(r) IN
            ReadHit(t, a) \/ LoadTile(t, a) \/ ReadSingle(t, a) \/ ReadDenied(t, a)

\* isoburn_data_source_shutdown(), for early release of the input drive.
Shutdown ==
    /\ drive = "grabbed" /\ drive' = "gone"
    /\ UNCHANGED <<role, displacement, tileVars, errVars, ageVars, reply>>

BCNext == Shutdown \/ \E r \in Addresses : ReadBlock(r)

BCSpec == BCInit /\ [][BCNext]_bcVars

-----------------------------------------------------------------------------
(* Properties                                                              *)

BCTypeOK ==
    /\ role \in Roles /\ displacement \in Displacements /\ drive \in {"grabbed", "gone"}
    /\ lba \in [Tiles -> Addresses] /\ data \in [Tiles -> [Offsets -> Int]]
    /\ errLba \in [Tiles -> Addresses] /\ errAligned \in [Tiles -> Addresses]
    /\ age \in [Tiles -> 0 .. MaxAge - 1] /\ currentAge \in 0 .. MaxAge - 1
    /\ before \subseteq Tiles \X Tiles
    /\ reply \in [kind : {"none", "ok", "denied", "rollover", "gone"},
                  at : Addresses, content : Int]

\* A tile that counts as valid holds the medium's blocks at its address, and
\* no other tile claims the same address.
TilesAreTrue ==
    \A t \in Tiles : lba[t] # None =>
       /\ \A i \in Offsets : lba[t] + i < MediumEnd => data[t][i] = lba[t] + i
       /\ \A u \in Tiles : lba[u] = lba[t] => u = t

\* The failures that a tile remembers are of blocks which cannot be relied on.
ErrorsAreTrue == \A t \in Tiles : ~Readable(errLba[t])

\* Whatever was read before and whatever failed: a block of the medium is
\* delivered with its own content, and it is denied only if it is unreadable
\* itself, but not because of its neighbours in the tile.
AnswersAreTrue ==
    /\ BCTypeOK /\ TilesAreTrue
    /\ reply.kind = "ok" /\ reply.at < MediumEnd => reply.content = reply.at
    /\ reply.kind = "denied" => ~Readable(reply.at)

\* A tile loses its content only if no other is empty and none was used longer
\* ago, as far as known since the ages began anew.
LeastRecentGoes ==
    [][\A t \in Tiles : lba[t] # None /\ lba'[t] # lba[t] =>
          \A u \in Tiles : lba[u] # None /\ <<u, t>> \notin before]_bcVars

\* "1 if success" (libisofs.h): success means that the block exists.
OnlyBlocksOfMedium == reply.kind = "ok" => reply.at < MediumEnd
=============================================================================
