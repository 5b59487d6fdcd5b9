----------------------------- MODULE FileSources -----------------------------
(***************************************************************************)
(* The content of data files in the image (libisofs filesrc.c, stream.c):  *)
(* a first pass computes the block addresses which the directory records   *)
(* will tell, a second one writes the content.  In between and during the  *)
(* second pass the files on disk may grow, shrink, change, become          *)
(* unreadable.                                                             *)
(*                                                                         *)
(* Sizes count units of which BlockSize fill a block.  A unit of a file is *)
(* known by inode, generation and position, so that the MD5 of a series of *)
(* units is represented by that series.  Left out are files which stay in  *)
(* an older session, because they have the mark no_write from start, and a *)
(* failing iso_write(), which ends everything (see ImageWriter).           *)
(***************************************************************************)
EXTENDS Integers, Sequences, FiniteSets, SequencesExt

CONSTANTS
    Inodes,         \* files on disk
    Sizes,          \* their possible sizes
    ClaimSizes,     \* sizes of files which may become the EFI partition
    BlockSize,      \* units per block (2048 bytes)
    ExtentBlocks,   \* blocks of an extent that is not the last one of its file
    Start,          \* the block where this part of the image begins
    OldEmpty,       \* empty files point to the volume descriptors
    StabilityCheck, \* files get read twice to detect changes
    ReadErrors,     \* reading of files may fail
    MaxChanges      \* bound on the changes of the files on disk

ASSUME FSAssumption ==
    /\ Sizes \subseteq Nat /\ ClaimSizes \subseteq Sizes
    /\ BlockSize \in Nat \ {0} /\ ExtentBlocks \in Nat \ {0}
    /\ Start \in Nat \ {0} /\ MaxChanges \in Nat
    /\ {OldEmpty, StabilityCheck, ReadErrors} \subseteq BOOLEAN

\* A source is known by the inode and the size which it had when it was added.
Keys   == Inodes \X Sizes
NoKey  == <<>>
Zero   == <<>>                          \* a unit of value 0
Zeros  == [u \in 1 .. BlockSize |-> Zero]

VARIABLES
    disk, changes,  \* inode -> size and generation; how many changes there were
    src,            \* sources: key -> sections
    efi,            \* the source which was claimed as EFI partition, has no_write
    list,           \* filelist of the writer
    end,            \* curblock after the first pass
    n,              \* what filesrc_writer writes next: the zeroed block, then by list
    img,            \* blocks written so far
    b,              \* blocks of the current file done
    digest, pre,    \* what the MD5 contexts have seen of the current file
    sums,           \* checksum_buffer: key -> MD5
    twice, reported, broken, \* keys of files which were read twice, reported
                             \* by iso_report_errfile(), hard to read (history)
    pc

fsVars == <<disk, changes, src, efi, list, end, n, img, b, digest, pre, sums, twice,
            reported, broken, pc>>
diskVars == <<disk, changes>>
outVars == <<src, efi, list, end>>

Size(k) == k[2]
DivUp(size) == (size + BlockSize - 1) \div BlockSize

Extent     == ExtentBlocks * BlockSize          \* ISO_EXTENT_SIZE
MaxSection == Extent + BlockSize - 1            \* MAX_ISO_FILE_SECTION_SIZE
Word       == Extent + BlockSize                \* 2^32, where uint32_t wraps
Unplaced   == -1                                \* 0xffffffff

FSInit ==
    /\ disk \in [Inodes -> [size : Sizes, gen : {1}]] /\ changes = 0
    /\ src = <<>> /\ efi = NoKey /\ list = <<>> /\ end = 0 /\ n = 0
    /\ img = <<>> /\ b = 0 /\ digest = <<>> /\ pre = <<>> /\ sums = <<>>
    /\ twice = {} /\ reported = {} /\ broken = {} /\ pc = "tree"

\* Somebody writes to a file.
Change(i) ==
    /\ pc \notin {"done", "aborted"}
    /\ changes < MaxChanges /\ changes' = changes + 1
    /\ \E s \in Sizes : disk' = [disk EXCEPT ![i] = [size |-> s, gen |-> @.gen + 1]]
    /\ UNCHANGED <<src, efi, list, end, n, img, b, digest, pre, sums, twice,
                   reported, broken, pc>>

-----------------------------------------------------------------------------
(* First pass                                                              *)

\* Defect: the quotient is rounded down.
NSectionsDefect(size) ==
    IF size > MaxSection THEN (size - MaxSection) \div Extent + 1 ELSE 1

\* iso_file_src_create(): the number of extents.
NSections(size) ==
    IF size > MaxSection
    THEN (size - MaxSection + Extent - 1) \div Extent + 1
    ELSE 1

\* A node with the same inode and size shares the source.  The first EFI boot
\* image may get claimed for the partition.
AddFile(i, claim) ==
    LET k == <<i, disk[i].size>>
    IN  /\ pc = "tree"
        /\ claim => efi = NoKey /\ disk[i].size \in ClaimSizes
        /\ src' = [x \in DOMAIN src \cup {k} |->
                     IF x \in DOMAIN src THEN src[x]
                     ELSE [e \in 1 .. NSections(Size(k)) |-> [block |-> 0, size |-> 0]]]
        /\ efi' = IF claim THEN k ELSE efi
        /\ UNCHANGED <<diskVars, list, end, n, img, b, digest, pre, sums, twice,
                       reported, broken, pc>>

\* The size of the last one.
LastSection(size) == size - (NSections(size) - 1) * Extent

\* The extents of a file, the first of which begins at a block.
SectionsAt(k, block) ==
    LET last == Len(src[k])
        rest == LastSection(Size(k))
    IN  [e \in 1 .. last |->
           IF e < last THEN [block |-> block + (e - 1) * ExtentBlocks, size |-> Extent]
           ELSE [block |-> IF rest <= 0 THEN Unplaced
                           ELSE block + (e - 1) * ExtentBlocks,
                 size |-> rest]]

\* Defect: the claimed file is counted, too.
BlocksDefect(k) == DivUp(Size(k))

\* Blocks which filesrc_writer will write for a source.
Blocks(k) == IF k = efi THEN 0 ELSE DivUp(Size(k))

\* Where in the output of filesrc_writer each file of the list begins, and
\* where it ends.  One zeroed block comes first.
Places(order) ==
    LET at[m \in 1 .. Len(order) + 1] ==
          IF m = 1 THEN (IF OldEmpty THEN 0 ELSE 1)
          ELSE at[m - 1] + Blocks(order[m - 1])
    IN  at

\* efi_boot_part_size: the sum over the extents of (size + 2047) / 2048, where
\* the addition is one of uint32_t.  The other extents are of whole blocks.
SumOfBlocks(size) ==
    (NSections(size) - 1) * ExtentBlocks
      + ((LastSection(size) + BlockSize - 1) % Word) \div BlockSize

EfiBlocks == IF efi = NoKey THEN 0 ELSE SumOfBlocks(Size(efi))

\* No file may be claimed with a last extent above 0xFFFFF800, for which the sum
\* would wrap around.
ClaimsAreCounted == \A z \in ClaimSizes : LastSection(z) <= Extent

\* compute_data_blocks() of partprepend_writer, which places the claimed file,
\* and of filesrc_writer.
EfiSections ==
    [e \in DOMAIN src[efi] |->
       [SectionsAt(efi, Start)[e] EXCEPT !.block = Start + (e - 1) * ExtentBlocks]]

First == Start + EfiBlocks

Absolute(sections) ==
    [e \in DOMAIN sections |->
       [sections[e] EXCEPT !.block = IF @ # Unplaced THEN @ + First
                                     ELSE IF OldEmpty THEN Start - 1 ELSE First]]

\* filesrc_writer_pre_compute() and the compute_data_blocks() methods.  Sorting
\* by weight may yield any order.
Compute ==
    /\ pc = "tree"
    /\ \E order \in SetToSeqs(DOMAIN src) :
         LET at == Places(order)
             nr(k) == CHOOSE m \in DOMAIN order : order[m] = k
         IN  /\ list' = order
             /\ end' = First + at[Len(order) + 1]
             /\ src' = [k \in DOMAIN src |->
                          IF k = efi THEN EfiSections
                          ELSE Absolute(SectionsAt(k, at[nr(k)]))]
    /\ pc' = IF EfiBlocks = 0 THEN "next" ELSE "partition"
    /\ UNCHANGED <<diskVars, efi, n, img, b, digest, pre, sums, twice, reported, broken>>

-----------------------------------------------------------------------------
(* Second pass                                                             *)

\* partprepend_writer writes the claimed file before all others.
Key == IF n = 0 THEN efi ELSE list[n]

Listed == n \in DOMAIN list

Unit(k, p) == IF p <= disk[k[1]].size THEN <<k[1], disk[k[1]].gen, p>> ELSE Zero

\* iso_stream_read_buffer() pads with zeros after the end of the file.
Content(k, m) == [u \in 1 .. BlockSize |-> Unit(k, m * BlockSize + u)]

\* Defect: as if there were no partly filled last block.
CountedDefect(k, m) == BlockSize

\* How many units of a block the MD5 shall see.  The difference is unsigned, so
\* that below 0 it is large.
Counted(k, m) ==
    LET rest == Size(k) - m * BlockSize
    IN  IF rest > BlockSize \/ rest < 0 THEN BlockSize ELSE rest

Summed(k, m, block) == digest \o SubSeq(block, 1, Counted(k, m))

\* iso_msg_submit() lets the run go on, or the severity makes it stop.
Report(k, next) ==
    /\ reported' = reported \cup {k}
    /\ pc' \in {next, "aborted"}

FileDone == n' = IF n = 0 THEN 0 ELSE n + 1

\* The zeroed block for files without content.
WriteZeroBlock ==
    /\ pc = "next" /\ n = 0 /\ n' = 1
    /\ img' = IF OldEmpty THEN img ELSE Append(img, Zeros)
    /\ UNCHANGED <<diskVars, outVars, b, digest, pre, sums, twice, reported, broken, pc>>

\* The mark no_write
SkipFile ==
    /\ pc = "next" /\ Listed /\ Key = efi /\ FileDone
    /\ UNCHANGED <<diskVars, outVars, img, b, digest, pre, sums, twice, reported, broken, pc>>

\* iso_filesrc_write_data() begins a file, maybe by a first reading.
BeginFile ==
    /\ pc = "partition" \/ (pc = "next" /\ Listed /\ Key # efi)
    /\ pc' = IF StabilityCheck THEN "first" ELSE "open"
    /\ b' = 0 /\ digest' = <<>> /\ pre' = <<>>
    /\ UNCHANGED <<diskVars, outVars, n, img, sums, twice, reported, broken>>

\* iso_stream_make_md5() computes b * 2048 by uint32_t: the last block of a file
\* which is larger than that counts as a full one.
FirstCounted(k, m) ==
    LET rest == Size(k) - ((m * BlockSize) % Word)
    IN  IF rest > BlockSize THEN BlockSize ELSE rest

FirstBlock ==
    /\ pc = "first" /\ b < DivUp(Size(Key))
    /\ pre' = pre \o SubSeq(Content(Key, b), 1, FirstCounted(Key, b)) /\ b' = b + 1
    /\ UNCHANGED <<diskVars, outVars, n, img, digest, sums, twice, reported, broken, pc>>

\* An error is not told, and there will be no comparison.
FirstFails ==
    /\ ReadErrors /\ pc = "first" /\ pc' = "open" /\ b' = 0 /\ pre' = <<>>
    /\ UNCHANGED <<diskVars, outVars, n, img, digest, sums, twice, reported, broken>>

FirstEnds ==
    /\ pc = "first" /\ b >= DivUp(Size(Key))
    /\ pc' = "open" /\ b' = 0 /\ twice' = twice \cup {Key}
    /\ UNCHANGED <<diskVars, outVars, n, img, digest, pre, sums, reported, broken>>

\* fsrc_open(): an unreadable file gets replaced by zeros, without checksum.  A
\* changed size is reported only.
OpenFile ==
    /\ pc = "open"
    /\ \/ /\ ReadErrors /\ Report(Key, "zeros") /\ broken' = broken \cup {Key}
       \/ /\ disk[Key[1]].size # Size(Key) /\ Report(Key, "read") /\ UNCHANGED broken
       \/ /\ disk[Key[1]].size = Size(Key) /\ pc' = "read"
          /\ UNCHANGED <<reported, broken>>
    /\ UNCHANGED <<diskVars, outVars, n, img, b, digest, pre, sums, twice>>

FillUnreadable ==
    /\ pc = "zeros" /\ pc' = "next" /\ FileDone
    /\ img' = img \o [m \in 1 .. DivUp(Size(Key)) |-> Zeros]
    /\ UNCHANGED <<diskVars, outVars, b, digest, pre, sums, twice, reported, broken>>

ReadBlock ==
    /\ pc = "read" /\ b < DivUp(Size(Key))
    /\ img' = Append(img, Content(Key, b))
    /\ digest' = Summed(Key, b, Content(Key, b)) /\ b' = b + 1
    /\ UNCHANGED <<diskVars, outVars, n, pre, sums, twice, reported, broken, pc>>

ReadFails ==
    /\ ReadErrors /\ pc = "read" /\ b < DivUp(Size(Key))
    /\ Report(Key, "fill") /\ broken' = broken \cup {Key}
    /\ UNCHANGED <<diskVars, outVars, n, img, b, digest, pre, sums, twice>>

\* The loop increments b before it looks how much of the block to sum up.
FillBlock ==
    /\ pc = "fill" /\ b < DivUp(Size(Key))
    /\ img' = Append(img, Zeros)
    /\ digest' = Summed(Key, b + 1, Zeros) /\ b' = b + 1
    /\ UNCHANGED <<diskVars, outVars, n, pre, sums, twice, reported, broken, pc>>

\* checksum_buffer with the checksum of the current file
Recorded == [k \in DOMAIN sums \cup {Key} |-> IF k = Key THEN digest ELSE sums[k]]

\* Defect: the two checksums do not get compared.
FinishDefect ==
    /\ pc \in {"read", "fill"} /\ b >= DivUp(Size(Key))
    /\ sums' = Recorded /\ FileDone
    /\ pc' = "next"
    /\ UNCHANGED <<diskVars, outVars, img, b, digest, pre, twice, reported, broken>>

\* The end of iso_filesrc_write_data(): the two checksums get compared if no
\* error is known yet.
Finish ==
    /\ pc \in {"read", "fill"} /\ b >= DivUp(Size(Key))
    /\ sums' = Recorded /\ FileDone
    /\ IF Key \in twice \ reported /\ digest # pre THEN Report(Key, "next")
       ELSE pc' = "next" /\ UNCHANGED reported
    /\ UNCHANGED <<diskVars, outVars, img, b, digest, pre, twice, broken>>

EndOfWriting ==
    /\ pc = "next" /\ n = Len(list) + 1 /\ pc' = "done"
    /\ UNCHANGED <<diskVars, outVars, n, img, b, digest, pre, sums, twice, reported, broken>>

FSNext ==
    \/ \E i \in Inodes : Change(i) \/ \E claim \in BOOLEAN : AddFile(i, claim)
    \/ Compute \/ WriteZeroBlock \/ SkipFile \/ BeginFile \/ FirstBlock \/ FirstFails \/ FirstEnds
    \/ OpenFile \/ FillUnreadable \/ ReadBlock \/ ReadFails \/ FillBlock \/ Finish \/ EndOfWriting

FSSpec == FSInit /\ [][FSNext]_fsVars

-----------------------------------------------------------------------------
(* Properties                                                              *)

FSTypeOK ==
    /\ disk \in [Inodes -> [size : Sizes, gen : 1 .. MaxChanges + 1]]
    /\ DOMAIN src \subseteq Keys /\ efi \in DOMAIN src \cup {NoKey}
    /\ reported \cup broken \cup twice \subseteq DOMAIN src
    /\ DOMAIN sums \subseteq DOMAIN src

\* Unit p of an extent that begins at a block
Beyond == <<0>>                         \* there is no such block
ImageUnit(block, p) ==
    LET m == block - Start + 1 + (p - 1) \div BlockSize
    IN  IF m \in DOMAIN img THEN img[m][((p - 1) % BlockSize) + 1] ELSE Beyond

\* What a reader finds who follows the extents of the directory record.
Stored(k) ==
    FlattenSeq([e \in DOMAIN src[k] |->
                  [p \in 1 .. src[k][e].size |-> ImageUnit(src[k][e].block, p)]])

\* When all is written, it fills exactly the blocks computed by the first pass,
\* and under the address of each file there is that file: what it had on disk,
\* at the proper position, or zeros.  A file without change and read error is
\* there as it was.  This holds whatever happens to the file and to others.
ContentIsInPlace ==
    FSTypeOK /\ (pc = "done" =>
      /\ Start + Len(img) = end
      /\ \A k \in DOMAIN src :
           /\ Len(Stored(k)) = Size(k)
           /\ \A p \in 1 .. Size(k) :
                \/ Stored(k)[p] = Zero
                \/ \E g \in 1 .. disk[k[1]].gen : Stored(k)[p] = <<k[1], g, p>>
           /\ disk[k[1]].gen = 1 /\ k \notin broken =>
                \A p \in 1 .. Size(k) : Stored(k)[p] = <<k[1], 1, p>>)

\* No extent is too large for its 32 bit field, and none but that of an empty
\* file is empty.
ExtentsFit ==
    pc # "tree" => \A k \in DOMAIN src : \A e \in DOMAIN src[k] :
                      /\ src[k][e].size <= MaxSection
                      /\ src[k][e].size > 0 \/ Size(k) = 0

\* With the check of stability, a file that was read twice with differing
\* results is reported, at the latest at its end.
ChangesAreReported ==
    pc = "done" => \A k \in twice \ reported :
                     \A p \in 1 .. Size(k) : \E g \in 1 .. disk[k[1]].gen :
                        \A q \in 1 .. Size(k) :
                           Stored(k)[q] = Zero \/ Stored(k)[q] = <<k[1], g, q>>

\* The recorded checksum of a file is that of its data in the image, if there
\* was no read error.
SumsMatchData ==
    pc = "done" => \A k \in DOMAIN sums \ broken : sums[k] = Stored(k)

\* A file that is reported did change, or was hard to read.
ReportsAreTrue == \A k \in reported \ broken : disk[k[1]].gen > 1

\* libisofs.h: "The checksums represent the data as they were written into the
\* image output stream".
SumsMatchDataAlways ==
    pc = "done" => \A k \in DOMAIN sums : sums[k] = Stored(k)
=============================================================================
