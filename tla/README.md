# A verification project for GNU xorriso

xorriso 1.3.0 writes ISO 9660 images to optical media and files. It is made
of three libraries and an application, each with threads, callbacks and state
that is shared without locks. The modules of this directory model the way of an
image from the generator thread to the drive and what surrounds it: the jobs of
a drive, the signals that interrupt them, the sessions on the medium, the tree
in memory, the content of data files, and the reading of a loaded image. TLC
checks them on small instances, and TLAPS proves every invariant and every
action property of the passing runs for all sizes, with the premises that
section 5 names.

    tlc -workers 2 -config MCRingBuffer.cfg MCRingBuffer     # a run
    tlapm ImageWriterProofs.tla                              # the proofs

`PROJECT.json` lists components, runs, the lines of the source that each
definition stands for, findings, hazards and theorems.

## 1. The system

    xorriso (control thread) ----------- starts, polls, cancels, frees ---------+
        |                                                                       |
    libisoburn  (drive wrapper, emulated multi-session)                         |
        |                                   |                                   |
    libisofs                            libburn                                 |
      image tree                          drive table, grab and release         |
      writer thread --> ring buffer --> burn_source --> [fifo thread --> fifo]  |
                                                        --> write worker --> drive

| Component | State | Operations | Interacts by | What makes it correct |
|---|---|---|---|---|
| libisofs ring buffer (`buffer.c`) | memory, fill level, two positions, end marks of both sides | write, read, close of each side, status | mutex, two condition variables | bytes once and in order; no lost wakeup; end of file after the last byte |
| libisofs image writer (`ecma119.c`) | Ecma119Image: reference count, sizes, thread handle, checksum buffer; IsoImage: generator mark | create, produce, bs_read, bs_set_size, bs_cancel, bs_free_data | ring buffer, join, callbacks of burn_source, polled generator mark | freed once, by the last holder; cancellation ends the thread; clean end means whole image |
| libburn fifo (`file.c`) | ring buffer, two positions, end marks, thread mark | read, peek, inquire, cancel, free; shoveller thread | volatile variables, asynchronous cancellation | as for the ring buffer; disposal without harm to the thread |
| libburn workers (`async.c`) | linked list of workers | add, find, remove; start of scan, erase, format, write, fifo | threads, no lock | one job per drive; the list matches the threads |
| libburn drive jobs (`drive.c`, `write.c`) | busy, cancel, released, thread mark of a drive | grab, release, re-assess, cancel; erase, format, write and their steps | polled marks of struct burn_drive | idle means idle; success and failure are told apart; every job ends |
| libburn drive table, scan, abort handler (`drive.c`, `init.c`, `cleanup.c`) | table of 255 drives, abort level | register, scan, forget, abort | signals on any thread | no drive forgotten while a job runs; abort ends every job |
| libburn synchronous i/o (`read.c`, `write.c`) | buffer, busy mark, next address | read, random access write, sync | caller's thread | all bytes at their addresses; busy mark restored |
| libburn messages (`libdax_msgs.c`) | list of messages, thresholds, reference count | submit, obtain, dispose | mutex | no message lost above the threshold |
| libburn sources, tracks, sessions (`source.c`, `structure.c`) | reference counts, size of tracks | attach, size, free | reference counts | freed once |
| libburn SCSI (`mmc.c`, `sbc.c`, `spc.c`, `sg-*.c`) | profile, media status | commands | operating system | status follows the drive |
| libisofs node tree (`node.c`, `tree.c`, `image.c`) | tree, reference counts, xinfo | add, remove, iterate, merge | calls | sorted unique names; iterators survive removal |
| libisofs production (`ecma119_tree.c`, `filesrc.c`, writers) | file sources, block addresses | compute sizes, write | two passes over the same data | both passes agree; no two files share a block |
| libisofs import (`fs_image.c`, `rockridge_read.c`) | parser state | import | data source | imported tree equals the exported one |
| libisofs streams and filters (`stream.c`, `filters/`) | open state, filter process, size cache | open, read, close, get_size | pipes to a process | announced and delivered size agree |
| libisofs containers (`util_rbtree.c`, `util_htable.c`) | tree, table | insert, find, remove | calls | a set, a map |
| libisoburn (`burn_wrap.c`, `isofs_wrap.c`, `isoburn.c`) | drive wrapper: emulation mode, next writable address, target head | aquire, prepare, activate, release | libburn and libisofs | an interrupted session leaves the old one readable |
| xorriso (`write_run.c`, `drive_mgt.c`, ...) | pending changes, drives | commands, write run, abort | polling | nothing lost between commands |
| libjte, frontends, releng, test, doc | | | | outside of the core |

Hard to test are: the two lock-free protocols (fifo positions; busy and cancel
of a drive), the ends of the pipeline (each of producer, fifo, worker and
control thread may end first, by success, error or cancellation), disposal
while another thread is at work, and failures in the middle of a job.
`hazards` in `PROJECT.json` has them at their lines.

## 2. Modules

| Module | Models | Actors |
|---|---|---|
| `ByteStream` | abstract specification: a bounded stream, delivered once and in order | |
| `RingBuffer` | `libisofs/buffer.c` | writer, reader |
| `ImageWriter` (extends `RingBuffer`) | the life of an Ecma119Image in `libisofs/ecma119.c` | writer thread, reader, control thread |
| `FifoSource` | the fifo of `libburn/file.c`, its thread management in `libburn/async.c` | shoveller thread, client, pending cancellation |
| `DriveJobs` | jobs on one drive: `libburn/async.c`, `drive.c`, `write.c`, two functions of `mmc.c` | application, worker threads |
| `AbortHandler` | signals: `libburn/cleanup.c`, `init.c`, `drive.c` and xorriso's `write_run.c`, `lib_mgt.c` | control thread, generator thread, writer thread, signals |
| `MultiSession` | sessions on overwritable media: `libisoburn/burn_wrap.c`, `isoburn.c`, `isofs_wrap.c` under xorriso's commands | user, crashes, growisofs |
| `NodeTree` | the image tree: `libisofs/node.c`, insertion of `tree.c` | application, its iterators |
| `FileSources` | content and addresses of data files: `libisofs/filesrc.c`, parts of `stream.c` | image production, whoever changes the files |
| `BlockCache` | reading of a loaded image: `libisoburn/data_source.c` over `burn_read_data()` | libisofs, medium |
| `ImageWriterProofs` (with those about `RingBuffer`), `FifoSourceProofs`, `DriveJobsProofs`, `AbortHandlerProofs`, `MultiSessionProofs`, `NodeTreeProofs`, `BlockCacheProofs`, `FileSourcesProofs` | theorems | |
| `MC*` | small sets for TLC | |

A definition named `...Defect` is the definition of the same name as a
plausible bug would have it; it shows that a property can fail. It takes part
in no specification.

### RingBuffer

One action is one region between lock and unlock of the mutex. `wcall` and
`rcall` say whether a thread is out of a call, on its way to the mutex or in
the wait set of its condition variable; `wleft` and `rleft` are what its call
still has to transfer. `WriteCopy`/`ReadCopy` are one pass of the outer loop,
`WriteSleep`/`ReadSleep` are `pthread_cond_wait()`, `WriteBroken`/`ReadEof` the
early returns. The signal at the end of a pass is `Woken`; there is at most one
sleeper per condition. Spurious wakeups are actions. A byte is its position in
the stream, so that the content of memory shows any loss or repetition. Fresh
memory holds -1. The writer makes no call after its own end; the reader may go
on to read after anybody closed the reading side.

### ImageWriter

`wt` is the place of the writer thread in `write_function()`, `ct` that of the
control thread in `bs_cancel()` or `bs_free_data()`. `refcount`, `alive`,
`joinable`, `running` and `sums` are the reference count of the target, its
memory, `wthread_is_running`, `generator_is_running` and the owner of the
checksum buffer. `IsoWrite`, `InRingWrite`, `IsoWriteDone` and
`IsoWriteCancelled` are one call of `iso_write()`, whose inner steps are those of
`RingBuffer`. `WriterUnref`/`WriterDrop` are test and decrement of the unlocked
reference count; the decision of `bs_free_data()` is made on `seen`, the status
that was current when it looked. The production itself is abstract: any number
of writes, a failure at any moment. The reader may be inside `bs_read()`
while the control thread cancels, as it is with libburn's fifo between them.
`bs_free_data()` is entered only when no read is under way, which is what the
last reference of a burn_source means.

### FifoSource

One action is what a thread does between two accesses to shared volatile
variables. `s` is the place of the shoveller, `c` that of the client within
`fifo_read()`, `burn_fifo_fill_data()` or `fifo_free()`. `FreeBytes` is the room
that the shoveller computes, `Stored` the memory after an input read, with the
detour over a separate piece of memory (`transEnd`). `CopySource` and
`CopyTarget` are the two addresses of the `memcpy()` in `fifo_read()`. The
asynchronous cancellation by `pthread_cancel()` is `ShovellerDies`, at any time
after it was requested. `memory` becomes "dangling" between `free()` and the
assignment of NULL. A freed struct is taken to keep its content, which is the
mildest outcome: what the model shows to go wrong, goes wrong in any case.

### DriveJobs

`busy`, `cancel`, `released` and `threadPidValid` are the members of
struct burn_drive, `listed` is the set of workers in the list, `pc[t]` the place
of worker t. The application grabs, releases, re-assesses, cancels, erases,
formats and writes; with `Patient` it waits for BURN_DRIVE_IDLE before each call
but `burn_drive_cancel()`, as the documentation asks and xorriso does. `Events`
says which mishaps may occur. `outcome` and `asked` record what really happened
and what was asked, to compare with what `burn_drive_wrote_well()` tells, which
is `~cancel`. Rejection of parameters is a free choice, as are the lengths of
payload, padding and zero-filling. Roles are an MMC drive with a CD written in
TAO mode, the mode with the most steps, and a random access file.

### AbortHandler

`at[t]` is the place of thread t in the handler, `control` that of xorriso's
control thread in acquiring the drive and in a write run, `writer` that of
`write_disc_worker_func()`. `Signal` may interrupt the taker between any two of
its steps; `Look` is one pass of `burn_abort_5()` over the drive, with what it
does according to `Occupied` (`burn_drive_is_occupied()`): cancel, wait, forget,
or, after it was the interrupted thread itself that grabs, leave alone.
`masked` is `signal_action_mem`, by which `burn_drive_grab()` postpones the
handler. Properties compare `triggered`, what the handler has noted, with
`exited` and `writer`.

### MultiSession

Addresses are counted in units of 16 blocks, the unit in which libburn writes to
random access media and the alignment of growisofs. A command of xorriso is one
action; writing is one action per unit (`WriteUnit`, `ActivateUnit`,
`EraseUnit`), so that `Crash` can come between any two. `medium` holds for each
unit which session wrote it and what the descriptors in it tell; `o` is struct
isoburn: status, next writable address, copy of the head, emulated table of
content. `sess` and `safe` are history: what was ever begun, and what the user
was told to be safe. `Growisofs` is the other program, known only by how the code
allows for it.

### NodeTree

`t` is the memory of the library: per node reference count, parent, next and
name, per directory head and count, per iterator its directory, position and
flag, and the registry of iterators. Functions of the library are functions from
memory to memory (`UnrefOf`, `TakeOf`, `NotifyOf`, `InsertOf`), so that an action
is their composition in the order of the code. A walk along a list is the smallest
set of nodes that contains what the links lead to (`Passed`), and ends behind one
of them or at the head (`Before`), which is where the code has its pointer to a
link: a wrong link would show. A node whose count falls to 0 frees its children and
can be allocated anew. `app` counts the references that the application owns.

### FileSources

The first pass (`AddFile`, `Compute`) gives each source its sections, the second
one writes block by block (`ReadBlock`, `ReadFails`, `FillBlock`, `Finish`), while
`Change` alters the files on disk. `n` is the position of the second pass: 0 for
the file that was claimed as EFI partition and for the zeroed block, then the
index in the filelist. A unit of content is known by file,
generation and position, so that `Stored`, what a reader finds under the
extents, can be compared with what was on disk. A checksum is represented by
the series of units that went into it. Two computations of 32 bits are kept as
such, with `Word` for 2^32: the sum of blocks of the file that becomes the EFI
partition (`SumOfBlocks`), and the amount that the first of two readings sums up
of each block (`FirstCounted`). That reading goes block by block (`FirstBlock`), so
that the file may change in the middle of it. The MC module says which sizes a
claimed file may have (`ClaimSizes`).

### BlockCache

One action is one way through `ds_read_block()`: hit, load of a tile, failing
load with success or failure of the single block, address out of range, drive
gone. The content of a block is its address; `Torn` stands for memory after a
load that failed somewhere. `OnMedium` and `Loaded` are what `burn_read_data()`
makes of a tile that reaches over the end: an optical drive refuses it, a file
delivers the chunks that have at least one byte. `before` is history for the order
of use.

## 3. Runs

| Run | Bounds | Distinct states | Result |
|---|---|---|---|
| `ring` | capacity 3, 7 bytes, write sizes 1 and 4, read sizes 2 and 4 | 1584 | passes |
| `image_writer` | capacity 2, image of 3 blocks, announced sizes 2 and 4 | 62466 | passes |
| `fifo` | 3 chunks of 2 bytes, input read size 2, inputs of 0, 2, 7, 8 bytes, with and without error | 144253 | passes |
| `drive_jobs` | 2 worker threads, both roles, patient application, the drive may refuse to write or format | 709 | passes |
| `drive_hasty` | 2 worker threads, both roles, impatient application, all mishaps | 21538 | passes |
| `abort` | one drive, signals on the control thread, all modes of -signal_handling | 1396 | passes |
| `multi_session` | 14 units, images of 3 units with padding 1, 3 sessions, with and without emulated table of content, read errors, both uses of -eject "in" | 545021 | passes |
| `node_tree` | 2 directories, 2 leaves, 3 names, 1 iterator, 1 reference of the application per node | 278120 | passes |
| `file_sources` | 2 files of 0, 5 or 11 units, EFI partition of 0 or 11 units, 2 units per block, extents of 2 blocks, 1 change, read errors | 1962623 | passes |
| `block_cache` | 2 tiles of 2 blocks, 7 of 10 addresses on the medium, 1 bad block, displacements -1, 0, 2, ages up to 4 | 1291758 | passes |
| `fifo_large_reads` | as fifo, read size 4 | | `BytesInOrder` violated |
| `file_sums` | as file_sources, without double reading | | `SumsMatchDataAlways` violated |

*Why the bounds are enough.* The ring buffer's capacity is no multiple of the
call sizes: calls wrap around, need several passes and exceed the buffer; seven
bytes go round it twice. The image is larger than the buffer of its writer, so
that it must wait, and the announced sizes are one smaller and one larger. The
fifo's stream wraps around in mid-stream and ends at a chunk boundary, within a
chunk, or at once. For a drive two threads suffice, because at most one is
listed (theorem `JobsExclude`) and a second may be in its last step. Fourteen
units of medium hold three sessions and let a fourth fail for lack of space;
three sessions are a first one, one that appends to it, and one that appends to
an appended, blanked or spoiled one. Two directories are nested or side by side,
and three names put a child before, at and behind the iterator. Sizes of files
are none, exactly one extent of maximum size (which is larger than the others by
less than a block) and three extents with a partly filled last block. Two tiles for four aligned addresses
force replacement, and the ages begin anew within a few reads.

*Deadlock* is not checked by TLC in these runs since all the systems may stop: when
both sides have closed, the image is freed, the client goes away, or no call
is made. That nobody waits forever is what the liveness properties say.

What the passing runs show:

- `ring`: `InOrder`, `EofIsComplete` and `NoLostWakeup` are the promises of the
  buffer; `RingInv` is the inductive invariant of the proofs; `CallsReturn` says
  that calls end; `ImplementsStream` is the refinement of `ByteStream`, checked as
  a property and proved, too.
- `image_writer`: `NoUseAfterFree` holds although `write_function()` looks at the
  target after it gave up its reference, and only because every path to the
  last reference joins the thread first; `NoLeak` shows that the unlocked count
  does not lose the last holder. `CleanEndIsComplete` relates what the consumer
  got to the end it was told of. `IdleMarkIsReliable` is the promise of the
  comment at ecma119.c:2385. `IWInv` is the inductive invariant of the proofs.
  `CancelEndsThread` and `MethodsReturn` are free of deadlock between join,
  full buffer and late reader.
- `fifo`: with reads of one chunk and an input read size that divides the
  buffer, the lock-free protocol delivers all bytes in order (`BytesInOrder`,
  `EofAfterAllBytes`), shows the right bytes to a peek (`PeekShowsInput`) and comes
  to its end on both sides (`NobodyPollsForever`). `MemorySafe` names the places
  which the next step of the shoveller will write and from which the next step of
  a read will copy (`WriterPlaces`, `ReaderPlaces`): all lie within the ring
  buffer, and it is allocated. This holds until `fifo_free()` disposes it; what a
  shoveller does that was cancelled and not awaited is in section 4. The input
  may fail and the client may dispose the fifo at any moment between two calls.
- `drive_jobs`: for a patient application, BURN_DRIVE_IDLE means that no worker
  has to do with the drive (`IdleMeansIdle`), `burn_drive_wrote_well()` tells of
  failures (`FailureIsReported`) and of cancellation (`CancelCounts`), and a
  started job becomes idle (`JobBecomesIdle`).
- `drive_hasty`: even without waiting and with every mishap no two jobs operate
  the drive (`OneJobPerDrive`), a success is not called a failure
  (`SuccessIsReported`), and the mark that the abort handler looks at belongs to
  a listed worker (`MarkedWriterIsListed`).
- `abort`: whatever the control thread does when the signal comes, the program
  ends (`AbortEndsProgram`), also if it was about to grab the drive, and it does
  not leave the writer behind at work (`WriterIsAwaited`).
- `multi_session`: the head of the medium never names a session that is not
  complete (`LastSessionReadable`), what was reported as written lasts
  (`WrittenWellLasts`), the table of content is right even with sessions of
  growisofs in the chain (`TocListsSessions`), and no command forgets changes in
  memory silently (`ChangesNotForgotten`).
- `node_tree`: lists, counts and references stay right through every series of
  calls (`ListsAreSound`, `RefsHaveOwners`), and one iterator returns what it
  should although its position is taken from under it (`IterationIsComplete`).
- `file_sources`: whatever happens to a file between and during the two passes,
  all are where the directory records say (`ContentIsInPlace`), extents
  fit their fields (`ExtentsFit`), a change between the two readings is reported
  (`ChangesAreReported`), recorded checksums match (`SumsMatchData`).
- `block_cache`: no series of hits, loads and failures mixes up contents or
  denies a readable block for the sake of a bad neighbour (`AnswersAreTrue`), and
  the tile given up is the least recently used one (`LeastRecentGoes`).

*Fairness.* Threads that run go on running: weak fairness for the steps of a
thread inside its functions, as any scheduler grants it. No fairness is assumed
for the decision of a client to call anything, with one exception in
`RingBuffer`: there the two threads are the whole environment, and both read on
or close, write on or close, because an image is finite and a consumer reads to
the end or cancels. In `ImageWriter` that is not assumed any more: only the steps
of `write_function()`, of a read call under way and of a method under way are
fair. A pending asynchronous cancellation takes effect. In `DriveJobs` the
padding loop has a fixed number of turns, which is abstracted; strong fairness
of its last turn stands for that. The turns of payload and zero-filling change
nothing in the model, so that the weak fairness of a worker, which counts only
steps that change the state, makes these finite loops end, too. In `AbortHandler`
the writer, the handler and the control thread within a run are fair; the
control thread need not begin a run, and signals need not come. The patience of
`burn_abort()`, 4440 seconds, is taken to be enough for the drive. The other
modules have no liveness property and no fairness: their calls are single
actions or may be cut off by a crash at any step.

## 4. Disagreements between code and documentation

The runs that expect a violation show two of them; `findings` in `PROJECT.json`
quotes the documents. More of them can be seen by the following configurations,
which are kept beside the routine runs; each checks the property named.

| Configuration | Property | What happens |
|---|---|---|
| `MCImageWriterStatus` | `AbortedMeansInputError` | ring buffer status 7, by libisofs.h:5235 an input error, also follows a mere cancellation (ecma119.c:1561) |
| `MCImageWriterDamage` | `DamageIsReal` | an image of exactly the computed size is called damaged after bs_set_size() announced another one, although its comment calls that size unused |
| `MCFifoFailure` | `FailureIsForwarded` | the reader of a fifo gets end of file for an input that failed (file.c:260, 456) |
| `MCFifoUnaligned` | `NoOverrun` | equal positions near the end of the buffer with an input read size that does not divide it (file.c:363); chunk size 2056 with 32 kB reads is such a case (write_run.c:1854) |
| `MCFifoBufferOnce` | `BufferFreedOnce` | thread and client free the same ring buffer, which the comment in `burn_fifo_source_shoveller()` excludes |
| `MCFifoBufferOnce` with this invariant | `BufferOutlivesWriter` | `fifo_free()` disposes the ring buffer while the cancelled shoveller, for whose end nobody waits, is about to write to it (file.c:331-336 against 387-407) |
| `MCFifoLargeReads` with this invariant and an input of 12 bytes | `NoOverread` | `fifo_read()` copies from behind the ring buffer (file.c:287), the cause of the run's violation |
| `MCFifoPeekAll` | `PeekShowsInput` | a peek is granted one byte early (file.c:688) |
| `MCFifoPeekStale` | `PeekMissesNothing` | positions are read before the end mark (file.c:579) |
| `MCFifoNoThread` | `ReadCallReturns` | a failing pthread_create() is not noticed (async.c:174) |
| `MCDrivePadCancel` | `CancelCounts` | cancellation during the padding of a track is forgotten (write.c:234) |
| `MCDriveOverlap` | `IdleMeansIdle` | re-assessment of a busy drive (drive.c:776), late idle mark (async.c:580) |
| `MCDriveDiscInfo` | `IdleMeansIdle` | a failing inquiry inside a job (mmc.c:1906) |
| `MCAbortForgotten` | `NoJobOnForgottenDrive` | a signal between the check of `burn_disc_write()` and the spawning mark of `add_worker()` finds the drive idle and forgets it, then the writer starts (drive.c:2384, async.c:636-668) |
| `MCAbortDetected` | `AbortIsDetected` | a signal after the question at write_run.c:1089, or while `burn_set_signal_handling()` is at its assignments (init.c:535-540), is noted and then reset: the run ends as failed and the program goes on with a forgotten drive |
| `MCAbortBoth` | `WriterIsAwaited` | a signal on the generator thread, with action 1, races with the launch of the writer |
| `MCMultiEject` | `ChangesNotForgotten` | -eject "out" gives up both roles of the drive and drops pending changes (opts_d_h.c:356) |
| `MCMultiNoEmul` | `WrittenWellLasts` | without emulated table of content, an image of exactly 32 blocks at address 0 is overwritten by its own successor (isoburn.c:537) |
| `MCMultiReadError` | `LoadedTreeIsComplete` | a read error at load time yields an empty image on an appendable medium (isofs_wrap.c:229, xorriso.texi:3916) |
| `MCNodeTwoIters` | `IterationIsComplete` | of two iterators on one node the second is not moved on when the node is taken; its next call fails (node.h:371) |
| `MCBlockCacheFile` | `OnlyBlocksOfMedium` | a tile at the end of a stdio file is filled up by zeros or by remains of the previous chunk and counts as read (read.c:317, libburn.h:3801) |

The same can be seen with `MCDriveJobs.cfg`, `MCFifoRead.cfg` and
`MCFileSources.cfg` after the changes named:

| Changes | Property | What happens |
|---|---|---|
| `Roles <- MMC`, `Events <- BlankFails` | `FailureIsReported` | the result of BLANK is not looked at (mmc.c:2632) |
| `Roles <- MMC`, `Events <- Padding` | `FailureIsReported` | a write error during padding is forgotten (write.c:234) |
| `Events <- NoEvents` | `RefusalIsReported` | a job refused because its predecessor is still listed leaves `cancel` alone (async.c:363) |
| `Roles <- File`, `Events <- FileFails` | `JobBecomesIdle` | a failing truncate() leaves the file busy (drive.c:850) |
| `Events <- ThreadFails` | `JobBecomesIdle` | spawning for ever (async.c:174) |
| `Roles <- MMC` | `GrabTellsTruth` | a stale `cancel` lets the next grab fail halfway (drive.c:515) |
| `SomeClaims == SomeSizes` in `MCFileSources` | `ContentIsInPlace` | the blocks of the EFI partition are summed up by 32 bit arithmetic: a file whose last extent is above 0xFFFFF800 bytes counts as no block there, and nothing is reserved and written for it (system_area.c:2239, 2318) |
| invariant of `MCFileSources.cfg` | `ReportsAreTrue` | a file beyond 4 GiB with a partly filled last block is reported as changed although it did not change, because the first reading computes `b * 2048` with 32 bits (stream.c:1122) |
| fifo | `WorkerIsFound` | disposal and thread remove the same item (async.c:722, 773) |
| fifo | `InputOutlivesThread` | the input is freed before the cancelled thread has ended (file.c:331) |

The passing runs therefore state their conditions: chunk-size reads and
dividing input read sizes for `fifo`; a patient application and a drive that
refuses only writing and formatting for `drive_jobs`; signals on the control
thread for `abort`, which is where Linux delivers a signal to the process; one
iterator per directory for `node_tree`; no -eject of the output role alone; no
file of a last extent above 0xFFFFF800 bytes as EFI partition for `file_sources`;
for `MemorySafe` of `fifo`, the time until `fifo_free()` disposes the buffer.

Seen while reading, and represented in the modules as the code has it or left
out as named there: `iso_node_remove_tree()` has its condition inverted
(node.c:783); `iso_dir_insert()` replaces a node without telling iterators;
`tree.c:827` goes on with a position that an earlier insertion made stale;
`iso_write_partition_file()` can call fclose(NULL) (ecma119.c:1452); a file
that cannot be opened gets a checksum entry of zeros; `burn_read_data()` on a
busy drive sets it idle (read.c:406, 540); the single block retry after a failed
`read()` on a file goes on from a moved position (read.c:506), whose result the
block cache discards; a block that failed once is not tried again by way of the
same tile.

## 5. Proofs

Assumptions are those named in the modules: capacity and call sizes are positive
numbers (`SizeAssumption`), roles and mishaps are among the known ones
(`DriveAssumption`), the memory for nodes is finite and NULL is not in it
(`NTAssumption`).

`ImageWriterProofs` (1082 obligations), on the ring buffer: that bytes arrive in order is not
inductive: it says nothing of the bytes still in memory. `RingInv` adds
`Content` — the k-th cell from the read position on, modulo capacity, holds the
byte number Len(got)+k, the write position is the read position plus the fill
level, and sent = received + fill level — and `Calls`, what threads in a call may
rely on. `WriteLenBounds` and `ReadLenBounds` show that a pass never exceeds room,
rest or end of memory; `Wrap` reduces the modulo; one lemma per copying action
and one case per other action give `NextInv`. From `Invariance` follow
`TypeCorrect`, `DeliveryInOrder`, `EofAfterLastByte` and `SleepersHaveNoWork`.
`Refinement` shows that a copy is a `Put` or `Take` of the abstract stream, that
closing and the early returns are its other actions, and that everything else
stutters; it needs the invariant to read the sequence under way out of the
memory.

On the image writer: `NoUseAfterFree` says nothing of who will
still come; `IWInv` counts the holders: the reference count is the number of
parties that have not yet dropped theirs, the control thread comes to its own
drop only after the writer thread has ended, an abandoned ring buffer means that
the thread has ended or is waited for, and generator mark and checksums follow
the course of `write_function()`. Here the frame lemmas of the ring buffer
suffice: which end marks and wait states its steps can change. From
`LifeInvariance` follow `FreedIsUntouched`, `AllIsFreed` and `IdleIsReliable`,
for every size of image, buffer and call. `ProductionUsesRing` shows that every
step of the composed system is a step of `RingBuffer` or leaves it alone
(`IWSpec => Spec`), so `Invariance` holds of it. `EndIsComplete` combines both:
`CountInv` relates what the thread has produced to what the ring buffer was given,
and with the delivery in order a reader at a clean end has the whole image. It
needs that `bs_set_size()` does not come back to the computed size.

`FifoSourceProofs` (1970 obligations). As with the ring buffer the order of bytes is
not inductive, and here nobody holds a lock between two steps. `FifoInv` counts
bytes: `Arrived` is what the shoveller has published, `Passed` what the client
has taken, `Fill` the difference. `Positions` says that the two positions are
these counts modulo the buffer size, except between `fifo_read()`'s advancing and
wrapping of its position; `Content`, that the bytes from `Passed` on lie in memory
from there on; `CallOK`, `PublishOK` and `Thread`, what each side may rely on
between its steps while the other goes on. `BytesArriveInOrder`,
`EndOfFileIsComplete` and `FifoMemoryIsSafe` follow for all sizes with
`AlignedCalls`: the buffer is a number of shoveller requests, a request a number
of reads, and all reads have one size, as in the burn functions. The premise is
needed because `fifo_read()` counts what it has copied twice when it copies
again: see `MCFifoLargeReads` and `MCFifoUnaligned`. `PeekShowsTheInput` needs
`AlignedPeeks` as well (`MCFifoPeekAll`). `FifoMemoryIsSafe` takes the places of the
reader from `Positions` and `CallOK`, since a call served in part finds no more
bytes to copy, and those of the shoveller from `ShovelOK`, since a multiple of
the request size below the buffer size leaves room for one request. That the
memory is allocated rests on `Thread` for the reader; for the shoveller on
`MemoryKept`, which goes on to hold while the fifo is being disposed.

`DriveJobsProofs` (608 obligations). `OneJobPerDrive` rests on the list and not
on the busy mark. `DJInv` says that exactly the workers between their creation
and their `remove_worker()` are listed, that there is at most one of them, and
that the writer mark is set only inside that span. It holds for any number of
threads, any set of mishaps and an application that does not wait.
`JobsExclude` and `MarkImpliesListed` follow. For a patient application the busy
mark is right as long as there is at most one worker, and there is at most one as
long as the mark is right: `IdleInv` has both, with the types and `DJInv`. It
needs `DiscInfoWorks`, because a refused READ DISC INFORMATION unmarks the drive
in the midst of a job (section 4). `OutcomeInv` adds that a failed or cancelled
job has the flag set, or leaves the drive busy for ever, and that a worker which
has not yet taken up its job, and will reset the flag, finds neither; it needs
`FailuresAreNoted`, which excludes the refused BLANK and the padding of short
tracks, after which the program loses a failure. `PatienceIsRewarded`,
`FailuresAreTold` and `CancellationsCount` follow. `SuccessesAreTold` needs
neither patience nor assumptions: `SuccessInv` says that the flag, its copy
during the padding, and the result of the payload are bad only with an excuse
that lasts until the next job starts.

`AbortHandlerProofs` (118 obligations). `WriterAwaited`: there are three ways out
of the program, and none is open while the writer works. `AbortInv` says why:
during a run the system's own way is closed and the handler has action 3, which
never waits and exits (`RunIsGuarded`); the writer works only while the control
thread polls, on a drive whose busy mark tells so (`WriterIsWatched`); and who
waits in the handler found no writer (`WaitsWithoutWriter`). The second part is
needed because `burn_drive_forget()` sets the drive idle. The premise, signals on
the control thread only, is needed (`MCAbortBoth`).

`MultiSessionProofs` (3885 obligations). `LastSessionReadable` speaks of the
session that the head of the medium names and of all that its tree relies on,
while commands write elsewhere and may be interrupted at each unit. `MSInv` says
that sessions of a chain lie behind each other (`SessionFits`), that those of the
head are intact and end where the head says (`MediumInv`), that the struct
isoburn agrees with the medium between commands, above all that its next
writable address is behind all of them (`AtRest`), and that the session under way
lies behind its chain and has its new head waiting in memory (`WritingFits`).
`LastSessionStaysReadable` follows with `HeadKept`: not both images of exactly 32
blocks and no_emul_toc (`MCMultiNoEmul`). `SafeInv` keeps what was reported as
written well in the chain; `SuccessLasts` excludes no_emul_toc altogether.
`TocIsTrue` is about the scan of `isoburn_emulate_toc()`, a recursive function, and
any number of sessions. The step from n to n + 1 is out of the provers' reach, but
`Least`, that a set of natural numbers has a least element, follows from the
pigeonhole principle of the library and does the same: the scan is shown to be
well defined, since it goes on to higher addresses only, and to list exactly the
chain. `PendingInv` ties pending changes to the image; `ChangesStayPending` excludes
an -eject of the output role alone (`MCMultiEject`). `LoadInv` says that the tree
of the last session is loaded until the next one is written;
`LoadedTreeComplete` excludes read errors (`MCMultiReadError`).

`NodeTreeProofs` (5633 obligations). For any memory for nodes and iterators, any
names and any number of iterators on a directory. That lists are sound is not
inductive: a replaced, taken or freed node changes counts and links of others.
`NTInv` says in terms of whole sets what the pointers amount to. `Lists`: the
head and links of a directory go through its children (`Kids`) by ascending
names. `Owned`: each reference count is the sum of its owners, where a call that
is under way counts among the owners (the argument w of the lemmas), because counts
move within a call. `IsTree`: parents are live and no set of nodes has all its
parents within, so that the nodes which fall with a directory
(`Fallen`) are not among those which it hangs from. `Itered`: open iterators are in
the registry. Each function of node.c has a lemma of what it does to a memory
with these parts; `NotifyAll` is a recursion over the registry, whose value is
given by `Induct`, which follows from `LeastNumber`, a consequence of the
pigeonhole principle of the library. Then `InvStays` has one step per call.
`ListsAlwaysSound` and `RefsAlwaysHaveOwners` follow. The iterator that is told
of a taken child unlinks it before `iso_node_take()` does so with its own, older
pointer to the link: the proof shows that the second assignment finds what the first
has left, with any number of iterators on the child. `IterationAlwaysComplete`
needs `IterLimit = 1`, as in the run, because the second of two iterators on one
node is not moved on (`MCNodeTwoIters`). Its invariant `IterInv` adds that the
iterator's position is a child of its directory, and that it has returned exactly
those children that are not behind this position by name and have been
in the directory all the time (`Follows`), until a call of `iso_dir_insert()` replaces
the very child under it (`verdict` "void").

`BlockCacheProofs` (229 obligations). That answers are true is inductive
together with `ErrorsAreTrue`, that only unreadable blocks are remembered as
failures, and with `TilesAreTrue`, its part about the memory behind the answers.
`AlignedInTile` is the arithmetic of tiles. `ReplacementIsFair` rests on
`AgesShowUse`: ages grow in the order of use and none exceeds the current one,
which holds again after the ages begin anew because the record of use is cut
there, too.

`FileSourcesProofs` (3974 obligations). For all files, sizes, orders of writing,
block and extent sizes, and any changes on disk, with the premise
`ClaimsAreCounted`: for no file that becomes the EFI partition the 32 bit sum of
blocks wraps around. `LayoutInv` is the result of the
first pass: each source is in the list once, its extents lie behind each other
from the place on where the list will have it (`Extents`, `At`), and `end` is behind
the last. `ProgressInv` says how long the image is at position n and block b of
the second pass. With both, what gets appended is never in front of a place that
was filled before, so `PastInv` can say of every written file what `Done` lists:
its units are those of some time or zeros, its checksum is that of these units, and
after two readings without report they are of one time. `FilledInv` and
`CurrentInv` are the same for the current file up to block b, with the checksum so
far and the first reading. The file may change within both readings; `Parts` names
a generation which all of the first reading does not exceed and all of the second
does not precede, so that equal readings are of that one. `ContentIsAlwaysInPlace`,
`ChangesAreAlwaysReported` and `SumsAlwaysMatch` follow by `StoredAt`: who follows
the extents and puts their content together sees the units from that place on.
`ExtentsAlwaysFit` has an invariant of its own (`ExtentInv`) and no premise.
`Places` and the function inside `FlattenSeq` are recursive; `Recursion` gives their
values for lists of any length, from `Least` as above.

Only model-checked are the liveness properties, because they need fairness:
`CallsReturn`, `CancelEndsThread`, `MethodsReturn`, `NobodyPollsForever`,
`JobBecomesIdle`, `AbortEndsProgram`. Not theorems either are the properties of
the table in section 4 without the premises named here: they fail.

## 6. Plan

What would come next, most important behaviour first:

1. `Pipeline` — `ImageWriter` as the input of `FifoSource` and the write worker
   of `DriveJobs` as its client: asynchronous death of the fifo thread while it
   holds the mutex of the ring buffer; the head of an overwritable image in the
   ring buffer before any reader exists. The abstract pipeline: what the drive
   got is a prefix of the image, and a run reported as well written has all of it.
2. `WorkerList` — the linked list of `async.c` at the level of its pointers, with
   several threads that add and remove without lock.
3. `FilterStream` — the external filter process of `filters/external.c`, with
   pipes that can fill up on both sides.
4. `ImageCommands` — overwriting, moving and renaming in `iso_manip.c` over
   `NodeTree`.
5. `Containers` — `util_rbtree.c` and `util_htable.c` against a set and a map.

Proofs to come with them: the refinement of `Pipeline`.

## 7. Not modelled

Byte layouts (ISO 9660, Rock Ridge, Joliet, HFS+, El Torito, system areas, CD
sectors, CD-TEXT), parsers of existing images, SCSI command blocks and the
adapters to operating systems, digests and libjte, command interpretation and
texts of xorriso, frontends and release scripts: these are data transformations
and i/o without control that a model checker would help with. Of the modelled
components the parts left out are named in `components` of `PROJECT.json`:
multi-session on write-once media, CD modes other than TAO, the attributes of
nodes, the directory trees of the image. Weak memory ordering of the lock-free
variables is not modelled either; actions are sequentially consistent, which is
the mildest case for the code.
