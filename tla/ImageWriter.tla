---------------------------- MODULE ImageWriter ----------------------------
(***************************************************************************)
(* The life of an Ecma119Image (libisofs/ecma119.c): ecma119_image_new()   *)
(* sets it up and starts write_function() as a thread of its own, which    *)
(* produces the image into the ring buffer.  The consumer gets at it by    *)
(* the methods of the burn_source: bs_read(), bs_cancel(), bs_free_data(). *)
(*                                                                         *)
(* Three actors share the Ecma119Image ("target") without a lock of its    *)
(* own: the writer thread, the reader and the control thread, which may    *)
(* cancel while the reader is in bs_read() (with libburn's fifo, reading   *)
(* and cancelling are done by different threads) but which frees only      *)
(* after the reader has come to its end.  Units are blocks.                *)
(***************************************************************************)
EXTENDS RingBuffer

CONSTANTS
    TotalSize,     \* the size that ecma119_image_new() computes in advance
    SetSizes       \* sizes that bs_set_size() may be called with

ASSUME TotalAssumption ==
    /\ TotalSize \in Nat \ {0} /\ TotalSize <= MaxBytes
    /\ SetSizes \subseteq Nat \ {0}

VARIABLES
    wt,          \* where the writer thread is in write_function()
    chunk,       \* the count of the iso_write() under way
    totalSize,   \* target->total_size
    written,     \* target->bytes_written
    damage,      \* the thread said "Image is most likely damaged"
    bad,         \* why write_function() left its straight course
    refcount,    \* target->refcount
    alive,       \* target is allocated
    joinable,    \* target->wthread_is_running
    running,     \* image->generator_is_running
    sums,        \* who has the checksum buffer: "target", "image", "none"
    ct,          \* where the control thread is
    seen         \* the ring buffer status that it acts on

threadVars  == <<wt, chunk, written, bad, damage>>
targetVars  == <<totalSize, refcount, alive, joinable, running, sums>>
controlVars == <<ct, seen>>
iwVars      == <<vars, threadVars, targetVars, controlVars>>

ThreadStates == {"none", "generate", "inWrite", "transplant", "close", "jte",
                 "fail", "failSums", "idle", "unref", "drop", "late", "done"}
ControlStates == {"absent", "using", "cancelClose", "cancelJoin",
                  "freeClose", "freeJoin", "freeUnref", "freeDrop", "gone"}

IWInit ==
    /\ Init
    /\ wt = "none" /\ chunk = 0 /\ written = 0 /\ bad = "no" /\ damage = FALSE
    /\ totalSize = TotalSize
    /\ refcount = 0 /\ alive = FALSE /\ joinable = FALSE
    /\ running = FALSE /\ sums = "none"
    /\ ct = "absent" /\ seen = [status |-> 1, drained |-> TRUE]

-----------------------------------------------------------------------------
(* ecma119_image_new()                                                     *)

\* The usual end: generator_is_running and the thread's reference are set
\* before pthread_create(), wthread_is_running after it.
CreateStarted ==
    /\ ct = "absent"
    /\ ct' = "using" /\ wt' = "generate"
    /\ refcount' = 2 /\ alive' = TRUE /\ joinable' = TRUE
    /\ running' = TRUE /\ sums' = "target"
    /\ UNCHANGED <<vars, chunk, written, bad, damage, totalSize, seen>>

\* iso_write_opts_set_will_cancel(): only the size is wanted, no thread starts.
CreateWillCancel ==
    /\ ct = "absent"
    /\ ct' = "using"
    /\ refcount' = 1 /\ alive' = TRUE /\ sums' = "target"
    /\ UNCHANGED <<vars, threadVars, totalSize, joinable, running, seen>>

\* pthread_create() fails: the thread's reference is given back and
\* target_cleanup frees the target and revokes generator_is_running.
CreateFails ==
    /\ ct = "absent"
    /\ ct' = "gone"
    /\ UNCHANGED <<vars, threadVars, targetVars, seen>>

-----------------------------------------------------------------------------
(* write_function()                                                        *)

\* iso_write() of n blocks that stay within the announced size.
IsoWrite(n) ==
    /\ wt = "generate" /\ written + n <= totalSize
    /\ WriteBegin(n)
    /\ wt' = "inWrite" /\ chunk' = n
    /\ UNCHANGED <<written, bad, damage, targetVars, controlVars>>

InRingWrite ==
    /\ wt = "inWrite" /\ InWrite
    /\ UNCHANGED <<threadVars, targetVars, controlVars>>

IsoWriteDone ==
    /\ wt = "inWrite" /\ wcall = "out" /\ wret = 1
    /\ wt' = "generate" /\ written' = written + chunk
    /\ UNCHANGED <<vars, chunk, bad, damage, targetVars, controlVars>>

IsoWriteCancelled ==
    /\ wt = "inWrite" /\ wcall = "out" /\ wret = 0
    /\ wt' = "fail" /\ bad' = "cancelled"
    /\ UNCHANGED <<vars, chunk, written, damage, targetVars, controlVars>>

\* A file cannot be read, memory is short, or the image outgrows its size.
GenerateFails ==
    /\ wt = "generate"
    /\ wt' = "fail" /\ bad' = "failed"
    /\ UNCHANGED <<vars, chunk, written, damage, targetVars, controlVars>>

\* The writers are through with their data, be it of the computed size or not.
GenerateEnds ==
    /\ wt = "generate"
    /\ wt' = "transplant"
    /\ UNCHANGED <<vars, chunk, written, bad, damage, targetVars, controlVars>>

Transplant ==
    /\ wt = "transplant"
    /\ wt' = "close" /\ sums' = "image"
    /\ UNCHANGED <<vars, chunk, written, bad, damage, totalSize, refcount, alive,
                   joinable, running, controlVars>>

\* Defect: the generator is marked as idle too early.
CloseOkDefect ==
    /\ wt = "close" /\ WriterClose(FALSE)
    /\ wt' = "jte" /\ running' = FALSE
    /\ UNCHANGED <<chunk, written, bad, damage, totalSize, refcount, alive, joinable,
                   sums, controlVars>>

CloseOk ==
    /\ wt = "close" /\ WriterClose(FALSE)
    /\ wt' = "jte"
    /\ UNCHANGED <<chunk, written, bad, damage, targetVars, controlVars>>

\* finish_libjte(); its failure joins the course of the write errors.
FinishJte ==
    /\ wt = "jte"
    /\ \/ wt' = "idle" /\ bad' = bad
       \/ wt' = "fail" /\ bad' = "jte"
    /\ UNCHANGED <<vars, chunk, written, damage, targetVars, controlVars>>

\* Defect: the checksums of a failed image are forgotten.
FailCloseDefect ==
    /\ wt = "fail" /\ WriterClose(TRUE)
    /\ wt' = "idle"
    /\ UNCHANGED <<chunk, written, bad, damage, targetVars, controlVars>>

FailClose ==
    /\ wt = "fail" /\ WriterClose(TRUE)
    /\ wt' = "failSums"
    /\ UNCHANGED <<chunk, written, bad, damage, targetVars, controlVars>>

\* The checksums go to the IsoImage only to be disposed there.
FailSums ==
    /\ wt = "failSums"
    /\ wt' = "idle" /\ sums' = "none"
    /\ UNCHANGED <<vars, chunk, written, bad, damage, totalSize, refcount, alive,
                   joinable, running, controlVars>>

GeneratorIdle ==
    /\ wt = "idle"
    /\ wt' = "unref" /\ running' = FALSE
    /\ UNCHANGED <<vars, chunk, written, bad, damage, totalSize, refcount, alive,
                   joinable, sums, controlVars>>

\* On the straight course the target is inspected once more after its
\* reference was given up.
AfterUnref == IF bad = "no" THEN "late" ELSE "done"

\* Defect: the thread forgets to give up its reference.
WriterUnrefDefect ==
    /\ wt = "unref" /\ wt' = AfterUnref
    /\ UNCHANGED <<vars, chunk, written, bad, damage, targetVars, controlVars>>

\* ecma119_image_free(): test and decrement are not one step.
WriterUnref ==
    /\ wt = "unref"
    /\ \/ refcount > 1 /\ wt' = "drop" /\ UNCHANGED alive
       \/ refcount <= 1 /\ wt' = AfterUnref /\ alive' = FALSE
    /\ UNCHANGED <<vars, chunk, written, bad, damage, totalSize, refcount, joinable,
                   running, sums, controlVars>>

WriterDrop ==
    /\ wt = "drop"
    /\ wt' = AfterUnref /\ refcount' = refcount - 1
    /\ UNCHANGED <<vars, chunk, written, bad, damage, totalSize, alive, joinable,
                   running, sums, controlVars>>

\* Defect: the sizes are not compared.
LateCheckDefect ==
    /\ wt = "late" /\ wt' = "done"
    /\ UNCHANGED <<vars, chunk, written, bad, damage, targetVars, controlVars>>

\* The sizes get compared when it is too late for anything but a message.
LateCheck ==
    /\ wt = "late" /\ wt' = "done"
    /\ damage' = (written # totalSize)
    /\ UNCHANGED <<vars, chunk, written, bad, targetVars, controlVars>>

WriteFunction ==
    \/ \E n \in WriteSizes : IsoWrite(n)
    \/ InRingWrite \/ IsoWriteDone \/ IsoWriteCancelled
    \/ GenerateFails \/ GenerateEnds \/ Transplant \/ CloseOk \/ FinishJte
    \/ FailClose \/ FailSums \/ GeneratorIdle
    \/ WriterUnref \/ WriterDrop \/ LateCheck

-----------------------------------------------------------------------------
(* The methods of the burn_source.                                         *)

\* bs_set_size(), by which libburn announces the size of a track.
BsSetSize(n) ==
    /\ ct = "using"
    /\ totalSize' = n
    /\ UNCHANGED <<vars, threadVars, refcount, alive, joinable, running, sums,
                   controlVars>>

\* bs_read(), which a source without a writer thread is not meant for.
BsReadBegin ==
    /\ ct \in {"using", "cancelClose", "cancelJoin"} /\ wt # "none"
    /\ \E n \in ReadSizes : ReadBegin(n)
    /\ UNCHANGED <<threadVars, targetVars, controlVars>>

InBsRead ==
    /\ InRead
    /\ UNCHANGED <<threadVars, targetVars, controlVars>>

\* Both bs_cancel() and bs_free_data() begin with a look at the ring buffer,
\* which is out of date as soon as its mutex is released.
Observe == seen' = [status |-> Status, drained |-> size = 0]

CloseReading(error) == IF rend = 0 THEN ReaderClose(error) ELSE UNCHANGED vars

CancelBegin ==
    /\ ct = "using"
    /\ ct' = "cancelClose" /\ Observe
    /\ UNCHANGED <<vars, threadVars, targetVars>>

CancelClose ==
    /\ ct = "cancelClose" /\ ct' = "cancelJoin"
    /\ CloseReading(~(seen.drained /\ seen.status \in {2, 3}))
    /\ UNCHANGED <<threadVars, targetVars, seen>>

\* pthread_join() waits for the end of the thread.
Join(next) ==
    /\ joinable => wt = "done"
    /\ joinable' = FALSE /\ ct' = next
    /\ UNCHANGED <<vars, threadVars, totalSize, refcount, alive, running, sums, seen>>

CancelJoin == ct = "cancelJoin" /\ Join("using")

\* Defect: the reading side is not closed before the thread is waited for.
FreeBeginDefect ==
    /\ ct = "using" /\ rcall = "out"
    /\ ct' = IF Status < 4 THEN "freeJoin" ELSE "freeUnref"
    /\ Observe
    /\ UNCHANGED <<vars, threadVars, targetVars>>

\* bs_free_data() relies on an earlier bs_cancel() having joined the thread.
FreeBegin ==
    /\ ct = "using" /\ rcall = "out"
    /\ ct' = IF Status < 4 THEN "freeClose" ELSE "freeUnref"
    /\ Observe
    /\ UNCHANGED <<vars, threadVars, targetVars>>

FreeClose ==
    /\ ct = "freeClose" /\ ct' = "freeJoin"
    /\ CloseReading(FALSE)
    /\ UNCHANGED <<threadVars, targetVars, seen>>

\* Defect: the end of the thread is not waited for.
FreeJoinDefect ==
    /\ ct = "freeJoin" /\ joinable' = FALSE /\ ct' = "freeUnref"
    /\ UNCHANGED <<vars, threadVars, totalSize, refcount, alive, running, sums, seen>>

FreeJoin == ct = "freeJoin" /\ Join("freeUnref")

\* ecma119_image_free() once more: it would count down in a step of its own
\* if the thread still held its reference.
FreeUnref ==
    /\ ct \in {"freeUnref", "freeDrop"}
    /\ ct' = IF ct = "freeUnref" /\ refcount > 1 THEN "freeDrop" ELSE "gone"
    /\ alive' = (alive /\ (ct = "freeDrop" \/ refcount > 1))
    /\ refcount' = IF ct = "freeDrop" THEN refcount - 1 ELSE refcount
    /\ UNCHANGED <<vars, threadVars, totalSize, joinable, running, sums, seen>>

\* What the control thread goes through once it called a method.
ControlProceeds ==
    \/ CancelClose \/ CancelJoin
    \/ FreeClose \/ FreeJoin \/ FreeUnref

Control ==
    \/ CreateStarted \/ CreateWillCancel \/ CreateFails
    \/ \E n \in SetSizes : BsSetSize(n)
    \/ CancelBegin \/ FreeBegin \/ ControlProceeds

Spurious ==
    /\ WriteSpurious \/ ReadSpurious
    /\ UNCHANGED <<threadVars, targetVars, controlVars>>

IWNext == WriteFunction \/ BsReadBegin \/ InBsRead \/ Control \/ Spurious

\* The threads run; whether and when the consumer reads, cancels or frees is
\* left open, but a method that was called goes on.
IWSpec ==
    /\ IWInit /\ [][IWNext]_iwVars
    /\ WF_iwVars(WriteFunction) /\ WF_iwVars(InBsRead)
    /\ WF_iwVars(ControlProceeds)

-----------------------------------------------------------------------------
IWTypes ==
    /\ rend \in 0 .. 2 /\ wend \in 0 .. 2 /\ rcall \in CallStates
    /\ wt \in ThreadStates /\ ct \in ControlStates
    /\ bad \in {"no", "cancelled", "failed", "jte"}
    /\ refcount \in 0 .. 2 /\ sums \in {"target", "image", "none"}
    /\ alive \in BOOLEAN /\ joinable \in BOOLEAN /\ running \in BOOLEAN

ThreadEnded == wt \in {"none", "done"}

\* Nobody touches a target that was freed: the thread is at its end, past its
\* late look at the sizes, no read is under way and no method either.
NoUseAfterFree ==
    ~alive /\ ct # "absent" => ThreadEnded /\ rcall = "out" /\ ct = "gone"

\* The two holders give up their references without a lock and nevertheless
\* the second one frees: no target survives both.
NoLeak == ThreadEnded /\ ct = "gone" => ~alive

\* When all is over, a consumer that was told of an end without error has
\* the whole image, or there was a message that it has not.
CleanEndIsComplete ==
    rret = 0 /\ wend = 1 /\ wt = "done" /\ totalSize = TotalSize
      => Len(got) = TotalSize \/ damage

\* generator_is_running = 0 really means that the production has ended: the
\* stream is closed, and the checksums of the image are there exactly if the
\* image was produced entirely.
IdleMarkIsReliable ==
    alive /\ wt # "none" /\ ~running
      => wend # 0 /\ sums = (IF bad = "no" THEN "image" ELSE "none")

\* Why these hold: each of the two holders has its reference until it gave it
\* up, the control thread comes to its unref only after the thread has ended,
\* an abandoned ring buffer means that the thread has ended or is waited for,
\* and the checksums follow the course of write_function().
IWInv ==
    /\ IWTypes
    /\ alive <=> ct \notin {"absent", "gone"}
    /\ alive => refcount = (IF wt \in {"none", "late", "done"} THEN 1 ELSE 2)
    /\ ct = "absent" => wt = "none" /\ ~joinable /\ rend = 0 /\ rcall = "out"
    /\ ~joinable => ThreadEnded
    /\ rend # 0 => ThreadEnded \/ ct \in {"cancelJoin", "freeJoin"}
    /\ ct \in {"freeUnref", "gone"} => ThreadEnded
    /\ ct \in {"freeClose", "freeJoin", "freeUnref", "gone"} => rcall = "out"
    /\ ct # "freeDrop"
    /\ wt \in {"jte", "failSums", "idle", "unref", "drop", "late", "done"} => wend # 0
    /\ running <=> wt \notin {"none", "unref", "drop", "late", "done"}
    /\ wt \in {"none", "generate", "inWrite", "transplant", "close", "jte"}
         => bad = "no"
    /\ wt \in {"fail", "failSums"} => bad # "no"
    /\ wt \in {"close", "jte"} => sums = "image"
    /\ wt \in {"idle", "unref", "drop", "late", "done"}
         => sums = (IF bad = "no" THEN "image" ELSE "none")

\* Closing the reading side ends the writer thread, wherever it is.
CancelEndsThread == rend # 0 ~> ThreadEnded

\* bs_cancel() and bs_free_data() return although they wait for the thread.  So
\* does bs_read(), because the stream is finite.
MethodsReturn ==
    /\ ct \notin {"using", "absent", "gone"} ~> ct \in {"using", "gone"}
    /\ rcall # "out" ~> rcall = "out"

\* The comment in bs_set_size(): the size is "not used at all by libisofs", so
\* no image of the size that was computed for it is called damaged.
DamageIsReal == damage => written # TotalSize

\* The documentation of iso_ring_buffer_get_status(): status 7 is for
\* consumption that ended after an input error.
AbortedMeansInputError == Status = 7 => bad \in {"failed", "jte"}
=============================================================================
