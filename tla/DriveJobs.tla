------------------------------ MODULE DriveJobs ------------------------------
(***************************************************************************)
(* Asynchronous jobs on one drive of libburn: libburn/async.c starts the   *)
(* worker threads for erasing, formatting and writing, libburn/drive.c and *)
(* libburn/write.c are what they run.                                      *)
(*                                                                         *)
(* The application thread and the workers share struct burn_drive without  *)
(* a lock.  Two of its members do double duty: "busy" tells the            *)
(* application whether a job is going on, and "cancel" is at the same time *)
(* the request to stop a job and the report that it failed.                *)
(***************************************************************************)
EXTENDS Naturals

CONSTANTS
    Threads,      \* bound: so many workers may exist at a time
    Roles,        \* drive roles to look at: "mmc" (1), "file" (5)
    Patient,      \* whether the application waits for BURN_DRIVE_IDLE
    Events        \* the mishaps that may occur, a subset of Mishaps

Mishaps == {"thread",      \* pthread_create() fails
            "truncate",    \* truncate() of a file fails
            "blank", "format", "write",   \* the drive refuses that command
            "discinfo",    \* the drive refuses READ DISC INFORMATION
            "pad"}         \* a TAO track is shorter than 300 sectors

ASSUME DriveAssumption ==
    /\ Roles \subseteq {"mmc", "file"} /\ Patient \in BOOLEAN
    /\ Events \subseteq Mishaps

VARIABLES
    \* struct burn_drive
    role, released, busy, cancel, threadPidValid,
    \* the list of workers and what each of them is about
    listed, pc,
    saved, good,  \* cancel before the padding, success of the payload
    \* the application: what it knows and what it did
    holds,        \* the last burn_drive_grab() returned 1, no release since
    refused,      \* the last job was not even started
    outcome,      \* of the last job that was started
    asked         \* its burn_drive_cancel() came "early", or while "writing"

jobVars   == <<listed, pc, saved, good>>
appVars   == <<holds, refused, outcome, asked>>
driveVars == <<role, released, busy, cancel, threadPidValid>>
djVars    == <<driveVars, jobVars, appVars>>

DJInit ==
    /\ role \in Roles /\ released = TRUE /\ busy = "idle" /\ cancel = FALSE
    /\ threadPidValid = FALSE
    /\ listed = {} /\ pc = [t \in Threads |-> "none"]
    /\ saved = FALSE /\ good = TRUE
    /\ holds = FALSE /\ refused = FALSE /\ outcome = "none" /\ asked = "no"

-----------------------------------------------------------------------------
(* The application thread.                                                 *)

MayCall == Patient => busy = "idle"

\* burn_drive_grab() of an MMC drive inspects the medium, with busy set for so
\* long, and gives up on the way if cancel is set; the drive is open by then.
Grab ==
    /\ ~holds /\ released /\ MayCall
    /\ released' = FALSE /\ busy' = "idle"
    /\ holds' = (role = "mmc" => ~cancel)
    /\ UNCHANGED <<role, cancel, threadPidValid, jobVars, refused, outcome, asked>>

\* burn_drive_release() returns nothing, be the drive released or busy.
Release ==
    /\ holds /\ MayCall
    /\ holds' = FALSE
    /\ released' = (released \/ busy = "idle")
    /\ UNCHANGED <<role, busy, cancel, threadPidValid, jobVars, refused, outcome, asked>>

\* burn_drive_re_assess() goes on when its own release was refused.
ReAssess ==
    /\ holds /\ MayCall /\ ~released
    /\ busy' = "idle"
    /\ UNCHANGED <<role, released, cancel, threadPidValid, jobVars, appVars>>

DriveCancel ==
    /\ holds
    /\ cancel' = TRUE
    /\ asked' = IF asked = "writing" \/ (outcome = "running" /\ busy = "writing")
                THEN "writing" ELSE "early"
    /\ UNCHANGED <<role, released, busy, threadPidValid, jobVars, holds, refused, outcome>>

\* Defect: the mark is asked instead of the list.
FindWorkerDefect == busy = "writing"

\* find_worker(): a job on this drive is in the list.
FindWorker == listed # {}

RefuseAsBusy ==
    /\ FindWorker
    /\ refused' = TRUE
    /\ UNCHANGED <<driveVars, jobVars, holds, outcome, asked>>

\* The medium, the drive or the parameters do not suit.
RejectAsUnsuitable ==
    /\ ~FindWorker
    /\ cancel' = TRUE /\ refused' = TRUE
    /\ UNCHANGED <<role, released, busy, threadPidValid, jobVars, holds, outcome, asked>>

\* Defect: the drive gets marked only by the thread.
AddWorkerDefect(start) ==
    /\ ~FindWorker
    /\ refused' = FALSE /\ asked' = "no" /\ outcome' = "running"
    /\ \E t \in Threads :
         /\ pc[t] = "none"
         /\ pc' = [pc EXCEPT ![t] = start] /\ listed' = {t}
    /\ UNCHANGED <<role, released, busy, threadPidValid, saved, good, holds>>

\* add_worker() marks the drive before it creates the thread, and does not
\* tell whether there is one.
AddWorker(start) ==
    /\ ~FindWorker
    /\ busy' = "spawning" /\ refused' = FALSE /\ asked' = "no"
    /\ \/ \E t \in Threads :
            /\ pc[t] = "none"
            /\ pc' = [pc EXCEPT ![t] = start] /\ listed' = {t}
            /\ outcome' = "running"
       \/ "thread" \in Events /\ outcome' = "failed" /\ UNCHANGED <<pc, listed>>
    /\ UNCHANGED <<role, released, threadPidValid, saved, good, holds>>

BurnDiscErase ==
    /\ holds /\ MayCall
    /\ \/ RefuseAsBusy \/ RejectAsUnsuitable
       \/ AddWorker(IF role = "file" THEN "truncate" ELSE "erase") /\ cancel' = TRUE

BurnDiscFormat ==
    /\ holds /\ MayCall
    /\ \/ RefuseAsBusy \/ RejectAsUnsuitable
       \/ role = "mmc" /\ AddWorker("format") /\ cancel' = cancel

BurnDiscWrite ==
    /\ holds /\ MayCall
    /\ \/ RefuseAsBusy \/ RejectAsUnsuitable
       \/ AddWorker("write") /\ cancel' = FALSE

Application ==
    \/ Grab \/ Release \/ ReAssess \/ DriveCancel
    \/ BurnDiscErase \/ BurnDiscFormat \/ BurnDiscWrite

-----------------------------------------------------------------------------
(* The worker threads.                                                     *)

At(t, here) == pc[t] = here
Goes(t, there) == pc' = [pc EXCEPT ![t] = there]

\* burn_disc_erase_sync() of a file: when it fails, nothing is set.
EraseFile(t) ==
    /\ At(t, "truncate") /\ Goes(t, "remove")
    /\ \/ cancel' = FALSE /\ busy' = "idle" /\ outcome' = "done"
       \/ "truncate" \in Events /\ outcome' = "failed" /\ UNCHANGED <<cancel, busy>>
    /\ UNCHANGED <<role, released, threadPidValid, listed, saved, good, holds, refused, asked>>

\* Defect: the mark of a failed start stays.
EraseBeginDefect(t) ==
    /\ At(t, "erase") /\ Goes(t, "blank")
    /\ UNCHANGED <<driveVars, listed, saved, good, appVars>>

EraseBegin(t) ==
    /\ At(t, "erase") /\ Goes(t, "blank")
    /\ cancel' = FALSE
    /\ UNCHANGED <<role, released, busy, threadPidValid, listed, saved, good, appVars>>

\* mmc_erase() does not look at the result of its command.
EraseBlank(t) ==
    /\ At(t, "blank") /\ Goes(t, "inquire")
    /\ busy' = "erasing"
    /\ \/ outcome' = outcome
       \/ "blank" \in Events /\ outcome' = "failed"
    /\ UNCHANGED <<role, released, cancel, threadPidValid, listed, saved, good, holds,
                   refused, asked>>

FormatBegin(t) ==
    /\ At(t, "format") /\ Goes(t, "formatUnit")
    /\ cancel' = FALSE /\ busy' = "formatting"
    /\ UNCHANGED <<role, released, threadPidValid, listed, saved, good, appVars>>

\* Defect: the result of the command is not looked at.
FormatUnitDefect(t) ==
    /\ At(t, "formatUnit")
    /\ Goes(t, "end") \/ Goes(t, "inquireFormat")
    /\ outcome' = outcome \/ ("format" \in Events /\ outcome' = "failed")
    /\ UNCHANGED <<driveVars, listed, saved, good, holds, refused, asked>>

\* The work goes on after a failure of d->format_unit().
FormatUnit(t) ==
    /\ At(t, "formatUnit")
    /\ Goes(t, "end") \/ Goes(t, "inquireFormat")
    /\ \/ UNCHANGED <<cancel, outcome>>
       \/ "format" \in Events /\ cancel' = TRUE /\ outcome' = "failed"
    /\ UNCHANGED <<role, released, busy, threadPidValid, listed, saved, good, holds,
                   refused, asked>>

\* burn_drive_inquire_media(), mmc_read_disc_info_al() with it, which sets busy
\* when its command fails.  A format job may then fill the medium with zeros.
InquireMedia(t) ==
    /\ \/ At(t, "inquire") /\ Goes(t, "end")
       \/ At(t, "inquireFormat") /\ (Goes(t, "end") \/ Goes(t, "zeros"))
       \/ At(t, "inquireWritten") /\ Goes(t, "written")
    /\ busy' = busy \/ ("discinfo" \in Events /\ busy' = "idle")
    /\ UNCHANGED <<role, released, cancel, threadPidValid, listed, saved, good, appVars>>

FormatZeros(t) ==
    /\ At(t, "zeros")
    /\ busy' = "writing"
    /\ \/ Goes(t, "zeros") /\ ~cancel /\ UNCHANGED <<cancel, outcome>>
       \/ Goes(t, "end") /\ cancel' = cancel
          /\ outcome' = IF cancel THEN "failed" ELSE outcome
       \/ "write" \in Events /\ Goes(t, "end") /\ cancel' = TRUE /\ outcome' = "failed"
    /\ UNCHANGED <<role, released, threadPidValid, listed, saved, good, holds,
                   refused, asked>>

\* erase_worker_func() and format_worker_func(): busy ends before the item.
End(t) ==
    /\ At(t, "end") /\ Goes(t, "remove")
    /\ busy' = "idle"
    /\ outcome' = IF outcome = "running" THEN "done" ELSE outcome
    /\ UNCHANGED <<role, released, cancel, threadPidValid, listed, saved, good, holds,
                   refused, asked>>

RemoveWorker(t) ==
    /\ \/ At(t, "remove") /\ Goes(t, "none")
       \/ At(t, "removeWriter") /\ Goes(t, "tail")
    /\ listed' = listed \ {t}
    /\ UNCHANGED <<driveVars, saved, good, appVars>>

\* write_disc_worker_func() and burn_disc_init_write_status().
WriteBegin(t) ==
    /\ At(t, "write") /\ Goes(t, "payload")
    /\ threadPidValid' = TRUE /\ cancel' = FALSE /\ busy' = "writing"
    /\ UNCHANGED <<role, released, listed, saved, good, appVars>>

\* A file gets its payload and that is it.  On an MMC drive the session gets
\* closed whatever happened, after a short TAO track was padded up.
AfterPayload(t) ==
    \/ role = "file" /\ Goes(t, IF good' THEN "written" ELSE "fail")
    \/ role = "mmc" /\ Goes(t, "close")
    \/ role = "mmc" /\ "pad" \in Events /\ Goes(t, "pad")

WritePayload(t) ==
    /\ At(t, "payload")
    /\ \/ ~cancel /\ UNCHANGED <<pc, cancel, good, outcome>>
       \/ ~cancel /\ good' = TRUE /\ AfterPayload(t) /\ UNCHANGED <<cancel, outcome>>
       \/ /\ cancel \/ "write" \in Events
          /\ good' = FALSE /\ AfterPayload(t) /\ cancel' = TRUE /\ outcome' = "failed"
    /\ UNCHANGED <<role, released, busy, threadPidValid, listed, saved, holds,
                   refused, asked>>

\* burn_write_track_minsize() pads up a cancelled track, too.
PadBegin(t) ==
    /\ At(t, "pad") /\ Goes(t, "padReset")
    /\ saved' = cancel
    /\ UNCHANGED <<driveVars, listed, good, appVars>>

PadReset(t) ==
    /\ At(t, "padReset") /\ Goes(t, "padWrite")
    /\ cancel' = FALSE
    /\ UNCHANGED <<role, released, busy, threadPidValid, listed, saved, good, appVars>>

PadWrite(t) ==
    /\ At(t, "padWrite")
    /\ Goes(t, "padReset") \/ Goes(t, "padEnd")
    /\ \/ UNCHANGED <<cancel, outcome>>
       \/ "write" \in Events /\ cancel' = TRUE /\ outcome' = "failed"
    /\ UNCHANGED <<role, released, busy, threadPidValid, listed, saved, good, holds,
                   refused, asked>>

PadEnd(t) ==
    /\ At(t, "padEnd") /\ Goes(t, "close")
    /\ cancel' = saved
    /\ UNCHANGED <<role, released, busy, threadPidValid, listed, saved, good, appVars>>

\* Defect: the session gets closed with a clean slate.
CloseBeginDefect(t) ==
    /\ At(t, "close") /\ Goes(t, "closing")
    /\ busy' = "closing" /\ cancel' = FALSE
    /\ UNCHANGED <<role, released, threadPidValid, listed, saved, good, appVars>>

CloseBegin(t) ==
    /\ At(t, "close") /\ Goes(t, "closing")
    /\ busy' = "closing"
    /\ UNCHANGED <<role, released, cancel, threadPidValid, listed, saved, good, appVars>>

CloseEnd(t) ==
    /\ At(t, "closing") /\ Goes(t, IF good THEN "inquireWritten" ELSE "fail")
    /\ busy' = "writing"
    /\ \/ UNCHANGED <<cancel, outcome>>
       \/ "write" \in Events /\ cancel' = TRUE /\ outcome' = "failed"
    /\ UNCHANGED <<role, released, threadPidValid, listed, saved, good, holds,
                   refused, asked>>

WriteFails(t) ==
    /\ At(t, "fail") /\ Goes(t, "written")
    /\ cancel' = TRUE
    /\ UNCHANGED <<role, released, busy, threadPidValid, listed, saved, good, appVars>>

\* Defect: the thread stays marked as alive.
WriteEndDefect(t) ==
    /\ At(t, "written") /\ Goes(t, "removeWriter")
    /\ outcome' = IF outcome = "running" THEN "done" ELSE outcome
    /\ UNCHANGED <<driveVars, listed, saved, good, holds, refused, asked>>

WriteEnd(t) ==
    /\ At(t, "written") /\ Goes(t, "removeWriter")
    /\ threadPidValid' = FALSE
    /\ outcome' = IF outcome = "running" THEN "done" ELSE outcome
    /\ UNCHANGED <<role, released, busy, cancel, listed, saved, good, holds, refused, asked>>

\* Defect: the drive stays marked as busy.
WriteIdleDefect(t) ==
    /\ At(t, "tail") /\ Goes(t, "none")
    /\ UNCHANGED <<driveVars, listed, saved, good, appVars>>

\* The item ends before busy.
WriteIdle(t) ==
    /\ At(t, "tail") /\ Goes(t, "none")
    /\ busy' = "idle"
    /\ UNCHANGED <<role, released, cancel, threadPidValid, listed, saved, good, appVars>>

Worker(t) ==
    \/ EraseFile(t) \/ EraseBegin(t) \/ EraseBlank(t)
    \/ FormatBegin(t) \/ FormatUnit(t) \/ InquireMedia(t) \/ FormatZeros(t) \/ End(t)
    \/ WriteBegin(t) \/ WritePayload(t)
    \/ PadBegin(t) \/ PadReset(t) \/ PadWrite(t) \/ PadEnd(t)
    \/ CloseBegin(t) \/ CloseEnd(t) \/ WriteFails(t) \/ WriteEnd(t)
    \/ RemoveWorker(t) \/ WriteIdle(t)

DJNext == Application \/ \E t \in Threads : Worker(t)

\* Threads run.  Payload, zeros and padding are finite: a loop of which every
\* turn changes something comes to its end, too.
DJSpec ==
    /\ DJInit /\ [][DJNext]_djVars
    /\ \A t \in Threads :
         WF_djVars(Worker(t)) /\ SF_djVars(PadWrite(t) /\ Goes(t, "padEnd"))

-----------------------------------------------------------------------------
States == {"none", "truncate", "erase", "blank", "format", "formatUnit", "zeros",
           "inquire", "inquireFormat", "inquireWritten", "end", "remove",
           "write", "payload", "pad", "padReset", "padWrite", "padEnd", "close",
           "closing", "fail", "written", "removeWriter", "tail"}

DJTypeOK ==
    /\ role \in Roles
    /\ busy \in {"idle", "spawning", "erasing", "formatting", "writing", "closing"}
    /\ {released, cancel, threadPidValid, saved, good, holds, refused} \subseteq BOOLEAN
    /\ listed \subseteq Threads /\ pc \in [Threads -> States]
    /\ outcome \in {"none", "running", "failed", "done"}
    /\ asked \in {"no", "early", "writing"}

\* The workers that still have to do with the drive or with its medium.
Operating == {t \in Threads : pc[t] \notin {"none", "remove", "removeWriter", "tail"}}

\* When the application is told that nothing goes on and asks how it went.
JobOver == busy = "idle" /\ Operating = {} /\ ~refused /\ outcome \in {"failed", "done"}

\* BURN_DRIVE_IDLE, "The drive is not in an operation" (libburn.h): an
\* application that sees it may release the drive or start another job.  And
\* the variables stay within their types.
IdleMeansIdle == DJTypeOK /\ (busy = "idle" => Operating = {})

\* No two jobs ever operate the same drive, even if the application asks for
\* them without waiting.
OneJobPerDrive == \A t, u \in Operating : t = u

\* burn_drive_wrote_well() does not call a failed job a success ...
FailureIsReported == JobOver /\ outcome = "failed" => cancel

\* ... nor a success a failure, although many hands set the flag it reads.
SuccessIsReported == JobOver /\ outcome = "done" /\ asked = "no" => ~cancel

\* A burn_drive_cancel() while the drive was BURN_DRIVE_WRITING has the job
\* reported as no success.
CancelCounts == JobOver /\ asked = "writing" => cancel

\* A job that was refused is not reported as a success.
RefusalIsReported == busy = "idle" /\ refused => cancel

\* The application knows whether it has to release the drive.
GrabTellsTruth == ~holds => released

\* The abort handler of a signal takes only a live worker for the writer.
MarkedWriterIsListed == threadPidValid => listed # {}

\* A job that is about to start comes to its end, by success or failure.
JobBecomesIdle == busy = "spawning" ~> busy = "idle"
=============================================================================
