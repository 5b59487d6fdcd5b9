---------------------------- MODULE AbortHandler ----------------------------
(***************************************************************************)
(* What becomes of an external signal: libburn/cleanup.c catches it, the   *)
(* built-in handler of libburn/init.c decides what to do with the drives,  *)
(* and xorriso looks at burn_is_aborting() after each run.                 *)
(*                                                                         *)
(* Everything is about one MMC drive.  The handler runs on the thread that *)
(* takes the signal, between any two steps of that thread, while the other *)
(* threads go on.  The writer thread has all signals blocked.              *)
(***************************************************************************)
EXTENDS Naturals

CONSTANTS
    Takers,       \* threads that may take a signal, "control" or "generator"
    Behaviors     \* of -signal_handling: "on", "sig_dfl", "sig_ign"

ASSUME AbortAssumption ==
    Takers \subseteq {"control", "generator"} /\ Behaviors \subseteq {"on", "sig_dfl", "sig_ign"}

VARIABLES
    behavior,     \* Xorriso__get_signal_behavior()
    action,       \* burn_builtin_signal_action, 1 .. 3
    triggered,    \* burn_builtin_triggered_action, 0 is none
    disposition,  \* what the system does with a signal
    busy, cancel, released,   \* struct burn_drive
    forgotten,    \* its global_index is -1 and its parts are freed
    writer,       \* the thread of write_disc_worker_func()
    generator,    \* whether the image generator runs
    control,      \* where the control thread of xorriso is
    masked,       \* signal_action_mem of burn_drive_grab(), 0 for -1
    verdict,      \* what xorriso says of the last run
    at, waits,    \* by thread: its course through the handler and burn_abort()
    exited

signalVars == <<behavior, action, triggered, disposition>>
driveVars  == <<busy, cancel, released, forgotten>>
runVars    == <<writer, generator, masked, verdict>>
abortVars  == <<at, waits, exited>>
ahVars     == <<signalVars, driveVars, runVars, control, abortVars>>

Threads == {"control", "generator"}

\* Xorriso_set_signal_handling(0) for the given behavior.
Disposition(b) == CASE b = "on" -> "handler" [] b = "sig_dfl" -> "default"
                    [] b = "sig_ign" -> "ignore"

AHInit ==
    /\ behavior \in Behaviors /\ action = 1 /\ triggered = 0
    /\ disposition = Disposition(behavior)
    /\ busy = "idle" /\ cancel = FALSE /\ released = TRUE /\ forgotten = TRUE
    /\ writer = "none" /\ generator = FALSE /\ control = "home"
    /\ masked = 0 /\ verdict = "none"
    /\ at = [t \in Threads |-> "out"] /\ waits = [t \in Threads |-> FALSE]
    /\ exited = FALSE

-----------------------------------------------------------------------------
(* The handler, on thread t.                                               *)

Goes(t, there) == at' = [at EXCEPT ![t] = there]

\* An application thread runs while it is not kept in the handler.
Free(t) == at[t] = "out" /\ ~exited

Signal(t) ==
    /\ Free(t) /\ disposition = "handler" /\ (t = "generator" => generator)
    /\ triggered' = action /\ Goes(t, "caught")
    /\ UNCHANGED <<behavior, action, disposition, driveVars, runVars, control, waits,
                   exited>>

\* SIG_DFL
Killed ==
    /\ ~exited /\ disposition = "default"
    /\ exited' = TRUE
    /\ UNCHANGED <<signalVars, driveVars, runVars, control, at, waits>>

\* From here on signals are ignored.  Action 1 waits and exits, action 3 has
\* one look at the drive.
Caught(t) ==
    /\ at[t] = "caught" /\ ~exited
    /\ disposition' = "ignore"
    /\ waits' = [waits EXCEPT ![t] = action = 1] /\ Goes(t, "look")
    /\ UNCHANGED <<behavior, action, triggered, driveVars, runVars, control, exited>>

\* burn_drive_is_occupied()
Occupied ==
    IF forgotten THEN "forgotten"
    ELSE IF busy = "grabbing" THEN "cancelable"
    ELSE IF released \/ busy = "idle" THEN "unused"
    ELSE IF busy = "writing" THEN "cancelable"
    ELSE "uncancelable"

\* A round of burn_abort_5().
Look(t) ==
    /\ at[t] = "look" /\ ~exited
    /\ cancel' = (cancel \/ Occupied \in {"unused", "cancelable"})
    /\ Goes(t, IF Occupied = "unused" THEN "forget"
               ELSE IF Occupied # "forgotten" /\ waits[t] THEN "look" ELSE "leave")
    /\ UNCHANGED <<signalVars, busy, released, forgotten, runVars, control, waits, exited>>

\* burn_drive_forget(d, 1) refuses a drive that became busy meanwhile.
Forget(t) ==
    /\ at[t] = "forget" /\ ~exited
    /\ IF Occupied \in {"cancelable", "uncancelable", "forgotten"}
       THEN UNCHANGED driveVars
       ELSE busy' = "idle" /\ released' = TRUE /\ forgotten' = TRUE /\ UNCHANGED cancel
    /\ Goes(t, "leave")
    /\ UNCHANGED <<signalVars, runVars, control, waits, exited>>

\* The handler returns.  Or burn_finish() makes sure that no drive is in use,
\* frees them all, and the program exits.
Leave(t) ==
    /\ at[t] = "leave" /\ ~exited
    /\ IF ~waits[t] THEN Goes(t, "out") /\ UNCHANGED <<exited, released, forgotten>>
       ELSE IF ~forgotten /\ ~released
       THEN Goes(t, "look") /\ UNCHANGED <<exited, released, forgotten>>
       ELSE Goes(t, "out") /\ exited' = TRUE /\ released' = TRUE /\ forgotten' = TRUE
    /\ UNCHANGED <<signalVars, busy, cancel, runVars, control, waits>>

Handler(t) == Caught(t) \/ Look(t) \/ Forget(t) \/ Leave(t)

\* burn_abort() without signal: Xorriso_abort(), burn_abort_exit(1)
Abort ==
    /\ waits' = [waits EXCEPT !["control"] = TRUE] /\ Goes("control", "look")

-----------------------------------------------------------------------------
(* The control thread acquires a drive.                                    *)

Step(here, there) == Free("control") /\ control = here /\ control' = there

\* burn_drive_scan_sync() registers the drive anew, d->grab() opens it.
Scan ==
    /\ Step("home", "mask")
    /\ forgotten' = FALSE /\ busy' = "idle" /\ cancel' = FALSE /\ released' = FALSE
    /\ UNCHANGED <<signalVars, runVars, abortVars>>

\* burn_drive_re_assess()
ReAssess ==
    /\ Step("held", "mask")
    /\ busy = "idle" /\ ~forgotten
    /\ released' = TRUE
    /\ UNCHANGED <<signalVars, busy, cancel, forgotten, runVars, abortVars>>

\* Defect: the action of the handler stays as it is while the drive is grabbed.
MaskDefect ==
    /\ Step("mask", "grab")
    /\ UNCHANGED <<signalVars, driveVars, runVars, abortVars>>

\* burn_grab_prepare_sig_action()
Mask ==
    /\ Step("mask", "grab")
    /\ masked' = IF action <= 2 THEN action ELSE 0
    /\ action' = 3
    /\ UNCHANGED <<behavior, triggered, disposition, driveVars, writer, generator,
                   verdict, abortVars>>

BeginGrabbing ==
    /\ Step("grab", "inquire")
    /\ busy' = "grabbing"
    /\ UNCHANGED <<signalVars, cancel, released, forgotten, runVars, abortVars>>

\* Several commands, given up if the drive was cancelled or a signal caught.
EndGrabbing ==
    /\ Step("inquire", "unmask")
    /\ busy' = "idle"
    /\ UNCHANGED <<signalVars, cancel, released, forgotten, runVars, abortVars>>

\* burn_grab_restore_sig_action(), up to its test
Unmask ==
    /\ Step("unmask", "delayed")
    /\ action' = (IF masked > 0 THEN masked ELSE action)
    /\ UNCHANGED <<behavior, triggered, disposition, driveVars, runVars, abortVars>>

\* A signal that was caught meanwhile takes effect now.
DelayedAbort ==
    /\ Free("control") /\ control = "delayed" /\ triggered > 0 /\ masked > 0
    /\ Abort
    /\ UNCHANGED <<signalVars, driveVars, runVars, control, exited>>

\* The drive is grabbed, except that burn_drive_grab() fails by an old cancel.
Grabbed ==
    /\ Step("delayed", IF forgotten \/ (cancel /\ ~released) THEN "giveUp" ELSE "held")
    /\ ~(triggered > 0 /\ masked > 0)
    /\ masked' = 0 /\ released' = forgotten
    /\ UNCHANGED <<signalVars, busy, cancel, forgotten, writer, generator, verdict,
                   abortVars>>

\* Xorriso_give_up_drive(), by demand or after a failed acquisition
GiveUp ==
    /\ Step("held", "home") \/ Step("giveUp", "home")
    /\ busy' = "idle" /\ released' = TRUE /\ forgotten' = TRUE
    /\ UNCHANGED <<signalVars, cancel, runVars, abortVars>>

-----------------------------------------------------------------------------
(* The control thread performs a write run.                                *)

\* The generator thread starts before the signal handling is changed.
Prepare ==
    /\ Step("held", "arm")
    /\ generator' = TRUE
    /\ UNCHANGED <<signalVars, driveVars, writer, masked, verdict, abortVars>>

\* burn_set_signal_handling() with action 3, in the order of its assignments
Arm ==
    /\ Step("arm", "armed")
    /\ action' = (IF behavior = "sig_ign" THEN 1 ELSE 3)
    /\ UNCHANGED <<behavior, triggered, disposition, driveVars, runVars, abortVars>>

Armed ==
    /\ Step("armed", "precheck")
    /\ triggered' = (IF action > 1 THEN 0 ELSE triggered)
    /\ disposition' = (IF behavior = "sig_ign" THEN "ignore" ELSE "handler")
    /\ UNCHANGED <<behavior, action, driveVars, runVars, abortVars>>

\* burn_disc_write() refuses, for instance a drive whose mdata are freed.
Refused ==
    /\ Step("precheck", "poll")
    /\ cancel' = TRUE
    /\ UNCHANGED <<signalVars, busy, released, forgotten, runVars, abortVars>>

Precheck ==
    /\ Step("precheck", "launch")
    /\ ~forgotten
    /\ cancel' = FALSE
    /\ UNCHANGED <<signalVars, busy, released, forgotten, runVars, abortVars>>

\* add_worker()
Launch ==
    /\ Step("launch", "poll")
    /\ busy' = "spawning" /\ writer' = "init"
    /\ UNCHANGED <<signalVars, cancel, released, forgotten, generator, masked, verdict,
                   abortVars>>

\* Defect: the waiting is over when the drive begins to close the session.
PolledDefect ==
    /\ Step("poll", "check")
    /\ busy \in {"idle", "closing"} /\ at["generator"] = "out"
    /\ generator' = FALSE
    /\ UNCHANGED <<signalVars, driveVars, writer, masked, verdict, abortVars>>

\* Xorriso_pacifier_loop() waits for the drive, and then for the generator or
\* cancels it.
Polled ==
    /\ Step("poll", "check")
    /\ busy = "idle" /\ at["generator"] = "out"
    /\ generator' = FALSE
    /\ UNCHANGED <<signalVars, driveVars, writer, masked, verdict, abortVars>>

\* Xorriso_check_burn_abort(), with -abort_on in effect
CancelRun ==
    /\ Free("control") /\ control = "poll"
    /\ cancel' = TRUE
    /\ UNCHANGED <<signalVars, busy, released, forgotten, runVars, control, abortVars>>

CheckAborting ==
    /\ Free("control") /\ control = "check" /\ triggered > 0
    /\ Abort
    /\ UNCHANGED <<signalVars, driveVars, runVars, control, exited>>

CheckPassed ==
    /\ Step("check", "disarm") /\ triggered = 0
    /\ UNCHANGED <<signalVars, driveVars, runVars, abortVars>>

Disarm ==
    /\ Step("disarm", "disarmed")
    /\ action' = 1
    /\ UNCHANGED <<behavior, triggered, disposition, driveVars, runVars, abortVars>>

Disarmed ==
    /\ Step("disarmed", "report")
    /\ disposition' = Disposition(behavior)
    /\ UNCHANGED <<behavior, action, triggered, driveVars, runVars, abortVars>>

\* isoburn_drive_wrote_well()
Report ==
    /\ Step("report", "held")
    /\ verdict' = IF cancel THEN "failed" ELSE "done"
    /\ UNCHANGED <<signalVars, driveVars, writer, generator, masked, abortVars>>

Control ==
    \/ Mask \/ BeginGrabbing \/ EndGrabbing \/ Unmask \/ DelayedAbort \/ Grabbed
    \/ Arm \/ Armed \/ Refused \/ Precheck \/ Launch \/ Polled
    \/ CheckAborting \/ CheckPassed \/ Disarm \/ Disarmed \/ Report

\* What the user demands.
Command == Scan \/ ReAssess \/ GiveUp \/ Prepare \/ CancelRun

-----------------------------------------------------------------------------
(* The writer thread, whose signals are blocked.                           *)

Works(here, there) == ~exited /\ writer = here /\ writer' = there

WriteInit ==
    /\ Works("init", "write")
    /\ busy' = "writing" /\ cancel' = FALSE
    /\ UNCHANGED <<signalVars, released, forgotten, generator, masked, verdict, control,
                   abortVars>>

\* The payload comes to its end, or the job is cancelled, or the drive fails.
WriteEnds ==
    /\ \/ Works("write", "close") /\ ~cancel /\ busy' = "closing" /\ UNCHANGED cancel
       \/ Works("write", "tail") /\ cancel' = TRUE /\ UNCHANGED busy
    /\ UNCHANGED <<signalVars, released, forgotten, generator, masked, verdict, control,
                   abortVars>>

WriteCloses ==
    /\ Works("close", "tail")
    /\ cancel' \in {cancel, TRUE}
    /\ UNCHANGED <<signalVars, busy, released, forgotten, generator, masked, verdict,
                   control, abortVars>>

\* The end of write_disc_worker_func()
WriterEnds ==
    /\ Works("tail", "none")
    /\ busy' = "idle"
    /\ UNCHANGED <<signalVars, cancel, released, forgotten, generator, masked, verdict,
                   control, abortVars>>

Writer == WriteInit \/ WriteEnds \/ WriteCloses \/ WriterEnds

AHNext ==
    \/ Control \/ Command \/ Writer \/ Killed
    \/ \E t \in Takers : Signal(t)
    \/ \E t \in Threads : Handler(t)

\* The threads run, the handlers too.  Signals come or not, and nobody is
\* obliged to demand anything.
AHSpec ==
    /\ AHInit /\ [][AHNext]_ahVars
    /\ WF_ahVars(Control) /\ WF_ahVars(Writer)
    /\ \A t \in Threads : WF_ahVars(Handler(t))

-----------------------------------------------------------------------------
(* Properties.                                                             *)

\* Where the control thread stands when it is going to ask burn_is_aborting()
\* before anything resets what it answers.
Watched == {"grab", "inquire", "unmask", "delayed", "precheck", "launch", "poll", "check"}

\* The program never exits while the writer thread operates the drive, be the
\* exit by xorriso, by the handler, or by the system.
WriterIsAwaited == exited => writer = "none"

\* A signal ends the program: by the handler itself or by the next look at
\* burn_is_aborting(), in whatever state it finds drive and writer, and without
\* waiting for a drive that the interrupted thread itself keeps busy.
AbortEndsProgram ==
    triggered = 1 \/ (triggered > 0 /\ control \in Watched) ~> exited

\* libburn.h advises the handler with action 3 "at least during
\* burn_disc_write()".  Does a job ever run on a drive that the handler freed?
NoJobOnForgottenDrive == writer # "none" => ~forgotten

\* libburn.h: the application has "to detect a pending abort condition by calling
\* burn_is_aborting()".  Does each pending abort get detected?
AbortIsDetected == triggered > 0 ~> exited
=============================================================================
