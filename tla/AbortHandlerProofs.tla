------------------------- MODULE AbortHandlerProofs -------------------------
(***************************************************************************)
(* The program does not exit while the writer thread operates the drive,   *)
(* if signals are taken by the control thread only, as they are unless the *)
(* system chooses the generator thread (MCAbortBoth).                      *)
(*                                                                         *)
(* Three ways lead out of the program.  The system's own is closed while   *)
(* a run is under way, because Xorriso_set_signal_handling() is undone.    *)
(* The handler's waits for the drive only with action 1, which is not in   *)
(* force then either.  And the control thread looks for an abort request   *)
(* only before it starts the writer and after the drive is idle again,     *)
(* which is a fact about the writer as long as nobody else sets that mark: *)
(* burn_drive_forget() does it for a drive that is in no use.              *)
(***************************************************************************)
EXTENDS AbortHandler, TLAPS

\* Where the handler of the write run is installed.
InRun == {"precheck", "launch", "poll", "check", "disarm"}

\* Where the drive is in the hands of the control thread.
Holding == InRun \cup {"held", "arm", "armed", "disarmed", "report"}

\* The handler with action 3 or none at all.
RunIsGuarded ==
    /\ control = "armed" => (IF behavior = "sig_ign" THEN action = 1 ELSE action = 3)
    /\ control \in InRun =>
         disposition = "ignore" \/ (disposition = "handler" /\ action = 3)
    /\ at["control"] = "caught" => disposition = "handler"

\* The writer works while the control thread watches it, on a drive which
\* neither burn_drive_is_occupied() nor its busy mark call unused.
WriterIsWatched ==
    /\ writer # "none" => control = "poll" /\ busy # "idle"
    /\ control \in Holding => forgotten \/ ~released

\* Who waits in the handler will exit, and there is no writer to wait for.
WaitsWithoutWriter ==
    waits["control"] => writer = "none" /\ (at["control"] # "out" \/ exited)

AbortInv ==
    /\ at \in [Threads -> {"out", "caught", "look", "forget", "leave"}]
    /\ waits \in [Threads -> BOOLEAN]
    /\ at["generator"] = "out" /\ ~waits["generator"]
    /\ busy \in {"idle", "grabbing", "spawning", "writing", "closing"}
    /\ behavior \in {"on", "sig_dfl", "sig_ign"}
    /\ disposition \in {"handler", "default", "ignore"}
    /\ RunIsGuarded /\ WriterIsWatched /\ WaitsWithoutWriter /\ WriterIsAwaited

\* The handler is on no other thread than "control".
LEMMA HandlerKeeps ==
    ASSUME AbortInv, NEW t \in Threads, Handler(t)
    PROVE  AbortInv'
<1> USE DEF Threads
<1>1. t = "control" /\ ~exited
  BY DEF Handler, Caught, Look, Forget, Leave, AbortInv
<1>2. CASE Caught(t)
  BY <1>1, <1>2 DEF Caught, Goes, AbortInv, RunIsGuarded, WriterIsWatched,
     WaitsWithoutWriter, WriterIsAwaited, driveVars, runVars, InRun
<1>3. CASE Look(t)
  BY <1>1, <1>3 DEF Look, Goes, AbortInv, RunIsGuarded, WriterIsWatched,
     WaitsWithoutWriter, WriterIsAwaited, signalVars, runVars
<1>4. CASE Forget(t)
  <2>1. writer # "none" => UNCHANGED driveVars
    BY <1>4 DEF Forget, Occupied, AbortInv, WriterIsWatched, Holding, InRun
  <2>2. UNCHANGED driveVars \/ (busy' = "idle" /\ released' = TRUE /\ forgotten' = TRUE)
    BY <1>4 DEF Forget
  <2>3. at' = [at EXCEPT !["control"] = "leave"]
        /\ UNCHANGED <<signalVars, runVars, control, waits, exited>>
    BY <1>1, <1>4 DEF Forget, Goes
  <2> QED BY <1>1, <2>1, <2>2, <2>3 DEF AbortInv, RunIsGuarded, WriterIsWatched,
     WaitsWithoutWriter, WriterIsAwaited, driveVars, signalVars, runVars
<1>5. CASE Leave(t)
  BY <1>1, <1>5 DEF Leave, Goes, AbortInv, RunIsGuarded, WriterIsWatched,
     WaitsWithoutWriter, WriterIsAwaited, signalVars, runVars
<1> QED BY <1>2, <1>3, <1>4, <1>5 DEF Handler

\* The writer thread, which signals do not reach.
LEMMA WriterKeeps ==
    ASSUME AbortInv, Writer
    PROVE  AbortInv'
<1>1. writer # "none" /\ ~exited
  BY DEF Writer, WriteInit, WriteEnds, WriteCloses, WriterEnds, Works
<1>2. /\ UNCHANGED <<signalVars, released, forgotten, control, abortVars>>
      /\ busy' \in {busy, "writing", "closing"} \/ (busy' = "idle" /\ writer' = "none")
  BY DEF Writer, WriteInit, WriteEnds, WriteCloses, WriterEnds, Works
<1> QED BY <1>1, <1>2 DEF AbortInv, RunIsGuarded, WriterIsWatched, WaitsWithoutWriter,
     WriterIsAwaited, signalVars, abortVars, Threads

\* The control thread, while no handler keeps it.
LEMMA ControlKeeps ==
    ASSUME AbortInv, Control \/ Command
    PROVE  AbortInv'
<1> USE DEF Threads
<1>1. at["control"] = "out" /\ ~exited /\ ~waits["control"]
  BY DEF Control, Command, Mask, BeginGrabbing, EndGrabbing, Unmask, DelayedAbort, Grabbed,
     Arm, Armed, Refused, Precheck, Launch, Polled, CheckAborting, CheckPassed, Disarm,
     Disarmed, Report, Scan, ReAssess, GiveUp, Prepare, CancelRun, Step, Free, AbortInv,
     WaitsWithoutWriter
<1> USE DEF AbortInv, RunIsGuarded, WriterIsWatched, WaitsWithoutWriter, WriterIsAwaited,
     Step, Free, InRun, Holding, signalVars, driveVars, runVars, abortVars
<1>2. CASE Scan \/ ReAssess \/ GiveUp
  BY <1>1, <1>2 DEF Scan, ReAssess, GiveUp
<1>3. CASE Mask \/ BeginGrabbing \/ EndGrabbing \/ Unmask
  BY <1>1, <1>3 DEF Mask, BeginGrabbing, EndGrabbing, Unmask
<1>4. CASE DelayedAbort \/ CheckAborting
  <2>1. writer = "none" /\ at' = [at EXCEPT !["control"] = "look"]
        /\ waits' = [waits EXCEPT !["control"] = TRUE]
        /\ UNCHANGED <<signalVars, driveVars, runVars, control, exited>>
    BY <1>4 DEF DelayedAbort, CheckAborting, Abort, Goes
  <2> QED BY <2>1
<1>5. CASE Grabbed
  BY <1>1, <1>5 DEF Grabbed
<1>6. CASE Prepare \/ Arm
  BY <1>1, <1>6 DEF Prepare, Arm
<1>7. CASE Armed
  BY <1>1, <1>7 DEF Armed
<1>8. CASE Refused \/ Precheck \/ CancelRun
  BY <1>1, <1>8 DEF Refused, Precheck, CancelRun
<1>9. CASE Launch
  BY <1>1, <1>9 DEF Launch
<1>10. CASE Polled \/ CheckPassed
  BY <1>1, <1>10 DEF Polled, CheckPassed
<1>11. CASE Disarm
  BY <1>1, <1>11 DEF Disarm
<1>12. CASE Disarmed
  <2>1. Disposition(behavior) \in {"handler", "default", "ignore"}
    BY DEF Disposition
  <2> QED BY <1>1, <1>12, <2>1 DEF Disarmed
<1>13. CASE Report
  BY <1>1, <1>13 DEF Report
<1> QED BY <1>2, <1>3, <1>4, <1>5, <1>6, <1>7, <1>8, <1>9, <1>10, <1>11, <1>12, <1>13
        DEF Control, Command

LEMMA AbortNextInv ==
    ASSUME Takers \subseteq {"control"}, AbortInv, [AHNext]_ahVars
    PROVE  AbortInv'
<1> USE DEF Threads
<1>1. CASE Killed
  <2>1. writer = "none"
    BY <1>1 DEF Killed, AbortInv, WriterIsWatched, RunIsGuarded, InRun
  <2> QED BY <1>1, <2>1 DEF Killed, AbortInv, RunIsGuarded, WriterIsWatched,
     WaitsWithoutWriter, WriterIsAwaited, signalVars, driveVars, runVars
<1>2. ASSUME NEW t \in Takers, Signal(t) PROVE AbortInv'
  <2>1. t = "control"
    OBVIOUS
  <2> QED BY <1>2, <2>1 DEF Signal, Free, Goes, AbortInv, RunIsGuarded, WriterIsWatched,
     WaitsWithoutWriter, WriterIsAwaited, driveVars, runVars
<1>3. CASE UNCHANGED ahVars
  BY <1>3 DEF ahVars, signalVars, driveVars, runVars, abortVars, AbortInv, RunIsGuarded,
     WriterIsWatched, WaitsWithoutWriter, WriterIsAwaited
<1> QED BY <1>1, <1>2, <1>3, HandlerKeeps, WriterKeeps, ControlKeeps DEF AHNext

\* Wherever the signal comes, under each -signal_handling mode: the program
\* does not exit while the writer thread operates the drive, be the exit by
\* Xorriso_abort(), by the handler, or by the system.
THEOREM WriterAwaited ==
    ASSUME Takers \subseteq {"control"}
    PROVE  AHSpec => []WriterIsAwaited
<1>1. AHInit => AbortInv
  <2>1. SUFFICES ASSUME AHInit PROVE AbortInv
    OBVIOUS
  <2>2. behavior \in {"on", "sig_dfl", "sig_ign"}
        /\ disposition \in {"handler", "default", "ignore"}
    BY <2>1, AbortAssumption DEF AHInit, Disposition
  <2> QED BY <2>1, <2>2 DEF AHInit, AbortInv, RunIsGuarded, WriterIsWatched,
     WaitsWithoutWriter, WriterIsAwaited, Threads, InRun, Holding
<1>2. AbortInv /\ [AHNext]_ahVars => AbortInv'
  BY AbortNextInv
<1>3. AbortInv => WriterIsAwaited
  BY DEF AbortInv
<1> QED BY <1>1, <1>2, <1>3, PTL DEF AHSpec
=============================================================================
