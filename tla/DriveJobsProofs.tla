--------------------------- MODULE DriveJobsProofs ---------------------------
(***************************************************************************)
(* Proofs about the jobs of a drive: whatever the application asks for,    *)
(* and whatever mishaps occur, at most one worker operates the drive.      *)
(*                                                                         *)
(* The list of workers is what excludes a second job, not the drive's busy *)
(* mark.  The inductive invariant therefore says that a worker is listed   *)
(* from its creation up to its remove_worker() and that the list never     *)
(* holds more than one; the mark for the abort handler of a signal is set  *)
(* only within that span.                                                  *)
(***************************************************************************)
EXTENDS DriveJobs, TLAPS

\* Where a worker is when the drive is marked as having a writer thread.
Marking == {"payload", "pad", "padReset", "padWrite", "padEnd", "close",
            "closing", "inquireWritten", "fail", "written"}

WorkersKnown == pc \in [Threads -> States]
ListIsExact  == listed = {t \in Threads : pc[t] \notin {"none", "tail"}}
ListIsShort  == \A t, u \in listed : t = u
MarkIsOwned  == threadPidValid => \E t \in Threads : pc[t] \in Marking

DJInv == WorkersKnown /\ ListIsExact /\ ListIsShort /\ MarkIsOwned

-----------------------------------------------------------------------------
\* The initial state has neither workers nor the mark of one.
LEMMA InitEstablishes == DJInit => DJInv
  BY DEF DJInit, DJInv, WorkersKnown, ListIsExact, ListIsShort, MarkIsOwned, States

\* A new worker is put into a list that was found to have none.
LEMMA AddWorkerPreserves ==
  ASSUME DJInv, NEW start \in {"truncate", "erase", "format", "write"},
         AddWorker(start)
  PROVE  DJInv'
<1>1. CASE UNCHANGED <<pc, listed>>
  BY <1>1 DEF AddWorker, DJInv, WorkersKnown, ListIsExact, ListIsShort, MarkIsOwned
<1>2. CASE \E t \in Threads :
             pc[t] = "none" /\ pc' = [pc EXCEPT ![t] = start] /\ listed' = {t}
  <2>1. PICK t \in Threads :
          pc[t] = "none" /\ pc' = [pc EXCEPT ![t] = start] /\ listed' = {t}
    BY <1>2
  <2>2. \A u \in Threads : pc[u] \in {"none", "tail"}
    BY DEF AddWorker, FindWorker, DJInv, ListIsExact
  <2>3. ~threadPidValid
    BY <2>2 DEF DJInv, MarkIsOwned, Marking
  <2>4. ~threadPidValid'
    BY <2>3 DEF AddWorker
  <2>5. WorkersKnown'
    BY <2>1 DEF DJInv, WorkersKnown, States
  <2>6. ListIsExact'
    BY <2>1, <2>2 DEF DJInv, WorkersKnown, ListIsExact
  <2>7. ListIsShort'
    BY <2>1 DEF ListIsShort
  <2> QED
    BY <2>4, <2>5, <2>6, <2>7 DEF DJInv, MarkIsOwned
<1> QED
  BY <1>1, <1>2 DEF AddWorker

\* The application starts workers only by add_worker().
LEMMA ApplicationPreserves ==
  ASSUME DJInv, Application
  PROVE  DJInv'
<1>1. CASE UNCHANGED <<pc, listed, threadPidValid>>
  BY <1>1 DEF DJInv, WorkersKnown, ListIsExact, ListIsShort, MarkIsOwned
<1>2. CASE \E start \in {"truncate", "erase", "format", "write"} : AddWorker(start)
  BY <1>2, AddWorkerPreserves
<1>3. Grab \/ Release \/ ReAssess \/ DriveCancel
        => UNCHANGED <<pc, listed, threadPidValid>>
  BY DEF Grab, Release, ReAssess, DriveCancel, jobVars
<1>4. RefuseAsBusy \/ RejectAsUnsuitable => UNCHANGED <<pc, listed, threadPidValid>>
  BY DEF RefuseAsBusy, RejectAsUnsuitable, jobVars, driveVars
<1>5. BurnDiscErase \/ BurnDiscFormat \/ BurnDiscWrite
        => \/ RefuseAsBusy \/ RejectAsUnsuitable
           \/ \E start \in {"truncate", "erase", "format", "write"} : AddWorker(start)
  BY DEF BurnDiscErase, BurnDiscFormat, BurnDiscWrite
<1> QED
  BY <1>1, <1>2, <1>3, <1>4, <1>5 DEF Application

-----------------------------------------------------------------------------
\* A worker that goes on within its job, and neither sets nor revokes the mark
\* nor leaves the span of it.
LEMMA JobGoesOn ==
  ASSUME DJInv, NEW t \in Threads, NEW there \in States \ {"none", "tail"},
         pc[t] \notin {"none", "tail"}, Goes(t, there), listed' = listed,
         threadPidValid' => \/ threadPidValid /\ (pc[t] \in Marking => there \in Marking)
                            \/ there \in Marking
  PROVE  DJInv'
<1>1. WorkersKnown'
  BY DEF DJInv, WorkersKnown, Goes
<1>2. ListIsExact'
  BY DEF DJInv, WorkersKnown, ListIsExact, Goes
<1>3. ListIsShort'
  BY DEF DJInv, ListIsShort
<1>4. MarkIsOwned'
  <2>1. CASE ~threadPidValid'
    BY <2>1 DEF MarkIsOwned
  <2>2. CASE there \in Marking
    <3>1. pc'[t] \in Marking
      BY <2>2 DEF DJInv, WorkersKnown, Goes
    <3> QED
      BY <3>1 DEF MarkIsOwned
  <2>3. CASE threadPidValid /\ (pc[t] \in Marking => there \in Marking)
    <3>1. PICK u \in Threads : pc[u] \in Marking
      BY <2>3 DEF DJInv, MarkIsOwned
    <3>2. pc'[u] \in Marking
      BY <2>3, <3>1 DEF DJInv, WorkersKnown, Goes
    <3> QED
      BY <3>2 DEF MarkIsOwned
  <2> QED
    BY <2>1, <2>2, <2>3
<1> QED
  BY <1>1, <1>2, <1>3, <1>4 DEF DJInv

\* Erasing and formatting.
LEMMA EraserPreserves ==
  ASSUME DJInv, NEW t \in Threads,
         \/ EraseFile(t) \/ EraseBegin(t) \/ EraseBlank(t)
         \/ FormatBegin(t) \/ FormatUnit(t) \/ InquireMedia(t) \/ FormatZeros(t)
         \/ End(t)
  PROVE  DJInv'
<1>1. PICK there \in States \ {"none", "tail"} :
        Goes(t, there) /\ (pc[t] \in Marking => there \in Marking)
  BY DEF EraseFile, EraseBegin, EraseBlank, FormatBegin, FormatUnit, InquireMedia,
         FormatZeros, End, At, States, Marking
<1>2. listed' = listed /\ threadPidValid' = threadPidValid
  BY DEF EraseFile, EraseBegin, EraseBlank, FormatBegin, FormatUnit, InquireMedia,
         FormatZeros, End
<1>3. pc[t] \notin {"none", "tail"}
  BY DEF EraseFile, EraseBegin, EraseBlank, FormatBegin, FormatUnit, InquireMedia,
         FormatZeros, End, At
<1> QED
  BY <1>1, <1>2, <1>3, JobGoesOn

\* Writing, up to the moment when the mark is revoked.
LEMMA WriterPreserves ==
  ASSUME DJInv, NEW t \in Threads,
         \/ WriteBegin(t) \/ WritePayload(t)
         \/ PadBegin(t) \/ PadReset(t) \/ PadWrite(t) \/ PadEnd(t)
         \/ CloseBegin(t) \/ CloseEnd(t) \/ WriteFails(t)
  PROVE  DJInv'
<1>1. PICK there \in States \ {"none", "tail"} : Goes(t, there) /\ there \in Marking
  <2>1. CASE WritePayload(t)
    <3>1. pc' = pc => Goes(t, "payload")
      BY <2>1 DEF WritePayload, At, Goes, DJInv, WorkersKnown
    <3>2. pc' = pc \/ AfterPayload(t)
      BY <2>1 DEF WritePayload
    <3>3. AfterPayload(t)
            => Goes(t, "written") \/ Goes(t, "fail") \/ Goes(t, "close") \/ Goes(t, "pad")
      BY DEF AfterPayload
    <3> QED
      BY <3>1, <3>2, <3>3 DEF Marking, States
  <2>2. CASE WriteBegin(t) \/ PadBegin(t) \/ PadReset(t) \/ PadWrite(t) \/ PadEnd(t)
    BY <2>2 DEF WriteBegin, PadBegin, PadReset, PadWrite, PadEnd, Marking, States
  <2>3. CASE CloseBegin(t) \/ CloseEnd(t) \/ WriteFails(t)
    BY <2>3 DEF CloseBegin, CloseEnd, WriteFails, Marking, States
  <2> QED
    BY <2>1, <2>2, <2>3
<1>2. listed' = listed
  BY DEF WriteBegin, WritePayload, PadBegin, PadReset, PadWrite, PadEnd,
         CloseBegin, CloseEnd, WriteFails
<1>3. pc[t] \notin {"none", "tail"}
  BY DEF WriteBegin, WritePayload, PadBegin, PadReset, PadWrite, PadEnd,
         CloseBegin, CloseEnd, WriteFails, At
<1> QED
  BY <1>1, <1>2, <1>3, JobGoesOn

\* The mark is revoked before the item of the worker goes.
LEMMA WriteEndPreserves ==
  ASSUME DJInv, NEW t \in Threads, WriteEnd(t)
  PROVE  DJInv'
<1>1. Goes(t, "removeWriter") /\ ~threadPidValid' /\ listed' = listed
  BY DEF WriteEnd
<1>2. pc[t] \notin {"none", "tail"}
  BY DEF WriteEnd, At
<1>3. "removeWriter" \in States \ {"none", "tail"}
  BY DEF States
<1> QED
  BY <1>1, <1>2, <1>3, JobGoesOn

\* A worker that takes its item out of the list was its only entry, and no
\* writer is marked any more.
LEMMA RemoveWorkerPreserves ==
  ASSUME DJInv, NEW t \in Threads, RemoveWorker(t)
  PROVE  DJInv'
<1>1. /\ pc[t] \in {"remove", "removeWriter"}
      /\ Goes(t, "none") \/ Goes(t, "tail")
      /\ listed' = listed \ {t} /\ threadPidValid' = threadPidValid
  BY DEF RemoveWorker, At, driveVars
<1>2. WorkersKnown'
  BY <1>1 DEF DJInv, WorkersKnown, Goes, States
<1>3. ListIsExact'
  BY <1>1 DEF DJInv, WorkersKnown, ListIsExact, Goes
<1>4. ListIsShort'
  BY <1>1 DEF DJInv, ListIsShort
<1>5. \A u \in Threads : u # t => pc[u] \in {"none", "tail"}
  BY <1>1 DEF DJInv, ListIsExact, ListIsShort
<1>6. ~threadPidValid
  BY <1>1, <1>5 DEF DJInv, MarkIsOwned, Marking
<1> QED
  BY <1>1, <1>2, <1>3, <1>4, <1>6 DEF DJInv, MarkIsOwned

\* A write job is out of the list when it marks the drive as idle.
LEMMA WriteIdlePreserves ==
  ASSUME DJInv, NEW t \in Threads, WriteIdle(t)
  PROVE  DJInv'
<1>1. /\ pc[t] = "tail" /\ pc' = [pc EXCEPT ![t] = "none"]
      /\ listed' = listed /\ threadPidValid' = threadPidValid
  BY DEF WriteIdle, At, Goes
<1>2. WorkersKnown' /\ ListIsExact' /\ ListIsShort'
  BY <1>1 DEF DJInv, WorkersKnown, ListIsExact, ListIsShort, States
<1>3. MarkIsOwned'
  BY <1>1 DEF DJInv, WorkersKnown, MarkIsOwned, Marking
<1> QED
  BY <1>2, <1>3 DEF DJInv

LEMMA NextPreserves == DJInv /\ [DJNext]_djVars => DJInv'
<1> SUFFICES ASSUME DJInv, [DJNext]_djVars PROVE DJInv'
  OBVIOUS
<1>1. CASE Application
  BY <1>1, ApplicationPreserves
<1>2. CASE \E t \in Threads : Worker(t)
  <2>1. PICK t \in Threads : Worker(t)
    BY <1>2
  <2> QED
    BY <2>1, EraserPreserves, WriterPreserves, WriteEndPreserves,
       RemoveWorkerPreserves, WriteIdlePreserves DEF Worker
<1>3. CASE UNCHANGED djVars
  BY <1>3 DEF djVars, driveVars, jobVars, DJInv, WorkersKnown, ListIsExact,
              ListIsShort, MarkIsOwned
<1> QED
  BY <1>1, <1>2, <1>3 DEF DJNext

\* The bookkeeping of the list is exact in every state, for any number of
\* threads, any drive and any mishaps.
THEOREM ListInvariance == DJSpec => []DJInv
  BY InitEstablishes, NextPreserves, PTL DEF DJSpec

-----------------------------------------------------------------------------
\* No two jobs operate the same drive, even if the application does not wait
\* for the end of the first one: find_worker() is what keeps them apart.
THEOREM JobsExclude == DJSpec => []OneJobPerDrive
<1>1. DJInv => OneJobPerDrive
  BY DEF DJInv, ListIsExact, ListIsShort, OneJobPerDrive, Operating
<1> QED
  BY <1>1, ListInvariance, PTL

\* A drive that is marked for the abort handler has its worker in the list.
THEOREM MarkImpliesListed == DJSpec => []MarkedWriterIsListed
<1>1. DJInv => MarkedWriterIsListed
  BY DEF DJInv, ListIsExact, MarkIsOwned, Marking, MarkedWriterIsListed
<1> QED
  BY <1>1, ListInvariance, PTL

-----------------------------------------------------------------------------
(* What the application learns of a job.  One that waits for               *)
(* BURN_DRIVE_IDLE before it asks for anything but a cancellation may rely *)
(* on that mark, and on burn_drive_wrote_well() afterwards.  This needs    *)
(* two assumptions about mishaps, and the program needs them, too: a       *)
(* refused READ DISC INFORMATION marks the drive as idle in the midst of a *)
(* job, and a refused BLANK and the padding of a short track lose the      *)
(* failure.  That burn_drive_wrote_well() does not call a success a        *)
(* failure holds without them, and for an impatient application, too.      *)

\* The worker has not yet taken up the job.
Starts  == {"truncate", "erase", "format", "write"}
\* The worker is about to leave, or there is none.
Leaves  == {"none", "remove"}
Padding == {"pad", "padReset", "padWrite", "padEnd"}

NoTwo     == \A t, u \in Threads : pc[t] # "none" /\ pc[u] # "none" => t = u
JobIsBusy == \A t \in Threads : pc[t] \notin Leaves => busy # "idle"

IdleInv == DJTypeOK /\ DJInv /\ NoTwo /\ JobIsBusy

StartIsFresh == \A t \in Threads :
    pc[t] \in Starts => busy = "spawning" /\ outcome = "running" /\ asked # "writing"
NoPadding    == \A t \in Threads : pc[t] \notin Padding
\* A job that failed without setting the flag leaves the drive busy for ever.
Stuck        == busy # "idle" /\ \A t \in Threads : pc[t] \in Leaves
FailureKept  == outcome = "failed" => cancel \/ Stuck
RequestKept  == asked = "writing" => cancel

OutcomeInv == IdleInv /\ StartIsFresh /\ NoPadding /\ FailureKept /\ RequestKept

\* The mishaps under which the marks tell the truth.
DiscInfoWorks    == Patient /\ "discinfo" \notin Events
FailuresAreNoted == DiscInfoWorks /\ Events \cap {"blank", "pad"} = {}

-----------------------------------------------------------------------------
\* Every variable stays within its type, whatever the application does and
\* whatever mishaps occur.
LEMMA TypePreserved ==
  ASSUME DJTypeOK, DJNext
  PROVE  DJTypeOK'
<1> USE DEF DJTypeOK
<1>1. CASE Grab \/ Release \/ ReAssess \/ DriveCancel
  BY <1>1 DEF Grab, Release, ReAssess, DriveCancel, driveVars, jobVars, appVars
<1>2. CASE RefuseAsBusy \/ RejectAsUnsuitable
  BY <1>2 DEF RefuseAsBusy, RejectAsUnsuitable, driveVars, jobVars, appVars
<1>3. ASSUME NEW start \in Starts, AddWorker(start), cancel' \in BOOLEAN
      PROVE  DJTypeOK'
  <2>1. pc' \in [Threads -> States] /\ listed' \subseteq Threads
    BY <1>3 DEF AddWorker, Starts, States
  <2> QED
    BY <1>3, <2>1 DEF AddWorker
<1>4. CASE BurnDiscErase \/ BurnDiscFormat \/ BurnDiscWrite
  <2>1. \/ RefuseAsBusy \/ RejectAsUnsuitable
        \/ \E start \in Starts : AddWorker(start) /\ cancel' \in BOOLEAN
    BY <1>4 DEF BurnDiscErase, BurnDiscFormat, BurnDiscWrite, Starts
  <2> QED
    BY <1>2, <1>3, <2>1
<1>5. ASSUME NEW t \in Threads, Worker(t)
      PROVE  DJTypeOK'
  <2> USE DEF At, Goes, States
  <2>1. CASE EraseFile(t) \/ EraseBegin(t) \/ EraseBlank(t)
    BY <2>1 DEF EraseFile, EraseBegin, EraseBlank, appVars
  <2>2. CASE FormatBegin(t) \/ FormatUnit(t) \/ FormatZeros(t)
    BY <2>2 DEF FormatBegin, FormatUnit, FormatZeros, appVars
  <2>3. CASE InquireMedia(t) \/ End(t)
    BY <2>3 DEF InquireMedia, End, appVars
  <2>4. CASE WriteBegin(t) \/ WriteEnd(t) \/ WriteIdle(t) \/ WriteFails(t)
    BY <2>4 DEF WriteBegin, WriteEnd, WriteIdle, WriteFails, appVars
  <2>5. CASE WritePayload(t)
    BY <2>5 DEF WritePayload, AfterPayload
  <2>6. CASE PadBegin(t) \/ PadReset(t) \/ PadWrite(t) \/ PadEnd(t)
    BY <2>6 DEF PadBegin, PadReset, PadWrite, PadEnd, appVars, driveVars
  <2>7. CASE CloseBegin(t) \/ CloseEnd(t)
    BY <2>7 DEF CloseBegin, CloseEnd, appVars
  <2>8. CASE RemoveWorker(t)
    BY <2>8 DEF RemoveWorker, appVars, driveVars
  <2> QED
    BY <1>5, <2>1, <2>2, <2>3, <2>4, <2>5, <2>6, <2>7, <2>8 DEF Worker
<1> QED
  BY <1>1, <1>4, <1>5 DEF DJNext, Application

-----------------------------------------------------------------------------
\* A drive that is marked as idle and has no listed worker has no worker at
\* all: the one that is through with everything but its last step of a write
\* job still holds the mark.
LEMMA IdleMeansNone ==
  ASSUME DJInv, JobIsBusy, busy = "idle", ~FindWorker, NEW t \in Threads
  PROVE  pc[t] = "none"
  BY DEF DJInv, ListIsExact, JobIsBusy, FindWorker, Leaves

\* A patient application adds a worker only where there is none.
LEMMA AddWorkerKeepsMarks ==
  ASSUME IdleInv, busy = "idle", NEW start \in Starts, AddWorker(start)
  PROVE  NoTwo' /\ JobIsBusy'
<1>1. \A t \in Threads : pc[t] = "none"
  BY IdleMeansNone DEF IdleInv, AddWorker
<1>2. busy' # "idle"
  BY DEF AddWorker
<1>3. NoTwo'
  <2>1. CASE UNCHANGED pc
    BY <1>1, <2>1 DEF NoTwo
  <2>2. CASE \E t \in Threads : pc' = [pc EXCEPT ![t] = start]
    BY <1>1, <2>2 DEF NoTwo, IdleInv, DJTypeOK
  <2> QED
    BY <2>1, <2>2 DEF AddWorker
<1> QED
  BY <1>2, <1>3 DEF JobIsBusy

\* The other calls of a patient application do not unmark a busy drive.
LEMMA ApplicationKeepsMarks ==
  ASSUME IdleInv, Patient, Application
  PROVE  NoTwo' /\ JobIsBusy'
<1>1. CASE pc' = pc /\ busy' = busy
  BY <1>1 DEF IdleInv, NoTwo, JobIsBusy
<1>2. CASE pc' = pc /\ busy = "idle" /\ busy' = "idle"
  BY <1>1, <1>2 DEF IdleInv, NoTwo, JobIsBusy
<1>3. CASE busy = "idle" /\ \E start \in Starts : AddWorker(start)
  BY <1>3, AddWorkerKeepsMarks
<1>4. Release \/ DriveCancel \/ RefuseAsBusy \/ RejectAsUnsuitable
        => pc' = pc /\ busy' = busy
  BY DEF Release, DriveCancel, RefuseAsBusy, RejectAsUnsuitable, jobVars, driveVars
<1>5. Grab \/ ReAssess => pc' = pc /\ busy = "idle" /\ busy' = "idle"
  BY DEF Grab, ReAssess, MayCall, jobVars
<1>6. BurnDiscErase \/ BurnDiscFormat \/ BurnDiscWrite
        => \/ RefuseAsBusy \/ RejectAsUnsuitable
           \/ busy = "idle" /\ \E start \in Starts : AddWorker(start)
  BY DEF BurnDiscErase, BurnDiscFormat, BurnDiscWrite, MayCall, Starts
<1> QED
  BY <1>1, <1>2, <1>3, <1>4, <1>5, <1>6 DEF Application

\* A worker that goes on leaves the mark set, or is about to leave.
LEMMA WorkerGoesOn ==
  ASSUME IdleInv, NEW t \in Threads, pc[t] # "none", NEW there \in States,
         Goes(t, there), busy' = "idle" => there \in Leaves \/ busy = "idle",
         there \notin Leaves => pc[t] \notin Leaves
  PROVE  NoTwo' /\ JobIsBusy'
<1>1. \A u \in Threads : u # t => pc[u] = "none" /\ pc'[u] = "none"
  BY DEF IdleInv, NoTwo, DJTypeOK, Goes
<1>2. pc'[t] = there
  BY DEF IdleInv, DJTypeOK, Goes
<1>3. pc[t] \notin Leaves => busy # "idle"
  BY DEF IdleInv, JobIsBusy
<1> QED
  BY <1>1, <1>2, <1>3 DEF NoTwo, JobIsBusy, Leaves

LEMMA WorkerKeepsMarks ==
  ASSUME IdleInv, "discinfo" \notin Events, NEW t \in Threads, Worker(t)
  PROVE  NoTwo' /\ JobIsBusy'
<1> USE DEF At, States, Leaves
<1> DEFINE GoesOn == \E there \in States :
             /\ Goes(t, there) /\ pc[t] # "none"
             /\ busy' = "idle" => there \in Leaves \/ busy = "idle"
             /\ there \notin Leaves => pc[t] \notin Leaves
<1>1. EraseFile(t) \/ EraseBegin(t) \/ EraseBlank(t) => GoesOn
  BY DEF EraseFile, EraseBegin, EraseBlank
<1>2. FormatBegin(t) \/ FormatUnit(t) => GoesOn
  BY DEF FormatBegin, FormatUnit
<1>3. InquireMedia(t) => GoesOn
  BY DEF InquireMedia
<1>4. FormatZeros(t) \/ End(t) => GoesOn
  BY DEF FormatZeros, End
<1>5. WriteBegin(t) \/ WriteEnd(t) \/ WriteIdle(t) \/ WriteFails(t) => GoesOn
  BY DEF WriteBegin, WriteEnd, WriteIdle, WriteFails
<1>6. WritePayload(t) => GoesOn
  <2> SUFFICES ASSUME WritePayload(t) PROVE GoesOn
    OBVIOUS
  <2>1. pc[t] = "payload" /\ busy' = busy
    BY DEF WritePayload
  <2>2. CASE pc' = pc
    <3>1. Goes(t, "payload")
      BY <2>1, <2>2 DEF Goes, IdleInv, DJTypeOK
    <3> QED
      BY <2>1, <3>1
  <2>3. CASE AfterPayload(t)
    <3>1. Goes(t, "written") \/ Goes(t, "fail") \/ Goes(t, "close") \/ Goes(t, "pad")
      BY <2>3 DEF AfterPayload
    <3> QED
      BY <2>1, <3>1
  <2> QED
    BY <2>2, <2>3 DEF WritePayload
<1>7. PadBegin(t) \/ PadReset(t) \/ PadWrite(t) \/ PadEnd(t) => GoesOn
  BY DEF PadBegin, PadReset, PadWrite, PadEnd, driveVars
<1>8. CloseBegin(t) \/ CloseEnd(t) => GoesOn
  BY DEF CloseBegin, CloseEnd
<1>9. RemoveWorker(t) => GoesOn
  BY DEF RemoveWorker, driveVars
<1>10. GoesOn
  BY <1>1, <1>2, <1>3, <1>4, <1>5, <1>6, <1>7, <1>8, <1>9 DEF Worker
<1> QED
  BY <1>10, WorkerGoesOn

LEMMA InitIdle == DJInit => IdleInv
<1>1. DJInit => DJTypeOK
  BY DriveAssumption DEF DJInit, DJTypeOK, States
<1>2. DJInit => NoTwo /\ JobIsBusy
  BY DEF DJInit, NoTwo, JobIsBusy, Leaves
<1> QED
  BY <1>1, <1>2, InitEstablishes DEF IdleInv

LEMMA NextKeepsIdle ==
  ASSUME DiscInfoWorks
  PROVE  IdleInv /\ [DJNext]_djVars => IdleInv'
<1> SUFFICES ASSUME IdleInv, [DJNext]_djVars PROVE IdleInv'
  OBVIOUS
<1>1. DJInv'
  BY NextPreserves DEF IdleInv
<1>2. CASE DJNext
  <2>1. DJTypeOK'
    BY <1>2, TypePreserved DEF IdleInv
  <2>2. NoTwo' /\ JobIsBusy'
    BY <1>2, ApplicationKeepsMarks, WorkerKeepsMarks DEF DJNext, DiscInfoWorks
  <2> QED
    BY <1>1, <2>1, <2>2 DEF IdleInv
<1>3. CASE UNCHANGED djVars
  BY <1>1, <1>3 DEF djVars, driveVars, jobVars, appVars, IdleInv, DJTypeOK, NoTwo,
                    JobIsBusy
<1> QED
  BY <1>2, <1>3

\* At most one worker exists, and only one that is through with the drive may
\* exist while the drive is marked as idle.
THEOREM IdleInvariance ==
  ASSUME DiscInfoWorks
  PROVE  DJSpec => []IdleInv
<1>1. IdleInv /\ [DJNext]_djVars => IdleInv'
  BY NextKeepsIdle
<1> QED
  BY <1>1, InitIdle, PTL DEF DJSpec

\* BURN_DRIVE_IDLE tells a patient application that no job has to do with the
\* drive any more, for any number of threads.
THEOREM PatienceIsRewarded ==
  ASSUME DiscInfoWorks
  PROVE  DJSpec => []IdleMeansIdle
<1>1. IdleInv => IdleMeansIdle
  BY DEF IdleInv, JobIsBusy, IdleMeansIdle, Operating, Leaves
<1> QED
  BY <1>1, IdleInvariance, PTL

-----------------------------------------------------------------------------
Outcome == StartIsFresh /\ NoPadding /\ FailureKept /\ RequestKept

\* The calls that ask for a job set the flag, or reset it together with what
\* is known about the job before.
LEMMA ApplicationKeepsOutcome ==
  ASSUME OutcomeInv, FailuresAreNoted, Application
  PROVE  Outcome'
<1> USE DEF OutcomeInv, Outcome
<1>1. CASE Grab \/ Release \/ ReAssess
  <2>1. UNCHANGED <<pc, cancel, outcome, asked>> /\ busy = "idle"
    BY <1>1 DEF Grab, Release, ReAssess, MayCall, jobVars, appVars,
                FailuresAreNoted, DiscInfoWorks
  <2>2. \A t \in Threads : pc[t] \notin Starts
    BY <2>1 DEF IdleInv, JobIsBusy, Starts, Leaves
  <2> QED
    BY <2>1, <2>2 DEF StartIsFresh, NoPadding, FailureKept, RequestKept, Stuck
<1>2. CASE DriveCancel
  <2>1. /\ pc' = pc /\ busy' = busy /\ outcome' = outcome /\ cancel'
        /\ asked' = "writing" => asked = "writing" \/ busy = "writing"
    BY <1>2 DEF DriveCancel, jobVars
  <2> QED
    BY <2>1 DEF StartIsFresh, NoPadding, FailureKept, RequestKept
<1>3. CASE RefuseAsBusy \/ RejectAsUnsuitable
  BY <1>3 DEF RefuseAsBusy, RejectAsUnsuitable, driveVars, jobVars,
              StartIsFresh, NoPadding, FailureKept, RequestKept, Stuck
<1>4. ASSUME busy = "idle", NEW start \in Starts, AddWorker(start)
      PROVE  Outcome'
  <2>1. \A t \in Threads : pc[t] = "none"
    BY <1>4, IdleMeansNone DEF AddWorker, IdleInv
  <2>2. busy' = "spawning" /\ asked' = "no"
    BY <1>4 DEF AddWorker
  <2>3. CASE pc' = pc
    BY <2>1, <2>2, <2>3 DEF StartIsFresh, NoPadding, FailureKept, RequestKept,
                            Stuck, Starts, Padding, Leaves
  <2>4. CASE outcome' = "running" /\ \E t \in Threads : pc' = [pc EXCEPT ![t] = start]
    <3>1. NoPadding'
      BY <2>1, <2>4 DEF NoPadding, Starts, Padding, IdleInv, DJTypeOK
    <3> QED
      BY <2>2, <2>4, <3>1 DEF StartIsFresh, FailureKept, RequestKept
  <2> QED
    BY <1>4, <2>3, <2>4 DEF AddWorker
<1>5. BurnDiscErase \/ BurnDiscFormat \/ BurnDiscWrite
        => \/ RefuseAsBusy \/ RejectAsUnsuitable
           \/ busy = "idle" /\ \E start \in Starts : AddWorker(start)
  BY DEF BurnDiscErase, BurnDiscFormat, BurnDiscWrite, Starts, MayCall,
         FailuresAreNoted, DiscInfoWorks
<1> QED
  BY <1>1, <1>2, <1>3, <1>4, <1>5 DEF Application

\* The one worker goes on: failure and request stay in the flag, or the worker
\* only now takes up a job that was neither cancelled nor has failed, or it
\* leaves and lets the drive be marked as busy.
LEMMA OneGoesOn ==
  ASSUME OutcomeInv, NEW t \in Threads, pc[t] # "none",
         NEW there \in States \ (Starts \cup Padding), Goes(t, there),
         asked' = asked,
         \/ outcome' = "failed" => cancel'
         \/ pc[t] \in Starts /\ outcome' \in {outcome, "done"}
         \/ there \in Leaves /\ busy' # "idle",
         cancel => cancel' \/ pc[t] \in Starts
  PROVE  Outcome'
<1> USE DEF OutcomeInv
<1>1. pc'[t] = there /\ \A u \in Threads : u # t => pc'[u] = "none"
  BY DEF IdleInv, NoTwo, DJTypeOK, Goes
<1>2. pc[t] \in Starts => outcome = "running" /\ asked # "writing"
  BY DEF StartIsFresh
<1>3. StartIsFresh' /\ NoPadding'
  BY <1>1 DEF StartIsFresh, NoPadding, Starts, Padding
<1>4. FailureKept'
  BY <1>1, <1>2 DEF FailureKept, Stuck, Leaves
<1>5. RequestKept'
  BY <1>2 DEF RequestKept
<1> QED
  BY <1>3, <1>4, <1>5 DEF Outcome

\* No step of a worker revokes the flag once the job runs, and none lets the
\* job fail without setting it or leaving the drive busy.
LEMMA WorkerKeepsOutcome ==
  ASSUME OutcomeInv, FailuresAreNoted, NEW t \in Threads, Worker(t)
  PROVE  Outcome'
<1> USE DEF At, States, Starts, Leaves, Padding, FailuresAreNoted
<1> DEFINE GoesOn == \E there \in States \ (Starts \cup Padding) :
             /\ Goes(t, there) /\ pc[t] # "none" /\ asked' = asked
             /\ \/ outcome' = "failed" => cancel'
                \/ pc[t] \in Starts /\ outcome' \in {outcome, "done"}
                \/ there \in Leaves /\ busy' # "idle"
             /\ cancel => cancel' \/ pc[t] \in Starts
<1>1. outcome = "failed" /\ pc[t] \notin Leaves => cancel
  BY DEF OutcomeInv, FailureKept, Stuck
<1>2. EraseFile(t) \/ EraseBegin(t) \/ EraseBlank(t) => GoesOn
  <2>1. pc[t] = "truncate" => busy # "idle"
    BY DEF OutcomeInv, StartIsFresh
  <2> QED
    BY <1>1, <2>1 DEF EraseFile, EraseBegin, EraseBlank, appVars
<1>3. FormatBegin(t) \/ FormatUnit(t) \/ FormatZeros(t) => GoesOn
  BY <1>1 DEF FormatBegin, FormatUnit, FormatZeros, appVars
<1>4. InquireMedia(t) \/ End(t) => GoesOn
  BY <1>1 DEF InquireMedia, End, appVars
<1>5. WriteBegin(t) \/ WriteEnd(t) \/ WriteIdle(t) \/ WriteFails(t) => GoesOn
  BY <1>1 DEF WriteBegin, WriteEnd, WriteIdle, WriteFails, appVars
<1>6. WritePayload(t) => GoesOn
  <2> SUFFICES ASSUME WritePayload(t) PROVE GoesOn
    OBVIOUS
  <2>1. /\ pc[t] = "payload" /\ asked' = asked
        /\ outcome' = "failed" => cancel'
        /\ cancel => cancel'
    BY <1>1 DEF WritePayload
  <2>2. CASE pc' = pc
    <3>1. Goes(t, "payload")
      BY <2>1, <2>2 DEF Goes, OutcomeInv, IdleInv, DJTypeOK
    <3> QED
      BY <2>1, <3>1
  <2>3. CASE AfterPayload(t)
    <3>1. Goes(t, "written") \/ Goes(t, "fail") \/ Goes(t, "close")
      BY <2>3 DEF AfterPayload
    <3> QED
      BY <2>1, <3>1
  <2> QED
    BY <2>2, <2>3 DEF WritePayload
<1>7. ~(PadBegin(t) \/ PadReset(t) \/ PadWrite(t) \/ PadEnd(t))
  BY DEF PadBegin, PadReset, PadWrite, PadEnd, OutcomeInv, NoPadding
<1>8. CloseBegin(t) \/ CloseEnd(t) => GoesOn
  BY <1>1 DEF CloseBegin, CloseEnd, appVars
<1>9. RemoveWorker(t) => GoesOn
  <2>1. outcome = "failed" => cancel \/ busy # "idle"
    BY DEF OutcomeInv, FailureKept, Stuck
  <2> QED
    BY <1>1, <2>1 DEF RemoveWorker, driveVars, appVars
<1>10. GoesOn
  BY <1>2, <1>3, <1>4, <1>5, <1>6, <1>7, <1>8, <1>9 DEF Worker
<1> QED
  BY <1>10, OneGoesOn

\* A failure and a cancellation during the writing stay in the flag, until the
\* next job that starts clears what is known about the last one; a failure that
\* set no flag leaves the drive busy, so that no application takes it for well.
THEOREM OutcomeInvariance ==
  ASSUME FailuresAreNoted
  PROVE  DJSpec => []OutcomeInv
<1>1. DJInit => OutcomeInv
  BY InitIdle DEF DJInit, OutcomeInv, StartIsFresh, NoPadding, FailureKept,
                  RequestKept, Starts, Padding
<1>2. OutcomeInv /\ [DJNext]_djVars => OutcomeInv'
  <2> SUFFICES ASSUME OutcomeInv, [DJNext]_djVars PROVE OutcomeInv'
    OBVIOUS
  <2>1. IdleInv'
    BY NextKeepsIdle DEF OutcomeInv, FailuresAreNoted
  <2>2. CASE DJNext
    <3>1. Outcome'
      BY <2>2, ApplicationKeepsOutcome, WorkerKeepsOutcome DEF DJNext
    <3> QED
      BY <2>1, <3>1 DEF OutcomeInv, Outcome
  <2>3. CASE UNCHANGED djVars
    BY <2>1, <2>3 DEF djVars, driveVars, jobVars, appVars, OutcomeInv, StartIsFresh,
                      NoPadding, FailureKept, RequestKept, Stuck
  <2> QED
    BY <2>2, <2>3
<1> QED
  BY <1>1, <1>2, PTL DEF DJSpec

\* burn_drive_wrote_well() does not call a failed job a success.
THEOREM FailuresAreTold ==
  ASSUME FailuresAreNoted
  PROVE  DJSpec => []FailureIsReported
<1>1. OutcomeInv => FailureIsReported
  BY DEF OutcomeInv, FailureKept, FailureIsReported, JobOver, Stuck
<1> QED
  BY <1>1, OutcomeInvariance, PTL

\* A burn_drive_cancel() that came during the writing is not forgotten by the
\* worker that closes the session after it.
THEOREM CancellationsCount ==
  ASSUME FailuresAreNoted
  PROVE  DJSpec => []CancelCounts
<1>1. OutcomeInv => CancelCounts
  BY DEF OutcomeInv, RequestKept, CancelCounts, JobOver
<1> QED
  BY <1>1, OutcomeInvariance, PTL

-----------------------------------------------------------------------------
\* That a success is not called a failure needs no assumption at all.  Every
\* setting of the flag has an excuse, which lasts until the next job starts:
\* the application asked for it, or it was refused, or the job has failed.
Excused == asked # "no" \/ refused \/ outcome \notin {"running", "done"}

Padded == {"pad", "padReset", "padWrite", "padEnd", "close", "closing"}

CancelExcused == cancel => Excused \/ \E t \in Threads : pc[t] \in Starts
SavedExcused  == \A t \in Threads : pc[t] \in Padding \ {"pad"} /\ saved => Excused
BadExcused    == \A t \in Threads :
    pc[t] = "fail" \/ (pc[t] \in Padded /\ ~good) => Excused

SuccessInv == DJTypeOK /\ DJInv /\ CancelExcused /\ SavedExcused /\ BadExcused

\* A worker that is listed is the only one that matters; its step keeps the
\* excuses if it keeps them for its own next position.
LEMMA ListedGoesOn ==
  ASSUME SuccessInv, DJTypeOK', DJInv', NEW t \in Threads, pc[t] \notin {"none", "tail"},
         NEW there \in States \ Starts, Goes(t, there),
         Excused => Excused' \/ pc[t] \in Starts,
         cancel' => Excused' \/ (cancel /\ pc[t] \notin Starts),
         there \in Padding \ {"pad"} /\ saved' => Excused',
         there = "fail" \/ (there \in Padded /\ ~good') => Excused'
  PROVE  SuccessInv'
<1>1. \A u \in Threads : u # t => pc[u] \in {"none", "tail"} /\ pc'[u] = pc[u]
  BY DEF SuccessInv, DJInv, ListIsExact, ListIsShort, DJTypeOK, Goes
<1>2. pc'[t] = there
  BY DEF SuccessInv, DJTypeOK, Goes
<1>3. CancelExcused'
  <2>1. cancel /\ pc[t] \notin Starts => Excused
    BY <1>1 DEF SuccessInv, CancelExcused, Starts
  <2> QED
    BY <2>1 DEF CancelExcused
<1>4. SavedExcused' /\ BadExcused'
  BY <1>1, <1>2 DEF SavedExcused, BadExcused, Padding, Padded
<1> QED
  BY <1>3, <1>4 DEF SuccessInv

LEMMA WorkerKeepsExcuses ==
  ASSUME SuccessInv, DJTypeOK', DJInv', NEW t \in Threads, Worker(t)
  PROVE  SuccessInv'
<1> USE DEF At, States, Starts, Padding, Padded, Excused
<1> DEFINE Flag  == cancel' => Excused' \/ (cancel /\ pc[t] \notin Starts)
           Listed == /\ pc[t] \notin {"none", "tail"}
                     /\ Excused => Excused' \/ pc[t] \in Starts
           To(there) == /\ Goes(t, there)
                        /\ there \in Padding \ {"pad"} /\ saved' => Excused'
                        /\ there = "fail" \/ (there \in Padded /\ ~good') => Excused'
           GoesOn == Flag /\ Listed /\ \E there \in States \ Starts : To(there)
<1>0. /\ cancel \in BOOLEAN /\ saved \in BOOLEAN /\ good \in BOOLEAN
      /\ outcome \in {"none", "running", "failed", "done"}
  BY DEF SuccessInv, DJTypeOK
<1>1. /\ pc[t] \in Padding \ {"pad"} /\ saved => Excused
      /\ pc[t] = "fail" \/ (pc[t] \in Padded /\ ~good) => Excused
  BY DEF SuccessInv, SavedExcused, BadExcused
<1>2. EraseFile(t) \/ EraseBegin(t) \/ EraseBlank(t) => GoesOn
  BY <1>0 DEF EraseFile, EraseBegin, EraseBlank, appVars
<1>3. FormatBegin(t) \/ FormatUnit(t) \/ FormatZeros(t) => GoesOn
  BY <1>0 DEF FormatBegin, FormatUnit, FormatZeros, appVars
<1>4. InquireMedia(t) \/ End(t) => GoesOn
  BY <1>0 DEF InquireMedia, End, appVars
<1>5. WriteBegin(t) \/ WriteEnd(t) \/ WriteFails(t) => GoesOn
  BY <1>0, <1>1 DEF WriteBegin, WriteEnd, WriteFails, appVars
<1>6. WritePayload(t) => GoesOn
  <2> SUFFICES ASSUME WritePayload(t) PROVE GoesOn
    OBVIOUS
  <2>1. /\ pc[t] = "payload" /\ UNCHANGED <<asked, refused, saved>>
        /\ outcome' = "failed" \/ (good' = TRUE /\ outcome' = outcome /\ cancel' = cancel)
           \/ (pc' = pc /\ outcome' = outcome /\ cancel' = cancel)
    BY DEF WritePayload
  <2>2. Flag /\ Listed
    BY <2>1
  <2>3. CASE pc' = pc
    <3>1. Goes(t, "payload")
      BY <2>1, <2>3 DEF Goes, SuccessInv, DJTypeOK
    <3> QED
      BY <2>2, <3>1
  <2>4. CASE AfterPayload(t) /\ outcome' = "failed"
    <3>1. Goes(t, "written") \/ Goes(t, "fail") \/ Goes(t, "close") \/ Goes(t, "pad")
      BY <2>4 DEF AfterPayload
    <3>2. Excused'
      BY <2>4
    <3> QED
      BY <2>2, <3>1, <3>2
  <2>5. CASE AfterPayload(t) /\ good' = TRUE /\ outcome' = outcome /\ cancel' = cancel
    <3>1. Goes(t, "written") \/ Goes(t, "close") \/ Goes(t, "pad")
      BY <2>5 DEF AfterPayload
    <3> QED
      BY <2>2, <2>5, <3>1
  <2> QED
    BY <2>3, <2>4, <2>5 DEF WritePayload
<1>7. PadBegin(t) \/ PadReset(t) \/ PadWrite(t) \/ PadEnd(t) => GoesOn
  <2>1. pc[t] = "pad" /\ cancel => Excused
    BY DEF SuccessInv, CancelExcused, DJInv, ListIsExact, ListIsShort
  <2> QED
    BY <1>0, <1>1, <2>1 DEF PadBegin, PadReset, PadWrite, PadEnd, driveVars, appVars
<1>8. CloseBegin(t) \/ CloseEnd(t) => GoesOn
  BY <1>0, <1>1 DEF CloseBegin, CloseEnd, appVars
<1>9. RemoveWorker(t) => GoesOn
  BY <1>0 DEF RemoveWorker, driveVars, appVars
<1>10. CASE GoesOn
  BY <1>10, ListedGoesOn
<1>11. CASE WriteIdle(t)
  <2>1. \A u \in Threads : pc'[u] = pc[u] \/ (pc[u] = "tail" /\ pc'[u] = "none")
    BY <1>11 DEF WriteIdle, Goes, SuccessInv, DJTypeOK
  <2>2. UNCHANGED <<cancel, saved, good, outcome, asked, refused>>
    BY <1>11 DEF WriteIdle, appVars
  <2>3. CancelExcused'
    BY <2>1, <2>2 DEF SuccessInv, CancelExcused
  <2>4. SavedExcused' /\ BadExcused'
    BY <2>1, <2>2 DEF SuccessInv, SavedExcused, BadExcused
  <2> QED
    BY <2>3, <2>4 DEF SuccessInv
<1> QED
  BY <1>2, <1>3, <1>4, <1>5, <1>6, <1>7, <1>8, <1>9, <1>10, <1>11 DEF Worker

LEMMA ApplicationKeepsExcuses ==
  ASSUME SuccessInv, DJTypeOK', DJInv', Application
  PROVE  SuccessInv'
<1> USE DEF SuccessInv, Excused
<1>0. cancel \in BOOLEAN /\ outcome \in {"none", "running", "failed", "done"}
  BY DEF DJTypeOK
<1>1. CASE Grab \/ Release \/ ReAssess
  BY <1>1 DEF Grab, Release, ReAssess, jobVars, appVars,
              CancelExcused, SavedExcused, BadExcused
<1>2. CASE DriveCancel \/ RefuseAsBusy \/ RejectAsUnsuitable
  <2>1. asked' # "no" \/ refused'
    BY <1>2 DEF DriveCancel, RefuseAsBusy, RejectAsUnsuitable
  <2> QED
    BY <2>1 DEF CancelExcused, SavedExcused, BadExcused
<1>3. ASSUME NEW start \in Starts, AddWorker(start)
      PROVE  SuccessInv'
  <2>1. \A u \in Threads : pc[u] \in {"none", "tail"}
    BY <1>3 DEF AddWorker, FindWorker, DJInv, ListIsExact
  <2>2. CASE outcome' = "failed"
    BY <2>2 DEF CancelExcused, SavedExcused, BadExcused
  <2>3. CASE \E t \in Threads : pc' = [pc EXCEPT ![t] = start]
    <3>1. PICK t \in Threads : pc' = [pc EXCEPT ![t] = start]
      BY <2>3
    <3>2. pc'[t] = start /\ \A u \in Threads : u # t => pc'[u] \in {"none", "tail"}
      BY <2>1, <3>1 DEF DJTypeOK
    <3>3. CancelExcused'
      BY <3>2 DEF CancelExcused
    <3>4. SavedExcused' /\ BadExcused'
      BY <3>2 DEF SavedExcused, BadExcused, Starts, Padding, Padded
    <3> QED
      BY <3>3, <3>4
  <2> QED
    BY <1>3, <2>2, <2>3 DEF AddWorker
<1>4. BurnDiscErase \/ BurnDiscFormat \/ BurnDiscWrite
        => RefuseAsBusy \/ RejectAsUnsuitable \/ \E start \in Starts : AddWorker(start)
  BY DEF BurnDiscErase, BurnDiscFormat, BurnDiscWrite, Starts
<1> QED
  BY <1>1, <1>2, <1>3, <1>4 DEF Application

\* burn_drive_wrote_well() does not call a success a failure, for any number
\* of threads, any mishaps and an application that does not wait.
THEOREM SuccessesAreTold == DJSpec => []SuccessIsReported
<1>1. DJInit => SuccessInv
  <2>1. DJInit => DJTypeOK /\ DJInv
    BY InitIdle DEF IdleInv
  <2> QED
    BY <2>1 DEF DJInit, SuccessInv, CancelExcused, SavedExcused, BadExcused,
                Padding, Padded
<1>2. SuccessInv /\ [DJNext]_djVars => SuccessInv'
  <2> SUFFICES ASSUME SuccessInv, [DJNext]_djVars PROVE SuccessInv'
    OBVIOUS
  <2>1. DJInv'
    BY NextPreserves DEF SuccessInv
  <2>2. CASE DJNext
    <3>1. DJTypeOK'
      BY <2>2, TypePreserved DEF SuccessInv
    <3> QED
      BY <2>1, <2>2, <3>1, ApplicationKeepsExcuses, WorkerKeepsExcuses DEF DJNext
  <2>3. CASE UNCHANGED djVars
    BY <2>1, <2>3 DEF djVars, driveVars, jobVars, appVars, SuccessInv, DJTypeOK,
                      CancelExcused, SavedExcused, BadExcused, Excused
  <2> QED
    BY <2>2, <2>3
<1>3. SuccessInv => SuccessIsReported
  <2> SUFFICES ASSUME SuccessInv, JobOver, outcome = "done", asked = "no", cancel
               PROVE  FALSE
    BY DEF SuccessIsReported
  <2>1. \A t \in Threads : pc[t] \notin Starts
    BY DEF JobOver, Operating, Starts
  <2> QED
    BY <2>1 DEF SuccessInv, CancelExcused, Excused, JobOver
<1> QED
  BY <1>1, <1>2, <1>3, PTL DEF DJSpec
=============================================================================
