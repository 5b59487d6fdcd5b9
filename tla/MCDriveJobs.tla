----------------------------- MODULE MCDriveJobs -----------------------------
(***************************************************************************)
(* One drive and two workers, of which one may still be in its last step   *)
(* when the next one is started.  The sets of mishaps for the runs.        *)
(***************************************************************************)
EXTENDS DriveJobs

BothRoles    == {"mmc", "file"}
MMC          == {"mmc"}
File         == {"file"}
NoEvents     == {}
DriveRefuses == {"format", "write"}
Padding      == {"pad", "write"}
BlankFails   == {"blank"}
DiscFails    == {"discinfo"}
ThreadFails  == {"thread"}
FileFails    == {"truncate"}
=============================================================================
