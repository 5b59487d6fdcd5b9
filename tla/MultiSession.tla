---------------------------- MODULE MultiSession ----------------------------
(***************************************************************************)
(* Emulated multi-session on overwritable media: libisoburn                *)
(* (burn_wrap.c, isoburn.c, isofs_wrap.c) under the drive and session      *)
(* control of xorriso (drive_mgt.c, write_run.c, opts_*.c), with the head  *)
(* of the image as libisofs produces it (ecma119.c).                       *)
(*                                                                         *)
(* Addresses are counted in units of 16 blocks, the chunk size of          *)
(* burn_random_access_write().  A session is a system area, a unit with    *)
(* the volume descriptors, and its data.  Units 0 and 1 of the medium hold *)
(* a copy of the head of the youngest session.  The program may crash      *)
(* between any two units which it writes.                                  *)
(***************************************************************************)
EXTENDS Integers, Sequences, Functions

CONSTANTS
    MediumUnits,    \* capacity of the medium
    ImageSizes,     \* sizes of the images that libisofs produces
    Padding,        \* -padding, zeros after an image
    MaxSessions,    \* bound on the number of attempts to write a session
    NoEmulToc,      \* settings of -compliance no_emul_toc, a set of BOOLEAN
    ReadErrors,     \* whether reading may fail
    EjectRoles      \* the uses of -eject: sets of roles, "in" and "out"

ASSUME MSAssumption ==
    /\ MediumUnits \in Nat \ 0 .. 3 /\ ImageSizes \subseteq Nat \ {0, 1}
    /\ Padding \in Nat /\ MaxSessions \in Nat /\ NoEmulToc \subseteq BOOLEAN
    /\ ReadErrors \in BOOLEAN /\ EjectRoles \subseteq SUBSET {"in", "out"}

VARIABLES
    medium,         \* what each unit of the medium holds
    sess,           \* all sessions ever begun (history)
    safe,           \* the one last reported as written well, 0 if none (history)
    indev, outdev,  \* "none", "disc", and for input "other": a medium of its own
    img,            \* the loaded image: [present, refs, changed]
    pending,        \* volset_change_pending
    o,              \* struct isoburn of the disc
    pc, unit,       \* the step and unit of a command that writes
    cur, ending     \* session under way, and whether -end started it

xVars  == <<indev, outdev, img, pending>>
msVars == <<medium, sess, safe, indev, outdev, img, pending, o, pc, unit, cur, ending>>

Units == 0 .. MediumUnits - 1
Zero  == [k |-> "zero", s |-> 0, n |-> 0]
XX    == [k |-> "xx", s |-> 0, n |-> 0]        \* descriptors with CDXX1

\* What session s has in its unit i: its descriptors tell its size n.
SessionCell(s, n, i) ==
    [k |-> CASE i = 0 -> "sys" [] i = 1 -> "vd" [] OTHER -> "data",
     s |-> s, n |-> IF i = 0 THEN 0 ELSE IF i = 1 THEN n ELSE i]

\* Libisoburn_nwa_alignemenT is 32 blocks.
Aligned(u) == u + (u % 2)

NoImage    == [present |-> FALSE, refs |-> {}, changed |-> FALSE]
EmptyImage == [NoImage EXCEPT !.present = TRUE]
NewO       == [status |-> "unready", nwa |-> 2, zeroNwa |-> 2,
               head |-> <<Zero, Zero>>, toc |-> <<>>, msc1 |-> 0]

MSInit ==
    /\ medium = [u \in Units |-> Zero] /\ sess = <<>> /\ safe = 0
    /\ indev = "none" /\ outdev = "none" /\ img = NoImage /\ pending = FALSE
    /\ o = NewO /\ pc = "cmd" /\ unit = 0 /\ cur = 0 /\ ending = FALSE

-----------------------------------------------------------------------------
(* Recognizing the medium                                                  *)

HasHeader(u) == u \in Units /\ medium[u].k = "vd"

TocEntry(lba, blocks) == [lba |-> lba, blocks |-> blocks]

\* The first n units from start on, as far as the medium reaches.
Readable(start, n) == IF start + n <= MediumUnits THEN n ELSE MediumUnits - start

\* Defect: no look at the half header where growisofs puts a session.
EmulateTocDefect(size) ==
    LET chain[nwa \in 0 .. MediumUnits] ==
          LET start == Aligned(nwa)
          IN  IF start >= size THEN <<>>
              ELSE IF ~ HasHeader(start + 1) THEN <<TocEntry(0, size)>>
              ELSE LET n == Readable(start, medium[start + 1].n)
                   IN  <<TocEntry(start, n)>> \o chain[start + n]
    IN  chain[2]

\* isoburn_emulate_toc(): from session header to session header up to the
\* end of the image.  growisofs aligns to one unit, so that the header may
\* be one unit before the aligned address.  A broken chain adds the whole
\* image as one entry.
EmulateToc(size) ==
    LET chain[nwa \in 0 .. MediumUnits] ==          \* growisofs_nwa
          LET lba   == Aligned(nwa)
              start == IF lba # nwa /\ HasHeader(lba) THEN nwa ELSE lba
          IN  IF lba >= size THEN <<>>
              ELSE IF ~ HasHeader(start + 1) THEN <<TocEntry(0, size)>>
              ELSE LET n == Readable(start, medium[start + 1].n)
                   IN  <<TocEntry(start, n)>> \o chain[start + n]
    IN  chain[2]

\* The verdict of isoburn_start_emulation() about the first 64 kB.
HeadStatus ==
    CASE medium[1].k = "vd" -> "appendable"
      [] medium[1].k = "xx" \/ (medium[0] = Zero /\ medium[1] = Zero) -> "blank"
      [] OTHER -> "full"

\* isoburn_new() and isoburn_welcome_media() for a medium with random access.
\* A head that cannot be read means a full medium.
WelcomeMedia(readError) ==
    IF readError THEN [NewO EXCEPT !.status = "full"]
    ELSE LET seen == [NewO EXCEPT !.status = HeadStatus,
                                  !.head = <<medium[0], medium[1]>>]
         IN  IF HeadStatus = "appendable"
             THEN [seen EXCEPT !.toc = EmulateToc(medium[1].n),
                               !.nwa = Aligned(medium[1].n)]
             ELSE seen

\* isoburn_read_image(): the tree of the session at the load address.
LoadedImage(d, readError) ==
    IF d.status = "blank" \/ readError \/ ~ HasHeader(d.msc1 + 1)
    THEN EmptyImage
    ELSE [EmptyImage EXCEPT !.refs = sess[medium[d.msc1 + 1].s].refs]

MayFail == IF ReadErrors THEN BOOLEAN ELSE {FALSE}

-----------------------------------------------------------------------------
(* Giving up and acquiring drives                                          *)

\* What Xorriso_give_up_drive() leaves: [indev, outdev, img, pending].
GivenUp(in, out) ==
    LET dropIn == in /\ indev # "none"
        rest   == ~ out /\ in /\ outdev # "none"
    IN  [indev   |-> IF in THEN "none" ELSE indev,
         outdev  |-> IF out THEN "none" ELSE outdev,
         img     |-> IF rest THEN EmptyImage ELSE IF dropIn THEN NoImage ELSE img,
         pending |-> pending /\ ~ (dropIn \/ rest)]

\* Defect: pending changes do not hinder.
MayReplaceDefect(in) == TRUE

\* Xorriso_option_dev(): the loaded image is not dropped with pending changes.
MayReplace(in) == in => ~ pending

\* Xorriso_option_dev() with an empty address: -dev "", -indev "", -outdev "".
GiveUp(in, out) ==
    /\ pc = "cmd" /\ MayReplace(in) /\ (indev # "none" \/ outdev # "none")
    /\ LET g == GivenUp(in, out)
       IN  /\ indev' = g.indev /\ outdev' = g.outdev
           /\ img' = g.img /\ pending' = g.pending
           /\ o' = IF "disc" \in {g.indev, g.outdev} THEN o ELSE NewO
    /\ UNCHANGED <<medium, sess, safe, pc, unit, cur, ending>>

\* Xorriso_option_eject(): -eject "out" demands no regard for pending
\* changes, but a drive that serves both roles is given up in both.
Eject(in, out) ==
    /\ pc = "cmd" /\ (in => ~ pending)
    /\ (indev # "none" \/ outdev # "none")
    /\ LET both == indev = outdev
           g == GivenUp(in \/ both, out \/ both)
       IN  /\ indev' = g.indev /\ outdev' = g.outdev
           /\ img' = g.img /\ pending' = g.pending
           /\ o' = IF "disc" \in {g.indev, g.outdev} THEN o ELSE NewO
    /\ UNCHANGED <<medium, sess, safe, pc, unit, cur, ending>>

\* The loading half of Xorriso_aquire_drive(): the image for the input role,
\* shared with another output drive.  If the tree cannot be imported then
\* only an output drive remains, with a new empty image.
LoadFrom(d, out) ==
    \/ \E e \in MayFail : img' = LoadedImage(d, e) /\ indev' = "disc" /\ o' = d
    \/ /\ ReadErrors /\ d.status # "blank"
       /\ indev' = "none" /\ img' = (IF out # "none" THEN EmptyImage ELSE NoImage)
       /\ o' = (IF out = "disc" THEN d ELSE NewO)

\* isoburn_set_msc1() by -load: the head, or a session of the emulated TOC.
LoadAddresses(d) == {0} \cup {d.toc[i].lba : i \in DOMAIN d.toc}

\* Xorriso_option_dev() and Xorriso_aquire_drive() for the disc as -dev,
\* -indev or -outdev.  A drive that still serves the other role is shared.
AcquireDisc(in, out) ==
    /\ pc = "cmd" /\ (in \/ out) /\ MayReplace(in)
    /\ LET left == GivenUp(in, out)
           shared == "disc" \in {left.indev, left.outdev}
       IN  /\ outdev' = (IF out THEN "disc" ELSE left.outdev)
           /\ pending' = left.pending
           /\ \E e \in MayFail :
                LET d == IF shared THEN o ELSE WelcomeMedia(e)
                IN  IF in
                    THEN \E a \in LoadAddresses(d) :
                           LoadFrom([d EXCEPT !.msc1 = a], outdev')
                    ELSE /\ indev' = left.indev /\ o' = d
                         /\ img' = IF left.img.present THEN left.img ELSE EmptyImage
    /\ UNCHANGED <<medium, sess, safe, pc, unit, cur, ending>>

\* The same for another medium as -indev.  Its files get copied.
AcquireOther ==
    /\ pc = "cmd" /\ MayReplace(TRUE)
    /\ indev' = "other" /\ img' = EmptyImage
    /\ o' = IF outdev = "disc" THEN o ELSE NewO
    /\ UNCHANGED <<medium, sess, safe, outdev, pending, pc, unit, cur, ending>>

\* Xorriso_reaquire_outdev(): with input role the image is loaded anew.
Reacquire(in) ==
    /\ pc' = "cmd" /\ outdev' = outdev
    /\ \E e \in MayFail :
         IF in THEN LoadFrom(WelcomeMedia(e), outdev)
         ELSE /\ o' = WelcomeMedia(e) /\ indev' = indev
              /\ img' = (IF img.present THEN img ELSE EmptyImage)

\* The program ends and takes along what it had in memory.
ProgramEnds ==
    /\ indev' = "none" /\ outdev' = "none" /\ img' = NoImage /\ pending' = FALSE
    /\ o' = NewO /\ pc' = "ended" /\ unit' = 0 /\ cur' = 0 /\ ending' = FALSE

-----------------------------------------------------------------------------
(* The image in memory                                                     *)

\* Any command which manipulates the image: Xorriso_set_change_pending().
Modify ==
    /\ pc = "cmd" /\ img.present /\ ~ img.changed
    /\ img' = [img EXCEPT !.changed = TRUE] /\ pending' = TRUE
    /\ UNCHANGED <<medium, sess, safe, indev, outdev, o, pc, unit, cur, ending>>

\* Xorriso_option_rollback(): the input role is given up and acquired again.
Rollback ==
    /\ pc = "cmd" /\ (indev # "none" \/ outdev # "none")
    /\ LET left == GivenUp(TRUE, FALSE)
       IN  /\ outdev' = outdev /\ pending' = FALSE
           /\ CASE indev = "none"  -> indev' = "none" /\ img' = left.img /\ o' = o
                [] indev = "other" -> indev' = "other" /\ img' = EmptyImage /\ o' = o
                [] indev = "disc"  ->
                     \E e \in MayFail :
                        LoadFrom(IF outdev = "disc" THEN o
                                 ELSE [WelcomeMedia(e) EXCEPT !.msc1 = o.msc1], outdev)
    /\ UNCHANGED <<medium, sess, safe, pc, unit, cur, ending>>

-----------------------------------------------------------------------------
(* Writing a session                                                       *)

HeadSession == medium[1].s

\* All units of a session hold what was written, except a head at unit 0
\* which later sessions replaced.
Intact(s) ==
    \A i \in 0 .. sess[s].size - 1 :
       \/ sess[s].start = 0 /\ i < 2
       \/ medium[sess[s].start + i] = SessionCell(s, sess[s].size, i)

\* Defect: every session goes to the start of the medium.
PreparedDefect(noEmulToc) ==
    IF noEmulToc THEN [o EXCEPT !.nwa = 0, !.zeroNwa = 0] ELSE o

\* isoburn_prepare_disc_aux() with -compliance no_emul_toc: the first session
\* goes to the start of the medium.
Prepared(noEmulToc) ==
    IF noEmulToc /\ o.nwa = o.zeroNwa /\ o.zeroNwa = 2
    THEN [o EXCEPT !.nwa = 0, !.zeroNwa = 0] ELSE o

\* Defect: the copy of the head tells the size of the session.
NewHeadDefect(d, s, n) ==
    IF d.nwa = 0 THEN d.head
    ELSE <<SessionCell(s, n, 0), [SessionCell(s, n, 1) EXCEPT !.n = n]>>

\* ecma119.c fills the buffer for the copy of the head, already when the
\* image is prepared.  Its size reaches from unit 0 to the end of the image.
NewHead(d, s, n) ==
    IF d.nwa = 0 THEN d.head
    ELSE <<SessionCell(s, n, 0), [SessionCell(s, n, 1) EXCEPT !.n = d.nwa + n]>>

\* Xorriso_sanitize_image_size(): a session that begins or continues an
\* emulated TOC is padded up to the next nwa.
Padded(n, noEmulToc) ==
    IF noEmulToc THEN n + Padding ELSE Aligned(n + Padding)

\* The early refusals of Xorriso_write_session() and
\* isoburn_prepare_disc_aux(): only -dev may append to a medium.
MayWrite ==
    /\ outdev = "disc" /\ o.status \in {"blank", "appendable"}
    /\ indev # outdev => o.status = "blank"

\* The session that is about to be written: files of the loaded tree stay
\* where they are if the tree came from this medium.  History: whether they
\* are all there.
NewSession(d, n, noEmulToc) ==
    LET s == Len(sess) + 1
        kept == IF indev = outdev THEN img.refs ELSE {}
        old == IF d.status = "appendable" THEN sess[HeadSession].chain ELSE <<>>
    IN  [start |-> d.nwa, size |-> n, padded |-> Padded(n, noEmulToc),
         refs  |-> {s} \cup kept, chain |-> old \o <<s>>,
         sound |-> \A r \in kept \cup Range(old) : Intact(r)]

\* Xorriso_write_session() up to isoburn_disc_write(), from -commit or -end.
\* If the size does not fit then the prepared image is cancelled.  A refusal
\* ends the program if -end caused the attempt.
BeginSession(byEnd) ==
    /\ pc = "cmd" /\ pending /\ MayWrite /\ Len(sess) < MaxSessions
    /\ \E n \in ImageSizes, ne \in NoEmulToc :
         LET d == Prepared(ne)
             fits == d.nwa + Padded(n, ne) <= MediumUnits
             s == IF fits THEN Len(sess) + 1 ELSE 0
         IN  IF fits
             THEN /\ sess' = Append(sess, NewSession(d, n, ne))
                  /\ o' = [d EXCEPT !.head = NewHead(d, s, n)]
                  /\ cur' = s /\ pc' = "write" /\ unit' = 0 /\ ending' = byEnd
                  /\ UNCHANGED xVars
             ELSE /\ sess' = sess
                  /\ IF byEnd THEN ProgramEnds
                     ELSE /\ o' = [d EXCEPT !.head = NewHead(d, s, n)]
                          /\ UNCHANGED <<xVars, pc, unit, cur, ending>>
    /\ UNCHANGED <<medium, safe>>

RefuseSession ==
    /\ pc = "cmd" /\ pending /\ ~ MayWrite
    /\ UNCHANGED <<medium, sess, safe>> /\ ProgramEnds     \* by -end

\* Xorriso_write_session() with flag bit0, -print_size: prepare and cancel.
PrintSize ==
    /\ pc = "cmd" /\ MayWrite
    /\ \E n \in ImageSizes, ne \in NoEmulToc :
         LET d == Prepared(ne) IN o' = [d EXCEPT !.head = NewHead(d, 0, n)]
    /\ UNCHANGED <<medium, sess, safe, xVars, pc, unit, cur, ending>>

\* The units of the track, image and padding, in ascending order.
WriteUnit ==
    /\ pc = "write"
    /\ LET x == sess[cur]
       IN  /\ medium' = [medium EXCEPT ![x.start + unit] =
                           IF unit < x.size THEN SessionCell(cur, x.size, unit)
                           ELSE Zero]
           /\ IF unit + 1 < x.padded THEN unit' = unit + 1 /\ pc' = pc
              ELSE unit' = 0 /\ pc' = "wrote"
    /\ UNCHANGED <<sess, safe, xVars, o, cur, ending>>

\* The track was not written well.  The changes stay pending, the struct
\* isoburn keeps its state.
WriteFails ==
    /\ pc = "write"
    /\ IF ending THEN ProgramEnds
       ELSE pc' = "cmd" /\ unit' = 0 /\ cur' = 0 /\ UNCHANGED <<xVars, o, ending>>
    /\ UNCHANGED <<medium, sess, safe>>

\* The condition for writing in isoburn_activate_session().
NeedsActivation ==
    o.status = "appendable" \/ (o.status = "blank" /\ o.zeroNwa > 0)

\* isoburn_activate_session() writes both units of the head.
ActivateUnit ==
    /\ pc = "wrote" /\ NeedsActivation /\ unit < 2
    /\ medium' = [medium EXCEPT ![unit] = o.head[unit + 1]]
    /\ unit' = unit + 1
    /\ UNCHANGED <<sess, safe, xVars, o, pc, cur, ending>>

\* A failure is FATAL and ends the program.
ActivateFails ==
    /\ pc = "wrote" /\ NeedsActivation /\ unit < 2
    /\ UNCHANGED <<medium, sess, safe>> /\ ProgramEnds

\* Success is reported: the rest of Xorriso_option_commit(), with the disc
\* as new -dev.
SessionDone ==
    /\ pc = "wrote" /\ (NeedsActivation => unit = 2)
    /\ safe' = cur
    /\ IF ending THEN ProgramEnds
       ELSE /\ pending' = FALSE /\ Reacquire(TRUE)
            /\ unit' = 0 /\ cur' = 0 /\ ending' = FALSE
    /\ UNCHANGED <<medium, sess>>

-----------------------------------------------------------------------------
(* Blanking, crashes, and another program                                  *)

\* Xorriso_option_blank() and Xorriso_blank_media(): a blank medium is left
\* untouched.  The descriptors are invalidated or, if they are unknown, the
\* head is filled with zeros.
Blank ==
    /\ pc = "cmd" /\ outdev = "disc" /\ o.status \in {"appendable", "full"}
    /\ indev = outdev => ~ pending
    /\ o' = [o EXCEPT !.head = IF o.status = "full" THEN <<Zero, Zero>>
                               ELSE <<o.head[1], XX>>]
    /\ safe' = 0 /\ pc' = "erase" /\ unit' = 0
    /\ UNCHANGED <<medium, sess, xVars, cur, ending>>

EraseUnit ==
    /\ pc = "erase" /\ unit < 2
    /\ medium' = [medium EXCEPT ![unit] = o.head[unit + 1]]
    /\ unit' = unit + 1
    /\ UNCHANGED <<sess, safe, xVars, o, pc, cur, ending>>

\* After success and after failure the disc is re-assessed in its roles.
EraseEnds ==
    /\ pc = "erase" /\ Reacquire(indev = outdev)
    /\ unit' = 0
    /\ UNCHANGED <<medium, sess, safe, pending, cur, ending>>

\* Also -end and -rollback_end without a session to write.
Crash == pc # "ended" /\ UNCHANGED <<medium, sess, safe>> /\ ProgramEnds

Start ==
    /\ pc = "ended" /\ pc' = "cmd"
    /\ UNCHANGED <<medium, sess, safe, xVars, o, unit, cur, ending>>

\* growisofs -M, while the program has not acquired the medium.
Growisofs(n) ==
    /\ indev # "disc" /\ outdev # "disc" /\ Len(sess) < MaxSessions
    /\ HasHeader(1) /\ medium[1].n + n <= MediumUnits
    /\ LET s == Len(sess) + 1
           start == medium[1].n
           old == sess[HeadSession]
       IN  /\ sess' = Append(sess, [start |-> start, size |-> n, padded |-> n,
                                    refs |-> {s} \cup old.refs,
                                    sound |-> \A r \in old.refs \cup Range(old.chain) :
                                                Intact(r),
                                    chain |-> old.chain \o <<s>>])
           /\ medium' = [u \in Units |->
                CASE u = 1 -> [SessionCell(s, n, 1) EXCEPT !.n = start + n]
                  [] u \in start .. start + n - 1 -> SessionCell(s, n, u - start)
                  [] OTHER -> medium[u]]
           /\ safe' = IF safe = 0 THEN 0 ELSE s
    /\ UNCHANGED <<xVars, o, pc, unit, cur, ending>>

Drives ==
    \/ \E in, out \in BOOLEAN :
         GiveUp(in, out) \/ AcquireDisc(in, out)
    \/ \E roles \in EjectRoles : Eject("in" \in roles, "out" \in roles)
    \/ AcquireOther

MSNext ==
    \/ Drives \/ Modify \/ Rollback
    \/ \E byEnd \in BOOLEAN : BeginSession(byEnd)
    \/ RefuseSession \/ PrintSize
    \/ WriteUnit \/ WriteFails \/ ActivateUnit \/ ActivateFails \/ SessionDone
    \/ Blank \/ EraseUnit \/ EraseEnds \/ Crash \/ Start
    \/ \E n \in ImageSizes : Growisofs(n)

MSSpec == MSInit /\ [][MSNext]_msVars

-----------------------------------------------------------------------------
(* Properties                                                              *)

Sessions == 1 .. Len(sess)

Cells == [k : {"zero", "sys", "vd", "data", "xx"}, s : Nat, n : Nat]

\* Variables stay within their types; the struct isoburn exists in full only
\* while the disc is acquired; steps of writing belong to one session.
MSTypeOK ==
    /\ medium \in [Units -> Cells] /\ safe \in 0 .. Len(sess)
    /\ indev \in {"none", "disc", "other"} /\ outdev \in {"none", "disc"}
    /\ img.refs \subseteq Sessions /\ img.present \in BOOLEAN
    /\ pending \in BOOLEAN /\ ending \in BOOLEAN
    /\ o.status \in {"unready", "blank", "appendable", "full"}
    /\ (o.status = "unready") = ("disc" \notin {indev, outdev})
    /\ pc \in {"cmd", "write", "wrote", "erase", "ended"} /\ unit \in Units
    /\ (cur # 0) = (pc \in {"write", "wrote"})

\* The series of sessions that ends with s began by an emulated first one.
Emulated(s) == sess[sess[s].chain[1]].start = 2

\* Whatever fails or gets interrupted, in any series of commands: the head of
\* the medium names a session that is complete, with all older sessions on
\* which its tree relies.  Only an image that begins at unit 0 has its
\* descriptors on the medium before its data, and is left out here.  And the
\* variables stay within their types.
LastSessionReadable ==
    /\ MSTypeOK
    /\ HasHeader(1) =>
          /\ HeadSession \in Sessions
          /\ Emulated(HeadSession) => \A s \in sess[HeadSession].refs : Intact(s)

\* What was reported as written successfully can be read from the medium
\* until the user has it blanked: its session belongs to those which the
\* head of the medium ends, and it is intact with all it relies on.
WrittenWellLasts ==
    safe # 0 =>
       /\ HasHeader(1) /\ HeadSession \in Sessions
       /\ safe \in Range(sess[HeadSession].chain)
       /\ sess[safe].sound => \A s \in sess[safe].refs : Intact(s)

\* The table of content of an emulated medium lists its sessions, whether
\* they are from this program or from growisofs, and none that was blanked,
\* interrupted or has failed.
TocListsSessions ==
    pc = "cmd" /\ o.status = "appendable" /\ Emulated(HeadSession)
    => LET chain == sess[HeadSession].chain
       IN o.toc = [i \in DOMAIN chain |->
                      TocEntry(sess[chain[i]].start, sess[chain[i]].size)]

\* Changes of the image in memory are known as pending until they are
\* written, revoked, or the program ends.
ChangesNotForgotten == [][
    /\ img.changed /\ pc = "cmd" => pending
    /\ img.changed /\ ~ img'.changed =>
         \/ pc' = "ended"
         \/ Rollback
         \/ pc = "wrote" /\ safe' = cur]_msVars

\* -dev and -indev never present an empty tree in place of a session that is
\* on the medium.
LoadedTreeIsComplete ==
    pc = "cmd" /\ indev = "disc" /\ o.status = "appendable"
       /\ o.msc1 = 0 /\ HasHeader(1)
    => img.refs = sess[HeadSession].refs
=============================================================================
