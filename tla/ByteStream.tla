----------------------------- MODULE ByteStream -----------------------------
(***************************************************************************)
(* What the ring buffer of libisofs (libisofs/buffer.c) promises to its    *)
(* two clients, the image writer thread and the consumer of the            *)
(* burn_source: a bounded stream of bytes, delivered once and in order,    *)
(* with an end of file that loses nothing and a broken pipe that is only   *)
(* ever reported for a buffer that nobody empties any more.                *)
(*                                                                         *)
(* A byte is identified by its position in the stream.                     *)
(***************************************************************************)
EXTENDS Naturals, Sequences

CONSTANT Cap      \* the most bytes that are accepted and not yet delivered

VARIABLES
    inflight,     \* bytes accepted and not yet delivered, oldest first
    accepted,     \* how many bytes have been accepted
    delivered,    \* the bytes handed to the reader, oldest first
    wclosed,      \* the writer announced the end of its input
    rclosed,      \* the reader announced the end of consumption
    eof,          \* the reader has been told that the stream ended
    broken        \* the writer has been told that the reader is gone

streamVars == <<inflight, accepted, delivered, wclosed, rclosed, eof, broken>>

StreamInit ==
    /\ inflight = <<>> /\ accepted = 0 /\ delivered = <<>>
    /\ wclosed = FALSE /\ rclosed = FALSE /\ eof = FALSE /\ broken = FALSE

\* k bytes enter the stream at once.
Put(k) ==
    /\ ~wclosed /\ ~broken
    /\ Len(inflight) + k <= Cap
    /\ inflight' = inflight \o [i \in 1..k |-> accepted + i - 1]
    /\ accepted' = accepted + k
    /\ UNCHANGED <<delivered, wclosed, rclosed, eof, broken>>

\* The k oldest bytes leave it.
Take(k) ==
    /\ k <= Len(inflight)
    /\ delivered' = delivered \o SubSeq(inflight, 1, k)
    /\ inflight' = SubSeq(inflight, k + 1, Len(inflight))
    /\ UNCHANGED <<accepted, wclosed, rclosed, eof, broken>>

CloseWriter ==
    /\ ~wclosed
    /\ wclosed' = TRUE
    /\ UNCHANGED <<inflight, accepted, delivered, rclosed, eof, broken>>

CloseReader ==
    /\ ~rclosed
    /\ rclosed' = TRUE
    /\ UNCHANGED <<inflight, accepted, delivered, wclosed, eof, broken>>

\* End of file is reported for a stream that is closed and drained.
ReportEof ==
    /\ wclosed /\ inflight = <<>>
    /\ eof' = TRUE
    /\ UNCHANGED <<inflight, accepted, delivered, wclosed, rclosed, broken>>

\* The writer learns of the reader's end when there is no room left.
ReportBroken ==
    /\ rclosed /\ Len(inflight) = Cap
    /\ broken' = TRUE
    /\ UNCHANGED <<inflight, accepted, delivered, wclosed, rclosed, eof>>

StreamNext ==
    \/ \E k \in 1..Cap : Put(k) \/ Take(k)
    \/ CloseWriter \/ CloseReader
    \/ ReportEof \/ ReportBroken

StreamSpec == StreamInit /\ [][StreamNext]_streamVars
=============================================================================
