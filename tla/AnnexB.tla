------------------------------- MODULE AnnexB -------------------------------
(***************************************************************************)
(* What comes out of FFmpeg's stdout in internal/service/stream.go: NAL    *)
(* units between start codes (parseH264Stream) or JPEG frames between FFD8 *)
(* and FFD9 (parseMJPEGFrames).  FFmpeg writes whole items; the pipe cuts  *)
(* them into reads anywhere and ends anywhere, when FFmpeg is killed.      *)
(***************************************************************************)
EXTENDS Naturals, Sequences, FiniteSets, SequencesExt

CONSTANTS
    Outputs,      \* what FFmpeg may write: [kind, items], see Written
    MaxRead,      \* bytes of one Read at most
    Limit         \* bytes that may be pending after a read

VARIABLES
    output,       \* what FFmpeg writes
    taken,        \* bytes of it that were read
    pending,      \* the bytes of an item that is not complete
    phase,        \* reading, extracting what is complete, or ended
    eof,          \* the last Read returned an error
    items         \* the NAL units or frames extracted so far

annVars == <<output, taken, pending, phase, eof, items>>

-----------------------------------------------------------------------------
\* NAL units behind start codes of four bytes, or frames as they are.
Framed(kind, item) == IF kind = "nalu" THEN <<0, 0, 0, 1>> \o item ELSE item
Written == FlattenSeq([i \in DOMAIN output.items |-> Framed(output.kind, output.items[i])])

Behind(s, n) == SubSeq(s, n + 1, Len(s))

\* indexStartCode and indexBytesFrom: the first place of the marker from
\* position i on, or 0.
IndexFrom(s, marker, i) ==
    LET at == {k \in i..(Len(s) - Len(marker) + 1) : SubSeq(s, k, k + Len(marker) - 1) = marker}
    IN  IF at = {} THEN 0 ELSE Min(at)

StartMarker == <<0, 0, 1>>
SOI == <<255, 216>>
EOI == <<255, 217>>

\* The first complete item of s: the item, and how many bytes it and what is
\* before it take.  A NAL unit ends where the next start code does begin,
\* looked for past the first byte of the unit, and keeps the zero that makes
\* that start code four bytes long.
CompleteNALU(s) ==
    LET start == IndexFrom(s, StartMarker, 1)
        next  == IndexFrom(s, StartMarker, start + 4)
    IN  IF start = 0 \/ next = 0 THEN {}
        ELSE {[item |-> SubSeq(s, start + 3, next - 1), used |-> next - 1]}

CompleteFrame(s) ==
    LET soi == IndexFrom(s, SOI, 1)
        eoi == IndexFrom(s, EOI, soi + 2)
    IN  IF soi = 0 \/ eoi = 0 THEN {}
        ELSE {[item |-> SubSeq(s, soi, eoi + 1), used |-> eoi + 1]}

Complete(s) == IF output.kind = "nalu" THEN CompleteNALU(s) ELSE CompleteFrame(s)

\* At the end of the stream the last NAL unit is what has arrived of it; a
\* frame that is not complete is lost.
LastItem(s) ==
    LET start == IndexFrom(s, StartMarker, 1)
    IN  IF output.kind = "nalu" /\ start # 0 /\ Behind(s, start + 2) # <<>>
        THEN <<Behind(s, start + 2)>> ELSE <<>>

-----------------------------------------------------------------------------
\* A NAL unit holds no start code and does not end with a zero; a frame holds
\* no marker but its first and its last one.
Whole(kind, item) ==
    IF kind = "nalu"
    THEN item # <<>> /\ item[Len(item)] # 0 /\ IndexFrom(item, StartMarker, 1) = 0
    ELSE /\ Len(item) > 3 /\ SubSeq(item, 1, 2) = SOI /\ SubSeq(item, Len(item) - 1, Len(item)) = EOI
         /\ \A k \in 2..(Len(item) - 2) : SubSeq(item, k, k + 1) \notin {SOI, EOI}

ASSUME FFmpegWritesItems ==
    /\ Outputs # {} /\ MaxRead \in Nat /\ Limit \in Nat
    /\ \A o \in Outputs :
        /\ o.kind \in {"nalu", "jpeg"} /\ o.items \in Seq(Seq(0..255))
        /\ \A i \in DOMAIN o.items : Whole(o.kind, o.items[i])

AnnTypeOK ==
    /\ output \in Outputs
    /\ taken \in 0..Len(Written) /\ Len(pending) <= Limit + MaxRead
    /\ phase \in {"read", "extract", "ended"} /\ eof \in BOOLEAN

AnnInit ==
    /\ output \in Outputs
    /\ taken = 0 /\ pending = <<>> /\ phase = "read" /\ eof = FALSE /\ items = <<>>

-----------------------------------------------------------------------------
\* Read returns the next bytes, or none and an error, wherever the stream is.
Read ==
    /\ phase = "read"
    /\ \E n \in 0..MaxRead :
        /\ taken + n <= Len(Written)
        /\ pending' = pending \o SubSeq(Written, taken + 1, taken + n)
        /\ taken' = taken + n
        /\ eof' = (n = 0)
    /\ phase' = "extract"
    /\ UNCHANGED <<output, items>>

Extract ==
    /\ phase = "extract"
    /\ \E found \in Complete(pending) :
        /\ items' = Append(items, found.item)
        /\ pending' = Behind(pending, found.used)
    /\ UNCHANGED <<output, taken, phase, eof>>

\* Nothing complete is left: too much is dropped, and the stream goes on or
\* ends.
Rest ==
    /\ phase = "extract" /\ Complete(pending) = {}
    /\ LET kept == IF Len(pending) > Limit THEN <<>> ELSE pending
       IN  /\ items' = IF eof THEN items \o LastItem(kept) ELSE items
           /\ pending' = IF eof THEN <<>> ELSE kept
    /\ phase' = IF eof THEN "ended" ELSE "read"
    /\ UNCHANGED <<output, taken, eof>>

AnnNext == Read \/ Extract \/ Rest

AnnSpec == AnnInit /\ [][AnnNext]_annVars

-----------------------------------------------------------------------------
(* Properties                                                              *)

WithoutZeros(s) ==
    LET kept == {0} \cup {i \in DOMAIN s : s[i] # 0} IN SubSeq(s, 1, Max(kept))

\* What was extracted, without the zeros that belong to the next start code.
Extracted == [i \in DOMAIN items |-> WithoutZeros(items[i])]

\* "Handles NAL units that cross the boundaries of reads, and loses no byte"
\* (stream.go:396): wherever the reads are cut, the items extracted are items
\* that were written, each once, whole and in order; the last NAL unit may be
\* cut where the stream ended.  When every item fits into the limit none is
\* passed over, and at the end of all that was written none is missing.
ItemsIntact ==
    LET fits   == \A i \in DOMAIN output.items : Len(output.items[i]) + 7 <= Limit
        cut(i) == phase = "ended" /\ output.kind = "nalu" /\ i = Len(items)
    IN  /\ \E at \in [DOMAIN items -> DOMAIN output.items] :
            /\ \A i, j \in DOMAIN items : i < j => at[i] < at[j]
            /\ \A i \in DOMAIN items :
                IF cut(i) THEN IsPrefix(Extracted[i], output.items[at[i]])
                ELSE Extracted[i] = output.items[at[i]]
            /\ fits => \A i \in DOMAIN items : at[i] = i
        /\ phase = "ended" /\ taken = Len(Written) /\ fits => Extracted = output.items
=============================================================================
