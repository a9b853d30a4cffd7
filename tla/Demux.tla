------------------------------- MODULE Demux -------------------------------
(***************************************************************************)
(* From RTP packets to NAL units: RTPReceiver.parseRTP                     *)
(* (internal/service/rtp_receiver.go) and PSDemuxer                        *)
(* (internal/service/ps_demuxer.go).  A device sends a program stream of   *)
(* a few units, cut into RTP packets anywhere; the packets arrive whole    *)
(* and in order.  Bytes are numbers; only 0, 1 and the codes matter.       *)
(***************************************************************************)
EXTENDS Naturals, Sequences, FiniteSets, SequencesExt

CONSTANTS
    Units,        \* the units a device may send: see Encoded
    MaxUnits,     \* bound on the units of one stream
    Forms         \* headers and padding of RTP packets: see Packet

VARIABLES
    units,        \* what the device sends
    fed,          \* bytes of it that have arrived
    buffer,       \* PSDemuxer.buffer
    idle,         \* parseAvailable has returned
    out           \* the NAL units given to onNALU

psVars == <<units, fed, buffer, idle, out>>

-----------------------------------------------------------------------------
(* What a device sends                                                     *)

StartCode == <<0, 0, 1>>

\* A pack header; a structure with its length (a system header, a stream map or
\* a PES that is no video); a video PES with its length, which goes on with the
\* unit an earlier one has begun (lead) and then holds NAL units behind start
\* codes of four bytes, the last perhaps not to its end; and a video PES without
\* a length, which holds any bytes.
Sized(s)       == <<Len(s) \div 256, Len(s) % 256>> \o s
Payload(nalus) == FlattenSeq([i \in DOMAIN nalus |-> <<0>> \o StartCode \o nalus[i]])
Body(opt, load) == <<128, 0, Len(opt)>> \o opt \o load
Encoded(u) ==
    CASE u.kind = "pack"  -> StartCode \o <<186, 68>> \o u.rest
      [] u.kind = "other" -> StartCode \o <<u.code>> \o Sized(u.body)
      [] u.kind = "video" -> StartCode \o <<u.code>> \o Sized(Body(u.opt, u.lead \o Payload(u.nalus)))
      [] u.kind = "open"  -> StartCode \o <<u.code>> \o (<<0, 0>> \o Body(u.opt, u.load))

Stream == FlattenSeq([i \in DOMAIN units |-> Encoded(units[i])])

\* An RTP packet with csrc identifiers, an extension of ext words (none when
\* ext = 0) and pad bytes of padding.  The fixed header is a record.
Packet(bytes, form) ==
    [version |-> 2, padding |-> form.pad > 0, extension |-> form.ext > 0, cc |-> form.csrc,
     data |-> [i \in 1..(4 * form.csrc) |-> 7]
              \o (IF form.ext > 0 THEN <<7, 7, form.ext \div 256, form.ext % 256>> \o [i \in 1..(4 * form.ext) |-> 7]
                  ELSE <<>>)
              \o bytes
              \o [i \in 1..form.pad |-> form.pad]]

-----------------------------------------------------------------------------
(* parseRTP                                                                *)

Word(s, i)  == 256 * s[i] + s[i + 1]
Drop(s, n)  == SubSeq(s, n + 1, Len(s))

\* Mutant of Unpadded: the byte that counts the padding is left in.
UnpaddedShort(s) == SubSeq(s, 1, Len(s) - s[Len(s)] + 1)

\* The last byte counts the padding, itself included.
Unpadded(s) == IF s[Len(s)] < Len(s) THEN SubSeq(s, 1, Len(s) - s[Len(s)]) ELSE s

ParseRTP(p) ==
    LET csrc    == 4 * p.cc
        whole   == ~p.extension \/ Len(p.data) >= csrc + 4
        offset  == csrc + IF p.extension THEN 4 + 4 * Word(p.data, csrc + 3) ELSE 0
    IN  IF p.version # 2 \/ ~whole THEN <<>>
        ELSE IF offset >= Len(p.data) THEN <<>>
        ELSE LET payload == Drop(p.data, offset)
             IN  IF p.padding THEN Unpadded(payload) ELSE payload

-----------------------------------------------------------------------------
(* PSDemuxer                                                               *)

CodeAt(s, i) == i + 2 <= Len(s) /\ s[i] = 0 /\ s[i + 1] = 0 /\ s[i + 2] = 1

\* The first start code from position i on with room bytes behind it, or 0.
FirstCode(s, i, room) ==
    LET at == {k \in i..(Len(s) - 2 - room) : CodeAt(s, k)} IN IF at = {} THEN 0 ELSE Min(at)

Trimmed(s) ==
    LET kept == {0} \cup {i \in DOMAIN s : s[i] # 0} IN SubSeq(s, 1, Max(kept))

\* Of the NAL units that begin in a PES, in order, what it holds of them.
Heads(nalus) ==
    IF nalus = <<>> THEN <<>>
    ELSE LET head == Trimmed(Last(nalus))
         IN  IF head = <<>> THEN Front(nalus) ELSE Append(Front(nalus), head)

\* Of every NAL unit of the stream, in order, what the PES holds that holds its
\* start code.
Sent == FlattenSeq([i \in DOMAIN units |-> IF units[i].kind = "video" THEN Heads(units[i].nalus) ELSE <<>>])

\* extractNALUs: what stands between start codes of three or four bytes,
\* without trailing zeros, empty units left out.
NALUAt(s, i) ==
    LET later == {k \in (i + 3)..Len(s) : CodeAt(s, k)}
    IN  Trimmed(SubSeq(s, i + 3, IF later = {} THEN Len(s) ELSE Min(later) - 1))
WithNALUAt(ns, s, i) ==
    IF CodeAt(s, i) /\ NALUAt(s, i) # <<>> THEN Append(ns, NALUAt(s, i)) ELSE ns
ExtractNALUs(s) ==
    LET extract[i \in 0..Len(s)] == IF i = 0 THEN <<>> ELSE WithNALUAt(extract[i - 1], s, i)
    IN  extract[Len(s)]

Wait    == [consumed |-> 0, nalus |-> <<>>]
Skip(n) == [consumed |-> n, nalus |-> <<>>]

\* Pack header: of 14 bytes in MPEG-2, which the bit after its code tells, else 12.
ParsePackHeader(s) ==
    IF Len(s) < 14 THEN Wait ELSE Skip(IF (s[5] \div 64) % 2 = 1 THEN 14 ELSE 12)

\* System header and stream map: skipped when they are complete.
ParseHeader(s) ==
    IF Len(s) < 6 \/ Len(s) < 6 + Word(s, 5) THEN Wait ELSE Skip(6 + Word(s, 5))

\* Mutant of ParsePES: the payload is taken as far as it has arrived.
ParsePESEager(s, video) ==
    IF Len(s) < 9 THEN Wait
    ELSE LET total == IF 6 + Word(s, 5) <= Len(s) THEN 6 + Word(s, 5) ELSE Len(s)
         IN  [consumed |-> total,
              nalus |-> IF video THEN ExtractNALUs(SubSeq(s, 10 + s[9], total)) ELSE <<>>]

\* A PES without a length ends at the first start code of its own payload, or
\* with what has arrived.
ParsePES(s, video) ==
    LET length  == Word(s, 5)
        payload == 9 + s[9]
        next    == FirstCode(s, payload + 2, 0)
        total   == IF length > 0 THEN 6 + length ELSE IF next = 0 THEN Len(s) ELSE next - 1
    IN  IF Len(s) < 9 THEN Wait
        ELSE IF Len(s) < total THEN Wait
        ELSE IF payload >= total \/ ~video THEN Skip(total)
        ELSE [consumed |-> total, nalus |-> ExtractNALUs(SubSeq(s, payload + 1, total))]

\* The structure at the head of the buffer, by the byte after the start code;
\* an unknown one, and bytes that hold no start code, lose four bytes.
ParseUnit(s) ==
    LET code == s[4]
    IN  CASE code = 186              -> ParsePackHeader(s)
          [] code \in {187, 188}     -> ParseHeader(s)
          [] code \in 189..191       -> ParsePES(s, FALSE)
          [] code \in 224..239       -> ParsePES(s, TRUE)
          [] OTHER                   -> Skip(4)

\* parseOne drops what stands before the first start code.
Aligned(s) ==
    LET at == FirstCode(s, 1, 1) IN IF at = 0 THEN s ELSE Drop(s, at - 1)

-----------------------------------------------------------------------------
Free(s)  == \A i \in DOMAIN s : ~CodeAt(s, i)
\* A NAL unit holds no start code and does not end with a zero.
Plain(n) == n # <<>> /\ n[Len(n)] # 0 /\ Free(n)

Uint16 == {n \in Nat : n < 65536}

\* Structures fit their length of two bytes, an optional header that of one.
\* What is cut off a NAL unit may be empty or end with zeros.
ASSUME DevicesSendPS ==
    /\ MaxUnits \in Nat
    /\ \A u \in Units :
        \/ u.kind = "pack" /\ u.rest \in [1..9 -> 0..255]
        \/ /\ u.kind = "other" /\ u.body \in Seq(0..255) /\ Len(u.body) \in Uint16
           /\ u.code \in 187..191 /\ (u.code > 188 => Len(u.body) > 2)
        \/ /\ u.kind = "video" /\ u.code \in 224..239
           /\ u.opt \in Seq(0..255) /\ Len(u.opt) < 256
           /\ u.lead \in Seq(0..255) /\ Free(u.lead)
           /\ u.nalus \in Seq(Seq(0..255)) /\ \A i \in DOMAIN u.nalus : Free(u.nalus[i])
           /\ \A i \in DOMAIN u.nalus : i = Len(u.nalus) \/ Plain(u.nalus[i])
           /\ Len(u.opt) + 3 + Len(u.lead \o Payload(u.nalus)) \in Uint16
        \/ /\ u.kind = "open" /\ u.code \in 224..239
           /\ u.opt \in Seq(0..255) /\ Len(u.opt) < 256 /\ u.load \in Seq(0..255)
    /\ \A form \in Forms : form.csrc \in 0..15 /\ form.ext \in Uint16 /\ form.pad \in 0..255

PsTypeOK ==
    /\ units \in UNION {[1..n -> Units] : n \in 1..MaxUnits}
    /\ fed \in 0..Len(Stream) /\ Len(buffer) <= fed
    /\ idle \in BOOLEAN

PsInit ==
    /\ units \in UNION {[1..n -> Units] : n \in 1..MaxUnits}
    /\ fed = 0 /\ buffer = <<>> /\ idle = TRUE /\ out = <<>>

\* Feed: the next packet, under the demuxer's mutex.
Feed ==
    /\ idle
    /\ \E last \in (fed + 1)..Len(Stream), form \in Forms :
        /\ buffer' = buffer \o ParseRTP(Packet(SubSeq(Stream, fed + 1, last), form))
        /\ fed' = last
    /\ idle' = FALSE
    /\ UNCHANGED <<units, out>>

\* One turn of parseAvailable's loop.
ParseOne ==
    /\ ~idle
    /\ IF Len(buffer) < 4
       THEN idle' = TRUE /\ UNCHANGED <<buffer, out>>
       ELSE LET s == Aligned(buffer)
                r == ParseUnit(s)
            IN  /\ buffer' = Drop(s, r.consumed)
                /\ out' = out \o r.nalus
                /\ idle' = (r.consumed = 0)
    /\ UNCHANGED <<units, fed>>

PsNext == Feed \/ ParseOne

PsSpec == PsInit /\ [][PsNext]_psVars

\* What stands in s directly behind a start code, up to the next at most.
Genuine(s, n) ==
    /\ n # <<>> /\ Free(n)
    /\ \E k \in 1..(Len(s) - 2 - Len(n)) : CodeAt(s, k) /\ n = SubSeq(s, k + 3, k + 2 + Len(n))

\* Wherever the packets are cut and whatever their headers: nothing delivered
\* is joined of two units; and if every PES gives its length, what is delivered
\* is, of every NAL unit, the part in the PES with its start code, in order, once
\* and without a loss.  So a unit that goes on in another PES (it has to above
\* 64 KB) is cut, by extractNALUs.  Units of a PES without a length may be cut
\* and lost altogether: parsePES takes a start code of its payload for its end,
\* or the end of what has arrived, and goes on from there.
DemuxExact ==
    /\ \A i \in DOMAIN out : Genuine(Stream, out[i])
    /\ (\A i \in DOMAIN units : units[i].kind # "open") =>
        /\ IsPrefix(out, Sent)
        /\ idle /\ fed = Len(Stream) => out = Sent
=============================================================================
