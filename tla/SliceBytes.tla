----------------------------- MODULE SliceBytes -----------------------------
(***************************************************************************)
(* How the incremental decoder reads the coded slice of an item            *)
(* (src/bounded/incremental.rs, read_range of src/bounded/container.rs,    *)
(* the stream input of hevc/cabac.rs): the item is a list of extents of    *)
(* the source, the slice is one of the NAL units in it, and its bytes go   *)
(* through four readers that each remember something:                      *)
(*                                                                         *)
(*   ItemRange   the position in the item, across its extents;             *)
(*   BufReader   bytes read ahead;                                         *)
(*   Rbsp        how many zeroes came last, to drop the emulation          *)
(*               prevention byte (EPB) of 0 0 3;                           *)
(*   CABAC       a buffer of its own, and that a read has failed.          *)
(*                                                                         *)
(* decode_bounded and the eager decoder read the whole item first and      *)
(* strip the EPBs from memory: that is what the readers are held against.  *)
(* A byte is 0, 3 or anything else; a read from the source may fail at any *)
(* time, for good or just once.                                            *)
(***************************************************************************)
EXTENDS Naturals, Sequences, FiniteSets, SequencesExt

CONSTANTS
    Payloads,       \* what the coded slice may be, after its NAL header
    Before,         \* NAL units in front of it in the item
    After,          \* and behind it
    Cuts,           \* where the item may be cut into two extents
    PrefixBytes,    \* bytes of the slice kept to parse its header, 65536
    SkipBytes,      \* bytes of the header skipped at a time, 512
    ReadAhead,      \* capacity of the BufReader, 16384
    Capacity,       \* of StreamInput.buffer, 16384
    MaxNals,        \* NAL units of an item at most, 1024
    MaxAsked,       \* bound: bytes asked for by one CTU
    MaxCtus         \* bound: coding tree units of the slice

ASSUME SliceAssumption ==
    /\ \A p \in Payloads : p \in Seq(Nat)
    /\ Cuts \subseteq Nat
    /\ PrefixBytes \in Nat /\ PrefixBytes >= 2
    /\ {SkipBytes, ReadAhead, Capacity, MaxNals} \subseteq Nat \ {0}
    /\ MaxAsked \in Nat /\ MaxCtus \in Nat \ {0}

VARIABLES
    payload,    \* the bytes of the coded slice, for reference
    file,       \* the source
    extents,    \* those of the item
    pc, resume,
    position,   \* in the item: of slice(), then of ItemRange
    nals,       \* NAL units seen by slice()
    found,      \* its result: << >>, or where the slice is
    dataOffset, \* bytes of the slice header, without EPBs
    remaining,  \* ItemRange.remaining
    ahead,      \* what BufReader has read ahead
    zeroes,     \* Rbsp.zeroes
    filling,    \* the output of the Rbsp::read under way
    toSkip,     \* header bytes that decode_stream has still to skip
    buffer,     \* the unread part of StreamInput.buffer
    failed,     \* StreamInput.failed
    asked,      \* calls of next_byte since the last check_input
    dry,        \* one of them found the end of the slice
    taken,      \* the bytes that next_byte has returned
    ctus,       \* coding tree units accepted
    result

inputVars == <<payload, file, extents>>
scanVars == <<nals, found, dataOffset>>
readerVars == <<position, remaining, ahead, zeroes>>
cabacVars == <<buffer, failed, asked, dry, taken>>
vars == <<inputVars, pc, resume, scanVars, readerVars, filling, toSkip,
          cabacVars, ctus, result>>

Smaller(a, b) == IF a < b THEN a ELSE b

-----------------------------------------------------------------------------
(* NAL units, with a length of one byte.  An access unit delimiter or SEI  *)
(* may stand beside the slice; nothing else may.                           *)

Idr == 19
Ignored == {35, 38, 39, 40}

Nal(kind, body) == <<Len(body) + 2, 2 * kind, 1>> \o body

\* NAL units start at these positions of the bytes in front of the slice, and
\* none of them is a slice.
Delimits(starts, bytes) ==
    /\ 0 \in starts
    /\ \A p \in starts : p < Len(bytes) =>
           /\ p + 2 <= Len(bytes)
           /\ bytes[p + 2] \div 2 # Idr
           /\ p + 1 + bytes[p + 1] \in starts

ASSUME ItemAssumption ==
    /\ \A after \in After : after \in Seq(Nat)
    /\ \A before \in Before :
           /\ before \in Seq(Nat)
           /\ \E starts \in SUBSET (0 .. Len(before)) : Delimits(starts, before)

\* The item, from the extents of the source that hold it.
Item == FlattenSeq([k \in 1 .. Len(extents) |->
            SubSeq(file, extents[k].offset + 1,
                   extents[k].offset + extents[k].length)])

ItemLength == FoldLeft(LAMBDA n, e : n + e.length, 0, extents)

\* Index::read_range: the extents in front of the position are passed over,
\* then each gives what is left of it until the output is full.
ReadRange(from, count) ==
    FoldLeft(LAMBDA read, e :
                 IF Len(read.output) = count THEN read
                 ELSE IF read.skip >= e.length
                 THEN [read EXCEPT !.skip = @ - e.length]
                 ELSE LET n == Smaller(count - Len(read.output),
                                       e.length - read.skip)
                          start == e.offset + read.skip
                      IN  [skip |-> 0,
                           output |-> read.output
                                      \o SubSeq(file, start + 1, start + n)],
             [skip |-> from, output |-> << >>],
             extents).output

\* remove_emulation_prevention and parse_single_nal_bounded: the positions
\* (from zero) of the EPBs, and the bytes without them.
Skipped(bytes) ==
    {i \in 2 .. Len(bytes) - 1 :
        bytes[i + 1] = 3 /\ bytes[i] = 0 /\ bytes[i - 1] = 0}

Sorted(positions) ==
    [n \in 1 .. Cardinality(positions) |->
        CHOOSE p \in positions : Cardinality({q \in positions : q < p}) = n - 1]

Stripped(bytes) ==
    LET kept == Sorted({i \in 0 .. Len(bytes) - 1 : i \notin Skipped(bytes)})
    IN  [k \in DOMAIN kept |-> bytes[kept[k] + 1]]

\* What is left of a slice to decode its header: prefix.
Prefix == Stripped(SubSeq(payload, 1, Smaller(Len(payload), PrefixBytes - 2)))

\* What the slice data are when the slice is in memory.
Whole == LET bytes == Stripped(payload)
         IN  SubSeq(bytes, dataOffset + 1, Len(bytes))

-----------------------------------------------------------------------------
(* Entry points of the substreams of a slice (hevc/mod.rs).  The header    *)
(* counts transmitted bytes; the decoder seeks in the stripped ones.       *)

\* The EPBs in the header: the first of those that, stripped, lie in it.
HeaderEpbs(offset) ==
    LET skipped == Sorted(Skipped(payload))
        Inside(n) == skipped[n] < offset + n - 1
    IN  Cardinality({n \in 1 .. Len(skipped) : \A m \in 1 .. n : Inside(m)})

\* Mutant of EntryPoint: an EPB at the start of the substream is counted.
EntryPointInclusive(offset, transmitted) ==
    LET start == offset + HeaderEpbs(offset)
    IN  transmitted - Cardinality({p \in Skipped(payload) :
                            p >= start /\ p - start <= transmitted})

\* decode_slice: the offset of a substream, less the EPBs before it.
EntryPoint(offset, transmitted) ==
    LET start == offset + HeaderEpbs(offset)
    IN  transmitted - Cardinality({p \in Skipped(payload) :
                            p >= start /\ p - start < transmitted})

-----------------------------------------------------------------------------
Layout(bytes, cut, swapped) ==
    LET head == SubSeq(bytes, 1, cut)
        tail == SubSeq(bytes, cut + 1, Len(bytes))
        none == [offset |-> 0, length |-> 0]
    IN  IF swapped
        THEN [file |-> tail \o head,
              extents |-> <<[offset |-> Len(tail), length |-> cut], none,
                            [offset |-> 0, length |-> Len(tail)]>>]
        ELSE [file |-> bytes,
              extents |-> <<[offset |-> 0, length |-> cut], none,
                            [offset |-> cut, length |-> Len(tail)]>>]

Init ==
    /\ payload \in Payloads
    /\ \E before \in Before, after \in After, swapped \in BOOLEAN :
           LET bytes == before \o Nal(Idr, payload) \o after
           IN  \E cut \in {c \in Cuts : c <= Len(bytes)} :
                   /\ file = Layout(bytes, cut, swapped).file
                   /\ extents = Layout(bytes, cut, swapped).extents
    /\ pc = "scan" /\ resume = "scan"
    /\ position = 0 /\ nals = 0 /\ found = << >>
    /\ dataOffset = 0 /\ remaining = 0
    /\ ahead = << >> /\ zeroes = 0 /\ filling = << >> /\ toSkip = 0
    /\ buffer = << >> /\ failed = FALSE /\ asked = 0 /\ dry = FALSE
    /\ taken = << >> /\ ctus = 0 /\ result = "none"

Return(outcome) ==
    /\ pc' = "returned"
    /\ result' = outcome
    /\ UNCHANGED <<inputVars, resume, scanVars, readerVars, filling, toSkip,
                   cabacVars, ctus>>

-----------------------------------------------------------------------------
(* slice() and Prepared::new.                                              *)

Here(n) == ReadRange(position + n, 1)[1]

\* The NAL unit at the position is not one the decoder accepts.
Unacceptable ==
    \/ nals = MaxNals
    \/ position + 1 > ItemLength
    \/ Here(0) < 2
    \/ Here(0) > ItemLength - position - 1
    \/ Here(1) % 2 # 0 \/ Here(2) # 1
    \/ Here(1) \div 2 = Idr /\ found # << >>
    \/ Here(1) \div 2 \notin Ignored \cup {Idr}

ScanNal ==
    /\ pc = "scan"
    /\ position < ItemLength
    /\ ~Unacceptable
    /\ nals' = nals + 1
    /\ found' = IF Here(1) \div 2 = Idr
                THEN <<[offset |-> position + 3, length |-> Here(0) - 2]>>
                ELSE found
    /\ position' = position + 1 + Here(0)
    /\ UNCHANGED <<inputVars, pc, resume, dataOffset, remaining, ahead, zeroes,
                   filling, toSkip, cabacVars, ctus, result>>

\* A NAL unit is refused, there is no slice, or the source cannot be read.
FailScan ==
    /\ pc = "scan"
    /\ \/ position < ItemLength
       \/ found = << >>
    /\ Return("refused")

\* The header is parsed from the prefix: it has any length that leaves a byte
\* of the prefix for the data.
Prepare ==
    /\ pc = "scan"
    /\ position = ItemLength
    /\ found # << >>
    /\ \E n \in 0 .. Len(Prefix) :
           \/ n = Len(Prefix) /\ Return("refused")
           \/ /\ n < Len(Prefix)
              /\ dataOffset' = n
              /\ toSkip' = n
              /\ position' = found[1].offset
              /\ remaining' = found[1].length
              /\ pc' = "skip"
              /\ UNCHANGED <<inputVars, resume, nals, found, ahead, zeroes,
                             filling, cabacVars, ctus, result>>

-----------------------------------------------------------------------------
(* A read through the chain.                                               *)

\* Rbsp::read is called with an output of the given size.
Wanted == IF resume = "skip" THEN Smaller(toSkip, SkipBytes) ELSE Capacity

StartRead(label) ==
    /\ pc' = "read"
    /\ resume' = label
    /\ filling' = << >>

\* BufReader is empty and asks ItemRange.
FillAhead ==
    /\ pc = "read"
    /\ Len(filling) < Wanted
    /\ ahead = << >>
    /\ remaining > 0
    /\ LET count == Smaller(ReadAhead, remaining)
       IN  /\ ahead' = ReadRange(position, count)
           /\ position' = position + count
           /\ remaining' = remaining - count
    /\ UNCHANGED <<inputVars, pc, resume, scanVars, zeroes, filling, toSkip,
                   cabacVars, ctus, result>>

\* Rbsp passes a byte on, or drops it.
PassByte ==
    /\ pc = "read"
    /\ Len(filling) < Wanted
    /\ ahead # << >>
    /\ ahead' = Tail(ahead)
    /\ IF zeroes = 2 /\ Head(ahead) = 3
       THEN zeroes' = 0 /\ UNCHANGED filling
       ELSE /\ zeroes' = IF Head(ahead) = 0 THEN Smaller(zeroes + 1, 2) ELSE 0
            /\ filling' = Append(filling, Head(ahead))
    /\ UNCHANGED <<inputVars, pc, resume, scanVars, position, remaining,
                   toSkip, cabacVars, ctus, result>>

\* The output is full, or the slice has ended.
ReadEnds ==
    /\ pc = "read"
    /\ \/ Len(filling) = Wanted
       \/ ahead = << >> /\ remaining = 0

\* The source fails.
ReadFails ==
    pc = "read" /\ Len(filling) < Wanted /\ ahead = << >> /\ remaining > 0

-----------------------------------------------------------------------------
(* decode_stream skips the header, then the arithmetic decoder starts.     *)

StartSkip ==
    /\ pc = "skip"
    /\ toSkip > 0
    /\ StartRead("skip")
    /\ UNCHANGED <<inputVars, scanVars, readerVars, toSkip, cabacVars, ctus,
                   result>>

EndSkip ==
    /\ ReadEnds
    /\ resume = "skip"
    /\ Len(filling) = Wanted
    /\ toSkip' = toSkip - Wanted
    /\ filling' = << >>
    /\ pc' = "skip"
    /\ UNCHANGED <<inputVars, resume, scanVars, readerVars, cabacVars,
                   ctus, result>>

\* read_exact fails: both are "truncated slice header".
FailSkip ==
    /\ resume = "skip"
    /\ ReadFails \/ (ReadEnds /\ Len(filling) < Wanted)
    /\ Return("error")

Skip ==
    /\ pc = "skip"
    /\ toSkip = 0
    /\ pc' = "start"
    /\ UNCHANGED <<inputVars, resume, scanVars, readerVars, filling, toSkip,
                   cabacVars, ctus, result>>

\* next_byte: two bytes to start with, then as many as a CTU needs.
NextByte ==
    \/ pc = "start" /\ asked < 2
    \/ pc = "ctu" /\ asked < MaxAsked /\ ctus < MaxCtus

\* It comes from the buffer.
TakeByte ==
    /\ NextByte
    /\ buffer # << >>
    /\ taken' = Append(taken, Head(buffer))
    /\ buffer' = Tail(buffer)
    /\ asked' = asked + 1
    /\ UNCHANGED <<inputVars, pc, resume, scanVars, readerVars, filling,
                   toSkip, failed, dry, ctus, result>>

\* The buffer is empty: next_byte reads, whether a read has failed or not.
AskForMore ==
    /\ NextByte
    /\ buffer = << >>
    /\ StartRead(pc)
    /\ UNCHANGED <<inputVars, scanVars, readerVars, toSkip, cabacVars, ctus,
                   result>>

\* Mutant of EndRead: the zeroes are counted from the start of each read.
EndReadForgets ==
    /\ ReadEnds
    /\ resume # "skip"
    /\ IF filling = << >>
       THEN dry' = TRUE /\ UNCHANGED <<buffer, taken>>
       ELSE /\ taken' = Append(taken, Head(filling))
            /\ buffer' = Tail(filling)
            /\ UNCHANGED dry
    /\ asked' = asked + 1
    /\ filling' = << >>
    /\ pc' = resume
    /\ zeroes' = 0
    /\ UNCHANGED <<inputVars, resume, scanVars, position, remaining, ahead,
                   toSkip, failed, ctus, result>>

\* What was read is taken over; nothing is the end of the slice, after which
\* the decoder goes on with zero bits.
EndRead ==
    /\ ReadEnds
    /\ resume # "skip"
    /\ IF filling = << >>
       THEN dry' = TRUE /\ UNCHANGED <<buffer, taken>>
       ELSE /\ taken' = Append(taken, Head(filling))
            /\ buffer' = Tail(filling)
            /\ UNCHANGED dry
    /\ asked' = asked + 1
    /\ filling' = << >>
    /\ pc' = resume
    /\ UNCHANGED <<inputVars, resume, scanVars, readerVars, toSkip,
                   failed, ctus, result>>

\* The bytes that Rbsp had read before are lost, and next_byte says None.
FailRead ==
    /\ ReadFails
    /\ resume # "skip"
    /\ failed' = TRUE
    /\ asked' = asked + 1
    /\ filling' = << >>
    /\ pc' = resume
    /\ UNCHANGED <<inputVars, resume, scanVars, readerVars, toSkip,
                   buffer, dry, taken, ctus, result>>

\* new_stream: two bytes, or an error.
Start ==
    /\ pc = "start"
    /\ asked = 2
    /\ \/ /\ ~failed
          /\ Len(taken) = 2
          /\ pc' = "ctu"
          /\ asked' = 0
          /\ UNCHANGED <<inputVars, resume, scanVars, readerVars, filling,
                         toSkip, buffer, failed, dry, taken, ctus, result>>
       \/ /\ failed \/ Len(taken) < 2
          /\ Return("error")

\* Mutant of AcceptCtu: the input is not checked.
AcceptCtuUnchecked ==
    /\ pc = "ctu"
    /\ ctus < MaxCtus
    /\ ctus' = ctus + 1
    /\ asked' = 0
    /\ UNCHANGED <<inputVars, pc, resume, scanVars, readerVars, filling,
                   toSkip, buffer, failed, dry, taken, result>>

\* decode_row: after every CTU the input is checked.
AcceptCtu ==
    /\ pc = "ctu"
    /\ ctus < MaxCtus
    /\ ~failed
    /\ ctus' = ctus + 1
    /\ asked' = 0
    /\ UNCHANGED <<inputVars, pc, resume, scanVars, readerVars, filling,
                   toSkip, buffer, failed, dry, taken, result>>

\* The input has failed, or what was decoded is not a CTU.
FailCtu ==
    /\ pc = "ctu"
    /\ ctus < MaxCtus
    /\ Return("error")

Done ==
    /\ pc = "ctu"
    /\ ctus = MaxCtus
    /\ Return("done")

Returned == pc = "returned" /\ UNCHANGED vars

Next ==
    \/ ScanNal \/ FailScan \/ Prepare
    \/ StartSkip \/ EndSkip \/ FailSkip \/ Skip
    \/ FillAhead \/ PassByte
    \/ TakeByte \/ AskForMore \/ EndRead \/ FailRead
    \/ Start \/ AcceptCtu \/ FailCtu \/ Done
    \/ Returned

Spec == Init /\ [][Next]_vars

-----------------------------------------------------------------------------
\* Wherever extents, read-ahead and buffers cut the slice, the arithmetic
\* decoder is given the bytes that it would find in memory: the data after
\* the header without EPBs, from the first on, and told of the end only there.
\* After a failed read nothing is said: see NoneAfterFailure.
SameBytes ==
    ~failed => /\ IsPrefix(taken, Whole)
               /\ dry => taken = Whole

\* A read that fails while a coding tree unit is decoded, and may even succeed
\* when it is tried again, with bytes missing: no unit is accepted any more,
\* and the slice does not succeed.
NoneAfterFailure == [][failed => ctus' = ctus /\ result' # "done"]_vars

\* The stripped bytes in front of a substream are those of the transmitted
\* bytes in front of it, wherever EPBs lie: in the header, at its end, or at
\* the start of the substream.  An EPB that follows the last byte of the
\* header belongs to the data.
EntryPointsRight ==
    \A offset \in 0 .. Len(Stripped(payload)) :
        LET kept == {i \in 0 .. Len(payload) - 1 : i \notin Skipped(payload)}
            Kept(n) == Cardinality({i \in kept : i < n})
            start == CHOOSE n \in 0 .. Len(payload) :
                         /\ Kept(n) = offset
                         /\ \A m \in 0 .. n - 1 : Kept(m) < offset
        IN  \A transmitted \in 1 .. Len(payload) - start :
                EntryPoint(offset, transmitted)
                    = Kept(start + transmitted) - offset
=============================================================================
