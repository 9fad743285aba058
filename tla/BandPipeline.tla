---------------------------- MODULE BandPipeline ----------------------------
(***************************************************************************)
(* The decoding of one tile by src/bounded/incremental.rs: the calling     *)
(* thread decodes the tile band by band (one row of coding tree blocks     *)
(* each) and hands every band to a sink that converts it to RGB.  A tile   *)
(* of a megapixel or more gets a worker thread for the sink, fed through a *)
(* rendezvous channel; a channel of capacity one carries the frames back.  *)
(* A smaller tile calls the sink between two bands.                        *)
(*                                                                         *)
(* When chroma is interpolated (an odd crop) the sink holds every band     *)
(* back until the first chroma row of the next one is known.               *)
(*                                                                         *)
(* The samples of a band are abstracted to its number: a frame holds some  *)
(* band, and the rows above and below that the sink reads are the last row *)
(* of some band and the first row of another.                              *)
(***************************************************************************)
EXTENDS Naturals, Sequences

CONSTANT Bands      \* rows of coding tree blocks in the tile

ASSUME BandsAssumption == Bands \in Nat \ {0}

VARIABLES
    threaded,   \* the tile is large enough for a worker thread
    bilinear,   \* chroma is interpolated, ChromaBands.pending is Some
    pc,         \* what the calling thread does next
    band,       \* bands reconstructed so far
    output,     \* the frame that decode_stream writes into
    held,       \* the frame that waits to be handed to the worker
    free,       \* the channel of returned frames
    worker,     \* what the worker thread does next
    lent,       \* the frame the worker was handed, and its start
    start,
    kept,       \* ChromaBands.pending, its start and .before
    keptStart,
    before,
    content,    \* the band that each frame holds
    emitted,    \* what the sink's process has been called with
    decoded,    \* the result of decode_stream
    outcome     \* the result for the tile

shapeVars == <<threaded, bilinear>>
callerVars == <<pc, band, output, held, decoded>>
workerVars == <<worker, lent, start>>
sinkVars == <<kept, keptStart, before, emitted>>
vars == <<shapeVars, callerVars, workerVars, sinkVars, free, content, outcome>>

\* decode's own output frame, output_band's spare, and ChromaBands.pending.
Frames == {"output", "spare", "pending"}

\* The free channel is sync_channel(1).
Capacity == 1

\* The worker's closure has ended: its ends of both channels are dropped.
Ended == worker \in {"ok", "failed", "panicked"}

Init ==
    /\ threaded \in BOOLEAN
    /\ bilinear \in BOOLEAN
    /\ pc = "start"
    /\ band = 0
    /\ output = "output"
    /\ held = "output"
    /\ free = IF threaded THEN <<"spare">> ELSE << >>
    /\ worker = "none"
    /\ lent = "output"
    /\ start = 0
    /\ kept = "pending"
    /\ keptStart = 0
    /\ before = 0
    /\ content = [f \in Frames |-> 0]
    /\ emitted = << >>
    /\ decoded = "running"
    /\ outcome = "none"

-----------------------------------------------------------------------------
(* The sink: ChromaBands in front of the conversion of a band.             *)

\* The band a push passes on: the pushed one, or the one held back before.
Passed(frame, first) ==
    IF bilinear
    THEN [start |-> keptStart, content |-> content[kept],
          above |-> before, below |-> content[frame]]
    ELSE [start |-> first, content |-> content[frame],
          above |-> 0, below |-> 0]

\* A push that passes no band on yet.
HoldsBack == bilinear /\ keptStart = 0

\* ChromaBands::push succeeds.
Push(frame, first) ==
    /\ emitted' = IF HoldsBack THEN emitted
                               ELSE Append(emitted, Passed(frame, first))
    /\ IF bilinear
       THEN /\ before' = IF keptStart = 0 THEN content[frame] ELSE content[kept]
            /\ kept' = frame
            /\ keptStart' = first
       ELSE UNCHANGED <<kept, keptStart, before>>

\* Mutant of Swapped: the pending frame is not taken out.
SwappedNot(frame) == frame

\* The frame that a push leaves to its caller.
Swapped(frame) == IF bilinear THEN kept ELSE frame

\* ChromaBands::finish succeeds: the last band is its own lower neighbour.
FinishSink ==
    /\ emitted' = IF bilinear /\ keptStart # 0
                  THEN Append(emitted,
                         [start |-> keptStart, content |-> content[kept],
                          above |-> before, below |-> content[kept]])
                  ELSE emitted
    /\ UNCHANGED <<kept, keptStart, before>>

-----------------------------------------------------------------------------
(* The calling thread.                                                     *)

\* Allocating the spare frame or spawning the worker fails.
FailStart ==
    /\ pc = "start"
    /\ threaded
    /\ pc' = "returned"
    /\ outcome' = "unstarted"
    /\ UNCHANGED <<shapeVars, band, output, held, decoded, workerVars,
                   sinkVars, free, content>>

Start ==
    /\ pc = "start"
    /\ pc' = "decode"
    /\ worker' = IF threaded THEN "recv" ELSE "none"
    /\ UNCHANGED <<shapeVars, band, output, held, decoded, lent, start,
                   sinkVars, free, content, outcome>>

\* The next band is filtered into the output frame and emitted.
Reconstruct ==
    /\ pc = "decode"
    /\ band < Bands
    /\ band' = band + 1
    /\ content' = [content EXCEPT ![output] = band + 1]
    /\ pc' = IF threaded THEN "take" ELSE "push"
    /\ UNCHANGED <<shapeVars, output, held, decoded, workerVars, sinkVars,
                   free, outcome>>

\* decode_stream returns: no band is left, or the coded data is bad or
\* cannot be read.  Without a worker an error ends the tile at once.
EndDecode ==
    /\ pc = "decode"
    /\ \/ /\ band = Bands
          /\ decoded' = "ok"
          /\ pc' = IF threaded THEN "join" ELSE "finish"
          /\ UNCHANGED outcome
       \/ /\ band < Bands
          /\ decoded' = "error"
          /\ pc' = IF threaded THEN "join" ELSE "returned"
          /\ outcome' = IF threaded THEN "none" ELSE "decoderError"
    /\ UNCHANGED <<shapeVars, band, output, held, workerVars, sinkVars, free,
                   content>>

\* Mutant of TakeFree: the frame is not taken out of the channel.
TakeFreeByPeek ==
    /\ pc = "take"
    /\ free # << >>
    /\ held' = output
    /\ output' = Head(free)
    /\ pc' = "send"
    /\ UNCHANGED <<shapeVars, band, decoded, workerVars, sinkVars, free,
                   content, outcome>>

\* Swap the emitted frame for a returned one.  The channel is closed when the
\* worker has ended, but a frame that is still in it is received first.
TakeFree ==
    /\ pc = "take"
    /\ \/ /\ free # << >>
          /\ free' = Tail(free)
          /\ held' = output
          /\ output' = Head(free)
          /\ pc' = "send"
          /\ UNCHANGED decoded
       \/ /\ free = << >>
          /\ Ended
          /\ decoded' = "stopped"
          /\ pc' = "join"
          /\ UNCHANGED <<free, held, output>>
    /\ UNCHANGED <<shapeVars, band, workerVars, sinkVars, content, outcome>>

\* The rendezvous with the worker, or the error when it is gone.
SendBand ==
    /\ pc = "send"
    /\ \/ /\ worker = "recv"
          /\ worker' = "push"
          /\ lent' = held
          /\ start' = band
          /\ pc' = "decode"
          /\ UNCHANGED decoded
       \/ /\ Ended
          /\ decoded' = "stopped"
          /\ pc' = "join"
          /\ UNCHANGED workerVars
    /\ UNCHANGED <<shapeVars, band, output, held, sinkVars, free, content,
                   outcome>>

\* Mutant of Join: the decoder's error is looked at first.
JoinDecoderFirst ==
    /\ pc = "join"
    /\ Ended
    /\ pc' = "returned"
    /\ outcome' = CASE decoded # "ok" -> "decoderError"
                    [] worker = "panicked" -> "panic"
                    [] worker = "failed" -> "sinkError"
                    [] OTHER -> "done"
    /\ UNCHANGED <<shapeVars, band, output, held, decoded, workerVars,
                   sinkVars, free, content>>

\* work_tx is dropped and the worker joined: its error comes before the
\* decoder's, which may only say that the worker stopped.
Join ==
    /\ pc = "join"
    /\ Ended
    /\ pc' = "returned"
    /\ outcome' = CASE worker = "panicked" -> "panic"
                    [] worker = "failed" -> "sinkError"
                    [] worker = "ok" /\ decoded # "ok" -> "decoderError"
                    [] OTHER -> "done"
    /\ UNCHANGED <<shapeVars, band, output, held, decoded, workerVars,
                   sinkVars, free, content>>

\* Without a worker the sink is called between two bands.
PushInline ==
    /\ pc = "push"
    /\ Push(output, band)
    /\ output' = Swapped(output)
    /\ pc' = "decode"
    /\ UNCHANGED <<shapeVars, band, held, decoded, workerVars, free, content,
                   outcome>>

FinishInline ==
    /\ pc = "finish"
    /\ FinishSink
    /\ pc' = "leave"
    /\ UNCHANGED <<shapeVars, band, output, held, decoded, workerVars, free,
                   content, outcome>>

\* The statistics of the inline decode are returned.
ReturnInline ==
    /\ pc = "leave"
    /\ pc' = "returned"
    /\ outcome' = "done"
    /\ UNCHANGED <<shapeVars, band, output, held, decoded, workerVars,
                   sinkVars, free, content>>

\* The error of the sink is kept aside while decode_stream returns its own.
FailInline ==
    /\ \/ pc = "push" /\ ~HoldsBack
       \/ pc = "finish" /\ bilinear /\ keptStart # 0
    /\ pc' = "returned"
    /\ outcome' = "sinkError"
    /\ UNCHANGED <<shapeVars, band, output, held, decoded, workerVars,
                   sinkVars, free, content>>

-----------------------------------------------------------------------------
(* The worker thread.                                                      *)

PushBand ==
    /\ worker = "push"
    /\ Push(lent, start)
    /\ lent' = Swapped(lent)
    /\ worker' = "release"
    /\ UNCHANGED <<shapeVars, callerVars, start, free, content, outcome>>

\* free_tx.send waits while the channel is full; its other end lives until
\* the worker has been joined.
ReleaseFrame ==
    /\ worker = "release"
    /\ Len(free) < Capacity
    /\ free' = Append(free, lent)
    /\ worker' = "recv"
    /\ UNCHANGED <<shapeVars, callerVars, lent, start, sinkVars, content,
                   outcome>>

\* Mutant of WorkClosed: the sender outlives the decoding.
WorkNeverClosed == FALSE

\* The calling thread drops work_tx when decode_stream has returned.
WorkClosed == pc = "join"

FinishBands ==
    /\ worker = "recv"
    /\ WorkClosed
    /\ FinishSink
    /\ worker' = "ok"
    /\ UNCHANGED <<shapeVars, callerVars, lent, start, free, content, outcome>>

\* The conversion of a band returns an error or panics.
FailSink ==
    /\ \/ worker = "push" /\ ~HoldsBack
       \/ worker = "recv" /\ WorkClosed /\ bilinear /\ keptStart # 0
    /\ worker' \in {"failed", "panicked"}
    /\ UNCHANGED <<shapeVars, callerVars, lent, start, sinkVars, free, content,
                   outcome>>

-----------------------------------------------------------------------------
Caller ==
    \/ FailStart \/ Start \/ Reconstruct \/ EndDecode
    \/ TakeFree \/ SendBand \/ Join
    \/ PushInline \/ FinishInline \/ ReturnInline \/ FailInline

Worker == PushBand \/ ReleaseFrame \/ FinishBands \/ FailSink

Returned == pc = "returned" /\ UNCHANGED vars

Next == Caller \/ Worker \/ Returned

Spec == Init /\ [][Next]_vars

\* Both threads run when they can.
FairSpec == Spec /\ WF_vars(Caller) /\ WF_vars(Worker)

-----------------------------------------------------------------------------
BandType == [start : 0 .. Bands, content : 0 .. Bands,
             above : 0 .. Bands, below : 0 .. Bands]

\* Every variable keeps its type; the returned frames never outnumber the
\* capacity of their channel.
TypeOK ==
    /\ threaded \in BOOLEAN
    /\ bilinear \in BOOLEAN
    /\ pc \in {"start", "decode", "take", "send", "join", "push", "finish",
               "leave", "returned"}
    /\ band \in 0 .. Bands
    /\ output \in Frames
    /\ held \in Frames
    /\ free \in Seq(Frames)
    /\ Len(free) <= Capacity
    /\ worker \in {"none", "recv", "push", "release", "ok", "failed",
                   "panicked"}
    /\ lent \in Frames
    /\ start \in 0 .. Bands
    /\ kept \in Frames
    /\ keptStart \in 0 .. Bands
    /\ before \in 0 .. Bands
    /\ content \in [Frames -> 0 .. Bands]
    /\ emitted \in Seq(BandType)
    /\ decoded \in {"running", "ok", "error", "stopped"}
    /\ outcome \in {"none", "unstarted", "decoderError", "sinkError",
                    "panic", "done"}

\* The band the sink must be called with k-th: the samples of band k, the
\* chroma row above it from the band before (its own for the first, which has
\* no row above) and the row below from the band after.
Expected(k) ==
    [start |-> k, content |-> k,
     above |-> IF bilinear THEN (IF k = 1 THEN 1 ELSE k - 1) ELSE 0,
     below |-> IF bilinear THEN (IF k = Bands THEN Bands ELSE k + 1) ELSE 0]

\* A failure is decided as soon as either thread has failed.
Result ==
    CASE outcome = "done" -> "done"
      [] \/ outcome \notin {"none", "done"}
         \/ decoded \in {"error", "stopped"}
         \/ worker \in {"failed", "panicked"} -> "error"
      [] OTHER -> "none"

Stream == INSTANCE BandStream WITH
              picture <- [k \in 1 .. Bands |-> Expected(k)],
              shown <- emitted,
              result <- Result

\* On one thread or two, the sink sees every band once, in order, unspoilt by
\* the decoding of later bands into recycled frames, with the chroma rows of
\* its true neighbours; the tile succeeds only after the last band.
DeliversStream == Stream!Spec

\* The worker never waits to return a frame: the channel of capacity one is
\* empty whenever it does, because the caller took a frame out before it sent
\* the one that is being returned.
ReturnNeverBlocks == worker = "release" => Len(free) < Capacity

\* An error of the conversion or a panic of the worker is what the caller is
\* told, never the "band worker stopped" that it causes in the decoder.
CauseReported ==
    /\ pc = "returned" /\ worker = "failed" => outcome = "sinkError"
    /\ pc = "returned" /\ worker = "panicked" => outcome = "panic"
    /\ outcome = "decoderError" => decoded = "error"

\* The tile's decode returns: neither thread waits for the other for ever,
\* whichever of them fails first.
TileReturns == <>(pc = "returned")
=============================================================================
