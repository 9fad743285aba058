------------------------- MODULE BandPipelineProofs -------------------------
(***************************************************************************)
(* Proofs about BandPipeline for any number of bands.  The inductive       *)
(* invariant follows the frames: apart from the one the sink holds back    *)
(* there are two, the caller writes into one of them and the other is in   *)
(* the channel, waiting to be sent, or with the worker.  What the frames   *)
(* hold then decides what the sink is called with.                         *)
(***************************************************************************)
EXTENDS BandPipeline, SequenceTheorems, TLAPS

Emitting == {"start", "decode", "take", "send", "push"}

\* Where the calling thread can be, and what decode_stream has returned.
Calling ==
    /\ pc \in Emitting => decoded = "running" /\ outcome = "none"
    /\ pc \in {"finish", "leave"} => decoded = "ok" /\ outcome = "none"
    /\ pc = "join" => decoded # "running" /\ outcome = "none"
    /\ pc = "returned" =>
         outcome # "none" /\ worker \notin {"recv", "push", "release"}
    /\ decoded = "ok" => band = Bands
    /\ threaded => pc \notin {"push", "finish", "leave"}
    /\ ~threaded => pc \notin {"take", "send", "join"} /\ worker = "none"
    /\ pc = "start" => worker = "none" /\ band = 0
    /\ threaded /\ worker = "none" => pc \in {"start", "returned"}
    /\ decoded = "stopped" => worker \in {"failed", "panicked"}
    /\ worker = "ok" => pc \in {"join", "returned"} /\ decoded # "stopped"

\* Where the frame is that the calling thread does not write into.
OtherFrame ==
    /\ output # kept
    /\ threaded /\ (worker = "recv" \/ pc = "start") =>
         IF pc = "send"
         THEN free = << >> /\ held # output /\ held # kept
         ELSE \E f \in Frames : free = <<f>> /\ f # output /\ f # kept
    /\ worker \in {"push", "release"} =>
         free = << >> /\ lent # output /\ lent # kept
    /\ pc = "send" => worker = "recv"
    /\ worker \in {"failed", "panicked"} =>
         pc \in {"join", "returned"} \/ free = << >>

\* The sink has not been finished, and no error has reached it.
Running ==
    /\ worker \notin {"ok", "failed", "panicked"}
    /\ pc \notin {"leave", "returned"}

Pushed == IF bilinear THEN keptStart ELSE Len(emitted)

Waiting == IF pc \in {"take", "send", "push"} THEN 1 ELSE 0
Lent == IF worker = "push" THEN 1 ELSE 0

\* The bands are with the sink, with the worker or with the calling thread.
Counts == Running => Pushed + Lent + Waiting = band

\* What the frames hold.
Contents ==
    Running =>
      /\ pc \in {"take", "push"} => content[output] = band
      /\ pc = "send" => content[held] = band
      /\ worker = "push" => start = Pushed + 1 /\ content[lent] = start

\* What the sink has held back.
KeptRight ==
    bilinear =>
      /\ keptStart = 0 => Len(emitted) = 0
      /\ keptStart # 0 =>
           /\ Len(emitted) + 1 = keptStart
           /\ content[kept] = keptStart
           /\ before = IF keptStart = 1 THEN 1 ELSE keptStart - 1

HeldBack == Running => KeptRight

PrefixRight == \A k \in 1 .. Len(emitted) : emitted[k] = Expected(k)

InOrder == Result # "error" => PrefixRight

\* A finished sink has seen everything.
AllSeen ==
    Result # "error" /\ (worker = "ok" \/ pc = "leave" \/ outcome = "done") =>
      decoded = "ok" /\ Len(emitted) = Bands

IInv ==
    /\ TypeOK
    /\ Calling
    /\ OtherFrame
    /\ Counts
    /\ Contents
    /\ HeldBack
    /\ InOrder
    /\ AllSeen
    /\ CauseReported

-----------------------------------------------------------------------------
(* What a push and the finish of the sink do to the bands it has passed on. *)

\* The bands of the picture are bands.
LEMMA ExpectedType ==
    ASSUME TypeOK, NEW k \in 1 .. Bands
    PROVE  Expected(k) \in BandType
<1>1. k \in 0 .. Bands /\ 1 \in 0 .. Bands /\ Bands \in 0 .. Bands
  BY BandsAssumption
<1>2. (IF k = 1 THEN 1 ELSE k - 1) \in 0 .. Bands
  BY BandsAssumption
<1>3. (IF k = Bands THEN Bands ELSE k + 1) \in 0 .. Bands
  BY BandsAssumption
<1>4. 0 \in 0 .. Bands
  BY BandsAssumption
<1>q. QED
  BY <1>1, <1>2, <1>3, <1>4, Zenon DEF Expected, BandType

\* The sink is called with the next band of the tile.
ShowsNext ==
    /\ Len(emitted) < Bands
    /\ emitted' = Append(emitted, Expected(Len(emitted) + 1))

\* The next band lengthens what the sink has seen by one.
LEMMA ShowsNextType ==
    ASSUME TypeOK, ShowsNext
    PROVE  /\ emitted' \in Seq(BandType)
           /\ Len(emitted') = Len(emitted) + 1
           /\ \A k \in 1 .. Len(emitted) : emitted'[k] = emitted[k]
           /\ emitted'[Len(emitted) + 1] = Expected(Len(emitted) + 1)
<1>1. emitted \in Seq(BandType) /\ Len(emitted) \in Nat
  BY LenProperties DEF TypeOK
<1>2. Len(emitted) + 1 \in 1 .. Bands
  BY <1>1, BandsAssumption DEF ShowsNext
<1>3. Expected(Len(emitted) + 1) \in BandType
  BY <1>2, ExpectedType
<1>q. QED
  BY <1>1, <1>3, AppendProperties DEF ShowsNext

\* Passing on the next band keeps the bands in order.
LEMMA ShownInOrder ==
    ASSUME TypeOK, PrefixRight, UNCHANGED bilinear,
           UNCHANGED emitted \/ ShowsNext
    PROVE  PrefixRight'
<1>1. Len(emitted) \in Nat
  BY LenProperties DEF TypeOK
<1>2. \A k \in 1 .. Bands : Expected(k)' = Expected(k)
  BY DEF Expected
<1>3. CASE UNCHANGED emitted
  BY <1>3 DEF PrefixRight, Expected
<1>4. CASE ShowsNext
  <2>1. SUFFICES ASSUME NEW k \in 1 .. Len(emitted')
                 PROVE  emitted'[k] = Expected(k)'
    BY DEF PrefixRight
  <2>2. Len(emitted') = Len(emitted) + 1 /\ Len(emitted) < Bands
    BY <1>4, ShowsNextType DEF ShowsNext
  <2>3. k \in 1 .. Bands
    BY <1>1, <2>2, BandsAssumption
  <2>4. k \in 1 .. Len(emitted) \/ k = Len(emitted) + 1
    BY <1>1, <2>2
  <2>5. emitted'[k] = Expected(k)
    BY <1>4, <2>4, ShowsNextType DEF PrefixRight
  <2>q. QED
    BY <1>2, <2>3, <2>5
<1>q. QED
  BY <1>3, <1>4

\* What the sink has been given is a number.
LEMMA PushedType ==
    ASSUME TypeOK
    PROVE  Pushed \in Nat /\ band \in Nat
<1>1. Len(emitted) \in Nat
  BY LenProperties DEF TypeOK
<1>2. band \in Nat /\ keptStart \in Nat
  <2>1. band \in 0 .. Bands /\ keptStart \in 0 .. Bands
    BY DEF TypeOK
  <2>q. QED
    BY ONLY <2>1, BandsAssumption
<1>q. QED
  BY <1>1, <1>2 DEF Pushed

\* A push of the next band passes it on, or the one that was held back, or
\* holds the first band back.
LEMMA PushSound ==
    ASSUME TypeOK, KeptRight, NEW frame \in Frames, NEW first \in 1 .. Bands,
           first = Pushed + 1, content[frame] = first,
           Push(frame, first), UNCHANGED <<bilinear, content>>
    PROVE  /\ kept' \in Frames /\ keptStart' \in 0 .. Bands
           /\ before' \in 0 .. Bands
           /\ KeptRight'
           /\ Pushed' = first
           /\ UNCHANGED emitted \/ ShowsNext
<1>a. emitted \in Seq(BandType) /\ Len(emitted) \in Nat
  BY LenProperties DEF TypeOK
<1>b. Bands \in Nat /\ first \in 0 .. Bands /\ first \in Nat
  BY BandsAssumption
<1>0. /\ Bands \in Nat /\ emitted \in Seq(BandType) /\ Len(emitted) \in Nat
      /\ first \in 0 .. Bands /\ first \in Nat
  BY <1>a, <1>b
<1>1. CASE ~bilinear
  <2>1. /\ UNCHANGED <<kept, keptStart, before>> /\ ~bilinear'
        /\ emitted' = Append(emitted, Passed(frame, first))
    BY <1>1 DEF Push, HoldsBack
  <2>2. first = Len(emitted) + 1
    BY <1>1 DEF Pushed
  <2>3. Passed(frame, first) = Expected(first)
    BY <1>1 DEF Passed, Expected
  <2>4. ShowsNext
    BY <1>0, <2>1, <2>2, <2>3 DEF ShowsNext
  <2>5. Pushed' = Len(emitted')
    BY <2>1 DEF Pushed
  <2>6. Pushed' = first
    BY <2>2, <2>4, <2>5, ShowsNextType
  <2>q. QED
    BY <2>1, <2>4, <2>6, Zenon DEF TypeOK, KeptRight
<1>2. CASE bilinear /\ keptStart = 0
  <2>1. /\ emitted' = emitted /\ bilinear' /\ before' = first
        /\ kept' = frame /\ keptStart' = first
    BY <1>2 DEF Push, HoldsBack
  <2>2. first = 1 /\ Len(emitted) = 0
    BY <1>2 DEF Pushed, KeptRight
  <2>3. KeptRight'
    BY <2>1, <2>2 DEF KeptRight
  <2>q. QED
    BY <1>0, <2>1, <2>3 DEF Pushed
<1>3. CASE bilinear /\ keptStart # 0
  <2>1. /\ emitted' = Append(emitted, Passed(frame, first)) /\ bilinear'
        /\ before' = content[kept] /\ kept' = frame /\ keptStart' = first
    BY <1>3 DEF Push, HoldsBack
  <2>2. /\ first = keptStart + 1 /\ Len(emitted) + 1 = keptStart
        /\ content[kept] = keptStart
        /\ before = IF keptStart = 1 THEN 1 ELSE keptStart - 1
        /\ keptStart \in 1 .. Bands
    <3>1. Pushed = keptStart
      BY <1>3 DEF Pushed
    <3>2. keptStart \in 0 .. Bands /\ keptStart # 0
      BY <1>3 DEF TypeOK
    <3>3. keptStart \in 1 .. Bands
      BY ONLY <1>b, <3>2
    <3>q. QED
      BY <1>3, <3>1, <3>3 DEF KeptRight
  <2>3. Passed(frame, first) = Expected(keptStart)
    <3>1. Passed(frame, first) =
            [start |-> keptStart, content |-> keptStart,
             above |-> IF keptStart = 1 THEN 1 ELSE keptStart - 1,
             below |-> keptStart + 1]
      BY <1>3, <2>2 DEF Passed
    <3>2. keptStart # Bands
      BY <1>0, <2>2
    <3>q. QED
      BY <1>3, <3>1, <3>2 DEF Expected
  <2>4. ShowsNext
    BY <1>0, <2>1, <2>2, <2>3 DEF ShowsNext
  <2>5. KeptRight'
    <3>1. Len(emitted') + 1 = first
      BY <1>0, <2>2, <2>4, ShowsNextType
    <3>2. content'[kept'] = keptStart' /\ before' = keptStart
      BY <2>1, <2>2
    <3>q. QED
      BY <1>0, <2>1, <2>2, <3>1, <3>2 DEF KeptRight
  <2>6. Pushed' = first
    BY <2>1 DEF Pushed
  <2>7. before' \in 0 .. Bands
    BY <2>1 DEF TypeOK
  <2>q. QED
    BY <1>0, <2>1, <2>4, <2>5, <2>6, <2>7, Zenon
<1>q. QED
  BY <1>1, <1>2, <1>3

\* What the sink holds back lasts until the next push.
LEMMA SinkAlone ==
    ASSUME UNCHANGED <<bilinear, kept, keptStart, before, emitted>>,
           content'[kept] = content[kept]
    PROVE  /\ Pushed' = Pushed
           /\ KeptRight => KeptRight'
           /\ PrefixRight => PrefixRight'
<1>1. Pushed' = Pushed
  BY DEF Pushed
<1>2. ASSUME KeptRight PROVE KeptRight'
  BY <1>2 DEF KeptRight
<1>3. ASSUME PrefixRight PROVE PrefixRight'
  BY <1>3 DEF PrefixRight, Expected
<1>q. QED
  BY <1>1, <1>2, <1>3

\* Whatever the sink holds back, its finish passes on a band.
LEMMA FinishType ==
    ASSUME TypeOK, FinishSink
    PROVE  emitted' \in Seq(BandType)
<1>1. content[kept] \in 0 .. Bands
  BY DEF TypeOK
<1>2. [start |-> keptStart, content |-> content[kept],
       above |-> before, below |-> content[kept]] \in BandType
  BY <1>1, Zenon DEF TypeOK, BandType
<1>q. QED
  BY <1>2, AppendProperties DEF FinishSink, TypeOK

\* After the last push, the finish passes on the band that is still missing.
LEMMA FinishSound ==
    ASSUME TypeOK, KeptRight, FinishSink, Pushed = Bands
    PROVE  /\ Len(emitted') = Bands
           /\ UNCHANGED emitted \/ ShowsNext
<1>0. /\ Bands \in Nat \ {0} /\ emitted \in Seq(BandType) /\ Len(emitted) \in Nat
  BY BandsAssumption, LenProperties DEF TypeOK
<1>1. CASE ~bilinear
  BY <1>1 DEF FinishSink, Pushed
<1>2. CASE bilinear
  <2>1. /\ keptStart = Bands /\ Len(emitted) + 1 = Bands
        /\ content[kept] = Bands
        /\ before = IF Bands = 1 THEN 1 ELSE Bands - 1
    BY <1>0, <1>2 DEF Pushed, KeptRight
  <2>2. emitted' = Append(emitted, [start |-> Bands, content |-> Bands,
                                    above |-> before, below |-> Bands])
    BY <1>0, <1>2, <2>1 DEF FinishSink
  <2>3. emitted' = Append(emitted, Expected(Bands))
    BY <1>2, <2>1, <2>2 DEF Expected
  <2>4. ShowsNext
    BY <1>0, <2>1, <2>3 DEF ShowsNext
  <2>q. QED
    BY <2>1, <2>4, ShowsNextType
<1>q. QED
  BY <1>1, <1>2

-----------------------------------------------------------------------------
\* A tile that is not started keeps the invariant.
LEMMA FailStartIInv ==
    ASSUME IInv, FailStart
    PROVE  IInv'
<1> USE BandsAssumption DEF IInv
<1>1. TypeOK'
  BY DEF FailStart, shapeVars, workerVars, sinkVars, TypeOK
<1>2. Calling'
  BY DEF FailStart, workerVars, Calling, Emitting
<1>3. OtherFrame'
  BY DEF FailStart, workerVars, sinkVars, OtherFrame
<1>4. Counts'
  BY DEF FailStart, Counts, Running
<1>5. Contents'
  BY DEF FailStart, Contents, Running
<1>6. HeldBack'
  <2>1. Running' => Running
    BY DEF FailStart, Running, workerVars, callerVars
  <2>q. QED
    BY <2>1, SinkAlone DEF FailStart, HeldBack, shapeVars, sinkVars
<1>7. InOrder'
  BY DEF FailStart, InOrder, Result
<1>8. AllSeen'
  BY DEF FailStart, AllSeen, Result
<1>9. CauseReported'
  BY DEF FailStart, workerVars, CauseReported, Calling
<1>q. QED
  BY <1>1, <1>2, <1>3, <1>4, <1>5, <1>6, <1>7, <1>8, <1>9

\* Starting the worker keeps the invariant.
LEMMA StartIInv ==
    ASSUME IInv, Start
    PROVE  IInv'
<1> USE BandsAssumption DEF IInv
<1>1. TypeOK'
  BY DEF Start, shapeVars, sinkVars, TypeOK
<1>2. Calling'
  BY DEF Start, shapeVars, Calling, Emitting
<1>3. OtherFrame'
  BY DEF Start, sinkVars, OtherFrame
<1>4. Counts'
  BY DEF Start, shapeVars, sinkVars, Counts, Running, Pushed, Waiting, Lent,
         Calling
<1>5. Contents'
  BY DEF Start, Contents
<1>6. HeldBack'
  <2>1. Running' => Running
    BY DEF Start, Running, Calling
  <2>q. QED
    BY <2>1, SinkAlone DEF Start, HeldBack, shapeVars, sinkVars
<1>7. InOrder'
  <2>1. Result' # "error" => Result # "error"
    BY DEF Start, Result, Calling, TypeOK, Ended, workerVars, callerVars
  <2>q. QED
    BY <2>1, SinkAlone DEF Start, InOrder, shapeVars, sinkVars
<1>8. AllSeen'
  BY DEF Start, AllSeen, Result, Calling
<1>9. CauseReported'
  BY DEF Start, CauseReported
<1>q. QED
  BY <1>1, <1>2, <1>3, <1>4, <1>5, <1>6, <1>7, <1>8, <1>9

\* Reconstructing a band into the output frame keeps the invariant.
LEMMA ReconstructIInv ==
    ASSUME IInv, Reconstruct
    PROVE  IInv'
<1> USE BandsAssumption DEF IInv
<1>1. TypeOK'
  BY DEF Reconstruct, shapeVars, workerVars, sinkVars, TypeOK
<1>2. Calling'
  BY DEF Reconstruct, shapeVars, workerVars, Calling, Emitting
<1>3. OtherFrame'
  <2>1. /\ pc = "decode" /\ pc' # "send" /\ pc' # "start"
        /\ UNCHANGED <<threaded, output, held, free, kept, worker, lent>>
    BY DEF Reconstruct, shapeVars, workerVars, sinkVars
  <2>2. worker \notin {"failed", "panicked"} \/ free' = << >>
    BY <2>1 DEF OtherFrame
  <2>q. QED
    BY <2>1, <2>2 DEF OtherFrame
<1>4. Counts'
  <2>1. Running' => Running
    BY DEF Reconstruct, Running, workerVars
  <2>2. Pushed' = Pushed /\ Lent' = Lent
    BY DEF Reconstruct, Pushed, Lent, shapeVars, workerVars, sinkVars
  <2>3. Waiting = 0 /\ Waiting' = 1
    BY DEF Reconstruct, Waiting
  <2>4. Pushed \in Nat /\ Lent \in Nat /\ band \in Nat
    BY PushedType DEF Lent
  <2>5. Pushed + Lent + 0 = band => Pushed + Lent + 1 = band + 1
    BY ONLY <2>4
  <2>6. band' = band + 1
    BY DEF Reconstruct
  <2>q. QED
    BY <2>1, <2>2, <2>3, <2>5, <2>6, Zenon DEF Counts
<1>5. Contents'
  BY DEF Reconstruct, shapeVars, workerVars, sinkVars, Contents, Running,
         Pushed, OtherFrame, TypeOK
<1>6. HeldBack'
  <2>1. output # kept /\ kept \in Frames
    BY DEF OtherFrame, TypeOK
  <2>3. content'[kept] = content[kept]
    BY <2>1 DEF Reconstruct, TypeOK
  <2>2. Running' => Running
    BY DEF Reconstruct, Running, workerVars
  <2>q. QED
    BY <2>2, <2>3, SinkAlone DEF Reconstruct, HeldBack, shapeVars, sinkVars
<1>7. InOrder'
  <2>1. Result' = Result
    BY DEF Reconstruct, Result, workerVars
  <2>2. output # kept /\ kept \in Frames
    BY DEF OtherFrame, TypeOK
  <2>3. content'[kept] = content[kept]
    BY <2>2 DEF Reconstruct, TypeOK
  <2>q. QED
    BY <2>1, <2>3, SinkAlone DEF Reconstruct, InOrder, shapeVars, sinkVars
<1>8. AllSeen'
  BY DEF Reconstruct, workerVars, sinkVars, AllSeen, Result
<1>9. CauseReported'
  BY DEF Reconstruct, CauseReported
<1>q. QED
  BY <1>1, <1>2, <1>3, <1>4, <1>5, <1>6, <1>7, <1>8, <1>9

\* The return of decode_stream keeps the invariant.
LEMMA EndDecodeIInv ==
    ASSUME IInv, EndDecode
    PROVE  IInv'
<1> USE BandsAssumption DEF IInv
<1>1. TypeOK'
  BY DEF EndDecode, shapeVars, workerVars, sinkVars, TypeOK
<1>2. Calling'
  BY DEF EndDecode, shapeVars, workerVars, Calling, Emitting
<1>3. OtherFrame'
  BY DEF EndDecode, shapeVars, workerVars, sinkVars, OtherFrame
<1>4. Counts'
  BY DEF EndDecode, shapeVars, workerVars, sinkVars, Counts, Running,
         Pushed, Waiting, Lent
<1>5. Contents'
  BY DEF EndDecode, shapeVars, workerVars, sinkVars, Contents, Running,
         Pushed
<1>6. HeldBack'
  <2>1. Running' => Running
    BY DEF EndDecode, Running, workerVars, callerVars
  <2>q. QED
    BY <2>1, SinkAlone DEF EndDecode, HeldBack, shapeVars, sinkVars
<1>7. InOrder'
  <2>1. outcome = "none" /\ decoded = "running" /\ worker' = worker
    BY DEF EndDecode, Calling, Emitting, workerVars
  <2>2. Result' # "error" => Result # "error"
    BY <2>1 DEF Result
  <2>q. QED
    BY <2>2, SinkAlone DEF EndDecode, InOrder, shapeVars, sinkVars
<1>8. AllSeen'
  BY DEF EndDecode, workerVars, AllSeen, Calling, Emitting
<1>9. CauseReported'
  BY DEF EndDecode, workerVars, CauseReported, Calling, Emitting
<1>q. QED
  BY <1>1, <1>2, <1>3, <1>4, <1>5, <1>6, <1>7, <1>8, <1>9

\* Swapping the emitted frame for a returned one keeps the invariant.
LEMMA TakeFreeIInv ==
    ASSUME IInv, TakeFree
    PROVE  IInv'
<1> USE BandsAssumption DEF IInv
<1>1. TypeOK'
  <2>1. /\ output' \in Frames /\ held' \in Frames /\ free' \in Seq(Frames)
        /\ Len(free') <= Capacity
    <3>1. CASE free # << >>
      <4>1. /\ held' = output /\ output' = Head(free) /\ free' = Tail(free)
        BY <3>1 DEF TakeFree
      <4>3. /\ Head(free) \in Frames /\ Tail(free) \in Seq(Frames)
            /\ Len(Tail(free)) = Len(free) - 1 /\ Len(free) \in Nat
            /\ Len(free) <= 1
        BY <3>1, HeadTailProperties, LenProperties DEF TypeOK, Capacity
      <4>2. /\ Head(free) \in Frames /\ Tail(free) \in Seq(Frames)
            /\ Len(Tail(free)) <= Capacity
        BY <4>3 DEF Capacity
      <4>q. QED
        BY <4>1, <4>2 DEF TypeOK
    <3>2. CASE free = << >>
      BY <3>2 DEF TakeFree, TypeOK
    <3>q. QED
      BY <3>1, <3>2
  <2>2. pc' \in {"send", "join"} /\ decoded' \in {decoded, "stopped"}
    BY DEF TakeFree
  <2>q. QED
    BY <2>1, <2>2 DEF TakeFree, TypeOK, shapeVars, workerVars, sinkVars
<1>2. Calling'
  BY DEF TakeFree, shapeVars, workerVars, Calling, Emitting, Ended
<1>3. OtherFrame'
  <2>1. /\ pc = "take" /\ threaded /\ worker \notin {"none", "ok"}
        /\ UNCHANGED <<threaded, kept, worker, lent>>
    BY DEF TakeFree, Calling, shapeVars, workerVars, sinkVars
  <2>2. CASE free # << >>
    <3>1. worker = "recv"
      BY <2>1, <2>2 DEF OtherFrame, TypeOK
    <3>2. PICK f \in Frames : free = <<f>> /\ f # output /\ f # kept
      BY <2>1, <3>1 DEF OtherFrame
    <3>3. /\ pc' = "send" /\ held' = output /\ output' = f /\ free' = << >>
      BY <2>2, <3>2 DEF TakeFree
    <3>4. output # kept
      BY <3>1 DEF OtherFrame
    <3>q. QED
      BY <2>1, <3>1, <3>2, <3>3, <3>4 DEF OtherFrame
  <2>3. CASE free = << >>
    <3>1. /\ Ended /\ pc' = "join" /\ UNCHANGED <<free, held, output>>
      BY <2>3 DEF TakeFree
    <3>q. QED
      BY <2>1, <3>1 DEF OtherFrame, Ended
  <2>q. QED
    BY <2>2, <2>3
<1>4. Counts'
  BY DEF TakeFree, shapeVars, workerVars, sinkVars, Counts, Running, Pushed,
         Waiting, Lent, Ended
<1>5. Contents'
  BY DEF TakeFree, shapeVars, workerVars, sinkVars, Contents, Running,
         Pushed
<1>6. HeldBack'
  <2>1. Running' => Running
    BY DEF TakeFree, Running, workerVars, callerVars
  <2>q. QED
    BY <2>1, SinkAlone DEF TakeFree, HeldBack, shapeVars, sinkVars
<1>7. InOrder'
  <2>1. Result' # "error" => Result # "error"
    BY DEF TakeFree, Result, Calling, TypeOK, Ended, workerVars, callerVars
  <2>q. QED
    BY <2>1, SinkAlone DEF TakeFree, InOrder, shapeVars, sinkVars
<1>8. AllSeen'
  BY DEF TakeFree, workerVars, sinkVars, AllSeen, Result
<1>9. CauseReported'
  BY DEF TakeFree, CauseReported, Calling, Emitting
<1>q. QED
  BY <1>1, <1>2, <1>3, <1>4, <1>5, <1>6, <1>7, <1>8, <1>9

\* Handing a band to the worker keeps the invariant.
LEMMA SendBandIInv ==
    ASSUME IInv, SendBand
    PROVE  IInv'
<1> USE BandsAssumption DEF IInv
<1>1. TypeOK'
  BY DEF SendBand, shapeVars, workerVars, sinkVars, TypeOK
<1>2. Calling'
  BY DEF SendBand, shapeVars, workerVars, Calling, Emitting, Ended
<1>3. OtherFrame'
  <2>1. pc = "send" /\ worker = "recv" /\ threaded
    BY DEF SendBand, OtherFrame, Calling, TypeOK
  <2>2. /\ pc' = "decode" /\ worker' = "push" /\ lent' = held
        /\ UNCHANGED <<threaded, output, held, free, kept>>
    BY <2>1 DEF SendBand, Ended, shapeVars, sinkVars
  <2>q. QED
    BY <2>1, <2>2 DEF OtherFrame
<1>4. Counts'
  <2>1. worker = "recv" /\ pc = "send" /\ worker' = "push" /\ pc' = "decode"
    BY DEF SendBand, OtherFrame, Calling, Ended
  <2>2. Running /\ Pushed' = Pushed /\ band' = band
    BY <2>1 DEF SendBand, Running, Pushed, shapeVars, sinkVars
  <2>3. Waiting = 1 /\ Waiting' = 0 /\ Lent = 0 /\ Lent' = 1
    BY <2>1 DEF Waiting, Lent
  <2>4. Pushed + 0 + 1 = band => Pushed + 1 + 0 = band
    BY ONLY PushedType, TypeOK
  <2>q. QED
    BY <2>2, <2>3, <2>4, Zenon DEF Counts
<1>5. Contents'
  BY DEF SendBand, shapeVars, workerVars, sinkVars, Counts, Contents,
         Running, Pushed, Waiting, Lent, OtherFrame, TypeOK
<1>6. HeldBack'
  <2>1. Running' => Running
    BY DEF SendBand, Running, workerVars, callerVars
  <2>q. QED
    BY <2>1, SinkAlone DEF SendBand, HeldBack, shapeVars, sinkVars
<1>7. InOrder'
  <2>1. Result' # "error" => Result # "error"
    BY DEF SendBand, Result, Calling, TypeOK, Ended, workerVars, callerVars
  <2>q. QED
    BY <2>1, SinkAlone DEF SendBand, InOrder, shapeVars, sinkVars
<1>8. AllSeen'
  BY DEF SendBand, sinkVars, AllSeen, Result
<1>9. CauseReported'
  BY DEF SendBand, CauseReported, Calling, Emitting
<1>q. QED
  BY <1>1, <1>2, <1>3, <1>4, <1>5, <1>6, <1>7, <1>8, <1>9

\* Joining the worker keeps the invariant.
LEMMA JoinIInv ==
    ASSUME IInv, Join
    PROVE  IInv'
<1> USE BandsAssumption DEF IInv
<1>1. TypeOK'
  BY DEF Join, shapeVars, workerVars, sinkVars, TypeOK
<1>2. Calling'
  BY DEF Join, shapeVars, workerVars, Calling, Emitting, Ended
<1>3. OtherFrame'
  BY DEF Join, shapeVars, workerVars, sinkVars, OtherFrame
<1>4. Counts'
  BY DEF Join, Counts, Running
<1>5. Contents'
  BY DEF Join, Contents, Running
<1>6. HeldBack'
  <2>1. Running' => Running
    BY DEF Join, Running, workerVars, callerVars
  <2>q. QED
    BY <2>1, SinkAlone DEF Join, HeldBack, shapeVars, sinkVars
<1>7. InOrder'
  <2>1. Result' # "error" => Result # "error"
    BY DEF Join, Result, Calling, TypeOK, Ended, workerVars, callerVars
  <2>q. QED
    BY <2>1, SinkAlone DEF Join, InOrder, shapeVars, sinkVars
<1>8. AllSeen'
  BY DEF Join, sinkVars, AllSeen, Result, Calling, Ended
<1>9. CauseReported'
  BY DEF Join, workerVars, CauseReported, Calling, TypeOK
<1>q. QED
  BY <1>1, <1>2, <1>3, <1>4, <1>5, <1>6, <1>7, <1>8, <1>9

\* A push on the calling thread is a push of the next band.
LEMMA PushInlineSound ==
    ASSUME IInv, PushInline
    PROVE  /\ pc = "push" /\ worker = "none" /\ Running /\ ~threaded
           /\ kept' \in Frames /\ keptStart' \in 0 .. Bands
           /\ before' \in 0 .. Bands
           /\ KeptRight'
           /\ Pushed' = band
           /\ UNCHANGED emitted \/ ShowsNext
<1> USE DEF IInv
<1>a. pc = "push" /\ worker = "none" /\ Running /\ ~threaded
  BY DEF PushInline, Calling, Running, TypeOK
<1>b. band = Pushed + 1 /\ content[output] = band /\ output \in Frames
  <2>1. Waiting = 1 /\ Lent = 0
    BY <1>a DEF Waiting, Lent
  <2>2. Pushed + 0 + 1 = band => band = Pushed + 1
    BY ONLY PushedType, TypeOK
  <2>q. QED
    BY <1>a, <2>1, <2>2 DEF Counts, Contents, TypeOK
<1>c. band \in 1 .. Bands
  <2>1. Pushed \in Nat /\ band \in 0 .. Bands
    BY PushedType DEF TypeOK
  <2>q. QED
    BY ONLY <1>b, <2>1, BandsAssumption
<1>d. Push(output, band) /\ UNCHANGED <<bilinear, content>> /\ KeptRight
  BY <1>a DEF PushInline, HeldBack, shapeVars
<1>e. /\ kept' \in Frames /\ keptStart' \in 0 .. Bands
      /\ before' \in 0 .. Bands
      /\ KeptRight'
      /\ Pushed' = band
      /\ UNCHANGED emitted \/ ShowsNext
  BY <1>b, <1>c, <1>d, PushSound
<1>q. QED
  BY <1>a, <1>e, Zenon

\* A push on the calling thread keeps the invariant.
LEMMA PushInlineIInv ==
    ASSUME IInv, PushInline
    PROVE  IInv'
<1> USE BandsAssumption DEF IInv
<1>a. pc = "push" /\ worker = "none" /\ Running /\ ~threaded
  BY PushInlineSound
<1>d. UNCHANGED <<bilinear, content>>
  BY DEF PushInline, shapeVars
<1>e. /\ kept' \in Frames /\ keptStart' \in 0 .. Bands
      /\ before' \in 0 .. Bands
      /\ KeptRight'
      /\ Pushed' = band
      /\ UNCHANGED emitted \/ ShowsNext
  BY PushInlineSound
<1>1. TypeOK'
  <2>1. emitted' \in Seq(BandType)
    BY <1>e, ShowsNextType DEF TypeOK
  <2>2. output' \in Frames /\ pc' = "decode"
    BY DEF PushInline, Swapped, TypeOK
  <2>q. QED
    BY <1>e, <2>1, <2>2 DEF PushInline, TypeOK, shapeVars, workerVars
<1>2. Calling'
  BY DEF PushInline, shapeVars, workerVars, Calling, Emitting
<1>3. OtherFrame'
  BY DEF PushInline, shapeVars, workerVars, Push, Swapped, OtherFrame
<1>4. Counts'
  <2>1. Waiting' = 0 /\ Lent' = 0 /\ band' = band
    BY <1>a DEF PushInline, Waiting, Lent, workerVars
  <2>2. band + 0 + 0 = band
    BY ONLY PushedType, TypeOK
  <2>q. QED
    BY <1>e, <2>1, <2>2, Zenon DEF Counts
<1>5. Contents'
  BY DEF PushInline, workerVars, Contents, Calling
<1>6. HeldBack'
  BY <1>e DEF HeldBack
<1>7. InOrder'
  <2>1. Result' = Result
    BY <1>a DEF PushInline, Result, workerVars
  <2>q. QED
    BY <1>d, <1>e, <2>1, ShownInOrder DEF InOrder
<1>8. AllSeen'
  BY <1>a, <1>1 DEF PushInline, AllSeen, Calling, Emitting, TypeOK, workerVars
<1>9. CauseReported'
  BY DEF PushInline, CauseReported
<1>q. QED
  BY <1>1, <1>2, <1>3, <1>4, <1>5, <1>6, <1>7, <1>8, <1>9

\* The sink is finished on the calling thread after the last push.
LEMMA FinishInlineSound ==
    ASSUME IInv, FinishInline
    PROVE  /\ Running /\ Waiting = 0 /\ Lent = 0 /\ FinishSink
           /\ decoded = "ok" => /\ Len(emitted') = Bands
                                /\ UNCHANGED emitted \/ ShowsNext
<1> USE DEF IInv
<1>a. Running /\ Waiting = 0 /\ Lent = 0 /\ FinishSink
  BY DEF FinishInline, Running, Waiting, Lent, Calling, TypeOK, WorkClosed
<1>b. decoded = "ok" => /\ Len(emitted') = Bands
                        /\ UNCHANGED emitted \/ ShowsNext
  <2>1. SUFFICES ASSUME decoded = "ok"
                 PROVE  /\ Len(emitted') = Bands
                        /\ UNCHANGED emitted \/ ShowsNext
    OBVIOUS
  <2>2. band = Bands /\ Pushed + 0 + 0 = band
    BY <1>a, <2>1 DEF Calling, Counts
  <2>3. Pushed = Bands
    <3>1. Pushed \in Nat /\ band \in Nat
      BY PushedType
    <3>q. QED
      BY ONLY <2>2, <3>1
  <2>q. QED
    BY <1>a, <2>3, FinishSound DEF HeldBack
<1>q. QED
  BY <1>a, <1>b, Zenon

\* The end of the sink on the calling thread keeps the invariant.
LEMMA FinishInlineIInv ==
    ASSUME IInv, FinishInline
    PROVE  IInv'
<1>a. Running /\ Waiting = 0 /\ Lent = 0 /\ FinishSink
  BY FinishInlineSound
<1>b. decoded = "ok" => /\ Len(emitted') = Bands
                        /\ UNCHANGED emitted \/ ShowsNext
  BY FinishInlineSound
<1> USE BandsAssumption DEF IInv
<1>1. TypeOK'
  <2>1. emitted' \in Seq(BandType)
    BY <1>a, FinishType
  <2>q. QED
    BY <2>1 DEF FinishInline, FinishSink, TypeOK, shapeVars, workerVars
<1>2. Calling'
  BY DEF FinishInline, shapeVars, workerVars, Calling, Emitting
<1>3. OtherFrame'
  BY DEF FinishInline, shapeVars, workerVars, FinishSink, OtherFrame
<1>4. Counts'
  BY DEF FinishInline, Counts, Running
<1>5. Contents'
  BY DEF FinishInline, Contents, Running
<1>6. HeldBack'
  BY DEF FinishInline, HeldBack, Running
<1>7. InOrder'
  <2>1. Result' = Result /\ decoded = "ok" /\ UNCHANGED bilinear
    BY DEF FinishInline, Result, Calling, workerVars, shapeVars
  <2>q. QED
    BY <1>b, <2>1, ShownInOrder DEF InOrder
<1>8. AllSeen'
  BY <1>b DEF FinishInline, AllSeen, Calling
<1>9. CauseReported'
  BY DEF FinishInline, CauseReported
<1>q. QED
  BY <1>1, <1>2, <1>3, <1>4, <1>5, <1>6, <1>7, <1>8, <1>9

\* Returning the statistics keeps the invariant.
LEMMA ReturnInlineIInv ==
    ASSUME IInv, ReturnInline
    PROVE  IInv'
<1> USE BandsAssumption DEF IInv
<1>1. TypeOK'
  BY DEF ReturnInline, shapeVars, workerVars, sinkVars, TypeOK
<1>2. Calling'
  BY DEF ReturnInline, workerVars, Calling, Emitting
<1>3. OtherFrame'
  BY DEF ReturnInline, shapeVars, workerVars, sinkVars, OtherFrame
<1>4. Counts'
  BY DEF ReturnInline, Counts, Running
<1>5. Contents'
  BY DEF ReturnInline, Contents, Running
<1>6. HeldBack'
  <2>1. Running' => Running
    BY DEF ReturnInline, Running, workerVars, callerVars
  <2>q. QED
    BY <2>1, SinkAlone DEF ReturnInline, HeldBack, shapeVars, sinkVars
<1>7. InOrder'
  <2>1. Result' # "error" => Result # "error"
    BY DEF ReturnInline, Result, Calling, TypeOK, Ended, workerVars, callerVars
  <2>q. QED
    BY <2>1, SinkAlone DEF ReturnInline, InOrder, shapeVars, sinkVars
<1>8. AllSeen'
  BY DEF ReturnInline, sinkVars, AllSeen, Result, Calling
<1>9. CauseReported'
  BY DEF ReturnInline, workerVars, CauseReported, Calling
<1>q. QED
  BY <1>1, <1>2, <1>3, <1>4, <1>5, <1>6, <1>7, <1>8, <1>9

\* A failure of the sink on the calling thread keeps the invariant.
LEMMA FailInlineIInv ==
    ASSUME IInv, FailInline
    PROVE  IInv'
<1> USE BandsAssumption DEF IInv
<1>1. TypeOK'
  BY DEF FailInline, shapeVars, workerVars, sinkVars, TypeOK
<1>2. Calling'
  BY DEF FailInline, workerVars, Calling, Emitting
<1>3. OtherFrame'
  BY DEF FailInline, shapeVars, workerVars, sinkVars, OtherFrame
<1>4. Counts'
  BY DEF FailInline, Counts, Running
<1>5. Contents'
  BY DEF FailInline, Contents, Running
<1>6. HeldBack'
  <2>1. Running' => Running
    BY DEF FailInline, Running, workerVars, callerVars
  <2>q. QED
    BY <2>1, SinkAlone DEF FailInline, HeldBack, shapeVars, sinkVars
<1>7. InOrder'
  BY DEF FailInline, InOrder, Result
<1>8. AllSeen'
  BY DEF FailInline, AllSeen, Result
<1>9. CauseReported'
  BY DEF FailInline, workerVars, CauseReported, Calling
<1>q. QED
  BY <1>1, <1>2, <1>3, <1>4, <1>5, <1>6, <1>7, <1>8, <1>9

\* A push on the worker is a push of the next band.
LEMMA PushBandSound ==
    ASSUME IInv, PushBand
    PROVE  /\ worker = "push" /\ Running /\ threaded
           /\ kept' \in Frames /\ keptStart' \in 0 .. Bands
           /\ before' \in 0 .. Bands
           /\ KeptRight'
           /\ Pushed' = start
           /\ UNCHANGED emitted \/ ShowsNext
<1> USE DEF IInv
<1>a. worker = "push" /\ Running /\ threaded
  BY DEF PushBand, Calling, Running, Emitting, TypeOK
<1>b. start = Pushed + 1 /\ content[lent] = start /\ lent \in Frames
  BY <1>a DEF Contents, TypeOK
<1>c. start \in 1 .. Bands
  <2>1. Pushed \in Nat /\ start \in 0 .. Bands
    BY PushedType DEF TypeOK
  <2>q. QED
    BY ONLY <1>b, <2>1, BandsAssumption
<1>d. Push(lent, start) /\ UNCHANGED <<bilinear, content>> /\ KeptRight
  BY <1>a DEF PushBand, HeldBack, shapeVars
<1>e. /\ kept' \in Frames /\ keptStart' \in 0 .. Bands
      /\ before' \in 0 .. Bands
      /\ KeptRight'
      /\ Pushed' = start
      /\ UNCHANGED emitted \/ ShowsNext
  BY <1>b, <1>c, <1>d, PushSound
<1>q. QED
  BY <1>a, <1>e, Zenon

\* A push on the worker keeps the invariant.
LEMMA PushBandIInv ==
    ASSUME IInv, PushBand
    PROVE  IInv'
<1> USE BandsAssumption DEF IInv
<1>a. worker = "push" /\ Running /\ threaded
  BY PushBandSound
<1>b. start = Pushed + 1
  BY <1>a DEF PushBand, Contents
<1>d. UNCHANGED <<bilinear, content>>
  BY DEF PushBand, shapeVars
<1>e. /\ kept' \in Frames /\ keptStart' \in 0 .. Bands
      /\ before' \in 0 .. Bands
      /\ KeptRight'
      /\ Pushed' = start
      /\ UNCHANGED emitted \/ ShowsNext
  BY PushBandSound
<1>1. TypeOK'
  <2>1. emitted' \in Seq(BandType)
    BY <1>e, ShowsNextType DEF TypeOK
  <2>2. lent' \in Frames /\ worker' = "release"
    BY DEF PushBand, Swapped, TypeOK
  <2>q. QED
    BY <1>e, <2>1, <2>2 DEF PushBand, TypeOK, shapeVars, callerVars
<1>2. Calling'
  BY DEF PushBand, shapeVars, callerVars, Calling
<1>3. OtherFrame'
  BY DEF PushBand, shapeVars, callerVars, Push, Swapped, OtherFrame
<1>4. Counts'
  <2>1. Lent = 1 /\ Lent' = 0 /\ Waiting' = Waiting /\ band' = band
    BY <1>a DEF PushBand, Waiting, Lent, callerVars
  <2>2. Pushed + 1 + Waiting = band
    BY <1>a, <2>1 DEF Counts
  <2>3. start + 0 + Waiting = band
    <3>1. Waiting \in Nat /\ Pushed \in Nat /\ band \in Nat
      BY PushedType DEF Waiting
    <3>q. QED
      BY ONLY <1>b, <2>2, <3>1
  <2>q. QED
    BY <1>e, <2>1, <2>3, Zenon DEF Counts
<1>5. Contents'
  BY DEF PushBand, callerVars, Contents, Running
<1>6. HeldBack'
  BY <1>e DEF HeldBack
<1>7. InOrder'
  <2>1. Result' = Result
    BY <1>a DEF PushBand, Result, callerVars
  <2>q. QED
    BY <1>d, <1>e, <2>1, ShownInOrder DEF InOrder
<1>8. AllSeen'
  BY <1>a, <1>1 DEF PushBand, AllSeen, Calling, Emitting, TypeOK, callerVars
<1>9. CauseReported'
  BY DEF PushBand, callerVars, CauseReported
<1>q. QED
  BY <1>1, <1>2, <1>3, <1>4, <1>5, <1>6, <1>7, <1>8, <1>9

\* Returning a frame keeps the invariant.
LEMMA ReleaseFrameIInv ==
    ASSUME IInv, ReleaseFrame
    PROVE  IInv'
<1> USE BandsAssumption DEF IInv
<1>1. TypeOK'
  <2>1. /\ free' \in Seq(Frames) /\ Len(free') <= Capacity
    <3>1. free = << >> /\ lent \in Frames
      BY DEF ReleaseFrame, OtherFrame, TypeOK
    <3>2. free' = <<lent>>
      BY <3>1 DEF ReleaseFrame
    <3>q. QED
      BY <3>1, <3>2 DEF Capacity
  <2>q. QED
    BY <2>1 DEF ReleaseFrame, TypeOK, shapeVars, callerVars, sinkVars
<1>2. Calling'
  BY DEF ReleaseFrame, shapeVars, callerVars, Calling
<1>3. OtherFrame'
  <2>1. /\ worker = "release" /\ threaded /\ pc # "send"
        /\ worker' = "recv"
        /\ UNCHANGED <<threaded, pc, output, held, kept, lent>>
    BY DEF ReleaseFrame, OtherFrame, Calling, TypeOK, shapeVars, callerVars,
           sinkVars
  <2>2. free = << >> /\ lent # output /\ lent # kept /\ lent \in Frames
    BY <2>1 DEF OtherFrame, TypeOK
  <2>3. free' = <<lent>>
    BY <2>2 DEF ReleaseFrame
  <2>4. output # kept
    BY <2>1 DEF OtherFrame
  <2>q. QED
    BY <2>1, <2>2, <2>3, <2>4 DEF OtherFrame
<1>4. Counts'
  BY DEF ReleaseFrame, shapeVars, callerVars, sinkVars, Counts, Running,
         Pushed, Waiting, Lent
<1>5. Contents'
  BY DEF ReleaseFrame, callerVars, Contents, Running
<1>6. HeldBack'
  <2>1. Running' => Running
    BY DEF ReleaseFrame, Running, workerVars, callerVars
  <2>q. QED
    BY <2>1, SinkAlone DEF ReleaseFrame, HeldBack, shapeVars, sinkVars
<1>7. InOrder'
  <2>1. Result' # "error" => Result # "error"
    BY DEF ReleaseFrame, Result, Calling, TypeOK, Ended, workerVars, callerVars
  <2>q. QED
    BY <2>1, SinkAlone DEF ReleaseFrame, InOrder, shapeVars, sinkVars
<1>8. AllSeen'
  BY DEF ReleaseFrame, callerVars, sinkVars, AllSeen, Result
<1>9. CauseReported'
  BY DEF ReleaseFrame, callerVars, CauseReported
<1>q. QED
  BY <1>1, <1>2, <1>3, <1>4, <1>5, <1>6, <1>7, <1>8, <1>9

\* After a complete decode the worker has pushed every band when it finishes.
LEMMA FinishBandsSound ==
    ASSUME IInv, FinishBands
    PROVE  /\ Running /\ Waiting = 0 /\ Lent = 0 /\ FinishSink
           /\ decoded = "ok" => /\ Len(emitted') = Bands
                                /\ UNCHANGED emitted \/ ShowsNext
<1> USE DEF IInv
<1>a. Running /\ Waiting = 0 /\ Lent = 0 /\ FinishSink
  BY DEF FinishBands, Running, Waiting, Lent, Calling, TypeOK, WorkClosed
<1>b. decoded = "ok" => /\ Len(emitted') = Bands
                        /\ UNCHANGED emitted \/ ShowsNext
  <2>1. SUFFICES ASSUME decoded = "ok"
                 PROVE  /\ Len(emitted') = Bands
                        /\ UNCHANGED emitted \/ ShowsNext
    OBVIOUS
  <2>2. band = Bands /\ Pushed + 0 + 0 = band
    BY <1>a, <2>1 DEF Calling, Counts
  <2>3. Pushed = Bands
    <3>1. Pushed \in Nat /\ band \in Nat
      BY PushedType
    <3>q. QED
      BY ONLY <2>2, <3>1
  <2>q. QED
    BY <1>a, <2>3, FinishSound DEF HeldBack
<1>q. QED
  BY <1>a, <1>b, Zenon

\* The end of the sink on the worker keeps the invariant.
LEMMA FinishBandsIInv ==
    ASSUME IInv, FinishBands
    PROVE  IInv'
<1>a. Running /\ Waiting = 0 /\ Lent = 0 /\ FinishSink
  BY FinishBandsSound
<1>b. decoded = "ok" => /\ Len(emitted') = Bands
                        /\ UNCHANGED emitted \/ ShowsNext
  BY FinishBandsSound
<1> USE BandsAssumption DEF IInv
<1>1. TypeOK'
  <2>1. emitted' \in Seq(BandType)
    BY <1>a, FinishType
  <2>q. QED
    BY <2>1 DEF FinishBands, FinishSink, TypeOK, shapeVars, callerVars
<1>2. Calling'
  BY DEF FinishBands, shapeVars, callerVars, WorkClosed, Calling
<1>3. OtherFrame'
  BY DEF FinishBands, callerVars, FinishSink, WorkClosed, OtherFrame
<1>4. Counts'
  BY DEF FinishBands, Counts, Running
<1>5. Contents'
  BY DEF FinishBands, callerVars, WorkClosed, Contents
<1>6. HeldBack'
  BY DEF FinishBands, HeldBack, Running
<1>7. InOrder'
  <2>1. /\ Result' = Result /\ UNCHANGED bilinear
        /\ Result # "error" => decoded = "ok"
    BY <1>a DEF FinishBands, Result, Calling, TypeOK, Running, WorkClosed,
                callerVars, shapeVars
  <2>q. QED
    BY <1>b, <2>1, ShownInOrder DEF InOrder
<1>8. AllSeen'
  <2>1. /\ Result' = Result /\ decoded' = decoded
        /\ Result # "error" => decoded = "ok"
    BY <1>a DEF FinishBands, Result, Calling, TypeOK, Running, WorkClosed,
                callerVars
  <2>q. QED
    BY <1>b, <2>1 DEF AllSeen
<1>9. CauseReported'
  BY DEF FinishBands, callerVars, CauseReported
<1>q. QED
  BY <1>1, <1>2, <1>3, <1>4, <1>5, <1>6, <1>7, <1>8, <1>9

\* A failure of the sink on the worker keeps the invariant.
LEMMA FailSinkIInv ==
    ASSUME IInv, FailSink
    PROVE  IInv'
<1> USE BandsAssumption DEF IInv
<1>1. TypeOK'
  BY DEF FailSink, shapeVars, callerVars, sinkVars, TypeOK
<1>2. Calling'
  BY DEF FailSink, shapeVars, callerVars, Calling
<1>3. OtherFrame'
  BY DEF FailSink, shapeVars, callerVars, sinkVars, WorkClosed, OtherFrame
<1>4. Counts'
  BY DEF FailSink, Counts, Running
<1>5. Contents'
  BY DEF FailSink, Contents, Running
<1>6. HeldBack'
  BY DEF FailSink, HeldBack, Running
<1>7. InOrder'
  BY DEF FailSink, InOrder, Result, Calling, TypeOK, callerVars, WorkClosed,
         Emitting
<1>8. AllSeen'
  BY DEF FailSink, AllSeen, Result
<1>9. CauseReported'
  <2>1. worker \in {"push", "recv"} /\ threaded /\ pc # "returned"
    BY DEF FailSink, Calling, TypeOK, WorkClosed, Emitting
  <2>q. QED
    BY <2>1 DEF FailSink, CauseReported, callerVars
<1>q. QED
  BY <1>1, <1>2, <1>3, <1>4, <1>5, <1>6, <1>7, <1>8, <1>9

\* The invariant holds at the start.
LEMMA InitIInv ==
    ASSUME Init
    PROVE  IInv
<1> USE BandsAssumption DEF Init
<1>1. TypeOK
  <2>1. 0 \in 0 .. Bands /\ Len(<< >>) = 0
    OBVIOUS
  <2>2. /\ content \in [Frames -> 0 .. Bands]
        /\ kept \in Frames /\ output \in Frames /\ "spare" \in Frames
    BY <2>1 DEF Frames
  <2>3. free \in Seq(Frames) /\ Len(free) <= Capacity
    BY <2>2 DEF Capacity
  <2>4. emitted \in Seq(BandType)
    OBVIOUS
  <2>q. QED
    BY <2>1, <2>2, <2>3, <2>4 DEF TypeOK
<1>2. Calling
  BY DEF Calling, Emitting
<1>3. OtherFrame
  BY DEF OtherFrame, Frames
<1>4. Pushed = 0
  BY DEF Pushed
<1>5. Counts
  BY <1>4 DEF Counts, Waiting, Lent
<1>6. Contents
  BY DEF Contents
<1>7. HeldBack
  BY DEF HeldBack, KeptRight
<1>8. InOrder
  BY DEF InOrder, PrefixRight
<1>9. AllSeen
  BY DEF AllSeen
<1>10. CauseReported
  BY DEF CauseReported
<1>q. QED
  BY <1>1, <1>2, <1>3, <1>5, <1>6, <1>7, <1>8, <1>9, <1>10 DEF IInv

\* Nothing changes in a stuttering step.
LEMMA StutterIInv ==
    ASSUME IInv, UNCHANGED vars
    PROVE  IInv'
<1> USE DEF IInv, vars, shapeVars, callerVars, workerVars, sinkVars
<1>1. /\ Pushed' = Pushed /\ Result' = Result /\ Running' = Running
      /\ Waiting' = Waiting /\ Lent' = Lent
  BY DEF Pushed, Result, Running, Waiting, Lent
<1>2. TypeOK'
  <2>1. /\ UNCHANGED <<threaded, bilinear, pc, band, output, held, free>>
        /\ UNCHANGED <<worker, lent, start, kept, keptStart, before>>
        /\ UNCHANGED <<content, emitted, decoded, outcome>>
    OBVIOUS
  <2>2. TypeOK
    OBVIOUS
  <2>3. /\ free \in Seq(Frames) /\ Len(free) <= Capacity
        /\ content \in [Frames -> 0 .. Bands] /\ emitted \in Seq(BandType)
    BY <2>2 DEF TypeOK
  <2>4. /\ free' \in Seq(Frames) /\ Len(free') <= Capacity
        /\ content' \in [Frames -> 0 .. Bands] /\ emitted' \in Seq(BandType)
    BY ONLY <2>1, <2>3
  <2>q. QED
    BY ONLY <2>1, <2>2, <2>4 DEF TypeOK
<1>3. Calling' /\ CauseReported'
  BY DEF Calling, CauseReported
<1>4. OtherFrame'
  BY DEF OtherFrame
<1>5. Counts'
  BY <1>1, Zenon DEF Counts
<1>6. Contents'
  BY <1>1 DEF Contents
<1>7. HeldBack' /\ InOrder'
  BY <1>1, SinkAlone DEF HeldBack, InOrder
<1>8. AllSeen'
  BY <1>1 DEF AllSeen
<1>q. QED
  BY <1>2, <1>3, <1>4, <1>5, <1>6, <1>7, <1>8

\* Every step keeps the invariant.
LEMMA NextIInv ==
    ASSUME IInv, [Next]_vars
    PROVE  IInv'
  BY FailStartIInv, StartIInv, ReconstructIInv, EndDecodeIInv, TakeFreeIInv,
     SendBandIInv, JoinIInv, PushInlineIInv, FinishInlineIInv,
     ReturnInlineIInv, FailInlineIInv, PushBandIInv, ReleaseFrameIInv,
     FinishBandsIInv, FailSinkIInv, StutterIInv, Zenon
     DEF Next, Caller, Worker, Returned

\* The inductive invariant holds of every behaviour of the pipeline.
THEOREM Invariant == Spec => []IInv
<1>1. Init => IInv
  BY InitIInv
<1>2. IInv /\ [Next]_vars => IInv'
  BY NextIInv
<1>q. QED
  BY <1>1, <1>2, PTL DEF Spec

\* Every variable keeps its type, and the channel of returned frames (the
\* sync_channel(1) of incremental.rs) never holds two.
THEOREM TypeCorrect == Spec => []TypeOK
<1>1. IInv => TypeOK
  BY DEF IInv
<1>q. QED
  BY <1>1, Invariant, PTL

\* The worker's free_tx.send in incremental.rs finds the channel empty, for
\* a tile of any number of bands.
THEOREM WorkerNeverWaits == Spec => []ReturnNeverBlocks
<1>1. IInv => ReturnNeverBlocks
  BY DEF IInv, OtherFrame, ReturnNeverBlocks, Capacity
<1>q. QED
  BY <1>1, Invariant, PTL

\* The error that join()?? in incremental.rs reports is the worker's when the
\* worker has failed, whatever the decoder returned.
THEOREM CauseKept == Spec => []CauseReported
<1>1. IInv => CauseReported
  BY DEF IInv
<1>q. QED
  BY <1>1, Invariant, PTL

-----------------------------------------------------------------------------
(* The pipeline implements BandStream.                                     *)

Picture == [k \in 1 .. Bands |-> Expected(k)]

\* A sink that has seen everything has seen the picture.
LEMMA WholePicture ==
    ASSUME TypeOK, PrefixRight, Len(emitted) = Bands
    PROVE  emitted = Picture
<1>1. emitted \in Seq(BandType)
  BY DEF TypeOK
<1>2. emitted = [k \in 1 .. Bands |-> emitted[k]]
  BY <1>1
<1>3. \A k \in 1 .. Bands : emitted[k] = Expected(k)
  BY DEF PrefixRight
<1>q. QED
  BY <1>2, <1>3, Zenon DEF Picture

\* The picture never changes.
LEMMA PictureStays ==
    ASSUME UNCHANGED bilinear
    PROVE  Picture' = Picture
  BY DEF Picture, Expected

\* The steps of BandStream that an action of the pipeline can be.
LEMMA StreamStep ==
    ASSUME TypeOK, UNCHANGED bilinear,
           \/ UNCHANGED <<emitted, Result>>
           \/ Result = "error" /\ Result' = "error"
           \/ Result = "none" /\ Result' = "error" /\ UNCHANGED emitted
           \/ /\ Result = "none" /\ Result' = "none"
              /\ UNCHANGED emitted \/ ShowsNext
           \/ /\ Result = "none" /\ Result' = "done" /\ UNCHANGED emitted
              /\ emitted = Picture
    PROVE  [Stream!Next]_Stream!vars
<1>1. Picture' = Picture
  BY PictureStays
<1>2. Len(emitted) \in Nat /\ Bands \in Nat
  BY LenProperties, BandsAssumption DEF TypeOK
<1>3. CASE UNCHANGED <<emitted, Result>>
  BY <1>1, <1>3, Zenon DEF Stream!vars, Picture
<1>4. CASE Result = "error" /\ Result' = "error"
  BY <1>1, <1>4, Zenon DEF Stream!Next, Stream!Discard, Picture
<1>5. CASE Result = "none" /\ Result' = "error" /\ UNCHANGED emitted
  BY <1>1, <1>5, Zenon DEF Stream!Next, Stream!Fail, Picture
<1>6. CASE Result = "none" /\ Result' = "none" /\ ShowsNext
  <2>1. Len(emitted) + 1 \in 1 .. Bands
    BY <1>2, <1>6 DEF ShowsNext
  <2>2. Picture[Len(emitted) + 1] = Expected(Len(emitted) + 1)
    BY <2>1, Zenon DEF Picture
  <2>3. Len(Picture) = Bands
    BY <1>2 DEF Picture
  <2>4. /\ Len(emitted) < Len(Picture)
        /\ emitted' = Append(emitted, Picture[Len(emitted) + 1])
    BY <1>6, <2>2, <2>3, Zenon DEF ShowsNext
  <2>q. QED
    BY <1>1, <1>6, <2>4, Zenon DEF Stream!Next, Stream!Show, Picture
<1>7. CASE /\ Result = "none" /\ Result' = "done" /\ UNCHANGED emitted
           /\ emitted = Picture
  BY <1>1, <1>7, Zenon DEF Stream!Next, Stream!Finish, Picture
<1>q. QED
  BY <1>3, <1>4, <1>5, <1>6, <1>7, Zenon

\* Every step of the pipeline is a step of BandStream or leaves it alone.
LEMMA NextImplements ==
    ASSUME IInv, [Next]_vars
    PROVE  [Stream!Next]_Stream!vars
<1> USE DEF IInv
<1>1. CASE FailStart
  <2>1. Result = "none" /\ Result' = "error" /\ UNCHANGED <<bilinear, emitted>>
    BY <1>1 DEF FailStart, Calling, Emitting, Result, shapeVars, sinkVars
  <2>q. QED
    BY <2>1, StreamStep
<1>2. CASE Start \/ Reconstruct \/ ReleaseFrame
  <2>1. UNCHANGED <<bilinear, emitted, Result>>
    BY <1>2 DEF Start, Reconstruct, ReleaseFrame, Calling, Result, shapeVars,
                callerVars, workerVars, sinkVars
  <2>q. QED
    BY <2>1, StreamStep
<1>3. CASE EndDecode \/ TakeFree \/ SendBand
  <2>1. \/ outcome = "none" /\ decoded = "running" /\ UNCHANGED worker
        \/ SendBand
    BY <1>3 DEF EndDecode, TakeFree, Calling, Emitting, workerVars
  <2>2. /\ Result \in {"none", "error"} /\ Result' \in {"none", "error"}
        /\ Result = "error" => Result' = "error"
    <3>1. CASE ~SendBand
      BY <1>3, <2>1, <3>1 DEF EndDecode, TakeFree, Result
    <3>2. CASE SendBand
      BY <3>2 DEF SendBand, Calling, Emitting, OtherFrame, Result, Ended
    <3>q. QED
      BY <3>1, <3>2
  <2>3. UNCHANGED <<bilinear, emitted>>
    BY <1>3 DEF EndDecode, TakeFree, SendBand, shapeVars, sinkVars
  <2>q. QED
    BY <2>2, <2>3, StreamStep
<1>4. CASE Join
  <2>1. /\ outcome = "none" /\ decoded # "running" /\ Ended
        /\ UNCHANGED <<bilinear, emitted, decoded, worker>>
    BY <1>4 DEF Join, Calling, shapeVars, sinkVars, workerVars
  <2>2. CASE Result = "error"
    BY <1>4, <2>1, <2>2, StreamStep DEF Join, Result, Ended
  <2>3. CASE Result # "error"
    <3>1. decoded = "ok" /\ worker = "ok"
      BY <2>1, <2>3 DEF Result, Ended, TypeOK
    <3>2. Result = "none" /\ Result' = "done"
      BY <1>4, <2>1, <3>1 DEF Join, Result
    <3>3. emitted = Picture
      BY <2>3, <3>1, WholePicture DEF AllSeen, InOrder
    <3>q. QED
      BY <2>1, <3>2, <3>3, StreamStep
  <2>q. QED
    BY <2>2, <2>3
<1>5. CASE PushInline
  <2>1. UNCHANGED <<bilinear, Result>> /\ Result \in {"none", "error"}
    BY <1>5 DEF PushInline, Calling, Emitting, Result, shapeVars, workerVars
  <2>q. QED
    BY <1>5, <2>1, PushInlineSound, StreamStep
<1>6. CASE PushBand
  <2>2. worker = "push" /\ Running /\ threaded
    BY <1>6, PushBandSound, Zenon
  <2>3. outcome = "none"
    BY <2>2 DEF Calling, Running, Emitting, TypeOK
  <2>1. /\ UNCHANGED <<bilinear, Result>> /\ Result \in {"none", "error"}
    BY <1>6, <2>2, <2>3 DEF PushBand, Result, shapeVars, callerVars
  <2>q. QED
    BY <1>6, <2>1, PushBandSound, StreamStep
<1>7. CASE FinishInline
  <2>1. /\ decoded = "ok" /\ UNCHANGED <<bilinear, Result>>
        /\ Result \in {"none", "error"}
    BY <1>7 DEF FinishInline, Calling, Result, shapeVars, workerVars
  <2>q. QED
    BY <1>7, <2>1, FinishInlineSound, StreamStep
<1>8. CASE FinishBands
  <2>1. /\ UNCHANGED <<bilinear, Result>> /\ Result \in {"none", "error"}
        /\ Result = "none" => decoded = "ok"
    BY <1>8 DEF FinishBands, WorkClosed, Calling, TypeOK, Result, shapeVars,
                callerVars
  <2>q. QED
    BY <1>8, <2>1, FinishBandsSound, StreamStep
<1>9. CASE ReturnInline
  <2>1. /\ UNCHANGED <<bilinear, emitted>>
        /\ Result = "none" /\ Result' = "done"
    BY <1>9 DEF ReturnInline, Calling, Result, shapeVars, sinkVars,
                workerVars
  <2>2. emitted = Picture
    BY <1>9, <2>1, WholePicture DEF ReturnInline, AllSeen, InOrder
  <2>q. QED
    BY <2>1, <2>2, StreamStep
<1>10. CASE FailInline \/ FailSink
  <2>1. /\ UNCHANGED <<bilinear, emitted>>
        /\ Result \in {"none", "error"} /\ Result' = "error"
    BY <1>10 DEF FailInline, FailSink, WorkClosed, Calling, Emitting, TypeOK,
                 Result, shapeVars, callerVars, sinkVars
  <2>q. QED
    BY <2>1, StreamStep
<1>11. CASE UNCHANGED vars
  <2>1. UNCHANGED <<bilinear, emitted, Result>>
    BY <1>11 DEF vars, shapeVars, callerVars, workerVars, sinkVars, Result
  <2>q. QED
    BY <2>1, StreamStep
<1>q. QED
  BY <1>1, <1>2, <1>3, <1>4, <1>5, <1>6, <1>7, <1>8, <1>9, <1>10, <1>11, Zenon
     DEF Next, Caller, Worker, Returned

\* The sink of a tile sees exactly what BandStream promises: one thread or
\* two, chroma interpolated or not, and for any number of bands.
THEOREM Implements == Spec => DeliversStream
<1>1. Init => Stream!Init
  BY DEF Init, Stream!Init, Result
<1>2. IInv /\ [Next]_vars => [Stream!Next]_Stream!vars
  BY NextImplements
<1>q. QED
  BY <1>1, <1>2, Invariant, PTL DEF Spec, DeliversStream, Stream!Spec
=============================================================================
