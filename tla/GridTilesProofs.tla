--------------------------- MODULE GridTilesProofs ---------------------------
(***************************************************************************)
(* Proofs about GridTiles for any calls, pool, budget and estimates.  A    *)
(* call is invariantly in one of two conditions: either it has handed out  *)
(* nothing, or its tiles are cut by consumed and scheduled into those that *)
(* are gone, those in flight and those that wait, and what it retains are  *)
(* the estimates of the ones in flight, in order.                          *)
(*                                                                         *)
(* And proofs about the estimates of tiles, in CodedItem, for any items,   *)
(* parameter sets, budgets and limits: the preflight has judged each       *)
(* parameter set that the decode may take, and what it counts of a stream  *)
(* covers what is held of it.                                              *)
(* What a bounded reader prepares, the eager path then decodes alike.      *)
(*                                                                         *)
(* And proofs about crops, in PixelOutput, for any image: what is cut out   *)
(* is the clean aperture, up to the rounding of its edges.                  *)
(***************************************************************************)
EXTENDS GridTiles, CodedItem, PixelOutput, SetSums, SequenceTheorems

\* Where a calling thread, a tile and a job can be.
Labels == {"idle", "first", "sequential", "loop", "consume", "fill", "inline",
           "receive", "closing", "returned"}

States == {"waiting", "queued", "running", "sent", "ready", "held", "gone"}

Outcomes == {"ok", "error", "panic"}

\* The states of a tile that holds memory.
Flying == {"queued", "running", "sent", "ready", "held"}

\* The labels of the loop over the window.
Looping == {"loop", "consume", "fill", "inline", "receive"}

\* What the variables are.
TypeOK ==
    /\ tiles \in [Calls -> 0 .. MaxTiles]
    /\ estimate \in [Calls -> [1 .. MaxTiles -> Estimates]]
    /\ pc \in [Calls -> Labels]
    /\ scheduled \in [Calls -> Nat]
    /\ consumed \in [Calls -> Nat]
    /\ retained \in [Calls -> Seq(Nat)]
    /\ bytes \in [Calls -> Nat]
    /\ cached \in [Calls -> Seq(Nat)]
    /\ status \in [Calls -> [1 .. MaxTiles -> States]]
    /\ fate \in [Calls -> [1 .. MaxTiles -> Outcomes \cup {"none"}]]
    /\ delivered \in [Calls -> Seq(Nat)]
    /\ result \in [Calls -> [why : {"none", "done"} \cup Sequential!Failures,
                             tile : Nat]]

\* What the call has consumed and said so far.
Progress(c) ==
    /\ pc[c] \in {"idle", "first"} =>
         delivered[c] = << >> /\ consumed[c] = 0
    /\ pc[c] \in {"sequential"} \cup Looping =>
         Len(delivered[c]) = consumed[c] + 1
    /\ pc[c] \notin {"closing", "returned"} =>
         result[c] = Sequential!Undecided
    /\ consumed[c] <= tiles[c]
    /\ pc[c] \in {"consume", "fill", "inline"} => consumed[c] < tiles[c]

\* Nothing has been handed out.
Unopened(c) ==
    /\ scheduled[c] = 0
    /\ retained[c] = << >>
    /\ bytes[c] = 0
    /\ cached[c] = << >>
    /\ \A i \in Tiles(c) : status[c][i] = "waiting"

\* The tiles that have been handed out to the workers and not been consumed.
Span(c) == Due(c) .. scheduled[c]

\* What is retained is what the tiles in flight have been estimated at.
Accounts(c) ==
    /\ consumed[c] <= scheduled[c]
    /\ scheduled[c] <= tiles[c]
    /\ Len(retained[c]) = scheduled[c] - consumed[c]
    /\ Len(retained[c]) <= Window(c)
    /\ \A n \in 1 .. Len(retained[c]) :
           /\ retained[c][n] = estimate[c][consumed[c] + n]
           /\ retained[c][n] # Unknown
    /\ bytes[c] = SumOver(estimate[c], Span(c))
    /\ Len(retained[c]) <= 1 \/ bytes[c] <= Budget
    /\ \/ cached[c] = << >>
       \/ /\ scheduled[c] < tiles[c]
          /\ cached[c] = <<estimate[c][Upcoming(c)]>>

\* Where the tiles are.  Only the one that is due is ever held.
Placed(c) ==
    /\ \A i \in Tiles(c) :
         /\ i <= consumed[c] => status[c][i] = "gone"
         /\ i \in Span(c) => status[c][i] \in Flying
         /\ i > scheduled[c] =>
              \/ status[c][i] = "waiting"
              \/ status[c][i] = "held" /\ i = Due(c)
         /\ status[c][i] = "held" =>
              i = Due(c) /\ pc[c] \in {"consume", "inline", "closing", "returned"}
    /\ pc[c] = "consume" => consumed[c] < scheduled[c]
    /\ pc[c] = "inline" => consumed[c] = scheduled[c]

\* Which of the two conditions holds, and that no job outlives the call.
Phase(c) ==
    /\ pc[c] \in {"idle", "first", "sequential"} => Unopened(c)
    /\ pc[c] \in Looping \cup {"closing"} => Accounts(c) /\ Placed(c)
    /\ pc[c] = "returned" => Unopened(c) \/ (Accounts(c) /\ Placed(c))
    /\ pc[c] = "returned" =>
         \A i \in Tiles(c) : status[c][i] \notin {"queued", "running"}

CallInv(c) == Progress(c) /\ Phase(c)

\* The inductive invariant.
IInv == TypeOK /\ \A c \in Calls : CallInv(c)

\* Nothing of call d changes.
Same(d) ==
    /\ tiles'[d] = tiles[d]
    /\ estimate'[d] = estimate[d]
    /\ pc'[d] = pc[d]
    /\ scheduled'[d] = scheduled[d]
    /\ consumed'[d] = consumed[d]
    /\ retained'[d] = retained[d]
    /\ bytes'[d] = bytes[d]
    /\ cached'[d] = cached[d]
    /\ status'[d] = status[d]
    /\ delivered'[d] = delivered[d]
    /\ result'[d] = result[d]

-----------------------------------------------------------------------------
\* The window is a number.
LEMMA WindowType ==
    ASSUME TypeOK, NEW c \in Calls
    PROVE  Window(c) \in Nat
<1>1. {Workers, MaxThreads, tiles[c]} \in SUBSET Nat
  BY ThreadsAssumption DEF TypeOK
<1>q. QED
  BY <1>1, LeastOfNaturals DEF Window

\* What the type invariant says of one call.
LEMMA CallTypes ==
    ASSUME TypeOK, NEW c \in Calls
    PROVE  /\ tiles[c] \in Nat /\ consumed[c] \in Nat /\ scheduled[c] \in Nat
           /\ tiles[c] <= MaxTiles /\ MaxTiles \in Nat
           /\ retained[c] \in Seq(Nat) /\ bytes[c] \in Nat /\ delivered[c] \in Seq(Nat)
           /\ \A i \in 1 .. MaxTiles : estimate[c][i] \in Nat
           /\ DOMAIN status[c] = 1 .. MaxTiles /\ Tiles(c) \subseteq 1 .. MaxTiles
<1>1. tiles[c] \in 0 .. MaxTiles /\ MaxTiles \in Nat
  BY ThreadsAssumption DEF TypeOK
<1>2. tiles[c] \in Nat /\ tiles[c] <= MaxTiles
  BY <1>1
<1>3. Tiles(c) \subseteq 1 .. MaxTiles
  BY <1>1 DEF Tiles
<1>4. \A i \in 1 .. MaxTiles : estimate[c][i] \in Nat
  <2>1. estimate[c] \in [1 .. MaxTiles -> Estimates]
    BY DEF TypeOK
  <2>2. \A i \in 1 .. MaxTiles : estimate[c][i] \in Estimates
    BY <2>1
  <2>q. QED
    BY <2>2, MemoryAssumption
<1>5. /\ consumed[c] \in Nat /\ scheduled[c] \in Nat
      /\ retained[c] \in Seq(Nat) /\ bytes[c] \in Nat /\ delivered[c] \in Seq(Nat)
      /\ DOMAIN status[c] = 1 .. MaxTiles
  BY DEF TypeOK
<1>q. QED
  BY <1>1, <1>2, <1>3, <1>4, <1>5

\* A call of which nothing changes keeps its invariant.
LEMMA SameKeeps ==
    ASSUME NEW d \in Calls, CallInv(d), Same(d)
    PROVE  CallInv(d)'
<1>1. Window(d)' = Window(d)
  BY DEF Same, Window
<1>2. Progress(d)'
  BY DEF CallInv, Progress, Same
<1>3. Unopened(d) => Unopened(d)'
  BY DEF Same, Unopened, Tiles
<1>4. Accounts(d) => Accounts(d)'
  BY <1>1 DEF Same, Accounts, Span, Due, Upcoming
<1>5. Placed(d) => Placed(d)'
  BY DEF Same, Placed, Span, Due, Tiles
<1>6. (\A i \in Tiles(d) : status[d][i] \notin {"queued", "running"})
      => (\A i \in Tiles(d) : status[d][i] \notin {"queued", "running"})'
  BY DEF Same, Tiles
<1>7. pc'[d] = pc[d]
  BY DEF Same
<1>q. QED
  BY <1>2, <1>3, <1>4, <1>5, <1>6, <1>7 DEF CallInv, Phase

\* It is enough to look at the call that moves.
LEMMA OneCallMoves ==
    ASSUME IInv, TypeOK', NEW c \in Calls, CallInv(c)',
           \A d \in Calls \ {c} : Same(d)
    PROVE  IInv'
<1>1. \A d \in Calls \ {c} : CallInv(d)'
  BY SameKeeps DEF IInv
<1>q. QED
  BY <1>1 DEF IInv

-----------------------------------------------------------------------------
\* The invariant holds initially.
LEMMA InitInv ==
    ASSUME Init
    PROVE  IInv
<1>1. TypeOK
  BY ThreadsAssumption DEF Init, TypeOK, Labels, States
<1>2. ASSUME NEW c \in Calls PROVE Progress(c)
  BY <1>1 DEF Init, TypeOK, Progress, Looping, Sequential!Undecided
<1>3. ASSUME NEW c \in Calls PROVE Phase(c)
  <2>1. \A i \in Tiles(c) : i \in 1 .. MaxTiles
    BY <1>1, ThreadsAssumption DEF TypeOK, Tiles
  <2>q. QED
    BY <2>1 DEF Init, Phase, Unopened, Looping
<1>q. QED
  BY <1>1, <1>2, <1>3 DEF IInv, CallInv

\* A call that begins keeps the invariant.
LEMMA BeginInv ==
    ASSUME IInv, NEW c \in Calls, Begin(c)
    PROVE  IInv'
<1>1. TypeOK'
  BY DEF IInv, TypeOK, Begin, Goto, Labels, inputVars, windowVars
<1>2. \A d \in Calls \ {c} : Same(d)
  BY DEF IInv, TypeOK, Begin, Goto, Same, inputVars, windowVars
<1>3. /\ pc[c] = "idle" /\ pc'[c] = "first"
      /\ UNCHANGED <<tiles, estimate, scheduled, consumed, retained, bytes, cached,
                     status, delivered, result>>
  BY DEF IInv, TypeOK, Begin, Goto, inputVars, windowVars
<1>4. Progress(c)'
  BY <1>3 DEF IInv, CallInv, Progress, Looping
<1>5. Phase(c)'
  BY <1>3 DEF IInv, CallInv, Phase, Unopened, Tiles, Looping
<1>q. QED
  BY <1>1, <1>2, <1>4, <1>5, OneCallMoves DEF CallInv

\* A call that is decided keeps the invariant.
LEMMA DecideInv ==
    ASSUME IInv, NEW c \in Calls,
           NEW why \in {"done"} \cup Sequential!Failures, NEW i \in Nat,
           NEW label \in Labels, Decide(c, why, i, label),
           \/ label = "closing" /\ pc[c] \in Looping
           \/ label = "returned" /\ pc[c] \in {"first", "sequential"}
    PROVE  IInv'
<1>1. TypeOK'
  BY DEF IInv, TypeOK, Decide, Goto, Labels, inputVars, windowVars
<1>2. \A d \in Calls \ {c} : Same(d)
  BY DEF IInv, TypeOK, Decide, Goto, Same, inputVars, windowVars
<1>3. /\ pc'[c] = label
      /\ UNCHANGED <<tiles, estimate, scheduled, consumed, retained, bytes, cached,
                     status, delivered>>
  BY DEF IInv, TypeOK, Decide, Goto, inputVars, windowVars
<1>4. Progress(c)'
  BY <1>3 DEF IInv, CallInv, Progress, Looping
<1>5. Phase(c)'
  <2>1. Unopened(c) => Unopened(c)'
    BY <1>3 DEF Unopened, Tiles
  <2>2. Accounts(c) => Accounts(c)'
    BY <1>3 DEF Accounts, Span, Due, Upcoming, Window
  <2>3. CASE label = "closing" /\ pc[c] \in Looping
    <3>1. Accounts(c) /\ Placed(c)
      BY <2>3 DEF IInv, CallInv, Phase
    <3>2. Placed(c)'
      BY <1>3, <2>3, <3>1 DEF Placed, Span, Due, Tiles
    <3>q. QED
      BY <1>3, <2>2, <2>3, <3>1, <3>2 DEF Phase, Looping
  <2>4. CASE label = "returned" /\ pc[c] \in {"first", "sequential"}
    <3>1. Unopened(c)
      BY <2>4 DEF IInv, CallInv, Phase
    <3>2. \A k \in Tiles(c)' : status'[c][k] = "waiting"
      BY <2>1, <3>1 DEF Unopened
    <3>q. QED
      BY <1>3, <2>1, <2>4, <3>1, <3>2 DEF Phase, Looping
  <2>q. QED
    BY <2>3, <2>4
<1>q. QED
  BY <1>1, <1>2, <1>4, <1>5, OneCallMoves DEF CallInv

\* Consuming the first tile opens the window, or the sequential loop.
LEMMA ConsumeFirstInv ==
    ASSUME IInv, NEW c \in Calls, ConsumeFirst(c)
    PROVE  IInv'
<1>1. CASE \E why \in {"consume", "panic"} : Decide(c, why, 0, "returned")
  BY <1>1, DecideInv DEF ConsumeFirst, Labels, Sequential!Failures
<1>2. CASE ~ \E why \in {"consume", "panic"} : Decide(c, why, 0, "returned")
  <2> DEFINE label == IF Window(c) > 1 THEN "loop" ELSE "sequential"
  <2>1. /\ pc[c] = "first" /\ delivered' = [delivered EXCEPT ![c] = Append(@, 0)]
        /\ pc' = [pc EXCEPT ![c] = label]
        /\ UNCHANGED <<tiles, estimate, scheduled, consumed, retained, bytes, cached,
                       status, fate, result>>
    BY <1>2 DEF ConsumeFirst, Deliver, Goto, inputVars, windowVars
  <2>2. label \in {"loop", "sequential"}
    OBVIOUS
  <2> HIDE DEF label
  <2>3. TypeOK'
    BY <2>1, <2>2 DEF IInv, TypeOK, Labels
  <2>4. \A d \in Calls \ {c} : Same(d)
    BY <2>1 DEF IInv, TypeOK, Same
  <2>5. pc'[c] = label
    BY <2>1 DEF IInv, TypeOK
  <2>6. Progress(c)'
    <3>1. /\ Len(delivered'[c]) = 1 /\ consumed'[c] = 0 /\ tiles'[c] = tiles[c]
      <4>1. delivered[c] = << >> /\ consumed[c] = 0
        BY <2>1 DEF IInv, CallInv, Progress
      <4>2. delivered'[c] = Append(<< >>, 0)
        BY <2>1, <4>1 DEF IInv, TypeOK
      <4>q. QED
        BY <2>1, <4>1, <4>2
    <3>2. result'[c] = Sequential!Undecided /\ 0 <= tiles[c]
      BY <2>1 DEF IInv, CallInv, Progress, TypeOK
    <3>q. QED
      BY <2>2, <2>5, <3>1, <3>2 DEF Progress
  <2>7. Unopened(c)
    BY <2>1 DEF IInv, CallInv, Phase
  <2>8. Unopened(c)'
    BY <2>1, <2>7 DEF Unopened, Tiles
  <2>9. Accounts(c)' /\ Placed(c)'
    <3>1. tiles'[c] \in Nat /\ consumed'[c] = 0 /\ Window(c)' \in Nat
      BY SMTT(30), <2>1, <2>3, WindowType DEF IInv, TypeOK, CallInv, Progress, Window
    <3>2. Span(c)' = {}
      BY <3>1, <2>8 DEF Span, Due, Unopened
    <3>3. SumOver(estimate'[c], {}) = 0
      BY FS_EmptySet, SumUnfolds
    <3>4. Accounts(c)'
      BY <3>1, <3>2, <3>3, <2>8 DEF Accounts, Unopened
    <3>5. Placed(c)'
      BY <3>1, <3>2, <2>2, <2>5, <2>8 DEF Placed, Unopened, Tiles
    <3>q. QED
      BY <3>4, <3>5
  <2>10. Phase(c)'
    BY <2>2, <2>5, <2>8, <2>9 DEF Phase
  <2>q. QED
    BY <2>3, <2>4, <2>6, <2>10, OneCallMoves DEF CallInv
<1>q. QED
  BY <1>1, <1>2

\* The sequential loop keeps the invariant.
LEMMA DecodeInTurnInv ==
    ASSUME IInv, NEW c \in Calls, DecodeInTurn(c)
    PROVE  IInv'
<1>0. Due(c) \in Nat /\ tiles[c] \in Nat /\ consumed[c] \in Nat
  BY DEF Due, IInv, TypeOK
<1>1. CASE \E why \in {"decode", "consume", "panic"} :
               Decide(c, why, Due(c), "returned")
  BY <1>0, <1>1, DecideInv DEF DecodeInTurn, Labels, Sequential!Failures
<1>2. CASE Decide(c, "done", 0, "returned")
  BY <1>2, DecideInv DEF DecodeInTurn, Labels
<1>3. CASE /\ consumed[c] < tiles[c]
           /\ Deliver(c, Due(c))
           /\ consumed' = [consumed EXCEPT ![c] = @ + 1]
           /\ UNCHANGED <<inputVars, windowVars, pc, status, fate, result>>
  <2>1. /\ pc[c] = "sequential" /\ pc' = pc
        /\ delivered' = [delivered EXCEPT ![c] = Append(@, Due(c))]
        /\ UNCHANGED <<tiles, estimate, scheduled, retained, bytes, cached,
                       status, fate, result>>
    BY <1>3 DEF DecodeInTurn, Deliver, inputVars, windowVars
  <2>2. TypeOK'
    BY SMTT(30), <1>0, <1>3, <2>1 DEF IInv, TypeOK
  <2>3. \A d \in Calls \ {c} : Same(d)
    BY <1>3, <2>1 DEF IInv, TypeOK, Same
  <2>4. Progress(c)'
    <3>1. Len(delivered'[c]) = Len(delivered[c]) + 1 /\ consumed'[c] = consumed[c] + 1
      BY <1>0, <1>3, <2>1 DEF IInv, TypeOK
    <3>2. Len(delivered[c]) = consumed[c] + 1 /\ result'[c] = Sequential!Undecided
      BY <2>1 DEF IInv, CallInv, Progress
    <3>q. QED
      BY <1>0, <1>3, <2>1, <3>1, <3>2 DEF Progress
  <2>5. Phase(c)'
    BY <2>1 DEF IInv, CallInv, Phase, Unopened, Tiles, Looping
  <2>q. QED
    BY <2>2, <2>3, <2>4, <2>5, OneCallMoves DEF CallInv
<1>q. QED
  BY <1>1, <1>2, <1>3 DEF DecodeInTurn

\* The end of the loop keeps the invariant.
LEMMA CompleteInv ==
    ASSUME IInv, NEW c \in Calls, Complete(c)
    PROVE  IInv'
  BY DecideInv DEF Complete, Labels, Looping

\* A tile that fails keeps the invariant.
LEMMA FailConsumeInv ==
    ASSUME IInv, NEW c \in Calls, FailConsume(c)
    PROVE  IInv'
<1>1. PICK i \in Tiles(c) :
        \E why \in Sequential!Failures : Decide(c, why, i, "closing")
  BY DEF FailConsume, With, Sequential!Failures
<1>2. i \in Nat
  BY DEF Tiles
<1>q. QED
  BY <1>1, <1>2, DecideInv DEF FailConsume, Labels, Looping

\* A tile that a worker or the caller has in hand changes its state.
LEMMA FlightMoves ==
    ASSUME IInv, NEW c \in Calls, NEW i \in Tiles(c), NEW state \in Flying \ {"held"},
           status[c][i] \in Flying \ {"held"}, pc[c] # "returned",
           Move(c, i, state),
           UNCHANGED <<tiles, estimate, scheduled, consumed, retained, bytes, cached,
                       delivered, result>>,
           fate' \in [Calls -> [1 .. MaxTiles -> Outcomes \cup {"none"}]],
           \/ pc' = pc
           \/ pc[c] = "receive" /\ Goto(c, "loop")
    PROVE  IInv'
<1>1. TypeOK'
  BY DEF IInv, TypeOK, Move, Goto, Labels, Flying, States, Tiles
<1>2. \A d \in Calls \ {c} : Same(d)
  BY DEF IInv, TypeOK, Move, Goto, Same
<1>3. /\ status'[c] = [status[c] EXCEPT ![i] = state]
      /\ DOMAIN status[c] = 1 .. MaxTiles /\ Tiles(c) \subseteq 1 .. MaxTiles
      /\ pc'[c] = pc[c] \/ (pc[c] = "receive" /\ pc'[c] = "loop")
  <2>1. status'[c] = [status[c] EXCEPT ![i] = state] /\ DOMAIN status[c] = 1 .. MaxTiles
    BY DEF IInv, TypeOK, Move
  <2>2. Tiles(c) \subseteq 1 .. MaxTiles
    BY ThreadsAssumption DEF IInv, TypeOK, Tiles
  <2>3. pc'[c] = pc[c] \/ (pc[c] = "receive" /\ pc'[c] = "loop")
    BY DEF IInv, TypeOK, Goto
  <2>q. QED
    BY <2>1, <2>2, <2>3
<1>4. Progress(c)'
  BY <1>3 DEF IInv, CallInv, Progress, Looping
<1>5. pc[c] \in Looping \cup {"closing"} /\ Accounts(c) /\ Placed(c)
  BY DEF IInv, CallInv, Phase, Unopened, Flying, TypeOK, Labels, Looping
<1>6. Accounts(c)'
  BY <1>5 DEF Accounts, Span, Due, Upcoming, Window
<1>7. Placed(c)'
  <2>1. i \in Span(c)
    <3>1. i \in Nat /\ consumed[c] \in Nat /\ scheduled[c] \in Nat
      BY DEF Tiles, IInv, TypeOK
    <3>2. ~(i <= consumed[c]) /\ ~(i > scheduled[c])
      BY <1>5 DEF Placed, Flying
    <3>q. QED
      BY <3>1, <3>2 DEF Span, Due
  <2>2. ~(i <= consumed[c]) /\ ~(i > scheduled[c])
    BY <2>1 DEF Span, Due, IInv, TypeOK
  <2>3. Tiles(c)' = Tiles(c) /\ Span(c)' = Span(c) /\ Due(c)' = Due(c)
    BY DEF Tiles, Span, Due
  <2>4. \A k \in Tiles(c) : status'[c][k] = IF k = i THEN state ELSE status[c][k]
    BY <1>3
  <2>q. QED
    BY <1>3, <1>5, <2>1, <2>2, <2>3, <2>4 DEF Placed, Flying
<1>8. Phase(c)'
  BY <1>3, <1>5, <1>6, <1>7 DEF Phase, Looping
<1>q. QED
  BY <1>1, <1>2, <1>4, <1>8, OneCallMoves DEF CallInv

\* Receiving a tile keeps the invariant.
LEMMA ReceiveInv ==
    ASSUME IInv, NEW c \in Calls, Receive(c)
    PROVE  IInv'
<1>1. PICK i \in With(c, "sent") : Move(c, i, "ready")
  BY DEF Receive
<1>q. QED
  BY <1>1, FlightMoves DEF Receive, With, Flying, inputVars, windowVars, IInv, TypeOK

\* Sending a tile keeps the invariant.
LEMMA FinishJobInv ==
    ASSUME IInv, NEW c \in Calls, NEW i \in Tiles(c), FinishJob(c, i)
    PROVE  IInv'
<1>1. pc[c] # "returned"
  BY DEF FinishJob, IInv, CallInv, Phase
<1>2. fate' \in [Calls -> [1 .. MaxTiles -> Outcomes \cup {"none"}]]
  <2>1. PICK outcome \in Outcomes : fate' = [fate EXCEPT ![c][i] = outcome]
    BY DEF FinishJob, Outcomes
  <2>q. QED
    BY <2>1 DEF IInv, TypeOK
<1>q. QED
  BY <1>1, <1>2, FlightMoves DEF FinishJob, Flying, inputVars, windowVars

\* Starting the job of a tile keeps the invariant.
LEMMA StartJobInv ==
    ASSUME IInv, NEW c \in Calls, StartJob(c)
    PROVE  IInv'
<1> DEFINE i == Min(With(c, "queued"))
<1>1. i \in With(c, "queued")
  <2>1. With(c, "queued") \in SUBSET Nat
    BY DEF With, Tiles
  <2>q. QED
    BY <2>1, LeastOfNaturals DEF StartJob
<1>2. i \in Tiles(c) /\ status[c][i] = "queued"
  BY <1>1 DEF With
<1>3. Move(c, i, "running")
  BY DEF StartJob
<1> HIDE DEF i
<1>4. pc[c] # "returned"
  BY <1>2 DEF IInv, CallInv, Phase
<1>q. QED
  BY <1>2, <1>3, <1>4, FlightMoves DEF StartJob, Flying, inputVars, windowVars, IInv, TypeOK

\* The end of the scope keeps the invariant.
LEMMA CloseInv ==
    ASSUME IInv, NEW c \in Calls, Close(c)
    PROVE  IInv'
<1>1. TypeOK'
  BY DEF IInv, TypeOK, Close, Goto, Labels, inputVars, windowVars
<1>2. \A d \in Calls \ {c} : Same(d)
  BY DEF IInv, TypeOK, Close, Goto, Same, inputVars, windowVars
<1>3. /\ pc[c] = "closing" /\ pc'[c] = "returned"
      /\ UNCHANGED <<tiles, estimate, scheduled, consumed, retained, bytes, cached,
                     status, delivered, result>>
  BY DEF IInv, TypeOK, Close, Goto, inputVars, windowVars
<1>4. Progress(c)'
  BY <1>3 DEF IInv, CallInv, Progress, Looping
<1>5. Accounts(c) /\ Placed(c)
  BY <1>3 DEF IInv, CallInv, Phase
<1>6. Accounts(c)'
  BY <1>3, <1>5 DEF Accounts, Span, Due, Upcoming, Window
<1>7. Placed(c)'
  BY <1>3, <1>5 DEF Placed, Span, Due, Tiles
<1>8. \A i \in Tiles(c)' : status'[c][i] \notin {"queued", "running"}
  BY <1>3 DEF Close, With, Tiles
<1>9. Phase(c)'
  BY <1>3, <1>6, <1>7, <1>8 DEF Phase, Looping
<1>q. QED
  BY <1>1, <1>2, <1>4, <1>9, OneCallMoves DEF CallInv

\* Taking the tile that is due keeps the invariant: no other tile is held.
LEMMA CollectInv ==
    ASSUME IInv, NEW c \in Calls, Collect(c)
    PROVE  IInv'
<1> DEFINE ready == With(c, "sent") \cup With(c, "ready")
           due == {i \in ready : Takes(c, i)}
           After(i) == IF i \in ready
                       THEN IF due # {} /\ i = Min(due) THEN "held" ELSE "ready"
                       ELSE status[c][i]
           label == IF due # {} THEN "consume" ELSE "fill"
<1>1. /\ pc[c] = "loop" /\ consumed[c] < tiles[c]
      /\ status' = [status EXCEPT ![c] = [i \in 1 .. MaxTiles |-> After(i)]]
      /\ pc' = [pc EXCEPT ![c] = label]
      /\ UNCHANGED <<tiles, estimate, scheduled, consumed, retained, bytes, cached,
                     fate, delivered, result>>
  <2>1. /\ status' = [status EXCEPT ![c] = [i \in 1 .. MaxTiles |->
                          IF i \in ready
                          THEN IF due # {} /\ i = Min(due) THEN "held" ELSE "ready"
                          ELSE @[i]]]
        /\ pc' = [pc EXCEPT ![c] = label]
    BY DEF Collect, Goto
  <2>2. status \in [Calls -> [1 .. MaxTiles -> States]]
    BY DEF IInv, TypeOK
  <2>q. QED
    BY <2>1, <2>2 DEF Collect, inputVars, windowVars
<1>2. /\ label \in {"consume", "fill"}
      /\ Tiles(c) \subseteq 1 .. MaxTiles
      /\ \A i \in 1 .. MaxTiles : After(i) \in States
      /\ consumed[c] \in Nat /\ scheduled[c] \in Nat /\ tiles[c] \in Nat
  BY ThreadsAssumption DEF IInv, TypeOK, Tiles, States
<1>3. /\ due # {} => Due(c) \in ready /\ due = {Due(c)}
      /\ Due(c) \in ready => due # {}
  BY DEF Takes
<1>4. Min({Due(c)}) = Due(c)
  <2>1. {Due(c)} \in SUBSET Nat
    BY <1>2 DEF Due
  <2>q. QED
    BY <2>1, LeastOfNaturals
<1>5. /\ \A i \in ready : i \in Tiles(c) /\ status[c][i] \in {"sent", "ready"}
      /\ \A i \in Tiles(c) : i \notin ready => status[c][i] \notin {"sent", "ready"}
  BY DEF With
<1>6. \A i \in Tiles(c) :
        /\ i \notin ready => After(i) = status[c][i]
        /\ i \in ready /\ i = Due(c) => After(i) = "held"
        /\ i \in ready /\ i # Due(c) => After(i) = "ready"
  BY <1>3, <1>4
<1>7. due # {} => label = "consume"
  OBVIOUS
<1>7a. due = {} => label = "fill"
  OBVIOUS
<1> HIDE DEF ready, due, After, label
<1>8. TypeOK'
  <2>1. [i \in 1 .. MaxTiles |-> After(i)] \in [1 .. MaxTiles -> States]
    BY <1>2
  <2>q. QED
    BY <1>1, <1>2, <2>1 DEF IInv, TypeOK, Labels
<1>9. \A d \in Calls \ {c} : Same(d)
  BY <1>1 DEF IInv, TypeOK, Same
<1>10. pc'[c] = label
  BY <1>1 DEF IInv, TypeOK
<1>11. \A i \in Tiles(c) : status'[c][i] = After(i)
  BY <1>1, <1>2 DEF IInv, TypeOK
<1>12. Progress(c)'
  BY <1>1, <1>2, <1>10 DEF IInv, CallInv, Progress, Looping
<1>13. Accounts(c) /\ Placed(c)
  BY <1>1 DEF IInv, CallInv, Phase, Looping
<1>14. Accounts(c)'
  BY <1>1, <1>13 DEF Accounts, Span, Due, Upcoming, Window
<1>15. Placed(c)'
  <2>1. Tiles(c)' = Tiles(c) /\ Span(c)' = Span(c) /\ Due(c)' = Due(c)
    BY <1>1 DEF Tiles, Span, Due
  <2>2. \A i \in Tiles(c) : status[c][i] # "held"
    BY <1>1, <1>13 DEF Placed
  <2>3. ASSUME NEW i \in Tiles(c)
        PROVE  /\ i <= consumed[c] => After(i) = "gone"
               /\ i \in Span(c) => After(i) \in Flying
               /\ i > scheduled[c] => After(i) = "waiting"
               /\ After(i) = "held" => i = Due(c) /\ label = "consume"
    <3>1. CASE i \in ready
      <4>1. status[c][i] \in {"sent", "ready"}
        BY <1>5, <3>1
      <4>2. ~(i <= consumed[c]) /\ ~(i > scheduled[c])
        BY <1>13, <4>1 DEF Placed
      <4>3. i = Due(c) => label = "consume"
        BY <1>3, <1>7, <3>1
      <4>q. QED
        BY <1>6, <3>1, <4>2, <4>3 DEF Flying
    <3>2. CASE i \notin ready
      BY <1>6, <1>13, <2>2, <3>2 DEF Placed
    <3>q. QED
      BY <3>1, <3>2
  <2>4. label = "consume" => consumed[c] < scheduled[c]
    <3>1. SUFFICES ASSUME due # {} PROVE consumed[c] < scheduled[c]
      BY <1>7a
    <3>2. Due(c) \in Tiles(c) /\ status[c][Due(c)] \in {"sent", "ready"}
      BY <1>3, <1>5, <3>1
    <3>3. ~(Due(c) > scheduled[c])
      BY <1>13, <3>2 DEF Placed
    <3>q. QED
      BY <1>2, <3>3 DEF Due
  <2>5. consumed'[c] = consumed[c] /\ scheduled'[c] = scheduled[c] /\ pc'[c] = label
    BY <1>1, <1>10
  <2>6. \A i \in Tiles(c) :
           /\ i <= consumed[c] => status'[c][i] = "gone"
           /\ i \in Span(c) => status'[c][i] \in Flying
           /\ i > scheduled[c] => status'[c][i] = "waiting"
           /\ status'[c][i] = "held" => i = Due(c) /\ label = "consume"
    BY <1>11, <2>3
  <2>q. QED
    BY <1>2, <2>1, <2>4, <2>5, <2>6 DEF Placed
<1>16. Phase(c)'
  BY <1>2, <1>10, <1>14, <1>15 DEF Phase, Looping
<1>q. QED
  BY <1>8, <1>9, <1>12, <1>16, OneCallMoves DEF CallInv

\* Consuming the tile that is due gives back exactly its estimate.
LEMMA ConsumeInv ==
    ASSUME IInv, NEW c \in Calls, Consume(c)
    PROVE  IInv'
<1>0. /\ tiles[c] \in Nat /\ consumed[c] \in Nat /\ scheduled[c] \in Nat
      /\ tiles[c] <= MaxTiles
      /\ retained[c] \in Seq(Nat) /\ bytes[c] \in Nat /\ delivered[c] \in Seq(Nat)
      /\ \A i \in 1 .. MaxTiles : estimate[c][i] \in Nat
  BY CallTypes DEF IInv
<1>1. pc[c] = "consume" /\ consumed[c] < scheduled[c] /\ Accounts(c) /\ Placed(c)
  BY DEF Consume, IInv, CallInv, Phase, Looping, Placed
<1>2. /\ Deliver(c, Due(c)) /\ Move(c, Due(c), "gone")
      /\ Due(c) \in Tiles(c)
  <2>1. PICK i \in With(c, "held") : Deliver(c, i) /\ Move(c, i, "gone")
    BY DEF Consume
  <2>2. i \in Tiles(c) /\ i = Due(c)
    BY <1>1, <2>1 DEF With, Placed
  <2>q. QED
    BY <2>1, <2>2
<1>3. /\ delivered' = [delivered EXCEPT ![c] = Append(@, Due(c))]
      /\ status' = [status EXCEPT ![c][Due(c)] = "gone"]
      /\ consumed' = [consumed EXCEPT ![c] = @ + 1]
      /\ bytes' = [bytes EXCEPT ![c] = @ - Head(retained[c])]
      /\ retained' = [retained EXCEPT ![c] = Tail(@)]
      /\ pc' = [pc EXCEPT ![c] = "loop"]
      /\ UNCHANGED <<tiles, estimate, scheduled, cached, fate, result>>
  BY <1>2 DEF Consume, Deliver, Move, Goto, inputVars
<1>4. retained[c] # << >> /\ Head(retained[c]) = estimate[c][Due(c)]
  BY <1>0, <1>1 DEF Accounts, Due
<1>5. /\ IsFiniteSet(Span(c)) /\ Due(c) \in Span(c)
      /\ Span(c) \ {Due(c)} = Due(c) + 1 .. scheduled[c]
      /\ \A i \in Span(c) : estimate[c][i] \in Nat
  <2>1. IsFiniteSet(Due(c) .. scheduled[c])
    <3>1. Due(c) \in Int /\ scheduled[c] \in Int
      BY <1>0 DEF Due
    <3>q. QED
      BY <3>1, FS_Interval
  <2>2. scheduled[c] <= MaxTiles
    <3>1. scheduled[c] <= tiles[c]
      BY <1>1 DEF Accounts
    <3>q. QED
      BY <1>0, <3>1, ThreadsAssumption
  <2>3. \A i \in Span(c) : i \in 1 .. MaxTiles
    BY <1>0, <2>2, ThreadsAssumption DEF Span, Due
  <2>q. QED
    BY <1>0, <1>1, <2>1, <2>3 DEF Span, Due
<1>6. /\ SumOver(estimate[c], Span(c)) =
            estimate[c][Due(c)] + SumOver(estimate[c], Due(c) + 1 .. scheduled[c])
      /\ SumOver(estimate[c], Due(c) + 1 .. scheduled[c]) \in Nat
  <2>1. IsFiniteSet(Span(c) \ {Due(c)})
    BY <1>5, FS_RemoveElement
  <2>2. \A i \in Span(c) \ {Due(c)} : estimate[c][i] \in Nat
    BY <1>5
  <2>3. SumOver(estimate[c], Span(c) \ {Due(c)}) \in Nat
    BY <2>1, <2>2, SumNatural
  <2>4. SumOver(estimate[c], Span(c)) =
          estimate[c][Due(c)] + SumOver(estimate[c], Span(c) \ {Due(c)})
    BY <1>5, SumTakesOut
  <2>q. QED
    BY <1>5, <2>3, <2>4
<1>7. bytes[c] = Head(retained[c]) + SumOver(estimate[c], Due(c) + 1 .. scheduled[c])
  BY <1>1, <1>4, <1>6 DEF Accounts
<1>8. Head(retained[c]) \in Nat
  BY <1>0, <1>4, <1>5
<1>9. /\ consumed'[c] = consumed[c] + 1 /\ retained'[c] = Tail(retained[c])
      /\ bytes'[c] = bytes[c] - Head(retained[c]) /\ pc'[c] = "loop"
      /\ status'[c] = [status[c] EXCEPT ![Due(c)] = "gone"]
      /\ delivered'[c] = Append(delivered[c], Due(c))
  BY <1>3 DEF IInv, TypeOK
<1>10. bytes'[c] = SumOver(estimate[c], Due(c) + 1 .. scheduled[c])
  <2> DEFINE left == SumOver(estimate[c], Due(c) + 1 .. scheduled[c])
  <2>1. left \in Nat /\ bytes[c] = Head(retained[c]) + left
    BY <1>6, <1>7
  <2> HIDE DEF left
  <2>2. bytes[c] - Head(retained[c]) = left
    BY <1>0, <1>8, <2>1
  <2>q. QED
    BY <1>9, <2>2 DEF left
<1>11. TypeOK'
  <2>1. Tail(retained[c]) \in Seq(Nat) /\ Append(delivered[c], Due(c)) \in Seq(Nat)
    BY <1>0, <1>4 DEF Due
  <2>2. bytes'[c] \in Nat
    BY <1>6, <1>10
  <2>3. bytes' \in [Calls -> Nat]
    BY <1>3, <2>2 DEF IInv, TypeOK
  <2>4. /\ retained' \in [Calls -> Seq(Nat)] /\ delivered' \in [Calls -> Seq(Nat)]
        /\ consumed' \in [Calls -> Nat] /\ pc' \in [Calls -> Labels]
    <3>1. retained' \in [Calls -> Seq(Nat)]
      BY <1>3, <2>1 DEF IInv, TypeOK
    <3>2. delivered' \in [Calls -> Seq(Nat)]
      BY <1>3, <2>1 DEF IInv, TypeOK
    <3>3. consumed' \in [Calls -> Nat]
      BY <1>3 DEF IInv, TypeOK
    <3>4. pc' \in [Calls -> Labels]
      BY <1>3 DEF IInv, TypeOK, Labels
    <3>q. QED
      BY <3>1, <3>2, <3>3, <3>4
  <2>5. status' \in [Calls -> [1 .. MaxTiles -> States]]
    BY <1>3 DEF IInv, TypeOK, States
  <2>q. QED
    BY <1>3, <2>3, <2>4, <2>5 DEF IInv, TypeOK
<1>12. \A d \in Calls \ {c} : Same(d)
  BY <1>3 DEF IInv, TypeOK, Same
<1>13. Progress(c)'
  <2>1. Len(delivered[c]) = consumed[c] + 1 /\ result[c] = Sequential!Undecided
    BY <1>1 DEF IInv, CallInv, Progress, Looping
  <2>2. Len(delivered'[c]) = Len(delivered[c]) + 1
    BY <1>0, <1>9
  <2>3. scheduled[c] <= tiles[c]
    BY <1>1 DEF Accounts
  <2>4. result'[c] = result[c] /\ tiles'[c] = tiles[c]
    BY <1>3
  <2>q. QED
    BY SMTT(30), <1>0, <1>1, <1>9, <2>1, <2>2, <2>3, <2>4 DEF Progress
<1>14. Accounts(c)'
  <2> DEFINE t == Tail(retained[c])
  <2>1. /\ Len(t) = Len(retained[c]) - 1
        /\ \A n \in 1 .. Len(t) : t[n] = retained[c][n + 1]
    BY <1>0, <1>4
  <2>2. Len(retained[c]) \in Nat
    BY <1>0
  <2> HIDE DEF t
  <2>3. /\ Window(c)' = Window(c) /\ Span(c)' = Due(c) + 1 .. scheduled[c]
        /\ Due(c)' = consumed[c] + 2 /\ Upcoming(c)' = Upcoming(c)
    BY SMTT(30), <1>0, <1>3, <1>9 DEF Window, Span, Due, Upcoming
  <2>4. Window(c) \in Nat
    BY WindowType DEF IInv
  <2>5. Len(t) = scheduled[c] - (consumed[c] + 1) /\ Len(t) <= Window(c)
    BY <1>0, <1>1, <2>1, <2>2, <2>4 DEF Accounts
  <2>6. ASSUME NEW n \in 1 .. Len(t)
        PROVE  t[n] = estimate[c][(consumed[c] + 1) + n] /\ t[n] # Unknown
    <3>1. n + 1 \in 1 .. Len(retained[c])
      BY <2>1, <2>2
    <3>2. consumed[c] + (n + 1) = (consumed[c] + 1) + n
      <4>1. consumed[c] \in Nat /\ n \in Nat
        BY <1>0
      <4>q. QED
        BY ONLY <4>1
    <3>3. /\ retained[c][n + 1] = estimate[c][consumed[c] + (n + 1)]
          /\ retained[c][n + 1] # Unknown
      BY <1>1, <3>1 DEF Accounts
    <3>q. QED
      BY <2>1, <3>2, <3>3
  <2>7. Len(t) <= 1 \/ bytes'[c] <= Budget
    <3>1. Len(retained[c]) <= 1 \/ bytes[c] <= Budget
      BY <1>1 DEF Accounts
    <3>2. bytes'[c] = bytes[c] - Head(retained[c]) /\ Budget \in Nat
      BY <1>9, MemoryAssumption
    <3>q. QED
      BY <1>0, <1>8, <2>1, <2>2, <3>1, <3>2
  <2>8. /\ cached'[c] = cached[c] /\ scheduled'[c] = scheduled[c]
        /\ tiles'[c] = tiles[c] /\ estimate'[c] = estimate[c] /\ retained'[c] = t
    BY <1>3, <1>9 DEF t
  <2>9. cached[c] = << >> \/ (scheduled[c] < tiles[c] /\ cached[c] = <<estimate[c][Upcoming(c)]>>)
    BY <1>1 DEF Accounts
  <2>10. scheduled[c] <= tiles[c] /\ consumed[c] + 1 <= scheduled[c]
    BY <1>0, <1>1 DEF Accounts
  <2>11. bytes'[c] = SumOver(estimate'[c], Span(c)')
    BY <1>10, <2>3, <2>8
  <2>q. QED
    BY <1>9, <2>3, <2>5, <2>6, <2>7, <2>8, <2>9, <2>10, <2>11 DEF Accounts
<1>15. Placed(c)'
  <2>1. /\ Tiles(c)' = Tiles(c) /\ Span(c)' = Due(c) + 1 .. scheduled[c]
        /\ scheduled'[c] = scheduled[c]
    BY <1>0, <1>3, <1>9 DEF Tiles, Span, Due
  <2>2. ASSUME NEW i \in Tiles(c)
        PROVE  /\ i \in 1 .. MaxTiles /\ i \in Nat
               /\ i = Due(c) => status'[c][i] = "gone"
               /\ i # Due(c) => status'[c][i] = status[c][i] /\ status[c][i] # "held"
    <3>1. i \in 1 .. MaxTiles
      BY <1>0, ThreadsAssumption DEF Tiles
    <3>2. DOMAIN status[c] = 1 .. MaxTiles
      BY DEF IInv, TypeOK
    <3>3. i # Due(c) => status[c][i] # "held"
      BY <1>1 DEF Placed
    <3>4. i = Due(c) => status'[c][i] = "gone"
      BY <1>9, <3>1, <3>2
    <3>5. i # Due(c) => status'[c][i] = status[c][i]
      BY <1>9, <3>1, <3>2
    <3>q. QED
      BY <3>1, <3>3, <3>4, <3>5
  <2>3. ASSUME NEW i \in Tiles(c)
        PROVE  /\ i <= consumed[c] + 1 => status'[c][i] = "gone"
               /\ i \in Due(c) + 1 .. scheduled[c] => status'[c][i] \in Flying
               /\ i > scheduled[c] => status'[c][i] = "waiting"
               /\ status'[c][i] # "held"
    <3>1. CASE i = Due(c)
      BY <1>0, <1>1, <2>2, <3>1 DEF Due
    <3>2. CASE i # Due(c)
      <4>1. i <= consumed[c] + 1 => i <= consumed[c]
        BY <1>0, <2>2, <3>2 DEF Due
      <4>2. i \in Due(c) + 1 .. scheduled[c] => i \in Span(c)
        BY <1>5
      <4>q. QED
        BY <1>1, <2>2, <3>2, <4>1, <4>2 DEF Placed
    <3>q. QED
      BY <3>1, <3>2
  <2>q. QED
    BY <1>9, <2>1, <2>3 DEF Placed
<1>16. Phase(c)'
  BY <1>9, <1>14, <1>15 DEF Phase, Looping
<1>q. QED
  BY <1>11, <1>12, <1>13, <1>16, OneCallMoves DEF CallInv

\* The remembered estimate is that of the tile to hand out next.
LEMMA NeededIs ==
    ASSUME IInv, NEW c \in Calls, pc[c] \in Looping, PermitLeft(c)
    PROVE  /\ Needed(c) = estimate[c][Upcoming(c)] /\ Needed(c) \in Nat
           /\ Upcoming(c) \in Tiles(c) /\ Upcoming(c) \in 1 .. MaxTiles
<1>0. /\ tiles[c] \in Nat /\ scheduled[c] \in Nat /\ Tiles(c) \subseteq 1 .. MaxTiles
      /\ \A i \in 1 .. MaxTiles : estimate[c][i] \in Nat
  BY CallTypes DEF IInv
<1>1. Accounts(c)
  BY DEF IInv, CallInv, Phase
<1>2. Upcoming(c) \in Tiles(c)
  BY <1>0 DEF PermitLeft, Upcoming, Tiles
<1>3. Needed(c) = estimate[c][Upcoming(c)]
  <2>1. CASE cached[c] = << >>
    BY <2>1 DEF Needed
  <2>2. CASE cached[c] = <<estimate[c][Upcoming(c)]>>
    BY <2>2 DEF Needed
  <2>q. QED
    BY <1>1, <2>1, <2>2 DEF Accounts
<1>q. QED
  BY <1>0, <1>2, <1>3

\* Handing out a tile accounts for its memory and keeps within the budget.
LEMMA ScheduleInv ==
    ASSUME IInv, NEW c \in Calls, Schedule(c)
    PROVE  IInv'
<1>0. /\ tiles[c] \in Nat /\ consumed[c] \in Nat /\ scheduled[c] \in Nat
      /\ tiles[c] <= MaxTiles
      /\ retained[c] \in Seq(Nat) /\ bytes[c] \in Nat
      /\ \A i \in 1 .. MaxTiles : estimate[c][i] \in Nat
      /\ DOMAIN status[c] = 1 .. MaxTiles /\ Tiles(c) \subseteq 1 .. MaxTiles
  BY CallTypes DEF IInv
<1>1. pc[c] = "fill" /\ Accounts(c) /\ Placed(c)
  BY DEF Schedule, IInv, CallInv, Phase, Looping
<1>2. PermitLeft(c) /\ Needed(c) # Unknown /\ Fits(c)
  BY DEF Schedule, CanSchedule
<1> DEFINE u == Upcoming(c)
           need == Needed(c)
<1>3. /\ need = estimate[c][u] /\ need \in Nat /\ u \in Tiles(c) /\ u \in 1 .. MaxTiles
      /\ u = scheduled[c] + 1
  BY <1>1, <1>2, NeededIs DEF Looping, Upcoming
<1>4. /\ status' = [status EXCEPT ![c][u] = "queued"]
      /\ retained' = [retained EXCEPT ![c] = Append(@, need)]
      /\ bytes' = [bytes EXCEPT ![c] = @ + need]
      /\ scheduled' = [scheduled EXCEPT ![c] = @ + 1]
      /\ cached' = [cached EXCEPT ![c] = << >>]
      /\ UNCHANGED <<tiles, estimate, pc, consumed, fate, delivered, result>>
  BY DEF Schedule, Move, inputVars
<1> HIDE DEF u, need
<1>5. /\ status'[c] = [status[c] EXCEPT ![u] = "queued"]
      /\ retained'[c] = Append(retained[c], need) /\ bytes'[c] = bytes[c] + need
      /\ scheduled'[c] = scheduled[c] + 1 /\ cached'[c] = << >>
  BY <1>4 DEF IInv, TypeOK
<1>6. TypeOK'
  <2>1. status' \in [Calls -> [1 .. MaxTiles -> States]]
    BY <1>4 DEF IInv, TypeOK, States
  <2>2. Append(retained[c], need) \in Seq(Nat) /\ bytes[c] + need \in Nat
    BY <1>0, <1>3
  <2>3. retained' \in [Calls -> Seq(Nat)]
    BY <1>4, <2>2 DEF IInv, TypeOK
  <2>4. bytes' \in [Calls -> Nat]
    BY <1>4, <2>2 DEF IInv, TypeOK
  <2>5. scheduled' \in [Calls -> Nat]
    BY <1>4 DEF IInv, TypeOK
  <2>6. cached' \in [Calls -> Seq(Nat)]
    BY <1>4 DEF IInv, TypeOK
  <2>q. QED
    BY <1>4, <2>1, <2>3, <2>4, <2>5, <2>6 DEF IInv, TypeOK
<1>7. \A d \in Calls \ {c} : Same(d)
  BY <1>4 DEF IInv, TypeOK, Same
<1>8. Progress(c)'
  BY <1>4 DEF IInv, CallInv, Progress
<1>9. Accounts(c)'
  <2> DEFINE t == Append(retained[c], need)
  <2>1. /\ Len(t) = Len(retained[c]) + 1 /\ t[Len(t)] = need
        /\ \A n \in 1 .. Len(retained[c]) : t[n] = retained[c][n]
    BY <1>0, <1>3
  <2>2. Len(retained[c]) \in Nat /\ Window(c) \in Nat
    BY <1>0, WindowType DEF IInv
  <2> HIDE DEF t
  <2>3. /\ Window(c)' = Window(c) /\ Span(c)' = Due(c) .. u
    BY <1>3, <1>4, <1>5 DEF Window, Span, Due
  <2>4. Len(retained[c]) = scheduled[c] - consumed[c] /\ Len(retained[c]) < Window(c)
        /\ consumed[c] <= scheduled[c] /\ scheduled[c] < tiles[c]
    BY <1>1, <1>2 DEF Accounts, PermitLeft
  <2>5. /\ Len(t) = u - consumed[c] /\ Len(t) <= Window(c)
        /\ consumed[c] <= u /\ u <= tiles[c]
    BY SMTT(30), <1>0, <1>3, <2>1, <2>2, <2>4
  <2>6. ASSUME NEW n \in 1 .. Len(t)
        PROVE  t[n] = estimate[c][consumed[c] + n] /\ t[n] # Unknown
    <3>1. CASE n = Len(t)
      <4>1. consumed[c] + n = u
        <5>1. u \in Nat /\ consumed[c] \in Nat /\ n = u - consumed[c]
          BY <1>0, <1>3, <2>5, <3>1
        <5>q. QED
          BY ONLY <5>1
      <4>q. QED
        BY <1>2, <1>3, <2>1, <3>1, <4>1 DEF need
    <3>2. CASE n # Len(t)
      <4>1. n \in 1 .. Len(retained[c])
        BY <2>1, <2>2, <3>2
      <4>q. QED
        BY <1>1, <2>1, <4>1 DEF Accounts
    <3>q. QED
      BY <3>1, <3>2
  <2>7. /\ IsFiniteSet(Due(c) .. u) /\ u \in Due(c) .. u
        /\ (Due(c) .. u) \ {u} = Span(c)
        /\ \A i \in Due(c) .. u : estimate[c][i] \in Nat
    <3>1. Due(c) \in Int /\ u \in Int
      BY <1>0, <1>3 DEF Due
    <3>2. IsFiniteSet(Due(c) .. u)
      BY <3>1, FS_Interval
    <3>3. u \in Due(c) .. u /\ (Due(c) .. u) \ {u} = Span(c)
      BY <1>0, <1>3, <2>4 DEF Due, Span
    <3>4. \A i \in Due(c) .. u : i \in 1 .. MaxTiles
      <4>1. \A i \in consumed[c] + 1 .. u : i \in Nat /\ i >= 1 /\ i <= u
        BY <1>0, <1>3
      <4>2. u <= MaxTiles /\ u \in Nat /\ MaxTiles \in Nat
        BY <1>3, ThreadsAssumption
      <4>q. QED
        BY <4>1, <4>2 DEF Due
    <3>q. QED
      BY <1>0, <3>2, <3>3, <3>4
  <2>8. bytes'[c] = SumOver(estimate[c], Due(c) .. u)
    <3>1. SumOver(estimate[c], Due(c) .. u) = estimate[c][u] + SumOver(estimate[c], Span(c))
      <4> DEFINE r == Due(c) .. u
      <4>1. IsFiniteSet(r) /\ u \in r /\ r \ {u} = Span(c) /\ \A i \in r : estimate[c][i] \in Nat
        BY <2>7
      <4> HIDE DEF r
      <4>2. SumOver(estimate[c], r) = estimate[c][u] + SumOver(estimate[c], r \ {u})
        BY <4>1, SumTakesOut
      <4>q. QED
        BY <4>1, <4>2 DEF r
    <3>2. bytes[c] = SumOver(estimate[c], Span(c))
      BY <1>1 DEF Accounts
    <3>3. need + bytes[c] = bytes[c] + need
      BY <1>0, <1>3
    <3>q. QED
      BY <1>3, <1>5, <3>1, <3>2, <3>3
  <2>9. Len(t) <= 1 \/ bytes'[c] <= Budget
    <3>1. CASE retained[c] = << >>
      BY <2>1, <3>1
    <3>2. CASE bytes[c] + need <= Budget
      BY <1>5, <3>2
    <3>q. QED
      BY <1>2, <3>1, <3>2 DEF Fits, need
  <2>10. /\ cached'[c] = << >> /\ scheduled'[c] = u /\ consumed'[c] = consumed[c]
         /\ tiles'[c] = tiles[c] /\ estimate'[c] = estimate[c] /\ retained'[c] = t
    BY <1>3, <1>4, <1>5 DEF t
  <2>11. bytes'[c] = SumOver(estimate'[c], Span(c)')
    BY <2>3, <2>8, <2>10
  <2>q. QED
    BY <2>3, <2>5, <2>6, <2>9, <2>10, <2>11 DEF Accounts
<1>10. Placed(c)'
  <2>1. Tiles(c)' = Tiles(c) /\ Span(c)' = Due(c) .. u /\ Due(c)' = Due(c)
    BY <1>3, <1>4, <1>5 DEF Tiles, Span, Due
  <2>2. ASSUME NEW i \in Tiles(c)
        PROVE  status'[c][i] = IF i = u THEN "queued" ELSE status[c][i]
    BY <1>0, <1>5
  <2>3. \A i \in Tiles(c) : status[c][i] # "held"
    BY <1>1 DEF Placed
  <2>4. consumed[c] <= scheduled[c]
    BY <1>1 DEF Accounts
  <2>5. ASSUME NEW i \in Tiles(c)
        PROVE  /\ i <= consumed[c] => status'[c][i] = "gone"
               /\ i \in Due(c) .. u => status'[c][i] \in Flying
               /\ i > u => status'[c][i] = "waiting"
               /\ status'[c][i] # "held"
    <3>0. i \in Nat
      BY DEF Tiles
    <3>1. CASE i = u
      BY <1>0, <1>3, <2>2, <2>4, <3>1 DEF Flying
    <3>2. CASE i # u
      <4>1. i \in Due(c) .. u => i \in Span(c)
        BY <1>0, <1>3, <3>0, <3>2 DEF Due, Span
      <4>2. i > u => i > scheduled[c]
        BY <1>0, <1>3, <3>0
      <4>q. QED
        BY <1>1, <2>2, <2>3, <3>2, <4>1, <4>2 DEF Placed
    <3>q. QED
      BY <3>1, <3>2
  <2>q. QED
    BY <1>1, <1>3, <1>4, <1>5, <2>1, <2>5 DEF Placed
<1>11. Phase(c)'
  BY <1>1, <1>4, <1>9, <1>10 DEF Phase, Looping
<1>q. QED
  BY <1>6, <1>7, <1>8, <1>11, OneCallMoves DEF CallInv

\* Ending the loop that hands out tiles keeps the invariant.
LEMMA EndFillInv ==
    ASSUME IInv, NEW c \in Calls, EndFill(c)
    PROVE  IInv'
<1>0. /\ tiles[c] \in Nat /\ consumed[c] \in Nat /\ scheduled[c] \in Nat
      /\ retained[c] \in Seq(Nat) /\ MaxTiles \in Nat
      /\ DOMAIN status[c] = 1 .. MaxTiles /\ Tiles(c) \subseteq 1 .. MaxTiles
  BY CallTypes DEF IInv
<1>1. pc[c] = "fill" /\ Accounts(c) /\ Placed(c) /\ consumed[c] < tiles[c]
  BY DEF EndFill, IInv, CallInv, Phase, Progress, Looping
<1> DEFINE memory == IF PermitLeft(c) THEN <<Needed(c)>> ELSE cached[c]
<1>2. /\ cached' = [cached EXCEPT ![c] = memory]
      /\ UNCHANGED <<tiles, estimate, scheduled, retained, bytes, consumed, fate,
                     delivered, result>>
  BY DEF EndFill, inputVars
<1>3. /\ memory \in Seq(Nat)
      /\ \/ memory = << >>
         \/ scheduled[c] < tiles[c] /\ memory = <<estimate[c][Upcoming(c)]>>
  <2>1. CASE PermitLeft(c)
    <3>1. Needed(c) = estimate[c][Upcoming(c)] /\ Needed(c) \in Nat
      BY <1>1, <2>1, NeededIs DEF Looping
    <3>q. QED
      BY <2>1, <3>1 DEF PermitLeft
  <2>2. CASE ~PermitLeft(c)
    <3>1. memory = cached[c]
      BY <2>2
    <3>2. cached[c] \in Seq(Nat)
      BY DEF IInv, TypeOK
    <3>q. QED
      BY <1>1, <3>1, <3>2 DEF Accounts
  <2>q. QED
    BY <2>1, <2>2
<1> HIDE DEF memory
<1>4. cached'[c] = memory /\ cached' \in [Calls -> Seq(Nat)]
  BY <1>2, <1>3 DEF IInv, TypeOK
<1>5. Accounts(c)'
  BY <1>1, <1>2, <1>3, <1>4 DEF Accounts, Span, Due, Upcoming, Window
<1>6. \A i \in Tiles(c) : status[c][i] # "held"
  BY <1>1 DEF Placed
<1>7. Tiles(c)' = Tiles(c) /\ Span(c)' = Span(c) /\ Due(c)' = Due(c)
  BY <1>2 DEF Tiles, Span, Due
<1>8. CASE scheduled[c] = consumed[c] /\ retained[c] = << >>
  <2>1. /\ pc' = [pc EXCEPT ![c] = "inline"]
        /\ status' = [status EXCEPT ![c][Due(c)] = "held"]
    BY <1>8 DEF EndFill, Goto, Move
  <2>2. Due(c) \in Tiles(c) /\ Due(c) > scheduled[c]
    BY <1>0, <1>1, <1>8 DEF Due, Tiles
  <2>3. TypeOK'
    BY <1>2, <1>4, <2>1 DEF IInv, TypeOK, Labels, States
  <2>4. \A d \in Calls \ {c} : Same(d)
    BY <1>2, <2>1 DEF IInv, TypeOK, Same
  <2>5. /\ pc'[c] = "inline" /\ status'[c] = [status[c] EXCEPT ![Due(c)] = "held"]
    BY <2>1 DEF IInv, TypeOK
  <2>6. Progress(c)'
    BY <1>1, <1>2, <2>5 DEF IInv, CallInv, Progress, Looping
  <2>7. \A i \in Tiles(c) : status'[c][i] = IF i = Due(c) THEN "held" ELSE status[c][i]
    BY <1>0, <2>5
  <2>8. ASSUME NEW i \in Tiles(c)
        PROVE  /\ i <= consumed[c] => status'[c][i] = "gone"
               /\ i \in Span(c) => status'[c][i] \in Flying
               /\ i > scheduled[c] =>
                    \/ status'[c][i] = "waiting"
                    \/ status'[c][i] = "held" /\ i = Due(c)
               /\ status'[c][i] = "held" => i = Due(c)
    <3>1. CASE i = Due(c)
      BY <1>0, <2>7, <3>1 DEF Due, Flying
    <3>2. CASE i # Due(c)
      BY <1>1, <1>6, <2>7, <3>2 DEF Placed
    <3>q. QED
      BY <3>1, <3>2
  <2>9. Placed(c)'
    BY <1>2, <1>7, <1>8, <2>5, <2>8 DEF Placed
  <2>10. Phase(c)'
    BY <1>5, <2>5, <2>9 DEF Phase, Looping
  <2>q. QED
    BY <2>3, <2>4, <2>6, <2>10, OneCallMoves DEF CallInv
<1>9. CASE ~(scheduled[c] = consumed[c] /\ retained[c] = << >>)
  <2>1. pc' = [pc EXCEPT ![c] = "receive"] /\ status' = status
    BY <1>9 DEF EndFill, Goto
  <2>2. TypeOK'
    BY <1>2, <1>4, <2>1 DEF IInv, TypeOK, Labels
  <2>3. \A d \in Calls \ {c} : Same(d)
    BY <1>2, <2>1 DEF IInv, TypeOK, Same
  <2>4. pc'[c] = "receive"
    BY <2>1 DEF IInv, TypeOK
  <2>5. Progress(c)'
    BY <1>1, <1>2, <2>4 DEF IInv, CallInv, Progress, Looping
  <2>6. Placed(c)'
    BY <1>1, <1>2, <1>6, <1>7, <2>1, <2>4 DEF Placed
  <2>7. Phase(c)'
    BY <1>5, <2>4, <2>6 DEF Phase, Looping
  <2>q. QED
    BY <2>2, <2>3, <2>5, <2>7, OneCallMoves DEF CallInv
<1>q. QED
  BY <1>8, <1>9

\* A tile that the caller decodes itself was alone.
LEMMA DecodeInlineInv ==
    ASSUME IInv, NEW c \in Calls, DecodeInline(c)
    PROVE  IInv'
<1>0. /\ tiles[c] \in Nat /\ consumed[c] \in Nat /\ scheduled[c] \in Nat
      /\ retained[c] \in Seq(Nat) /\ delivered[c] \in Seq(Nat)
      /\ DOMAIN status[c] = 1 .. MaxTiles /\ Tiles(c) \subseteq 1 .. MaxTiles
      /\ Due(c) \in Nat
  BY CallTypes DEF IInv, Due
<1>1. CASE \E why \in {"decode", "consume", "panic"} :
               Decide(c, why, Due(c), "closing")
  BY <1>0, <1>1, DecideInv DEF DecodeInline, Labels, Looping, Sequential!Failures
<1>2. CASE ~ \E why \in {"decode", "consume", "panic"} :
               Decide(c, why, Due(c), "closing")
  <2>1. /\ pc[c] = "inline"
        /\ delivered' = [delivered EXCEPT ![c] = Append(@, Due(c))]
        /\ status' = [status EXCEPT ![c][Due(c)] = "gone"]
        /\ consumed' = [consumed EXCEPT ![c] = @ + 1]
        /\ scheduled' = [scheduled EXCEPT ![c] = @ + 1]
        /\ cached' = [cached EXCEPT ![c] = << >>]
        /\ pc' = [pc EXCEPT ![c] = "loop"]
        /\ UNCHANGED <<tiles, estimate, retained, bytes, fate, result>>
    BY <1>2 DEF DecodeInline, Deliver, Move, Goto, inputVars
  <2>2. /\ Accounts(c) /\ Placed(c) /\ consumed[c] = scheduled[c]
        /\ consumed[c] < tiles[c] /\ Len(delivered[c]) = consumed[c] + 1
    BY <2>1 DEF IInv, CallInv, Phase, Progress, Placed, Looping
  <2>3. TypeOK'
    <3>1. status' \in [Calls -> [1 .. MaxTiles -> States]]
      BY <2>1 DEF IInv, TypeOK, States
    <3>2. consumed' \in [Calls -> Nat] /\ scheduled' \in [Calls -> Nat]
      BY SMTT(30), <2>1 DEF IInv, TypeOK
    <3>3. delivered' \in [Calls -> Seq(Nat)]
      BY <1>0, <2>1 DEF IInv, TypeOK
    <3>4. cached' \in [Calls -> Seq(Nat)] /\ pc' \in [Calls -> Labels]
      BY SMTT(30), <2>1 DEF IInv, TypeOK, Labels
    <3>q. QED
      BY <2>1, <3>1, <3>2, <3>3, <3>4 DEF IInv, TypeOK
  <2>4. \A d \in Calls \ {c} : Same(d)
    BY <2>1 DEF IInv, TypeOK, Same
  <2>5. /\ pc'[c] = "loop" /\ consumed'[c] = consumed[c] + 1
        /\ scheduled'[c] = consumed[c] + 1 /\ cached'[c] = << >>
        /\ status'[c] = [status[c] EXCEPT ![Due(c)] = "gone"]
        /\ delivered'[c] = Append(delivered[c], Due(c))
    BY <2>1, <2>2 DEF IInv, TypeOK
  <2>6. Progress(c)'
    <3>1. Len(delivered'[c]) = Len(delivered[c]) + 1 /\ result'[c] = Sequential!Undecided
      BY <1>0, <2>1, <2>5 DEF IInv, CallInv, Progress
    <3>q. QED
      BY <1>0, <2>1, <2>2, <2>5, <3>1 DEF Progress
  <2>7. Accounts(c)'
    <3>1. Span(c) = {} /\ Span(c)' = {}
      BY <1>0, <2>2, <2>5 DEF Span, Due
    <3>2. Len(retained[c]) = 0
      BY <1>0, <2>2 DEF Accounts
    <3>3. bytes'[c] = SumOver(estimate'[c], Span(c)')
      BY <2>1, <2>2, <3>1 DEF Accounts
    <3>4. Window(c)' = Window(c) /\ Window(c) \in Nat
      BY <2>1, WindowType DEF Window, IInv
    <3>q. QED
      BY SMTT(30), <1>0, <2>1, <2>2, <2>5, <3>2, <3>3, <3>4 DEF Accounts
  <2>8. Placed(c)'
    <3>1. Tiles(c)' = Tiles(c) /\ Span(c)' = {} /\ Due(c) = consumed[c] + 1
      BY <1>0, <2>1, <2>5 DEF Tiles, Span, Due
    <3>2. ASSUME NEW i \in Tiles(c)
          PROVE  /\ i <= consumed[c] + 1 => status'[c][i] = "gone"
                 /\ i > consumed[c] + 1 => status'[c][i] = "waiting"
                 /\ status'[c][i] # "held"
      <4>1. status'[c][i] = IF i = Due(c) THEN "gone" ELSE status[c][i]
        BY <1>0, <2>5
      <4>2. i \in Nat
        BY DEF Tiles
      <4>3. CASE i = Due(c)
        BY <1>0, <3>1, <4>1, <4>3
      <4>4. CASE i # Due(c)
        <5>1. i <= consumed[c] + 1 => i <= consumed[c]
          BY <1>0, <3>1, <4>2, <4>4
        <5>2. i > consumed[c] + 1 => i > scheduled[c]
          BY <1>0, <2>2, <4>2
        <5>q. QED
          BY <2>2, <4>1, <4>4, <5>1, <5>2 DEF Placed
      <4>q. QED
        BY <4>3, <4>4
    <3>q. QED
      BY <2>5, <3>1, <3>2 DEF Placed
  <2>9. Phase(c)'
    BY <2>5, <2>7, <2>8 DEF Phase, Looping
  <2>q. QED
    BY <2>3, <2>4, <2>6, <2>9, OneCallMoves DEF CallInv
<1>q. QED
  BY <1>1, <1>2

\* Every step keeps the invariant.
LEMMA NextInv ==
    ASSUME IInv, [Next]_vars
    PROVE  IInv'
<1>1. CASE UNCHANGED vars
  <2>1. TypeOK' /\ \A d \in Calls : Same(d)
    BY <1>1 DEF IInv, TypeOK, Same, vars, inputVars, windowVars
  <2>q. QED
    BY <2>1, SameKeeps DEF IInv
<1>2. ASSUME NEW c \in Calls, Caller(c)
      PROVE  IInv'
  BY <1>2, BeginInv, ConsumeFirstInv, DecodeInTurnInv, CollectInv, CompleteInv,
     ConsumeInv, FailConsumeInv, ScheduleInv, EndFillInv, DecodeInlineInv,
     ReceiveInv, CloseInv DEF Caller
<1>3. ASSUME NEW c \in Calls, Job(c)
      PROVE  IInv'
  BY <1>3, StartJobInv, FinishJobInv DEF Job
<1>q. QED
  BY <1>1, <1>2, <1>3 DEF Next, AllReturned

\* The inductive invariant of any number of calls on any pool: what a call
\* retains are the estimates of its tiles in flight, in order, and only the
\* tile that is due is ever held.
THEOREM InvAlways == Spec => []IInv
  BY InitInv, NextInv, PTL DEF Spec

-----------------------------------------------------------------------------
\* The tiles that a call accounts for are those between the two counters.
LEMMA AccountsOfOneCall ==
    ASSUME IInv, NEW c \in Calls
    PROVE  /\ bytes[c] = MapThenSumSet(LAMBDA i : estimate[c][i],
                                       {i \in InFlight(c) : i <= scheduled[c]})
           /\ pc[c] = "consume" =>
                \A i \in With(c, "held") :
                    retained[c] # << >> /\ Head(retained[c]) = estimate[c][i]
<1>0. /\ tiles[c] \in Nat /\ consumed[c] \in Nat /\ scheduled[c] \in Nat
      /\ retained[c] \in Seq(Nat) /\ bytes[c] \in Nat
  BY CallTypes DEF IInv
<1>1. pc[c] = "consume" => Accounts(c) /\ Placed(c)
  BY DEF IInv, CallInv, Phase, Looping
<1>2. CASE Unopened(c)
  <2>1. {i \in InFlight(c) : i <= scheduled[c]} = {}
    BY <1>2 DEF Unopened, InFlight
  <2>2. bytes[c] = SumOver(estimate[c], {})
    BY <1>2, FS_EmptySet, SumUnfolds DEF Unopened
  <2>3. pc[c] # "consume"
    BY <1>0, <1>1, <1>2 DEF Unopened, Placed
  <2>q. QED
    BY <2>1, <2>2, <2>3 DEF SumOver
<1>3. CASE Accounts(c) /\ Placed(c)
  <2>1. {i \in InFlight(c) : i <= scheduled[c]} = Span(c)
    <3>1. ASSUME NEW i \in InFlight(c), i <= scheduled[c] PROVE i \in Span(c)
      <4>1. /\ i \in Nat /\ i \in Tiles(c)
            /\ status[c][i] \in {"queued", "running", "sent", "ready", "held"}
        BY DEF InFlight, Tiles
      <4>2. ~(i <= consumed[c])
        BY <1>3, <4>1 DEF Placed
      <4>q. QED
        BY <1>0, <3>1, <4>1, <4>2 DEF Span, Due
    <3>2. ASSUME NEW i \in Span(c) PROVE i \in InFlight(c) /\ i <= scheduled[c]
      <4>1. i \in Tiles(c) /\ i <= scheduled[c]
        BY <1>0, <1>3 DEF Accounts, Span, Due, Tiles
      <4>q. QED
        BY <1>3, <4>1 DEF Placed, Flying, InFlight
    <3>q. QED
      BY <3>1, <3>2
  <2>2. bytes[c] = SumOver(estimate[c], Span(c))
    BY <1>3 DEF Accounts
  <2>3. ASSUME pc[c] = "consume", NEW i \in With(c, "held")
        PROVE  retained[c] # << >> /\ Head(retained[c]) = estimate[c][i]
    <3>1. i = consumed[c] + 1
      BY <1>3 DEF With, Placed, Due
    <3>2. Len(retained[c]) \in Nat /\ 1 \in 1 .. Len(retained[c])
      BY <1>0, <1>3, <2>3 DEF Placed, Accounts
    <3>3. retained[c][1] = estimate[c][consumed[c] + 1]
      BY <1>3, <3>2 DEF Accounts
    <3>4. retained[c] # << >> /\ Head(retained[c]) = retained[c][1]
      BY <1>0, <3>2
    <3>q. QED
      BY <3>1, <3>3, <3>4
  <2>q. QED
    BY <2>1, <2>2, <2>3 DEF SumOver
<1>q. QED
  BY <1>2, <1>3 DEF IInv, TypeOK, CallInv, Phase, Labels, Looping

\* For any number of calls, tiles and threads and any estimates, the counter of
\* retained bytes is the sum over the tiles in flight, and a consumed tile
\* gives back its own estimate (released_estimate).
THEOREM AccountsAreExact == Spec => []AccountsExact
<1>1. IInv => AccountsExact
  BY AccountsOfOneCall DEF AccountsExact
<1>q. QED
  BY <1>1, InvAlways, PTL

\* The tiles in flight are the retained ones, or a single one.
LEMMA BoundsOfOneCall ==
    ASSUME IInv, NEW c \in Calls
    PROVE  /\ Cardinality(InFlight(c)) <= Max({1, Window(c)})
           /\ \/ Cardinality(InFlight(c)) <= 1
              \/ /\ \A i \in InFlight(c) : estimate[c][i] # Unknown
                 /\ MapThenSumSet(LAMBDA i : estimate[c][i], InFlight(c)) <= Budget
<1>0. /\ tiles[c] \in Nat /\ consumed[c] \in Nat /\ scheduled[c] \in Nat
      /\ retained[c] \in Seq(Nat) /\ bytes[c] \in Nat /\ Budget \in Nat
      /\ Tiles(c) \subseteq 1 .. MaxTiles
  BY CallTypes, MemoryAssumption DEF IInv
<1>1. /\ Max({1, Window(c)}) \in Nat /\ 1 <= Max({1, Window(c)})
      /\ Window(c) <= Max({1, Window(c)}) /\ Window(c) \in Nat
  BY WindowType, GreaterOfTwo DEF IInv
<1>2. CASE Unopened(c)
  <2>1. InFlight(c) = {}
    BY <1>2 DEF Unopened, InFlight
  <2>q. QED
    BY <1>1, <2>1, FS_EmptySet
<1>3. CASE Accounts(c) /\ Placed(c)
  <2>1. CASE scheduled[c] = consumed[c]
    <3>1. InFlight(c) \in SUBSET {Due(c)}
      <4>1. ASSUME NEW i \in InFlight(c) PROVE i = Due(c)
        <5>1. /\ i \in Nat /\ i \in Tiles(c)
              /\ status[c][i] \in {"queued", "running", "sent", "ready", "held"}
          BY DEF InFlight, Tiles
        <5>2. ~(i <= consumed[c])
          BY <1>3, <5>1 DEF Placed
        <5>3. i > scheduled[c]
          BY <1>0, <2>1, <5>1, <5>2
        <5>q. QED
          BY <1>3, <5>1, <5>3 DEF Placed
      <4>q. QED
        BY <4>1
    <3>2. Cardinality(InFlight(c)) <= 1 /\ Cardinality(InFlight(c)) \in Nat
      <4>1. IsFiniteSet({Due(c)}) /\ Cardinality({Due(c)}) = 1
        BY FS_Singleton
      <4>q. QED
        BY <3>1, <4>1, FS_Subset, FS_CardinalityType
    <3>q. QED
      BY <1>1, <3>2
  <2>2. CASE scheduled[c] # consumed[c]
    <3>0. consumed[c] < scheduled[c] /\ scheduled[c] <= tiles[c]
      BY <1>0, <1>3, <2>2 DEF Accounts
    <3>1. InFlight(c) = Span(c)
      <4>1. ASSUME NEW i \in InFlight(c) PROVE i \in Span(c)
        <5>1. /\ i \in Nat /\ i \in Tiles(c)
              /\ status[c][i] \in {"queued", "running", "sent", "ready", "held"}
          BY DEF InFlight, Tiles
        <5>2. ~(i <= consumed[c])
          BY <1>3, <5>1 DEF Placed
        <5>3. i > scheduled[c] => i = Due(c)
          BY <1>3, <5>1 DEF Placed
        <5>q. QED
          BY <1>0, <3>0, <5>1, <5>2, <5>3 DEF Span, Due
      <4>2. ASSUME NEW i \in Span(c) PROVE i \in InFlight(c)
        <5>1. i \in Tiles(c)
          BY <1>0, <3>0 DEF Span, Due, Tiles
        <5>q. QED
          BY <1>3, <5>1 DEF Placed, Flying, InFlight
      <4>q. QED
        BY <4>1, <4>2
    <3>2. Cardinality(Span(c)) = Len(retained[c])
      <4>1. Due(c) \in Int /\ scheduled[c] \in Int /\ ~(Due(c) > scheduled[c])
        BY <1>0, <3>0 DEF Due
      <4>2. Cardinality(Due(c) .. scheduled[c]) = scheduled[c] - Due(c) + 1
        BY <4>1, FS_Interval
      <4>3. Len(retained[c]) = scheduled[c] - consumed[c]
        BY <1>3 DEF Accounts
      <4>4. scheduled[c] - Due(c) + 1 = scheduled[c] - consumed[c]
        BY <1>0 DEF Due
      <4>q. QED
        BY <4>2, <4>3, <4>4 DEF Span
    <3>3. Len(retained[c]) <= Window(c) /\ Len(retained[c]) \in Nat
      BY <1>0, <1>3 DEF Accounts
    <3>4. \A i \in Span(c) : estimate[c][i] # Unknown
      <4>1. ASSUME NEW i \in Span(c) PROVE estimate[c][i] # Unknown
        <5> DEFINE n == i - consumed[c]
        <5>1. n \in 1 .. Len(retained[c]) /\ consumed[c] + n = i
          BY SMTT(30), <1>0, <1>3 DEF Span, Due, Accounts
        <5> HIDE DEF n
        <5>2. retained[c][n] = estimate[c][consumed[c] + n] /\ retained[c][n] # Unknown
          BY <1>3, <5>1 DEF Accounts
        <5>q. QED
          BY <5>1, <5>2
      <4>q. QED
        BY <4>1
    <3>5. Len(retained[c]) <= 1 \/ bytes[c] <= Budget
      BY <1>3 DEF Accounts
    <3>6. bytes[c] = MapThenSumSet(LAMBDA i : estimate[c][i], Span(c))
      BY <1>3 DEF Accounts, SumOver
    <3>7. Cardinality(InFlight(c)) <= Max({1, Window(c)})
      BY <1>1, <3>1, <3>2, <3>3
    <3>8. CASE Len(retained[c]) <= 1
      BY <3>1, <3>2, <3>7, <3>8
    <3>9. CASE bytes[c] <= Budget
      <4>1. MapThenSumSet(LAMBDA i : estimate[c][i], Span(c)) <= Budget
        BY <3>6, <3>9
      <4>q. QED
        BY <3>1, <3>4, <3>7, <4>1, Zenon
    <3>q. QED
      BY <3>5, <3>8, <3>9
  <2>q. QED
    BY <2>1, <2>2
<1>q. QED
  BY <1>2, <1>3 DEF IInv, TypeOK, CallInv, Phase, Labels, Looping

\* The tiles in flight never exceed the window, nor the memory budget unless
\* a single tile does.
THEOREM MemoryIsBounded == Spec => []WithinBounds
<1>1. IInv => WithinBounds
  BY BoundsOfOneCall DEF WithinBounds
<1>q. QED
  BY <1>1, InvAlways, PTL

-----------------------------------------------------------------------------
\* Consuming the next tile is a step of the sequential loop.
LEMMA DeliverNext ==
    ASSUME IInv, NEW c \in Calls, NEW i, Deliver(c, i), i = Len(delivered[c]),
           Len(delivered[c]) <= tiles[c], pc[c] \notin {"closing", "returned"},
           UNCHANGED <<tiles, result>>
    PROVE  Sequential!ConsumeNext(c)
<1>1. result[c] = Sequential!Undecided
  BY DEF IInv, CallInv, Progress
<1>2. delivered' = [delivered EXCEPT ![c] = Append(@, Len(@))]
  BY DEF Deliver
<1>q. QED
  BY <1>1, <1>2 DEF Sequential!ConsumeNext

\* A failure at the next tile is a step of the sequential loop.
LEMMA FailureNext ==
    ASSUME IInv, NEW c \in Calls, NEW why \in Sequential!Failures, NEW i, NEW label,
           Decide(c, why, i, label), i = Len(delivered[c]),
           Len(delivered[c]) <= tiles[c], pc[c] \notin {"closing", "returned"}
    PROVE  Sequential!FailNext(c)
<1>1. result[c] = Sequential!Undecided
  BY DEF IInv, CallInv, Progress
<1>q. QED
  BY <1>1 DEF Sequential!FailNext, Decide, inputVars

\* The end after the last tile is a step of the sequential loop.
LEMMA DoneNext ==
    ASSUME IInv, NEW c \in Calls, NEW label,
           Decide(c, "done", 0, label), consumed[c] = tiles[c],
           pc[c] \in {"sequential", "loop"}
    PROVE  Sequential!Finish(c)
<1>1. result[c] = Sequential!Undecided /\ Len(delivered[c]) = consumed[c] + 1
  BY DEF IInv, CallInv, Progress, Looping
<1>q. QED
  BY <1>1 DEF Sequential!Finish, Decide, inputVars

\* Every step of the pool is a step of the sequential loop or leaves it
\* alone.
LEMMA NextIsSequential ==
    ASSUME IInv, [Next]_vars
    PROVE  [Sequential!Next]_Sequential!vars
<1>1. CASE UNCHANGED vars
  BY <1>1 DEF vars, inputVars, Sequential!vars
<1>2. ASSUME NEW c \in Calls,
             Sequential!ConsumeNext(c) \/ Sequential!FailNext(c) \/ Sequential!Finish(c)
      PROVE  Sequential!Next
  BY <1>2 DEF Sequential!Next
<1>3. ASSUME NEW c \in Calls, Caller(c) \/ Job(c)
      PROVE  \/ Sequential!ConsumeNext(c) \/ Sequential!FailNext(c)
             \/ Sequential!Finish(c) \/ UNCHANGED Sequential!vars
  <2>0. /\ tiles[c] \in Nat /\ consumed[c] \in Nat /\ delivered[c] \in Seq(Nat)
        /\ Due(c) = consumed[c] + 1 /\ Due(c) \in Nat
    BY CallTypes DEF IInv, Due
  <2>1. /\ pc[c] = "first" => Len(delivered[c]) = 0
        /\ pc[c] \in {"sequential"} \cup Looping =>
             Len(delivered[c]) = Due(c) /\ (consumed[c] < tiles[c] => Len(delivered[c]) <= tiles[c])
        /\ pc[c] \in {"consume", "inline"} => consumed[c] < tiles[c]
    BY <2>0 DEF IInv, CallInv, Progress
  <2>2. CASE Begin(c) \/ Collect(c) \/ Schedule(c) \/ EndFill(c) \/ Receive(c)
             \/ Close(c) \/ Job(c)
    BY <2>2 DEF Begin, Collect, Schedule, EndFill, Receive, Close, Job, StartJob,
                FinishJob, inputVars, Sequential!vars
  <2>3. CASE ConsumeFirst(c)
    <3>1. CASE Deliver(c, 0) /\ UNCHANGED <<tiles, result>>
      BY <2>0, <2>1, <2>3, <3>1, DeliverNext DEF ConsumeFirst
    <3>2. CASE \E why \in {"consume", "panic"} : Decide(c, why, 0, "returned")
      BY <2>0, <2>1, <2>3, <3>2, FailureNext DEF ConsumeFirst, Sequential!Failures
    <3>q. QED
      BY <2>3, <3>1, <3>2 DEF ConsumeFirst, inputVars
  <2>4. CASE DecodeInTurn(c)
    <3>1. CASE consumed[c] < tiles[c] /\ Deliver(c, Due(c)) /\ UNCHANGED <<tiles, result>>
      BY <2>0, <2>1, <2>4, <3>1, DeliverNext DEF DecodeInTurn
    <3>2. CASE /\ consumed[c] < tiles[c]
               /\ \E why \in {"decode", "consume", "panic"} :
                      Decide(c, why, Due(c), "returned")
      BY <2>0, <2>1, <2>4, <3>2, FailureNext DEF DecodeInTurn, Sequential!Failures
    <3>3. CASE consumed[c] = tiles[c] /\ Decide(c, "done", 0, "returned")
      BY <2>4, <3>3, DoneNext DEF DecodeInTurn
    <3>q. QED
      BY <2>4, <3>1, <3>2, <3>3 DEF DecodeInTurn, inputVars
  <2>5. CASE Complete(c)
    BY <2>5, DoneNext DEF Complete
  <2>6. ASSUME NEW i \in With(c, "held"), pc[c] = "consume"
        PROVE  i = Due(c)
    <3>1. Placed(c)
      BY <2>6 DEF IInv, CallInv, Phase, Looping
    <3>q. QED
      BY <3>1 DEF With, Placed
  <2>7. CASE Consume(c)
    <3>1. pc[c] = "consume" /\ UNCHANGED <<tiles, result>>
      BY <2>7 DEF Consume, inputVars
    <3>2. Deliver(c, Due(c))
      BY <2>6, <2>7, <3>1 DEF Consume
    <3>q. QED
      BY <2>0, <2>1, <3>1, <3>2, DeliverNext DEF Looping
  <2>8. CASE FailConsume(c)
    <3>1. PICK i \in With(c, "held") : \E why \in Sequential!Failures :
                                         Decide(c, why, i, "closing")
      BY <2>8 DEF FailConsume, Sequential!Failures
    <3>2. pc[c] = "consume" /\ i = Due(c)
      BY <2>6, <2>8 DEF FailConsume
    <3>q. QED
      BY <2>0, <2>1, <3>1, <3>2, FailureNext DEF Looping
  <2>9. CASE DecodeInline(c)
    <3>1. CASE Deliver(c, Due(c)) /\ UNCHANGED <<tiles, result>>
      BY <2>0, <2>1, <2>9, <3>1, DeliverNext DEF DecodeInline, Looping
    <3>2. CASE \E why \in {"decode", "consume", "panic"} :
                   Decide(c, why, Due(c), "closing")
      BY <2>0, <2>1, <2>9, <3>2, FailureNext DEF DecodeInline, Looping, Sequential!Failures
    <3>q. QED
      BY <2>9, <3>1, <3>2 DEF DecodeInline, inputVars
  <2>q. QED
    BY <1>3, <2>2, <2>3, <2>4, <2>5, <2>7, <2>8, <2>9 DEF Caller
<1>q. QED
  BY <1>1, <1>2, <1>3 DEF Next, AllReturned

\* Whatever the pool does, a call consumes the tiles and reports the error of
\* the sequential loop.
THEOREM CallsAreSequential == Spec => DecodesInOrder
<1>1. Init => Sequential!Init
  BY DEF Init, Sequential!Init, Sequential!Undecided
<1>2. IInv /\ [Next]_vars => [Sequential!Next]_Sequential!vars
  BY NextIsSequential
<1>q. QED
  BY <1>1, <1>2, InvAlways, PTL DEF Spec, DecodesInOrder, Sequential!Spec

-----------------------------------------------------------------------------
(***************************************************************************)
(* The estimates themselves: what the preflight of an item foresees, of a  *)
(* picture or of each tile of a grid, its decode does not exceed.          *)
(***************************************************************************)

\* Goes through sets of positions as the fold does that pushes to a Vec.
IsPushing(g, counts) ==
    g = [s \in SUBSET DOMAIN counts |->
            IF s = {} THEN 0 ELSE Pushed(g[s \ {Top(s)}], counts[Top(s)])]

\* What a Vec grows to as it is pushed to is the value of such a function,
LEMMA PushedAsFunction ==
    ASSUME NEW count
    PROVE  PushCapacity(count)
              = (CHOOSE g : IsPushing(g, [n \in 1 .. count |-> n]))[DOMAIN [n \in 1 .. count |-> n]]
  BY DEF PushCapacity, FoldLeft, MapThenFoldSet, Max, IsPushing, Top

\* at most twice what is needed, and two more, which the estimate allows.
LEMMA PushedBounds ==
    ASSUME NEW count \in Nat
    PROVE  /\ PushCapacity(count) \in Nat
           /\ count = 0 => PushCapacity(count) = 0
           /\ PushCapacity(count) <= 2 * count + 2
<1> DEFINE D == 1 .. count
           counts == [n \in D |-> n]
           Add == [x \in Nat \X D |-> Pushed(x[1], x[2])]
           g == CHOOSE f : IsPushing(f, counts)
<1>d. IsFiniteSet(D) /\ HasTops(D) /\ DOMAIN counts = D
  BY PositionTops
<1>p. \A m \in Nat, k \in D : Pushed(m, k) \in Nat
  BY DEF Pushed, Greater
<1>s. Add \in [Nat \X D -> Nat]
  <2> HIDE DEF D
  <2>q. QED
    BY <1>p
<1>1. \E f : IsPushing(f, counts)
  <2>1. PICK f : IsFold(f, Add, 0, D)
    <3> HIDE DEF D, Add
    <3>q. QED
      BY ONLY <1>d, FoldExists
  <2>2. \A s \in SUBSET D : f[s] \in Nat
    <3>1. 0 \in Nat
      OBVIOUS
    <3> HIDE DEF Add
    <3>q. QED
      BY ONLY <3>1, <1>s, <2>1, FoldTyped, count \in Nat
  <2>3. ASSUME NEW s \in SUBSET D, s # {}
        PROVE  f[s] = Pushed(f[s \ {Top(s)}], counts[Top(s)])
    <3>1. f[s] = Add[<< f[s \ {Top(s)}], Top(s) >>]
      BY <2>1, <2>3 DEF IsFold
    <3>2. Top(s) \in D /\ s \ {Top(s)} \in SUBSET D
      BY <1>d, <2>3 DEF HasTops
    <3>3. f[s \ {Top(s)}] \in Nat /\ counts[Top(s)] = Top(s)
      BY <2>2, <3>2
    <3> HIDE DEF D, counts
    <3>q. QED
      BY <3>1, <3>2, <3>3
  <2>4. f = [s \in SUBSET D |-> f[s]] /\ f[{}] = 0
    BY <2>1 DEF IsFold
  <2> HIDE DEF D, counts
  <2>5. IsPushing(f, counts)
    BY <1>d, <2>3, <2>4 DEF IsPushing
  <2>q. QED
    BY <2>5
<1>2. IsPushing(g, counts)
  BY <1>1
<1>3. PushCapacity(count) = g[D]
  BY PushedAsFunction
<1> HIDE DEF g
<1>4. g[{}] = 0
  BY <1>2 DEF IsPushing
<1>5. \A k \in D : g[1 .. k] = Pushed(g[1 .. k - 1], k)
  <2> TAKE k \in D
  <2>1. Top(1 .. k) = k /\ (1 .. k) \ {k} = 1 .. k - 1 /\ 1 .. k \in SUBSET D /\ 1 .. k # {}
    BY PositionTops
  <2>2. g[1 .. k] = Pushed(g[(1 .. k) \ {Top(1 .. k)}], counts[Top(1 .. k)])
    BY <1>2, <2>1 DEF IsPushing
  <2>q. QED
    BY <2>1, <2>2
<1> DEFINE S == {k \in 0 .. count : g[1 .. k] \in Nat /\ g[1 .. k] <= 2 * k + 2
                                    /\ (k = 0 => g[1 .. k] = 0)}
<1>6. 0 \in S
  <2>1. 1 .. 0 = {}
    OBVIOUS
  <2>q. QED
    BY <1>4, <2>1
<1>7. ASSUME NEW k \in 0 .. count, k < count, k \in S
      PROVE  k + 1 \in S
  <2>1. k + 1 \in D /\ (k + 1) - 1 = k
    BY <1>7
  <2>2. g[1 .. k + 1] = Pushed(g[1 .. k], k + 1)
    BY <1>5, <2>1
  <2> HIDE DEF g
  <2>q. QED
    BY <1>7, <2>1, <2>2 DEF Pushed, Greater
<1> HIDE DEF S
<1>8. \A k \in 0 .. count : k \in S
  BY <1>6, <1>7, Climb
<1>9. count \in S
  BY <1>8
<1>q. QED
  BY <1>3, <1>9 DEF S

\* Sides of a picture that can be allocated.
Sides == Nat \ {0}

\* Halves and quarters of a side are not longer than it.
LEMMA PartsOfSide ==
    ASSUME NEW a \in Sides
    PROVE  /\ CeilDiv(a, 1) = a
           /\ CeilDiv(a, 2) \in Sides /\ CeilDiv(a, 2) <= a
           /\ CeilDiv(a, 4) \in Sides /\ CeilDiv(a, 4) <= a
           /\ a > 1 => 3 * CeilDiv(a, 2) <= 2 * a /\ 2 * CeilDiv(a, 4) <= a
  BY DEF CeilDiv, Sides

\* A product of two factors that are each at most so many times another.
LEMMA ProductBelow ==
    ASSUME NEW a \in Nat, NEW b \in Nat, NEW w \in Nat, NEW h \in Nat,
           NEW k \in Nat, NEW m \in Nat, k * a <= m * w, b <= h
    PROVE  k * (a * b) <= m * (w * h)
<1>1. (k * a) * b <= (m * w) * b
  BY ProductNatural, ProductGrows
<1>2. (m * w) * b <= (m * w) * h
  BY ProductNatural, ProductGrows
<1>3. (k * a) * b = k * (a * b) /\ (m * w) * h = m * (w * h)
  BY Distributes
<1>4. (k * a) * b \in Nat /\ (m * w) * b \in Nat /\ (m * w) * h \in Nat
  BY ProductNatural
<1>q. QED
  BY <1>1, <1>2, <1>3, <1>4

\* The chroma planes and the maps of 4:2:0 against the luma plane.
LEMMA SubsampledFits ==
    ASSUME NEW w \in Sides, NEW h \in Sides
    PROVE  /\ w * h \in Sides
           /\ CeilDiv(w, 2) * CeilDiv(h, 2) \in Nat /\ CeilDiv(w, 4) * CeilDiv(h, 4) \in Nat
           /\ \/ 2 * (CeilDiv(w, 2) * CeilDiv(h, 2)) + CeilDiv(w, 4) * CeilDiv(h, 4)
                     <= 2 * (w * h)
              \/ w = 1 /\ h = 1
<1> DEFINE a == CeilDiv(w, 2)
           b == CeilDiv(h, 2)
           p == CeilDiv(w, 4)
           q == CeilDiv(h, 4)
<1>1. /\ a \in Nat /\ a <= w /\ p \in Nat /\ p <= w
      /\ w > 1 => 3 * a <= 2 * w /\ 2 * p <= 1 * w
      /\ w \in Nat /\ w >= 1
  BY PartsOfSide DEF Sides
<1>2. /\ b \in Nat /\ b <= h /\ q \in Nat /\ q <= h
      /\ h > 1 => 3 * b <= 2 * h /\ 2 * q <= 1 * h
      /\ h \in Nat /\ h >= 1
  BY PartsOfSide DEF Sides
<1> HIDE DEF a, b, p, q
<1>3. w * h \in Nat /\ w * h # 0 /\ a * b \in Nat /\ p * q \in Nat
      /\ a * b = b * a /\ p * q = q * p /\ w * h = h * w
  BY <1>1, <1>2, ProductNatural, Distributes
<1>4. CASE w > 1
  <2>1. 3 * (a * b) <= 2 * (w * h)
    BY <1>1, <1>2, <1>4, ProductBelow
  <2>2. 2 * (p * q) <= 1 * (w * h)
    BY <1>1, <1>2, <1>4, ProductBelow
  <2>q. QED
    BY <1>3, <2>1, <2>2 DEF Sides, a, b, p, q
<1>5. CASE h > 1
  <2>1. 3 * (b * a) <= 2 * (h * w)
    BY <1>1, <1>2, <1>5, ProductBelow
  <2>2. 2 * (q * p) <= 1 * (h * w)
    BY <1>1, <1>2, <1>5, ProductBelow
  <2>q. QED
    BY <1>3, <2>1, <2>2 DEF Sides, a, b, p, q
<1>6. CASE w = 1 /\ h = 1
  BY <1>3, <1>6 DEF Sides, a, b, p, q
<1>q. QED
  BY <1>1, <1>2, <1>4, <1>5, <1>6

\* A set that the preflight allows has a picture, in one of four layouts.
CanShow(s) == s.w \in Sides /\ s.h \in Sides /\ s.chroma \in 0 .. 3

\* What is allocated for a picture is within the estimate, but for a picture of
\* one pixel, whose chroma planes and maps take two bytes more.
LEMMA FrameFits ==
    ASSUME NEW s, CanShow(s)
    PROVE  /\ FrameBytes(s) \in Nat /\ SpsBytes(s) \in Nat
           /\ FrameBytes(s) <= SpsBytes(s) \/ s.w * s.h = 1
           /\ FrameBytes(s) <= SpsBytes(s) + 2
<1> DEFINE w == s.w
           h == s.h
           n == w * h
           maps == CeilDiv(w, 4) * CeilDiv(h, 4)
           quarter == CeilDiv(w, 2) * CeilDiv(h, 2)
           half == CeilDiv(w, 2) * h
<1>1. w \in Sides /\ h \in Sides
  BY DEF CanShow
<1>2. /\ n \in Nat /\ n >= 1 /\ maps \in Nat /\ quarter \in Nat
      /\ (2 * quarter + maps <= 2 * n) \/ (w = 1 /\ h = 1)
  <2>1. /\ n \in Sides /\ quarter \in Nat /\ maps \in Nat
        /\ (2 * quarter + maps <= 2 * n) \/ (w = 1 /\ h = 1)
    <3> HIDE DEF w, h
    <3>q. QED
      BY <1>1, SubsampledFits
  <2> HIDE DEF n, quarter, maps, w, h
  <2>q. QED
    BY <2>1 DEF Sides
<1>3. CeilDiv(w, 1) = w /\ CeilDiv(h, 1) = h
  BY <1>1, PartsOfSide
<1>4. maps <= n
  <2>1. /\ CeilDiv(w, 4) \in Nat /\ CeilDiv(w, 4) <= w /\ w \in Nat
        /\ CeilDiv(h, 4) \in Nat /\ CeilDiv(h, 4) <= h /\ h \in Nat
    BY <1>1, PartsOfSide DEF Sides
  <2>2. 1 * maps <= 1 * n
    <3>1. 1 * CeilDiv(w, 4) <= 1 * w
      BY <2>1
    <3>q. QED
      BY <2>1, <3>1, ProductBelow
  <2> HIDE DEF maps, n
  <2>q. QED
    BY <1>2, <2>2
<1>5. half \in Nat /\ half <= n
  <2>1. /\ CeilDiv(w, 2) \in Nat /\ CeilDiv(w, 2) <= w /\ w \in Nat /\ h \in Nat
    BY <1>1, PartsOfSide DEF Sides
  <2>q. QED
    BY <2>1, ProductGrows, ProductNatural
<1>6. w = 1 /\ h = 1 => maps = 1 /\ quarter = 1 /\ n = 1
  <2>1. CeilDiv(1, 4) = 1 /\ CeilDiv(1, 2) = 1
    BY DEF CeilDiv
  <2>q. QED
    BY <2>1
<1>7. CeilDiv(w, 4) \in Nat /\ CeilDiv(h, 4) \in Nat
  BY <1>1, PartsOfSide DEF Sides
<1>8. 2 * CeilDiv(w, 4) * CeilDiv(h, 4) = 2 * maps
  BY <1>7, Distributes
<1>9. /\ SpsBytes(s) = n * WorkingBytes[s.chroma + 1]
      /\ s.chroma = 0 => SpsBytes(s) = n * 4
      /\ s.chroma = 1 => SpsBytes(s) = n * 6
      /\ s.chroma = 2 => SpsBytes(s) = n * 8
      /\ s.chroma = 3 => SpsBytes(s) = n * 12
  BY DEF SpsBytes, WorkingBytes
<1>10. /\ s.chroma = 0 => FrameBytes(s) = 2 * n + 2 * maps
       /\ s.chroma = 1 => FrameBytes(s) = 2 * (n + 2 * quarter) + 2 * maps
       /\ s.chroma = 2 => FrameBytes(s) = 2 * (n + 2 * half) + 2 * maps
       /\ s.chroma = 3 => FrameBytes(s) = 2 * (n + 2 * n) + 2 * maps
  <2> HIDE DEF n
  <2>1. s.chroma = 0 => FrameBytes(s) = 2 * (n + 2 * 0) + 2 * maps
    BY <1>8 DEF FrameBytes, n
  <2>2. s.chroma = 1 => FrameBytes(s) = 2 * (n + 2 * quarter) + 2 * maps
    BY <1>8 DEF FrameBytes, SubWidth, SubHeight, n
  <2>3. s.chroma = 2 => FrameBytes(s) = 2 * (n + 2 * half) + 2 * maps
    BY <1>3, <1>8 DEF FrameBytes, SubWidth, SubHeight, n
  <2>4. s.chroma = 3 => FrameBytes(s) = 2 * (n + 2 * n) + 2 * maps
    BY <1>3, <1>8 DEF FrameBytes, SubWidth, SubHeight, n
  <2>5. 2 * (n + 2 * 0) = 2 * n
    BY <1>2
  <2>q. QED
    BY <2>1, <2>2, <2>3, <2>4, <2>5
<1> HIDE DEF n, maps, quarter, half
<1>11. s.chroma \in {0, 1, 2, 3}
  BY DEF CanShow
<1>12. s.w * s.h = n
  BY DEF n
<1>q. QED
  <2>1. CASE s.chroma = 0
    BY <1>2, <1>4, <1>9, <1>10, <2>1
  <2>2. CASE s.chroma = 1
    BY <1>2, <1>6, <1>9, <1>10, <1>12, <2>2
  <2>3. CASE s.chroma = 2
    BY <1>2, <1>4, <1>5, <1>9, <1>10, <2>3
  <2>4. CASE s.chroma = 3
    BY <1>2, <1>4, <1>9, <1>10, <2>4
  <2>q. QED
    BY <1>11, <2>1, <2>2, <2>3, <2>4

\* Steps of a plan, and plans.
Step ==
    [kind : {"clap"}, left : Int, top : Int, right : Int, bottom : Int]
    \cup [kind : {"irot"}, degrees : {0, 90, 180, 270}, w : Int, h : Int]
    \cup [kind : {"imir"}, axis : {"horizontal", "vertical"}, w : Int, h : Int]

Plans ==
    [valid : BOOLEAN, sw : Int, sh : Int, w : Int, h : Int, steps : Seq(Step)]

\* Rational numbers stay so, and are rounded to whole ones,
LEMMA FractionTyped ==
    ASSUME NEW a \in Fraction, NEW b \in Fraction, NEW k \in Int
    PROVE  /\ Plus(a, b) \in Fraction /\ Minus(a, b) \in Fraction
           /\ MinusInt(a, k) \in Fraction
           /\ Over(a, 2) \in Fraction
           /\ Ratio(k, 1) \in Fraction /\ Ratio(k, 2) \in Fraction
           /\ RoundDown(a) \in Int /\ Round(a) \in Int
<1>1. a.n \in Int /\ a.d \in Nat \ {0} /\ b.n \in Int /\ b.d \in Nat \ {0}
  BY DEF Fraction
<1>2. \A m, n \in Int : m * n \in Int
  OBVIOUS
<1>3. \A m, n \in Nat \ {0} : m * n \in Nat \ {0}
  OBVIOUS
<1>4. \A n \in Int, d \in Nat \ {0} : Ratio(n, d) \in Fraction
  BY DEF Ratio, Fraction
<1>5. a.n * b.d \in Int /\ b.n * a.d \in Int /\ a.d * b.d \in Nat \ {0} /\ k * a.d \in Int
  BY <1>1, <1>2, <1>3
<1>6. a.n * b.d + b.n * a.d \in Int /\ a.n * b.d - b.n * a.d \in Int /\ a.n - k * a.d \in Int
  BY <1>1, <1>5
<1>7. a.d * 2 \in Nat \ {0}
  BY <1>1
<1>8. Plus(a, b) \in Fraction /\ Minus(a, b) \in Fraction
  BY <1>4, <1>5, <1>6 DEF Plus, Minus
<1>9. MinusInt(a, k) \in Fraction /\ Over(a, 2) \in Fraction
  BY <1>1, <1>4, <1>6, <1>7 DEF MinusInt, Over
<1>10. Ratio(k, 1) \in Fraction /\ Ratio(k, 2) \in Fraction
  BY <1>4
<1>11. \A n \in Int, d \in Nat \ {0} : Quot(n, d) \in Int
  <2> TAKE n \in Int, d \in Nat \ {0}
  <2>1. n >= 0 => n \div d \in Int
    BY DivNatural
  <2>2. n < 0 => (-n) \div d \in Int
    BY DivNatural
  <2>q. QED
    BY <2>1, <2>2 DEF Quot
<1>12. RoundDown(a) \in Int
  BY <1>1, <1>11 DEF RoundDown
<1>13. Round(a) \in Int
  <2>1. Quot(a.d, 2) \in Int
    BY <1>1, <1>11
  <2>2. a.n + Quot(a.d, 2) \in Int
    BY <1>1, <2>1
  <2>q. QED
    BY <1>1, <1>11, <2>2 DEF Round
<1>q. QED
  BY <1>8, <1>9, <1>10, <1>12, <1>13

\* the bounds of a crop are whole,
LEMMA CropTyped ==
    ASSUME NEW t \in Transform, IsClap(t), NEW w \in Int, NEW h \in Int
    PROVE  /\ CropBounds(t, w, h).valid \in BOOLEAN
           /\ CropBounds(t, w, h).left \in Int /\ CropBounds(t, w, h).top \in Int
           /\ CropBounds(t, w, h).right \in Int /\ CropBounds(t, w, h).bottom \in Int
           /\ CropBounds(t, w, h).width \in Int /\ CropBounds(t, w, h).height \in Int
<1>1. t.width \in Fraction /\ t.height \in Fraction /\ t.x \in Fraction /\ t.y \in Fraction
  BY DEF Transform, IsClap
<1>w. \A a \in Fraction, k \in Int : MinusInt(a, k) \in Fraction /\ Ratio(k, 1) \in Fraction
  BY FractionTyped
<1>2. /\ Minus(Plus(t.x, Ratio(w - 1, 2)), Over(MinusInt(t.width, 1), 2)) \in Fraction
      /\ Minus(Plus(t.y, Ratio(h - 1, 2)), Over(MinusInt(t.height, 1), 2)) \in Fraction
  <2>1. Ratio(w - 1, 2) \in Fraction /\ Ratio(h - 1, 2) \in Fraction
    <3>1. w - 1 \in Int /\ h - 1 \in Int
      OBVIOUS
    <3>q. QED
      BY <1>1, <3>1, FractionTyped
  <2>2. /\ Plus(t.x, Ratio(w - 1, 2)) \in Fraction /\ Plus(t.y, Ratio(h - 1, 2)) \in Fraction
    BY <1>1, <2>1, FractionTyped
  <2>3. MinusInt(t.width, 1) \in Fraction /\ MinusInt(t.height, 1) \in Fraction
    BY <1>1, <1>w
  <2>4. Over(MinusInt(t.width, 1), 2) \in Fraction /\ Over(MinusInt(t.height, 1), 2) \in Fraction
    BY <2>3, FractionTyped
  <2>q. QED
    BY <2>2, <2>4, FractionTyped
<1>3. ClapLeft(t, w) \in Int /\ ClapTop(t, h) \in Int
  BY <1>2, FractionTyped DEF ClapLeft, ClapTop
<1>4. ClapRight(t, w) \in Int /\ ClapBottom(t, h) \in Int
  <2>1. /\ Ratio(ClapLeft(t, w), 1) \in Fraction /\ Ratio(ClapTop(t, h), 1) \in Fraction
        /\ MinusInt(t.width, 1) \in Fraction /\ MinusInt(t.height, 1) \in Fraction
    BY <1>1, <1>3, <1>w
  <2>2. /\ Plus(MinusInt(t.width, 1), Ratio(ClapLeft(t, w), 1)) \in Fraction
        /\ Plus(MinusInt(t.height, 1), Ratio(ClapTop(t, h), 1)) \in Fraction
    BY <2>1, FractionTyped
  <2>q. QED
    BY <2>2, FractionTyped DEF ClapRight, ClapBottom
<1>5. \A x, y \in Int : Greater(x, y) \in Int /\ Lesser(x, y) \in Int
  BY DEF Greater, Lesser
<1>6. /\ Greater(ClapLeft(t, w), 0) \in Int /\ Greater(ClapTop(t, h), 0) \in Int
      /\ Lesser(ClapRight(t, w), w - 1) \in Int /\ Lesser(ClapBottom(t, h), h - 1) \in Int
  <2>1. w - 1 \in Int /\ h - 1 \in Int /\ 0 \in Int
    OBVIOUS
  <2>q. QED
    BY <1>3, <1>4, <1>5, <2>1
<1>7. \A x, y \in Int : y - x + 1 \in Int /\ (x <= y) \in BOOLEAN
  OBVIOUS
<1>q. QED
  BY <1>6, <1>7 DEF CropBounds

\* and a property that is planned keeps a plan a plan.
LEMMA PlannedTyped ==
    ASSUME NEW plan \in Plans, NEW t \in Transform
    PROVE  Planned(plan, t) \in Plans
<1>1. /\ plan.valid \in BOOLEAN /\ plan.sw \in Int /\ plan.sh \in Int
      /\ plan.w \in Int /\ plan.h \in Int /\ plan.steps \in Seq(Step)
      /\ plan = [valid |-> plan.valid, sw |-> plan.sw, sh |-> plan.sh, w |-> plan.w,
                 h |-> plan.h, steps |-> plan.steps]
  BY DEF Plans
<1>2. CASE ~plan.valid \/ IsIdentity(t)
  BY <1>2 DEF Planned
<1>3. CASE ~(~plan.valid \/ IsIdentity(t)) /\ IsClap(t)
  <2> DEFINE crop == CropBounds(t, plan.w, plan.h)
  <2>1. /\ crop.left \in Int /\ crop.top \in Int /\ crop.right \in Int /\ crop.bottom \in Int
        /\ crop.width \in Int /\ crop.height \in Int
    BY <1>1, <1>3, CropTyped
  <2>2. Planned(plan, t) = IF crop.valid
                           THEN [plan EXCEPT !.w = crop.width, !.h = crop.height,
                                             !.steps = Append(plan.steps, ClapStep(crop))]
                           ELSE [plan EXCEPT !.valid = FALSE]
    BY <1>3 DEF Planned
  <2> HIDE DEF crop
  <2>3. ClapStep(crop) \in Step
    BY <2>1 DEF ClapStep, Step
  <2>4. Append(plan.steps, ClapStep(crop)) \in Seq(Step)
    BY <1>1, <2>3, AppendProperties
  <2>q. QED
    BY <1>1, <2>1, <2>2, <2>4 DEF Plans
<1>4. CASE ~(~plan.valid \/ IsIdentity(t)) /\ ~IsClap(t) /\ t.kind = "imir"
  <2>1. MirrorStep(t, plan.w, plan.h) \in Step
    BY <1>1, <1>4 DEF MirrorStep, Step, Transform
  <2>2. Append(plan.steps, MirrorStep(t, plan.w, plan.h)) \in Seq(Step)
    BY <1>1, <2>1, AppendProperties
  <2>3. Planned(plan, t)
            = [plan EXCEPT !.steps = Append(plan.steps, MirrorStep(t, plan.w, plan.h))]
    BY <1>4 DEF Planned
  <2>q. QED
    BY <1>1, <2>2, <2>3 DEF Plans
<1>5. CASE ~(~plan.valid \/ IsIdentity(t)) /\ ~IsClap(t) /\ t.kind # "imir"
  <2>1. TurnStep(t, plan.w, plan.h) \in Step
    BY <1>1, <1>5 DEF TurnStep, Step, Transform, IsClap
  <2>2. Append(plan.steps, TurnStep(t, plan.w, plan.h)) \in Seq(Step)
    BY <1>1, <2>1, AppendProperties
  <2>3. Planned(plan, t)
            = [plan EXCEPT !.steps = Append(plan.steps, TurnStep(t, plan.w, plan.h)),
                           !.w = IF Swaps(t) THEN plan.h ELSE plan.w,
                           !.h = IF Swaps(t) THEN plan.w ELSE plan.h]
    BY <1>5 DEF Planned
  <2>q. QED
    BY <1>1, <2>2, <2>3 DEF Plans
<1>q. QED
  BY <1>2, <1>3, <1>4, <1>5

\* Goes through sets of positions as the fold does that plans properties.
IsPlanning(g, start, transforms) ==
    g = [s \in SUBSET DOMAIN transforms |->
            IF s = {} THEN start ELSE Planned(g[s \ {Top(s)}], transforms[Top(s)])]

NewPlan(w, h) ==
    [valid |-> w > 0 /\ h > 0, sw |-> w, sh |-> h, w |-> w, h |-> h, steps |-> << >>]

\* A plan is the value of such a function,
LEMMA PlanAsFunction ==
    ASSUME NEW w, NEW h, NEW transforms
    PROVE  Plan(w, h, transforms)
              = (CHOOSE g : IsPlanning(g, NewPlan(w, h), transforms))[DOMAIN transforms]
  BY DEF Plan, FoldLeft, MapThenFoldSet, Max, IsPlanning, Top, NewPlan

\* and has a size in whole pixels.
LEMMA PlanTyped ==
    ASSUME NEW w \in Int, NEW h \in Int, NEW transforms \in Seq(Transform)
    PROVE  Plan(w, h, transforms).w \in Int /\ Plan(w, h, transforms).h \in Int
<1> DEFINE n == Len(transforms)
           D == 1 .. n
           start == NewPlan(w, h)
           Add == [x \in Plans \X D |-> Planned(x[1], transforms[x[2]])]
           g == CHOOSE f : IsPlanning(f, start, transforms)
<1>n. n \in Nat /\ DOMAIN transforms = D /\ \A k \in D : transforms[k] \in Transform
  BY LenProperties, ElementOfSeq
<1> HIDE DEF n
<1>d. IsFiniteSet(D) /\ HasTops(D)
  BY <1>n, PositionTops
<1>0. start \in Plans
  <2>1. << >> \in Seq(Step)
    BY EmptySeq
  <2>q. QED
    BY <2>1 DEF NewPlan, Plans
<1> HIDE DEF start
<1>s. Add \in [Plans \X D -> Plans]
  <2>1. \A p \in Plans, k \in D : Planned(p, transforms[k]) \in Plans
    BY <1>n, PlannedTyped
  <2> HIDE DEF D
  <2>q. QED
    BY <2>1
<1>1. \E f : IsPlanning(f, start, transforms)
  <2>1. PICK f : IsFold(f, Add, start, D)
    <3> HIDE DEF D, Add
    <3>q. QED
      BY ONLY <1>d, FoldExists
  <2>2. \A s \in SUBSET D : f[s] \in Plans
    <3> HIDE DEF Add
    <3>q. QED
      BY ONLY <1>n, <1>0, <1>s, <2>1, FoldTyped
  <2>3. ASSUME NEW s \in SUBSET D, s # {}
        PROVE  f[s] = Planned(f[s \ {Top(s)}], transforms[Top(s)])
    <3>1. f[s] = Add[<< f[s \ {Top(s)}], Top(s) >>]
      BY <2>1, <2>3 DEF IsFold
    <3>2. Top(s) \in D /\ s \ {Top(s)} \in SUBSET D
      BY <1>d, <2>3 DEF HasTops
    <3>3. f[s \ {Top(s)}] \in Plans
      BY <2>2, <3>2
    <3> HIDE DEF D
    <3>q. QED
      BY <3>1, <3>2, <3>3
  <2>4. f = [s \in SUBSET D |-> f[s]] /\ f[{}] = start
    BY <2>1 DEF IsFold
  <2> HIDE DEF D
  <2>5. IsPlanning(f, start, transforms)
    BY <1>n, <2>3, <2>4 DEF IsPlanning
  <2>q. QED
    BY <2>5
<1>2. IsPlanning(g, start, transforms)
  BY <1>1
<1>3. Plan(w, h, transforms) = g[D]
  BY <1>n, PlanAsFunction DEF start
<1> HIDE DEF g
<1>4. g[{}] = start
  BY <1>2 DEF IsPlanning
<1>5. \A k \in D : g[1 .. k] = Planned(g[1 .. k - 1], transforms[k])
  <2> TAKE k \in D
  <2>1. Top(1 .. k) = k /\ (1 .. k) \ {k} = 1 .. k - 1 /\ 1 .. k \in SUBSET D /\ 1 .. k # {}
    BY <1>n, PositionTops
  <2>2. g[1 .. k] = Planned(g[(1 .. k) \ {Top(1 .. k)}], transforms[Top(1 .. k)])
    BY <1>n, <1>2, <2>1 DEF IsPlanning
  <2>q. QED
    BY <2>1, <2>2
<1> DEFINE S == {k \in 0 .. n : g[1 .. k] \in Plans}
<1>6. 0 \in S
  <2>1. 1 .. 0 = {}
    OBVIOUS
  <2>q. QED
    BY <1>n, <1>0, <1>4, <2>1
<1>7. ASSUME NEW k \in 0 .. n, k < n, k \in S
      PROVE  k + 1 \in S
  <2>1. k + 1 \in D /\ (k + 1) - 1 = k /\ g[1 .. k] \in Plans
    BY <1>n, <1>7
  <2>2. g[1 .. k + 1] = Planned(g[1 .. k], transforms[k + 1])
    BY <1>5, <2>1
  <2>3. g[1 .. k + 1] \in Plans
    BY <1>n, <2>1, <2>2, PlannedTyped
  <2>q. QED
    BY <1>n, <1>7, <2>3
<1> HIDE DEF S
<1>8. \A k \in 0 .. n : k \in S
  BY <1>n, <1>6, <1>7, Climb
<1>9. n \in S
  BY <1>n, <1>8
<1>10. g[D] \in Plans
  BY <1>9 DEF S
<1>q. QED
  BY <1>3, <1>10 DEF Plans

-----------------------------------------------------------------------------
(* What the preflight knows.                                               *)

\* The NAL units of a stream.
NalsAt(t) == item.streams[t].config \o item.streams[t].payload

\* What each of them adds to the estimate of the stream.
Prefixed(nals) == [i \in DOMAIN nals |-> nals[i].size + 4]
Stripped(nals) == [i \in DOMAIN nals |-> Greater(nals[i].size - 2, 0)]
Positions(nals) ==
    [i \in DOMAIN nals |-> IF nals[i].removed > 0 THEN 4 * (2 * nals[i].removed + 4) ELSE 0]

\* The estimate of the first n.
CountedTo(nals, n) ==
    [stream |-> Upto(Prefixed(nals), n), rbsp |-> Upto(Stripped(nals), n),
     positions |-> Upto(Positions(nals), n), nals |-> n]

\* The tiles of this size begin within the output.
Begins(t, s) ==
    item.kind = "grid" =>
        LET plan == Plan(Metadata(s).w, Metadata(s).h, item.streams[t].transforms)
        IN  (item.columns - 1) * plan.w < item.w /\ (item.rows - 1) * plan.h < item.h

\* A picture of this set may be decoded as far as the preflight knows.
Good(t, nal) ==
    /\ SpsParses(nal)
    /\ CanShow(Sps[nal.content])
    /\ ~OverLimit(Sps[nal.content].w, Sps[nal.content].h)
    /\ Begins(t, Sps[nal.content])

\* All sets among the first n NAL units of a stream are of that kind, and their
\* pictures take at most so many bytes.
WalkedTo(t, n, most) ==
    \A i \in 1 .. n :
        IsSps(NalsAt(t)[i]) => /\ Good(t, NalsAt(t)[i])
                               /\ SpsBytes(Sps[NalsAt(t)[i].content]) <= most

Totals == [frame : Nat, stream : Nat]

\* A stream that has been foreseen.
ForeseenAt(t) ==
    /\ WalkedTo(t, Len(NalsAt(t)), foreseen[t].frame)
    /\ foreseen[t].stream = StreamBytes(CountedTo(NalsAt(t), Len(NalsAt(t))))

TotalForeseen == SumOf([t \in DOMAIN foreseen |-> TotalOf(foreseen[t])])

AllForeseen ==
    /\ Len(foreseen) = Len(item.streams)
    /\ ~OverBudget(TotalForeseen)

Frame == [sps : {Sps[n] : n \in DOMAIN Sps}, bytes : Nat, held : Nat]

\* A frame that has been allocated is of one of the sets of its stream.
AllocatedAt(t) ==
    /\ \E i \in DOMAIN NalsAt(t) : /\ IsSps(NalsAt(t)[i])
                                   /\ frames[t].sps = Sps[NalsAt(t)[i].content]
    /\ frames[t].bytes = FrameBytes(frames[t].sps)
    /\ frames[t].held + 2 <= foreseen[t].stream

Allocated ==
    /\ foreseen \in Seq(Totals) /\ frames \in Seq(Frame)
    /\ \A t \in DOMAIN foreseen : ForeseenAt(t)
    /\ Len(foreseen) <= Len(item.streams)
    /\ Len(frames) <= Len(foreseen)
    /\ \A t \in DOMAIN frames : AllocatedAt(t)
    /\ frames # << >> => AllForeseen

Decoding == {"assemble", "metadata", "units", "sets", "slices"}

Preflighting ==
    /\ item.kind = "grid" => item.w > 0 /\ item.h > 0
    /\ frames = << >> /\ buffer = Empty /\ kept = NoSets
    /\ tile \in 1 .. Len(item.streams)
    /\ next \in 1 .. Len(NalsAt(tile)) + 1
    /\ Len(foreseen) = tile - 1
    /\ largest \in Nat /\ WalkedTo(tile, next - 1, largest)
    /\ counted = CountedTo(NalsAt(tile), next - 1)

\* The Vec holds the bytes so far and has grown to no more than twice as many.
Assembled(n) ==
    /\ buffer \in [used : Nat, capacity : Nat]
    /\ buffer.used = Upto(Prefixed(NalsAt(tile)), n)
    /\ buffer.capacity <= 2 * buffer.used

\* The set that is kept is one of the stream.
KeptOne ==
    /\ DOMAIN kept = ParameterKinds
    /\ kept["sps"] # << >> =>
           \E i \in DOMAIN NalsAt(tile) : /\ IsSps(NalsAt(tile)[i])
                                          /\ SpsParses(NalsAt(tile)[i])
                                          /\ kept["sps"] = <<NalsAt(tile)[i].content>>

ForeseenInv ==
    /\ item \in Items
    /\ Allocated
    /\ stage = "start" =>
           /\ tile = 1 /\ next = 1 /\ largest = 0 /\ counted = NothingCounted
           /\ foreseen = << >> /\ frames = << >> /\ buffer = Empty /\ kept = NoSets
    /\ stage = "preflight" => Preflighting
    /\ stage \in Decoding =>
           /\ AllForeseen
           /\ tile \in 1 .. Len(item.streams)
           /\ Len(frames) = IF stage = "slices" THEN tile ELSE tile - 1
    /\ stage = "assemble" => next \in 1 .. Len(NalsAt(tile)) + 1 /\ Assembled(next - 1)
    /\ stage \in {"metadata", "units", "sets"} => Assembled(Len(NalsAt(tile)))
    /\ stage \in {"assemble", "metadata", "units"} => kept = NoSets
    /\ stage = "sets" => KeptOne

\* An item has a size and streams, only a grid more than one.
LEMMA ItemTyped ==
    ASSUME item \in Items
    PROVE  /\ item.kind \in {"coded", "alpha", "grid"}
           /\ item.w \in Nat /\ item.h \in Nat /\ item.limit \subseteq Nat
           /\ item.columns \in Nat \ {0} /\ item.rows \in Nat \ {0}
           /\ Len(item.streams) \in Nat /\ DOMAIN item.streams = 1 .. Len(item.streams)
           /\ item.kind # "grid" => Len(item.streams) = 1
<1>1. item.streams \in Seq([config : Seq(NalUnit), payload : Seq(NalUnit),
                            transforms : Seq(Transform)])
  BY DEF Items
<1>q. QED
  BY <1>1, LenProperties DEF Items

\* A stream of an item is a sequence of NAL units.
LEMMA NalsTyped ==
    ASSUME item \in Items, NEW t \in 1 .. Len(item.streams)
    PROVE  /\ NalsAt(t) \in Seq(NalUnit)
           /\ Len(NalsAt(t)) \in Nat /\ DOMAIN NalsAt(t) = 1 .. Len(NalsAt(t))
           /\ \A i \in 1 .. Len(NalsAt(t)) : NalsAt(t)[i] \in NalUnit
           /\ item.streams[t].transforms \in Seq(Transform)
<1>1. item.streams \in Seq([config : Seq(NalUnit), payload : Seq(NalUnit),
                            transforms : Seq(Transform)])
  BY DEF Items
<1>2. item.streams[t] \in [config : Seq(NalUnit), payload : Seq(NalUnit),
                           transforms : Seq(Transform)]
  BY <1>1, ElementOfSeq
<1>3. item.streams[t].config \in Seq(NalUnit) /\ item.streams[t].payload \in Seq(NalUnit)
  BY <1>2
<1>4. NalsAt(t) \in Seq(NalUnit)
  BY <1>3, ConcatProperties DEF NalsAt
<1>5. Len(NalsAt(t)) \in Nat /\ DOMAIN NalsAt(t) = 1 .. Len(NalsAt(t))
  BY <1>4, LenProperties
<1>6. \A i \in 1 .. Len(NalsAt(t)) : NalsAt(t)[i] \in NalUnit
  BY <1>4, ElementOfSeq
<1>q. QED
  BY <1>2, <1>4, <1>5, <1>6

\* The set that a NAL unit names.
LEMMA SetTyped ==
    ASSUME NEW n \in DOMAIN Sps
    PROVE  /\ Sps[n].w \in Nat /\ Sps[n].h \in Nat /\ Sps[n].chroma \in Nat
           /\ Sps[n].right \in Nat /\ Sps[n].bottom \in Nat
           /\ CropX(Sps[n]) \in Nat /\ CropY(Sps[n]) \in Nat
           /\ Metadata(Sps[n]).w \in Nat /\ Metadata(Sps[n]).h \in Nat
<1>1. /\ Sps[n].w \in Nat /\ Sps[n].h \in Nat /\ Sps[n].chroma \in Nat
      /\ Sps[n].right \in Nat /\ Sps[n].bottom \in Nat
  BY SpsAssumption
<1>2. CropX(Sps[n]) \in Nat /\ CropY(Sps[n]) \in Nat
  BY <1>1 DEF CropX, CropY, SubWidth, SubHeight
<1>q. QED
  BY <1>1, <1>2 DEF Metadata, Greater

\* The terms of the estimate are numbers,
LEMMA TermsTyped ==
    ASSUME NEW nals \in Seq(NalUnit)
    PROVE  \A k \in 1 .. Len(nals) :
               /\ nals[k].size \in Nat /\ nals[k].removed \in Nat
               /\ Prefixed(nals)[k] = nals[k].size + 4 /\ Prefixed(nals)[k] \in Nat
               /\ Stripped(nals)[k] = Greater(nals[k].size - 2, 0) /\ Stripped(nals)[k] \in Nat
               /\ Positions(nals)[k] = (IF nals[k].removed > 0 THEN 4 * (2 * nals[k].removed + 4)
                                        ELSE 0)
               /\ Positions(nals)[k] \in Nat
<1> TAKE k \in 1 .. Len(nals)
<1>1. nals[k] \in NalUnit /\ k \in DOMAIN nals
  BY ElementOfSeq, LenProperties
<1>2. nals[k].size \in Nat /\ nals[k].removed \in Nat
  BY <1>1 DEF NalUnit
<1>q. QED
  BY <1>1, <1>2 DEF Prefixed, Stripped, Positions, Greater

\* which add up NAL unit by NAL unit.
LEMMA CountedStep ==
    ASSUME NEW nals \in Seq(NalUnit)
    PROVE  /\ CountedTo(nals, 0) = NothingCounted
           /\ \A n \in 1 .. Len(nals) :
                  Counted(CountedTo(nals, n - 1), nals[n]) = CountedTo(nals, n)
<1>n. Len(nals) \in Nat
  BY LenProperties
<1>1. /\ Upto(Prefixed(nals), 0) = 0
      /\ \A n \in 1 .. Len(nals) :
             Upto(Prefixed(nals), n) = Upto(Prefixed(nals), n - 1) + Prefixed(nals)[n]
      /\ \A n \in 0 .. Len(nals) : Upto(Prefixed(nals), n) \in Nat
  BY <1>n, TermsTyped, UptoFacts
<1>2. /\ Upto(Stripped(nals), 0) = 0
      /\ \A n \in 1 .. Len(nals) :
             Upto(Stripped(nals), n) = Upto(Stripped(nals), n - 1) + Stripped(nals)[n]
  BY <1>n, TermsTyped, UptoFacts
<1>3. /\ Upto(Positions(nals), 0) = 0
      /\ \A n \in 1 .. Len(nals) :
             Upto(Positions(nals), n) = Upto(Positions(nals), n - 1) + Positions(nals)[n]
  BY <1>n, TermsTyped, UptoFacts
<1>4. CountedTo(nals, 0) = NothingCounted
  BY <1>1, <1>2, <1>3 DEF CountedTo, NothingCounted
<1>5. ASSUME NEW n \in 1 .. Len(nals)
      PROVE  Counted(CountedTo(nals, n - 1), nals[n]) = CountedTo(nals, n)
  <2>1. /\ Prefixed(nals)[n] = nals[n].size + 4 /\ nals[n].size \in Nat
        /\ Stripped(nals)[n] = Greater(nals[n].size - 2, 0)
        /\ Positions(nals)[n] = IF nals[n].removed > 0 THEN 4 * (2 * nals[n].removed + 4)
                                ELSE 0
    BY TermsTyped
  <2>2. Upto(Prefixed(nals), n - 1) + nals[n].size + 4 = Upto(Prefixed(nals), n)
    <3>1. n - 1 \in 0 .. Len(nals)
      BY <1>n
    <3>2. /\ Upto(Prefixed(nals), n) = Upto(Prefixed(nals), n - 1) + Prefixed(nals)[n]
          /\ Upto(Prefixed(nals), n - 1) \in Nat
      BY <1>1, <3>1
    <3>q. QED
      BY <2>1, <3>2
  <2>3. /\ Upto(Stripped(nals), n - 1) + Greater(nals[n].size - 2, 0) = Upto(Stripped(nals), n)
        /\ Upto(Positions(nals), n - 1)
              + (IF nals[n].removed > 0 THEN 4 * (2 * nals[n].removed + 4) ELSE 0)
              = Upto(Positions(nals), n)
    BY <1>2, <1>3, <2>1
  <2>4. (n - 1) + 1 = n
    BY <1>n
  <2>q. QED
    BY <2>2, <2>3, <2>4 DEF Counted, CountedTo
<1>q. QED
  BY <1>4, <1>5

\* Estimates are numbers.
LEMMA EstimateTyped ==
    ASSUME NEW nals \in Seq(NalUnit), NEW n \in 0 .. Len(nals)
    PROVE  /\ Upto(Prefixed(nals), n) \in Nat /\ Upto(Stripped(nals), n) \in Nat
           /\ Upto(Positions(nals), n) \in Nat
           /\ StreamBytes(CountedTo(nals, n)) \in Nat
<1>n. Len(nals) \in Nat /\ n \in Nat
  BY LenProperties
<1>1. /\ Upto(Prefixed(nals), n) \in Nat /\ Upto(Stripped(nals), n) \in Nat
      /\ Upto(Positions(nals), n) \in Nat
  BY <1>n, TermsTyped, UptoFacts
<1>2. VecBytes(n, NalBytes) \in Nat /\ VecBytes(n, UnitBytes) \in Nat
  <2>1. NalBytes \in Nat /\ UnitBytes \in Nat
    BY LimitsAssumption
  <2>2. 2 * n + 4 \in Nat
    BY <1>n
  <2>q. QED
    BY <2>1, <2>2, ProductNatural DEF VecBytes
<1>q. QED
  BY <1>1, <1>2 DEF StreamBytes, CountedTo

\* The parsed NAL units take no more than was counted for them.
LEMMA UnitFits ==
    ASSUME NEW nal \in NalUnit, HeaderParses(nal)
    PROVE  /\ UnitHeld(nal) \in Nat
           /\ UnitHeld(nal) <= Greater(nal.size - 2, 0)
                  + (IF nal.removed > 0 THEN 4 * (2 * nal.removed + 4) ELSE 0)
<1>1. nal.size \in Nat /\ nal.removed \in Nat /\ nal.size >= 2
  BY DEF NalUnit, HeaderParses
<1> DEFINE c == PushCapacity(nal.removed)
           m == nal.removed
           b == nal.size
<1>2. c \in Nat /\ (m = 0 => c = 0) /\ c <= 2 * m + 2
  BY <1>1, PushedBounds
<1>3. UnitHeld(nal) = b - 2 + 4 * c
  BY DEF UnitHeld
<1>4. m \in Nat /\ b \in Nat /\ b >= 2
  BY <1>1
<1> HIDE DEF c, m, b
<1>5. b - 2 + 4 * c \in Nat /\ Greater(b - 2, 0) = b - 2
  BY <1>2, <1>4 DEF Greater
<1>6. 4 * c <= (IF m > 0 THEN 4 * (2 * m + 4) ELSE 0)
  BY <1>2, <1>4
<1>7. b - 2 + 4 * c <= (b - 2) + (IF m > 0 THEN 4 * (2 * m + 4) ELSE 0)
  BY <1>2, <1>4, <1>6
<1>8. UnitHeld(nal) <= Greater(b - 2, 0) + (IF m > 0 THEN 4 * (2 * m + 4) ELSE 0)
  BY <1>3, <1>5, <1>7
<1>q. QED
  BY <1>3, <1>5, <1>8 DEF b, m

\* nor do those of a whole stream.
LEMMA UnitsFit ==
    ASSUME item \in Items, tile \in 1 .. Len(item.streams)
    PROVE  LET nals == NalsAt(tile)
               n == Len(nals)
           IN  /\ SumOf([i \in Units |-> UnitHeld(Nals[i])]) \in Nat
               /\ SumOf([i \in Units |-> UnitHeld(Nals[i])])
                      <= Upto(Stripped(nals), n) + Upto(Positions(nals), n)
               /\ Cardinality(Units) \in Nat /\ Cardinality(Units) <= n
<1> DEFINE nals == NalsAt(tile)
           n == Len(nals)
           D == 1 .. n
           e == [i \in Units |-> UnitHeld(Nals[i])]
           f == [i \in D |-> IF i \in Units THEN UnitHeld(nals[i]) ELSE 0]
           r == Stripped(nals)
           p == Positions(nals)
<1>1. Nals = nals
  BY DEF Nals, Stream, NalsAt
<1>2. nals \in Seq(NalUnit) /\ n \in Nat /\ DOMAIN nals = D /\ \A i \in D : nals[i] \in NalUnit
  BY NalsTyped
<1> HIDE DEF nals, n
<1>3. Units \subseteq D /\ \A i \in Units : HeaderParses(nals[i])
  BY <1>1, <1>2 DEF Units
<1>4. IsFiniteSet(D) /\ Cardinality(D) = n
  <2>1. 1 \in Int /\ n \in Int
    BY <1>2
  <2>q. QED
    BY <1>2, <2>1, FS_Interval
<1>5. IsFiniteSet(Units) /\ Cardinality(Units) \in Nat /\ Cardinality(Units) <= n
  BY <1>3, <1>4, FS_Subset, FS_CardinalityType
<1>6. \A i \in D : /\ r[i] \in Nat /\ p[i] \in Nat
                   /\ i \in Units => UnitHeld(nals[i]) \in Nat /\ UnitHeld(nals[i]) <= r[i] + p[i]
                   /\ f[i] \in Nat /\ f[i] <= r[i] + p[i]
  <2> TAKE i \in D
  <2>1. /\ r[i] = Greater(nals[i].size - 2, 0) /\ r[i] \in Nat
        /\ p[i] = (IF nals[i].removed > 0 THEN 4 * (2 * nals[i].removed + 4) ELSE 0)
        /\ p[i] \in Nat
    BY <1>2, TermsTyped DEF n
  <2>2. i \in Units => UnitHeld(nals[i]) \in Nat /\ UnitHeld(nals[i]) <= r[i] + p[i]
    BY <1>2, <1>3, <2>1, UnitFits
  <2> HIDE DEF r, p
  <2>q. QED
    BY <2>1, <2>2
<1>7. SumOf(e) = SumOver(e, Units)
  <2>1. DOMAIN e = Units
    OBVIOUS
  <2> HIDE DEF e
  <2>q. QED
    BY <2>1 DEF SumOf, SumOver
<1>8. SumOver(e, Units) = SumOver(f, Units)
  <2>1. \A i \in Units : e[i] = f[i]
    BY <1>1, <1>3
  <2> HIDE DEF e, f
  <2>q. QED
    BY <1>5, <2>1, SumAgrees
<1>9. SumOver(f, Units) <= SumOver(f, D) /\ SumOver(f, D) \in Nat /\ SumOver(f, Units) \in Nat
  <2>1. \A i \in D : f[i] \in Nat
    BY <1>6
  <2>2. \A i \in Units : f[i] \in Nat
    BY <1>3, <2>1
  <2> HIDE DEF f, D
  <2>q. QED
    BY <1>3, <1>4, <1>5, <2>1, <2>2, SumGrows, SumNatural
<1>10. Upto(f, n) <= Upto(r, n) + Upto(p, n)
  <2> HIDE DEF f, r, p
  <2>1. /\ Upto(f, 0) = 0 /\ \A k \in D : Upto(f, k) = Upto(f, k - 1) + f[k]
        /\ \A k \in 0 .. n : Upto(f, k) \in Nat
    BY <1>2, <1>6, UptoFacts
  <2>2. /\ Upto(r, 0) = 0 /\ \A k \in D : Upto(r, k) = Upto(r, k - 1) + r[k]
        /\ \A k \in 0 .. n : Upto(r, k) \in Nat
    BY <1>2, <1>6, UptoFacts
  <2>3. /\ Upto(p, 0) = 0 /\ \A k \in D : Upto(p, k) = Upto(p, k - 1) + p[k]
        /\ \A k \in 0 .. n : Upto(p, k) \in Nat
    BY <1>2, <1>6, UptoFacts
  <2> DEFINE S == {k \in 0 .. n : Upto(f, k) <= Upto(r, k) + Upto(p, k)}
  <2>4. 0 \in S
    BY <1>2, <2>1, <2>2, <2>3
  <2>5. ASSUME NEW k \in 0 .. n, k < n, k \in S PROVE k + 1 \in S
    <3>1. k + 1 \in D /\ (k + 1) - 1 = k /\ k + 1 \in 0 .. n
      BY <1>2, <2>5
    <3>2. /\ Upto(f, k + 1) = Upto(f, k) + f[k + 1]
          /\ Upto(r, k + 1) = Upto(r, k) + r[k + 1]
          /\ Upto(p, k + 1) = Upto(p, k) + p[k + 1]
          /\ f[k + 1] \in Nat /\ r[k + 1] \in Nat /\ p[k + 1] \in Nat
          /\ f[k + 1] <= r[k + 1] + p[k + 1]
      BY <1>6, <2>1, <2>2, <2>3, <3>1
    <3>3. Upto(f, k) \in Nat /\ Upto(r, k) \in Nat /\ Upto(p, k) \in Nat
          /\ Upto(f, k) <= Upto(r, k) + Upto(p, k)
      BY <2>1, <2>2, <2>3, <2>5
    <3>4. Upto(f, k) + f[k + 1] <= (Upto(r, k) + r[k + 1]) + (Upto(p, k) + p[k + 1])
      <4>1. \A a, b, c, x, y, z \in Nat : a <= b + c /\ x <= y + z => a + x <= (b + y) + (c + z)
        OBVIOUS
      <4>q. QED
        BY <3>2, <3>3, <4>1
    <3>5. Upto(f, k + 1) <= Upto(r, k + 1) + Upto(p, k + 1)
      BY <3>2, <3>4
    <3>q. QED
      BY <3>1, <3>5
  <2> HIDE DEF S
  <2>6. n \in S
    BY <1>2, <2>4, <2>5, Climb
  <2>q. QED
    BY <2>6 DEF S
<1>11. Upto(f, n) = SumOver(f, D)
  BY DEF Upto
<1>12. Upto(r, n) \in Nat /\ Upto(p, n) \in Nat
  BY <1>2, EstimateTyped DEF n
<1> HIDE DEF e, f, r, p, D
<1>13. SumOf(e) \in Nat /\ SumOf(e) <= Upto(r, n) + Upto(p, n)
  BY <1>7, <1>8, <1>9, <1>10, <1>11, <1>12
<1>q. QED
  BY <1>5, <1>13 DEF e, r, p, n, nals

\* The stream and what is parsed of it take at least two bytes less than was
\* foreseen for them.
LEMMA HeldFits ==
    ASSUME item \in Items, tile \in 1 .. Len(item.streams),
           Len(NalsAt(tile)) > 0, Assembled(Len(NalsAt(tile)))
    PROVE  /\ HeldBytes \in Nat
           /\ HeldBytes + 2 <= StreamBytes(CountedTo(NalsAt(tile), Len(NalsAt(tile))))
<1> DEFINE nals == NalsAt(tile)
           n == Len(nals)
           u == Cardinality(Units)
           a == Upto(Prefixed(nals), n)
           r == Upto(Stripped(nals), n)
           p == Upto(Positions(nals), n)
           held == SumOf([i \in Units |-> UnitHeld(Nals[i])])
<1>1. Nals = nals
  BY DEF Nals, Stream, NalsAt
<1>2. nals \in Seq(NalUnit) /\ n \in Nat /\ n > 0
  BY NalsTyped
<1>3. a \in Nat /\ r \in Nat /\ p \in Nat
  BY <1>2, EstimateTyped
<1>4. held \in Nat /\ held <= r + p /\ u \in Nat /\ u <= n
  BY UnitsFit
<1>5. buffer.capacity \in Nat /\ buffer.capacity <= 2 * a
  BY DEF Assembled
<1>6. /\ HeldBytes = buffer.capacity + PushCapacity(n) * UnitBytes
                       + PushCapacity(u) * NalBytes + held
      /\ StreamBytes(CountedTo(nals, n))
            = 2 * a + r + p + (2 * n + 4) * NalBytes + (2 * n + 4) * UnitBytes
  BY <1>1, <1>2 DEF HeldBytes, StreamBytes, CountedTo, VecBytes
<1> HIDE DEF nals, n, u, a, r, p, held
<1>7. /\ PushCapacity(n) \in Nat /\ PushCapacity(n) <= 2 * n + 2
      /\ PushCapacity(u) \in Nat /\ PushCapacity(u) <= 2 * u + 2
  BY <1>2, <1>4, PushedBounds
<1>8. /\ UnitBytes \in Nat /\ UnitBytes >= 1 /\ NalBytes \in Nat /\ NalBytes >= 1
  BY LimitsAssumption
<1> DEFINE x == PushCapacity(n)
           y == PushCapacity(u)
           z == 2 * n + 2
<1>9. /\ x \in Nat /\ y \in Nat /\ z \in Nat /\ x <= z /\ y <= z
  BY <1>2, <1>4, <1>7
<1>10. (2 * n + 4) * NalBytes = z * NalBytes + 2 * NalBytes
  <2>1. 2 * n + 4 = z + 2 /\ z \in Int /\ NalBytes \in Int
    BY <1>2, <1>8
  <2> HIDE DEF z
  <2>q. QED
    BY <2>1, Distributes
<1>11. (2 * n + 4) * UnitBytes = z * UnitBytes + 2 * UnitBytes
  <2>1. 2 * n + 4 = z + 2 /\ z \in Int /\ UnitBytes \in Int
    BY <1>2, <1>8
  <2> HIDE DEF z
  <2>q. QED
    BY <2>1, Distributes
<1> HIDE DEF x, y, z
<1>12. /\ x * UnitBytes <= z * UnitBytes /\ y * NalBytes <= z * NalBytes
       /\ x * UnitBytes \in Nat /\ y * NalBytes \in Nat
       /\ z * UnitBytes \in Nat /\ z * NalBytes \in Nat
  BY <1>8, <1>9, ProductGrows, ProductNatural
<1>13. HeldBytes = buffer.capacity + x * UnitBytes + y * NalBytes + held
  BY <1>6 DEF x, y
<1>14. StreamBytes(CountedTo(nals, n))
          = 2 * a + r + p + (z * NalBytes + 2 * NalBytes) + (z * UnitBytes + 2 * UnitBytes)
  BY <1>6, <1>10, <1>11
<1> DEFINE xu == x * UnitBytes
           yn == y * NalBytes
           zu == z * UnitBytes
           zn == z * NalBytes
<1>15. /\ xu \in Nat /\ yn \in Nat /\ zu \in Nat /\ zn \in Nat /\ xu <= zu /\ yn <= zn
       /\ HeldBytes = buffer.capacity + xu + yn + held
       /\ StreamBytes(CountedTo(nals, n))
            = 2 * a + r + p + (zn + 2 * NalBytes) + (zu + 2 * UnitBytes)
  BY <1>12, <1>13, <1>14
<1> HIDE DEF xu, yn, zu, zn
<1> DEFINE c == buffer.capacity
           limit == StreamBytes(CountedTo(nals, n))
           d == 2 * NalBytes
           v == 2 * UnitBytes
<1>c. /\ c \in Nat /\ c <= 2 * a /\ HeldBytes = c + xu + yn + held
      /\ limit = 2 * a + r + p + (zn + d) + (zu + v)
      /\ d \in Nat /\ d >= 2 /\ v \in Nat
  BY <1>5, <1>8, <1>15
<1> HIDE DEF c, limit, d, v
<1>16. HeldBytes \in Nat /\ HeldBytes + 2 <= limit
  BY <1>3, <1>4, <1>15, <1>c
<1>q. QED
  BY <1>16 DEF nals, n, limit

\* The longest side a tile may have lets all columns or rows begin.
LEMMA SpanBegins ==
    ASSUME NEW extent \in Nat \ {0}, NEW spans \in Nat \ {0}, NEW others, NEW alignment,
           NEW side \in Int, ~(side > MaxSpan(extent, spans, others, alignment))
    PROVE  (spans - 1) * side < extent
<1>1. CASE spans = 1
  <2>1. (spans - 1) * side = 0
    BY <1>1
  <2>q. QED
    BY <2>1
<1>2. CASE spans > 1
  <2> DEFINE k == spans - 1
             q == (extent - 1) \div k
  <2>1. k \in Nat \ {0} /\ extent - 1 \in Int
    BY <1>2
  <2>2. MaxSpan(extent, spans, others, alignment) = q
    BY <1>2 DEF MaxSpan
  <2> HIDE DEF k
  <2>3. q \in Int /\ k * q <= extent - 1
    BY <2>1, DivBounds
  <2> HIDE DEF q
  <2>4. side <= q
    BY <2>2, <2>3
  <2>5. k * side <= k * q
    <3>1. q - side \in Nat /\ k \in Nat
      BY <2>1, <2>3, <2>4
    <3>2. k * (q - side) \in Nat
      BY <3>1, ProductNatural
    <3>3. k * (q - side) = k * q - k * side /\ k * q \in Int /\ k * side \in Int
      BY <2>1, <2>3, Distributes
    <3>q. QED
      BY <3>2, <3>3
  <2>6. k * side \in Int /\ k * q \in Int
    BY <2>1, <2>3, Distributes
  <2>7. k * side < extent
    BY <2>1, <2>3, <2>5, <2>6
  <2>q. QED
    BY <2>7 DEF k
<1>q. QED
  BY <1>1, <1>2

\* What a set must be so that the preflight allows it.
LEMMA AllowedIsGood ==
    ASSUME item \in Items, tile \in 1 .. Len(item.streams),
           item.kind = "grid" => item.w > 0 /\ item.h > 0,
           NEW nal, Verdict(nal) = "allowed"
    PROVE  Good(tile, nal)
<1> DEFINE s == Sps[nal.content]
           shown == Metadata(s)
           plan == Plan(shown.w, shown.h, item.streams[tile].transforms)
<1>1. SpsParses(nal) /\ ~SpsRefused(s) /\ ~OverLimit(s.w, s.h)
  BY DEF Verdict
<1>2. nal.content \in DOMAIN Sps
  BY <1>1 DEF SpsParses
<1>3. /\ s.w \in Nat /\ s.h \in Nat /\ s.chroma \in Nat /\ CropX(s) \in Nat /\ CropY(s) \in Nat
      /\ shown.w \in Nat /\ shown.h \in Nat
  BY <1>2, SetTyped
<1>4. s.chroma \in 0 .. 3
  <2>1. ~(s.chroma > 3)
    BY <1>1 DEF SpsRefused
  <2> HIDE DEF shown, s
  <2>q. QED
    BY <1>3, <2>1
<1>5. shown.w > 0 /\ shown.h > 0
  BY <1>1 DEF SpsRefused, HasMetadata
<1>6. s.w > 0 /\ s.h > 0
  <2>1. shown.w = Greater(s.w - CropX(s), 0) /\ shown.h = Greater(s.h - CropY(s), 0)
    BY DEF Metadata
  <2> HIDE DEF shown, s
  <2>q. QED
    BY <1>3, <1>5, <2>1 DEF Greater
<1>7. CanShow(s)
  BY <1>3, <1>4, <1>6 DEF CanShow, Sides
<1>8. Begins(tile, s)
  <2> SUFFICES ASSUME item.kind = "grid"
               PROVE  (item.columns - 1) * plan.w < item.w /\ (item.rows - 1) * plan.h < item.h
    BY DEF Begins
  <2>1. ~TileRefused(s)
    BY <1>1 DEF Verdict
  <2>2. /\ ~(plan.w > MaxSpan(item.w, item.columns, item.rows, 2 ^ s.ctb))
        /\ ~(plan.h > MaxSpan(item.h, item.rows, item.columns, 2 ^ s.ctb))
    BY <2>1 DEF TileRefused, Stream
  <2>3. plan.w \in Int /\ plan.h \in Int
    <3>1. item.streams[tile].transforms \in Seq(Transform)
      BY NalsTyped
    <3>2. shown.w \in Int /\ shown.h \in Int
      BY <1>3
    <3> HIDE DEF shown
    <3>q. QED
      BY <3>1, <3>2, PlanTyped
  <2>4. /\ item.w \in Nat \ {0} /\ item.h \in Nat \ {0}
        /\ item.columns \in Nat \ {0} /\ item.rows \in Nat \ {0}
    BY ItemTyped
  <2> HIDE DEF plan
  <2>q. QED
    BY <2>2, <2>3, <2>4, SpanBegins
<1>q. QED
  BY <1>1, <1>7, <1>8 DEF Good

\* The streams stay, and what they are judged by.
LEMMA ItemKept ==
    ASSUME item' = item
    PROVE  /\ Items' = Items
           /\ \A t : NalsAt(t)' = NalsAt(t)
           /\ \A t, nal : Good(t, nal)' = Good(t, nal)
           /\ \A t, n, most : WalkedTo(t, n, most)' = WalkedTo(t, n, most)
           /\ \A most : OverBudget(most)' = OverBudget(most)
<1>1. \A t : NalsAt(t)' = NalsAt(t)
  BY DEF NalsAt
<1>2. \A w, h : OverLimit(w, h)' = OverLimit(w, h)
  BY DEF OverLimit
<1>3. \A t, s : Begins(t, s)' = Begins(t, s)
  BY DEF Begins
<1>4. \A t, nal : Good(t, nal)' = Good(t, nal)
  BY <1>2, <1>3 DEF Good
<1>5. \A t, n, most : WalkedTo(t, n, most)' = WalkedTo(t, n, most)
  BY <1>1, <1>4 DEF WalkedTo
<1>6. \A most : OverBudget(most)' = OverBudget(most)
  BY DEF OverBudget, BudgetPixels
<1>7. Items' = Items
  OBVIOUS
<1>q. QED
  BY <1>1, <1>4, <1>5, <1>6, <1>7

\* What has been foreseen and allocated stays.
LEMMA AllocatedKept ==
    ASSUME Allocated, item' = item, foreseen' = foreseen, frames' = frames
    PROVE  Allocated' /\ AllForeseen' = AllForeseen
<1>1. \A t : ForeseenAt(t)' = ForeseenAt(t)
  BY ItemKept DEF ForeseenAt
<1>2. \A t : AllocatedAt(t)' = AllocatedAt(t)
  BY ItemKept DEF AllocatedAt
<1>3. TotalForeseen' = TotalForeseen
  BY DEF TotalForeseen
<1>4. AllForeseen' = AllForeseen
  BY <1>3, ItemKept DEF AllForeseen
<1>q. QED
  BY <1>1, <1>2, <1>4 DEF Allocated

\* A path that ends leaves them as they are.
LEMMA EndKeeps ==
    ASSUME ForeseenInv, item' = item, NEW outcome, End(outcome),
           outcome \notin Decoding \cup {"start", "preflight"}
    PROVE  ForeseenInv'
<1>1. foreseen' = foreseen /\ frames' = frames /\ stage' = outcome
  BY DEF End
<1>2. Allocated' /\ item' \in Items'
  BY <1>1, AllocatedKept, ItemKept DEF ForeseenInv
<1>q. QED
  BY <1>1, <1>2 DEF ForeseenInv, Decoding

\* The preflight begins with no set and no byte.
LEMMA StartKeeps ==
    ASSUME ForeseenInv, Start
    PROVE  ForeseenInv'
<1>0. /\ item \in Items /\ Allocated /\ item' = item
      /\ tile = 1 /\ next = 1 /\ largest = 0 /\ counted = NothingCounted
      /\ foreseen = << >> /\ frames = << >> /\ buffer = Empty /\ kept = NoSets
  BY DEF ForeseenInv, Start, otherVars
<1>1. ASSUME End("refused") \/ End("limit")
      PROVE  ForeseenInv'
  BY <1>0, <1>1, EndKeeps DEF Decoding
<1>2. ASSUME End("preflight"),
             item.kind = "grid" => /\ item.w # 0 /\ item.h # 0
                                   /\ Len(item.streams) = item.columns * item.rows
      PROVE  ForeseenInv'
  <2>1. /\ stage' = "preflight" /\ tile' = 1 /\ next' = 1 /\ largest' = 0
        /\ counted' = NothingCounted /\ foreseen' = << >> /\ frames' = << >>
        /\ buffer' = Empty /\ kept' = NoSets
    BY <1>0, <1>2 DEF End
  <2>2. Len(item.streams) \in Nat \ {0} /\ (item.kind = "grid" => item.w > 0 /\ item.h > 0)
    <3>1. CASE item.kind # "grid"
      <4>1. Len(item.streams) = 1
        BY <1>0, <3>1, ItemTyped
      <4>q. QED
        BY <3>1, <4>1
    <3>2. CASE item.kind = "grid"
      <4>1. item.columns \in Nat \ {0} /\ item.rows \in Nat \ {0} /\ item.w \in Nat /\ item.h \in Nat
        BY <1>0, ItemTyped
      <4>2. item.columns * item.rows \in Nat \ {0}
        BY <4>1
      <4>q. QED
        BY <1>2, <3>2, <4>1, <4>2
    <3>q. QED
      BY <3>1, <3>2
  <2>3. 1 \in 1 .. Len(item.streams)
    BY <2>2
  <2>4. Len(NalsAt(1)) \in Nat /\ NalsAt(1) \in Seq(NalUnit)
    BY <1>0, <2>3, NalsTyped
  <2>5. Preflighting'
    <3>1. Len(foreseen') = tile' - 1
      BY <2>1
    <3>2. 1 \in 1 .. Len(NalsAt(1)) + 1
      BY <2>4
    <3>3. WalkedTo(1, 0, 0)
      BY DEF WalkedTo
    <3>4. NothingCounted = CountedTo(NalsAt(1), 0)
      BY <2>4, CountedStep
    <3>5. next' - 1 = 0 /\ largest' \in Nat
      BY <2>1
    <3>6. NalsAt(1)' = NalsAt(1) /\ WalkedTo(1, 0, 0)' = WalkedTo(1, 0, 0)
      BY <1>0, ItemKept
    <3>q. QED
      BY <1>0, <2>1, <2>2, <2>3, <3>1, <3>2, <3>3, <3>4, <3>5, <3>6 DEF Preflighting
  <2>6. Allocated'
    BY <1>0, <2>1, AllocatedKept
  <2>7. item' \in Items'
    BY <1>0, ItemKept
  <2>q. QED
    BY <2>1, <2>5, <2>6, <2>7 DEF ForeseenInv, Decoding
<1>q. QED
  BY <1>1, <1>2 DEF Start

\* The sum over all members of a sequence.
LEMMA SumOfAll ==
    ASSUME NEW c \in Nat, NEW e, DOMAIN e = 1 .. c
    PROVE  SumOf(e) = Upto(e, c)
  BY DEF SumOf, Upto, SumOver

\* One more NAL unit that the preflight allows.
LEMMA WalkKeeps ==
    ASSUME ForeseenInv, Walk
    PROVE  ForeseenInv'
<1> DEFINE nals == NalsAt(tile)
           nal == nals[next]
           verdict == IF IsSps(nal) THEN Verdict(nal) ELSE "allowed"
<1>1. /\ item \in Items /\ Allocated /\ Preflighting /\ stage = "preflight"
      /\ item' = item /\ Nals = nals /\ next <= Len(nals)
  BY DEF ForeseenInv, Walk, otherVars, Nals, Stream, NalsAt
<1>2. /\ tile \in 1 .. Len(item.streams) /\ nals \in Seq(NalUnit) /\ Len(nals) \in Nat
      /\ next \in 1 .. Len(nals) /\ largest \in Nat
  BY <1>1, NalsTyped DEF Preflighting
<1>3. CASE verdict # "allowed"
  <2>1. verdict \in {"refused", "limit"}
    BY <1>3 DEF Verdict
  <2>2. End(verdict)
    BY <1>1, <1>3 DEF Walk
  <2> HIDE DEF verdict
  <2>q. QED
    BY <1>1, <2>1, <2>2, EndKeeps DEF Decoding
<1>4. CASE verdict = "allowed"
  <2>1. /\ largest' = IF IsSps(nal) THEN Larger(largest, SpsBytes(Sps[nal.content]))
                      ELSE largest
        /\ counted' = Counted(counted, nal) /\ next' = next + 1
        /\ UNCHANGED <<stage, tile, foreseen, buffer, metadata, kept, frames, drawn, images>>
    BY <1>1, <1>4 DEF Walk
  <2>2. IsSps(nal) => Good(tile, nal)
    <3>1. IsSps(nal) => Verdict(nal) = "allowed"
      BY <1>4
    <3> HIDE DEF nal
    <3>q. QED
      BY <1>1, <1>2, <3>1, AllowedIsGood DEF Preflighting
  <2>3. \A n : Good(tile, n) => SpsBytes(Sps[n.content]) \in Nat
    BY FrameFits DEF Good
  <2>4. /\ largest' \in Nat /\ largest <= largest'
        /\ IsSps(nal) => SpsBytes(Sps[nal.content]) <= largest'
    <3>1. CASE IsSps(nal)
      <4> DEFINE b == SpsBytes(Sps[nal.content])
      <4>1. b \in Nat /\ largest' = Greater(largest, b)
        BY <2>1, <2>2, <2>3, <3>1 DEF Larger
      <4> HIDE DEF b
      <4>2. largest' \in Nat /\ largest <= largest' /\ b <= largest'
        BY <1>2, <4>1 DEF Greater
      <4>q. QED
        BY <4>2 DEF b
    <3>2. CASE ~IsSps(nal)
      BY <1>2, <2>1, <3>2
    <3>q. QED
      BY <3>1, <3>2
  <2>5. WalkedTo(tile, next, largest')
    <3> SUFFICES ASSUME NEW i \in 1 .. next, IsSps(nals[i])
                 PROVE  /\ Good(tile, nals[i])
                        /\ SpsBytes(Sps[nals[i].content]) <= largest'
      BY DEF WalkedTo
    <3>1. CASE i = next
      BY <2>2, <2>4, <3>1
    <3>2. CASE i # next
      <4>1. i \in 1 .. next - 1
        BY <1>2, <3>2
      <4>2. Good(tile, nals[i]) /\ SpsBytes(Sps[nals[i].content]) <= largest
        BY <1>1, <4>1 DEF Preflighting, WalkedTo
      <4>3. SpsBytes(Sps[nals[i].content]) \in Nat
        BY <2>3, <4>2
      <4> DEFINE b == SpsBytes(Sps[nals[i].content])
      <4>4. b \in Nat /\ b <= largest /\ Good(tile, nals[i])
        BY <4>2, <4>3
      <4> HIDE DEF b
      <4>5. b <= largest'
        BY <1>2, <2>4, <4>4
      <4>q. QED
        BY <4>4, <4>5 DEF b
    <3>q. QED
      BY <3>1, <3>2
  <2>6. counted' = CountedTo(nals, next)
    <3>1. counted = CountedTo(nals, next - 1)
      BY <1>1 DEF Preflighting
    <3> HIDE DEF nals
    <3>q. QED
      BY <1>2, <2>1, <3>1, CountedStep
  <2>7. Preflighting'
    <3>1. next' - 1 = next /\ next' \in 1 .. Len(nals) + 1 /\ tile' = tile
      BY <1>2, <2>1
    <3>2. NalsAt(tile)' = nals
      BY <1>1, <3>1, ItemKept
    <3>3. WalkedTo(tile, next - 1, largest)'
      BY <1>1, <2>5, <3>1, ItemKept
    <3>q. QED
      BY <1>1, <2>1, <2>4, <2>5, <2>6, <3>1, <3>2, <3>3 DEF Preflighting
  <2>8. Allocated' /\ item' \in Items'
    BY <1>1, <2>1, AllocatedKept, ItemKept
  <2>q. QED
    BY <1>1, <2>1, <2>7, <2>8 DEF ForeseenInv, Decoding
<1>q. QED
  BY <1>3, <1>4

\* The estimate of a stream and the total.
LEMMA ForeseeKeeps ==
    ASSUME ForeseenInv, Foresee
    PROVE  ForeseenInv'
<1> DEFINE nals == NalsAt(tile)
           one == [frame |-> largest, stream |-> StreamBytes(counted)]
           all == Append(foreseen, one)
           total == SumOf([t \in DOMAIN all |-> TotalOf(all[t])])
           last == tile = Len(item.streams)
<1>1. /\ item \in Items /\ Allocated /\ Preflighting /\ stage = "preflight"
      /\ item' = item /\ Nals = nals /\ next > Len(nals)
  BY DEF ForeseenInv, Foresee, otherVars, Nals, Stream, NalsAt
<1>2. /\ tile \in 1 .. Len(item.streams) /\ Len(item.streams) \in Nat
      /\ nals \in Seq(NalUnit) /\ Len(nals) \in Nat
      /\ next - 1 = Len(nals) /\ largest \in Nat
      /\ counted = CountedTo(nals, Len(nals))
      /\ WalkedTo(tile, Len(nals), largest)
  <2>1. tile \in 1 .. Len(item.streams) /\ next \in 1 .. Len(nals) + 1
    BY <1>1 DEF Preflighting
  <2>2. nals \in Seq(NalUnit) /\ Len(nals) \in Nat
    BY <1>1, <2>1, NalsTyped
  <2>3. next - 1 = Len(nals)
    BY <1>1, <2>1, <2>2
  <2>q. QED
    BY <1>1, <2>1, <2>2, <2>3, ItemTyped DEF Preflighting
<1>3. CASE largest = 0 \/ OverBudget(total)
  <2>1. End("refused") \/ End("limit")
    BY <1>1, <1>3 DEF Foresee
  <2>q. QED
    BY <1>1, <2>1, EndKeeps DEF Decoding
<1>4. CASE ~(largest = 0 \/ OverBudget(total))
  <2>1. /\ foreseen' = all
        /\ largest' = 0 /\ counted' = NothingCounted /\ next' = 1
        /\ tile' = (IF last THEN 1 ELSE tile + 1)
        /\ stage' = (IF last THEN "assemble" ELSE "preflight")
        /\ UNCHANGED <<buffer, metadata, kept, frames, drawn, images>>
    BY <1>1, <1>4 DEF Foresee
  <2>2. /\ frames = << >> /\ buffer = Empty /\ kept = NoSets /\ Len(foreseen) = tile - 1
        /\ foreseen \in Seq(Totals) /\ \A t \in DOMAIN foreseen : ForeseenAt(t)
    BY <1>1 DEF Preflighting, Allocated
  <2>3. one \in Totals
    <3>1. StreamBytes(counted) \in Nat
      <4>1. Len(nals) \in 0 .. Len(nals)
        BY <1>2
      <4> HIDE DEF nals
      <4>q. QED
        BY <1>2, <4>1, EstimateTyped
    <3>q. QED
      BY <1>2, <3>1 DEF Totals
  <2>4. /\ all \in Seq(Totals) /\ Len(all) = tile /\ DOMAIN all = 1 .. tile
        /\ \A t \in 1 .. tile - 1 : t \in DOMAIN foreseen /\ all[t] = foreseen[t]
        /\ all[tile] = one
    <3>1. tile \in Nat \ {0}
      BY <1>2
    <3>2. DOMAIN foreseen = 1 .. tile - 1
      BY <2>2, LenProperties
    <3> HIDE DEF one
    <3>q. QED
      BY <2>2, <2>3, <3>1, <3>2, AppendProperties
  <2>5. \A t \in DOMAIN all : ForeseenAt(t)'
    <3> SUFFICES ASSUME NEW t \in 1 .. tile PROVE ForeseenAt(t)'
      BY <2>4
    <3>1. NalsAt(t)' = NalsAt(t)
      BY <1>1, ItemKept
    <3>2. CASE t = tile
      <4>1. all[t].frame = largest /\ all[t].stream = StreamBytes(counted)
        BY <2>4, <3>2
      <4>q. QED
        BY <1>1, <1>2, <2>1, <3>1, <3>2, <4>1, ItemKept DEF ForeseenAt
    <3>3. CASE t # tile
      <4>1. t \in 1 .. tile - 1
        BY <1>2, <3>3
      <4>2. ForeseenAt(t) /\ foreseen'[t] = foreseen[t]
        BY <2>1, <2>2, <2>4, <4>1
      <4>q. QED
        BY <1>1, <3>1, <4>2, ItemKept DEF ForeseenAt
    <3>q. QED
      BY <3>2, <3>3
  <2>6. Allocated'
    <3>1. frames' = << >> /\ Len(frames') = 0 /\ DOMAIN frames' = {} /\ frames' \in Seq(Frame)
      BY <2>1, <2>2
    <3>2. Len(foreseen') \in Nat /\ Len(foreseen') <= Len(item'.streams)
      BY <1>1, <1>2, <2>1, <2>4
    <3>3. \A t \in DOMAIN foreseen' : ForeseenAt(t)'
      BY <2>1, <2>5
    <3>4. Frame' = Frame /\ Totals' = Totals
      BY DEF Frame, Totals
    <3>q. QED
      BY <2>1, <2>4, <3>1, <3>2, <3>3 DEF Allocated
  <2>7. item' \in Items'
    BY <1>1, ItemKept
  <2>8. CASE last
    <3>1. AllForeseen'
      <4>1. ~OverBudget(total) /\ TotalForeseen' = total
        BY <1>4, <2>1 DEF TotalForeseen
      <4>2. \A x : OverBudget(x)' = OverBudget(x)
        BY <1>1, ItemKept
      <4>3. Len(foreseen') = Len(item'.streams)
        BY <1>1, <2>1, <2>4, <2>8
      <4> HIDE DEF total
      <4>q. QED
        BY <1>1, <4>1, <4>2, <4>3, ItemKept DEF AllForeseen
    <3>2. /\ stage' = "assemble" /\ tile' = 1 /\ next' = 1 /\ buffer' = Empty /\ kept' = NoSets
          /\ frames' = << >>
      BY <2>1, <2>2, <2>8
    <3>3. 1 \in 1 .. Len(item.streams)
      BY <1>2
    <3>4. Len(NalsAt(1)) \in Nat /\ Upto(Prefixed(NalsAt(1)), 0) = 0
      <4>1. NalsAt(1) \in Seq(NalUnit) /\ Len(NalsAt(1)) \in Nat
        BY <1>1, <3>3, NalsTyped
      <4>q. QED
        BY <4>1, TermsTyped, UptoFacts
    <3>5. Assembled(0)'
      <4>1. NalsAt(tile)' = NalsAt(1)
        BY <1>1, <3>2, ItemKept
      <4>q. QED
        BY <3>2, <3>4, <4>1 DEF Assembled, Empty
    <3>6. next' - 1 = 0 /\ next' \in 1 .. Len(NalsAt(1)) + 1 /\ Len(frames') = tile' - 1
      BY <3>2, <3>4
    <3>7. NalsAt(tile)' = NalsAt(1)
      BY <1>1, <3>2, ItemKept
    <3>q. QED
      BY <1>1, <2>6, <2>7, <3>1, <3>2, <3>3, <3>5, <3>6, <3>7 DEF ForeseenInv, Decoding
  <2>9. CASE ~last
    <3>1. /\ stage' = "preflight" /\ tile' = tile + 1 /\ next' = 1 /\ largest' = 0
          /\ counted' = NothingCounted
      BY <2>1, <2>9
    <3>2. tile + 1 \in 1 .. Len(item.streams)
      BY <1>2, <2>9
    <3>3. NalsAt(tile + 1) \in Seq(NalUnit) /\ Len(NalsAt(tile + 1)) \in Nat
      BY <1>1, <3>2, NalsTyped
    <3>4. Preflighting'
      <4>1. NalsAt(tile)' = NalsAt(tile + 1)
        BY <1>1, <3>1, ItemKept
      <4>2. next' - 1 = 0 /\ Len(foreseen') = tile' - 1
        BY <1>2, <2>1, <2>4, <3>1
      <4>3. WalkedTo(tile, next - 1, largest)'
        BY <4>2 DEF WalkedTo
      <4>4. counted' = CountedTo(NalsAt(tile + 1), 0)
        BY <3>1, <3>3, CountedStep
      <4>5. 1 \in 1 .. Len(NalsAt(tile + 1)) + 1
        BY <3>3
      <4>q. QED
        BY <1>1, <2>1, <2>2, <3>1, <3>2, <4>1, <4>2, <4>3, <4>4, <4>5 DEF Preflighting
    <3>q. QED
      BY <2>6, <2>7, <3>1, <3>4 DEF ForeseenInv, Decoding
  <2>q. QED
    BY <2>8, <2>9
<1>q. QED
  BY <1>3, <1>4

\* The buffer grows to no more than twice of what is in it.
LEMMA ExtendedTight ==
    ASSUME NEW b \in [used : Nat, capacity : Nat], b.capacity <= 2 * b.used, NEW size \in Nat
    PROVE  LET c == Extended(Extended(b, 4), size)
           IN  /\ c \in [used : Nat, capacity : Nat]
               /\ c.used = b.used + 4 + size
               /\ c.capacity <= 2 * c.used
<1> DEFINE m == b.used
           k == b.capacity
           m1 == m + 4
           k1 == IF m1 <= k THEN k ELSE Greater(8, Greater(2 * k, m1))
           m2 == m1 + size
           k2 == IF m2 <= k1 THEN k1 ELSE Greater(8, Greater(2 * k1, m2))
<1>1. Extended(Extended(b, 4), size) = [used |-> m2, capacity |-> k2]
  BY DEF Extended
<1>2. m \in Nat /\ k \in Nat /\ k <= 2 * m
  OBVIOUS
<1> HIDE DEF m, k
<1>3. m1 \in Nat /\ m1 = m + 4 /\ k1 \in Nat /\ k1 <= 2 * m1 /\ m1 >= 4
  BY <1>2 DEF Greater
<1> HIDE DEF m1, k1
<1>4. m2 \in Nat /\ m2 = m1 + size /\ k2 \in Nat /\ k2 <= 2 * m2
  BY <1>3 DEF Greater
<1> HIDE DEF m2, k2
<1>5. m2 = m + 4 + size
  BY <1>2, <1>3, <1>4
<1>q. QED
  BY <1>1, <1>4, <1>5 DEF m

\* One more NAL unit in the buffer.
LEMMA AssembleKeeps ==
    ASSUME ForeseenInv, Assemble
    PROVE  ForeseenInv'
<1> DEFINE nals == NalsAt(tile)
<1>1. /\ item \in Items /\ Allocated /\ AllForeseen /\ stage = "assemble"
      /\ item' = item /\ Nals = nals /\ tile \in 1 .. Len(item.streams)
      /\ next \in 1 .. Len(nals) + 1 /\ Assembled(next - 1) /\ kept = NoSets
      /\ Len(frames) = tile - 1
      /\ UNCHANGED <<tile, foreseen, kept, frames>>
  BY DEF ForeseenInv, Assemble, otherVars, Nals, Stream, NalsAt, Decoding
<1>2. nals \in Seq(NalUnit) /\ Len(nals) \in Nat
  BY <1>1, NalsTyped
<1>3. Allocated' /\ AllForeseen' /\ item' \in Items' /\ NalsAt(tile)' = nals
  BY <1>1, AllocatedKept, ItemKept
<1>4. CASE next > Len(nals)
  <2>1. stage' = "metadata" /\ buffer' = buffer
    BY <1>1, <1>4 DEF Assemble
  <2>2. next - 1 = Len(nals)
    BY <1>1, <1>2, <1>4
  <2>3. Assembled(Len(NalsAt(tile)))'
    BY <1>1, <1>3, <2>1, <2>2 DEF Assembled
  <2>q. QED
    BY <1>1, <1>3, <2>1, <2>3 DEF ForeseenInv, Decoding
<1>5. CASE ~(next > Len(nals))
  <2>1. /\ stage' = "assemble" /\ next' = next + 1
        /\ buffer' = Extended(Extended(buffer, 4), nals[next].size)
    BY <1>1, <1>5 DEF Assemble
  <2>2. next \in 1 .. Len(nals) /\ next' \in 1 .. Len(nals) + 1 /\ next' - 1 = next
    BY <1>1, <1>2, <1>5, <2>1
  <2>3. /\ nals[next].size \in Nat /\ Prefixed(nals)[next] = nals[next].size + 4
        /\ Upto(Prefixed(nals), next) = Upto(Prefixed(nals), next - 1) + Prefixed(nals)[next]
    <3>1. \A k \in 1 .. Len(nals) : Prefixed(nals)[k] \in Nat
      BY <1>2, TermsTyped
    <3> HIDE DEF nals
    <3>q. QED
      BY <1>2, <2>2, <3>1, TermsTyped, UptoFacts
  <2>4. /\ buffer \in [used : Nat, capacity : Nat] /\ buffer.capacity <= 2 * buffer.used
        /\ buffer.used = Upto(Prefixed(nals), next - 1)
    BY <1>1 DEF Assembled
  <2>5. /\ buffer' \in [used : Nat, capacity : Nat] /\ buffer'.capacity <= 2 * buffer'.used
        /\ buffer'.used = buffer.used + 4 + nals[next].size
    BY <2>1, <2>3, <2>4, ExtendedTight
  <2>6. buffer'.used = Upto(Prefixed(nals), next)
    <3>1. buffer.used \in Nat
      BY <2>4
    <3>q. QED
      BY <2>3, <2>4, <2>5, <3>1
  <2>7. Assembled(next - 1)'
    BY <1>3, <2>2, <2>5, <2>6 DEF Assembled
  <2>q. QED
    BY <1>1, <1>3, <2>1, <2>2, <2>7 DEF ForeseenInv, Decoding
<1>q. QED
  BY <1>4, <1>5

\* What is read from the stream does not change it,
LEMMA ReadMetadataKeeps ==
    ASSUME ForeseenInv, ReadMetadata
    PROVE  ForeseenInv'
<1>1. /\ item \in Items /\ Allocated /\ AllForeseen /\ stage = "metadata"
      /\ item' = item /\ tile \in 1 .. Len(item.streams)
      /\ Assembled(Len(NalsAt(tile))) /\ kept = NoSets /\ Len(frames) = tile - 1
  BY DEF ForeseenInv, ReadMetadata, otherVars, Decoding
<1>2. ASSUME End("refused") PROVE ForeseenInv'
  BY <1>1, <1>2, EndKeeps DEF Decoding
<1>3. ASSUME stage' = "units", UNCHANGED <<tile, foreseen, buffer, kept, frames>>
      PROVE  ForeseenInv'
  <2>1. Allocated' /\ AllForeseen' /\ item' \in Items' /\ NalsAt(tile)' = NalsAt(tile)
    BY <1>1, <1>3, AllocatedKept, ItemKept
  <2>2. Assembled(Len(NalsAt(tile)))'
    BY <1>1, <1>3, <2>1 DEF Assembled
  <2>q. QED
    BY <1>1, <1>3, <2>1, <2>2 DEF ForeseenInv, Decoding
<1>q. QED
  BY <1>2, <1>3 DEF ReadMetadata

\* and before its sets are read none is kept.
LEMMA ParseUnitsKeeps ==
    ASSUME ForeseenInv, ParseUnits
    PROVE  ForeseenInv'
<1>1. /\ item \in Items /\ Allocated /\ AllForeseen /\ stage = "units"
      /\ item' = item /\ tile \in 1 .. Len(item.streams)
      /\ Assembled(Len(NalsAt(tile))) /\ kept = NoSets /\ Len(frames) = tile - 1
  BY DEF ForeseenInv, ParseUnits, otherVars, Decoding
<1>2. ASSUME End("refused") PROVE ForeseenInv'
  BY <1>1, <1>2, EndKeeps DEF Decoding
<1>3. ASSUME End("sets")
      PROVE  ForeseenInv'
  <2>0. stage' = "sets" /\ UNCHANGED <<tile, foreseen, buffer, kept, frames>>
    BY <1>3 DEF End
  <2>1. Allocated' /\ AllForeseen' /\ item' \in Items' /\ NalsAt(tile)' = NalsAt(tile)
    BY <1>1, <2>0, AllocatedKept, ItemKept
  <2>2. Assembled(Len(NalsAt(tile)))'
    BY <1>1, <2>0, <2>1 DEF Assembled
  <2>3. KeptOne'
    BY <1>1, <2>0 DEF KeptOne, NoSets, ParameterKinds
  <2>q. QED
    BY <1>1, <2>0, <2>1, <2>2, <2>3 DEF ForeseenInv, Decoding
<1>q. QED
  BY <1>2, <1>3 DEF ParseUnits

\* A set that is kept is one of those the preflight has walked.
LEMMA KeepSetKeeps ==
    ASSUME ForeseenInv, KeepSet
    PROVE  ForeseenInv'
<1> DEFINE nals == NalsAt(tile)
           nal == nals[next]
<1>1. /\ item \in Items /\ Allocated /\ AllForeseen /\ stage = "sets"
      /\ item' = item /\ tile \in 1 .. Len(item.streams) /\ Nals = nals
      /\ Assembled(Len(nals)) /\ KeptOne /\ Len(frames) = tile - 1
      /\ UNCHANGED <<tile, foreseen, buffer, frames>>
  BY DEF ForeseenInv, KeepSet, otherVars, Decoding, Nals, Stream, NalsAt
<1>2. Allocated' /\ AllForeseen' /\ item' \in Items' /\ NalsAt(tile)' = nals
  BY <1>1, AllocatedKept, ItemKept
<1>3. Assembled(Len(NalsAt(tile)))'
  BY <1>1, <1>2 DEF Assembled
<1>4. CASE stage' = "refused"
  BY <1>1, <1>2, <1>4 DEF ForeseenInv, Decoding
<1>5. CASE stage' = stage /\ kept' = kept
  <2>1. KeptOne'
    BY <1>1, <1>2, <1>5 DEF KeptOne
  <2>q. QED
    BY <1>1, <1>2, <1>3, <1>5, <2>1 DEF ForeseenInv, Decoding
<1>6. CASE /\ next \in Units /\ nal.kind \in ParameterKinds /\ SetParses(nal)
           /\ kept' = [kept EXCEPT ![nal.kind] = <<nal.content>>] /\ stage' = stage
  <2>1. next \in DOMAIN nals /\ HeaderParses(nal)
    BY <1>1, <1>6 DEF Units
  <2>2. DOMAIN kept = ParameterKinds
    BY <1>1 DEF KeptOne
  <2>3. KeptOne'
    <3>1. CASE nal.kind = "sps"
      <4>1. IsSps(nal) /\ SpsParses(nal)
        BY <1>6, <2>1, <3>1 DEF IsSps, HasType, HeaderParses, SetParses
      <4>2. kept'["sps"] = <<nal.content>> /\ DOMAIN kept' = ParameterKinds
        BY <1>6, <2>2, <3>1
      <4>q. QED
        BY <1>1, <1>2, <2>1, <4>1, <4>2 DEF KeptOne
    <3>2. CASE nal.kind # "sps"
      <4>1. kept'["sps"] = kept["sps"] /\ DOMAIN kept' = ParameterKinds
        BY <1>6, <2>2, <3>2 DEF ParameterKinds
      <4>q. QED
        BY <1>1, <1>2, <4>1 DEF KeptOne
    <3>q. QED
      BY <3>1, <3>2
  <2>q. QED
    BY <1>1, <1>2, <1>3, <1>6, <2>3 DEF ForeseenInv, Decoding
<1>q. QED
  BY <1>1, <1>4, <1>5, <1>6 DEF KeepSet

\* The frame is of a set that the preflight has judged, and what is held is what
\* it has counted.
LEMMA StartPictureKeeps ==
    ASSUME ForeseenInv, StartPicture
    PROVE  ForeseenInv'
<1> DEFINE nals == NalsAt(tile)
           one == [sps |-> KeptSps, bytes |-> FrameBytes(KeptSps), held |-> HeldBytes]
           all == Append(frames, one)
<1>1. /\ item \in Items /\ Allocated /\ AllForeseen /\ stage = "sets"
      /\ item' = item /\ tile \in 1 .. Len(item.streams)
      /\ Assembled(Len(nals)) /\ KeptOne /\ Len(frames) = tile - 1
  BY DEF ForeseenInv, StartPicture, otherVars, Decoding
<1>2. ASSUME End("refused") PROVE ForeseenInv'
  BY <1>1, <1>2, EndKeeps DEF Decoding
<1>3. ASSUME kept["sps"] # << >>, frames' = all, stage' = "slices",
             UNCHANGED <<tile, foreseen, buffer, kept>>
      PROVE  ForeseenInv'
  <2>1. PICK i \in DOMAIN nals : /\ IsSps(nals[i]) /\ SpsParses(nals[i])
                                 /\ kept["sps"] = <<nals[i].content>>
    BY <1>1, <1>3 DEF KeptOne
  <2>2. /\ KeptSps = Sps[nals[i].content] /\ nals[i].content \in DOMAIN Sps
    BY <2>1 DEF KeptSps, SpsParses
  <2>3. /\ nals \in Seq(NalUnit) /\ Len(nals) \in Nat /\ DOMAIN nals = 1 .. Len(nals)
        /\ i \in 1 .. Len(nals) /\ Len(nals) > 0
    <3>1. nals \in Seq(NalUnit) /\ Len(nals) \in Nat /\ DOMAIN nals = 1 .. Len(nals)
      BY <1>1, NalsTyped
    <3> HIDE DEF nals
    <3>q. QED
      BY <3>1
  <2>4. /\ Len(foreseen) = Len(item.streams) /\ foreseen \in Seq(Totals)
        /\ tile \in DOMAIN foreseen /\ ForeseenAt(tile)
    <3>1. Len(foreseen) = Len(item.streams) /\ foreseen \in Seq(Totals)
      BY <1>1 DEF Allocated, AllForeseen
    <3>2. tile \in DOMAIN foreseen
      BY <1>1, <3>1, LenProperties
    <3>q. QED
      BY <1>1, <3>1, <3>2 DEF Allocated
  <2>5. Good(tile, nals[i])
    BY <2>1, <2>3, <2>4 DEF ForeseenAt, WalkedTo
  <2>6. FrameBytes(KeptSps) \in Nat
    <3>1. CanShow(KeptSps)
      BY <2>2, <2>5 DEF Good
    <3>q. QED
      BY <3>1, FrameFits
  <2>7. HeldBytes \in Nat /\ HeldBytes + 2 <= foreseen[tile].stream
    BY <1>1, <2>3, <2>4, HeldFits DEF ForeseenAt
  <2>8. one \in Frame
    BY <2>2, <2>6, <2>7 DEF Frame
  <2>9. frames \in Seq(Frame) /\ \A t \in DOMAIN frames : AllocatedAt(t)
    BY <1>1 DEF Allocated
  <2>10. /\ all \in Seq(Frame) /\ Len(all) = tile /\ DOMAIN all = 1 .. tile
         /\ \A t \in 1 .. tile - 1 : t \in DOMAIN frames /\ all[t] = frames[t]
         /\ all[tile] = one
    <3>1. tile \in Nat \ {0}
      BY <1>1, ItemTyped
    <3>2. DOMAIN frames = 1 .. tile - 1
      BY <1>1, <2>9, LenProperties
    <3> HIDE DEF one
    <3>q. QED
      BY <1>1, <2>8, <2>9, <3>1, <3>2, AppendProperties
  <2>11. \A t \in DOMAIN all : AllocatedAt(t)'
    <3> SUFFICES ASSUME NEW t \in 1 .. tile PROVE AllocatedAt(t)'
      BY <2>10
    <3>1. NalsAt(t)' = NalsAt(t)
      BY <1>1, ItemKept
    <3>2. CASE t = tile
      <4>1. /\ all[t].sps = Sps[nals[i].content]
            /\ all[t].bytes = FrameBytes(all[t].sps)
            /\ all[t].held = HeldBytes
        BY <2>2, <2>10, <3>2
      <4>q. QED
        BY <1>3, <2>1, <2>7, <3>1, <3>2, <4>1 DEF AllocatedAt
    <3>3. CASE t # tile
      <4>1. t \in 1 .. tile - 1
        BY <1>1, <3>3
      <4>2. AllocatedAt(t) /\ frames'[t] = frames[t]
        BY <1>3, <2>9, <2>10, <4>1
      <4>q. QED
        BY <1>3, <3>1, <4>2 DEF AllocatedAt
    <3>q. QED
      BY <3>2, <3>3
  <2>12. /\ \A t : ForeseenAt(t)' = ForeseenAt(t)
         /\ AllForeseen'
    <3>1. TotalForeseen' = TotalForeseen
      BY <1>3 DEF TotalForeseen
    <3>q. QED
      BY <1>1, <1>3, <3>1, ItemKept DEF ForeseenAt, AllForeseen
  <2>13. Allocated'
    <3>1. Frame' = Frame /\ Totals' = Totals
      BY DEF Frame, Totals
    <3>2. Len(frames') <= Len(foreseen')
      BY <1>1, <1>3, <2>4, <2>10, ItemTyped
    <3>3. Len(foreseen') <= Len(item'.streams)
      BY <1>1, <1>3 DEF Allocated
    <3>q. QED
      BY <1>1, <1>3, <2>4, <2>10, <2>11, <2>12, <3>1, <3>2, <3>3 DEF Allocated
  <2>14. item' \in Items'
    BY <1>1, ItemKept
  <2>q. QED
    BY <1>1, <1>3, <2>10, <2>12, <2>13, <2>14 DEF ForeseenInv, Decoding
<1>q. QED
  BY <1>2, <1>3 DEF StartPicture

\* A slice that is drawn leaves what is allocated.
LEMMA DrawSliceKeeps ==
    ASSUME ForeseenInv, DrawSlice
    PROVE  ForeseenInv'
<1>1. /\ item \in Items /\ Allocated /\ AllForeseen /\ stage = "slices"
      /\ item' = item /\ tile \in 1 .. Len(item.streams) /\ Len(frames) = tile
  BY DEF ForeseenInv, DrawSlice, otherVars, Decoding
<1>2. ASSUME End("refused") PROVE ForeseenInv'
  BY <1>1, <1>2, EndKeeps DEF Decoding
<1>3. ASSUME UNCHANGED <<stage, tile, foreseen, frames>>
      PROVE  ForeseenInv'
  <2>1. Allocated' /\ AllForeseen' /\ item' \in Items'
    BY <1>1, <1>3, AllocatedKept, ItemKept
  <2>q. QED
    BY <1>1, <1>3, <2>1 DEF ForeseenInv, Decoding
<1>q. QED
  BY <1>2, <1>3 DEF DrawSlice

\* A tile that is done is followed by the next one, with an empty buffer.
LEMMA TakeImageKeeps ==
    ASSUME ForeseenInv, TakeImage
    PROVE  ForeseenInv'
<1>1. /\ item \in Items /\ Allocated /\ AllForeseen /\ stage = "slices"
      /\ item' = item /\ tile \in 1 .. Len(item.streams) /\ Len(frames) = tile
  BY DEF ForeseenInv, TakeImage, otherVars, Decoding
<1>2. ASSUME End("accepted") \/ End("refused") \/ End("limit") PROVE ForeseenInv'
  BY <1>1, <1>2, EndKeeps DEF Decoding
<1>3. ASSUME stage' = "accepted", UNCHANGED <<foreseen, frames>>
      PROVE  ForeseenInv'
  <2>1. Allocated' /\ item' \in Items'
    BY <1>1, <1>3, AllocatedKept, ItemKept
  <2>q. QED
    BY <1>3, <2>1 DEF ForeseenInv, Decoding
<1>4. ASSUME tile # Len(item.streams), stage' = "assemble", tile' = tile + 1, next' = 1,
             buffer' = Empty, kept' = NoSets, UNCHANGED <<foreseen, frames>>
      PROVE  ForeseenInv'
  <2>1. Allocated' /\ AllForeseen' /\ item' \in Items'
    BY <1>1, <1>4, AllocatedKept, ItemKept
  <2>2. tile + 1 \in 1 .. Len(item.streams) /\ (tile + 1) - 1 = tile
    BY <1>1, <1>4, ItemTyped
  <2>3. Len(NalsAt(tile + 1)) \in Nat /\ Upto(Prefixed(NalsAt(tile + 1)), 0) = 0
    <3>1. NalsAt(tile + 1) \in Seq(NalUnit) /\ Len(NalsAt(tile + 1)) \in Nat
      BY <1>1, <2>2, NalsTyped
    <3>q. QED
      BY <3>1, TermsTyped, UptoFacts
  <2>4. NalsAt(tile)' = NalsAt(tile + 1)
    BY <1>1, <1>4, ItemKept
  <2>5. Assembled(0)'
    BY <1>4, <2>3, <2>4 DEF Assembled, Empty
  <2>6. next' - 1 = 0 /\ next' \in 1 .. Len(NalsAt(tile + 1)) + 1
    BY <1>4, <2>3
  <2>q. QED
    BY <1>1, <1>4, <2>1, <2>2, <2>4, <2>5, <2>6 DEF ForeseenInv, Decoding
<1>5. item.kind \in {"coded", "alpha", "grid"}
  BY <1>1, ItemTyped
<1>q. QED
  BY <1>2, <1>3, <1>4, <1>5 DEF TakeImage

\* The bounded readers leave the eager path alone.
LEMMA PathsApart ==
    ASSUME ForeseenInv, UNCHANGED <<item, eagerVars>>
    PROVE  ForeseenInv'
<1>1. /\ item' = item
      /\ UNCHANGED <<stage, tile, next, largest, counted, foreseen, buffer, kept, frames>>
  BY DEF eagerVars
<1>2. Allocated' /\ AllForeseen' = AllForeseen /\ item' \in Items' /\ NalsAt(tile)' = NalsAt(tile)
  BY <1>1, AllocatedKept, ItemKept DEF ForeseenInv
<1>3. /\ \A n : Assembled(n)' = Assembled(n)
      /\ Preflighting' = Preflighting /\ KeptOne' = KeptOne
  BY <1>1, <1>2, ItemKept DEF Assembled, Preflighting, KeptOne
<1>q. QED
  BY <1>1, <1>2, <1>3 DEF ForeseenInv, Decoding

\* Every step keeps the invariant.
LEMMA ForeseenStep ==
    ASSUME ForeseenInv, [CodedNext]_codedVars
    PROVE  ForeseenInv'
<1>1. CASE CodedNext
  <2>1. CASE Start
    BY <2>1, StartKeeps
  <2>2. CASE Walk
    BY <2>2, WalkKeeps
  <2>3. CASE Foresee
    BY <2>3, ForeseeKeeps
  <2>4. CASE Assemble
    BY <2>4, AssembleKeeps
  <2>5. CASE ReadMetadata
    BY <2>5, ReadMetadataKeeps
  <2>6. CASE ParseUnits
    BY <2>6, ParseUnitsKeeps
  <2>7. CASE KeepSet
    BY <2>7, KeepSetKeeps
  <2>8. CASE StartPicture
    BY <2>8, StartPictureKeeps
  <2>9. CASE DrawSlice
    BY <2>9, DrawSliceKeeps
  <2>10. CASE TakeImage
    BY <2>10, TakeImageKeeps
  <2>11. CASE Prepare \/ PrepareStreamed
    BY <2>11, PathsApart DEF Prepare, PrepareStreamed
  <2>q. QED
    BY <1>1, <2>1, <2>2, <2>3, <2>4, <2>5, <2>6, <2>7, <2>8, <2>9, <2>10, <2>11
       DEF CodedNext, EagerNext
<1>2. CASE UNCHANGED codedVars
  BY <1>2, PathsApart DEF codedVars, otherVars
<1>q. QED
  BY <1>1, <1>2
\* Nothing is foreseen or allocated at first.
LEMMA ForeseenFirst ==
    ASSUME CodedInit
    PROVE  ForeseenInv
<1>1. /\ item \in Items /\ stage = "start" /\ tile = 1 /\ next = 1
      /\ largest = 0 /\ counted = NothingCounted /\ foreseen = << >>
      /\ buffer = Empty /\ kept = NoSets /\ frames = << >>
  BY DEF CodedInit, EagerInit
<1>2. Len(item.streams) \in Nat
  BY <1>1, ItemTyped
<1>3. Allocated
  <2>1. foreseen \in Seq(Totals) /\ frames \in Seq(Frame)
    BY <1>1
  <2>2. DOMAIN foreseen = {} /\ DOMAIN frames = {} /\ Len(foreseen) = 0 /\ Len(frames) = 0
    BY <1>1
  <2>q. QED
    BY <1>1, <1>2, <2>1, <2>2 DEF Allocated
<1>q. QED
  BY <1>1, <1>3 DEF ForeseenInv, Decoding

\* What the decode relies on is invariant (geometry.rs, hevc/mod.rs): each set of a
\* foreseen stream is one the preflight has judged, and a frame is of such a set.
THEOREM ForeseenAlways == CodedSpec => []ForeseenInv
<1>1. CodedInit => ForeseenInv
  BY ForeseenFirst
<1>2. ForeseenInv /\ [CodedNext]_codedVars => ForeseenInv'
  BY ForeseenStep
<1>q. QED
  BY <1>1, <1>2, PTL DEF CodedSpec

\* Budgets are numbers,
LEMMA BudgetTyped ==
    ASSUME item \in Items, NEW p \in BudgetPixels
    PROVE  DecodedByteBudget(p) \in Nat
<1>1. p \in Nat
  <2>1. /\ item.kind \in {"coded", "alpha", "grid"} /\ item.limit \subseteq Nat
        /\ item.w \in Nat /\ item.h \in Nat
    BY ItemTyped
  <2>2. GridBudgetExtent(item.w, item.columns, item.rows) \in Nat
        /\ GridBudgetExtent(item.h, item.rows, item.columns) \in Nat
    BY <2>1, LimitsAssumption DEF GridBudgetExtent, Greater
  <2>3. item.w * item.h \in Nat
        /\ GridBudgetExtent(item.w, item.columns, item.rows)
              * GridBudgetExtent(item.h, item.rows, item.columns) \in Nat
    BY <2>1, <2>2, ProductNatural
  <2>q. QED
    BY <2>1, <2>3 DEF BudgetPixels
<1>q. QED
  BY <1>1, LimitsAssumption DEF DecodedByteBudget

\* so that nothing is over none of them, and less than what fits in them fits.
LEMMA LessIsWithin ==
    ASSUME item \in Items, NEW a \in Nat
    PROVE  /\ ~OverBudget(0)
           /\ \A b \in Nat : a <= b /\ ~OverBudget(b) => ~OverBudget(a)
<1>1. ASSUME NEW p \in BudgetPixels
      PROVE  /\ ~(0 > DecodedByteBudget(p))
             /\ \A b \in Nat : a <= b /\ ~(b > DecodedByteBudget(p))
                                => ~(a > DecodedByteBudget(p))
  BY BudgetTyped
<1>q. QED
  BY <1>1 DEF OverBudget

\* A frame, its stream and what is parsed of it take no more than was foreseen
\* for its stream.
LEMMA FrameForeseen ==
    ASSUME ForeseenInv, NEW t \in DOMAIN frames
    PROVE  /\ t \in DOMAIN foreseen /\ foreseen[t] \in Totals /\ frames[t] \in Frame
           /\ \E i \in DOMAIN NalsAt(t) : /\ frames[t].sps = Sps[NalsAt(t)[i].content]
                                          /\ Good(t, NalsAt(t)[i])
           /\ frames[t].bytes <= foreseen[t].frame \/ frames[t].sps.w * frames[t].sps.h = 1
           /\ frames[t].held <= foreseen[t].stream
           /\ frames[t].bytes + frames[t].held <= TotalOf(foreseen[t])
<1>1. /\ item \in Items /\ foreseen \in Seq(Totals) /\ frames \in Seq(Frame)
      /\ Len(frames) <= Len(foreseen) /\ Len(foreseen) <= Len(item.streams)
      /\ \A s \in DOMAIN foreseen : ForeseenAt(s)
      /\ AllocatedAt(t)
  BY DEF ForeseenInv, Allocated
<1>2. t \in 1 .. Len(foreseen) /\ t \in 1 .. Len(frames) /\ t \in 1 .. Len(item.streams)
  <2>1. /\ Len(frames) \in Nat /\ DOMAIN frames = 1 .. Len(frames)
        /\ Len(foreseen) \in Nat /\ Len(item.streams) \in Nat
    BY <1>1, LenProperties, ItemTyped
  <2>q. QED
    BY <1>1, <2>1
<1>3. t \in DOMAIN foreseen /\ foreseen[t] \in Totals /\ frames[t] \in Frame
  BY <1>1, <1>2, LenProperties, ElementOfSeq
<1>4. PICK i \in DOMAIN NalsAt(t) : /\ IsSps(NalsAt(t)[i])
                                   /\ frames[t].sps = Sps[NalsAt(t)[i].content]
  BY <1>1 DEF AllocatedAt
<1>5. i \in 1 .. Len(NalsAt(t))
  BY <1>1, <1>2, <1>4, NalsTyped
<1>6. /\ Good(t, NalsAt(t)[i])
      /\ SpsBytes(frames[t].sps) <= foreseen[t].frame
  BY <1>1, <1>3, <1>4, <1>5 DEF ForeseenAt, WalkedTo
<1>7. CanShow(frames[t].sps)
  BY <1>4, <1>6 DEF Good
<1> DEFINE s == frames[t].sps
           pixels == s.w * s.h
           fb == frames[t].bytes
           fh == frames[t].held
           ef == foreseen[t].frame
           es == foreseen[t].stream
           sb == SpsBytes(s)
<1>8. /\ fb \in Nat /\ sb \in Nat /\ (fb <= sb \/ pixels = 1) /\ fb <= sb + 2
  <2>1. fb = FrameBytes(s)
    BY <1>1 DEF AllocatedAt
  <2>q. QED
    BY <1>7, <2>1, FrameFits
<1>9. /\ fh \in Nat /\ fh + 2 <= es /\ ef \in Nat /\ es \in Nat /\ sb <= ef
      /\ TotalOf(foreseen[t]) = ef + es
  BY <1>1, <1>3, <1>6 DEF AllocatedAt, Frame, Totals, TotalOf
<1> HIDE DEF pixels, fb, fh, ef, es, sb
<1>10. (fb <= ef \/ pixels = 1) /\ fh <= es /\ fb + fh <= ef + es
  BY <1>8, <1>9
<1>q. QED
  BY <1>3, <1>4, <1>6, <1>9, <1>10 DEF pixels, fb, fh, ef, es, sb

\* The sum over the frames is that of what was foreseen for them at most.
LEMMA InvForesees ==
    ASSUME ForeseenInv
    PROVE  DecodeForeseen
<1>1. item \in Items /\ Allocated
  BY DEF ForeseenInv
<1>2. PixelsForeseen
  BY FrameForeseen DEF PixelsForeseen, Good
<1>3. TilesForeseen
  BY FrameForeseen DEF TilesForeseen, Good, Begins
<1>4. ~OverBudget(SumOf([t \in DOMAIN frames |-> frames[t].bytes + frames[t].held]))
  <2> DEFINE e == [t \in DOMAIN frames |-> frames[t].bytes + frames[t].held]
             f == [t \in DOMAIN foreseen |-> TotalOf(foreseen[t])]
             m == Len(frames)
             c == Len(foreseen)
  <2>1. /\ m \in Nat /\ c \in Nat /\ m <= c
        /\ DOMAIN frames = 1 .. m /\ DOMAIN foreseen = 1 .. c
        /\ DOMAIN e = 1 .. m /\ DOMAIN f = 1 .. c
    <3>1. /\ m \in Nat /\ c \in Nat /\ m <= c
          /\ DOMAIN frames = 1 .. m /\ DOMAIN foreseen = 1 .. c
      BY <1>1, LenProperties DEF Allocated
    <3>q. QED
      BY <3>1
  <2>2. \A t \in 1 .. c : f[t] \in Nat
    <3> TAKE t \in 1 .. c
    <3>1. foreseen[t] \in Totals
      BY <1>1, ElementOfSeq DEF Allocated
    <3>q. QED
      BY <2>1, <3>1 DEF Totals, TotalOf
  <2>3. \A t \in 1 .. m : e[t] \in Nat /\ f[t] \in Nat /\ e[t] <= f[t]
    <3> TAKE t \in 1 .. m
    <3>1. t \in 1 .. c
      BY <2>1
    <3>2. t \in DOMAIN frames
      BY <2>1
    <3>3. frames[t] \in Frame /\ frames[t].bytes + frames[t].held <= TotalOf(foreseen[t])
      BY <3>2, FrameForeseen
    <3>4. e[t] = frames[t].bytes + frames[t].held /\ f[t] = TotalOf(foreseen[t])
      BY <2>1, <3>1, <3>2
    <3>5. e[t] \in Nat
      BY <3>3, <3>4 DEF Frame
    <3>q. QED
      BY <2>2, <3>1, <3>3, <3>4, <3>5
  <2>4. SumOf(e) = Upto(e, m) /\ SumOf(f) = Upto(f, c)
    <3> HIDE DEF e, f, m, c
    <3>q. QED
      BY <2>1, SumOfAll
  <2>5. CASE m = 0
    <3>1. SumOf(e) = 0
      <4> HIDE DEF e, f, c
      <4>q. QED
        BY <2>1, <2>3, <2>4, <2>5, UptoFacts
    <3>q. QED
      BY <1>1, <3>1, LessIsWithin DEF e
  <2>6. CASE m > 0
    <3>1. ~OverBudget(SumOf(f))
      BY <1>1, <2>6 DEF Allocated, AllForeseen, TotalForeseen
    <3> HIDE DEF e, f, m, c
    <3>2. m \in 0 .. m /\ m \in 0 .. c /\ c \in 0 .. c
      BY <2>1
    <3>3. Upto(e, m) <= Upto(f, m) /\ Upto(e, m) \in Nat
      BY <2>1, <2>3, <3>2, UptoBounds, UptoFacts
    <3>4. Upto(f, m) <= Upto(f, c) /\ Upto(f, m) \in Nat /\ Upto(f, c) \in Nat
      BY <2>1, <2>2, <3>2, UptoFacts
    <3>5. Upto(e, m) <= Upto(f, c)
      BY <3>3, <3>4
    <3>q. QED
      BY <1>1, <2>4, <3>1, <3>3, <3>4, <3>5, LessIsWithin DEF e
  <2>q. QED
    BY <2>1, <2>5, <2>6
<1>q. QED
  BY <1>2, <1>3, <1>4, FrameForeseen DEF DecodeForeseen, BytesForeseen

\* Whichever sets a stream repeats, no frame is allocated that the preflight had
\* not foreseen: in pixels, in bytes and, in a grid, in where tiles begin.
THEOREM DecodesAsForeseen == CodedSpec => []DecodeForeseen
  BY ForeseenAlways, InvForesees, PTL

-----------------------------------------------------------------------------
(* The bounded readers and the eager path.                                 *)

\* What a bounded reader has taken.
Readers ==
    [ok : BOOLEAN, count : Nat, sets : [ParameterKinds -> Seq(NalUnit)], slice : Seq(NalUnit)]

\* Goes through sets of positions as the folds do that take NAL units.
IsTaking(g, start, nals, inPayload) ==
    g = [s \in SUBSET DOMAIN nals |->
            IF s = {} THEN start ELSE Added(g[s \ {Top(s)}], nals[Top(s)], inPayload)]

IsScanning(g, start, nals) ==
    g = [s \in SUBSET DOMAIN nals |->
            IF s = {} THEN start ELSE Scanned(g[s \ {Top(s)}], nals[Top(s)])]

\* The configuration, the payload and the scan of the payload are values of such
\* functions,
LEMMA ConfigurationAsFunction ==
    ASSUME NEW s
    PROVE  Configuration(s)
              = (CHOOSE g : IsTaking(g, NoNals, s.config, FALSE))[DOMAIN s.config]
  BY DEF Configuration, FoldLeft, MapThenFoldSet, Max, IsTaking, Top

LEMMA CollectedAsFunction ==
    ASSUME NEW s
    PROVE  Collected(s)
              = (CHOOSE g : IsTaking(g, Configuration(s), s.payload, TRUE))[DOMAIN s.payload]
  BY DEF Collected, FoldLeft, MapThenFoldSet, Max, IsTaking, Top

LEMMA ScanAsFunction ==
    ASSUME NEW s
    PROVE  Scan(s)
              = LET configured == Configuration(s)
                    scanned == (CHOOSE g : IsScanning(g, NoNals, s.payload))[DOMAIN s.payload]
                IN  [ok |-> configured.ok /\ scanned.ok,
                     count |-> configured.count + scanned.count,
                     sets |-> configured.sets, slice |-> scanned.slice]
  BY DEF Scan, FoldLeft, MapThenFoldSet, Max, IsScanning, Top

\* which stay readers
LEMMA AddedTyped ==
    ASSUME NEW n \in Readers, NEW nal \in NalUnit, NEW inPayload \in BOOLEAN
    PROVE  Added(n, nal, inPayload) \in Readers /\ Scanned(n, nal) \in Readers
<1>1. /\ n.count \in Nat /\ n.sets \in [ParameterKinds -> Seq(NalUnit)]
      /\ n.slice \in Seq(NalUnit)
  BY DEF Readers
<1>2. <<nal>> \in Seq(NalUnit)
  OBVIOUS
<1>3. Adds(n, nal, inPayload) \in BOOLEAN /\ Adds(n, nal, TRUE) \in BOOLEAN
  BY DEF Adds
<1>4. WithSet(n.sets, nal) \in [ParameterKinds -> Seq(NalUnit)]
  BY <1>1, <1>2 DEF WithSet
<1>5. WithSlice(n.slice, nal) \in Seq(NalUnit)
  BY <1>1, <1>2 DEF WithSlice
<1>6. Added(n, nal, inPayload) \in Readers
  BY <1>1, <1>3, <1>4, <1>5 DEF Added, Readers
<1>7. Scanned(n, nal) \in Readers
  BY <1>1, <1>3, <1>5 DEF Scanned, Readers
<1>q. QED
  BY <1>6, <1>7

\* beginning with none,
LEMMA NoNalsTyped == NoNals \in Readers
<1>1. << >> \in Seq(NalUnit)
  BY EmptySeq
<1>2. NoSets \in [ParameterKinds -> Seq(NalUnit)]
  BY <1>1 DEF NoSets
<1>q. QED
  BY <1>1, <1>2 DEF NoNals, Readers

\* and take one NAL unit after the other.
LEMMA TakingSteps ==
    ASSUME NEW nals \in Seq(NalUnit), NEW start \in Readers, NEW inPayload \in BOOLEAN
    PROVE  \E h \in [0 .. Len(nals) -> Readers] :
              /\ h[0] = start
              /\ \A k \in 1 .. Len(nals) : h[k] = Added(h[k - 1], nals[k], inPayload)
              /\ (CHOOSE g : IsTaking(g, start, nals, inPayload))[DOMAIN nals] = h[Len(nals)]
<1> DEFINE n == Len(nals)
           D == 1 .. n
           Add == [x \in Readers \X D |-> Added(x[1], nals[x[2]], inPayload)]
           g == CHOOSE f : IsTaking(f, start, nals, inPayload)
<1>n. n \in Nat /\ DOMAIN nals = D /\ \A k \in D : nals[k] \in NalUnit
  BY LenProperties, ElementOfSeq
<1> HIDE DEF n
<1>d. IsFiniteSet(D) /\ HasTops(D)
  BY <1>n, PositionTops
<1>s. Add \in [Readers \X D -> Readers]
  <2>1. \A p \in Readers, k \in D : Added(p, nals[k], inPayload) \in Readers
    BY <1>n, AddedTyped
  <2> HIDE DEF D
  <2>q. QED
    BY <2>1
<1>1. \E f : IsTaking(f, start, nals, inPayload) /\ \A s \in SUBSET D : f[s] \in Readers
  <2>1. PICK f : IsFold(f, Add, start, D)
    <3> HIDE DEF D, Add
    <3>q. QED
      BY ONLY <1>d, FoldExists
  <2>2. \A s \in SUBSET D : f[s] \in Readers
    <3> HIDE DEF Add
    <3>q. QED
      BY ONLY <1>n, <1>s, <2>1, FoldTyped, start \in Readers
  <2>3. ASSUME NEW s \in SUBSET D, s # {}
        PROVE  f[s] = Added(f[s \ {Top(s)}], nals[Top(s)], inPayload)
    <3>1. f[s] = Add[<< f[s \ {Top(s)}], Top(s) >>]
      BY <2>1, <2>3 DEF IsFold
    <3>2. Top(s) \in D /\ s \ {Top(s)} \in SUBSET D
      BY <1>d, <2>3 DEF HasTops
    <3>3. f[s \ {Top(s)}] \in Readers
      BY <2>2, <3>2
    <3> HIDE DEF D
    <3>q. QED
      BY <3>1, <3>2, <3>3
  <2>4. f = [s \in SUBSET D |-> f[s]] /\ f[{}] = start
    BY <2>1 DEF IsFold
  <2> HIDE DEF D
  <2>5. IsTaking(f, start, nals, inPayload)
    BY <1>n, <2>3, <2>4 DEF IsTaking
  <2>q. QED
    BY <2>2, <2>5
<1>2. IsTaking(g, start, nals, inPayload)
  BY <1>1
<1> HIDE DEF g
<1>3. g[{}] = start
  BY <1>2 DEF IsTaking
<1>4. \A k \in D : g[1 .. k] = Added(g[1 .. k - 1], nals[k], inPayload)
  <2> TAKE k \in D
  <2>1. Top(1 .. k) = k /\ (1 .. k) \ {k} = 1 .. k - 1 /\ 1 .. k \in SUBSET D /\ 1 .. k # {}
    BY <1>n, PositionTops
  <2>2. g[1 .. k] = Added(g[(1 .. k) \ {Top(1 .. k)}], nals[Top(1 .. k)], inPayload)
    BY <1>n, <1>2, <2>1 DEF IsTaking
  <2>q. QED
    BY <2>1, <2>2
<1> DEFINE S == {k \in 0 .. n : g[1 .. k] \in Readers}
<1>5. 0 \in S
  <2>1. 1 .. 0 = {}
    OBVIOUS
  <2>q. QED
    BY <1>n, <1>3, <2>1
<1>6. ASSUME NEW k \in 0 .. n, k < n, k \in S
      PROVE  k + 1 \in S
  <2>1. k + 1 \in D /\ (k + 1) - 1 = k /\ g[1 .. k] \in Readers
    BY <1>n, <1>6
  <2>2. g[1 .. k + 1] = Added(g[1 .. k], nals[k + 1], inPayload)
    BY <1>4, <2>1
  <2>3. g[1 .. k + 1] \in Readers
    BY <1>n, <2>1, <2>2, AddedTyped
  <2>q. QED
    BY <1>n, <1>6, <2>3
<1> HIDE DEF S
<1>7. \A k \in 0 .. n : k \in S
  BY <1>n, <1>5, <1>6, Climb
<1> DEFINE h == [k \in 0 .. n |-> g[1 .. k]]
<1>8. h \in [0 .. n -> Readers]
  <2>1. \A k \in 0 .. n : g[1 .. k] \in Readers
    BY <1>7 DEF S
  <2>q. QED
    BY <2>1
<1>9. h[0] = start /\ h[n] = g[D]
  <2>1. 1 .. 0 = {} /\ 0 \in 0 .. n /\ n \in 0 .. n
    BY <1>n
  <2>q. QED
    BY <1>3, <2>1
<1>10. \A k \in D : h[k] = Added(h[k - 1], nals[k], inPayload)
  <2> TAKE k \in D
  <2>1. k \in 0 .. n /\ k - 1 \in 0 .. n
    BY <1>n
  <2>q. QED
    BY <1>4, <2>1
<1> HIDE DEF h
<1>q. QED
  BY <1>n, <1>8, <1>9, <1>10 DEF n, g

\* and so does the scan.
LEMMA ScanningSteps ==
    ASSUME NEW nals \in Seq(NalUnit), NEW start \in Readers
    PROVE  \E h \in [0 .. Len(nals) -> Readers] :
              /\ h[0] = start
              /\ \A k \in 1 .. Len(nals) : h[k] = Scanned(h[k - 1], nals[k])
              /\ (CHOOSE g : IsScanning(g, start, nals))[DOMAIN nals] = h[Len(nals)]
<1> DEFINE n == Len(nals)
           D == 1 .. n
           Add == [x \in Readers \X D |-> Scanned(x[1], nals[x[2]])]
           g == CHOOSE f : IsScanning(f, start, nals)
<1>n. n \in Nat /\ DOMAIN nals = D /\ \A k \in D : nals[k] \in NalUnit
  BY LenProperties, ElementOfSeq
<1> HIDE DEF n
<1>d. IsFiniteSet(D) /\ HasTops(D)
  BY <1>n, PositionTops
<1>s. Add \in [Readers \X D -> Readers]
  <2>1. \A p \in Readers, k \in D : Scanned(p, nals[k]) \in Readers
    BY <1>n, AddedTyped
  <2> HIDE DEF D
  <2>q. QED
    BY <2>1
<1>1. \E f : IsScanning(f, start, nals) /\ \A s \in SUBSET D : f[s] \in Readers
  <2>1. PICK f : IsFold(f, Add, start, D)
    <3> HIDE DEF D, Add
    <3>q. QED
      BY ONLY <1>d, FoldExists
  <2>2. \A s \in SUBSET D : f[s] \in Readers
    <3> HIDE DEF Add
    <3>q. QED
      BY ONLY <1>n, <1>s, <2>1, FoldTyped, start \in Readers
  <2>3. ASSUME NEW s \in SUBSET D, s # {}
        PROVE  f[s] = Scanned(f[s \ {Top(s)}], nals[Top(s)])
    <3>1. f[s] = Add[<< f[s \ {Top(s)}], Top(s) >>]
      BY <2>1, <2>3 DEF IsFold
    <3>2. Top(s) \in D /\ s \ {Top(s)} \in SUBSET D
      BY <1>d, <2>3 DEF HasTops
    <3>3. f[s \ {Top(s)}] \in Readers
      BY <2>2, <3>2
    <3> HIDE DEF D
    <3>q. QED
      BY <3>1, <3>2, <3>3
  <2>4. f = [s \in SUBSET D |-> f[s]] /\ f[{}] = start
    BY <2>1 DEF IsFold
  <2> HIDE DEF D
  <2>5. IsScanning(f, start, nals)
    BY <1>n, <2>3, <2>4 DEF IsScanning
  <2>q. QED
    BY <2>2, <2>5
<1>2. IsScanning(g, start, nals)
  BY <1>1
<1> HIDE DEF g
<1>3. g[{}] = start
  BY <1>2 DEF IsScanning
<1>4. \A k \in D : g[1 .. k] = Scanned(g[1 .. k - 1], nals[k])
  <2> TAKE k \in D
  <2>1. Top(1 .. k) = k /\ (1 .. k) \ {k} = 1 .. k - 1 /\ 1 .. k \in SUBSET D /\ 1 .. k # {}
    BY <1>n, PositionTops
  <2>2. g[1 .. k] = Scanned(g[(1 .. k) \ {Top(1 .. k)}], nals[Top(1 .. k)])
    BY <1>n, <1>2, <2>1 DEF IsScanning
  <2>q. QED
    BY <2>1, <2>2
<1> DEFINE S == {k \in 0 .. n : g[1 .. k] \in Readers}
<1>5. 0 \in S
  <2>1. 1 .. 0 = {}
    OBVIOUS
  <2>q. QED
    BY <1>n, <1>3, <2>1
<1>6. ASSUME NEW k \in 0 .. n, k < n, k \in S
      PROVE  k + 1 \in S
  <2>1. k + 1 \in D /\ (k + 1) - 1 = k /\ g[1 .. k] \in Readers
    BY <1>n, <1>6
  <2>2. g[1 .. k + 1] = Scanned(g[1 .. k], nals[k + 1])
    BY <1>4, <2>1
  <2>3. g[1 .. k + 1] \in Readers
    BY <1>n, <2>1, <2>2, AddedTyped
  <2>q. QED
    BY <1>n, <1>6, <2>3
<1> HIDE DEF S
<1>7. \A k \in 0 .. n : k \in S
  BY <1>n, <1>5, <1>6, Climb
<1> DEFINE h == [k \in 0 .. n |-> g[1 .. k]]
<1>8. h \in [0 .. n -> Readers]
  <2>1. \A k \in 0 .. n : g[1 .. k] \in Readers
    BY <1>7 DEF S
  <2>q. QED
    BY <2>1
<1>9. h[0] = start /\ h[n] = g[D]
  <2>1. 1 .. 0 = {} /\ 0 \in 0 .. n /\ n \in 0 .. n
    BY <1>n
  <2>q. QED
    BY <1>3, <2>1
<1>10. \A k \in D : h[k] = Scanned(h[k - 1], nals[k])
  <2> TAKE k \in D
  <2>1. k \in 0 .. n /\ k - 1 \in 0 .. n
    BY <1>n
  <2>q. QED
    BY <1>4, <2>1
<1> HIDE DEF h
<1>q. QED
  BY <1>n, <1>8, <1>9, <1>10 DEF n, g


\* What codec::prepare gives for a coded item, slice() and prepared() do.
Ready == PreparedNew(Collected(item.streams[1]), FALSE)
ReadyStreamed == PreparedNew(Scan(item.streams[1]), TRUE)

\* It is prepared.
Fit == item.kind = "coded" /\ Ready # Refused

\* The sets kept and the slices drawn of its first n NAL units.
KeptTo(n) ==
    [k \in ParameterKinds |->
        IF \E i \in 1 .. n : NalsAt(1)[i].kind = k THEN Ready.sets[k] ELSE << >>]
DrawnTo(n) ==
    IF \E i \in 1 .. n : NalsAt(1)[i].kind = "idr" THEN Ready.slices ELSE << >>

\* The eager path does not refuse such an item, and its sets are the same.
Proceeding ==
    /\ stage # "refused"
    /\ stage \in {"metadata", "units"} => next = 1
    /\ stage \in {"units", "sets", "slices"} =>
           \A i \in DOMAIN NalsAt(1) :
               IsSps(NalsAt(1)[i]) => metadata = Metadata(Sps[NalsAt(1)[i].content])
    /\ stage = "sets" =>
           next \in 1 .. Len(NalsAt(1)) + 1 /\ kept = KeptTo(next - 1)
    /\ stage = "slices" =>
           /\ next \in 1 .. Len(NalsAt(1)) + 1
           /\ kept = Ready.sets /\ drawn = DrawnTo(next - 1)
    /\ stage = "accepted" => kept = Ready.sets /\ drawn = Ready.slices

AgreeInv ==
    /\ item.kind = "coded" => tile = 1
    /\ prepared \in {Pending, Ready} /\ streamed \in {Pending, ReadyStreamed}
    /\ prepared # Pending => Decided /\ item.kind = "coded"
    /\ streamed # Pending => prepared # Pending
    /\ Fit => Proceeding

\* What a reader n that has refused nothing knows after the first m NAL units.
TakenOf(n, nals, m) ==
    /\ n.count = m
    /\ \A i \in 1 .. m :
           /\ nals[i].header = "base" /\ nals[i].kind \in ParameterKinds \cup {"idr", "aside"}
           /\ nals[i].kind \in ParameterKinds => n.sets[nals[i].kind] = <<nals[i]>>
    /\ \A k \in ParameterKinds : n.sets[k] = << >> \/ \E i \in 1 .. m : nals[i].kind = k
    /\ \/ n.slice = << >> /\ \A i \in 1 .. m : nals[i].kind # "idr"
       \/ \E i \in 1 .. m : /\ nals[i].kind = "idr" /\ n.slice = <<nals[i]>>
                            /\ \A j \in 1 .. m : nals[j].kind = "idr" => j = i

\* A NAL unit that is added is known as well.
LEMMA TakenStep ==
    ASSUME NEW n \in Readers, NEW nals \in Seq(NalUnit), NEW m \in Nat, m < Len(nals),
           NEW inPayload \in BOOLEAN, TakenOf(n, nals, m), Adds(n, nals[m + 1], inPayload)
    PROVE  /\ TakenOf(Added(n, nals[m + 1], inPayload), nals, m + 1)
           /\ ~inPayload /\ n.slice = << >> => Added(n, nals[m + 1], inPayload).slice = << >>
<1> DEFINE nal == nals[m + 1]
           new == Added(n, nal, inPayload)
<1>1. /\ n.count = m /\ n.sets \in [ParameterKinds -> Seq(NalUnit)]
      /\ nal.header = "base" /\ nal.kind \in ParameterKinds \cup {"idr", "aside"}
  BY DEF TakenOf, Readers, Adds
<1>2. /\ new.count = m + 1 /\ new.sets = WithSet(n.sets, nal)
      /\ new.slice = WithSlice(n.slice, nal)
  BY <1>1 DEF Added
<1>3. \A i \in 1 .. m + 1 : i \in 1 .. m \/ i = m + 1
  OBVIOUS
<1>4. 1 .. m \subseteq 1 .. m + 1 /\ m + 1 \in 1 .. m + 1 /\ m + 1 \notin 1 .. m
  OBVIOUS
<1>5. nal.kind \in ParameterKinds => n.sets[nal.kind] \in {<< >>, <<nal>>}
  BY DEF Adds, Conflicts, ParameterKinds
<1>6. /\ nal.kind \in ParameterKinds =>
             /\ new.sets[nal.kind] = <<nal>>
             /\ \A k \in ParameterKinds : k # nal.kind => new.sets[k] = n.sets[k]
      /\ nal.kind \notin ParameterKinds => new.sets = n.sets
  BY <1>1, <1>2 DEF WithSet
<1>7. nal.kind = "idr" => inPayload /\ n.slice = << >>
  BY DEF Adds, ParameterKinds
<1>8. /\ nal.kind = "idr" => new.slice = <<nal>>
      /\ nal.kind # "idr" => new.slice = n.slice
  BY <1>2 DEF WithSlice
<1> HIDE DEF new, nal
<1>9. \A i \in 1 .. m + 1 :
          /\ nals[i].header = "base" /\ nals[i].kind \in ParameterKinds \cup {"idr", "aside"}
          /\ nals[i].kind \in ParameterKinds => new.sets[nals[i].kind] = <<nals[i]>>
  <2> TAKE i \in 1 .. m + 1
  <2>1. CASE i = m + 1
    BY <1>1, <1>6, <2>1 DEF nal
  <2>2. CASE i \in 1 .. m
    <3>1. /\ nals[i].header = "base" /\ nals[i].kind \in ParameterKinds \cup {"idr", "aside"}
          /\ nals[i].kind \in ParameterKinds => n.sets[nals[i].kind] = <<nals[i]>>
      BY <2>2 DEF TakenOf
    <3>2. nals[i].kind \in ParameterKinds => new.sets[nals[i].kind] = <<nals[i]>>
      <4>1. CASE nals[i].kind = nal.kind /\ nal.kind \in ParameterKinds
        <5>1. <<nals[i]>> # << >> /\ n.sets[nal.kind] = <<nals[i]>>
          BY <3>1, <4>1
        <5>q. QED
          BY <1>5, <1>6, <4>1, <5>1
      <4>2. CASE nals[i].kind # nal.kind \/ nal.kind \notin ParameterKinds
        BY <1>6, <3>1, <4>2
      <4>q. QED
        BY <4>1, <4>2
    <3>q. QED
      BY <3>1, <3>2
  <2>q. QED
    BY <1>3, <2>1, <2>2
<1>10. \A k \in ParameterKinds : new.sets[k] = << >> \/ \E i \in 1 .. m + 1 : nals[i].kind = k
  <2> TAKE k \in ParameterKinds
  <2>1. CASE k = nal.kind
    BY <1>4, <2>1 DEF nal
  <2>2. CASE k # nal.kind
    <3>1. new.sets[k] = n.sets[k]
      BY <1>6, <2>2
    <3>2. n.sets[k] = << >> \/ \E i \in 1 .. m : nals[i].kind = k
      BY DEF TakenOf
    <3>q. QED
      BY <1>4, <3>1, <3>2
  <2>q. QED
    BY <2>1, <2>2
<1>11. \/ new.slice = << >> /\ \A i \in 1 .. m + 1 : nals[i].kind # "idr"
       \/ \E i \in 1 .. m + 1 : /\ nals[i].kind = "idr" /\ new.slice = <<nals[i]>>
                                /\ \A j \in 1 .. m + 1 : nals[j].kind = "idr" => j = i
  <2>1. CASE nal.kind = "idr"
    <3>1. \A i \in 1 .. m : nals[i].kind # "idr"
      <4>0. \A x : << >> # <<x>>
        OBVIOUS
      <4>1. \A i \in 1 .. m : n.slice # <<nals[i]>>
        BY <1>7, <2>1, <4>0
      <4>q. QED
        BY <4>1 DEF TakenOf
    <3>2. \A j \in 1 .. m + 1 : nals[j].kind = "idr" => j = m + 1
      BY <1>3, <3>1
    <3>q. QED
      BY <1>4, <1>8, <2>1, <3>2 DEF nal
  <2>2. CASE nal.kind # "idr"
    <3>1. CASE n.slice = << >> /\ \A i \in 1 .. m : nals[i].kind # "idr"
      BY <1>3, <1>8, <2>2, <3>1 DEF nal
    <3>2. CASE \E i \in 1 .. m : /\ nals[i].kind = "idr" /\ n.slice = <<nals[i]>>
                                 /\ \A j \in 1 .. m : nals[j].kind = "idr" => j = i
      <4>1. PICK i \in 1 .. m : /\ nals[i].kind = "idr" /\ n.slice = <<nals[i]>>
                                /\ \A j \in 1 .. m : nals[j].kind = "idr" => j = i
        BY <3>2
      <4>2. \A j \in 1 .. m + 1 : nals[j].kind = "idr" => j = i
        BY <1>3, <2>2, <4>1 DEF nal
      <4>q. QED
        BY <1>4, <1>8, <2>2, <4>1, <4>2
    <3>q. QED
      BY <3>1, <3>2 DEF TakenOf
  <2>q. QED
    BY <2>1, <2>2
<1>12. TakenOf(new, nals, m + 1)
  BY <1>2, <1>9, <1>10, <1>11 DEF TakenOf
<1>13. ~inPayload /\ n.slice = << >> => new.slice = << >>
  BY <1>7, <1>8
<1>q. QED
  BY <1>12, <1>13 DEF new, nal

\* The fields of a reader that has added one more.
LEMMA AddedFields ==
    ASSUME NEW n, NEW nal
    PROVE  /\ Added(n, nal, FALSE).ok = Adds(n, nal, FALSE)
           /\ Added(n, nal, TRUE).ok = Adds(n, nal, TRUE)
           /\ Added(n, nal, TRUE).sets = WithSet(n.sets, nal)
           /\ Added(n, nal, TRUE).slice = WithSlice(n.slice, nal)
           /\ Scanned(n, nal).ok = (Adds(n, nal, TRUE) /\ nal.kind \notin ParameterKinds)
           /\ Scanned(n, nal).slice = WithSlice(n.slice, nal)
  BY DEF Added, Scanned

\* What an item's configuration and payload, and the scan of the payload, give.
LEMMA StreamsTaken ==
    ASSUME NEW s, s.config \in Seq(NalUnit), s.payload \in Seq(NalUnit)
    PROVE  LET nals == s.config \o s.payload
               all == Collected(s)
               scan == Scan(s)
           IN  /\ all.ok => TakenOf(all, nals, Len(nals))
               /\ scan.ok /\ Len(nals) <= MaxNals =>
                      all.ok /\ all.sets = scan.sets /\ all.slice = scan.slice
<1> DEFINE config == s.config
           payload == s.payload
           nals == config \o payload
           c == Len(config)
           p == Len(payload)
<1>1. /\ config \in Seq(NalUnit) /\ payload \in Seq(NalUnit) /\ c \in Nat /\ p \in Nat
      /\ nals \in Seq(NalUnit) /\ Len(nals) = c + p
      /\ \A i \in 1 .. c : nals[i] = config[i]
      /\ \A i \in 1 .. p : nals[c + i] = payload[i]
  <2>1. /\ nals \in Seq(NalUnit) /\ Len(nals) = c + p
        /\ \A i \in 1 .. c + p : nals[i] = IF i <= c THEN config[i] ELSE payload[i - c]
    BY ConcatProperties
  <2>2. c \in Nat /\ p \in Nat
    BY LenProperties
  <2> HIDE DEF config, payload, nals, c, p
  <2>3. \A i \in 1 .. c : i \in 1 .. c + p /\ i <= c
    BY <2>2
  <2>4. \A i \in 1 .. p : c + i \in 1 .. c + p /\ ~(c + i <= c) /\ (c + i) - c = i
    BY <2>2
  <2>5. \A i \in 1 .. c : nals[i] = config[i]
    BY <2>1, <2>3
  <2>6. \A i \in 1 .. p : nals[c + i] = payload[i]
    BY <2>1, <2>4
  <2>q. QED
    BY <2>1, <2>2, <2>5, <2>6 DEF config, payload
<1>2. PICK h \in [0 .. c -> Readers] :
          /\ h[0] = NoNals
          /\ \A k \in 1 .. c : h[k] = Added(h[k - 1], config[k], FALSE)
          /\ Configuration(s) = h[c]
  <2>1. FALSE \in BOOLEAN /\ NoNals \in Readers
    BY NoNalsTyped
  <2>2. \E h \in [0 .. c -> Readers] :
            /\ h[0] = NoNals
            /\ \A k \in 1 .. c : h[k] = Added(h[k - 1], config[k], FALSE)
            /\ (CHOOSE g : IsTaking(g, NoNals, config, FALSE))[DOMAIN config] = h[c]
    BY <1>1, <2>1, TakingSteps
  <2>3. Configuration(s) = (CHOOSE g : IsTaking(g, NoNals, config, FALSE))[DOMAIN config]
    BY ConfigurationAsFunction
  <2> HIDE DEF config, c
  <2>q. QED
    BY <2>2, <2>3
<1>3. Configuration(s) \in Readers
  BY <1>1, <1>2
<1>4. PICK t \in [0 .. p -> Readers] :
          /\ t[0] = Configuration(s)
          /\ \A k \in 1 .. p : t[k] = Added(t[k - 1], payload[k], TRUE)
          /\ Collected(s) = t[p]
  BY <1>1, <1>3, TakingSteps, CollectedAsFunction
<1>5. PICK q \in [0 .. p -> Readers] :
          /\ q[0] = NoNals
          /\ \A k \in 1 .. p : q[k] = Scanned(q[k - 1], payload[k])
          /\ Scan(s) = [ok |-> Configuration(s).ok /\ q[p].ok,
                        count |-> Configuration(s).count + q[p].count,
                        sets |-> Configuration(s).sets, slice |-> q[p].slice]
  BY <1>1, NoNalsTyped, ScanningSteps, ScanAsFunction
<1> HIDE DEF config, payload, nals, c, p
<1> DEFINE Config == {k \in 0 .. c : h[k].ok => TakenOf(h[k], nals, k) /\ h[k].slice = << >>}
<1>6. 0 \in Config
  <2>1. TakenOf(NoNals, nals, 0) /\ NoNals.slice = << >>
    BY DEF TakenOf, NoNals, NoSets
  <2>q. QED
    BY <1>1, <1>2, <2>1
<1>7. ASSUME NEW k \in 0 .. c, k < c, k \in Config PROVE k + 1 \in Config
  <2>1. /\ k + 1 \in 1 .. c /\ (k + 1) - 1 = k /\ k \in Nat /\ k < Len(nals)
    BY <1>1, <1>7
  <2>2. h[k + 1] = Added(h[k], nals[k + 1], FALSE) /\ h[k] \in Readers
    BY <1>1, <1>2, <2>1
  <2>3. h[k + 1].ok => Adds(h[k], nals[k + 1], FALSE) /\ h[k].ok
    <3>1. h[k + 1].ok = Adds(h[k], nals[k + 1], FALSE)
      BY ONLY <2>2, AddedFields
    <3>2. Adds(h[k], nals[k + 1], FALSE) => h[k].ok
      BY DEF Adds
    <3>q. QED
      BY <3>1, <3>2
  <2>4. h[k + 1].ok => TakenOf(h[k + 1], nals, k + 1) /\ h[k + 1].slice = << >>
    <3> SUFFICES ASSUME h[k + 1].ok
                 PROVE  TakenOf(h[k + 1], nals, k + 1) /\ h[k + 1].slice = << >>
      OBVIOUS
    <3>1. /\ h[k] \in Readers /\ nals \in Seq(NalUnit) /\ k \in Nat /\ k < Len(nals)
          /\ FALSE \in BOOLEAN /\ Adds(h[k], nals[k + 1], FALSE)
      BY <1>1, <2>1, <2>2, <2>3
    <3>2. TakenOf(h[k], nals, k) /\ h[k].slice = << >>
      BY <1>7, <2>3
    <3> HIDE DEF Config
    <3>q. QED
      BY <2>2, <3>1, <3>2, TakenStep
  <2>q. QED
    BY <2>1, <2>4
<1>8. \A k \in 0 .. c : k \in Config
  <2> HIDE DEF Config
  <2>q. QED
    BY <1>1, <1>6, <1>7, Climb
<1>9. Configuration(s).ok =>
          TakenOf(Configuration(s), nals, c) /\ Configuration(s).slice = << >>
  BY <1>1, <1>2, <1>8
<1> DEFINE Payload == {k \in 0 .. p : t[k].ok => TakenOf(t[k], nals, c + k)}
<1>10. 0 \in Payload
  <2>1. c + 0 = c /\ 0 \in 0 .. p
    BY <1>1
  <2>q. QED
    BY <1>4, <1>9, <2>1
<1>11. ASSUME NEW k \in 0 .. p, k < p PROVE /\ k + 1 \in 1 .. p /\ (k + 1) - 1 = k
                                            /\ c + k \in Nat /\ c + k < Len(nals)
                                            /\ (c + k) + 1 = c + (k + 1)
  BY <1>1, <1>11
<1>12. ASSUME NEW k \in 0 .. p, k < p, k \in Payload PROVE k + 1 \in Payload
  <2>1. /\ t[k + 1] = Added(t[k], nals[c + (k + 1)], TRUE) /\ t[k] \in Readers
    BY <1>1, <1>4, <1>11, <1>12
  <2>2. t[k + 1].ok => Adds(t[k], nals[c + (k + 1)], TRUE) /\ t[k].ok
    <3>1. t[k + 1].ok = Adds(t[k], nals[c + (k + 1)], TRUE)
      BY ONLY <2>1, AddedFields
    <3>2. Adds(t[k], nals[c + (k + 1)], TRUE) => t[k].ok
      BY DEF Adds
    <3>q. QED
      BY <3>1, <3>2
  <2>3. t[k + 1].ok => TakenOf(t[k + 1], nals, c + (k + 1))
    <3> SUFFICES ASSUME t[k + 1].ok PROVE TakenOf(t[k + 1], nals, c + (k + 1))
      OBVIOUS
    <3>1. /\ t[k] \in Readers /\ nals \in Seq(NalUnit) /\ c + k \in Nat /\ c + k < Len(nals)
          /\ (c + k) + 1 = c + (k + 1)
          /\ TRUE \in BOOLEAN /\ Adds(t[k], nals[(c + k) + 1], TRUE)
      BY <1>1, <1>11, <1>12, <2>1, <2>2
    <3>2. TakenOf(t[k], nals, c + k)
      BY <1>12, <2>2
    <3> HIDE DEF Payload
    <3>3. TakenOf(Added(t[k], nals[(c + k) + 1], TRUE), nals, (c + k) + 1)
      BY <3>1, <3>2, TakenStep
    <3>q. QED
      BY <2>1, <3>1, <3>3
  <2>q. QED
    BY <1>11, <1>12, <2>3
<1>13. \A k \in 0 .. p : k \in Payload
  <2> HIDE DEF Payload
  <2>q. QED
    BY <1>1, <1>10, <1>12, Climb
<1>14. Collected(s).ok => TakenOf(Collected(s), nals, Len(nals))
  BY <1>1, <1>4, <1>13
<1> DEFINE Alike == {k \in 0 .. p : Configuration(s).ok /\ q[k].ok /\ c + k <= MaxNals =>
                        /\ t[k].ok /\ t[k].sets = Configuration(s).sets
                        /\ t[k].slice = q[k].slice}
<1>15. 0 \in Alike
  <2>1. NoNals.slice = << >>
    BY DEF NoNals
  <2>q. QED
    BY <1>1, <1>4, <1>5, <1>9, <2>1
<1>16. ASSUME NEW k \in 0 .. p, k < p, k \in Alike PROVE k + 1 \in Alike
  <2> DEFINE nal == payload[k + 1]
  <2>1. /\ t[k + 1] = Added(t[k], nal, TRUE) /\ t[k] \in Readers
        /\ q[k + 1] = Scanned(q[k], nal) /\ q[k] \in Readers
    BY <1>4, <1>5, <1>11, <1>16
  <2> HIDE DEF nal
  <2>2. SUFFICES ASSUME Configuration(s).ok, q[k + 1].ok, c + (k + 1) <= MaxNals
                 PROVE  /\ t[k + 1].ok /\ t[k + 1].sets = Configuration(s).sets
                        /\ t[k + 1].slice = q[k + 1].slice
    BY <1>11, <1>16
  <2>3. Adds(q[k], nal, TRUE) /\ nal.kind \notin ParameterKinds
    BY <2>1, <2>2, AddedFields
  <2>4. c + k <= MaxNals /\ c + k < MaxNals /\ q[k].ok
    <3>1. q[k].ok
      BY <2>3 DEF Adds
    <3>2. MaxNals \in Nat /\ k \in Nat
      BY LimitsAssumption
    <3>q. QED
      BY <1>1, <2>2, <3>1, <3>2
  <2>5. t[k].ok /\ t[k].sets = Configuration(s).sets /\ t[k].slice = q[k].slice
    BY <1>16, <2>2, <2>4
  <2>6. t[k].count = c + k
    BY <1>13, <2>5 DEF TakenOf
  <2>7. Adds(t[k], nal, TRUE)
    BY <2>3, <2>4, <2>5, <2>6 DEF Adds
  <2>8. /\ t[k + 1].ok = Adds(t[k], nal, TRUE) /\ t[k + 1].sets = WithSet(t[k].sets, nal)
        /\ t[k + 1].slice = WithSlice(t[k].slice, nal)
        /\ q[k + 1].slice = WithSlice(q[k].slice, nal)
    BY ONLY <2>1, AddedFields
  <2>9. WithSet(t[k].sets, nal) = t[k].sets
    BY <2>3 DEF WithSet
  <2>q. QED
    BY <2>5, <2>7, <2>8, <2>9
<1>17. \A k \in 0 .. p : k \in Alike
  <2> HIDE DEF Alike
  <2>q. QED
    BY <1>1, <1>15, <1>16, Climb
<1>18. Scan(s).ok /\ Len(nals) <= MaxNals =>
           /\ Collected(s).ok /\ Collected(s).sets = Scan(s).sets
           /\ Collected(s).slice = Scan(s).slice
  <2>1. p \in Alike
    BY <1>1, <1>17
  <2>2. /\ Scan(s).ok = (Configuration(s).ok /\ q[p].ok)
        /\ Scan(s).sets = Configuration(s).sets /\ Scan(s).slice = q[p].slice
    BY <1>5
  <2>q. QED
    BY <1>1, <1>4, <2>1, <2>2
<1>q. QED
  BY <1>14, <1>18 DEF nals, config, payload

\* What Prepared::new asks of the NAL units that are taken.
LEMMA PictureOf ==
    ASSUME NEW n, NEW incremental \in BOOLEAN, PreparedNew(n, incremental) # Refused
    PROVE  /\ n.ok /\ n.slice # << >> /\ \A k \in ParameterKinds : n.sets[k] # << >>
           /\ n.sets["vps"][1].content # "bad"
           /\ n.sets["sps"][1].content \in DOMAIN Sps
           /\ n.sets["pps"][1].content # "bad"
           /\ n.slice[1].content # "bad"
           /\ ~SpsUnfit(Sps[n.sets["sps"][1].content])
           /\ Metadata(Sps[n.sets["sps"][1].content]).w = item.w
           /\ Metadata(Sps[n.sets["sps"][1].content]).h = item.h
           /\ PreparedNew(n, incremental)
                 = [is |-> "picture",
                    sets |-> [k \in ParameterKinds |-> <<n.sets[k][1].content>>],
                    slices |-> <<n.slice[1].content>>]
<1>1. n.ok /\ << >> \notin {n.sets[k] : k \in ParameterKinds} \cup {n.slice}
  BY DEF PreparedNew
<1>2. n.slice # << >> /\ \A k \in ParameterKinds : n.sets[k] # << >>
  BY <1>1
<1>3. /\ n.sets["vps"][1].content \notin {"bad", "layers"}
      /\ n.sets["sps"][1].content \in DOMAIN Sps
      /\ n.sets["pps"][1].content # "bad"
      /\ n.slice[1].content # "bad"
  BY <1>1 DEF PreparedNew
<1> DEFINE s == Sps[n.sets["sps"][1].content]
<1>4. /\ ~SpsUnfit(s) /\ <<Metadata(s).w, Metadata(s).h>> = <<item.w, item.h>>
      /\ ~(incremental /\ n.sets["pps"][1].content = "wavefronts")
  BY <1>1, <1>3 DEF PreparedNew
<1>5. PreparedNew(n, incremental)
         = [is |-> "picture",
            sets |-> [k \in ParameterKinds |-> <<n.sets[k][1].content>>],
            slices |-> <<n.slice[1].content>>]
  BY <1>1, <1>3, <1>4 DEF PreparedNew
<1>q. QED
  BY <1>1, <1>2, <1>3, <1>4, <1>5

\* Of the incremental reader nothing less is asked.
LEMMA PictureAsWell ==
    ASSUME NEW n, NEW other, PreparedNew(n, TRUE) # Refused,
           other.ok, other.sets = n.sets, other.slice = n.slice
    PROVE  PreparedNew(other, FALSE) = PreparedNew(n, TRUE)
<1> DEFINE s == Sps[n.sets["sps"][1].content]
<1>1. /\ n.ok /\ << >> \notin {n.sets[k] : k \in ParameterKinds} \cup {n.slice}
  BY DEF PreparedNew
<1>2. /\ n.sets["vps"][1].content \notin {"bad", "layers"}
      /\ n.sets["sps"][1].content \in DOMAIN Sps
      /\ n.sets["pps"][1].content # "bad"
      /\ n.slice[1].content # "bad"
  BY <1>1 DEF PreparedNew
<1>3. ~SpsUnfit(s) /\ <<Metadata(s).w, Metadata(s).h>> = <<item.w, item.h>>
  BY <1>1, <1>2 DEF PreparedNew
<1>4. PreparedNew(n, TRUE) = [is |-> "picture",
                              sets |-> [k \in ParameterKinds |-> <<n.sets[k][1].content>>],
                              slices |-> <<n.slice[1].content>>]
  BY PictureOf
<1>5. PreparedNew(other, FALSE)
         = [is |-> "picture",
            sets |-> [k \in ParameterKinds |-> <<n.sets[k][1].content>>],
            slices |-> <<n.slice[1].content>>]
  BY <1>1, <1>2, <1>3 DEF PreparedNew
<1>q. QED
  BY <1>4, <1>5

\* The streams of an item in their NAL units.
LEMMA FirstStream ==
    ASSUME item \in Items, item.kind = "coded"
    PROVE  /\ 1 \in 1 .. Len(item.streams)
           /\ item.streams[1].config \in Seq(NalUnit) /\ item.streams[1].payload \in Seq(NalUnit)
<1>1. item.streams \in Seq([config : Seq(NalUnit), payload : Seq(NalUnit),
                            transforms : Seq(Transform)])
  BY DEF Items
<1>2. Len(item.streams) = 1
  BY ItemTyped
<1>3. item.streams[1] \in [config : Seq(NalUnit), payload : Seq(NalUnit),
                           transforms : Seq(Transform)]
  <2>1. 1 \in 1 .. Len(item.streams)
    BY <1>2
  <2>q. QED
    BY <1>1, <2>1, ElementOfSeq
<1>q. QED
  BY <1>2, <1>3

\* What is prepared of the scan is what is prepared of the item, or there are
\* too many NAL units.
LEMMA ScanAgrees ==
    ASSUME item \in Items, item.kind = "coded", ReadyStreamed # Refused
    PROVE  Ready = ReadyStreamed \/ Len(NalsAt(1)) > MaxNals
<1>1. item.streams[1].config \in Seq(NalUnit) /\ item.streams[1].payload \in Seq(NalUnit)
  BY FirstStream
<1>2. Len(NalsAt(1)) \in Nat /\ MaxNals \in Nat
  BY FirstStream, NalsTyped, LimitsAssumption
<1>3. Scan(item.streams[1]).ok
  BY PictureOf DEF ReadyStreamed
<1>4. SUFFICES ASSUME Len(NalsAt(1)) <= MaxNals PROVE Ready = ReadyStreamed
  BY <1>2
<1>5. /\ Collected(item.streams[1]).ok
      /\ Collected(item.streams[1]).sets = Scan(item.streams[1]).sets
      /\ Collected(item.streams[1]).slice = Scan(item.streams[1]).slice
  BY <1>1, <1>3, <1>4, StreamsTaken DEF NalsAt
<1>q. QED
  BY <1>5, PictureAsWell DEF Ready, ReadyStreamed

\* The NAL units of an item that codec::prepare takes.
LEMMA FitFacts ==
    ASSUME item \in Items, Fit
    PROVE  LET nals == NalsAt(1)
           IN  /\ Ready.is = "picture" /\ Ready.sets = [k \in ParameterKinds |-> Ready.sets[k]]
               /\ \A i \in DOMAIN nals :
                      /\ nals[i].header = "base"
                      /\ nals[i].kind \in ParameterKinds \cup {"idr", "aside"}
                      /\ nals[i].kind \in ParameterKinds =>
                             SetParses(nals[i]) /\ Ready.sets[nals[i].kind] = <<nals[i].content>>
                      /\ nals[i].kind = "sps" =>
                             /\ SpsParses(nals[i]) /\ ~SpsUnfit(Sps[nals[i].content])
                             /\ Metadata(Sps[nals[i].content]).w = item.w
                             /\ Metadata(Sps[nals[i].content]).h = item.h
                      /\ nals[i].kind = "idr" =>
                             nals[i].content # "bad" /\ Ready.slices = <<nals[i].content>>
               /\ \A k \in ParameterKinds : \E i \in DOMAIN nals : nals[i].kind = k
               /\ \E i \in DOMAIN nals : /\ nals[i].kind = "idr"
                                         /\ \A j \in DOMAIN nals : nals[j].kind = "idr" => j = i
<1> DEFINE nals == NalsAt(1)
           n == Collected(item.streams[1])
<1>1. /\ n.ok /\ n.slice # << >> /\ \A k \in ParameterKinds : n.sets[k] # << >>
      /\ n.sets["vps"][1].content # "bad"
      /\ n.sets["sps"][1].content \in DOMAIN Sps
      /\ n.sets["pps"][1].content # "bad"
      /\ n.slice[1].content # "bad"
      /\ ~SpsUnfit(Sps[n.sets["sps"][1].content])
      /\ Metadata(Sps[n.sets["sps"][1].content]).w = item.w
      /\ Metadata(Sps[n.sets["sps"][1].content]).h = item.h
      /\ Ready = [is |-> "picture",
                  sets |-> [k \in ParameterKinds |-> <<n.sets[k][1].content>>],
                  slices |-> <<n.slice[1].content>>]
  BY PictureOf DEF Fit, Ready
<1>2. nals = item.streams[1].config \o item.streams[1].payload /\ DOMAIN nals = 1 .. Len(nals)
  BY FirstStream, NalsTyped DEF Fit, NalsAt
<1>3. TakenOf(n, nals, Len(nals))
  BY <1>1, <1>2, FirstStream, StreamsTaken DEF Fit
<1> HIDE DEF nals, n
<1>4. /\ Ready.is = "picture" /\ Ready.sets = [k \in ParameterKinds |-> <<n.sets[k][1].content>>]
      /\ Ready.slices = <<n.slice[1].content>>
  BY <1>1
<1>5. Ready.sets = [k \in ParameterKinds |-> Ready.sets[k]]
  BY <1>4
<1>6. ASSUME NEW i \in DOMAIN nals
      PROVE  /\ nals[i].header = "base"
             /\ nals[i].kind \in ParameterKinds \cup {"idr", "aside"}
             /\ nals[i].kind \in ParameterKinds => n.sets[nals[i].kind] = <<nals[i]>>
  BY <1>2, <1>3, <1>6 DEF TakenOf
<1>7. ASSUME NEW i \in DOMAIN nals, nals[i].kind = "sps"
      PROVE  /\ SpsParses(nals[i]) /\ ~SpsUnfit(Sps[nals[i].content])
             /\ Metadata(Sps[nals[i].content]).w = item.w
             /\ Metadata(Sps[nals[i].content]).h = item.h
  <2>1. n.sets["sps"] = <<nals[i]>> /\ nals[i].header = "base"
    BY <1>6, <1>7 DEF ParameterKinds
  <2>2. n.sets["sps"][1].content = nals[i].content
    BY <2>1
  <2>q. QED
    BY <1>1, <2>1, <2>2 DEF SpsParses, HeaderParses
<1>8. ASSUME NEW i \in DOMAIN nals, nals[i].kind \in ParameterKinds
      PROVE  SetParses(nals[i]) /\ Ready.sets[nals[i].kind] = <<nals[i].content>>
  <2>1. n.sets[nals[i].kind] = <<nals[i]>>
    BY <1>6, <1>8
  <2>2. n.sets[nals[i].kind][1].content = nals[i].content
    BY <2>1
  <2>3. SetParses(nals[i])
    BY <1>1, <1>7, <1>8, <2>2 DEF SetParses, ParameterKinds
  <2>4. Ready.sets[nals[i].kind] = <<nals[i].content>>
    BY <1>4, <1>8, <2>2
  <2>q. QED
    BY <2>3, <2>4
<1>9. \A k \in ParameterKinds : \E i \in DOMAIN nals : nals[i].kind = k
  <2>1. \A k \in ParameterKinds : n.sets[k] = << >> \/ \E i \in 1 .. Len(nals) : nals[i].kind = k
    BY <1>3 DEF TakenOf
  <2>2. \A k \in ParameterKinds : n.sets[k] # << >>
    BY <1>1
  <2>q. QED
    BY ONLY <1>2, <2>1, <2>2
<1>10. PICK i \in DOMAIN nals : /\ nals[i].kind = "idr" /\ n.slice = <<nals[i]>>
                                /\ \A j \in DOMAIN nals : nals[j].kind = "idr" => j = i
  <2>1. n.slice # << >>
    BY <1>1
  <2>2. PICK i \in 1 .. Len(nals) : /\ nals[i].kind = "idr" /\ n.slice = <<nals[i]>>
                                    /\ \A j \in 1 .. Len(nals) : nals[j].kind = "idr" => j = i
    BY <1>3, <2>1 DEF TakenOf
  <2>3. i \in DOMAIN nals /\ \A j \in DOMAIN nals : nals[j].kind = "idr" => j = i
    BY <1>2, <2>2
  <2>q. QED
    BY <2>2, <2>3
<1>11. nals[i].content # "bad" /\ Ready.slices = <<nals[i].content>>
  <2>1. n.slice[1].content = nals[i].content
    BY <1>10
  <2>q. QED
    BY <1>1, <1>4, <2>1
<1>12. \A j \in DOMAIN nals : nals[j].kind = "idr" =>
           nals[j].content # "bad" /\ Ready.slices = <<nals[j].content>>
  BY <1>10, <1>11
<1>q. QED
  BY <1>4, <1>5, <1>6, <1>7, <1>8, <1>9, <1>10, <1>12 DEF nals

\* What is said of an item does not change while the item does not.
LEMMA ReadySame ==
    ASSUME item' = item
    PROVE  /\ Ready' = Ready /\ ReadyStreamed' = ReadyStreamed /\ Fit' = Fit
           /\ \A n : KeptTo(n)' = KeptTo(n) /\ DrawnTo(n)' = DrawnTo(n)
<1>1. \A n, b : PreparedNew(n, b)' = PreparedNew(n, b)
  BY DEF PreparedNew
<1>2. Ready' = Ready
  BY <1>1 DEF Ready
<1>3. ReadyStreamed' = ReadyStreamed
  BY <1>1 DEF ReadyStreamed
<1>4. \A n : KeptTo(n)' = KeptTo(n) /\ DrawnTo(n)' = DrawnTo(n)
  BY <1>2, ItemKept DEF KeptTo, DrawnTo
<1>q. QED
  BY <1>2, <1>3, <1>4 DEF Fit

\* While the eager path is under way the bounded readers have not begun.
LEMMA EagerAlone ==
    ASSUME AgreeInv, ~Decided, UNCHANGED otherVars,
           item.kind = "coded" => tile' = 1, Fit => Proceeding'
    PROVE  AgreeInv'
<1>1. prepared = Pending /\ streamed = Pending
  BY DEF AgreeInv
<1>2. item' = item /\ prepared' = Pending /\ streamed' = Pending /\ Pending' = Pending
  BY <1>1 DEF otherVars, Pending
<1>3. Fit' = Fit
  BY <1>2, ReadySame
<1>q. QED
  BY <1>2, <1>3 DEF AgreeInv

\* The NAL units of a coded item while it is decoded.
LEMMA CodedNals ==
    ASSUME ForeseenInv, AgreeInv, item.kind = "coded"
    PROVE  /\ item \in Items /\ tile = 1 /\ Nals = NalsAt(1) /\ Len(item.streams) = 1
           /\ Len(Nals) \in Nat /\ DOMAIN Nals = 1 .. Len(Nals)
           /\ \A i \in DOMAIN Nals : Nals[i] \in NalUnit
<1>1. item \in Items /\ tile = 1 /\ Nals = NalsAt(1)
  BY DEF ForeseenInv, AgreeInv, Nals, Stream, NalsAt
<1>2. Len(item.streams) = 1
  BY <1>1, ItemTyped
<1>q. QED
  BY <1>1, <1>2, FirstStream, NalsTyped

\* A set that Prepared::new takes can be shown.
LEMMA FitSps ==
    ASSUME NEW name \in DOMAIN Sps, ~SpsUnfit(Sps[name])
    PROVE  LET s == Sps[name]
           IN  /\ s.w \in Nat \ {0} /\ s.h \in Nat \ {0}
               /\ s.chroma = 1 /\ ~s.planes /\ s.luma = 8 /\ s.chromaDepth = 8 /\ ~s.tool
               /\ s.w \in 1 .. MaxExtent /\ s.h \in 1 .. MaxExtent /\ s.ctb \in 4 .. 6
               /\ CropX(s) \in Nat /\ CropY(s) \in Nat /\ CropX(s) < s.w /\ CropY(s) < s.h
               /\ Metadata(s) = [w |-> s.w - CropX(s), h |-> s.h - CropY(s), layout |-> 1,
                                 luma |-> 8, chroma |-> 8]
               /\ HasMetadata(s) /\ SpsBytes(s) \in Nat \ {0}
<1> DEFINE s == Sps[name]
<1>1. /\ s.w \in Nat /\ s.h \in Nat /\ CropX(s) \in Nat /\ CropY(s) \in Nat
  BY SetTyped
<1>2. /\ s.chroma = 1 /\ ~s.planes /\ s.luma = 8 /\ s.chromaDepth = 8 /\ ~s.tool
      /\ s.w \in 1 .. MaxExtent /\ s.h \in 1 .. MaxExtent /\ s.ctb \in 4 .. 6
      /\ CropX(s) < s.w /\ CropY(s) < s.h
  BY <1>1 DEF SpsUnfit
<1>3. s.w \in Nat \ {0} /\ s.h \in Nat \ {0}
  BY <1>1, <1>2
<1> HIDE DEF s
<1>4. /\ Greater(s.w - CropX(s), 0) = s.w - CropX(s) /\ s.w - CropX(s) > 0
      /\ Greater(s.h - CropY(s), 0) = s.h - CropY(s) /\ s.h - CropY(s) > 0
  BY <1>1, <1>2 DEF Greater
<1>5. Metadata(s) = [w |-> s.w - CropX(s), h |-> s.h - CropY(s), layout |-> 1,
                     luma |-> 8, chroma |-> 8]
  BY <1>2, <1>4 DEF Metadata
<1>6. HasMetadata(s)
  BY <1>4, <1>5 DEF HasMetadata
<1>7. SpsBytes(s) \in Nat \ {0}
  <2>1. WorkingBytes[s.chroma + 1] = 6
    BY <1>2 DEF WorkingBytes
  <2>2. \A a, b \in Nat \ {0} : a * b * 6 \in Nat \ {0}
    OBVIOUS
  <2>q. QED
    BY <1>3, <2>1, <2>2 DEF SpsBytes
<1>q. QED
  BY <1>1, <1>2, <1>3, <1>5, <1>6, <1>7 DEF s

\* The preflight begins.
LEMMA StartProceeds ==
    ASSUME ForeseenInv, AgreeInv, Start
    PROVE  (item.kind = "coded" => tile' = 1) /\ (Fit => Proceeding')
<1>1. SUFFICES ASSUME item.kind = "coded" PROVE tile' = 1 /\ Proceeding'
  BY DEF Fit
<1>2. stage' = "preflight" /\ tile' = tile
  BY <1>1 DEF Start, End
<1>q. QED
  BY <1>1, <1>2 DEF Proceeding, AgreeInv

\* The preflight refuses no set that Prepared::new takes, but for its size.
LEMMA WalkProceeds ==
    ASSUME ForeseenInv, AgreeInv, Walk
    PROVE  (item.kind = "coded" => tile' = 1) /\ (Fit => Proceeding')
<1>1. tile' = tile /\ next \in 1 .. Len(Nals) + 1 /\ next <= Len(Nals)
  BY DEF Walk, End, ForeseenInv, Preflighting, Nals, Stream, NalsAt
<1>2. SUFFICES ASSUME Fit PROVE Proceeding'
  BY <1>1 DEF AgreeInv
<1>3. item.kind = "coded" /\ item \in Items /\ Nals = NalsAt(1) /\ next \in DOMAIN Nals
  BY <1>1, <1>2, CodedNals DEF Fit
<1> DEFINE nal == Nals[next]
<1>4. IsSps(nal) => Verdict(nal) \in {"allowed", "limit"}
  <2> SUFFICES ASSUME IsSps(nal) PROVE Verdict(nal) \in {"allowed", "limit"}
    OBVIOUS
  <2>1. SpsParses(nal) /\ ~SpsUnfit(Sps[nal.content])
    BY <1>2, <1>3, FitFacts DEF IsSps
  <2>2. ~SpsRefused(Sps[nal.content])
    <3>1. nal.content \in DOMAIN Sps
      BY <2>1 DEF SpsParses
    <3>2. /\ Sps[nal.content].ctb \in 4 .. 6 /\ Sps[nal.content].chroma = 1
          /\ HasMetadata(Sps[nal.content])
      BY <2>1, <3>1, FitSps
    <3>q. QED
      BY <1>3, <3>2 DEF SpsRefused
  <2>q. QED
    BY <1>3, <2>1, <2>2 DEF Verdict
<1>5. stage' \in {"preflight", "limit"}
  BY <1>4 DEF Walk, End
<1>q. QED
  BY <1>5 DEF Proceeding

\* There is such a set, so something is foreseen.
LEMMA ForeseeProceeds ==
    ASSUME ForeseenInv, AgreeInv, Foresee
    PROVE  (item.kind = "coded" => tile' = 1) /\ (Fit => Proceeding')
<1>1. /\ next > Len(Nals) /\ next \in 1 .. Len(NalsAt(tile)) + 1 /\ largest \in Nat
      /\ WalkedTo(tile, next - 1, largest)
  BY DEF Foresee, ForeseenInv, Preflighting
<1>2. item.kind = "coded" => tile' = 1
  <2>1. item.kind = "coded" => tile = 1 /\ Len(item.streams) = 1
    BY CodedNals
  <2>2. item.kind = "coded" /\ stage' # "refused" /\ stage' # "limit" => tile' = 1
    BY <2>1 DEF Foresee, End
  <2>3. tile' = tile \/ tile' = 1 \/ tile # Len(item.streams)
    BY DEF Foresee, End
  <2>q. QED
    BY <2>1, <2>3
<1>3. SUFFICES ASSUME Fit PROVE Proceeding'
  BY <1>2
<1>4. /\ item.kind = "coded" /\ item \in Items /\ Nals = NalsAt(1) /\ tile = 1
      /\ Len(Nals) \in Nat /\ DOMAIN Nals = 1 .. Len(Nals) /\ Len(item.streams) = 1
  BY <1>3, CodedNals DEF Fit
<1>5. largest # 0
  <2>1. PICK i \in DOMAIN Nals : Nals[i].kind = "sps"
    BY <1>3, <1>4, FitFacts DEF ParameterKinds
  <2>2. /\ Nals[i].header = "base" /\ SpsParses(Nals[i]) /\ ~SpsUnfit(Sps[Nals[i].content])
    BY <1>3, <1>4, <2>1, FitFacts
  <2>3. IsSps(Nals[i]) /\ SpsBytes(Sps[Nals[i].content]) \in Nat \ {0}
    BY <2>1, <2>2, FitSps DEF IsSps, HasType, SpsParses
  <2>4. i \in 1 .. next - 1
    BY <1>1, <1>4
  <2>5. SpsBytes(Sps[Nals[i].content]) <= largest
    BY <1>1, <1>4, <2>3, <2>4 DEF WalkedTo
  <2>q. QED
    BY <1>1, <2>3, <2>5
<1>6. stage' \in {"limit", "assemble"}
  BY <1>4, <1>5 DEF Foresee, End
<1>q. QED
  BY <1>6 DEF Proceeding

\* Nothing is refused while the stream is assembled.
LEMMA AssembleProceeds ==
    ASSUME ForeseenInv, AgreeInv, Assemble
    PROVE  (item.kind = "coded" => tile' = 1) /\ (Fit => Proceeding')
<1>1. tile' = tile /\ stage' \in {"assemble", "metadata"} /\ (stage' = "metadata" => next' = 1)
  BY DEF Assemble
<1>q. QED
  BY <1>1 DEF AgreeInv, Proceeding

\* The metadata are those of the item.
LEMMA ReadMetadataProceeds ==
    ASSUME ForeseenInv, AgreeInv, ReadMetadata
    PROVE  (item.kind = "coded" => tile' = 1) /\ (Fit => Proceeding')
<1>1. tile' = tile
  BY DEF ReadMetadata, End
<1>2. SUFFICES ASSUME Fit PROVE Proceeding'
  BY <1>1 DEF AgreeInv
<1>3. /\ item.kind = "coded" /\ item \in Items /\ Nals = NalsAt(1)
      /\ Len(Nals) \in Nat /\ DOMAIN Nals = 1 .. Len(Nals)
      /\ next = 1 /\ stage = "metadata" /\ item' = item
  BY <1>2, CodedNals DEF Fit, AgreeInv, Proceeding, ReadMetadata, otherVars
<1> DEFINE S == {i \in DOMAIN Nals : IsSps(Nals[i])}
           first == Nals[Min(S)]
           found == Metadata(Sps[first.content])
<1>4. Min(S) \in S
  <2>1. PICK i \in DOMAIN Nals : Nals[i].kind = "sps"
    BY <1>2, <1>3, FitFacts DEF ParameterKinds
  <2>2. Nals[i].header = "base"
    BY <1>2, <1>3, FitFacts
  <2>3. S # {}
    BY <2>1, <2>2 DEF IsSps, HasType
  <2>4. S \in SUBSET Nat
    BY <1>3
  <2> HIDE DEF S
  <2>q. QED
    BY <2>3, <2>4, LeastOfNaturals
<1>5. ASSUME NEW i \in DOMAIN Nals, IsSps(Nals[i])
      PROVE  /\ Ready.sets["sps"] = <<Nals[i].content>>
             /\ Metadata(Sps[Nals[i].content]).w = item.w
             /\ Metadata(Sps[Nals[i].content]).h = item.h
  <2>1. Nals[i].kind = "sps" /\ "sps" \in ParameterKinds
    BY <1>5 DEF IsSps, ParameterKinds
  <2>2. /\ Nals[i].kind \in ParameterKinds => Ready.sets[Nals[i].kind] = <<Nals[i].content>>
        /\ Metadata(Sps[Nals[i].content]).w = item.w
        /\ Metadata(Sps[Nals[i].content]).h = item.h
    BY <1>2, <1>3, <2>1, FitFacts
  <2>q. QED
    BY <2>1, <2>2
<1>6. /\ Ready.sets["sps"] = <<first.content>> /\ found.w = item.w /\ found.h = item.h
  BY <1>4, <1>5
<1>7. /\ stage' = "units" /\ metadata' = found /\ next' = next
  <2> HIDE DEF found
  <2>1. ~(item.kind = "coded" /\ <<found.w, found.h>> # <<item.w, item.h>>)
    BY <1>6
  <2>q. QED
    BY <2>1 DEF ReadMetadata, found
<1>8. ASSUME NEW i \in DOMAIN Nals, IsSps(Nals[i])
      PROVE  metadata' = Metadata(Sps[Nals[i].content])
  <2>1. <<Nals[i].content>> = <<first.content>>
    BY <1>5, <1>6, <1>8
  <2>2. Nals[i].content = first.content
    BY <2>1
  <2>q. QED
    BY <1>7, <2>2
<1>9. NalsAt(1)' = Nals /\ \A nal : IsSps(nal)' = IsSps(nal)
  BY <1>3, ItemKept
<1>q. QED
  BY <1>3, <1>7, <1>8, <1>9 DEF Proceeding

\* There is a slice, and no set has been kept yet.
LEMMA ParseUnitsProceeds ==
    ASSUME ForeseenInv, AgreeInv, ParseUnits
    PROVE  (item.kind = "coded" => tile' = 1) /\ (Fit => Proceeding')
<1>1. tile' = tile /\ kept' = kept
  BY DEF ParseUnits, End
<1>2. SUFFICES ASSUME Fit PROVE Proceeding'
  BY <1>1 DEF AgreeInv
<1>3. /\ item.kind = "coded" /\ item \in Items /\ Nals = NalsAt(1)
      /\ Len(Nals) \in Nat /\ next = 1 /\ kept = NoSets /\ stage = "units" /\ item' = item
      /\ \A i \in DOMAIN NalsAt(1) :
             IsSps(NalsAt(1)[i]) => metadata = Metadata(Sps[NalsAt(1)[i].content])
  BY <1>2, CodedNals DEF Fit, AgreeInv, Proceeding, ParseUnits, ForeseenInv, otherVars
<1>4. \E i \in DOMAIN Nals : HasType(Nals[i]) /\ Nals[i].kind \in VclKinds
  <2>1. PICK i \in DOMAIN Nals : Nals[i].kind = "idr"
    BY <1>2, <1>3, FitFacts
  <2>2. Nals[i].header = "base"
    BY <1>2, <1>3, FitFacts
  <2>q. QED
    BY <2>1, <2>2 DEF HasType, VclKinds, SliceKinds
<1>5. stage' = "sets" /\ UNCHANGED <<next, metadata>>
  BY <1>4 DEF ParseUnits, End
<1>6. kept' = KeptTo(0)
  BY <1>1, <1>3 DEF KeptTo, NoSets
<1>7. KeptTo(0)' = KeptTo(0) /\ NalsAt(1)' = NalsAt(1)
  BY <1>3, ReadySame, ItemKept
<1>8. next' \in 1 .. Len(NalsAt(1)) + 1 /\ next' - 1 = 0
  BY <1>3, <1>5
<1>q. QED
  BY <1>3, <1>5, <1>6, <1>7, <1>8 DEF Proceeding

\* The sets that are kept are those that are prepared.
LEMMA KeepSetProceeds ==
    ASSUME ForeseenInv, AgreeInv, KeepSet
    PROVE  (item.kind = "coded" => tile' = 1) /\ (Fit => Proceeding')
<1>1. tile' = tile /\ metadata' = metadata
  BY DEF KeepSet
<1>2. SUFFICES ASSUME Fit PROVE Proceeding'
  BY <1>1 DEF AgreeInv
<1>3. /\ item.kind = "coded" /\ item \in Items /\ Nals = NalsAt(1)
      /\ Len(Nals) \in Nat /\ DOMAIN Nals = 1 .. Len(Nals)
      /\ next \in 1 .. Len(Nals) + 1 /\ next <= Len(Nals) /\ stage = "sets" /\ item' = item
      /\ kept = KeptTo(next - 1)
      /\ \A i \in DOMAIN NalsAt(1) :
             IsSps(NalsAt(1)[i]) => metadata = Metadata(Sps[NalsAt(1)[i].content])
  BY <1>2, CodedNals DEF Fit, AgreeInv, Proceeding, KeepSet, otherVars
<1> DEFINE nal == Nals[next]
<1>4. next \in DOMAIN Nals /\ next \in Nat /\ next + 1 \in 1 .. Len(Nals) + 1 /\ (next + 1) - 1 = next
  BY <1>3
<1>5. /\ nal.header = "base"
      /\ nal.kind \in ParameterKinds =>
             SetParses(nal) /\ Ready.sets[nal.kind] = <<nal.content>>
  BY <1>2, <1>3, <1>4, FitFacts
<1>6. next \in Units
  BY <1>4, <1>5 DEF Units, HeaderParses
<1>7. \A i \in 1 .. next : i \in 1 .. next - 1 \/ i = next
  BY <1>4
<1>8. 1 .. next - 1 \subseteq 1 .. next /\ next \in 1 .. next
  BY <1>3
<1>9. stage' = stage /\ next' = next + 1 /\ kept' = KeptTo(next)
  <2>1. CASE nal.kind \notin ParameterKinds
    <3>1. stage' = stage /\ next' = next + 1 /\ kept' = kept
      BY <1>3, <2>1 DEF KeepSet
    <3>2. \A k \in ParameterKinds : (\E i \in 1 .. next : NalsAt(1)[i].kind = k)
                                        <=> (\E i \in 1 .. next - 1 : NalsAt(1)[i].kind = k)
      BY <1>3, <1>7, <1>8, <2>1
    <3>3. KeptTo(next) = KeptTo(next - 1)
      BY <3>2 DEF KeptTo
    <3>q. QED
      BY <1>3, <3>1, <3>3
  <2>2. CASE nal.kind \in ParameterKinds
    <3>1. /\ stage' = stage /\ next' = next + 1
          /\ kept' = [kept EXCEPT ![nal.kind] = <<nal.content>>]
      BY <1>3, <1>5, <1>6, <2>2 DEF KeepSet
    <3>2. \A k \in ParameterKinds : k # nal.kind =>
              ((\E i \in 1 .. next : NalsAt(1)[i].kind = k)
                   <=> (\E i \in 1 .. next - 1 : NalsAt(1)[i].kind = k))
      BY <1>3, <1>7, <1>8
    <3>3. \A k \in ParameterKinds : k # nal.kind => KeptTo(next)[k] = KeptTo(next - 1)[k]
      BY <3>2 DEF KeptTo
    <3>4. KeptTo(next)[nal.kind] = <<nal.content>>
      BY <1>3, <1>5, <1>8, <2>2 DEF KeptTo
    <3>5. /\ KeptTo(next) = [k \in ParameterKinds |-> KeptTo(next)[k]]
          /\ DOMAIN KeptTo(next - 1) = ParameterKinds
          /\ KeptTo(next - 1) = [k \in ParameterKinds |-> KeptTo(next - 1)[k]]
      BY DEF KeptTo
    <3>6. /\ kept' = [k \in ParameterKinds |-> IF k = nal.kind THEN <<nal.content>> ELSE kept[k]]
      BY <1>3, <2>2, <3>1, <3>5
    <3>7. \A k \in ParameterKinds :
              (IF k = nal.kind THEN <<nal.content>> ELSE kept[k]) = KeptTo(next)[k]
      BY <1>3, <3>3, <3>4
    <3>8. kept' = [k \in ParameterKinds |-> KeptTo(next)[k]]
      BY <3>6, <3>7
    <3>q. QED
      BY <3>1, <3>5, <3>8
  <2>q. QED
    BY <2>1, <2>2
<1>10. NalsAt(1)' = NalsAt(1) /\ \A n : KeptTo(n)' = KeptTo(n)
  BY <1>3, ReadySame, ItemKept
<1>q. QED
  BY <1>1, <1>3, <1>4, <1>9, <1>10 DEF Proceeding

\* The picture can be decoded.
LEMMA StartPictureProceeds ==
    ASSUME ForeseenInv, AgreeInv, StartPicture
    PROVE  (item.kind = "coded" => tile' = 1) /\ (Fit => Proceeding')
<1>1. tile' = tile
  BY DEF StartPicture, End
<1>2. SUFFICES ASSUME Fit PROVE Proceeding'
  BY <1>1 DEF AgreeInv
<1>3. /\ item.kind = "coded" /\ item \in Items /\ Nals = NalsAt(1)
      /\ Len(Nals) \in Nat /\ DOMAIN Nals = 1 .. Len(Nals)
      /\ next \in 1 .. Len(Nals) + 1 /\ next > Len(Nals) /\ item' = item
      /\ kept = KeptTo(next - 1)
      /\ \A i \in DOMAIN NalsAt(1) :
             IsSps(NalsAt(1)[i]) => metadata = Metadata(Sps[NalsAt(1)[i].content])
  BY <1>2, CodedNals DEF Fit, AgreeInv, Proceeding, StartPicture, otherVars
<1>4. next - 1 = Len(Nals)
  BY <1>3
<1>5. kept = Ready.sets
  <2>1. \A k \in ParameterKinds : \E i \in 1 .. next - 1 : NalsAt(1)[i].kind = k
    BY <1>2, <1>3, <1>4, FitFacts
  <2>2. KeptTo(next - 1) = [k \in ParameterKinds |-> Ready.sets[k]]
    BY <2>1 DEF KeptTo
  <2>3. Ready.sets = [k \in ParameterKinds |-> Ready.sets[k]]
    BY <1>2, <1>3, FitFacts
  <2>q. QED
    BY <1>3, <2>2, <2>3
<1>6. PICK i \in DOMAIN Nals : Nals[i].kind = "sps"
  BY <1>2, <1>3, FitFacts DEF ParameterKinds
<1>7. /\ kept["sps"] = <<Nals[i].content>> /\ Nals[i].content \in DOMAIN Sps
      /\ ~SpsUnfit(Sps[Nals[i].content])
  <2>1. "sps" \in ParameterKinds
    BY DEF ParameterKinds
  <2>2. /\ Nals[i].kind \in ParameterKinds => Ready.sets[Nals[i].kind] = <<Nals[i].content>>
        /\ SpsParses(Nals[i]) /\ ~SpsUnfit(Sps[Nals[i].content])
    BY <1>2, <1>3, <1>6, FitFacts
  <2>q. QED
    BY <1>5, <1>6, <2>1, <2>2 DEF SpsParses
<1>8. KeptSps = Sps[Nals[i].content] /\ kept["sps"] # << >>
  BY <1>7 DEF KeptSps
<1>9. kept["pps"] # << >>
  <2>1. PICK j \in DOMAIN Nals : Nals[j].kind = "pps"
    BY <1>2, <1>3, FitFacts DEF ParameterKinds
  <2>2. Nals[j].kind \in ParameterKinds => Ready.sets[Nals[j].kind] = <<Nals[j].content>>
    BY <1>2, <1>3, FitFacts
  <2>3. Ready.sets["pps"] = <<Nals[j].content>>
    BY <2>1, <2>2 DEF ParameterKinds
  <2>q. QED
    BY <1>5, <2>3
<1>10. Slices # {}
  <2>1. PICK j \in DOMAIN Nals : Nals[j].kind = "idr"
    BY <1>2, <1>3, FitFacts
  <2>2. Nals[j].header = "base"
    BY <1>2, <1>3, FitFacts
  <2>3. j \in Slices
    BY <2>1, <2>2 DEF Slices, Units, HeaderParses, IsBaseSlice, SliceKinds
  <2>q. QED
    BY <2>3
<1>11. ~CannotDecode(KeptSps)
  <2>1. LET s == KeptSps
        IN  /\ ~s.tool /\ s.luma = s.chromaDepth
            /\ s.w \in 1 .. MaxExtent /\ s.h \in 1 .. MaxExtent
            /\ s.w \in Nat /\ s.h \in Nat /\ CropX(s) \in Nat /\ CropY(s) \in Nat
            /\ CropX(s) < s.w /\ CropY(s) < s.h
    BY <1>7, <1>8, FitSps
  <2>2. ~(CropX(KeptSps) >= KeptSps.w) /\ ~(CropY(KeptSps) >= KeptSps.h)
    BY <2>1
  <2>q. QED
    BY <1>10, <2>1, <2>2 DEF CannotDecode
<1>12. /\ stage' = "slices" /\ next' = 1 /\ drawn' = << >> /\ kept' = kept /\ metadata' = metadata
  BY <1>8, <1>9, <1>11 DEF StartPicture
<1>13. drawn' = DrawnTo(0)
  BY <1>12 DEF DrawnTo
<1>14. Ready' = Ready /\ NalsAt(1)' = NalsAt(1) /\ \A n : DrawnTo(n)' = DrawnTo(n)
  BY <1>3, ReadySame, ItemKept
<1>15. next' \in 1 .. Len(NalsAt(1)) + 1 /\ next' - 1 = 0
  BY <1>3, <1>12
<1>q. QED
  BY <1>3, <1>5, <1>12, <1>13, <1>14, <1>15 DEF Proceeding

\* One slice is drawn.
LEMMA DrawSliceProceeds ==
    ASSUME ForeseenInv, AgreeInv, DrawSlice
    PROVE  (item.kind = "coded" => tile' = 1) /\ (Fit => Proceeding')
<1>1. tile' = tile /\ metadata' = metadata /\ kept' = kept
  BY DEF DrawSlice, End
<1>2. SUFFICES ASSUME Fit PROVE Proceeding'
  BY <1>1 DEF AgreeInv
<1>3. /\ item.kind = "coded" /\ item \in Items /\ Nals = NalsAt(1)
      /\ Len(Nals) \in Nat /\ DOMAIN Nals = 1 .. Len(Nals)
      /\ next \in 1 .. Len(Nals) + 1 /\ next <= Len(Nals) /\ stage = "slices" /\ item' = item
      /\ kept = Ready.sets /\ drawn = DrawnTo(next - 1)
      /\ \A i \in DOMAIN NalsAt(1) :
             IsSps(NalsAt(1)[i]) => metadata = Metadata(Sps[NalsAt(1)[i].content])
  BY <1>2, CodedNals DEF Fit, AgreeInv, Proceeding, DrawSlice, otherVars
<1> DEFINE nal == Nals[next]
<1>4. next \in DOMAIN Nals /\ next + 1 \in 1 .. Len(Nals) + 1 /\ (next + 1) - 1 = next
  BY <1>3
<1>5. /\ nal.header = "base" /\ nal.kind \in ParameterKinds \cup {"idr", "aside"}
      /\ nal.kind = "idr" => nal.content # "bad" /\ Ready.slices = <<nal.content>>
  BY <1>2, <1>3, <1>4, FitFacts
<1>6. next \in Slices <=> nal.kind = "idr"
  BY <1>4, <1>5 DEF Slices, Units, HeaderParses, IsBaseSlice, SliceKinds, ParameterKinds
<1>7. \A i \in 1 .. next : i \in 1 .. next - 1 \/ i = next
  BY <1>3
<1>8. 1 .. next - 1 \subseteq 1 .. next /\ next \in 1 .. next /\ next \notin 1 .. next - 1
      /\ 1 .. next \subseteq DOMAIN Nals
  BY <1>3
<1>9. stage' = stage /\ next' = next + 1 /\ drawn' = DrawnTo(next)
  <2>1. CASE nal.kind = "idr"
    <3>1. stage' = stage /\ next' = next + 1 /\ drawn' = Append(drawn, nal.content)
      BY <1>5, <1>6, <2>1 DEF DrawSlice
    <3>2. PICK i \in DOMAIN Nals : \A j \in DOMAIN Nals : Nals[j].kind = "idr" => j = i
      BY <1>2, <1>3, FitFacts
    <3>3. \A j \in 1 .. next - 1 : NalsAt(1)[j].kind # "idr"
      BY <1>3, <1>4, <1>8, <2>1, <3>2
    <3>4. drawn = << >>
      BY <1>3, <3>3 DEF DrawnTo
    <3>5. DrawnTo(next) = <<nal.content>>
      BY <1>3, <1>5, <1>8, <2>1 DEF DrawnTo
    <3>q. QED
      BY <3>1, <3>4, <3>5
  <2>2. CASE nal.kind # "idr"
    <3>1. stage' = stage /\ next' = next + 1 /\ drawn' = drawn
      BY <1>6, <2>2 DEF DrawSlice
    <3>2. (\E i \in 1 .. next : NalsAt(1)[i].kind = "idr")
              <=> (\E i \in 1 .. next - 1 : NalsAt(1)[i].kind = "idr")
      BY <1>3, <1>7, <1>8, <2>2
    <3>3. DrawnTo(next) = DrawnTo(next - 1)
      BY <3>2 DEF DrawnTo
    <3>q. QED
      BY <1>3, <3>1, <3>3
  <2>q. QED
    BY <2>1, <2>2
<1>10. Ready' = Ready /\ NalsAt(1)' = NalsAt(1) /\ \A n : DrawnTo(n)' = DrawnTo(n)
  BY <1>3, ReadySame, ItemKept
<1>q. QED
  BY <1>1, <1>3, <1>4, <1>9, <1>10 DEF Proceeding

\* The picture is as the metadata say.
LEMMA TakeImageProceeds ==
    ASSUME ForeseenInv, AgreeInv, TakeImage
    PROVE  (item.kind = "coded" => tile' = 1) /\ (Fit => Proceeding')
<1>1. item.kind = "coded" => tile' = tile /\ kept' = kept /\ drawn' = drawn
  BY DEF TakeImage, End
<1>2. SUFFICES ASSUME Fit PROVE Proceeding'
  BY <1>1 DEF AgreeInv
<1>3. /\ item.kind = "coded" /\ item \in Items /\ Nals = NalsAt(1)
      /\ Len(Nals) \in Nat /\ DOMAIN Nals = 1 .. Len(Nals)
      /\ next \in 1 .. Len(Nals) + 1 /\ next > Len(Nals) /\ item' = item
      /\ kept = Ready.sets /\ drawn = DrawnTo(next - 1)
      /\ \A i \in DOMAIN NalsAt(1) :
             IsSps(NalsAt(1)[i]) => metadata = Metadata(Sps[NalsAt(1)[i].content])
  BY <1>2, CodedNals DEF Fit, AgreeInv, Proceeding, TakeImage, otherVars
<1>4. next - 1 = Len(Nals)
  BY <1>3
<1>5. drawn = Ready.slices
  <2>1. \E i \in 1 .. next - 1 : NalsAt(1)[i].kind = "idr"
    BY <1>2, <1>3, <1>4, FitFacts
  <2>q. QED
    BY <1>3, <2>1 DEF DrawnTo
<1>6. PICK i \in DOMAIN Nals : Nals[i].kind = "sps"
  BY <1>2, <1>3, FitFacts DEF ParameterKinds
<1>7. /\ kept["sps"] = <<Nals[i].content>> /\ SpsParses(Nals[i])
      /\ ~SpsUnfit(Sps[Nals[i].content]) /\ IsSps(Nals[i])
  <2>1. "sps" \in ParameterKinds
    BY DEF ParameterKinds
  <2>2. /\ Nals[i].kind \in ParameterKinds => Ready.sets[Nals[i].kind] = <<Nals[i].content>>
        /\ SpsParses(Nals[i]) /\ ~SpsUnfit(Sps[Nals[i].content]) /\ Nals[i].header = "base"
    BY <1>2, <1>3, <1>6, FitFacts
  <2>q. QED
    BY <1>3, <1>6, <2>1, <2>2 DEF IsSps, HasType
<1>8. KeptSps = Sps[Nals[i].content] /\ metadata = Metadata(KeptSps)
  <2>1. KeptSps = Sps[Nals[i].content]
    BY <1>7 DEF KeptSps
  <2>q. QED
    BY <1>3, <1>7, <2>1
<1>9. Image = metadata
  <2>1. /\ KeptSps.chroma = 1 /\ KeptSps.luma = 8
        /\ Metadata(KeptSps) = [w |-> KeptSps.w - CropX(KeptSps), h |-> KeptSps.h - CropY(KeptSps),
                                layout |-> 1, luma |-> 8, chroma |-> 8]
    BY <1>7, <1>8, FitSps DEF SpsParses
  <2>q. QED
    BY <1>8, <2>1 DEF Image
<1>10. stage' \in {"limit", "accepted"}
  BY <1>3, <1>9 DEF TakeImage, End
<1>11. Ready' = Ready
  BY <1>3, ReadySame
<1>q. QED
  BY <1>1, <1>3, <1>5, <1>10, <1>11 DEF Proceeding

\* The bounded readers leave the eager path alone, and come after it.
LEMMA PrepareAgrees ==
    ASSUME ForeseenInv, AgreeInv, Prepare \/ PrepareStreamed
    PROVE  AgreeInv'
<1>1. /\ item.kind = "coded" /\ Decided /\ item' = item
      /\ UNCHANGED <<stage, tile, next, metadata, kept, drawn>>
  BY DEF Prepare, PrepareStreamed, eagerVars
<1>2. Stream = item.streams[1]
  BY <1>1 DEF AgreeInv, Stream
<1>3. /\ Ready' = Ready /\ ReadyStreamed' = ReadyStreamed /\ Fit' = Fit
      /\ NalsAt(1)' = NalsAt(1) /\ \A n : KeptTo(n)' = KeptTo(n) /\ DrawnTo(n)' = DrawnTo(n)
  BY <1>1, ReadySame, ItemKept
<1>4. Proceeding' = Proceeding
  BY <1>1, <1>3 DEF Proceeding
<1>5. Decided' /\ Pending' = Pending
  BY <1>1 DEF Decided, Pending
<1>6. CASE Prepare
  <2>1. prepared' = Ready /\ streamed' = streamed /\ prepared = Pending
    BY <1>2, <1>6 DEF Prepare, Ready
  <2>2. streamed = Pending
    BY <2>1 DEF AgreeInv
  <2>q. QED
    BY <1>1, <1>3, <1>4, <1>5, <2>1, <2>2 DEF AgreeInv
<1>7. CASE PrepareStreamed
  <2>1. streamed' = ReadyStreamed /\ prepared' = prepared /\ prepared # Pending
    BY <1>2, <1>7 DEF PrepareStreamed, ReadyStreamed
  <2>q. QED
    BY <1>1, <1>3, <1>4, <1>5, <2>1 DEF AgreeInv
<1>q. QED
  BY <1>6, <1>7

\* Every step keeps the invariant.
LEMMA AgreeStep ==
    ASSUME ForeseenInv, AgreeInv, [CodedNext]_codedVars
    PROVE  AgreeInv'
<1>1. CASE EagerNext
  <2>1. ~Decided /\ UNCHANGED otherVars
    BY <1>1 DEF EagerNext, Start, Walk, Foresee, Assemble, ReadMetadata, ParseUnits, KeepSet,
                StartPicture, DrawSlice, TakeImage, Decided
  <2>2. (item.kind = "coded" => tile' = 1) /\ (Fit => Proceeding')
    BY <1>1, StartProceeds, WalkProceeds, ForeseeProceeds, AssembleProceeds,
       ReadMetadataProceeds, ParseUnitsProceeds, KeepSetProceeds, StartPictureProceeds,
       DrawSliceProceeds, TakeImageProceeds DEF EagerNext
  <2>q. QED
    BY <2>1, <2>2, EagerAlone
<1>2. CASE Prepare \/ PrepareStreamed
  BY <1>2, PrepareAgrees
<1>3. CASE UNCHANGED codedVars
  <2>1. /\ item' = item /\ prepared' = prepared /\ streamed' = streamed
        /\ UNCHANGED <<stage, tile, next, metadata, kept, drawn>>
    BY <1>3 DEF codedVars, eagerVars, otherVars
  <2>2. /\ Ready' = Ready /\ ReadyStreamed' = ReadyStreamed /\ Fit' = Fit
        /\ NalsAt(1)' = NalsAt(1) /\ \A n : KeptTo(n)' = KeptTo(n) /\ DrawnTo(n)' = DrawnTo(n)
    BY <2>1, ReadySame, ItemKept
  <2>3. Proceeding' = Proceeding
    BY <2>1, <2>2 DEF Proceeding
  <2>4. Decided' = Decided /\ Pending' = Pending
    BY <2>1 DEF Decided, Pending
  <2>q. QED
    BY <2>1, <2>2, <2>3, <2>4 DEF AgreeInv
<1>q. QED
  BY <1>1, <1>2, <1>3 DEF CodedNext

\* It holds at first.
LEMMA AgreeFirst ==
    ASSUME CodedInit
    PROVE  AgreeInv
<1>1. stage = "start" /\ tile = 1 /\ prepared = Pending /\ streamed = Pending
  BY DEF CodedInit, EagerInit
<1>2. Proceeding
  BY <1>1 DEF Proceeding
<1>q. QED
  BY <1>1, <1>2 DEF AgreeInv

\* The invariant says what is promised.
LEMMA InvAgrees ==
    ASSUME ForeseenInv, AgreeInv
    PROVE  ReadersAgree
<1>1. Pending.is # "picture" /\ Refused.is # "picture" /\ Refused # Pending
  BY DEF Pending, Refused
<1>2. ASSUME prepared.is = "picture"
      PROVE  \/ stage = "limit"
             \/ stage = "accepted" /\ kept = prepared.sets /\ drawn = prepared.slices
  <2>1. prepared = Ready /\ Decided /\ item.kind = "coded" /\ Ready # Refused
    BY <1>1, <1>2 DEF AgreeInv
  <2>2. Proceeding
    BY <2>1 DEF AgreeInv, Fit
  <2>q. QED
    BY <2>1, <2>2 DEF Proceeding, Decided
<1>3. ASSUME streamed.is = "picture"
      PROVE  prepared = streamed \/ Len(Nals) > MaxNals
  <2>1. /\ streamed = ReadyStreamed /\ ReadyStreamed # Refused
        /\ prepared = Ready /\ item.kind = "coded"
    BY <1>1, <1>3 DEF AgreeInv
  <2>2. item \in Items /\ Nals = NalsAt(1)
    BY <2>1, CodedNals
  <2>q. QED
    BY <2>1, <2>2, ScanAgrees
<1>q. QED
  BY <1>2, <1>3 DEF ReadersAgree

\* What a bounded reader accepts, the eager path decodes with the same sets and
\* the same slice, if no limit forbids it; and what the incremental reader
\* accepts, codec::prepare does, unless there are too many NAL units.
THEOREM ReadersAlwaysAgree == CodedSpec => []ReadersAgree
<1>1. CodedInit => AgreeInv
  BY AgreeFirst
<1>2. ForeseenInv /\ AgreeInv /\ [CodedNext]_codedVars => AgreeInv'
  BY AgreeStep
<1>3. ForeseenInv /\ AgreeInv => ReadersAgree
  BY InvAgrees
<1>q. QED
  BY <1>1, <1>2, <1>3, ForeseenAlways, PTL DEF CodedSpec

(***************************************************************************)
(* Clean apertures.  A crop is made of edges that are fractions: rounded,   *)
(* and clamped into the picture.                                           *)
(***************************************************************************)
\* Whole numbers keep their order under a positive factor, and have it back
\* when the factor goes.
LEMMA Scales ==
    ASSUME NEW a \in Int, NEW b \in Int, NEW d \in Nat \ {0}
    PROVE  /\ a <= b => a * d <= b * d
           /\ a * d <= b * d => a <= b
           /\ a * d < b * d => a < b
           /\ a * d <= b * d + (d - 1) => a <= b
<1>1. \A m \in Nat \ {0} : m * d >= d
  OBVIOUS
<1>2. \A x, y \in Int : x < y => x * d + d <= y * d
  <2> TAKE x \in Int, y \in Int
  <2> HAVE x < y
  <2>1. y - x \in Nat \ {0}
    OBVIOUS
  <2>2. (y - x) * d >= d
    BY <1>1, <2>1
  <2>3. (y - x) * d = y * d - x * d /\ x * d \in Int /\ y * d \in Int
    BY Distributes
  <2>q. QED
    BY <2>2, <2>3
<1>3. a * d \in Int /\ b * d \in Int
  BY Distributes
<1>4. a < b => a * d + d <= b * d
  BY <1>2
<1>5. b < a => b * d + d <= a * d
  BY <1>2
<1>q. QED
  BY <1>3, <1>4, <1>5

\* Division drops the fraction, towards zero.
LEMMA Truncated ==
    ASSUME NEW n \in Int, NEW d \in Nat \ {0}
    PROVE  /\ Quot(n, d) \in Int
           /\ n >= 0 => /\ 0 <= Quot(n, d) /\ Quot(n, d) * d <= n
                        /\ n < Quot(n, d) * d + d
           /\ n < 0 => /\ Quot(n, d) <= 0 /\ n <= Quot(n, d) * d
                       /\ Quot(n, d) * d < n + d
<1>1. ASSUME n >= 0
      PROVE  /\ Quot(n, d) \in Int /\ 0 <= Quot(n, d) /\ Quot(n, d) * d <= n
             /\ n < Quot(n, d) * d + d
  <2> DEFINE q == n \div d
  <2>1. q \in Nat /\ Quot(n, d) = q
    BY <1>1, DivNatural DEF Quot
  <2>2. d * q <= n /\ n < d * q + d
    BY DivBounds
  <2>3. d * q = q * d
    BY <2>1, Distributes
  <2>q. QED
    BY <2>1, <2>2, <2>3
<1>2. ASSUME n < 0
      PROVE  /\ Quot(n, d) \in Int /\ Quot(n, d) <= 0 /\ n <= Quot(n, d) * d
             /\ Quot(n, d) * d < n + d
  <2> DEFINE q == (-n) \div d
  <2>1. -n \in Nat /\ ~(n >= 0)
    BY <1>2
  <2>2. q \in Nat /\ Quot(n, d) = -q
    BY <2>1, DivNatural DEF Quot
  <2>3. d * q <= -n /\ -n < d * q + d
    BY <2>1, DivBounds
  <2> HIDE DEF q
  <2>4. (0 - q) * d = 0 * d - q * d /\ d * q = q * d /\ d * q \in Int
    BY <2>2, Distributes
  <2>5. -q = 0 - q /\ 0 * d = 0
    BY <2>2
  <2>6. Quot(n, d) * d = -(d * q)
    BY <2>2, <2>4, <2>5
  <2>q. QED
    BY <2>2, <2>3, <2>4, <2>6
<1>3. n >= 0 \/ n < 0
  OBVIOUS
<1>q. QED
  BY <1>1, <1>2, <1>3

\* What is rounded moves by half at most, but for what is negative, which may
\* come up by one and a half.
LEMMA Rounded ==
    ASSUME NEW a \in Fraction
    PROVE  /\ Round(a) \in Int /\ a.n \in Int /\ a.d \in Nat \ {0} /\ Round(a) * a.d \in Int
           /\ a.n >= 0 => /\ 0 <= Round(a)
                          /\ 2 * (Round(a) * a.d) <= 2 * a.n + a.d
                          /\ 2 * a.n <= 2 * (Round(a) * a.d) + (a.d - 1)
           /\ a.n < 0 => /\ Round(a) <= 0 /\ a.n <= Round(a) * a.d
                         /\ 2 * (Round(a) * a.d) <= 2 * a.n + 3 * a.d
<1> DEFINE d == a.d
           half == Quot(d, 2)
           m == a.n + half
           q == Quot(m, d)
<1>1. a.n \in Int /\ d \in Nat \ {0} /\ Round(a) = q
  BY DEF Fraction, Round
<1>2. half \in Nat /\ 2 * half <= d /\ d <= 2 * half + 1
  <2>1. 2 \in Nat \ {0} /\ d \in Int /\ d >= 0
    BY <1>1
  <2> HIDE DEF d
  <2>2. half \in Int /\ 0 <= half /\ half * 2 <= d /\ d < half * 2 + 2
    BY <2>1, Truncated
  <2> HIDE DEF half
  <2>q. QED
    BY <2>1, <2>2
<1>3. m \in Int
  BY <1>1, <1>2
<1>4. /\ q \in Int
      /\ m >= 0 => 0 <= q /\ q * d <= m /\ m < q * d + d
      /\ m < 0 => q <= 0 /\ m <= q * d /\ q * d < m + d
  <2> HIDE DEF m, d
  <2>q. QED
    BY <1>1, <1>3, Truncated
<1>5. q * d \in Int
  <2> HIDE DEF q, d
  <2>q. QED
    BY <1>1, <1>4, Distributes
<1>6. ASSUME a.n >= 0
      PROVE  0 <= q /\ 2 * (q * d) <= 2 * a.n + d /\ 2 * a.n <= 2 * (q * d) + (d - 1)
  <2>1. m >= 0 /\ m = a.n + half
    BY <1>1, <1>2, <1>6
  <2>2. q * d <= a.n + half /\ a.n + half < q * d + d /\ 0 <= q
    BY <1>4, <2>1
  <2> HIDE DEF q, d, half, m
  <2>q. QED
    BY <1>1, <1>2, <1>5, <2>2
<1>7. ASSUME a.n < 0
      PROVE  q <= 0 /\ a.n <= q * d /\ 2 * (q * d) <= 2 * a.n + 3 * d
  <2>1. m = a.n + half
    OBVIOUS
  <2>2. CASE m >= 0
    <3>1. 0 <= q /\ q * d <= a.n + half /\ a.n + half < q * d + d
      BY <1>4, <2>2
    <3> HIDE DEF q, d, half, m
    <3>2. q * d < 1 * d
      BY <1>1, <1>2, <1>5, <1>7, <3>1
    <3>3. q < 1
      BY <1>1, <1>4, <3>2, Scales
    <3>4. q = 0
      BY <1>4, <3>1, <3>3
    <3>5. q * d = 0
      BY <1>1, <3>4
    <3>q. QED
      BY <1>1, <1>2, <1>7, <2>1, <2>2, <3>4, <3>5
  <2>3. CASE m < 0
    <3>1. q <= 0 /\ a.n + half <= q * d /\ q * d < a.n + half + d
      BY <1>4, <2>3
    <3> HIDE DEF q, d, half, m
    <3>q. QED
      BY <1>1, <1>2, <1>5, <3>1
  <2>q. QED
    BY <1>3, <2>2, <2>3
<1>q. QED
  BY <1>1, <1>4, <1>5, <1>6, <1>7

\* What it is for a whole number to lie within p / q of a fraction,
LEMMA ApartMeans ==
    ASSUME NEW a \in Fraction, NEW k \in Int, NEW p \in Nat, NEW q \in Nat \ {0}
    PROVE  Apart(k, a, Ratio(p, q)) <=>
             /\ (a.n - k * a.d) * q <= p * a.d
             /\ (k * a.d - a.n) * q <= p * a.d
<1> DEFINE n == a.n
           d == a.d
           left == Minus(a, Ratio(k, 1))
           right == Minus(Ratio(k, 1), a)
           limit == Ratio(p, q)
<1>1. n \in Int /\ d \in Nat \ {0}
  BY DEF Fraction
<1>2. k * d \in Int /\ k * d = d * k
  BY <1>1, Distributes
<1>3. left.n = n - k * d /\ left.d = d /\ right.n = k * d - n /\ right.d = d
  <2>1. left.n = n * 1 - k * d /\ left.d = d * 1 /\ right.n = k * d - n * 1 /\ right.d = 1 * d
    BY DEF Minus, Ratio
  <2> HIDE DEF n, d, left, right
  <2>q. QED
    BY <1>1, <2>1
<1>4. limit.n = p /\ limit.d = q
  BY DEF Ratio
<1>5. Apart(k, a, limit) <=> ~(limit.n * left.d < left.n * limit.d)
                             /\ ~(limit.n * right.d < right.n * limit.d)
  BY DEF Apart, AtMost, Below
<1> HIDE DEF n, d, left, right, limit
<1>6. p * d \in Int /\ (n - k * d) * q \in Int /\ (k * d - n) * q \in Int
  <2>1. n - k * d \in Int /\ k * d - n \in Int
    BY <1>1, <1>2
  <2>q. QED
    BY <1>1, <2>1, Distributes
<1>7. Apart(k, a, limit) <=> ~(p * d < (n - k * d) * q) /\ ~(p * d < (k * d - n) * q)
  BY <1>3, <1>4, <1>5
<1>q. QED
  BY <1>6, <1>7 DEF n, d, limit

\* and a fraction that is clamped is one of three.
LEMMA ClampedIs ==
    ASSUME NEW a \in Fraction, NEW size \in Nat \ {0}
    PROVE  /\ Clamped(a, size) \in Fraction
           /\ a.n < 0 => Clamped(a, size) = Ratio(0, 1)
           /\ a.n >= 0 /\ a.n <= (size - 1) * a.d => Clamped(a, size) = a
           /\ a.n >= 0 /\ (size - 1) * a.d < a.n => Clamped(a, size) = Ratio(size - 1, 1)
<1> DEFINE n == a.n
           d == a.d
<1>1. n \in Int /\ d \in Nat \ {0}
  BY DEF Fraction
<1>2. size - 1 \in Int /\ (size - 1) * d \in Int
  BY <1>1, Distributes
<1>3. Below(a, Ratio(0, 1)) <=> n < 0
  <2>1. Below(a, Ratio(0, 1)) <=> n * 1 < 0 * d
    BY DEF Below, Ratio
  <2> HIDE DEF n, d
  <2>q. QED
    BY <1>1, <2>1
<1>4. Below(Ratio(size - 1, 1), a) <=> (size - 1) * d < n
  <2>1. Below(Ratio(size - 1, 1), a) <=> (size - 1) * d < n * 1
    BY DEF Below, Ratio
  <2> HIDE DEF n, d
  <2>q. QED
    BY <1>1, <2>1
<1>5. Ratio(0, 1) \in Fraction /\ Ratio(size - 1, 1) \in Fraction
  BY DEF Ratio, Fraction
<1>6. (size - 1) * d < n <=> ~(n <= (size - 1) * d)
  <2> DEFINE m == (size - 1) * d
  <2> HIDE DEF n, d, m
  <2>1. m \in Int
    BY <1>2 DEF m
  <2>2. m < n <=> ~(n <= m)
    BY <1>1, <2>1
  <2>q. QED
    BY <2>2 DEF m
<1> HIDE DEF n, d
<1>7. n < 0 <=> ~(n >= 0)
  BY <1>1
<1>q. QED
  BY <1>3, <1>4, <1>5, <1>6, <1>7 DEF Clamped, n, d

\* Clamping a whole number and a fraction into the picture does not take them
\* further apart.
LEMMA ClampApart ==
    ASSUME NEW a \in Fraction, NEW size \in Nat \ {0}, NEW p \in Nat, NEW q \in Nat \ {0},
           NEW m \in Int, NEW k \in 0 .. size - 1,
           k = m \/ (k = 0 /\ m <= 0) \/ (k = size - 1 /\ m >= size - 1),
           (a.n - m * a.d) * q <= p * a.d,
           (m * a.d - a.n) * q <= p * a.d
    PROVE  Apart(k, Clamped(a, size), Ratio(p, q))
<1> DEFINE n == a.n
           d == a.d
           c == Clamped(a, size)
<1>1. n \in Int /\ d \in Nat \ {0} /\ q \in Int /\ p \in Int /\ m \in Int /\ k \in Int
  BY DEF Fraction
<1>2. /\ m * d \in Int /\ n * q \in Int /\ (m * d) * q \in Int /\ p * d \in Int
      /\ k * d \in Int /\ (k * d) * q \in Int
      /\ (m * q) * d = (m * d) * q /\ m * q \in Int
      /\ (k * q) * d = (k * d) * q /\ k * q \in Int
  <2>1. m * d \in Int /\ k * d \in Int
    BY <1>1, Distributes
  <2>2. (m * q) * d = m * (q * d) /\ (m * d) * q = m * (d * q) /\ q * d = d * q
    BY <1>1, Distributes
  <2>3. (k * q) * d = k * (q * d) /\ (k * d) * q = k * (d * q)
    BY <1>1, Distributes
  <2>q. QED
    BY <1>1, <2>1, <2>2, <2>3, Distributes
<1>3. n * q - (m * d) * q <= p * d /\ (m * d) * q - n * q <= p * d
  <2>1. (n - m * d) * q = n * q - (m * d) * q /\ (m * d - n) * q = (m * d) * q - n * q
    BY <1>1, <1>2, Distributes
  <2>q. QED
    BY <2>1
<1>4. c \in Fraction
  BY ClampedIs
<1>5. (c.n - k * c.d) * q <= p * c.d /\ (k * c.d - c.n) * q <= p * c.d
  <2>1. CASE n < 0
    <3>1. c.n = 0 /\ c.d = 1
      BY <2>1, ClampedIs DEF Ratio
    <3>2. k * q <= p
      <4>1. n * q <= 0
        <5>1. n * q <= 0 * q
          BY <1>1, <2>1, Scales
        <5>q. QED
          BY <1>1, <5>1
      <4>2. (m * q) * d <= p * d
        BY <1>2, <1>3, <4>1
      <4>3. m * q <= p
        BY <1>1, <1>2, <4>2, Scales
      <4>4. k <= m \/ k = 0
        BY <1>1
      <4>5. k <= m => k * q <= m * q
        BY <1>1, Scales
      <4>6. k = 0 => k * q = 0
        BY <1>1
      <4>q. QED
        BY <1>1, <1>2, <4>3, <4>4, <4>5, <4>6
    <3>3. k >= 0 /\ k * q >= 0
      BY ProductNatural
    <3>4. (0 - k * 1) * q = 0 - k * q /\ (k * 1 - 0) * q = k * q /\ p * 1 = p
      <4>1. 0 - k * 1 = 0 - k /\ k * 1 - 0 = k /\ p * 1 = p
        BY <1>1
      <4>2. (0 - k) * q = 0 * q - k * q /\ 0 * q = 0
        BY <1>1, Distributes
      <4>q. QED
        BY <4>1, <4>2
    <3> HIDE DEF n, d, c
    <3>q. QED
      BY <1>1, <1>2, <3>1, <3>2, <3>3, <3>4
  <2>2. CASE n >= 0 /\ n <= (size - 1) * d
    <3>1. c = a
      BY <2>2, ClampedIs
    <3>2. n * q - (k * d) * q <= p * d /\ (k * d) * q - n * q <= p * d
      <4>1. CASE k = m
        BY <1>3, <4>1
      <4>2. CASE k = 0 /\ m <= 0
        <5>1. (k * d) * q = 0
          BY <1>1, <4>2
        <5>2. (m * d) * q <= 0
          <6>1. m * q <= 0 * q
            BY <1>1, <4>2, Scales
          <6>2. m * q <= 0
            BY <1>1, <6>1
          <6>3. (m * q) * d <= 0 * d
            BY <1>1, <1>2, <6>2, Scales
          <6>q. QED
            BY <1>1, <1>2, <6>3
        <5>3. n * q >= 0
          BY <1>1, <2>2, ProductNatural
        <5>4. p * d >= 0
          BY <1>1, ProductNatural
        <5> HIDE DEF n, d, c
        <5>q. QED
          BY <1>1, <1>2, <1>3, <5>1, <5>2, <5>3, <5>4
      <4>3. CASE k = size - 1 /\ m >= size - 1
        <5>1. n * q <= (k * d) * q
          BY <1>1, <1>2, <2>2, <4>3, Scales
        <5>2. (k * d) * q <= (m * d) * q
          <6>1. k <= m
            BY <4>3
          <6>2. k * q <= m * q
            BY <1>1, <6>1, Scales
          <6>3. (k * q) * d <= (m * q) * d
            BY <1>1, <1>2, <6>2, Scales
          <6>q. QED
            BY <1>2, <6>3
        <5>4. p * d >= 0
          BY <1>1, ProductNatural
        <5> HIDE DEF n, d, c
        <5>q. QED
          BY <1>1, <1>2, <1>3, <5>1, <5>2, <5>4
      <4>q. QED
        BY <4>1, <4>2, <4>3
    <3>3. (n - k * d) * q = n * q - (k * d) * q /\ (k * d - n) * q = (k * d) * q - n * q
      BY <1>1, <1>2, Distributes
    <3>q. QED
      BY <3>1, <3>2, <3>3
  <2>3. CASE n >= 0 /\ (size - 1) * d < n
    <3> DEFINE e == size - 1
    <3>1. c.n = e /\ c.d = 1 /\ e \in Nat
      BY <2>3, ClampedIs DEF Ratio
    <3>2. k <= e /\ (k >= m \/ k = e)
      BY <1>1
    <3> HIDE DEF e
    <3>3. e * q - k * q <= p
      <4>1. CASE k = e
        BY <1>1, <1>2, <4>1
      <4>2. CASE k >= m
        <5>1. (e * q) * d <= n * q
          <6>1. e * d \in Int /\ e * d <= n
            BY <1>1, <2>3, <3>1, Distributes DEF e
          <6>2. (e * d) * q <= n * q
            BY <1>1, <6>1, Scales
          <6>3. (e * q) * d = e * (q * d) /\ (e * d) * q = e * (d * q) /\ q * d = d * q
            BY <1>1, <3>1, Distributes
          <6>q. QED
            BY <6>2, <6>3
        <5>2. (e * q) * d - (m * q) * d <= p * d
          <6>1. e * q \in Int /\ (e * q) * d \in Int
            BY <1>1, <3>1, Distributes
          <6>q. QED
            BY <1>2, <1>3, <5>1, <6>1
        <5>3. e * q \in Int /\ e * q - m * q \in Int
          BY <1>1, <1>2, <3>1, Distributes
        <5>4. (e * q - m * q) * d = (e * q) * d - (m * q) * d
          BY <1>1, <1>2, <5>3, Distributes
        <5>5. e * q - m * q <= p
          BY <1>1, <5>2, <5>3, <5>4, Scales
        <5>6. m * q <= k * q
          BY <1>1, <4>2, Scales
        <5>7. k * q \in Int /\ m * q \in Int
          BY <1>2
        <5> HIDE DEF n, d, c
        <5>q. QED
          BY <5>3, <5>5, <5>6, <5>7
      <4>q. QED
        BY <3>2, <4>1, <4>2
    <3>4. k * q <= e * q /\ e * q \in Int
      BY <1>1, <3>1, <3>2, Scales, Distributes
    <3>5. (e - k * 1) * q = e * q - k * q /\ (k * 1 - e) * q = k * q - e * q /\ p * 1 = p
      <4>1. k * 1 = k /\ p * 1 = p
        BY <1>1
      <4>2. (e - k) * q = e * q - k * q /\ (k - e) * q = k * q - e * q
        BY <1>1, <3>1, Distributes
      <4>q. QED
        BY <4>1, <4>2
    <3> HIDE DEF n, d, c
    <3>q. QED
      BY <1>1, <1>2, <3>1, <3>3, <3>4, <3>5
  <2>q. QED
    <3>1. n < 0 \/ n >= 0
      BY <1>1
    <3>2. (size - 1) * d \in Int /\ (n <= (size - 1) * d \/ (size - 1) * d < n)
      <4>1. size - 1 \in Int
        OBVIOUS
      <4>2. (size - 1) * d \in Int
        BY <1>1, <4>1, Distributes
      <4>3. \A x \in Int : n <= x \/ x < n
        BY <1>1
      <4>q. QED
        BY <4>2, <4>3
    <3>q. QED
      BY <2>1, <2>2, <2>3, <3>1, <3>2
<1>q. QED
  BY <1>4, <1>5, ApartMeans

\* What lies before the picture is clamped to its edge.
LEMMA BothBefore ==
    ASSUME NEW a \in Fraction, NEW size \in Nat \ {0}, NEW p \in Nat, NEW q \in Nat \ {0},
           a.n < 0
    PROVE  Apart(0, Clamped(a, size), Ratio(p, q))
<1>1. Clamped(a, size) = Ratio(0, 1) /\ Ratio(0, 1) \in Fraction
  BY ClampedIs DEF Fraction, Ratio
<1>2. (Ratio(0, 1).n - 0 * Ratio(0, 1).d) * q <= p * Ratio(0, 1).d
  BY DEF Ratio
<1>3. (0 * Ratio(0, 1).d - Ratio(0, 1).n) * q <= p * Ratio(0, 1).d
  BY DEF Ratio
<1>q. QED
  BY <1>1, <1>2, <1>3, ApartMeans

\* Two distances under a common denominator: u is within p / q of D, and v
\* within half of d.
LEMMA SumBound ==
    ASSUME NEW u \in Int, NEW v \in Int, NEW D \in Nat \ {0}, NEW d \in Nat \ {0},
           NEW p \in Nat, NEW q \in Nat \ {0},
           u * q <= p * D, 2 * v <= d
    PROVE  (u * d + v * D) * (q * 2) <= (p * 2 + 1 * q) * (D * d)
<1>1. /\ u * q \in Int /\ p * D \in Int /\ (u * q) * d \in Int /\ (p * D) * d \in Int
      /\ D * q \in Nat \ {0} /\ D * d \in Int /\ u * d \in Int /\ v * D \in Int
  <2>1. D * q \in Nat \ {0}
    OBVIOUS
  <2>q. QED
    BY <2>1, Distributes
<1>2. (u * q) * d <= (p * D) * d
  BY <1>1, Scales
<1>3. (2 * v) * (D * q) <= d * (D * q)
  <2>1. 2 * v \in Int /\ d \in Int
    OBVIOUS
  <2>q. QED
    BY <1>1, <2>1, Scales
<1>4. (u * d + v * D) * (q * 2) = 2 * ((u * q) * d) + (2 * v) * (D * q)
  OBVIOUS
<1>5. (p * 2 + 1 * q) * (D * d) = 2 * ((p * D) * d) + d * (D * q)
  OBVIOUS
<1>6. (2 * v) * (D * q) \in Int /\ d * (D * q) \in Int
  <2>1. 2 * v \in Int /\ d \in Int /\ D * q \in Int
    BY <1>1
  <2>q. QED
    BY <2>1, Distributes
<1>q. QED
  BY <1>1, <1>2, <1>3, <1>4, <1>5, <1>6

\* The same distance from a common denominator and from the two it is made of.
LEMMA Rearranged ==
    ASSUME NEW N \in Int, NEW M \in Int, NEW D \in Int, NEW d \in Int, NEW m \in Int,
           NEW z \in Int
    PROVE  (N * d + M * D) - z * (D * d) = (N - m * D) * d + ((M + m * d) - z * d) * D
<1>1. (N - m * D) * d = N * d - m * (D * d)
  OBVIOUS
<1>2. ((M + m * d) - z * d) * D = M * D + m * (D * d) - z * (D * d)
  OBVIOUS
<1>3. N * d \in Int /\ M * D \in Int /\ m * (D * d) \in Int /\ z * (D * d) \in Int
  OBVIOUS
<1>q. QED
  BY <1>1, <1>2, <1>3

\* The last edge is made from the first one that was rounded, which lies within
\* p / q of the exact one, and rounded itself: it lies half a pixel further off
\* at most.
LEMMA LastEdge ==
    ASSUME NEW s \in Fraction, NEW e \in Fraction, NEW m \in Int, NEW size \in Nat \ {0},
           NEW p \in Nat, NEW q \in Nat \ {0}, NEW k \in Int,
           (s.n - m * s.d) * q <= p * s.d,
           (m * s.d - s.n) * q <= p * s.d,
           k = Lesser(Round(Plus(MinusInt(e, 1), Ratio(m, 1))), size - 1),
           0 <= k
    PROVE  Apart(k, Clamped(Plus(s, MinusInt(e, 1)), size), Plus(Ratio(p, q), Ratio(1, 2)))
<1> DEFINE N == s.n
           D == s.d
           d == e.d
           M == e.n - d
           y == Plus(MinusInt(e, 1), Ratio(m, 1))
           r == Round(y)
           E == Plus(s, MinusInt(e, 1))
           u == N - m * D
<1>1. N \in Int /\ D \in Nat \ {0} /\ e.n \in Int /\ d \in Nat \ {0} /\ M \in Int
  BY DEF Fraction
<1>2. y \in Fraction /\ E \in Fraction
  <2>1. MinusInt(e, 1) \in Fraction /\ Ratio(m, 1) \in Fraction
    <3>1. 1 \in Int
      OBVIOUS
    <3>q. QED
      BY <3>1, FractionTyped
  <2>q. QED
    BY <2>1, FractionTyped
<1>3. y.n = M + m * d /\ y.d = d
  <2>1. y.n = (e.n - 1 * d) * 1 + m * d /\ y.d = d * 1
    BY DEF Plus, MinusInt, Ratio
  <2>2. (e.n - 1 * d) * 1 = M /\ d * 1 = d
    BY <1>1
  <2>q. QED
    BY <2>1, <2>2
<1>4. E.n = N * d + M * D /\ E.d = D * d
  <2>1. E.n = N * d + (e.n - 1 * d) * D /\ E.d = D * d
    BY DEF Plus, MinusInt, Ratio
  <2>2. e.n - 1 * d = M
    BY <1>1
  <2>q. QED
    BY <2>1, <2>2
<1>5. /\ r \in Int /\ r * d \in Int /\ y.n \in Int
      /\ y.n >= 0 => 0 <= r /\ 2 * (r * d) <= 2 * y.n + d /\ 2 * y.n <= 2 * (r * d) + (d - 1)
      /\ y.n < 0 => r <= 0
  BY <1>2, <1>3, Rounded
<1>6. m * D \in Int /\ m * d \in Int /\ u \in Int
  BY <1>1, Distributes
<1>7. u * q <= p * D /\ (0 - u) * q <= p * D
  <2>1. m * D - N = 0 - u
    BY <1>1, <1>6
  <2>q. QED
    BY <2>1
<1>8. \A z \in Int : E.n - z * (D * d) = u * d + (y.n - z * d) * D
  <2> TAKE z \in Int
  <2> HIDE DEF N, D, d, M, y, E
  <2>1. (N * d + M * D) - z * (D * d) = (N - m * D) * d + ((M + m * d) - z * d) * D
    BY <1>1, Rearranged
  <2>q. QED
    BY <1>3, <1>4, <2>1
<1> DEFINE p2 == p * 2 + 1 * q
           q2 == q * 2
<1>9. p2 \in Nat /\ q2 \in Nat \ {0} /\ Plus(Ratio(p, q), Ratio(1, 2)) = Ratio(p2, q2)
  BY DEF Plus, Ratio
<1>10. \A z \in Int : 2 * (y.n - z * d) <= d => (E.n - z * E.d) * q2 <= p2 * E.d
  <2> TAKE z \in Int
  <2> HAVE 2 * (y.n - z * d) <= d
  <2> DEFINE v == y.n - z * d
  <2>1. v \in Int
    <3>1. z * d \in Int
      BY <1>1, Distributes
    <3>q. QED
      BY <1>5, <3>1
  <2>2. 2 * v <= d
    OBVIOUS
  <2>3. E.n - z * E.d = u * d + v * D
    BY <1>4, <1>8
  <2> HIDE DEF v, u, N, D, d, M, y, E
  <2>4. (u * d + v * D) * (q * 2) <= (p * 2 + 1 * q) * (D * d)
    BY <1>1, <1>6, <1>7, <2>1, <2>2, SumBound
  <2>q. QED
    BY <1>4, <2>3, <2>4
<1>11. \A z \in Int : 2 * (z * d - y.n) <= d => (z * E.d - E.n) * q2 <= p2 * E.d
  <2> TAKE z \in Int
  <2> HAVE 2 * (z * d - y.n) <= d
  <2> DEFINE v == y.n - z * d
             minus == 0 - v
             other == 0 - u
  <2>1. v \in Int /\ minus \in Int /\ other \in Int /\ z * d \in Int
    <3>1. z * d \in Int
      BY <1>1, Distributes
    <3>q. QED
      BY <1>5, <1>6, <3>1
  <2>2. 2 * minus <= d
    <3> HIDE DEF d, y
    <3>q. QED
      BY <1>5, <2>1
  <2>3. z * E.d - E.n = other * d + minus * D
    <3>1. E.n - z * E.d = u * d + v * D
      BY <1>4, <1>8
    <3>2. other * d = 0 * d - u * d /\ minus * D = 0 * D - v * D
      BY <1>1, <1>6, <2>1, Distributes
    <3>3. z * E.d \in Int /\ E.n \in Int /\ u * d \in Int /\ v * D \in Int
      <4>1. D * d \in Int
        BY <1>1, Distributes
      <4>2. E.n \in Int
        BY <1>2 DEF Fraction
      <4>q. QED
        BY <1>1, <1>4, <1>6, <2>1, <4>1, <4>2, Distributes
    <3>4. 0 * d = 0 /\ 0 * D = 0
      BY <1>1
    <3> HIDE DEF E, v, u, N, D, d, M, y, minus, other
    <3>q. QED
      BY <3>1, <3>2, <3>3, <3>4
  <2> HIDE DEF v, u, N, D, d, M, y, E, minus
  <2>4. other * q <= p * D
    BY <1>7
  <2> HIDE DEF other
  <2>5. (other * d + minus * D) * (q * 2) <= (p * 2 + 1 * q) * (D * d)
    BY <1>1, <2>1, <2>2, <2>4, SumBound
  <2>q. QED
    BY <1>4, <2>3, <2>5
<1>12. k = Lesser(r, size - 1)
  OBVIOUS
<1> HIDE DEF p2, q2, E, r, d, u
<1>13. CASE y.n >= 0
  <2>1. 2 * (y.n - r * d) <= d /\ 2 * (r * d - y.n) <= d
    <3> HIDE DEF y
    <3>q. QED
      BY <1>1, <1>5, <1>13
  <2>2. (E.n - r * E.d) * q2 <= p2 * E.d /\ (r * E.d - E.n) * q2 <= p2 * E.d
    BY <1>5, <1>10, <1>11, <2>1
  <2>3. k \in 0 .. size - 1 /\ (k = r \/ (k = size - 1 /\ r >= size - 1))
    BY <1>5, <1>12 DEF Lesser
  <2>4. Apart(k, Clamped(E, size), Ratio(p2, q2))
    BY <1>2, <1>5, <1>9, <2>2, <2>3, ClampApart
  <2>q. QED
    BY <1>9, <2>4 DEF E
<1>14. CASE y.n < 0
  <2>1. k = 0 /\ r = 0
    BY <1>5, <1>12, <1>14 DEF Lesser
  <2>2. CASE E.n < 0
    <3>1. Apart(0, Clamped(E, size), Ratio(p2, q2))
      BY <1>2, <1>9, <2>2, BothBefore
    <3>q. QED
      BY <1>9, <2>1, <3>1 DEF E
  <2>3. CASE E.n >= 0
    <3>1. (E.n - 0 * E.d) * q2 <= p2 * E.d
      <4>1. 2 * (y.n - 0 * d) <= d
        <5> HIDE DEF y
        <5>q. QED
          BY <1>1, <1>5, <1>14
      <4>q. QED
        BY <1>10, <4>1
    <3>2. (0 * E.d - E.n) * q2 <= p2 * E.d
      <4>1. E.n \in Int /\ E.d \in Nat \ {0}
        BY <1>2 DEF Fraction
      <4>2. 0 * E.d - E.n <= 0 /\ 0 * E.d - E.n \in Int
        BY <2>3, <4>1
      <4>3. (0 * E.d - E.n) * q2 <= 0 * q2
        BY <1>9, <4>2, Scales
      <4>4. 0 * q2 = 0 /\ p2 * E.d \in Nat
        BY <1>9, <4>1, ProductNatural
      <4>5. (0 * E.d - E.n) * q2 \in Int
        BY <1>9, <4>2, Distributes
      <4>q. QED
        BY <4>3, <4>4, <4>5
    <3>3. 0 \in Int /\ 0 \in 0 .. size - 1
      OBVIOUS
    <3>4. Apart(0, Clamped(E, size), Ratio(p2, q2))
      BY <1>2, <1>9, <3>1, <3>2, <3>3, ClampApart
    <3>q. QED
      BY <1>9, <2>1, <3>4 DEF E
  <2>4. E.n \in Int
    BY <1>2 DEF Fraction
  <2>q. QED
    BY <2>2, <2>3, <2>4
<1>q. QED
  BY <1>5, <1>13, <1>14

\* A whole number that is rounded up by half at most does not pass another.
LEMMA HalfUp ==
    ASSUME NEW a \in Int, NEW b \in Int, NEW d \in Nat \ {0}, 2 * (a * d) <= 2 * (b * d) + d
    PROVE  a <= b
<1>1. (2 * a) * d = 2 * (a * d) /\ (2 * b + 1) * d = 2 * (b * d) + d
  OBVIOUS
<1>2. 2 * a \in Int /\ 2 * b + 1 \in Int
  OBVIOUS
<1>3. (2 * a) * d <= (2 * b + 1) * d
  BY <1>1
<1>4. 2 * a <= 2 * b + 1
  BY <1>2, <1>3, Scales
<1>q. QED
  BY <1>4

\* The edges of an aperture are fractions,
LEMMA StartTyped ==
    ASSUME NEW offset \in Fraction, NEW extent \in Fraction, NEW size \in Nat
    PROVE  ExactStart(offset, extent, size) \in Fraction
<1>1. size - 1 \in Int /\ 1 \in Int
  OBVIOUS
<1>2. Ratio(size - 1, 2) \in Fraction /\ MinusInt(extent, 1) \in Fraction
  BY <1>1, FractionTyped
<1>3. Plus(offset, Ratio(size - 1, 2)) \in Fraction /\ Over(MinusInt(extent, 1), 2) \in Fraction
  BY <1>2, FractionTyped
<1>q. QED
  BY <1>1, <1>3, FractionTyped DEF ExactStart

\* and one that lies in the picture leaves room for its extent.
LEMMA RoomFor ==
    ASSUME NEW offset \in Fraction, NEW extent \in Fraction, NEW size \in Nat,
           Contained(offset, extent, size), AtMost(Ratio(1, 1), extent),
           NEW s, s = ExactStart(offset, extent, size)
    PROVE  /\ s.n >= 0 /\ extent.n >= extent.d
           /\ s.n <= (size - 1) * s.d
           /\ \A b \in Int : extent.n = b * extent.d => s.n <= (size - b) * s.d
           /\ size > 0
<1> DEFINE N == s.n
           D == s.d
           d == extent.d
           M == extent.n - d
           E == ExactEnd(offset, extent, size)
<1>1. N \in Int /\ D \in Nat \ {0} /\ extent.n \in Int /\ d \in Nat \ {0} /\ M \in Int
  <2>1. s \in Fraction
    BY StartTyped
  <2>q. QED
    BY <2>1 DEF Fraction
<1>2. E.n = N * d + M * D /\ E.d = D * d
  <2>1. E.n = N * d + (extent.n - 1 * d) * D /\ E.d = D * d
    BY DEF ExactEnd, Plus, MinusInt, Ratio
  <2>2. extent.n - 1 * d = M
    BY <1>1
  <2>q. QED
    BY <2>1, <2>2
<1>3. N >= 0
  <2>1. ~(N * 1 < 0 * D)
    BY DEF Contained, AtMost, Below, Ratio
  <2> HIDE DEF N, D
  <2>q. QED
    BY <1>1, <2>1
<1>4. M >= 0
  <2>1. ~(extent.n * 1 < 1 * d)
    BY DEF AtMost, Below, Ratio
  <2> HIDE DEF d
  <2>q. QED
    BY <1>1, <2>1
<1>5. N * d + M * D <= (size - 1) * (D * d)
  <2>1. ~((size - 1) * E.d < E.n * 1)
    BY DEF Contained, AtMost, Below, Ratio
  <2>2. ~((size - 1) * (D * d) < (N * d + M * D) * 1)
    BY <1>2, <2>1
  <2>3. D * d \in Int /\ N * d \in Int /\ M * D \in Int /\ size - 1 \in Int
    BY <1>1, Distributes
  <2>4. (size - 1) * (D * d) \in Int
    BY <2>3, Distributes
  <2> HIDE DEF N, M, D, d
  <2>q. QED
    BY <2>2, <2>3, <2>4
<1> HIDE DEF N, D, d, M, E
<1>6. \A x \in Int : x * d <= M => N <= (size - 1 - x) * D
  <2> TAKE x \in Int
  <2> HAVE x * d <= M
  <2>1. (x * d) * D <= M * D
    BY <1>1, Distributes, Scales
  <2>2. ((size - 1 - x) * D) * d = (size - 1) * (D * d) - (x * d) * D
    <3>1. size - 1 \in Int
      OBVIOUS
    <3>2. (size - 1 - x) * D = (size - 1) * D - x * D
      BY <1>1, <3>1, Distributes
    <3>3. ((size - 1) * D - x * D) * d = ((size - 1) * D) * d - (x * D) * d
      BY <1>1, <3>1, Distributes
    <3>4. ((size - 1) * D) * d = (size - 1) * (D * d)
      BY <1>1, <3>1, Distributes
    <3>5. (x * D) * d = x * (D * d) /\ (x * d) * D = x * (d * D) /\ d * D = D * d
      BY <1>1, Distributes
    <3>q. QED
      BY <3>2, <3>3, <3>4, <3>5
  <2>3. /\ N * d \in Int /\ M * D \in Int /\ (x * d) * D \in Int /\ (size - 1) * (D * d) \in Int
        /\ (size - 1 - x) * D \in Int
    <3>1. size - 1 \in Int /\ size - 1 - x \in Int /\ D * d \in Int /\ x * d \in Int
      BY <1>1, Distributes
    <3>q. QED
      BY <1>1, <3>1, Distributes
  <2>4. N * d <= ((size - 1 - x) * D) * d
    BY <1>5, <2>1, <2>2, <2>3
  <2>q. QED
    BY <1>1, <2>3, <2>4, Scales
<1>7. N <= (size - 1) * D
  <2>1. 0 * d <= M /\ size - 1 - 0 = size - 1
    BY <1>1, <1>4
  <2>q. QED
    BY <1>6, <2>1
<1>8. ASSUME NEW b \in Int, extent.n = b * d
      PROVE  N <= (size - b) * D
  <2>1. (b - 1) * d = b * d - 1 * d /\ 1 * d = d
    BY <1>1, Distributes
  <2>2. (b - 1) * d <= M
    BY <1>1, <1>8, <2>1 DEF M
  <2>3. size - 1 - (b - 1) = size - b /\ b - 1 \in Int
    OBVIOUS
  <2>q. QED
    BY <1>6, <2>2, <2>3
<1>9. size > 0
  <2>1. 0 * D <= (size - 1) * D
    BY <1>1, <1>3, <1>7
  <2>2. size - 1 \in Int
    OBVIOUS
  <2>3. 0 <= size - 1
    BY <1>1, <2>1, <2>2, Scales
  <2>q. QED
    BY <2>3
<1>10. extent.n >= extent.d
  BY <1>1, <1>4 DEF M, d
<1>q. QED
  BY <1>3, <1>7, <1>8, <1>9, <1>10 DEF N, D, d

\* An aperture in the picture is not refused, and keeps a whole size: its first
\* edge is rounded up by half at most, and the last one starts from there.
LEMMA ExtentKept ==
    ASSUME NEW offset \in Fraction, NEW extent \in Fraction, NEW size \in Nat,
           Contained(offset, extent, size), AtMost(Ratio(1, 1), extent),
           NEW s, s = ExactStart(offset, extent, size),
           NEW m \in Int, s.n >= 0 => 0 <= m /\ 2 * (m * s.d) <= 2 * s.n + s.d,
           NEW first, first = Greater(m, 0),
           NEW last, last = Lesser(Round(Plus(MinusInt(extent, 1), Ratio(m, 1))), size - 1)
    PROVE  /\ size > 0 /\ first <= last
           /\ Whole(extent) => (last - first + 1) * extent.d = extent.n
<1> DEFINE N == s.n
           D == s.d
           d == extent.d
           y == Plus(MinusInt(extent, 1), Ratio(m, 1))
           r == Round(y)
<1>1. N \in Int /\ D \in Nat \ {0} /\ extent.n \in Int /\ d \in Nat \ {0} /\ m * D \in Int
      /\ m * d \in Int
  <2>1. N \in Int /\ D \in Nat \ {0} /\ extent.n \in Int /\ d \in Nat \ {0}
    BY StartTyped DEF Fraction
  <2>q. QED
    BY <2>1, Distributes
<1>2. /\ N >= 0 /\ extent.n >= d /\ N <= (size - 1) * D /\ size > 0
      /\ \A b \in Int : extent.n = b * d => N <= (size - b) * D
  BY RoomFor
<1>3. 0 <= m /\ 2 * (m * D) <= 2 * N + D
  BY <1>2
<1>4. y \in Fraction
  <2>1. 1 \in Int
    OBVIOUS
  <2>2. MinusInt(extent, 1) \in Fraction /\ Ratio(m, 1) \in Fraction
    BY <2>1, FractionTyped
  <2>q. QED
    BY <2>2, FractionTyped
<1>5. y.n = (extent.n - d) + m * d /\ y.d = d
  <2>1. y.n = (extent.n - 1 * d) * 1 + m * d /\ y.d = d * 1
    BY DEF Plus, MinusInt, Ratio
  <2> HIDE DEF d, y
  <2>2. (extent.n - 1 * d) * 1 = extent.n - d /\ d * 1 = d
    BY <1>1
  <2>q. QED
    BY <2>1, <2>2
<1>6. m * d >= 0
  BY <1>1, <1>3, ProductNatural
<1>7. /\ r \in Int /\ r * d \in Int
      /\ 2 * (r * d) <= 2 * y.n + d /\ 2 * y.n <= 2 * (r * d) + (d - 1)
  <2>1. y.n >= 0
    BY <1>1, <1>2, <1>5, <1>6
  <2>q. QED
    BY <1>4, <1>5, <2>1, Rounded
<1>8. \A x \in Int : N <= x * D => m <= x
  <2> TAKE x \in Int
  <2> HAVE N <= x * D
  <2>1. x * D \in Int
    BY <1>1, Distributes
  <2>2. 2 * (m * D) <= 2 * (x * D) + D
    <3> HIDE DEF N, D
    <3>q. QED
      BY <1>1, <1>3, <2>1
  <2>q. QED
    BY <1>1, <2>2, HalfUp
<1>9. m <= size - 1
  BY <1>2, <1>8
<1>10. m <= r
  <2>1. 2 * (m * d) <= 2 * (r * d) + d
    <3> HIDE DEF r, d, y
    <3>q. QED
      BY <1>1, <1>2, <1>5, <1>7
  <2>q. QED
    BY <1>1, <1>7, <2>1, HalfUp
<1>11. first = m /\ last = IF r < size - 1 THEN r ELSE size - 1
  BY <1>3 DEF Greater, Lesser
<1>12. ASSUME Whole(extent)
       PROVE  (last - first + 1) * d = extent.n
  <2> DEFINE b == extent.n \div d
             c == b - 1 + m
  <2>1. b \in Nat /\ extent.n = b * d
    <3>1. extent.n \in Nat
      BY <1>1, <1>2
    <3>2. b \in Nat /\ extent.n = d * b + (extent.n % d)
      BY <1>1, <3>1, Splits
    <3>3. extent.n % d = 0
      BY <1>12 DEF Whole
    <3> HIDE DEF b, d
    <3>4. d * b = b * d /\ d * b \in Int
      BY <1>1, <3>2, Distributes
    <3>q. QED
      BY <3>2, <3>3, <3>4
  <2> HIDE DEF b
  <2>2. c \in Int /\ c * d \in Int /\ y.n = c * d
    <3>1. c \in Int
      BY <2>1
    <3>2. c * d = b * d - d + m * d
      <4>1. b - 1 \in Int /\ 1 * d = d
        BY <1>1, <2>1
      <4>2. c * d = (b - 1) * d + m * d /\ (b - 1) * d = b * d - 1 * d
        BY <1>1, <2>1, <4>1, Distributes
      <4>q. QED
        BY <4>1, <4>2
    <3>3. c * d \in Int /\ b * d \in Int
      BY <1>1, <2>1, <3>1, Distributes
    <3> HIDE DEF c, d, y
    <3>q. QED
      BY <1>1, <1>5, <2>1, <3>1, <3>2, <3>3
  <2>3. r = c
    <3>1. 2 * (r * d) <= 2 * (c * d) + d /\ 2 * (c * d) <= 2 * (r * d) + d
      <4> HIDE DEF r, c, d, y
      <4>q. QED
        BY <1>1, <1>7, <2>2
    <3>2. r <= c
      BY <1>1, <1>7, <2>2, <3>1, HalfUp
    <3>3. c <= r
      BY <1>1, <1>7, <2>2, <3>1, HalfUp
    <3> HIDE DEF r, c
    <3>q. QED
      BY <1>7, <2>2, <3>2, <3>3
  <2>4. m <= size - b
    <3>1. size - b \in Int
      BY <2>1
    <3>q. QED
      BY <1>2, <1>8, <2>1, <3>1
  <2>5. last = c
    BY <1>11, <2>1, <2>3, <2>4
  <2>6. last - first + 1 = b
    BY <1>11, <2>1, <2>5
  <2>q. QED
    BY <2>1, <2>6
<1>13. first <= last
  BY <1>7, <1>9, <1>10, <1>11
<1>q. QED
  BY <1>2, <1>12, <1>13

\* A column is rounded down, and a row to the nearest one.
LEMMA FirstEdge ==
    ASSUME NEW s \in Fraction, NEW size \in Nat \ {0}
    PROVE  /\ LET m == RoundDown(s)
              IN  /\ m \in Int
                  /\ (s.n - m * s.d) * 1 <= 1 * s.d /\ (m * s.d - s.n) * 1 <= 1 * s.d
                  /\ s.n >= 0 => 0 <= m /\ 2 * (m * s.d) <= 2 * s.n + s.d
                  /\ Greater(m, 0) <= size - 1 =>
                       Apart(Greater(m, 0), Clamped(s, size), Ratio(1, 1))
           /\ LET m == Round(s)
              IN  /\ m \in Int
                  /\ s.n >= 0 => /\ 0 <= m /\ 2 * (m * s.d) <= 2 * s.n + s.d
                                 /\ (s.n - m * s.d) * 2 <= 1 * s.d
                                 /\ (m * s.d - s.n) * 2 <= 1 * s.d
                  /\ s.n < 0 => /\ (s.n - m * s.d) * 2 <= 3 * s.d
                                /\ (m * s.d - s.n) * 2 <= 3 * s.d
                  /\ Greater(m, 0) <= size - 1 =>
                       Apart(Greater(m, 0), Clamped(s, size), Ratio(1, 2))
<1> DEFINE N == s.n
           D == s.d
           down == RoundDown(s)
           near == Round(s)
<1>1. N \in Int /\ D \in Nat \ {0}
  BY DEF Fraction
<1>2. /\ down \in Int /\ down * D \in Int
      /\ N >= 0 => 0 <= down /\ down * D <= N /\ N < down * D + D
      /\ N < 0 => down <= 0 /\ N <= down * D /\ down * D < N + D
  <2>1. down = Quot(N, D)
    BY DEF RoundDown
  <2> HIDE DEF N, D, down
  <2>2. /\ down \in Int
        /\ N >= 0 => 0 <= down /\ down * D <= N /\ N < down * D + D
        /\ N < 0 => down <= 0 /\ N <= down * D /\ down * D < N + D
    BY <1>1, <2>1, Truncated
  <2>3. down * D \in Int
    BY <1>1, <2>2, Distributes
  <2>q. QED
    BY <2>2, <2>3
<1>3. /\ near \in Int /\ near * D \in Int
      /\ N >= 0 => 0 <= near /\ 2 * (near * D) <= 2 * N + D /\ 2 * N <= 2 * (near * D) + (D - 1)
      /\ N < 0 => near <= 0 /\ N <= near * D /\ 2 * (near * D) <= 2 * N + 3 * D
  BY Rounded
<1> HIDE DEF N, D, down, near
<1>4. /\ (N - down * D) * 1 <= 1 * D /\ (down * D - N) * 1 <= 1 * D
      /\ N >= 0 => 0 <= down /\ 2 * (down * D) <= 2 * N + D
  BY <1>1, <1>2
<1>5. /\ N >= 0 => /\ 0 <= near /\ 2 * (near * D) <= 2 * N + D
                   /\ (N - near * D) * 2 <= 1 * D /\ (near * D - N) * 2 <= 1 * D
      /\ N < 0 => (N - near * D) * 2 <= 3 * D /\ (near * D - N) * 2 <= 3 * D
  BY <1>1, <1>3
<1>6. \A m \in Int : Greater(m, 0) <= size - 1 =>
        Greater(m, 0) \in 0 .. size - 1 /\ (Greater(m, 0) = m \/ (Greater(m, 0) = 0 /\ m <= 0))
  BY DEF Greater
<1>7. ASSUME Greater(down, 0) <= size - 1
      PROVE  Apart(Greater(down, 0), Clamped(s, size), Ratio(1, 1))
  <2>1. 1 \in Nat /\ 1 \in Nat \ {0}
    OBVIOUS
  <2>q. QED
    BY <1>2, <1>4, <1>6, <1>7, <2>1, ClampApart DEF N, D
<1>8. ASSUME Greater(near, 0) <= size - 1
      PROVE  Apart(Greater(near, 0), Clamped(s, size), Ratio(1, 2))
  <2>1. 1 \in Nat /\ 2 \in Nat \ {0}
    OBVIOUS
  <2>2. CASE N >= 0
    BY <1>3, <1>5, <1>6, <1>8, <2>1, <2>2, ClampApart DEF N, D
  <2>3. CASE N < 0
    <3>1. Greater(near, 0) = 0
      BY <1>3, <2>3 DEF Greater
    <3>q. QED
      BY <2>1, <2>3, <3>1, BothBefore DEF N
  <2>q. QED
    BY <1>1, <2>2, <2>3
<1>q. QED
  BY <1>2, <1>3, <1>4, <1>5, <1>7, <1>8 DEF N, D, down, near

\* The two edges of an axis, columns first and then rows.
LEMMA ColumnsKept ==
    ASSUME NEW offset \in Fraction, NEW extent \in Fraction, NEW size \in Nat \ {0},
           NEW m, m = RoundDown(ExactStart(offset, extent, size)),
           NEW first, first = Greater(m, 0),
           NEW last, last = Lesser(Round(Plus(MinusInt(extent, 1), Ratio(m, 1))), size - 1),
           first <= last
    PROVE  EdgesKept(offset, extent, size, first, last, Ratio(1, 1), Ratio(3, 2))
<1> DEFINE s == ExactStart(offset, extent, size)
           r == Round(Plus(MinusInt(extent, 1), Ratio(m, 1)))
<1>1. s \in Fraction
  BY StartTyped
<1>2. /\ m \in Int
      /\ (s.n - m * s.d) * 1 <= 1 * s.d /\ (m * s.d - s.n) * 1 <= 1 * s.d
      /\ s.n >= 0 => 0 <= m /\ 2 * (m * s.d) <= 2 * s.n + s.d
      /\ first <= size - 1 => Apart(first, Clamped(s, size), Ratio(1, 1))
  BY <1>1, FirstEdge
<1>3. r \in Int
  <2>1. 1 \in Int
    OBVIOUS
  <2>2. MinusInt(extent, 1) \in Fraction /\ Ratio(m, 1) \in Fraction
    BY <1>2, <2>1, FractionTyped
  <2>3. Plus(MinusInt(extent, 1), Ratio(m, 1)) \in Fraction
    BY <2>1, <2>2, FractionTyped
  <2>q. QED
    BY <2>3, Rounded
<1>4. first \in Nat /\ last \in Int /\ last <= size - 1 /\ 0 <= last
  <2> HIDE DEF r
  <2>1. last = Lesser(r, size - 1)
    BY DEF r
  <2>2. first \in Nat
    BY <1>2 DEF Greater
  <2>3. last \in Int /\ last <= size - 1
    BY <1>3, <2>1 DEF Lesser
  <2>q. QED
    BY <2>2, <2>3
<1>5. Apart(first, Clamped(s, size), Ratio(1, 1))
  BY <1>2, <1>4
<1>6. Apart(last, Clamped(ExactEnd(offset, extent, size), size), Plus(Ratio(1, 1), Ratio(1, 2)))
  <2>1. 1 \in Nat /\ 1 \in Nat \ {0}
    OBVIOUS
  <2> HIDE DEF s
  <2>2. Apart(last, Clamped(Plus(s, MinusInt(extent, 1)), size), Plus(Ratio(1, 1), Ratio(1, 2)))
    BY <1>1, <1>2, <1>4, <2>1, LastEdge
  <2>q. QED
    BY <2>2 DEF s, ExactEnd
<1>7. Plus(Ratio(1, 1), Ratio(1, 2)) = Ratio(3, 2)
  BY DEF Plus, Ratio
<1>8. Contained(offset, extent, size) /\ Whole(extent) /\ AtMost(Ratio(1, 1), extent) =>
        (last - first + 1) * extent.d = extent.n
  BY <1>2, ExtentKept
<1>q. QED
  BY <1>5, <1>6, <1>7, <1>8 DEF EdgesKept

LEMMA RowsKept ==
    ASSUME NEW offset \in Fraction, NEW extent \in Fraction, NEW size \in Nat \ {0},
           NEW m, m = Round(ExactStart(offset, extent, size)),
           NEW first, first = Greater(m, 0),
           NEW last, last = Lesser(Round(Plus(MinusInt(extent, 1), Ratio(m, 1))), size - 1),
           first <= last
    PROVE  EdgesKept(offset, extent, size, first, last, Ratio(1, 2), Ratio(2, 1))
<1> DEFINE s == ExactStart(offset, extent, size)
           E == ExactEnd(offset, extent, size)
           r == Round(Plus(MinusInt(extent, 1), Ratio(m, 1)))
<1>1. s \in Fraction
  BY StartTyped
<1>2. /\ m \in Int
      /\ s.n >= 0 => /\ 0 <= m /\ 2 * (m * s.d) <= 2 * s.n + s.d
                     /\ (s.n - m * s.d) * 2 <= 1 * s.d /\ (m * s.d - s.n) * 2 <= 1 * s.d
      /\ s.n < 0 => (s.n - m * s.d) * 2 <= 3 * s.d /\ (m * s.d - s.n) * 2 <= 3 * s.d
      /\ first <= size - 1 => Apart(first, Clamped(s, size), Ratio(1, 2))
  BY <1>1, FirstEdge
<1>3. r \in Int
  <2>1. 1 \in Int
    OBVIOUS
  <2>2. MinusInt(extent, 1) \in Fraction /\ Ratio(m, 1) \in Fraction
    BY <1>2, <2>1, FractionTyped
  <2>3. Plus(MinusInt(extent, 1), Ratio(m, 1)) \in Fraction
    BY <2>1, <2>2, FractionTyped
  <2>q. QED
    BY <2>3, Rounded
<1>4. first \in Nat /\ last \in Int /\ last <= size - 1 /\ 0 <= last
  <2> HIDE DEF r
  <2>1. last = Lesser(r, size - 1)
    BY DEF r
  <2>2. first \in Nat
    BY <1>2 DEF Greater
  <2>3. last \in Int /\ last <= size - 1
    BY <1>3, <2>1 DEF Lesser
  <2>q. QED
    BY <2>2, <2>3
<1>5. Apart(first, Clamped(s, size), Ratio(1, 2))
  BY <1>2, <1>4
<1>6. Below(s, Ratio(0, 1)) <=> s.n < 0
  <2>1. Below(s, Ratio(0, 1)) <=> s.n * 1 < 0 * s.d
    BY DEF Below, Ratio
  <2>2. s.n \in Int /\ s.d \in Int
    BY <1>1 DEF Fraction
  <2> HIDE DEF s
  <2>q. QED
    BY <2>1, <2>2
<1>7. ASSUME ~(s.n < 0)
      PROVE  Apart(last, Clamped(E, size), Plus(Ratio(1, 2), Ratio(1, 2)))
  <2>1. 1 \in Nat /\ 2 \in Nat \ {0}
    OBVIOUS
  <2>2. s.n >= 0
    BY <1>1, <1>7 DEF Fraction
  <2> HIDE DEF s
  <2>3. Apart(last, Clamped(Plus(s, MinusInt(extent, 1)), size), Plus(Ratio(1, 2), Ratio(1, 2)))
    BY <1>1, <1>2, <1>4, <2>1, <2>2, LastEdge
  <2>q. QED
    BY <2>3 DEF s, ExactEnd
<1>8. ASSUME s.n < 0
      PROVE  Apart(last, Clamped(E, size), Ratio(2, 1))
  <2>1. 3 \in Nat /\ 2 \in Nat \ {0}
    OBVIOUS
  <2>2. Apart(last, Clamped(E, size), Plus(Ratio(3, 2), Ratio(1, 2)))
    <3> HIDE DEF s
    <3>1. Apart(last, Clamped(Plus(s, MinusInt(extent, 1)), size), Plus(Ratio(3, 2), Ratio(1, 2)))
      BY <1>1, <1>2, <1>4, <1>8, <2>1, LastEdge
    <3>q. QED
      BY <3>1 DEF s, ExactEnd
  <2>3. Plus(Ratio(3, 2), Ratio(1, 2)) = Ratio(8, 4)
    BY DEF Plus, Ratio
  <2>4. Clamped(E, size) \in Fraction
    <3>1. 1 \in Int
      OBVIOUS
    <3>2. MinusInt(extent, 1) \in Fraction
      BY <3>1, FractionTyped
    <3>3. E \in Fraction
      BY <1>1, <3>1, <3>2, FractionTyped DEF ExactEnd
    <3>q. QED
      BY <3>3, ClampedIs
  <2> DEFINE c == Clamped(E, size)
  <2>5. (c.n - last * c.d) * 4 <= 8 * c.d /\ (last * c.d - c.n) * 4 <= 8 * c.d
    <3>1. 8 \in Nat /\ 4 \in Nat \ {0}
      OBVIOUS
    <3>2. Apart(last, c, Ratio(8, 4))
      BY <2>2, <2>3
    <3> HIDE DEF c
    <3>q. QED
      BY <1>4, <2>4, <3>1, <3>2, ApartMeans DEF c
  <2>6. (c.n - last * c.d) * 1 <= 2 * c.d /\ (last * c.d - c.n) * 1 <= 2 * c.d
    <3>1. c.n \in Int /\ c.d \in Int
      BY <2>4 DEF Fraction
    <3> HIDE DEF c
    <3>2. last * c.d \in Int
      BY <1>4, <3>1, Distributes
    <3>q. QED
      BY <2>5, <3>1, <3>2
  <2>7. 2 \in Nat /\ 1 \in Nat \ {0}
    OBVIOUS
  <2>q. QED
    BY <1>4, <2>4, <2>6, <2>7, ApartMeans
<1>9. Contained(offset, extent, size) /\ Whole(extent) /\ AtMost(Ratio(1, 1), extent) =>
        (last - first + 1) * extent.d = extent.n
  BY <1>2, ExtentKept
<1>q. QED
  BY <1>5, <1>6, <1>7, <1>8, <1>9 DEF EdgesKept

\* The bounds of a crop, for any picture and any aperture.
LEMMA CropKept ==
    ASSUME NEW t \in Transform, IsClap(t), NEW w \in Nat, NEW h \in Nat,
           NEW c, c = CropBounds(t, w, h)
    PROVE  /\ c.valid =>
                /\ EdgesKept(t.x, t.width, w, c.left, c.right, Ratio(1, 1), Ratio(3, 2))
                /\ EdgesKept(t.y, t.height, h, c.top, c.bottom, Ratio(1, 2), Ratio(2, 1))
           /\ /\ Contained(t.x, t.width, w) /\ Contained(t.y, t.height, h)
              /\ AtMost(Ratio(1, 1), t.width) /\ AtMost(Ratio(1, 1), t.height)
              => c.valid
<1>1. t.width \in Fraction /\ t.height \in Fraction /\ t.x \in Fraction /\ t.y \in Fraction
  BY DEF Transform, IsClap
<1> DEFINE s == ExactStart(t.x, t.width, w)
           a == ExactStart(t.y, t.height, h)
           column == RoundDown(s)
           row == Round(a)
           left == Greater(column, 0)
           top == Greater(row, 0)
           right == Lesser(Round(Plus(MinusInt(t.width, 1), Ratio(column, 1))), w - 1)
           bottom == Lesser(Round(Plus(MinusInt(t.height, 1), Ratio(row, 1))), h - 1)
<1>2. /\ c.left = left /\ c.top = top /\ c.right = right /\ c.bottom = bottom
      /\ c.valid <=> w > 0 /\ h > 0 /\ left <= right /\ top <= bottom
  BY DEF CropBounds, ClapLeft, ClapRight, ClapTop, ClapBottom, ExactStart
<1>3. ASSUME c.valid
      PROVE  /\ EdgesKept(t.x, t.width, w, left, right, Ratio(1, 1), Ratio(3, 2))
             /\ EdgesKept(t.y, t.height, h, top, bottom, Ratio(1, 2), Ratio(2, 1))
  <2>1. w \in Nat \ {0} /\ h \in Nat \ {0} /\ left <= right /\ top <= bottom
    BY <1>2, <1>3
  <2>2. EdgesKept(t.x, t.width, w, left, right, Ratio(1, 1), Ratio(3, 2))
    BY <1>1, <2>1, ColumnsKept
  <2>3. EdgesKept(t.y, t.height, h, top, bottom, Ratio(1, 2), Ratio(2, 1))
    BY <1>1, <2>1, RowsKept
  <2>q. QED
    BY <2>2, <2>3
<1>4. ASSUME Contained(t.x, t.width, w), Contained(t.y, t.height, h),
             AtMost(Ratio(1, 1), t.width), AtMost(Ratio(1, 1), t.height)
      PROVE  c.valid
  <2>1. s \in Fraction /\ a \in Fraction
    BY <1>1, StartTyped
  <2>2. 1 \in Nat \ {0}
    OBVIOUS
  <2>3. column \in Int /\ (s.n >= 0 => 0 <= column /\ 2 * (column * s.d) <= 2 * s.n + s.d)
    BY <2>1, <2>2, FirstEdge
  <2>4. row \in Int /\ (a.n >= 0 => 0 <= row /\ 2 * (row * a.d) <= 2 * a.n + a.d)
    BY <2>1, <2>2, FirstEdge
  <2>5. w > 0 /\ left <= right
    BY <1>1, <1>4, <2>3, ExtentKept
  <2>6. h > 0 /\ top <= bottom
    BY <1>1, <1>4, <2>4, ExtentKept
  <2>q. QED
    BY <1>2, <2>5, <2>6
<1> HIDE DEF s, a, column, row, left, top, right, bottom
<1>q. QED
  BY <1>2, <1>3, <1>4

\* What the file holds stays as it is.
Described == image \in Images

\* Whatever a file offers, a crop that is made is its aperture, and one that
\* lies in the picture is made.
THEOREM ApertureAlwaysKept == PixelSpec => []ApertureKept
<1>1. PixelInit => Described
  BY DEF PixelInit, InitWith, Described
<1>2. Described /\ [PixelNext]_pixelVars => Described'
  <2> SUFFICES ASSUME Described, [PixelNext]_pixelVars
               PROVE  Described'
    OBVIOUS
  <2>1. image' = image
    BY DEF PixelNext, pixelVars, Probe, Call, ScanCandidate, NoCandidateLeft, DecodePicture,
           CropLeading, ConvertOwned, TransformOwned, EndTransforms, ConvertRgb8,
           PlanesAsTheyAre, FillRegion, FillAligned, FillByPixel, Fill, OpenGrid, PasteTile,
           CloseGrid
  <2>q. QED
    BY <2>1 DEF Described
<1>3. Described => ApertureKept
  <2> SUFFICES ASSUME Described, NEW k \in 1 .. Len(image.transforms),
                      IsClap(image.transforms[k])
               PROVE  LET t == image.transforms[k]
                          c == CropBounds(t, image.w, image.h)
                      IN  /\ c.valid =>
                               /\ EdgesKept(t.x, t.width, image.w, c.left, c.right,
                                            Ratio(1, 1), Ratio(3, 2))
                               /\ EdgesKept(t.y, t.height, image.h, c.top, c.bottom,
                                            Ratio(1, 2), Ratio(2, 1))
                          /\ /\ Contained(t.x, t.width, image.w)
                             /\ Contained(t.y, t.height, image.h)
                             /\ AtMost(Ratio(1, 1), t.width) /\ AtMost(Ratio(1, 1), t.height)
                             => c.valid
    BY DEF ApertureKept
  <2>1. image.w \in Nat /\ image.h \in Nat /\ image.transforms \in Seq(Transform)
    BY DEF Described, Images
  <2>2. image.transforms[k] \in Transform
    BY <2>1
  <2>q. QED
    BY <2>1, <2>2, CropKept
<1>q. QED
  BY <1>1, <1>2, <1>3, PTL DEF PixelSpec
=============================================================================
