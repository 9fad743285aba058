------------------------ MODULE BoundedDecodeProofs ------------------------
(***************************************************************************)
(* Proofs about BoundedDecode, for any number of tiles, any sizes and any  *)
(* budget.  The inductive invariant IInv says where the calling thread is, *)
(* which slots hold which tiles and what they reserved; the promises to    *)
(* the caller follow from it.  Then about HevcHeaders, the headers of the  *)
(* pictures that a bounded decode accepts, for elements of any size, and   *)
(* about TileMemory, the buffers of one tile, for any pictures.            *)
(***************************************************************************)
EXTENDS BoundedDecode, HevcHeaders, TileMemory, SequenceTheorems, TLAPS

Planned == {"exif", "color", "boundary", "admission", "output", "pool"}
           \cup Batching

\* Where the calling thread is.
Control ==
    /\ pc # "returned" =>
         /\ outcome = "none"
         /\ blame = 0
         /\ merged + batch + 1 = next + cursor
         /\ cursor <= batch + 1
         /\ batch <= workers
    /\ pc \in Setup =>
         /\ next = 0
         /\ batch = 0
         /\ merged = 0
         /\ rendered = {}
    /\ pc \in Setup \cup {"gather", "run"} => cursor = 1
    /\ pc \in Planned => Len(tiles) = Count

\* What admission established, and what is left of it for the batches.
Admitted ==
    /\ pc \in Batching \cup {"output", "pool"} =>
         \A i \in 1 .. Count : JobBytes(i) <= maxJob
    /\ pc = "output" => base + StageBytes["output"] + maxJob <= limit
    /\ pc \in Batching \cup {"pool"} => base + maxJob <= limit

\* The job in slot s, or its result.
Occupied(s) ==
    /\ slots[s].state # "idle"
    /\ slots[s].tile + cursor = merged + s + 1
    /\ slots[s].state = "failed" => slots[s].reserved = 0
    /\ slots[s].state # "failed" =>
         /\ slots[s].reserved = JobBytes(slots[s].tile)
         /\ slots[s].tile \notin failed

\* Exactly the results that are still to be merged occupy slots.
SlotsFilled ==
    \A s \in Slots :
      IF pc \in Batching /\ s \in cursor .. batch THEN Occupied(s)
                                                  ELSE slots[s] = Idle

\* Only tiles of the current batch that are not merged yet can have failed.
FailedInBatch ==
    /\ pc # "returned" => \A t \in failed : merged < t /\ t <= next
    /\ pc \in Setup \cup {"gather"} => failed = {}

Complete == outcome = "image" => merged = Count /\ failed = {}

IInv ==
    /\ TypeOK
    /\ Control
    /\ Admitted
    /\ SlotsFilled
    /\ FailedInBatch
    /\ BudgetExact
    /\ NoLateRefusal
    /\ FirstErrorWins
    /\ Complete

-----------------------------------------------------------------------------
\* Replacing what one slot reserved moves the sum of the batch by the
\* difference.
LEMMA InFlightUpdate ==
    ASSUME NEW f \in [Slots -> SlotType], NEW g \in [Slots -> SlotType],
           NEW s \in Slots,
           \A r \in Slots : r # s => g[r].reserved = f[r].reserved
    PROVE  InFlight(g) + f[s].reserved = InFlight(f) + g[s].reserved
<1>0. Slots = 1 .. 8
  BY DEF Slots, MaxJobs
<1>1. \A h \in [Slots -> SlotType] : \A r \in Slots : h[r].reserved \in Nat
  BY DEF SlotType
<1> DEFINE F(r) == f[r].reserved
           G(r) == g[r].reserved
<1>2. \A r \in 1 .. 8 : F(r) \in Nat /\ G(r) \in Nat
  BY <1>0, <1>1
<1>3. \A r \in 1 .. 8 : r # s => G(r) = F(r)
  BY <1>0
<1>4. /\ InFlight(f) = F(1) + F(2) + F(3) + F(4) + F(5) + F(6) + F(7) + F(8)
      /\ InFlight(g) = G(1) + G(2) + G(3) + G(4) + G(5) + G(6) + G(7) + G(8)
  BY DEF InFlight
<1>5. s \in 1 .. 8
  BY <1>0
<1> HIDE DEF F, G
<1>6. F(1) \in Nat /\ F(2) \in Nat /\ F(3) \in Nat /\ F(4) \in Nat 
  /\ F(5) \in Nat /\ F(6) \in Nat /\ F(7) \in Nat /\ F(8) \in Nat
  BY <1>2
<1>7. G(1) \in Nat /\ G(2) \in Nat /\ G(3) \in Nat /\ G(4) \in Nat 
  /\ G(5) \in Nat /\ G(6) \in Nat /\ G(7) \in Nat /\ G(8) \in Nat
  BY <1>2
<1>8. /\ 1 # s => G(1) = F(1)
      /\ 2 # s => G(2) = F(2)
      /\ 3 # s => G(3) = F(3)
      /\ 4 # s => G(4) = F(4)
      /\ 5 # s => G(5) = F(5)
      /\ 6 # s => G(6) = F(6)
      /\ 7 # s => G(7) = F(7)
      /\ 8 # s => G(8) = F(8)
  BY ONLY <1>3
<1>9. s = 1 \/ s = 2 \/ s = 3 \/ s = 4 \/ s = 5 \/ s = 6 \/ s = 7 \/ s = 8
  BY ONLY <1>5
<1>10. InFlight(g) + F(s) = InFlight(f) + G(s)
  BY ONLY <1>4, <1>6, <1>7, <1>8, <1>9
<1>q. QED
  BY <1>10 DEF F, G

\* A batch without jobs reserves nothing.
LEMMA InFlightIdle ==
    ASSUME NEW f, \A s \in Slots : f[s] = Idle
    PROVE  InFlight(f) = 0
  BY DEF InFlight, Idle, Slots, MaxJobs

\* What is in flight in the slots is a natural number.
LEMMA InFlightType ==
    ASSUME NEW f \in [Slots -> SlotType]
    PROVE  InFlight(f) \in Nat
<1>1. \A r \in 1 .. 8 : f[r].reserved \in Nat
  BY DEF SlotType, Slots, MaxJobs
<1>2. /\ f[1].reserved \in Nat /\ f[2].reserved \in Nat
      /\ f[3].reserved \in Nat /\ f[4].reserved \in Nat
      /\ f[5].reserved \in Nat /\ f[6].reserved \in Nat
      /\ f[7].reserved \in Nat /\ f[8].reserved \in Nat
  BY <1>1
<1>q. QED
  BY ONLY <1>2 DEF InFlight

\* An idle slot is one.
LEMMA IdleSlot == Idle \in SlotType
  BY SizesAssumption DEF Idle, SlotType, JobStates

\* The bytes of a preflighted tile's job are a natural number.
LEMMA JobBytesType ==
    ASSUME TypeOK, NEW i \in 1 .. Len(tiles)
    PROVE  /\ JobBytes(i) \in Nat
           /\ tiles[i].payload \in Nat
           /\ tiles[i].workspace \in Nat
           /\ Contribution[i] \in Nat
           /\ JobBytes(i) = tiles[i].workspace + tiles[i].payload
                            + Contribution[i]
<1>1. i \in 1 .. Count
  <2>1. Len(tiles) \in Nat /\ Len(tiles) <= Count /\ Count \in Nat
    BY SizesAssumption, LenProperties DEF TypeOK
  <2>q. QED
    BY <2>1
<1>2. tiles[i] \in [payload : Nat, workspace : Nat]
  BY ElementOfSeq DEF TypeOK
<1>3. Contribution[i] \in Nat
  BY <1>1, SizesAssumption
<1>q. QED
  BY <1>2, <1>3 DEF JobBytes

\* The budget is exact again after a step that leaves u bytes reserved, b of
\* them long-lived and i by the jobs.
LEMMA BudgetStep ==
    ASSUME NEW u, NEW b, NEW i,
           u = b + i, u <= limit,
           used' = u, base' = b, InFlight(slots') = i, limit' = limit
    PROVE  BudgetExact'
  BY Zenon DEF BudgetExact

\* The invariant holds at first.
LEMMA InitIInv == Init => IInv
  <1> SUFFICES ASSUME Init PROVE IInv
    OBVIOUS
  <1>1. InFlight(slots) = 0
    BY InFlightIdle DEF Init
  <1>2. TypeOK
    BY IdleSlot, SizesAssumption
    DEF Init, TypeOK, Setup, Slots, MaxJobs, Outcomes
  <1>3. Control /\ Admitted /\ FailedInBatch
    BY SizesAssumption
    DEF Init, Control, Admitted, FailedInBatch, Batching, Planned
  <1>4. SlotsFilled
    BY DEF Init, SlotsFilled, Batching
  <1>5. BudgetExact
    BY <1>1, SizesAssumption DEF Init, BudgetExact
  <1>6. NoLateRefusal /\ FirstErrorWins /\ Complete
    BY DEF Init, NoLateRefusal, FirstErrorWins, Complete
  <1>q. QED
    BY <1>2, <1>3, <1>4, <1>5, <1>6 DEF IInv

\* Leaving the call keeps the invariant when what is returned is justified.
LEMMA ReturnIInv ==
    ASSUME IInv,
           NEW result \in Outcomes,
           Return(result),
           blame' \in 0 .. Count,
           result = "budget" => rendered = {},
           result = "image" => merged = Count /\ failed = {},
           FirstErrorWins'
    PROVE  IInv'
<1>1. TypeOK'
  BY IdleSlot, SizesAssumption DEF IInv, TypeOK, Return, planVars
<1>2. Control' /\ Admitted' /\ FailedInBatch'
  BY DEF Return, Control, Admitted, FailedInBatch, Setup, LongLived, After,
         Planned, Batching
<1>3. SlotsFilled'
  BY DEF Return, SlotsFilled, Batching
<1>4. BudgetExact'
  <2>1. InFlight(slots') = 0
    BY InFlightIdle DEF Return
  <2>2. used' = 0 /\ base' = 0 /\ limit' \in Nat
    BY SizesAssumption DEF Return, IInv, TypeOK
  <2>q. QED
    BY <2>1, <2>2 DEF BudgetExact
<1>5. NoLateRefusal' /\ Complete'
  BY DEF Return, NoLateRefusal, Complete
<1>q. QED
  BY <1>1, <1>2, <1>3, <1>4, <1>5 DEF IInv

\* The steps of the setup keep the invariant: nothing is in a slot yet.
LEMMA SetupIInv ==
    ASSUME IInv,
           \/ CheckOptions \/ ReserveLongLived \/ RefuseInput
           \/ PreflightTile \/ FinishPreflight \/ ReadExif
    PROVE  IInv'
<1> USE DEF IInv
<1>0. /\ tiles' = tiles => \A i : JobBytes(i)' = JobBytes(i)
      /\ pc \in Setup => blame = 0 /\ rendered = {} /\ FirstErrorWins
  BY DEF JobBytes, Control, Setup, LongLived, After
<1>o. /\ {"invalid options", "budget", "refused"} \subseteq Outcomes
      /\ pc \in Setup => pc # "returned"
  BY DEF Outcomes, Setup, LongLived, After
<1>r. ASSUME NEW result \in {"invalid options", "budget", "refused"},
             Return(result), UNCHANGED blame, pc \in Setup
      PROVE  IInv'
  <2>1. blame' \in 0 .. Count /\ FirstErrorWins'
    BY <1>0, <1>r DEF FirstErrorWins, TypeOK
  <2>2. result \in Outcomes /\ result # "image" /\ rendered = {}
    BY <1>0, <1>o, <1>r
  <2>q. QED
    BY <1>r, <2>1, <2>2, ReturnIInv
\* A step of the setup that leaves slots and results alone.
<1>s. ASSUME pc \in Setup, NEW d \in Nat,
             UNCHANGED <<limit, batchVars, resultVars, outcome>>,
             used' = used + d, base' = base + d, used' <= limit
      PROVE  /\ SlotsFilled' /\ FailedInBatch' /\ BudgetExact'
             /\ NoLateRefusal' /\ FirstErrorWins' /\ Complete'
  <2>1. pc \notin Batching /\ outcome = "none" /\ batch = 0 /\ cursor = 1
    BY <1>s DEF Setup, LongLived, After, Batching, Control
  <2>2. SlotsFilled'
    BY <1>s, <2>1 DEF SlotsFilled, batchVars
  <2>3. FailedInBatch'
    BY <1>s DEF FailedInBatch, batchVars, resultVars, Setup, LongLived, After
  <2>4. BudgetExact'
    <3>1. InFlight(slots') = InFlight(slots) /\ limit' = limit
      BY <1>s DEF batchVars
    <3>2. /\ used = base + InFlight(slots) /\ used \in Nat /\ base \in Nat
          /\ InFlight(slots) \in Nat
      BY InFlightType DEF BudgetExact, TypeOK
    <3>3. used' = base' + InFlight(slots')
      BY <1>s, <3>1, <3>2
    <3>q. QED
      BY <1>s, <3>1, <3>3 DEF BudgetExact
  <2>5. NoLateRefusal' /\ FirstErrorWins' /\ Complete'
    BY <1>0, <1>s, <2>1
    DEF NoLateRefusal, FirstErrorWins, Complete, resultVars
  <2>q. QED
    BY <2>2, <2>3, <2>4, <2>5
<1>1. CASE CheckOptions
  <2>1. pc \in Setup
    BY <1>1 DEF CheckOptions, Setup
  <2>2. CASE Return("invalid options") /\ UNCHANGED blame
    BY <2>1, <2>2, <1>r
  <2>3. CASE /\ pc = "options"
             /\ pc' = "runtime"
             /\ UNCHANGED <<budgetVars, planVars, batchVars, resultVars,
                            outcome>>
    <3>1. TypeOK'
      BY <2>3 DEF TypeOK, budgetVars, planVars, batchVars, resultVars, Setup,
         LongLived, After
    <3>2. Control' /\ Admitted'
      BY <2>3 DEF Control, Admitted, budgetVars, planVars, batchVars,
         resultVars, Setup, LongLived, After, Planned, Batching
    <3>3. /\ used' = used + 0 /\ base' = base + 0 /\ used' <= limit
          /\ UNCHANGED <<limit, batchVars, resultVars, outcome>>
      BY <2>3 DEF budgetVars, BudgetExact, TypeOK
    <3>q. QED
      BY <2>1, <3>1, <3>2, <3>3, <1>s
  <2>q. QED
    BY <1>1, <2>2, <2>3 DEF CheckOptions
<1>2. CASE ReserveLongLived
  <2>1. pc \in Setup /\ pc \in LongLived
    BY <1>2 DEF ReserveLongLived, Setup
  <2>2. CASE Return("budget") /\ UNCHANGED blame
    BY <2>1, <2>2, <1>r
  <2>3. CASE /\ Fits(StageBytes[pc])
             /\ used' = used + StageBytes[pc]
             /\ base' = base + StageBytes[pc]
             /\ pc' = After[pc]
             /\ UNCHANGED <<limit, planVars, batchVars, resultVars, outcome>>
    <3>1. StageBytes[pc] \in Nat
      BY <2>1, SizesAssumption
    <3>2. used' <= limit /\ used \in Nat /\ base \in Nat
      BY <2>3 DEF Fits, TypeOK
    <3>3. TypeOK'
      <4>1. pc' \in Setup
        BY <2>1, <2>3 DEF LongLived, After, Setup
      <4>2. used' \in Nat /\ base' \in Nat
        BY ONLY <2>3, <3>1, <3>2
      <4>q. QED
        BY <2>3, <4>1, <4>2 DEF TypeOK, planVars, batchVars, resultVars
    <3>4. Control'
      BY <2>1, <2>3 DEF Control, planVars, batchVars,
         resultVars, Setup, LongLived, After, Planned, Batching
    <3>5. Admitted'
      <4>1. CASE pc # "output"
        <5>1. pc' \notin Batching \cup {"output", "pool"}
          BY <2>1, <2>3, <4>1 DEF LongLived, After, Batching
        <5>q. QED
          BY <5>1 DEF Admitted
      <4>2. CASE pc = "output"
        <5>1. pc' = "pool"
          BY <2>3, <4>2 DEF After
        <5>2. base' + maxJob' <= limit'
          <6>1. base + StageBytes["output"] + maxJob <= limit
            BY <4>2 DEF Admitted
          <6>q. QED
            BY <2>3, <4>2, <6>1 DEF planVars
        <5>3. \A i \in 1 .. Count : JobBytes(i)' <= maxJob'
          BY <1>0, <2>3, <4>2 DEF Admitted, planVars
        <5>q. QED
          BY <5>1, <5>2, <5>3 DEF Admitted
      <4>q. QED
        BY <4>1, <4>2
    <3>q. QED
      BY <2>1, <2>3, <3>1, <3>2, <3>3, <3>4, <3>5, <1>s
  <2>q. QED
    BY <1>2, <2>2, <2>3 DEF ReserveLongLived
<1>3. CASE RefuseInput
  BY <1>3, <1>r DEF RefuseInput
<1>4. CASE PreflightTile
  <2>1. pc \in Setup /\ pc = "preflight"
    BY <1>4 DEF PreflightTile, Setup
  <2>2. CASE Return("budget") /\ UNCHANGED blame
    BY <2>1, <2>2, <1>r
  <2>3. ASSUME NEW payload \in Payloads, NEW reconstruction \in Reconstructions,
               Len(tiles) < Count,
               tiles' = Append(tiles,
                          [payload |-> payload,
                           workspace |-> Workspace(payload, reconstruction)]),
               UNCHANGED <<budgetVars, pc, maxJob, workers, batchVars,
                           resultVars, outcome>>
        PROVE  IInv'
    <3>1. [payload |-> payload,
           workspace |-> Workspace(payload, reconstruction)]
            \in [payload : Nat, workspace : Nat]
      BY SizesAssumption DEF Workspace
    <3>2. /\ tiles' \in Seq([payload : Nat, workspace : Nat])
          /\ Len(tiles') = Len(tiles) + 1
      BY <2>3, <3>1, AppendProperties DEF TypeOK
    <3>3. Len(tiles') <= Count
      BY <2>3, <3>2, SizesAssumption, LenProperties DEF TypeOK
    <3>4. TypeOK'
      BY <2>3, <3>2, <3>3 DEF TypeOK, budgetVars, batchVars, resultVars
    <3>5. Control' /\ Admitted'
      BY <2>1, <2>3 DEF Control, Admitted, budgetVars, batchVars, resultVars,
         Setup, LongLived, After, Planned, Batching
    <3>6. /\ used' = used + 0 /\ base' = base + 0 /\ used' <= limit
          /\ UNCHANGED <<limit, batchVars, resultVars, outcome>>
      BY <2>3 DEF budgetVars, BudgetExact, TypeOK
    <3>q. QED
      BY <2>1, <3>4, <3>5, <3>6, <1>s
  <2>q. QED
    BY <1>4, <2>2, <2>3 DEF PreflightTile
<1>5. CASE FinishPreflight
  <2>1. pc \in Setup /\ pc = "preflight"
    BY <1>5 DEF FinishPreflight, Setup
  <2>2. TypeOK'
    BY <1>5 DEF FinishPreflight, TypeOK, budgetVars, planVars, batchVars,
       resultVars, Setup
  <2>3. Control' /\ Admitted'
    BY <1>5 DEF FinishPreflight, Control, Admitted, budgetVars, planVars,
       batchVars, resultVars, Setup, LongLived, After, Planned, Batching
  <2>4. /\ used' = used + 0 /\ base' = base + 0 /\ used' <= limit
        /\ UNCHANGED <<limit, batchVars, resultVars, outcome>>
    BY <1>5 DEF FinishPreflight, budgetVars, BudgetExact, TypeOK
  <2>q. QED
    BY <2>1, <2>2, <2>3, <2>4, <1>s
<1>6. CASE ReadExif
  <2>1. pc \in Setup /\ pc = "exif"
    BY <1>6 DEF ReadExif, Setup
  <2>2. CASE Return("budget") /\ UNCHANGED blame
    BY <2>1, <2>2, <1>r
  <2>3. CASE /\ pc' = "color"
             /\ UNCHANGED <<budgetVars, planVars, batchVars, resultVars,
                            outcome>>
    <3>1. TypeOK'
      BY <2>3 DEF TypeOK, budgetVars, planVars, batchVars, resultVars, Setup,
         LongLived, After
    <3>2. Control' /\ Admitted'
      BY <2>1, <2>3 DEF Control, Admitted, budgetVars, planVars, batchVars,
         resultVars, Setup, LongLived, After, Planned, Batching
    <3>3. /\ used' = used + 0 /\ base' = base + 0 /\ used' <= limit
          /\ UNCHANGED <<limit, batchVars, resultVars, outcome>>
      BY <2>3 DEF budgetVars, BudgetExact, TypeOK
    <3>q. QED
      BY <2>1, <3>1, <3>2, <3>3, <1>s
  <2>q. QED
    BY <1>6, <2>2, <2>3 DEF ReadExif
<1>q. QED
  BY <1>1, <1>2, <1>3, <1>4, <1>5, <1>6

\* Admission and the pool keep the invariant: they establish that the largest
\* job fits beside everything the call holds.
LEMMA AdmissionIInv ==
    ASSUME IInv, Admit \/ SizePool
    PROVE  IInv'
<1> USE DEF IInv
<1>0. /\ pc \in {"admission", "pool"}
      /\ pc \in Setup /\ pc # "returned" /\ pc \notin Batching
      /\ blame = 0 /\ outcome = "none" /\ rendered = {} /\ failed = {}
      /\ Len(tiles) = Count
      /\ limit \in Nat /\ used \in Nat /\ base \in Nat /\ maxJob \in Nat
      /\ base = used
  <2>1. pc \in {"admission", "pool"}
    BY DEF Admit, SizePool
  <2>2. /\ pc \in Setup /\ pc # "returned" /\ pc \notin Batching
        /\ Len(tiles) = Count
    BY <2>1 DEF Setup, Batching, Control, Planned
  <2>3. blame = 0 /\ outcome = "none" /\ rendered = {} /\ failed = {}
    BY <2>2 DEF Control, FailedInBatch
  <2>4. limit \in Nat /\ used \in Nat /\ base \in Nat /\ maxJob \in Nat
    BY SizesAssumption DEF TypeOK
  <2>5. InFlight(slots) = 0
    BY <2>2, InFlightIdle DEF SlotsFilled
  <2>q. QED
    BY <2>1, <2>2, <2>3, <2>4, <2>5 DEF BudgetExact
<1>1. CASE Admit
  <2>0. PICK i \in 1 .. Count :
          /\ \A j \in 1 .. Count : JobBytes(j) <= JobBytes(i)
          /\ \/ /\ Fits(StageBytes["output"] + JobBytes(i))
                /\ maxJob' = JobBytes(i)
                /\ pc' = "output"
                /\ UNCHANGED <<budgetVars, tiles, workers, batchVars,
                               resultVars, outcome>>
             \/ /\ ~Fits(StageBytes["output"] + JobBytes(i))
                /\ Return("budget")
                /\ UNCHANGED blame
    BY <1>1 DEF Admit
  <2>1. pc = "admission" /\ JobBytes(i) \in Nat
    BY <1>0, <1>1, JobBytesType DEF Admit
  <2>2. CASE Return("budget") /\ UNCHANGED blame
    <3>1. "budget" \in Outcomes
      BY DEF Outcomes
    <3>2. blame' \in 0 .. Count /\ FirstErrorWins'
      BY <1>0, <2>2 DEF FirstErrorWins, TypeOK
    <3>q. QED
      BY <1>0, <2>2, <3>1, <3>2, ReturnIInv
  <2>3. CASE /\ Fits(StageBytes["output"] + JobBytes(i))
             /\ maxJob' = JobBytes(i)
             /\ pc' = "output"
             /\ UNCHANGED <<budgetVars, tiles, workers, batchVars, resultVars,
                            outcome>>
    <3>1. TypeOK'
      BY <2>1, <2>3 DEF TypeOK, budgetVars, batchVars, resultVars, Setup,
         LongLived, After
    <3>2. Control'
      BY <1>0, <2>3 DEF Control, budgetVars, batchVars, resultVars, Setup,
         LongLived, After, Batching
    <3>3. Admitted'
      <4>1. base' + StageBytes["output"] + maxJob' <= limit'
        <5>1. StageBytes["output"] \in Nat
          BY SizesAssumption DEF LongLived, After
        <5>2. base' = used /\ limit' = limit /\ maxJob' = JobBytes(i)
          BY <1>0, <2>3 DEF budgetVars
        <5>q. QED
          BY <1>0, <2>1, <2>3, <5>1, <5>2 DEF Fits
      <4>2. \A j \in 1 .. Count : JobBytes(j)' <= maxJob'
        BY <2>0, <2>3 DEF JobBytes
      <4>q. QED
        BY <2>3, <4>1, <4>2 DEF Admitted, Batching
    <3>4. SlotsFilled' /\ FailedInBatch'
      BY <1>0, <2>3 DEF SlotsFilled, FailedInBatch, batchVars, resultVars,
         Batching
    <3>5. BudgetExact'
      BY <2>3 DEF BudgetExact, budgetVars, batchVars
    <3>6. NoLateRefusal' /\ FirstErrorWins' /\ Complete'
      BY <1>0, <2>3 DEF NoLateRefusal, FirstErrorWins, Complete, resultVars
    <3>q. QED
      BY <3>1, <3>2, <3>3, <3>4, <3>5, <3>6
  <2>q. QED
    BY <2>0, <2>2, <2>3
<1>2. CASE SizePool
  <2>1. /\ pc = "pool" /\ pc' = "gather"
        /\ UNCHANGED <<limit, tiles, maxJob, batchVars, resultVars, outcome>>
        /\ base + maxJob <= limit
    BY <1>2 DEF SizePool, Admitted
  <2>2. ASSUME NEW threads \in Parallelism,
               NEW n \in 1 .. Smaller(Smaller(threads, MaxJobs), Count),
               n > 1 => maxJob * n + PoolBytes(n) <= Available,
               \/ n = 1 /\ UNCHANGED <<used, base>>
               \/ /\ n > 1
                  /\ used' = used + PoolBytes(n)
                  /\ base' = base + PoolBytes(n)
        PROVE  /\ n \in 1 .. 8
               /\ \E d \in Nat : /\ used' = used + d /\ base' = base + d
                                /\ base' + maxJob <= limit
    <3>0. n \in 1 .. 8
      BY SizesAssumption DEF Smaller, MaxJobs
    <3>1. CASE n = 1
      BY <1>0, <2>1, <2>2, <3>0, <3>1
    <3>2. CASE n > 1
      <4>1. PoolBytes(n) \in Nat
        BY <3>0, SizesAssumption DEF PoolBytes
      <4>2. maxJob * n \in Nat /\ maxJob <= maxJob * n
        BY <1>0, <3>0
      <4>3. maxJob * n + PoolBytes(n) <= limit - used
        BY <2>2, <3>2 DEF Available
      <4>4. base + PoolBytes(n) + maxJob <= limit
        BY <1>0, <4>1, <4>2, <4>3
      <4>5. used' = used + PoolBytes(n) /\ base' = base + PoolBytes(n)
        BY <2>2, <3>0, <3>2
      <4>q. QED
        BY <3>0, <4>1, <4>4, <4>5
    <3>q. QED
      BY <3>0, <3>1, <3>2
  <2>3. \E n \in 1 .. 8, d \in Nat :
          /\ workers' = n
          /\ used' = used + d /\ base' = base + d
          /\ base' + maxJob <= limit
    BY <1>2, <2>2 DEF SizePool
  <2>4. workers' \in 1 .. 8
    BY <2>3
  <2>5. used' \in Nat /\ base' \in Nat /\ used' = base' /\ used' <= limit
    BY <1>0, <2>3
  <2>6. TypeOK'
    BY <2>1, <2>4, <2>5 DEF TypeOK, batchVars, resultVars, Batching,
       Slots, MaxJobs
  <2>7. Control'
    BY <1>0, <2>1, <2>4 DEF Control, batchVars, resultVars, Setup,
       LongLived, After, Planned, Batching
  <2>8. Admitted'
    <3>1. \A j \in 1 .. Count : JobBytes(j)' <= maxJob'
      BY <2>1 DEF Admitted, JobBytes
    <3>2. base' + maxJob' <= limit'
      BY <2>1, <2>3
    <3>q. QED
      BY <2>1, <3>1, <3>2 DEF Admitted, Batching
  <2>9. SlotsFilled'
    <3>1. batch' = 0 /\ cursor' = 1 /\ \A s \in Slots : slots'[s] = Idle
      BY <1>0, <2>1 DEF Control, SlotsFilled, batchVars
    <3>q. QED
      BY <3>1 DEF SlotsFilled
  <2>10. FailedInBatch'
    BY <1>0, <2>1 DEF FailedInBatch, batchVars, resultVars
  <2>11. BudgetExact'
    <3>1. InFlight(slots') = 0
      BY <1>0, <2>1, InFlightIdle DEF SlotsFilled, batchVars
    <3>2. PICK u \in Nat : used' = u /\ base' = u /\ u <= limit
      BY <2>5
    <3>3. u = u + 0
      OBVIOUS
    <3>q. QED
      BY <2>1, <3>1, <3>2, <3>3, BudgetStep, Zenon
  <2>12. NoLateRefusal' /\ FirstErrorWins' /\ Complete'
    BY <1>0, <2>1 DEF NoLateRefusal, FirstErrorWins, Complete, resultVars
  <2>q. QED
    BY <2>6, <2>7, <2>8, <2>9, <2>10, <2>11, <2>12
<1>q. QED
  BY <1>1, <1>2

\* What holds whenever the calling thread is in the batch loop.
LEMMA InLoop ==
    ASSUME IInv, pc \in Batching
    PROVE  /\ pc \notin Setup /\ pc # "returned"
           /\ blame = 0 /\ outcome = "none"
           /\ Len(tiles) = Count /\ Count \in Nat
           /\ limit \in Nat /\ used \in Nat /\ base \in Nat
           /\ maxJob \in Nat /\ base + maxJob <= limit
           /\ used = base + InFlight(slots) /\ used <= limit
           /\ InFlight(slots) \in Nat
           /\ next \in 0 .. Count /\ merged \in 0 .. Count
           /\ batch \in 0 .. 8 /\ cursor \in 1 .. 9 /\ cursor <= batch + 1
           /\ merged + batch + 1 = next + cursor
           /\ workers \in 1 .. 8 /\ batch <= workers
           /\ next \in Nat /\ merged \in Nat /\ batch \in Nat
           /\ cursor \in Nat /\ workers \in Nat
           /\ Slots = 1 .. 8
           /\ slots \in [Slots -> SlotType]
<1> USE DEF IInv
<1>1. pc \notin Setup /\ pc # "returned" /\ pc \in Planned
  BY DEF Batching, Setup, LongLived, After, Planned
<1>2. Slots = 1 .. 8 /\ MaxJobs = 8
  BY DEF Slots, MaxJobs
<1>3. /\ blame = 0 /\ outcome = "none" /\ Len(tiles) = Count
      /\ cursor <= batch + 1 /\ merged + batch + 1 = next + cursor
      /\ batch <= workers
  BY <1>1 DEF Control
<1>4. /\ Count \in Nat /\ limit \in Nat /\ used \in Nat /\ base \in Nat
      /\ maxJob \in Nat /\ next \in 0 .. Count /\ merged \in 0 .. Count
      /\ batch \in 0 .. 8 /\ cursor \in 1 .. 9 /\ workers \in 1 .. 8
      /\ slots \in [Slots -> SlotType]
  BY <1>2, SizesAssumption DEF TypeOK
<1>5. base + maxJob <= limit
  BY DEF Admitted
<1>6. InFlight(slots) \in Nat
  BY <1>4, InFlightType
<1>7. /\ next \in Nat /\ merged \in Nat /\ batch \in Nat
      /\ cursor \in Nat /\ workers \in Nat
  BY <1>4
<1>q. QED
  BY <1>1, <1>2, <1>3, <1>4, <1>5, <1>6, <1>7 DEF BudgetExact

\* Every job of the batch loop is one that admission counted.
LEMMA JobAdmitted ==
    ASSUME IInv, pc \in Batching, NEW i \in 1 .. Count
    PROVE  /\ JobBytes(i) \in Nat
           /\ JobBytes(i) <= maxJob
           /\ tiles[i].payload \in Nat /\ tiles[i].workspace \in Nat
           /\ Contribution[i] \in Nat
           /\ JobBytes(i) = tiles[i].workspace + tiles[i].payload
                            + Contribution[i]
<1>1. Len(tiles) = Count
  BY InLoop
<1>2. i \in 1 .. Len(tiles)
  BY <1>1
<1>3. JobBytes(i) <= maxJob
  BY DEF IInv, Admitted
<1>q. QED
  BY <1>2, <1>3, JobBytesType DEF IInv

\* Replacing one slot accounts for the difference of its reservations.
LEMMA SlotReplaced ==
    ASSUME slots \in [Slots -> SlotType], NEW k \in Slots, NEW v \in SlotType,
           slots' = [slots EXCEPT ![k] = v]
    PROVE  /\ slots' \in [Slots -> SlotType]
           /\ slots'[k] = v
           /\ \A r \in Slots : r # k => slots'[r] = slots[r]
           /\ InFlight(slots') + slots[k].reserved = InFlight(slots) + v.reserved
           /\ InFlight(slots') \in Nat /\ InFlight(slots) \in Nat
           /\ slots[k].reserved \in Nat /\ v.reserved \in Nat
<1>1. /\ slots' \in [Slots -> SlotType]
      /\ slots'[k] = v
      /\ \A r \in Slots : r # k => slots'[r] = slots[r]
  OBVIOUS
<1>2. \A r \in Slots : r # k => slots'[r].reserved = slots[r].reserved
  BY <1>1
<1>3. InFlight(slots') + slots[k].reserved = InFlight(slots) + slots'[k].reserved
  BY <1>1, <1>2, InFlightUpdate
<1>4. InFlight(slots') \in Nat /\ InFlight(slots) \in Nat
  BY <1>1, InFlightType
<1>5. slots[k].reserved \in Nat /\ v.reserved \in Nat
  BY DEF SlotType
<1>q. QED
  BY <1>1, <1>3, <1>4, <1>5

\* Gathering a job keeps the invariant.  The first job of a batch always
\* fits: nothing is in flight and admission left room for the largest.
LEMMA GatherIInv ==
    ASSUME IInv, GatherJob
    PROVE  IInv'
<1> USE DEF IInv
<1>0. pc = "gather" /\ MoreJobs /\ pc \in Batching
  BY DEF GatherJob, Batching
<1>i. PICK i \in Int : i = next + 1
  BY <1>0, InLoop
<1>b. PICK bytes : bytes = JobBytes(i)
  OBVIOUS
<1>p. PICK payload : payload = tiles[i].payload
  OBVIOUS
<1>1. /\ cursor = 1 /\ failed = {} /\ merged + batch = next
      /\ next < Count /\ batch < workers /\ batch \in 0 .. 7
      /\ i \in 1 .. Count
  <2>1. cursor = 1 /\ failed = {}
    BY <1>0 DEF Control, FailedInBatch
  <2>2. next < Count /\ batch < workers
    BY <1>0 DEF MoreJobs
  <2>3. /\ Count \in Nat /\ next \in 0 .. Count /\ merged \in 0 .. Count
        /\ batch \in 0 .. 8 /\ workers \in 1 .. 8
        /\ merged + batch + 1 = next + cursor
    BY <1>0, InLoop
  <2>q. QED
    BY ONLY <1>i, <2>1, <2>2, <2>3
<1>2. /\ bytes \in Nat /\ bytes <= maxJob
      /\ payload \in Nat /\ payload <= bytes
  BY <1>0, <1>1, <1>b, <1>p, JobAdmitted
<1>3. Fits(bytes)
  <2>1. CASE batch = 0
    <3>1. InFlight(slots) = 0
      BY <1>1, <2>1, InFlightIdle DEF SlotsFilled
    <3>q. QED
      BY SMTT(30), <1>0, <1>2, <3>1, InLoop DEF Fits
  <2>2. CASE batch > 0
    <3>1. bytes <= limit - used
      BY <1>0, <1>i, <1>b, <2>2 DEF MoreJobs, Available
    <3>2. limit \in Nat /\ used \in Nat
      BY <1>0, InLoop
    <3>q. QED
      BY ONLY <1>2, <3>1, <3>2 DEF Fits
  <2>q. QED
    BY <1>1, <2>1, <2>2
<1>4. /\ used' = used + bytes
      /\ slots' = [slots EXCEPT ![batch + 1] =
                      [state |-> "queued", tile |-> i, reserved |-> bytes]]
      /\ batch' = batch + 1
      /\ next' = next + 1
      /\ UNCHANGED <<limit, base, pc, planVars, cursor, resultVars, outcome>>
  BY <1>3, <1>i, <1>b, <1>p DEF GatherJob
<1> DEFINE v == [state |-> "queued", tile |-> i, reserved |-> bytes]
<1>5. v \in SlotType /\ v.reserved = bytes /\ batch + 1 \in Slots
  <2>1. "queued" \in JobStates
    BY DEF JobStates
  <2>2. i \in 0 .. Count
    BY <1>0, <1>1, InLoop
  <2>3. v \in SlotType /\ v.reserved = bytes
    BY <1>2, <2>1, <2>2 DEF SlotType
  <2>4. Slots = 1 .. 8
    BY <1>0, InLoop
  <2>q. QED
    BY <1>1, <2>3, <2>4
<1>6. /\ slots' \in [Slots -> SlotType]
      /\ slots'[batch + 1] = v
      /\ \A r \in Slots : r # batch + 1 => slots'[r] = slots[r]
      /\ InFlight(slots') + slots[batch + 1].reserved = InFlight(slots) + bytes
      /\ InFlight(slots') \in Nat
  BY <1>0, <1>4, <1>5, SlotReplaced, InLoop
<1>7. slots[batch + 1] = Idle
  BY <1>0, <1>1, <1>5, InLoop DEF SlotsFilled
<1>8. BudgetExact' /\ used' \in Nat
  <2>1. slots[batch + 1].reserved = 0
    BY <1>7 DEF Idle
  <2>2. base' = base /\ limit' = limit
    BY <1>4
  <2>3. PICK n \in Nat : n = InFlight(slots')
    BY <1>6
  <2>4. PICK m \in Nat : m = InFlight(slots)
    BY <1>0, InLoop
  <2>5. /\ used = base + m /\ n = m + bytes
        /\ used \in Nat /\ base \in Nat
    <3>1. n + 0 = m + bytes
      BY <1>6, <2>1, <2>3, <2>4
    <3>q. QED
      BY <1>0, <1>2, <2>4, <3>1, InLoop
  <2>6. used + bytes = base + n /\ used + bytes \in Nat
    BY ONLY <1>2, <2>5
  <2>7. used + bytes <= limit
    BY <1>3 DEF Fits
  <2>q. QED
    BY <1>4, <2>2, <2>3, <2>6, <2>7, BudgetStep, Zenon
<1>9. TypeOK'
  <2>1. next' \in 0 .. Count /\ batch' \in 0 .. MaxJobs
    <3>1. next' = i /\ batch' = batch + 1
      BY <1>4, <1>i
    <3>2. i \in 0 .. Count /\ batch + 1 \in 0 .. 8
      BY ONLY <1>1
    <3>q. QED
      BY <3>1, <3>2 DEF MaxJobs
  <2>q. QED
    BY <1>4, <1>6, <1>8, <2>1 DEF TypeOK, planVars, resultVars
<1>10. Control'
  <2>1. /\ pc' = "gather" /\ outcome' = "none" /\ blame' = 0 /\ cursor' = 1
        /\ Len(tiles') = Count
    BY <1>0, <1>1, <1>4, InLoop DEF planVars, resultVars
  <2>2. merged' + batch' + 1 = next' + cursor'
    <3>1. /\ merged' = merged /\ cursor' = cursor
          /\ batch' = batch + 1 /\ next' = next + 1
      BY <1>4 DEF resultVars
    <3>2. /\ merged \in Nat /\ batch \in Nat /\ next \in Nat /\ cursor \in Nat
          /\ merged + batch + 1 = next + cursor
      BY <1>0, InLoop, Zenon
    <3>q. QED
      BY ONLY <3>1, <3>2
  <2>3. batch' <= workers' /\ cursor' <= batch' + 1
    <3>1. workers' = workers /\ batch' = batch + 1
      BY <1>4 DEF planVars
    <3>2. workers \in 1 .. 8
      BY <1>0, InLoop
    <3>q. QED
      BY ONLY <1>1, <2>1, <3>1, <3>2
  <2>q. QED
    BY <2>1, <2>2, <2>3 DEF Control, Setup, LongLived, After
<1>11. Admitted'
  BY <1>0, <1>4 DEF Admitted, planVars, JobBytes
<1>12. SlotsFilled'
  <2> SUFFICES ASSUME NEW s \in Slots
               PROVE  (IF pc \in Batching /\ s \in cursor .. batch
                       THEN Occupied(s) ELSE slots[s] = Idle)'
    BY DEF SlotsFilled
  <2>0. /\ pc' = pc /\ cursor' = cursor /\ merged' = merged
        /\ failed' = failed /\ tiles' = tiles /\ batch' = batch + 1
    BY <1>4 DEF resultVars, planVars
  <2>1. CASE s = batch + 1
    <3>1. slots'[s] = v
      BY <1>6, <2>1
    <3>2. /\ slots'[s].state = "queued" /\ slots'[s].tile = i
          /\ slots'[s].reserved = bytes
      BY <3>1
    <3>3. bytes = JobBytes(i)'
      BY <1>b, <2>0 DEF JobBytes
    <3>4. i + cursor = merged + s + 1
      <4>1. merged \in Nat /\ batch \in Nat /\ next \in Nat
        BY <1>0, InLoop, Zenon
      <4>q. QED
        BY ONLY <1>1, <1>i, <2>1, <4>1
    <3>6. /\ slots'[s].state # "idle" /\ slots'[s].state # "failed"
          /\ slots'[s].tile \notin failed'
          /\ slots'[s].tile + cursor' = merged' + s + 1
          /\ slots'[s].reserved = JobBytes(slots[s].tile)'
      <4>1. slots'[s].tile + cursor' = merged' + s + 1
        BY <2>0, <3>2, <3>4
      <4>2. slots'[s].reserved = JobBytes(slots[s].tile)'
        BY <3>2, <3>3 DEF JobBytes
      <4>q. QED
        BY <1>1, <2>0, <3>2, <4>1, <4>2
    <3>7. Occupied(s)'
      BY ONLY <3>6 DEF Occupied, JobBytes
    <3>5. s \in cursor' .. batch'
      BY <1>0, <1>1, <2>0, <2>1, InLoop
    <3>q. QED
      BY <1>0, <2>0, <3>7, <3>5
  <2>2. CASE s # batch + 1
    <3>1. slots'[s] = slots[s]
      BY <1>6, <2>2
    <3>2. s \in cursor' .. batch' <=> s \in cursor .. batch
      BY SMTT(30), <1>0, <1>1, <2>0, <2>2, InLoop
    <3>3. Occupied(s) => Occupied(s)'
      BY <2>0, <3>1 DEF Occupied, JobBytes
    <3>q. QED
      BY <1>0, <2>0, <3>1, <3>2, <3>3 DEF SlotsFilled
  <2>q. QED
    BY <2>1, <2>2
<1>13. FailedInBatch'
  BY <1>1, <1>4 DEF FailedInBatch, resultVars
<1>14. BudgetExact'
  BY <1>8
<1>15. NoLateRefusal' /\ FirstErrorWins' /\ Complete'
  BY <1>4 DEF NoLateRefusal, FirstErrorWins, Complete, resultVars
<1>q. QED
  BY <1>9, <1>10, <1>11, <1>12, <1>13, <1>14, <1>15


\* A failed read of a payload ends the call with the error of that tile: the
\* jobs gathered before it have not started.
LEMMA FailReadIInv ==
    ASSUME IInv, FailRead
    PROVE  IInv'
<1> USE DEF IInv
<1>1. /\ pc = "gather" /\ pc \in Batching /\ next < Count
      /\ Return("error") /\ blame' = next + 1
  BY DEF FailRead, Batching, MoreJobs
<1>2. cursor = 1 /\ failed = {}
  BY <1>1 DEF Control, FailedInBatch
<1>3. /\ merged \in Nat /\ batch \in Nat /\ next \in Nat /\ Count \in Nat
      /\ merged + batch + 1 = next + cursor
  BY <1>1, InLoop, Zenon
<1>4. PICK b \in 0 .. Count : b = next + 1 /\ merged < b
  <2>1. next + 1 \in 0 .. Count /\ merged < next + 1
    BY ONLY <1>1, <1>2, <1>3
  <2>q. QED
    BY <2>1
<1>5. failed' = {} /\ merged' = merged /\ blame' = b
  BY <1>1, <1>2, <1>4 DEF Return
<1>6. FirstErrorWins'
  BY <1>4, <1>5 DEF FirstErrorWins
<1>7. "error" \in Outcomes
  BY DEF Outcomes
<1>q. QED
  BY <1>1, <1>4, <1>5, <1>6, <1>7, ReturnIInv

\* Running a batch and collecting it only move the calling thread.
LEMMA RunIInv ==
    ASSUME IInv, RunBatch \/ CollectResults
    PROVE  IInv'
<1> USE DEF IInv
<1>1. /\ pc \in Batching /\ pc' \in {"run", "merge"}
      /\ pc = "gather" => pc' = "run"
      /\ pc # "gather" => pc' = "merge"
      /\ UNCHANGED <<budgetVars, planVars, batchVars, resultVars, outcome>>
  BY DEF RunBatch, CollectResults, Batching
<1>2. /\ pc' \in Batching /\ pc' \notin Setup \cup {"gather", "returned"}
      /\ pc # "returned" /\ pc \in Planned
  BY <1>1, InLoop DEF Batching, Setup, LongLived, After, Planned
<1>3. TypeOK'
  BY <1>1, <1>2 DEF TypeOK, budgetVars, planVars, batchVars, resultVars
<1>4. Control'
  BY <1>1, <1>2 DEF Control, planVars, batchVars, resultVars
<1>5. Admitted'
  BY <1>1, <1>2 DEF Admitted, JobBytes, budgetVars, planVars, Batching
<1>6. SlotsFilled'
  BY <1>1, <1>2 DEF SlotsFilled, Occupied, JobBytes, planVars, batchVars,
     resultVars
<1>7. FailedInBatch' /\ BudgetExact'
  BY <1>1, <1>2 DEF FailedInBatch, BudgetExact, budgetVars, batchVars,
     resultVars
<1>8. NoLateRefusal' /\ FirstErrorWins' /\ Complete'
  BY <1>1 DEF NoLateRefusal, FirstErrorWins, Complete, resultVars
<1>q. QED
  BY <1>3, <1>4, <1>5, <1>6, <1>7, <1>8

\* The results of a batch come in tile order: the failed one at the cursor is
\* the first that failed.
LEMMA ReturnErrorIInv ==
    ASSUME IInv, ReturnError
    PROVE  IInv'
<1> USE DEF IInv
<1>1. /\ pc = "merge" /\ pc \in Batching /\ cursor <= batch
      /\ slots[cursor].state = "failed"
      /\ Return("error") /\ blame' = slots[cursor].tile
  BY DEF ReturnError, Batching
<1>2. cursor \in Slots /\ cursor \in cursor .. batch
  <2>1. cursor \in 1 .. 9 /\ batch \in 0 .. 8 /\ Slots = 1 .. 8
    BY <1>1, InLoop, Zenon
  <2>2. cursor \in 1 .. 8 /\ cursor \in cursor .. batch
    BY ONLY <1>1, <2>1
  <2>q. QED
    BY <2>1, <2>2
<1>3. slots[cursor].tile + cursor = merged + cursor + 1
  BY <1>1, <1>2 DEF SlotsFilled, Occupied
<1>4. PICK b \in 0 .. Count : b = slots[cursor].tile
  BY <1>1, <1>2, InLoop DEF SlotType
<1>5. merged < b /\ merged = b - 1 /\ merged + 1 = b
  <2>1. merged \in Nat /\ cursor \in Nat /\ Count \in Nat
    BY <1>1, InLoop, Zenon
  <2>2. b + cursor = merged + cursor + 1
    BY <1>3, <1>4
  <2>q. QED
    BY ONLY <1>4, <2>1, <2>2
<1>6. \A t \in failed : b <= t
  <2> SUFFICES ASSUME NEW t \in failed PROVE b <= t
    OBVIOUS
  <2>1. merged < t
    BY <1>1 DEF FailedInBatch
  <2>2. t \in 1 .. Count /\ merged \in Nat /\ Count \in Nat
    BY <1>1, InLoop DEF TypeOK
  <2>q. QED
    BY ONLY <1>4, <1>5, <2>1, <2>2
<1>7. failed' = failed /\ merged' = merged /\ blame' = b
  BY <1>1, <1>4 DEF Return
<1>8. FirstErrorWins'
  BY <1>5, <1>6, <1>7 DEF FirstErrorWins
<1>9. "error" \in Outcomes
  BY DEF Outcomes
<1>q. QED
  BY <1>1, <1>4, <1>7, <1>8, <1>9, ReturnIInv

\* A batch without failures is merged to its end, and leaves nothing behind.
LEMMA NextBatchIInv ==
    ASSUME IInv, NextBatch
    PROVE  IInv'
<1> USE DEF IInv
<1>1. /\ pc = "merge" /\ pc \in Batching /\ cursor > batch
      /\ pc' = "gather" /\ batch' = 0 /\ cursor' = 1
      /\ UNCHANGED <<budgetVars, planVars, next, slots, resultVars, outcome>>
  BY DEF NextBatch, Batching
<1>2. merged = next
  <2>1. /\ merged \in Nat /\ batch \in Nat /\ next \in Nat /\ cursor \in Nat
        /\ cursor <= batch + 1 /\ merged + batch + 1 = next + cursor
    BY <1>1, InLoop, Zenon
  <2>q. QED
    BY ONLY <1>1, <2>1
<1>3. failed = {}
  <2> SUFFICES ASSUME NEW t \in failed PROVE FALSE
    OBVIOUS
  <2>1. merged < t /\ t <= next
    BY <1>1 DEF FailedInBatch
  <2>2. t \in 1 .. Count /\ next \in Nat /\ Count \in Nat
    BY <1>1, InLoop DEF TypeOK
  <2>q. QED
    BY ONLY <1>2, <2>1, <2>2
<1>4. \A s \in Slots : slots[s] = Idle
  <2> SUFFICES ASSUME NEW s \in Slots PROVE slots[s] = Idle
    OBVIOUS
  <2>1. cursor \in Nat /\ batch \in Nat
    BY <1>1, InLoop, Zenon
  <2>2. s \notin cursor .. batch
    BY ONLY <1>1, <2>1
  <2>q. QED
    BY <2>2 DEF SlotsFilled
<1>5. TypeOK'
  BY <1>1 DEF TypeOK, budgetVars, planVars, resultVars, Batching, MaxJobs
<1>6. Control'
  <2>1. /\ merged' = next' /\ blame' = 0 /\ outcome' = "none"
        /\ Len(tiles') = Count /\ workers' \in 1 .. 8 /\ next' \in Nat
    BY <1>1, <1>2, InLoop DEF planVars, resultVars
  <2>2. merged' + batch' + 1 = next' + cursor'
    BY <1>1, <2>1
  <2>3. cursor' <= batch' + 1 /\ batch' <= workers'
    BY <1>1, <2>1
  <2>4. pc' \notin Setup
    BY <1>1 DEF Setup, LongLived, After
  <2>q. QED
    BY <1>1, <2>1, <2>2, <2>3, <2>4 DEF Control
<1>7. Admitted'
  BY <1>1 DEF Admitted, JobBytes, budgetVars, planVars, Batching
<1>8. SlotsFilled'
  BY <1>1, <1>4 DEF SlotsFilled
<1>9. FailedInBatch' /\ BudgetExact'
  BY <1>1, <1>3 DEF FailedInBatch, BudgetExact, budgetVars, resultVars
<1>10. NoLateRefusal' /\ FirstErrorWins' /\ Complete'
  BY <1>1 DEF NoLateRefusal, FirstErrorWins, Complete, resultVars
<1>q. QED
  BY <1>5, <1>6, <1>7, <1>8, <1>9, <1>10

\* An image is returned when every tile has been merged.
LEMMA ReturnImageIInv ==
    ASSUME IInv, ReturnImage
    PROVE  IInv'
<1> USE DEF IInv
<1>1. /\ pc = "gather" /\ pc \in Batching /\ batch = 0 /\ next = Count
      /\ Return("image") /\ UNCHANGED blame
  BY DEF ReturnImage, Batching
<1>2. cursor = 1 /\ failed = {} /\ blame = 0
  BY <1>1, InLoop DEF Control, FailedInBatch
<1>3. merged = Count
  <2>1. /\ merged \in Nat /\ batch \in Nat /\ next \in Nat /\ cursor \in Nat
        /\ merged + batch + 1 = next + cursor
    BY <1>1, InLoop, Zenon
  <2>q. QED
    BY ONLY <1>1, <1>2, <2>1
<1>4. FirstErrorWins' /\ blame' \in 0 .. Count
  BY <1>1, <1>2, SizesAssumption DEF FirstErrorWins
<1>5. "image" \in Outcomes
  BY DEF Outcomes
<1>q. QED
  BY <1>1, <1>2, <1>3, <1>4, <1>5, ReturnIInv

\* Merging a result releases exactly what its job had reserved.
LEMMA MergeIInv ==
    ASSUME IInv, MergeResult
    PROVE  IInv'
<1> USE DEF IInv
<1>1. /\ pc = "merge" /\ pc \in Batching /\ cursor <= batch
      /\ slots[cursor].state = "done"
      /\ used' = used - slots[cursor].reserved
      /\ slots' = [slots EXCEPT ![cursor] = Idle]
      /\ cursor' = cursor + 1 /\ merged' = merged + 1
      /\ rows' = IF slots[cursor].tile % Columns = 0 THEN rows + 1 ELSE rows
      /\ UNCHANGED <<limit, base, pc, planVars, next, batch, rendered, failed,
                     blame, outcome>>
  BY DEF MergeResult, Batching
<1>2. /\ cursor \in Slots /\ cursor \in cursor .. batch /\ cursor + 1 \in 1 .. 9
      /\ merged \in Nat /\ batch \in Nat /\ next \in Nat /\ cursor \in Nat
      /\ merged + batch + 1 = next + cursor /\ merged + 1 \in 0 .. Count
      /\ cursor + 1 <= batch + 1
      /\ merged + 1 + batch + 1 = next + (cursor + 1)
  <2>1. /\ cursor \in 1 .. 9 /\ batch \in 0 .. 8 /\ Slots = 1 .. 8
        /\ merged \in Nat /\ batch \in Nat /\ next \in Nat /\ cursor \in Nat
        /\ merged + batch + 1 = next + cursor
        /\ Count \in Nat /\ next \in 0 .. Count
    BY <1>1, InLoop, Zenon
  <2>2. cursor \in 1 .. 8 /\ cursor \in cursor .. batch /\ cursor + 1 \in 1 .. 9
    BY ONLY <1>1, <2>1
  <2>3. /\ merged + 1 \in 0 .. Count /\ cursor + 1 <= batch + 1
        /\ merged + 1 + batch + 1 = next + (cursor + 1)
    BY ONLY <1>1, <2>1
  <2>q. QED
    BY <2>1, <2>2, <2>3
<1>3. Occupied(cursor)
  BY <1>1, <1>2 DEF SlotsFilled
<1>4. slots[cursor].tile = merged + 1 /\ merged + 1 \notin failed
  <2>1. PICK t \in Nat : t = slots[cursor].tile
    BY <1>1, <1>2, InLoop DEF SlotType
  <2>2. t + cursor = merged + cursor + 1 /\ t \notin failed
    BY <1>1, <1>3, <2>1 DEF Occupied
  <2>3. t = merged + 1
    BY ONLY <1>2, <2>1, <2>2
  <2>q. QED
    BY <2>1, <2>2, <2>3
<1>5. /\ slots' \in [Slots -> SlotType]
      /\ slots'[cursor] = Idle
      /\ \A r \in Slots : r # cursor => slots'[r] = slots[r]
      /\ InFlight(slots') + slots[cursor].reserved
           = InFlight(slots) + Idle.reserved
      /\ InFlight(slots') \in Nat /\ InFlight(slots) \in Nat
      /\ slots[cursor].reserved \in Nat
  <2>1. slots \in [Slots -> SlotType]
    BY <1>1, InLoop
  <2>q. QED
    BY <1>1, <1>2, <2>1, IdleSlot, SlotReplaced, Zenon
<1>6. BudgetExact' /\ used' \in Nat
  <2>1. PICK n \in Nat : n = InFlight(slots')
    BY <1>5
  <2>2. PICK m \in Nat : m = InFlight(slots)
    BY <1>5
  <2>3. PICK d \in Nat : d = slots[cursor].reserved
    BY <1>5
  <2>4. n + d = m + 0
    BY <1>5, <2>1, <2>2, <2>3 DEF Idle
  <2>5. used = base + m /\ used \in Nat /\ base \in Nat /\ limit \in Nat
        /\ used <= limit
    BY <1>1, <2>2, InLoop, Zenon
  <2>6. used - d = base + n /\ used - d \in Nat /\ used - d <= limit
    BY ONLY <2>1, <2>2, <2>3, <2>4, <2>5
  <2>7. used' = used - d
    BY <1>1, <2>3, Zenon
  <2>q. QED
    BY <1>1, <2>1, <2>6, <2>7, BudgetStep, Zenon
<1>7. TypeOK'
  <2>1. rows' \in Nat
    <3>1. rows \in Nat
      BY DEF TypeOK
    <3>2. rows + 1 \in Nat
      BY ONLY <3>1
    <3>q. QED
      BY <1>1, <3>1, <3>2, Zenon
  <2>2. merged' \in 0 .. Count /\ cursor' \in 1 .. MaxJobs + 1
    BY <1>1, <1>2 DEF MaxJobs
  <2>q. QED
    BY <1>1, <1>5, <1>6, <2>1, <2>2 DEF TypeOK, planVars
<1>8. Control'
  <2>1. merged' + batch' + 1 = next' + cursor'
    BY <1>1, <1>2, Zenon
  <2>2. cursor' <= batch' + 1
    BY <1>1, <1>2, Zenon
  <2>3. /\ pc' = "merge" /\ outcome' = "none" /\ blame' = 0
        /\ Len(tiles') = Count /\ workers' = workers /\ batch' = batch
        /\ batch <= workers
    BY <1>1, InLoop DEF planVars
  <2>q. QED
    BY <2>1, <2>2, <2>3 DEF Control, Setup, LongLived, After
<1>9. Admitted'
  BY <1>1 DEF Admitted, JobBytes, planVars
<1>10. SlotsFilled'
  <2> SUFFICES ASSUME NEW s \in Slots
               PROVE  (IF pc \in Batching /\ s \in cursor .. batch
                       THEN Occupied(s) ELSE slots[s] = Idle)'
    BY DEF SlotsFilled
  <2>0. /\ pc' = pc /\ failed' = failed /\ tiles' = tiles /\ batch' = batch
        /\ cursor' = cursor + 1 /\ merged' = merged + 1
    BY <1>1 DEF planVars
  <2>s. s \in Nat
    BY DEF Slots
  <2>1. CASE s = cursor
    <3>1. s \notin cursor + 1 .. batch
      BY ONLY <1>2, <2>1
    <3>2. slots'[s] = Idle
      BY <1>5, <2>1
    <3>q. QED
      BY <2>0, <3>1, <3>2
  <2>2. CASE s # cursor
    <3>1. slots'[s] = slots[s]
      BY <1>5, <2>2
    <3>2. s \in cursor + 1 .. batch <=> s \in cursor .. batch
      BY ONLY <1>2, <2>2, <2>s
    <3>3. ASSUME Occupied(s) PROVE Occupied(s)'
      <4>1. PICK t \in Nat : t = slots[s].tile
        BY <1>1, InLoop DEF SlotType
      <4>2. t + cursor = merged + s + 1
        BY <3>3, <4>1 DEF Occupied
      <4>3. t + (cursor + 1) = merged + 1 + s + 1
        BY ONLY <1>2, <2>s, <4>1, <4>2
      <4>4. (slots[s].tile + cursor = merged + s + 1)'
        BY <2>0, <3>1, <4>1, <4>3, Zenon
      <4>q. QED
        BY <2>0, <3>1, <3>3, <4>4 DEF Occupied, JobBytes
    <3>q. QED
      BY <1>1, <2>0, <3>1, <3>2, <3>3 DEF SlotsFilled
  <2>q. QED
    BY <2>1, <2>2
<1>11. FailedInBatch'
  <2>1. \A t \in failed : merged + 1 < t /\ t <= next
    <3> SUFFICES ASSUME NEW t \in failed PROVE merged + 1 < t /\ t <= next
      OBVIOUS
    <3>1. merged < t /\ t <= next /\ t # merged + 1
      BY <1>1, <1>4 DEF FailedInBatch
    <3>2. t \in Nat
      BY DEF TypeOK
    <3>q. QED
      BY ONLY <1>2, <3>1, <3>2
  <2>q. QED
    BY <1>1, <2>1 DEF FailedInBatch, Setup, LongLived, After
<1>12. NoLateRefusal' /\ FirstErrorWins' /\ Complete'
  BY <1>1, InLoop DEF NoLateRefusal, FirstErrorWins, Complete
<1>q. QED
  BY <1>6, <1>7, <1>8, <1>9, <1>10, <1>11, <1>12

\* What is known of a job while the pool runs the batch.
LEMMA RunningJob ==
    ASSUME IInv, pc = "run", NEW s \in Slots, slots[s].state # "idle"
    PROVE  /\ pc \in Batching /\ cursor = 1 /\ s \in cursor .. batch
           /\ Occupied(s)
           /\ slots[s] \in SlotType
           /\ slots[s].tile = merged + s
           /\ merged < slots[s].tile /\ slots[s].tile <= next
           /\ slots[s].tile \in 1 .. Count
<1> USE DEF IInv
<1>1. pc \in Batching /\ cursor = 1
  BY DEF Batching, Control
<1>2. s \in cursor .. batch /\ Occupied(s)
  BY <1>1 DEF SlotsFilled, Idle
<1>3. slots[s] \in SlotType
  BY <1>1, InLoop
<1>4. PICK t \in Nat : t = slots[s].tile
  BY <1>3 DEF SlotType
<1>5. t + cursor = merged + s + 1
  BY <1>2, <1>4 DEF Occupied
<1>6. /\ merged \in Nat /\ batch \in Nat /\ next \in Nat /\ Count \in Nat
      /\ merged + batch + 1 = next + cursor /\ next \in 0 .. Count
  BY <1>1, InLoop, Zenon
<1>7. s \in 1 .. batch
  BY <1>1, <1>2
<1>8. t = merged + s /\ merged < t /\ t <= next /\ t \in 1 .. Count
  BY ONLY <1>1, <1>4, <1>5, <1>6, <1>7
<1>q. QED
  BY <1>1, <1>2, <1>3, <1>4, <1>8

\* A step of one job keeps the invariant, whatever the others do: it goes on
\* with what it reserved, or fails and drops it.
LEMMA JobStep ==
    ASSUME IInv, pc = "run", NEW s \in Slots, NEW v \in SlotType,
           slots[s].state # "idle", slots[s].state # "failed",
           v.state # "idle", v.tile = slots[s].tile,
           slots' = [slots EXCEPT ![s] = v],
           \/ /\ v.state # "failed"
              /\ v.reserved = slots[s].reserved
              /\ used' = used /\ failed' = failed
           \/ /\ v.state = "failed"
              /\ v.reserved = 0
              /\ used' = used - slots[s].reserved
              /\ failed' = failed \cup {slots[s].tile},
           rendered' \subseteq 1 .. Count,
           UNCHANGED <<limit, base, pc, planVars, next, batch, cursor, merged,
                       rows, blame, outcome>>
    PROVE  IInv'
<1> USE DEF IInv
<1>1. /\ pc \in Batching /\ cursor = 1 /\ s \in cursor .. batch /\ Occupied(s)
      /\ slots[s].tile = merged + s /\ slots[s].tile \in 1 .. Count
      /\ merged < slots[s].tile /\ slots[s].tile <= next
      /\ slots \in [Slots -> SlotType]
  BY RunningJob, InLoop
<1>2. /\ slots' \in [Slots -> SlotType]
      /\ slots'[s] = v
      /\ \A r \in Slots : r # s => slots'[r] = slots[r]
      /\ InFlight(slots') + slots[s].reserved = InFlight(slots) + v.reserved
      /\ InFlight(slots') \in Nat /\ InFlight(slots) \in Nat
      /\ slots[s].reserved \in Nat /\ v.reserved \in Nat
  BY <1>1, SlotReplaced
<1>3. BudgetExact' /\ used' \in Nat
  <2>1. PICK n \in Nat : n = InFlight(slots')
    BY <1>2
  <2>2. PICK m \in Nat : m = InFlight(slots)
    BY <1>2
  <2>3. PICK d \in Nat : d = slots[s].reserved
    BY <1>2
  <2>4. used = base + m /\ used \in Nat /\ base \in Nat /\ limit \in Nat
        /\ used <= limit
    BY <1>1, <2>2, InLoop, Zenon
  <2>5. PICK e \in Nat : e = v.reserved
    BY <1>2
  <2>6. n + d = m + e
    BY <1>2, <2>1, <2>2, <2>3, <2>5, Zenon
  <2>7. CASE v.reserved = slots[s].reserved /\ used' = used
    <3>1. e = d
      BY <2>3, <2>5, <2>7, Zenon
    <3>2. n = m
      BY ONLY <2>1, <2>2, <2>3, <2>6, <3>1
    <3>3. used = base + n
      BY <2>4, <3>2, Zenon
    <3>q. QED
      BY <2>1, <2>4, <2>7, <3>3, BudgetStep, Zenon
  <2>8. CASE v.reserved = 0 /\ used' = used - slots[s].reserved
    <3>1. e = 0
      BY <2>5, <2>8, Zenon
    <3>2. used - d = base + n /\ used - d \in Nat /\ used - d <= limit
      BY ONLY <2>1, <2>2, <2>3, <2>4, <2>5, <2>6, <3>1
    <3>3. used' = used - d
      BY <2>3, <2>8, Zenon
    <3>q. QED
      BY <2>1, <3>2, <3>3, BudgetStep, Zenon
  <2>q. QED
    BY <2>7, <2>8
<1>4. TypeOK'
  <2>1. failed' \subseteq 1 .. Count
    BY <1>1 DEF TypeOK
  <2>q. QED
    BY <1>2, <1>3, <2>1 DEF TypeOK, planVars
<1>5. Control' /\ Admitted'
  BY <1>1 DEF Control, Admitted, JobBytes, planVars, Setup, LongLived, After
<1>6. SlotsFilled'
  <2> SUFFICES ASSUME NEW r \in Slots
               PROVE  (IF pc \in Batching /\ r \in cursor .. batch
                       THEN Occupied(r) ELSE slots[r] = Idle)'
    BY DEF SlotsFilled
  <2>0. /\ pc' = pc /\ cursor' = cursor /\ merged' = merged
        /\ tiles' = tiles /\ batch' = batch
    BY DEF planVars
  <2>1. CASE r = s
    <3>1. slots'[r] = v
      BY <1>2, <2>1
    <3>2. Occupied(r)'
      BY <1>1, <2>0, <2>1, <3>1 DEF Occupied, JobBytes
    <3>q. QED
      BY <1>1, <2>0, <2>1, <3>2
  <2>2. CASE r # s
    <3>1. slots'[r] = slots[r]
      BY <1>2, <2>2
    <3>2. ASSUME Occupied(r) PROVE Occupied(r)'
      <4>1. slots[r].tile # slots[s].tile
        <5>1. slots[r].tile = merged + r
          BY <3>2, RunningJob DEF Occupied
        <5>2. merged \in Nat /\ r \in Nat /\ s \in Nat
          BY <1>1, InLoop DEF Slots
        <5>3. merged + r # merged + s
          BY ONLY <2>2, <5>2
        <5>q. QED
          BY <1>1, <5>1, <5>3
      <4>2. slots[r].tile \notin failed => slots[r].tile \notin failed'
        BY <4>1
      <4>q. QED
        BY <2>0, <3>1, <3>2, <4>2 DEF Occupied, JobBytes
    <3>q. QED
      BY <1>1, <2>0, <3>1, <3>2 DEF SlotsFilled
  <2>q. QED
    BY <2>1, <2>2
<1>7. FailedInBatch'
  BY <1>1 DEF FailedInBatch, Setup, LongLived, After
<1>8. NoLateRefusal' /\ FirstErrorWins' /\ Complete'
  BY <1>1, InLoop DEF NoLateRefusal, FirstErrorWins, Complete
<1>q. QED
  BY <1>3, <1>4, <1>5, <1>6, <1>7, <1>8

\* The steps of a worker.
LEMMA WorkerIInv ==
    ASSUME IInv, NEW s \in Slots, Worker(s)
    PROVE  IInv'
<1> USE DEF IInv
<1>1. /\ pc = "run" /\ slots[s].state \in {"queued", "decoding"}
      /\ slots[s].state # "idle" /\ slots[s].state # "failed"
      /\ UNCHANGED <<limit, base, pc, planVars, next, batch, cursor, merged,
                     rows, blame, outcome>>
  BY DEF Worker, SkipHidden, StartDecode, FinishDecode, FailDecode,
         budgetVars, resultVars
<1>2. /\ Occupied(s) /\ slots[s] \in SlotType /\ slots[s].tile \in 1 .. Count
      /\ pc \in Batching
  BY <1>1, RunningJob
<1>3. slots \in [Slots -> SlotType] /\ rendered \subseteq 1 .. Count
  BY DEF TypeOK
<1>4. CASE SkipHidden(s) \/ FinishDecode(s)
  <2> DEFINE v == [slots[s] EXCEPT !.state = "done"]
  <2>1. /\ slots' = [slots EXCEPT ![s] = v]
        /\ used' = used /\ failed' = failed /\ rendered' = rendered
    BY <1>3, <1>4 DEF SkipHidden, FinishDecode, budgetVars, resultVars
  <2>2. /\ v \in SlotType /\ v.state = "done" /\ v.tile = slots[s].tile
        /\ v.reserved = slots[s].reserved
    BY <1>2 DEF SlotType, JobStates
  <2> HIDE DEF v
  <2>q. QED
    BY <1>1, <1>3, <2>1, <2>2, JobStep
<1>5. CASE StartDecode(s)
  <2> DEFINE v == [slots[s] EXCEPT !.state = "decoding"]
  <2>1. /\ slots' = [slots EXCEPT ![s] = v]
        /\ used' = used /\ failed' = failed
        /\ rendered' = rendered \cup {slots[s].tile}
    BY <1>3, <1>5 DEF StartDecode, budgetVars
  <2>2. /\ v \in SlotType /\ v.state = "decoding" /\ v.tile = slots[s].tile
        /\ v.reserved = slots[s].reserved
    BY <1>2 DEF SlotType, JobStates
  <2>3. rendered' \subseteq 1 .. Count
    BY <1>2, <1>3, <2>1
  <2> HIDE DEF v
  <2>q. QED
    BY <1>1, <1>3, <2>1, <2>2, <2>3, JobStep
<1>6. CASE FailDecode(s)
  <2> DEFINE v == [slots[s] EXCEPT !.state = "failed", !.reserved = 0]
  <2>1. /\ slots' = [slots EXCEPT ![s] = v]
        /\ used' = used - slots[s].reserved
        /\ failed' = failed \cup {slots[s].tile} /\ rendered' = rendered
    BY <1>3, <1>6 DEF FailDecode
  <2>2. /\ v \in SlotType /\ v.state = "failed" /\ v.tile = slots[s].tile
        /\ v.reserved = 0
    BY <1>2 DEF SlotType, JobStates
  <2> HIDE DEF v
  <2>q. QED
    BY <1>1, <1>3, <2>1, <2>2, JobStep
<1>q. QED
  BY <1>4, <1>5, <1>6 DEF Worker

\* A stutter keeps it.
LEMMA StutterIInv ==
    ASSUME IInv, UNCHANGED vars
    PROVE  IInv'
  BY DEF vars, budgetVars, planVars, batchVars, resultVars, IInv, TypeOK,
     Control, Admitted, SlotsFilled, Occupied, JobBytes, FailedInBatch,
     BudgetExact, NoLateRefusal, FirstErrorWins, Complete

\* Every step keeps it.
LEMMA NextIInv ==
    ASSUME IInv, [Next]_vars
    PROVE  IInv'
<1>1. CASE \/ CheckOptions \/ ReserveLongLived \/ RefuseInput
           \/ PreflightTile \/ FinishPreflight \/ ReadExif
  BY <1>1, SetupIInv
<1>2. CASE Admit \/ SizePool
  BY <1>2, AdmissionIInv
<1>3. CASE GatherJob
  BY <1>3, GatherIInv
<1>4. CASE FailRead
  BY <1>4, FailReadIInv
<1>5. CASE RunBatch \/ CollectResults
  BY <1>5, RunIInv
<1>6. CASE MergeResult
  BY <1>6, MergeIInv
<1>7. CASE ReturnError
  BY <1>7, ReturnErrorIInv
<1>8. CASE NextBatch
  BY <1>8, NextBatchIInv
<1>9. CASE ReturnImage
  BY <1>9, ReturnImageIInv
<1>10. CASE \E s \in Slots : Worker(s)
  BY <1>10, WorkerIInv
<1>11. CASE Returned \/ UNCHANGED vars
  BY <1>11, StutterIInv DEF Returned
<1>q. QED
  BY <1>1, <1>2, <1>3, <1>4, <1>5, <1>6, <1>7, <1>8, <1>9, <1>10, <1>11
  DEF Next, Caller

\* The inductive invariant holds in every reachable state.
THEOREM Invariant == Spec => []IInv
<1>1. Init => IInv
  BY InitIInv
<1>2. IInv /\ [Next]_vars => IInv'
  BY NextIInv
<1>q. QED
  BY <1>1, <1>2, PTL DEF Spec

-----------------------------------------------------------------------------
\* The counters of the calling thread and of the pool keep their types.
THEOREM TypeCorrect == Spec => []TypeOK
<1>1. IInv => TypeOK
  BY DEF IInv
<1>q. QED
  BY <1>1, Invariant, PTL

\* For any number of tiles and any sizes, the budget's counter is the sum of
\* the live reservations and never passes the limit (memory.rs).
THEOREM BudgetSafe == Spec => []BudgetExact
<1>1. IInv => BudgetExact
  BY DEF IInv
<1>q. QED
  BY <1>1, Invariant, PTL

\* What admission reserves suffices for every later step: an input that does
\* not fit is refused before any pixel is decoded.
THEOREM RefusalBeforePixels == Spec => []NoLateRefusal
<1>1. IInv => NoLateRefusal
  BY DEF IInv
<1>q. QED
  BY <1>1, Invariant, PTL

\* The error a caller sees does not depend on how the pool schedules a batch.
THEOREM FirstErrorReported == Spec => []FirstErrorWins
<1>1. IInv => FirstErrorWins
  BY DEF IInv
<1>q. QED
  BY <1>1, Invariant, PTL

-----------------------------------------------------------------------------
\* The rows flushed are those of which every tile has been merged.
RowsCounted == rows = merged \div Columns

\* Dividing the next number by k counts one more exactly at a multiple of k.
LEMMA NextQuotient ==
    ASSUME NEW m \in Nat, NEW k \in Nat \ {0}
    PROVE  (m + 1) \div k = IF (m + 1) % k = 0 THEN m \div k + 1 ELSE m \div k
<1>1. m = (k * (m \div k)) + (m % k) /\ m % k \in 0 .. k - 1
  OBVIOUS
<1>q. QED
  BY <1>1

\* The tile that is merged next is the first that is not merged, so a row is
\* flushed with its last tile whatever the order in which the jobs ended.
LEMMA MergeCounts ==
    ASSUME IInv, RowsCounted, MergeResult
    PROVE  RowsCounted'
<1>1. /\ cursor \in 1 .. MaxJobs + 1 /\ batch \in 0 .. MaxJobs /\ cursor <= batch
      /\ merged \in Nat /\ Columns \in Nat \ {0} /\ slots \in [Slots -> SlotType]
  BY SizesAssumption DEF IInv, TypeOK, MergeResult
<1>2. cursor \in Slots /\ cursor \in cursor .. batch /\ cursor \in Nat
  BY <1>1 DEF Slots, MaxJobs
<1>3. Occupied(cursor)
  BY <1>2 DEF IInv, SlotsFilled, MergeResult, Batching
<1>4. slots[cursor].tile = merged + 1
  <2>1. PICK t \in Nat : t = slots[cursor].tile
    BY <1>1, <1>2, SizesAssumption DEF SlotType
  <2>2. t + cursor = merged + cursor + 1
    BY <1>3, <2>1 DEF Occupied
  <2>3. t = merged + 1
    BY ONLY <1>1, <1>2, <2>1, <2>2
  <2>q. QED
    BY <2>1, <2>3
<1>5. rows' = IF (merged + 1) % Columns = 0 THEN rows + 1 ELSE rows
  BY <1>4 DEF MergeResult
<1>6. merged' = merged + 1
  BY DEF MergeResult
<1>7. (merged + 1) \div Columns =
        IF (merged + 1) % Columns = 0 THEN merged \div Columns + 1
                                      ELSE merged \div Columns
  BY <1>1, NextQuotient
<1>8. rows = merged \div Columns
  BY DEF RowsCounted
<1>9. rows' = (merged + 1) \div Columns
  BY <1>5, <1>7, <1>8, Zenon
<1>q. QED
  BY <1>6, <1>9 DEF RowsCounted

\* No other step merges a tile or flushes a row.
LEMMA NextCounts ==
    ASSUME IInv, RowsCounted, [Next]_vars
    PROVE  RowsCounted'
<1>1. CASE MergeResult
  BY <1>1, MergeCounts
<1>2. CASE UNCHANGED <<merged, rows>>
  BY <1>2 DEF RowsCounted
<1>3. ASSUME NEW result, Return(result)
      PROVE  UNCHANGED <<merged, rows>>
  BY <1>3 DEF Return
<1>4. CASE \/ CheckOptions \/ ReserveLongLived \/ RefuseInput
           \/ PreflightTile \/ FinishPreflight \/ ReadExif \/ Admit
  BY <1>2, <1>3, <1>4 DEF CheckOptions, ReserveLongLived, RefuseInput, PreflightTile,
     FinishPreflight, ReadExif, Admit, resultVars
<1>5. CASE \/ SizePool \/ GatherJob \/ FailRead \/ RunBatch \/ CollectResults
           \/ ReturnError \/ NextBatch \/ ReturnImage
  BY <1>2, <1>3, <1>5 DEF SizePool, GatherJob, FailRead, RunBatch, CollectResults,
     ReturnError, NextBatch, ReturnImage, resultVars
<1>6. ASSUME NEW s \in Slots, Worker(s)
      PROVE  UNCHANGED <<merged, rows>>
  BY <1>6 DEF Worker, SkipHidden, StartDecode, FinishDecode, FailDecode, resultVars
<1>7. CASE Returned \/ UNCHANGED vars
  BY <1>2, <1>7 DEF Returned, vars, resultVars
<1>q. QED
  BY <1>1, <1>2, <1>4, <1>5, <1>6, <1>7 DEF Next, Caller

\* The boundary sums of a row are flushed exactly with its last tile, and an
\* image is returned only when every tile has been merged and none has failed.
THEOREM ImageIsComplete == Spec => []ImageComplete
<1>1. Init => RowsCounted
  BY SizesAssumption DEF Init, RowsCounted
<1>2. IInv /\ RowsCounted /\ [Next]_vars => RowsCounted'
  BY NextCounts
<1>3. IInv /\ RowsCounted => ImageComplete
  BY DEF IInv, RowsCounted, Complete, ImageComplete
<1>q. QED
  BY <1>1, <1>2, <1>3, Invariant, PTL DEF Spec

-----------------------------------------------------------------------------
(* HevcHeaders.                                                            *)

\* No step of either decoder changes what a parameter set or a slice header that
\* is parsed again would give: the parsers read the syntax elements alone.
LEMMA SpsKept ==
    ASSUME coded' = coded
    PROVE  \A bounded : ParseSps(bounded)' = ParseSps(bounded)
<1>1. \A f : On(f)' = On(f)
  BY DEF On
<1>2. \A f, names : When(f, names)' = When(f, names)
  BY <1>1 DEF When
<1>3. \A f, v : Or0(f, v)' = Or0(f, v)
  BY <1>1 DEF Or0
<1>4. SpsElements' = SpsElements
  BY <1>2 DEF SpsElements
<1>5. PassedOverRefused' = PassedOverRefused
  BY <1>1 DEF PassedOverRefused
<1>6. \A s : SpsPicture(s)' = SpsPicture(s)
  BY <1>1, <1>3 DEF SpsPicture
<1>7. \A s : SpsTools(s)' = SpsTools(s)
  BY <1>1 DEF SpsTools
<1>8. \A s : SpsColour(s)' = SpsColour(s)
  BY <1>1 DEF SpsColour
<1>9. RextTool' = RextTool
  BY <1>1 DEF RextTool
<1>10. Narrowed(coded, SpsElements, {})' = Narrowed(coded, SpsElements, {})
  BY <1>4 DEF Narrowed
<1>11. Overflows(coded, SpsElements, {})' = Overflows(coded, SpsElements, {})
  BY <1>4 DEF Overflows
<1>12. ListsRefused(coded.sps_lists)' = ListsRefused(coded.sps_lists)
  OBVIOUS
<1>q. QED
  BY <1>1, <1>5, <1>6, <1>7, <1>8, <1>9, <1>10, <1>11, <1>12 DEF ParseSps

\* The same for parse_pps.
LEMMA PpsKept ==
    ASSUME coded' = coded
    PROVE  \A bounded : ParsePps(bounded)' = ParsePps(bounded)
<1>1. \A f : On(f)' = On(f)
  BY DEF On
<1>2. \A f, names : When(f, names)' = When(f, names)
  BY <1>1 DEF When
<1>3. \A f, v : Or0(f, v)' = Or0(f, v)
  BY <1>1 DEF Or0
<1>4. PpsElements' = PpsElements
  BY <1>2 DEF PpsElements
<1>5. PpsDeblocks' = PpsDeblocks
  BY <1>1 DEF PpsDeblocks
<1>6. PpsSigned' = PpsSigned
  BY <1>5 DEF PpsSigned
<1>7. \A b : TilesRefused(b)' = TilesRefused(b)
  BY <1>1 DEF TilesRefused
<1>8. \A p : PpsExtensionRefused(p)' = PpsExtensionRefused(p)
  BY <1>1 DEF PpsExtensionRefused
<1>9. \A p : PpsQp(p)' = PpsQp(p)
  BY <1>1, <1>3 DEF PpsQp
<1>10. \A p : PpsFilter(p)' = PpsFilter(p)
  BY <1>1, <1>5 DEF PpsFilter
<1>11. Narrowed(coded, PpsElements, PpsSigned)' = Narrowed(coded, PpsElements, PpsSigned)
  BY <1>4, <1>6 DEF Narrowed
<1>12. Overflows(coded, PpsElements, PpsSigned)'
           = Overflows(coded, PpsElements, PpsSigned)
  BY <1>4, <1>6 DEF Overflows
<1>q. QED
  BY <1>1, <1>7, <1>8, <1>9, <1>10, <1>11, <1>12 DEF ParsePps

\* The same for the slice header.
LEMMA SliceKept ==
    ASSUME coded' = coded
    PROVE  \A sps, pps, bounded :
               ParseSlice(sps, pps, bounded)' = ParseSlice(sps, pps, bounded)
<1>1. \A f : On(f)' = On(f)
  BY DEF On
<1>2. \A p : SliceDeblocks(p)' = SliceDeblocks(p)
  BY <1>1 DEF SliceDeblocks
<1>3. \A p : SliceSigned(p)' = SliceSigned(p)
  BY <1>1, <1>2 DEF SliceSigned
<1>4. \A s : ReferencesRefused(s)' = ReferencesRefused(s)
  BY <1>1 DEF ReferencesRefused
<1>5. \A s, p : EntryPointsRefused(s, p)' = EntryPointsRefused(s, p)
  BY DEF EntryPointsRefused
<1>6. \A h, p : SliceFilter(h, p)' = SliceFilter(h, p)
  BY <1>1, <1>2 DEF SliceFilter
<1>7. \A p : Narrowed(coded, SliceUnsigned, SliceSigned(p))'
               = Narrowed(coded, SliceUnsigned, SliceSigned(p))
  BY <1>3 DEF Narrowed
<1>8. \A p : Overflows(coded, SliceUnsigned, SliceSigned(p))'
               = Overflows(coded, SliceUnsigned, SliceSigned(p))
  BY <1>3 DEF Overflows
<1>q. QED
  BY <1>1, <1>4, <1>5, <1>6, <1>7, <1>8 DEF ParseSlice

\* The same for the two decoders, which read nothing but what is parsed.
LEMMA DecodersKept ==
    ASSUME coded' = coded
    PROVE  PreparedNew' = PreparedNew /\ DecodeNalUnits' = DecodeNalUnits
<1>1. \A f : On(f)' = On(f)
  BY DEF On
<1>2. VpsRefused' = VpsRefused
  BY DEF VpsRefused
<1>3. \A p : SliceStartRefused(p)' = SliceStartRefused(p)
  BY <1>1 DEF SliceStartRefused
<1>4. \A s : SliceRefused(s)' = SliceRefused(s)
  BY <1>1 DEF SliceRefused
<1>5. /\ ParseSps(TRUE)' = ParseSps(TRUE) /\ ParseSps(FALSE)' = ParseSps(FALSE)
      /\ ParsePps(TRUE)' = ParsePps(TRUE) /\ ParsePps(FALSE)' = ParsePps(FALSE)
  BY SpsKept, PpsKept
<1>6. /\ ParseSlice(ParseSps(TRUE), ParsePps(TRUE), TRUE)'
            = ParseSlice(ParseSps(TRUE), ParsePps(TRUE), TRUE)
      /\ ParseSlice(ParseSps(FALSE), ParsePps(FALSE), FALSE)'
            = ParseSlice(ParseSps(FALSE), ParsePps(FALSE), FALSE)
  BY <1>5, SliceKept
<1>7. PreparedNew' = PreparedNew
  BY <1>2, <1>3, <1>4, <1>5, <1>6, coded' = coded DEF PreparedNew
<1>8. DecodeNalUnits' = DecodeNalUnits
  BY <1>2, <1>5, <1>6 DEF DecodeNalUnits
<1>q. QED
  BY <1>7, <1>8

\* The syntax elements that are narrowed are numbers; of the others nothing is
\* assumed.
ElementsTyped ==
    /\ coded = [n \in DOMAIN coded |-> coded[n]]
    /\ \A n \in UnsignedElements : coded[n] \in Nat
    /\ \A n \in SignedElements : coded[n] \in Int

\* bounded_ue_u8 and bounded_se_i8 lose nothing of what they do not refuse.
LEMMA FitsKept ==
    ASSUME ElementsTyped,
           NEW unsigned \in SUBSET UnsignedElements, NEW signed \in SUBSET SignedElements,
           ~Overflows(coded, unsigned, signed)
    PROVE  Narrowed(coded, unsigned, signed) = coded
<1>1. ASSUME NEW n \in unsigned PROVE U8(coded[n]) = coded[n]
  BY SMT DEF ElementsTyped, Overflows, U8
<1>2. ASSUME NEW n \in signed PROVE I8(coded[n]) = coded[n]
  BY SMT DEF ElementsTyped, Overflows, I8
<1>q. QED
  BY <1>1, <1>2 DEF Narrowed, ElementsTyped

\* A sequence parameter set that is parsed strictly is parsed leniently to the
\* same values, and its sizes fit a byte.
LEMMA SpsParsed ==
    ASSUME ElementsTyped, ParseSps(TRUE) # Refused
    PROVE  /\ ParseSps(FALSE) = ParseSps(TRUE)
           /\ ParseSps(TRUE).picture = SpsPicture(coded)
           /\ ParseSps(TRUE).blocks = SpsBlocks(coded)
           /\ coded.log2_min_cb_minus3 \in 0 .. 255 /\ coded.log2_diff_cb \in 0 .. 255
           /\ coded.log2_min_tb_minus2 \in 0 .. 255 /\ coded.log2_diff_tb \in 0 .. 255
           /\ coded.hierarchy_intra \in Nat
<1>1. ~Overflows(coded, SpsElements, {})
  BY DEF ParseSps
<1>2. SpsElements \in SUBSET UnsignedElements
  BY DEF SpsElements, UnsignedElements, When
<1>3. Narrowed(coded, SpsElements, {}) = coded
  BY <1>1, <1>2, FitsKept
<1>4. {"log2_min_cb_minus3", "log2_diff_cb", "log2_min_tb_minus2", "log2_diff_tb"}
          \subseteq SpsElements
  BY DEF SpsElements
<1>5. \A n \in SpsElements : coded[n] \in Nat /\ coded[n] <= 255
  BY <1>1, <1>2 DEF Overflows, ElementsTyped
<1>6. coded.hierarchy_intra \in Nat
  BY DEF ElementsTyped, UnsignedElements
<1>q. QED
  BY <1>3, <1>4, <1>5, <1>6 DEF ParseSps

\* The same for a picture parameter set, which then has no extension.
LEMMA PpsParsed ==
    ASSUME ElementsTyped, ParsePps(TRUE) # Refused
    PROVE  /\ ParsePps(FALSE) = ParsePps(TRUE)
           /\ ParsePps(TRUE).qp = PpsQp(coded)
           /\ ParsePps(TRUE).filter.scale = <<0, 0>>
<1>1. ~Overflows(coded, PpsElements, PpsSigned) /\ ~On("pps_extension")
  BY DEF ParsePps
<1>2. PpsElements \in SUBSET UnsignedElements /\ PpsSigned \in SUBSET SignedElements
  BY <1>1 DEF PpsElements, PpsSigned, UnsignedElements, SignedElements, When
<1>3. Narrowed(coded, PpsElements, PpsSigned) = coded
  BY <1>1, <1>2, FitsKept
<1>4. ~TilesRefused(TRUE)
  BY DEF ParsePps
<1>5. ~TilesRefused(FALSE)
  BY <1>4 DEF TilesRefused, U16
<1>6. PpsFilter(coded).scale = <<0, 0>>
  BY <1>1 DEF PpsFilter
<1>q. QED
  BY <1>1, <1>3, <1>4, <1>5, <1>6 DEF ParsePps

\* The same for a slice header, given the parameter sets.
LEMMA SliceParsed ==
    ASSUME ElementsTyped, NEW sps, NEW pps, ParseSlice(sps, pps, TRUE) # Refused
    PROVE  /\ ParseSlice(sps, pps, FALSE) = ParseSlice(sps, pps, TRUE)
           /\ ParseSlice(sps, pps, TRUE).qp = 26 + pps.qp.init + coded.slice_qp_delta
<1>1. ~Overflows(coded, SliceUnsigned, SliceSigned(pps))
  BY DEF ParseSlice
<1>2. /\ SliceUnsigned \in SUBSET UnsignedElements
      /\ SliceSigned(pps) \in SUBSET SignedElements
  BY DEF SliceUnsigned, SliceSigned, UnsignedElements, SignedElements
<1>3. Narrowed(coded, SliceUnsigned, SliceSigned(pps)) = coded
  BY <1>1, <1>2, FitsKept
<1>q. QED
  BY <1>1, <1>3 DEF ParseSlice

\* A picture that Prepared::new accepts has parameters in the ranges that the
\* coding tree decoder relies on, none of which wraps when it is computed in a
\* byte, and decode_nal_units makes the same picture of the same elements.
LEMMA PicturesAgree ==
    ASSUME ElementsTyped, PreparedNew.is = "picture"
    PROVE  /\ Decodable(PreparedNew)
           /\ PreparedNew.ctb = coded.log2_min_cb_minus3 + 3 + coded.log2_diff_cb
           /\ PreparedNew.maxTb = coded.log2_min_tb_minus2 + 2 + coded.log2_diff_tb
           /\ PreparedNew.hierarchy = coded.hierarchy_intra
           /\ PreparedNew.qp = 26 + coded.init_qp_minus26 + coded.slice_qp_delta
           /\ DecodeNalUnits = PreparedNew
<1> DEFINE sps == ParseSps(TRUE)
           pps == ParsePps(TRUE)
           slice == ParseSlice(sps, pps, TRUE)
           crop == Sides(sps.picture.crop, 2, 2)
<1>1. /\ ~VpsRefused /\ sps # Refused /\ pps # Refused /\ slice # Refused
      /\ ~SpsRefused(sps) /\ ~PpsRefused(pps, sps) /\ ~SliceRefused(slice)
      /\ PreparedNew = Picture(sps, pps, slice, 8, 1, crop)
  <2> HIDE DEF sps, pps, slice, crop
  <2>1. Refused.is # "picture"
    BY DEF Refused
  <2>2. PreparedNew # Refused
    BY <2>1
  <2>q. QED
    BY <2>2 DEF PreparedNew, sps, pps, slice, crop
<1>2. /\ ParseSps(FALSE) = sps
      /\ sps.picture = SpsPicture(coded) /\ sps.blocks = SpsBlocks(coded)
  BY <1>1, SpsParsed
<1>3. /\ ParsePps(FALSE) = pps /\ pps.qp = PpsQp(coded) /\ pps.filter.scale = <<0, 0>>
  BY <1>1, PpsParsed
<1>4. /\ ParseSlice(sps, pps, FALSE) = slice
      /\ slice.qp = 26 + pps.qp.init + coded.slice_qp_delta
  BY <1>1, SliceParsed
<1>5. /\ coded.log2_min_cb_minus3 \in 0 .. 255 /\ coded.log2_diff_cb \in 0 .. 255
      /\ coded.log2_min_tb_minus2 \in 0 .. 255 /\ coded.log2_diff_tb \in 0 .. 255
      /\ coded.hierarchy_intra \in Nat
  BY <1>1, SpsParsed
<1> HIDE DEF sps, pps, slice, crop
\* The blocks.
<1>6. /\ coded.log2_min_cb_minus3 <= 3 /\ coded.log2_diff_cb <= 3
      /\ coded.log2_min_tb_minus2 <= 3 /\ coded.log2_diff_tb <= 3
  <2>1. \A k \in 1 .. 4 : ~(sps.blocks.minus[k] > 3)
    BY <1>1 DEF SpsRefused
  <2>2. sps.blocks.minus = <<coded.log2_min_cb_minus3, coded.log2_diff_cb,
                             coded.log2_min_tb_minus2, coded.log2_diff_tb>>
    BY <1>2 DEF SpsBlocks
  <2>q. QED
    BY <1>5, <2>1, <2>2
<1>7. /\ sps.blocks.cb = coded.log2_min_cb_minus3 + 3
      /\ sps.blocks.ctb = coded.log2_min_cb_minus3 + 3 + coded.log2_diff_cb
      /\ sps.blocks.minTb = coded.log2_min_tb_minus2 + 2
      /\ sps.blocks.maxTb = coded.log2_min_tb_minus2 + 2 + coded.log2_diff_tb
      /\ sps.blocks.hierarchy = coded.hierarchy_intra
      /\ sps.blocks.minus[2] = coded.log2_diff_cb
  BY <1>2, <1>5, <1>6 DEF SpsBlocks, U8
<1>8. /\ sps.blocks.ctb \in 4 .. 6
      /\ ~(sps.blocks.maxTb > 5)
      /\ ~(sps.blocks.hierarchy > sps.blocks.ctb - sps.blocks.minTb)
      /\ sps.picture.w % (2 ^ sps.blocks.cb) = 0
      /\ sps.picture.h % (2 ^ sps.blocks.cb) = 0
  BY <1>1 DEF SpsRefused
\* The picture.
<1>9. /\ ~OutOfRange(sps.picture.w, sps.picture.h)
      /\ sps.picture.chroma = 1 /\ sps.picture.luma = 0 /\ sps.picture.chromaDepth = 0
      /\ ~sps.tools.pcm /\ ~sps.unsupported
      /\ ~(2 * (sps.picture.crop.left + sps.picture.crop.right) >= sps.picture.w)
      /\ ~(2 * (sps.picture.crop.top + sps.picture.crop.bottom) >= sps.picture.h)
  BY <1>1 DEF SpsRefused
<1>10. \A side \in {"left", "right", "top", "bottom"} : sps.picture.crop[side] \in Nat
  <2>1. \A side \in {"left", "right", "top", "bottom"} : coded[side] \in Nat
    BY DEF ElementsTyped, UnsignedElements
  <2>2. \A side \in {"left", "right", "top", "bottom"} :
             Or0("conformance_window", coded[side]) \in Nat
    BY <2>1 DEF Or0
  <2>3. sps.picture.crop = [side \in {"left", "right", "top", "bottom"} |->
                               Or0("conformance_window", coded[side])]
    BY <1>2 DEF SpsPicture
  <2>q. QED
    BY <2>2, <2>3
<1>11. /\ crop[1] + crop[2] < sps.picture.w /\ crop[3] + crop[4] < sps.picture.h
       /\ ~(crop[1] + crop[2] >= sps.picture.w) /\ ~(crop[3] + crop[4] >= sps.picture.h)
  <2>1. coded.width \in Nat /\ coded.height \in Nat
    BY DEF ElementsTyped, UnsignedElements
  <2>2. sps.picture.w \in Nat /\ sps.picture.h \in Nat
    BY <1>2, <2>1 DEF SpsPicture
  <2>3. /\ crop[1] = sps.picture.crop.left * 2 /\ crop[2] = sps.picture.crop.right * 2
        /\ crop[3] = sps.picture.crop.top * 2 /\ crop[4] = sps.picture.crop.bottom * 2
    BY DEF crop, Sides
  <2>4. \A a, b, c \in Nat : ~(2 * (a + b) >= c) =>
             (a * 2) + (b * 2) < c /\ ~((a * 2) + (b * 2) >= c)
    OBVIOUS
  <2>q. QED
    BY <1>9, <1>10, <2>2, <2>3, <2>4
\* Quantization.
<1>12. /\ pps.qp.init = coded.init_qp_minus26
       /\ pps.qp.depth \in Nat /\ pps.qp.depth <= sps.blocks.minus[2]
  <2>1. coded.cu_qp_delta_depth \in Nat
    BY DEF ElementsTyped, UnsignedElements
  <2>2. pps.qp.depth \in Nat /\ pps.qp.init = coded.init_qp_minus26
    BY <1>3, <2>1 DEF PpsQp, Or0
  <2>3. ~(pps.qp.depth > sps.blocks.minus[2])
    BY <1>1 DEF PpsRefused
  <2>q. QED
    BY <1>5, <1>7, <2>2, <2>3
<1>13. slice.qp \in 0 .. 51
  BY <1>1 DEF SliceRefused
\* The two pictures.
<1>14. Decodable(PreparedNew)
  <2>1. /\ PreparedNew.ctb = sps.blocks.ctb /\ PreparedNew.cb = sps.blocks.cb
        /\ PreparedNew.minTb = sps.blocks.minTb /\ PreparedNew.maxTb = sps.blocks.maxTb
        /\ PreparedNew.hierarchy = sps.blocks.hierarchy
        /\ PreparedNew.qgDepth = pps.qp.depth
        /\ PreparedNew.w = sps.picture.w /\ PreparedNew.h = sps.picture.h
        /\ PreparedNew.crop = crop /\ PreparedNew.qp = slice.qp
        /\ PreparedNew.scale = pps.filter.scale
    BY <1>1 DEF Picture
  <2>2. /\ sps.blocks.ctb \in sps.blocks.cb .. 6 /\ sps.blocks.cb \in 3 .. 6
        /\ sps.blocks.minTb \in 2 .. sps.blocks.maxTb /\ sps.blocks.maxTb <= 5
        /\ sps.blocks.minTb + sps.blocks.hierarchy <= sps.blocks.ctb
        /\ sps.blocks.cb + pps.qp.depth <= sps.blocks.ctb
    <3> DEFINE b == sps.blocks
    <3>1. /\ b.cb \in 3 .. 6 /\ b.ctb \in b.cb .. 9 /\ b.minTb \in 2 .. 5
          /\ b.maxTb \in b.minTb .. 8 /\ b.hierarchy \in Nat
          /\ b.cb + b.minus[2] = b.ctb
      BY <1>5, <1>6, <1>7
    <3>2. /\ b.ctb \in 4 .. 6 /\ ~(b.maxTb > 5) /\ ~(b.hierarchy > b.ctb - b.minTb)
      BY <1>8
    <3>3. pps.qp.depth \in Nat /\ pps.qp.depth <= b.minus[2] /\ b.minus[2] \in Nat
      BY <1>5, <1>7, <1>12
    <3> HIDE DEF b
    <3>4. /\ b.ctb \in b.cb .. 6 /\ b.minTb \in 2 .. b.maxTb /\ b.maxTb <= 5
          /\ b.minTb + b.hierarchy <= b.ctb /\ b.cb + pps.qp.depth <= b.ctb
      BY <3>1, <3>2, <3>3
    <3>q. QED
      BY <3>1, <3>4 DEF b
  <2>q. QED
    BY <1>3, <1>8, <1>11, <1>13, <2>1, <2>2 DEF Decodable
<1>15. DecodeNalUnits = PreparedNew
  <2>1. /\ sps.picture.chroma \notin {0, 3} /\ sps.picture.chroma \notin {0, 2, 3}
        /\ 8 + sps.picture.luma = 8 /\ sps.picture.luma = sps.picture.chromaDepth
    BY <1>9
  <2>3. DecodeNalUnits = Picture(sps, pps, slice, 8, 1, crop)
    BY <1>1, <1>2, <1>3, <1>4, <1>9, <1>11, <2>1 DEF DecodeNalUnits, crop
  <2>q. QED
    BY <1>1, <2>3
<1>16. /\ PreparedNew.ctb = sps.blocks.ctb /\ PreparedNew.maxTb = sps.blocks.maxTb
       /\ PreparedNew.hierarchy = sps.blocks.hierarchy /\ PreparedNew.qp = slice.qp
  BY <1>1 DEF Picture
<1>q. QED
  BY <1>4, <1>7, <1>12, <1>14, <1>15, <1>16

\* What each decoder has made is what it would make now.
HeadersInv ==
    /\ ElementsTyped
    /\ prepared \in {Pending, PreparedNew}
    /\ decoded \in {Pending, DecodeNalUnits}

\* Whatever is coded, with numbers of any size: a picture that the bounded
\* decoder accepts is decodable with the values as coded, and the other decoder,
\* which narrows what is too large instead of refusing it, has the same picture.
THEOREM HeadersAgree == HeaderSpec => []BoundedHeaderAgrees
<1>1. HeaderInit => HeadersInv
  BY DEF HeaderInit, HeadersInv, ElementsTyped
<1>2. ASSUME HeadersInv, [HeaderNext]_headerVars
      PROVE  HeadersInv'
  <2>1. coded' = coded
    BY <1>2 DEF HeaderNext, Prepare, Decode, headerVars
  <2>2. PreparedNew' = PreparedNew /\ DecodeNalUnits' = DecodeNalUnits
    BY <2>1, DecodersKept
  <2>3. ElementsTyped'
    BY <1>2, <2>1 DEF HeadersInv, ElementsTyped
  <2>4. prepared' \in {prepared, PreparedNew} /\ decoded' \in {decoded, DecodeNalUnits}
    BY <1>2 DEF HeaderNext, Prepare, Decode, headerVars
  <2>5. Pending' = Pending
    BY DEF Pending
  <2>q. QED
    BY <1>2, <2>2, <2>3, <2>4, <2>5 DEF HeadersInv
<1>3. HeadersInv => BoundedHeaderAgrees
  <2> SUFFICES ASSUME HeadersInv, prepared.is = "picture"
               PROVE  BoundedHeaderAgrees
    BY DEF BoundedHeaderAgrees
  <2>1. prepared = PreparedNew
    BY DEF HeadersInv, Pending
  <2>2. decoded # Pending => decoded = DecodeNalUnits
    BY DEF HeadersInv
  <2>3. ElementsTyped
    BY DEF HeadersInv
  <2>q. QED
    BY <2>1, <2>2, <2>3, PicturesAgree DEF BoundedHeaderAgrees
<1>q. QED
  BY <1>1, <1>2, <1>3, PTL DEF HeaderSpec

-----------------------------------------------------------------------------
(* The memory of one tile.  TileInv says at which stage the tile has which *)
(* buffers, how large they are at most, and what is reserved for it.       *)

Reading == {"parameters", "slice", "header", "parsed", "prepared"}
OfFrame == {"context", "coded", "filtered", "decoded", "rgb"}
Rendering == OfFrame \cup {"frame", "colour", "rendered", "pixels", "summed"}
Empty == {"listed", "planned", "refused"}

Buffers ==
    [payload : Nat, parameters : Nat, slice : Nat, entries : Nat,
     planes : Nat, marks : Nat, maps : Nat, copies : Nat,
     rgb : Nat, converted : Nat, sums : Nat]

\* What is known of the tile, and what is reserved for it.
TileKnown ==
    /\ stage \in Empty \cup Reading \cup Rendering \cup {"done"}
    /\ length \in Nat
    /\ region \in Regions
    /\ tile # NoTile =>
         /\ tile.picture \in Pictures
         /\ tile.workspace = TileWorkspace(tile.picture, length)
    /\ stage = "listed" => tile = NoTile
    /\ stage \in Rendering \cup {"planned", "done"} => tile # NoTile
    /\ stage \in Reading \cup Rendering => content \in Contents(length)
    /\ stage \in Rendering => SameAsPlanned(content.picture)
    /\ /\ stage \in (Reading \ {"parameters"}) \cup Rendering
       /\ tile # NoTile
       => ~HiddenTile
    /\ stage \in Empty => reservation = 0
    /\ stage \in Reading /\ tile = NoTile =>
         reservation = length + HeaderReservation(length)
    /\ stage \in Reading \cup Rendering \cup {"done"} /\ tile # NoTile =>
         reservation = JobReservation

\* What the headers take at most, at any time.
HeaderBounds ==
    /\ held.payload <= length
    /\ held.parameters <= 7 * ParameterLimit
    /\ 3 * held.slice <= 7 * length
    /\ held.entries <= 4 * 1023

\* Which buffers the tile has at which stage, and their sizes at most.
BufferBounds ==
    /\ held.planes <=
         IF stage \in OfFrame THEN PlaneBytes(content.picture) ELSE 0
    /\ held.marks <=
         IF stage \in OfFrame \cup {"colour", "rendered"}
         THEN 2 * MarkBytes(content.picture) ELSE 0
    /\ held.maps <=
         IF stage \in {"coded", "filtered"}
         THEN MapBytes(content.picture) ELSE 0
    /\ held.copies <=
         IF stage = "filtered"
         THEN PlaneBytes(content.picture) + MarkBytes(content.picture) ELSE 0
    /\ held.rgb <=
         IF stage \in {"rgb", "colour", "rendered", "pixels", "summed", "done"}
         THEN RgbBytes(tile.picture) ELSE 0
    /\ held.converted <=
         IF stage = "rendered" THEN RgbBytes(tile.picture) ELSE 0
    /\ held.sums <=
         IF stage \in {"summed", "done"} THEN ContributionBytes(region) ELSE 0

\* The inductive invariant.
TileInv ==
    /\ TileKnown
    /\ held \in Buffers
    /\ stage \in Empty => held = Nothing
    /\ HeaderBounds
    /\ BufferBounds

-----------------------------------------------------------------------------
\* A copy of a NAL unit takes at most seven thirds of it.
LEMMA CopyBound ==
    ASSUME NEW nal, IsNal(nal)
    PROVE  /\ CopyBytes(nal) \in Nat
           /\ 3 * CopyBytes(nal) <= 7 * nal.length
<1>1. /\ nal.length \in Nat /\ nal.length >= 2 /\ nal.removed \in Nat
      /\ 3 * nal.removed <= nal.length - 2
  BY DEF IsNal
<1>q. QED
  BY <1>1 DEF CopyBytes

\* The quotient of two positive numbers is a number.
LEMMA ChunksType ==
    ASSUME NEW extent \in Nat, NEW side \in Nat \ {0}
    PROVE  Chunks(extent, side) \in Nat
  BY DEF Chunks

\* The product of two numbers is a number.
LEMMA ProductType ==
    ASSUME NEW a \in Nat, NEW b \in Nat
    PROVE  a * b \in Nat
  OBVIOUS

\* The sides of an accepted picture and of its blocks.
LEMMA PictureSides ==
    ASSUME NEW p \in Pictures
    PROVE  /\ p.codedWidth \in Nat /\ p.codedHeight \in Nat
           /\ p.width \in Nat /\ p.height \in Nat
           /\ p.codedHeight <= 16384
           /\ p.ctb \in {16, 32, 64}
           /\ p.minCb \in {8, 16, 32, 64} /\ p.minTb \in {4, 8, 16, 32}
<1>1. IsPicture(p)
  BY TileAssumption
<1>2. /\ p.codedWidth \in 1 .. MaxSide /\ p.codedHeight \in 1 .. MaxSide
      /\ p.width \in 1 .. p.codedWidth /\ p.height \in 1 .. p.codedHeight
      /\ p.ctb \in {16, 32, 64}
      /\ p.minCb \in {8, 16, 32, 64} /\ p.minTb \in {4, 8, 16, 32}
  BY ONLY <1>1 DEF IsPicture
<1>3. MaxSide \in Nat /\ MaxSide <= 16384
  BY DEF MaxSide
<1>4. p.codedWidth \in Nat /\ p.codedHeight \in Nat /\ p.codedHeight <= 16384
  BY <1>2, <1>3
<1>5. p.width \in Nat /\ p.height \in Nat
  BY <1>2, <1>4
<1>q. QED
  BY <1>2, <1>4, <1>5

\* The number of blocks of a picture is a number.
LEMMA BlocksType ==
    ASSUME NEW p \in Pictures, NEW side \in Nat \ {0}
    PROVE  Blocks(p, side) \in Nat
<1>1. p.codedWidth \in Nat /\ p.codedHeight \in Nat
  BY PictureSides
<1>2. Chunks(p.codedWidth, side) \in Nat /\ Chunks(p.codedHeight, side) \in Nat
  BY <1>1, ChunksType
<1>q. QED
  BY <1>2, ProductType DEF Blocks

\* The sizes in bytes of an accepted picture.
LEMMA PictureSizes ==
    ASSUME NEW p \in Pictures
    PROVE  /\ LumaBytes(p) \in Nat /\ ChromaBytes(p) \in Nat
           /\ PlaneBytes(p) \in Nat /\ MarkBytes(p) \in Nat
           /\ MapBytes(p) \in Nat /\ RgbBytes(p) \in Nat
           /\ PlaneBytes(p) = LumaBytes(p) + 2 * ChromaBytes(p)
<1>1. /\ p.codedWidth \in Nat /\ p.codedHeight \in Nat
      /\ p.width \in Nat /\ p.height \in Nat
  BY PictureSides
<1>2. LumaBytes(p) \in Nat
  <2>1. p.codedWidth * p.codedHeight \in Nat
    BY <1>1, ProductType
  <2>q. QED
    BY <2>1 DEF LumaBytes
<1>3. ChromaBytes(p) \in Nat
  <2>1. Blocks(p, 2) \in Nat
    BY BlocksType
  <2>q. QED
    BY <2>1 DEF ChromaBytes
<1>4. PlaneBytes(p) \in Nat /\ PlaneBytes(p) = LumaBytes(p) + 2 * ChromaBytes(p)
  BY <1>2, <1>3 DEF PlaneBytes
<1>5. MarkBytes(p) \in Nat
  BY BlocksType DEF MarkBytes
<1>6. MapBytes(p) \in Nat
  <2>1. /\ p.minCb \in Nat \ {0} /\ p.minCb \div 2 \in Nat \ {0}
        /\ p.minTb \in Nat \ {0} /\ p.ctb \in Nat \ {0}
    <3>1. p.minCb \in {8, 16, 32, 64}
      BY PictureSides
    <3>2. p.minCb \div 2 \in {4, 8, 16, 32}
      BY <3>1
    <3>q. QED
      BY <3>1, <3>2, PictureSides
  <2>2. /\ Blocks(p, p.minCb) \in Nat /\ Blocks(p, p.minCb \div 2) \in Nat
        /\ Blocks(p, p.minTb) \in Nat /\ Blocks(p, p.ctb) \in Nat
    BY <2>1, BlocksType
  <2>3. SaoInfoBytes * Blocks(p, p.ctb) \in Nat
    BY <2>2, ProductType, TileAssumption
  <2>q. QED
    BY <2>2, <2>3 DEF MapBytes
<1>7. RgbBytes(p) \in Nat
  <2>1. p.width * p.height \in Nat
    BY <1>1, ProductType
  <2>q. QED
    BY <2>1 DEF RgbBytes
<1>q. QED
  BY <1>2, <1>3, <1>4, <1>5, <1>6, <1>7

\* reconstruction_bytes is at least each of the three sums.
LEMMA ReconstructionCovers ==
    ASSUME NEW p \in Pictures
    PROVE  /\ ReconstructionBytes(p) \in Nat
           /\ 2 * PlaneBytes(p) + 3 * MarkBytes(p) + MapBytes(p)
                <= ReconstructionBytes(p)
           /\ PlaneBytes(p) + RgbBytes(p) + 2 * MarkBytes(p)
                <= ReconstructionBytes(p)
           /\ 2 * RgbBytes(p) + 2 * MarkBytes(p) <= ReconstructionBytes(p)
  BY PictureSizes DEF ReconstructionBytes, Larger

\* Pictures of one geometry differ in their maps only.
LEMMA SameSizes ==
    ASSUME NEW p \in Pictures, NEW q \in Pictures, Geometry(p) = Geometry(q)
    PROVE  /\ PlaneBytes(p) = PlaneBytes(q) /\ MarkBytes(p) = MarkBytes(q)
           /\ RgbBytes(p) = RgbBytes(q)
<1>1. /\ p.codedWidth = q.codedWidth /\ p.codedHeight = q.codedHeight
      /\ p.width = q.width /\ p.height = q.height
  BY DEF Geometry
<1>2. \A side : Blocks(p, side) = Blocks(q, side)
  BY <1>1 DEF Blocks
<1>q. QED
  BY <1>1, <1>2 DEF PlaneBytes, LumaBytes, ChromaBytes, MarkBytes, RgbBytes

\* The sums that are the result of a job are part of its working memory.
LEMMA RegionSizes ==
    ASSUME NEW r \in Regions
    PROVE  /\ ContributionBytes(r) \in Nat
           /\ ResultBytes(r) \in Nat
           /\ r.scaled /\ r.width * r.height # 0 =>
                ResultBytes(r) <= ContributionBytes(r)
<1>1. r.width \in Nat /\ r.height \in Nat
  <2>1. IsRegion(r)
    BY TileAssumption
  <2>q. QED
    BY <2>1 DEF IsRegion
<1>2. PICK n \in Nat : n = r.width * r.height
  BY <1>1, ProductType
<1>3. /\ ContributionBytes(r) =
           IF ~r.scaled \/ n = 0 THEN 0
           ELSE 3 * n + 24 * (5 * r.width + 2 * r.height)
      /\ ResultBytes(r) = 3 * n + 24 * (2 * r.width + 2 * r.height)
  BY <1>2 DEF ContributionBytes, ResultBytes
<1>4. PICK m \in Nat : m = 24 * (5 * r.width + 2 * r.height)
  BY <1>1
<1>5. PICK k \in Nat : k = 24 * (2 * r.width + 2 * r.height)
  BY <1>1
<1>6. k <= m
  BY <1>1, <1>4, <1>5
<1>7. /\ ContributionBytes(r) = IF ~r.scaled \/ n = 0 THEN 0 ELSE 3 * n + m
      /\ ResultBytes(r) = 3 * n + k
  BY <1>3, <1>4, <1>5
<1>q. QED
  BY <1>2, <1>6, <1>7

\* There are at most 1024 rows of CTBs.
LEMMA FewEntries ==
    ASSUME NEW p \in Pictures
    PROVE  RowsOfCtbs(p) \in Nat /\ RowsOfCtbs(p) <= 1024
<1>1. PICK h \in Nat : h = p.codedHeight
  BY PictureSides
<1>2. PICK c \in {16, 32, 64} : c = p.ctb
  BY PictureSides
<1>3. h <= 16384 /\ RowsOfCtbs(p) = (h + c - 1) \div c
  BY <1>1, <1>2, PictureSides DEF RowsOfCtbs, Chunks
<1>4. (h + c - 1) \div c \in Nat /\ (h + c - 1) \div c <= 1024
  <2>1. CASE c = 16
    BY <1>1, <1>3, <2>1
  <2>2. CASE c = 32
    BY <1>1, <1>3, <2>2
  <2>3. CASE c = 64
    BY <1>1, <1>3, <2>3
  <2>q. QED
    BY <1>2, <2>1, <2>2, <2>3
<1>q. QED
  BY <1>3, <1>4

\* What the headers in a payload take.
LEMMA ContentSizes ==
    ASSUME NEW c \in Contents(length), length \in Nat
    PROVE  /\ c.picture \in Pictures
           /\ CopyBytes(c.vps) \in Nat /\ CopyBytes(c.sps) \in Nat
           /\ CopyBytes(c.pps) \in Nat
           /\ CopyBytes(c.vps) + CopyBytes(c.sps) + CopyBytes(c.pps)
                <= 7 * ParameterLimit
           /\ CopyBytes(c.slice) \in Nat /\ 3 * CopyBytes(c.slice) <= 7 * length
           /\ 4 * c.entries \in Nat /\ 4 * c.entries <= 4 * 1023
<1>1. /\ c.picture \in Pictures /\ c.vps \in ParameterNals
      /\ c.sps \in ParameterNals /\ c.pps \in ParameterNals
      /\ c.slice \in SliceNals /\ c.entries \in EntryPoints
      /\ c.slice.length < length /\ c.entries < RowsOfCtbs(c.picture)
  BY DEF Contents
<1>2. /\ IsNal(c.vps) /\ IsNal(c.sps) /\ IsNal(c.pps) /\ IsNal(c.slice)
      /\ c.vps.length <= ParameterLimit /\ c.sps.length <= ParameterLimit
      /\ c.pps.length <= ParameterLimit
  BY <1>1, TileAssumption
<1>3. /\ c.vps.length \in Nat /\ c.sps.length \in Nat /\ c.pps.length \in Nat
      /\ c.slice.length \in Nat /\ ParameterLimit \in Nat
  BY <1>2, TileAssumption DEF IsNal
<1>4. c.entries \in Nat /\ c.entries < 1024
  <2>1. c.entries \in Nat
    BY <1>1, TileAssumption
  <2>q. QED
    BY <1>1, <2>1, FewEntries
<1>5. /\ CopyBytes(c.vps) \in Nat /\ CopyBytes(c.sps) \in Nat
      /\ CopyBytes(c.pps) \in Nat /\ CopyBytes(c.slice) \in Nat
      /\ 3 * CopyBytes(c.vps) <= 7 * c.vps.length
      /\ 3 * CopyBytes(c.sps) <= 7 * c.sps.length
      /\ 3 * CopyBytes(c.pps) <= 7 * c.pps.length
      /\ 3 * CopyBytes(c.slice) <= 7 * c.slice.length
  BY <1>2, CopyBound
<1>q. QED
  BY <1>1, <1>2, <1>3, <1>4, <1>5

\* The copies that apply_sao makes are at most the planes and one mark.
LEMMA SaoCopies ==
    ASSUME NEW p \in Pictures,
           NEW luma \in {0, 1}, NEW cb \in {0, 1}, NEW cr \in {0, 1},
           NEW bypass \in {0, 1}
    PROVE  LET copies == luma * LumaBytes(p) + (cb + cr) * ChromaBytes(p)
                       + bypass * MarkBytes(p)
           IN  copies \in Nat /\ copies <= PlaneBytes(p) + MarkBytes(p)
<1>1. PICK x \in Nat : x = LumaBytes(p)
  BY PictureSizes
<1>2. PICK y \in Nat : y = ChromaBytes(p)
  BY PictureSizes
<1>3. PICK z \in Nat : z = MarkBytes(p)
  BY PictureSizes
<1>4. PlaneBytes(p) = x + 2 * y
  BY <1>1, <1>2, PictureSizes
<1>5. luma * x \in Nat /\ luma * x <= x
  <2>1. luma * x = 0 \/ luma * x = x
    BY <1>1
  <2>q. QED
    BY <1>1, <2>1
<1>6. (cb + cr) * y \in Nat /\ (cb + cr) * y <= 2 * y
  <2>1. (cb + cr) * y = 0 \/ (cb + cr) * y = y \/ (cb + cr) * y = 2 * y
    <3>1. cb + cr = 0 \/ cb + cr = 1 \/ cb + cr = 2
      OBVIOUS
    <3>q. QED
      BY <1>2, <3>1
  <2>q. QED
    BY <1>2, <2>1
<1>7. bypass * z \in Nat /\ bypass * z <= z
  <2>1. bypass * z = 0 \/ bypass * z = z
    BY <1>3
  <2>q. QED
    BY <1>3, <2>1
<1>8. PICK a \in Nat : a = luma * x
  BY <1>5
<1>9. PICK b \in Nat : b = (cb + cr) * y
  BY <1>6
<1>10. PICK c \in Nat : c = bypass * z
  BY <1>7
<1>11. a + b + c \in Nat /\ a + b + c <= x + 2 * y + z
  BY ONLY <1>1, <1>2, <1>3, <1>5, <1>6, <1>7, <1>8, <1>9, <1>10
<1>q. QED
  BY <1>1, <1>2, <1>3, <1>4, <1>8, <1>9, <1>10, <1>11

-----------------------------------------------------------------------------
\* What is reserved for a job is the sum of what its parts are compared with.
LEMMA Within ==
    ASSUME TileInv, stage \in Reading \cup Rendering \cup {"done"},
           tile # NoTile,
           PictureBuffers <= ReconstructionBytes(tile.picture)
    PROVE  AllocatedWithinReservation /\ EstimateCoversPicture
<1>1. /\ held \in Buffers /\ HeaderBounds
      /\ length \in Nat /\ region \in Regions /\ tile.picture \in Pictures
      /\ ParameterLimit \in Nat /\ CodecSlack \in Nat
      /\ 7 * ParameterLimit + 4 * 1023 <= CodecSlack
  BY TileAssumption, SlackAssumption DEF TileInv, TileKnown
<1>2. /\ HeaderBuffers \in Nat /\ HeaderBuffers <= 3 * length + CodecSlack
      /\ held.payload \in Nat /\ held.payload <= length
  BY <1>1 DEF HeaderBounds, HeaderBuffers, Buffers
<1>3. PictureBuffers \in Nat /\ held.sums \in Nat
  BY <1>1 DEF PictureBuffers, Buffers
<1>4. held.sums <= ContributionBytes(region) /\ ContributionBytes(region) \in Nat
  <2>1. ContributionBytes(region) \in Nat
    BY <1>1, RegionSizes
  <2>q. QED
    BY <1>3, <2>1 DEF TileInv, BufferBounds
<1>5. ReconstructionBytes(tile.picture) \in Nat
  BY <1>1, ReconstructionCovers
<1>6. reservation = ReconstructionBytes(tile.picture) + 3 * length + CodecSlack
                    + length + ContributionBytes(region)
  BY DEF TileInv, TileKnown, JobReservation, TileWorkspace
<1>7. Allocated <= reservation
  BY ONLY <1>1, <1>2, <1>3, <1>4, <1>5, <1>6,
          PictureBuffers <= ReconstructionBytes(tile.picture)
     DEF Allocated
<1>q. QED
  BY <1>2, <1>7 DEF AllocatedWithinReservation, EstimateCoversPicture

\* The two invariants, in a state that satisfies TileInv.
LEMMA TileSafe ==
    ASSUME TileInv
    PROVE  AllocatedWithinReservation /\ EstimateCoversPicture
<1> DEFINE p == content.picture
           q == tile.picture
<1>1. /\ TileKnown /\ held \in Buffers /\ HeaderBounds /\ BufferBounds
      /\ length \in Nat /\ region \in Regions
      /\ ParameterLimit \in Nat /\ CodecSlack \in Nat
      /\ 7 * ParameterLimit + 4 * 1023 <= CodecSlack
  BY TileAssumption, SlackAssumption DEF TileInv, TileKnown
<1>2. /\ HeaderBuffers \in Nat /\ HeaderBuffers <= 3 * length + CodecSlack
      /\ held.payload \in Nat /\ held.payload <= length
  BY <1>1 DEF HeaderBounds, HeaderBuffers, Buffers
<1>3. PictureBuffers \in Nat /\ held.sums \in Nat
  BY <1>1 DEF PictureBuffers, Buffers
<1>4. ContributionBytes(region) \in Nat
  BY <1>1, RegionSizes
<1>5. /\ held.sums <= ContributionBytes(region)
      /\ stage \notin {"summed", "done"} => held.sums = 0
  BY <1>1, <1>3, <1>4 DEF BufferBounds
<1>6. CASE stage \in Empty
  <2>1. held = Nothing
    BY <1>6 DEF TileInv
  <2>2. Allocated = 0 /\ PictureBuffers = 0
    BY <2>1 DEF Allocated, Nothing, HeaderBuffers, PictureBuffers
  <2>3. tile # NoTile => ReconstructionBytes(q) \in Nat
    BY <1>1, ReconstructionCovers DEF TileKnown
  <2>4. reservation \in Nat
    BY <1>1, <1>6 DEF TileKnown
  <2>q. QED
    BY <1>2, <2>2, <2>3, <2>4
       DEF AllocatedWithinReservation, EstimateCoversPicture
<1>7. CASE stage \in Reading
  <2>1. PictureBuffers = 0
    BY <1>1, <1>7 DEF BufferBounds, Buffers, PictureBuffers, Reading, OfFrame
  <2>2. CASE tile = NoTile
    <3>1. reservation = length + (5 * length + CodecSlack)
      BY <1>1, <1>7, <2>2 DEF TileKnown, HeaderReservation
    <3>2. Allocated <= reservation
      BY <1>1, <1>2, <1>5, <1>7, <2>1, <3>1 DEF Allocated, Reading
    <3>q. QED
      BY <2>2, <3>2 DEF AllocatedWithinReservation, EstimateCoversPicture
  <2>3. CASE tile # NoTile
    <3>1. ReconstructionBytes(q) \in Nat
      BY <1>1, <2>3, ReconstructionCovers DEF TileKnown
    <3>q. QED
      BY <1>1, <1>7, <2>1, <2>3, <3>1, Within DEF TileKnown
  <2>q. QED
    BY <2>2, <2>3
<1>8. CASE stage = "done"
  <2>1. tile # NoTile /\ q \in Pictures
    BY <1>1, <1>8 DEF TileKnown
  <2>2. PictureBuffers <= RgbBytes(q)
    BY <1>1, <1>8, <2>1, PictureSizes
       DEF BufferBounds, Buffers, PictureBuffers, OfFrame
  <2>3. RgbBytes(q) <= ReconstructionBytes(q)
    <3>1. /\ RgbBytes(q) \in Nat /\ MarkBytes(q) \in Nat
          /\ ReconstructionBytes(q) \in Nat
          /\ 2 * RgbBytes(q) + 2 * MarkBytes(q) <= ReconstructionBytes(q)
      BY <2>1, PictureSizes, ReconstructionCovers
    <3>q. QED
      BY <3>1
  <2>4. PictureBuffers <= ReconstructionBytes(q)
    BY <1>3, <2>1, <2>2, <2>3, PictureSizes, ReconstructionCovers
  <2>q. QED
    BY <1>8, <2>1, <2>4, Within
<1>9. CASE stage \in Rendering
  <2>1. tile # NoTile /\ q \in Pictures /\ p \in Pictures /\ SameAsPlanned(p)
    BY <1>1, <1>9, ContentSizes DEF TileKnown
  <2>2. PICK n \in Nat : n = PlaneBytes(p)
    BY <2>1, PictureSizes
  <2>3. PICK m \in Nat : m = MarkBytes(p)
    BY <2>1, PictureSizes
  <2>4. PICK k \in Nat : k = MapBytes(p)
    BY <2>1, PictureSizes
  <2>5. PICK g \in Nat : g = RgbBytes(q) /\ g = RgbBytes(p)
    BY <2>1, PictureSizes, SameSizes DEF SameAsPlanned
  <2>6. PICK R \in Nat : R = ReconstructionBytes(q)
    BY <2>1, ReconstructionCovers
  <2>7. /\ 2 * n + 3 * m + k <= R /\ n + g + 2 * m <= R /\ 2 * g + 2 * m <= R
    <3>1. PICK P \in Nat : P = ReconstructionBytes(p)
      BY <2>1, ReconstructionCovers
    <3>2. P + 3 * length + CodecSlack <= R + 3 * length + CodecSlack
      BY <1>1, <2>1, <2>6, <3>1 DEF SameAsPlanned, TileWorkspace, TileKnown
    <3>3. P <= R
      BY <1>1, <2>6, <3>1, <3>2
    <3>4. /\ 2 * n + 3 * m + k <= P /\ n + g + 2 * m <= P
          /\ 2 * g + 2 * m <= P
      BY <2>1, <2>2, <2>3, <2>4, <2>5, <3>1, ReconstructionCovers
    <3>q. QED
      BY <2>2, <2>3, <2>4, <2>5, <2>6, <3>1, <3>3, <3>4
  <2>8. PictureBuffers <= R
    <3>1. /\ held.planes \in Nat /\ held.marks \in Nat /\ held.maps \in Nat
          /\ held.copies \in Nat /\ held.rgb \in Nat /\ held.converted \in Nat
      BY <1>1 DEF Buffers
    <3>2. /\ held.planes <= IF stage \in OfFrame THEN n ELSE 0
          /\ held.marks <=
               IF stage \in OfFrame \cup {"colour", "rendered"}
               THEN 2 * m ELSE 0
          /\ held.maps <= IF stage \in {"coded", "filtered"} THEN k ELSE 0
          /\ held.copies <= IF stage = "filtered" THEN n + m ELSE 0
          /\ held.rgb <=
               IF stage \in {"rgb", "colour", "rendered", "pixels", "summed",
                             "done"}
               THEN g ELSE 0
          /\ held.converted <= IF stage = "rendered" THEN g ELSE 0
      BY <1>1, <2>2, <2>3, <2>4, <2>5 DEF BufferBounds
    <3>3. CASE stage \in {"context", "coded", "filtered", "decoded"}
      BY <2>7, <3>1, <3>2, <3>3 DEF PictureBuffers, OfFrame
    <3>4. CASE stage = "rgb"
      BY <2>7, <3>1, <3>2, <3>4 DEF PictureBuffers, OfFrame
    <3>5. CASE stage \in {"frame", "colour", "rendered", "pixels", "summed"}
      BY <2>7, <3>1, <3>2, <3>5 DEF PictureBuffers, OfFrame
    <3>q. QED
      BY <1>9, <3>3, <3>4, <3>5 DEF Rendering, OfFrame
  <2>q. QED
    BY <1>9, <2>1, <2>6, <2>8, Within
<1>q. QED
  BY <1>1, <1>6, <1>7, <1>8, <1>9 DEF TileKnown

-----------------------------------------------------------------------------
\* The first state satisfies the invariant.
LEMMA InitTileInv ==
    ASSUME TileInit
    PROVE  TileInv
<1>1. /\ stage = "listed" /\ held = Nothing /\ tile = NoTile
      /\ reservation = 0 /\ length \in Nat /\ region \in Regions
  BY TileAssumption DEF TileInit
<1>2. TileKnown
  BY <1>1 DEF TileKnown, Empty, Reading, Rendering, OfFrame
<1>3. held \in Buffers
  BY <1>1 DEF Nothing, Buffers
<1>4. HeaderBounds
  BY <1>1, TileAssumption DEF HeaderBounds, Nothing
<1>5. BufferBounds
  BY <1>1 DEF BufferBounds, Nothing, OfFrame
<1>q. QED
  BY <1>1, <1>2, <1>3, <1>4, <1>5 DEF TileInv

\* Reading the item, for preflight or for the job.
LEMMA ReadStep ==
    ASSUME TileInv, ReadForPreflight \/ GatherTile
    PROVE  TileInv'
<1>1. /\ stage \in {"listed", "planned"} /\ stage' = "parameters"
      /\ content' \in Contents(length)
      /\ held' = [Nothing EXCEPT !.payload = length]
      /\ length' = length /\ region' = region /\ tile' = tile
  BY DEF ReadForPreflight, GatherTile, Follows
<1>2. TileKnown /\ length \in Nat /\ ParameterLimit \in Nat
  BY TileAssumption DEF TileInv, TileKnown
<1>3. held' \in Buffers
  BY <1>1, <1>2 DEF Nothing, Buffers
<1>4. TileKnown'
  <2>1. /\ tile = NoTile => reservation' = length + HeaderReservation(length)
        /\ tile # NoTile => reservation' = JobReservation
    BY <1>2 DEF TileKnown, ReadForPreflight, GatherTile, Follows
  <2>2. JobReservation' = JobReservation
    BY <1>1 DEF JobReservation
  <2>q. QED
    BY <1>1, <1>2, <2>1, <2>2
       DEF TileKnown, Empty, Reading, Rendering, OfFrame
<1>5. HeaderBounds'
  BY <1>1, <1>2 DEF HeaderBounds, Nothing
<1>6. BufferBounds'
  BY <1>1 DEF BufferBounds, Nothing, OfFrame
<1>q. QED
  BY <1>1, <1>3, <1>4, <1>5, <1>6 DEF TileInv, Empty

\* Most steps change the buffers only.
LEMMA KnownStep ==
    ASSUME TileKnown, UNCHANGED <<length, region, tile, content, reservation>>,
           \/ /\ stage \in Reading /\ stage' \in Reading \ {"parameters"}
              /\ tile # NoTile => ~HiddenTile
           \/ stage \in Rendering /\ stage' \in Rendering \cup {"done"}
    PROVE  TileKnown'
<1>1. /\ JobReservation' = JobReservation /\ HiddenTile' = HiddenTile
      /\ SameAsPlanned(content.picture)' = SameAsPlanned(content.picture)
  BY DEF JobReservation, HiddenTile, SameAsPlanned
<1>2. CASE stage \in Reading
  <2>1. stage' \in Reading \ {"parameters"} /\ (tile # NoTile => ~HiddenTile)
    BY <1>2 DEF Reading, Rendering, OfFrame
  <2>q. QED
    BY <1>1, <1>2, <2>1 DEF TileKnown, Reading, Rendering, OfFrame, Empty
<1>3. CASE stage \in Rendering
  <2>1. stage' \in Rendering \cup {"done"}
    BY <1>3 DEF Reading, Rendering, OfFrame
  <2>2. /\ stage' \notin Empty /\ stage' \notin Reading /\ stage' # "listed"
    BY <2>1 DEF Reading, Rendering, OfFrame, Empty
  <2>3. tile # NoTile /\ stage \notin Reading /\ ~HiddenTile
    BY <1>3 DEF TileKnown, Reading, Rendering, OfFrame
  <2>q. QED
    BY <1>1, <1>3, <2>1, <2>2, <2>3 DEF TileKnown
<1>q. QED
  BY <1>2, <1>3

\* Parsing the headers.
LEMMA HeaderStep ==
    ASSUME TileInv,
           CopyParameters \/ CopySlice \/ ParseSliceHeader \/ ReturnPrepared
    PROVE  TileInv'
<1>1. /\ stage \in Reading /\ stage' \in Reading \ {"parameters"}
      /\ UNCHANGED <<length, region, tile, content, reservation>>
      /\ TileKnown /\ length \in Nat /\ content \in Contents(length)
      /\ held \in Buffers
  BY DEF CopyParameters, CopySlice, ParseSliceHeader, ReturnPrepared, Follows,
         Reading, TileInv, TileKnown
<1>2. TileKnown'
  <2>1. tile # NoTile => ~HiddenTile
    BY <1>1 DEF CopyParameters, CopySlice, ParseSliceHeader, ReturnPrepared,
                Follows, TileKnown, Reading
  <2>q. QED
    BY <1>1, <2>1, KnownStep
<1>3. /\ held.parameters \in Nat /\ held.parameters <= 7 * ParameterLimit
      /\ held.slice \in Nat /\ 3 * held.slice <= 7 * length
      /\ held.entries \in Nat /\ held.entries <= 4 * 1023
      /\ held.payload \in Nat /\ held.payload <= length
      /\ ParameterLimit \in Nat
  BY <1>1, TileAssumption DEF TileInv, HeaderBounds, Buffers
<1>4. held' \in Buffers /\ HeaderBounds'
  <2>1. CASE CopyParameters
    <3>1. PICK n \in Nat : /\ held' = [held EXCEPT !.parameters = n]
                           /\ n <= 7 * ParameterLimit
      BY <1>1, <2>1, ContentSizes DEF CopyParameters
    <3>2. held' \in Buffers
      BY <1>1, <3>1 DEF Buffers
    <3>3. HeaderBounds'
      BY <1>1, <1>3, <3>1 DEF Buffers, HeaderBounds
    <3>q. QED
      BY <3>2, <3>3
  <2>2. CASE CopySlice
    <3>1. PICK n \in Nat : /\ held' = [held EXCEPT !.slice = n]
                           /\ 3 * n <= 7 * length
      BY <1>1, <2>2, ContentSizes DEF CopySlice
    <3>2. held' \in Buffers
      BY <1>1, <3>1 DEF Buffers
    <3>3. HeaderBounds'
      BY <1>1, <1>3, <3>1 DEF Buffers, HeaderBounds
    <3>q. QED
      BY <3>2, <3>3
  <2>3. CASE ParseSliceHeader
    <3>1. PICK n \in Nat : /\ held' = [held EXCEPT !.entries = n]
                           /\ n <= 4 * 1023
      BY <1>1, <2>3, ContentSizes DEF ParseSliceHeader
    <3>2. held' \in Buffers
      BY <1>1, <3>1 DEF Buffers
    <3>3. HeaderBounds'
      BY <1>1, <1>3, <3>1 DEF Buffers, HeaderBounds
    <3>q. QED
      BY <3>2, <3>3
  <2>4. CASE ReturnPrepared
    <3>1. held' = [held EXCEPT !.parameters = 0, !.entries = 0]
      BY <2>4 DEF ReturnPrepared
    <3>2. held' \in Buffers
      BY <1>1, <3>1 DEF Buffers
    <3>3. HeaderBounds'
      BY <1>1, <1>3, <3>1 DEF Buffers, HeaderBounds
    <3>q. QED
      BY <3>2, <3>3
  <2>q. QED
    BY <2>1, <2>2, <2>3, <2>4
<1>5. BufferBounds'
  <2>1. /\ held'.planes = held.planes /\ held'.marks = held.marks
        /\ held'.maps = held.maps /\ held'.copies = held.copies
        /\ held'.rgb = held.rgb /\ held'.converted = held.converted
        /\ held'.sums = held.sums
    BY <1>1 DEF CopyParameters, CopySlice, ParseSliceHeader, ReturnPrepared,
                Buffers
  <2>q. QED
    BY <1>1, <2>1 DEF BufferBounds, TileInv, Reading, OfFrame
<1>q. QED
  BY <1>1, <1>2, <1>4, <1>5 DEF TileInv, Reading, Empty

\* Preflight gives back what it allocated, and keeps what it found.
LEMMA PlanStep ==
    ASSUME TileInv, PlanTileMemory
    PROVE  TileInv'
<1>1. /\ tile = NoTile /\ stage = "prepared" /\ stage' = "planned"
      /\ tile' = [picture |-> content.picture,
                  workspace |-> TileWorkspace(content.picture, length)]
      /\ reservation' = 0 /\ held' = Nothing
      /\ length' = length /\ region' = region
      /\ TileKnown /\ length \in Nat /\ content \in Contents(length)
  BY DEF PlanTileMemory, Follows, TileInv, TileKnown, Reading
<1>2. tile'.picture \in Pictures
  BY <1>1, ContentSizes
<1>3. tile' # NoTile
  <2>1. "workspace" \in DOMAIN tile'
    BY <1>1
  <2>2. "workspace" \notin DOMAIN NoTile
    BY DEF NoTile
  <2>q. QED
    BY <2>1, <2>2
<1>4. TileKnown'
  BY <1>1, <1>2, <1>3 DEF TileKnown, Reading, Rendering, OfFrame, Empty
<1>5. held' \in Buffers /\ HeaderBounds' /\ BufferBounds'
  BY <1>1, TileAssumption
     DEF Nothing, Buffers, HeaderBounds, BufferBounds, OfFrame
<1>q. QED
  BY <1>1, <1>4, <1>5 DEF TileInv

\* Refusing the tile gives everything back.
LEMMA RefuseStep ==
    ASSUME TileInv, RefuseTile
    PROVE  TileInv'
<1>1. /\ stage' = "refused" /\ reservation' = 0 /\ held' = Nothing
      /\ UNCHANGED <<length, region, tile, content>>
      /\ TileKnown /\ length \in Nat
  BY DEF RefuseTile, TileInv, TileKnown
<1>2. TileKnown'
  BY <1>1 DEF TileKnown, Reading, Rendering, OfFrame, Empty
<1>3. held' \in Buffers /\ HeaderBounds' /\ BufferBounds'
  BY <1>1, TileAssumption
     DEF Nothing, Buffers, HeaderBounds, BufferBounds, OfFrame
<1>q. QED
  BY <1>1, <1>2, <1>3 DEF TileInv

\* A stutter keeps the invariant.
LEMMA TileStutter ==
    ASSUME TileInv, UNCHANGED tileVars
    PROVE  TileInv'
  BY DEF tileVars, TileInv, TileKnown, HeaderBounds, BufferBounds, HiddenTile,
         JobReservation, SameAsPlanned

\* A hidden tile is done without its job allocating anything else.
LEMMA HiddenStep ==
    ASSUME TileInv, SkipHiddenTile
    PROVE  TileInv'
<1>1. /\ stage = "parameters" /\ stage' = "done" /\ held' = Nothing
      /\ tile # NoTile
      /\ UNCHANGED <<length, region, tile, content, reservation>>
      /\ TileKnown /\ length \in Nat /\ region \in Regions
      /\ tile.picture \in Pictures
  BY DEF SkipHiddenTile, Follows, TileInv, TileKnown
<1>2. TileKnown'
  BY <1>1
     DEF TileKnown, Reading, Rendering, OfFrame, Empty, JobReservation
<1>3. held' \in Buffers /\ HeaderBounds'
  BY <1>1, TileAssumption DEF Nothing, Buffers, HeaderBounds
<1>4. BufferBounds'
  <2>1. RgbBytes(tile.picture) \in Nat /\ ContributionBytes(region) \in Nat
    BY <1>1, PictureSizes, RegionSizes
  <2>q. QED
    BY <1>1, <2>1 DEF Nothing, BufferBounds, OfFrame
<1>q. QED
  BY <1>1, <1>2, <1>3, <1>4 DEF TileInv, Empty

\* What the job has found is no more than was planned.
LEMMA CompareStep ==
    ASSUME TileInv, CompareWithPlan
    PROVE  TileInv'
<1>1. /\ stage = "prepared" /\ stage' = "frame" /\ tile # NoTile
      /\ SameAsPlanned(content.picture)
      /\ UNCHANGED <<length, region, tile, content, reservation, held>>
      /\ TileKnown
  BY DEF CompareWithPlan, Follows, TileInv
<1>2. TileKnown'
  <2>1. /\ JobReservation' = JobReservation /\ HiddenTile' = HiddenTile
        /\ SameAsPlanned(content.picture)'
    BY <1>1 DEF JobReservation, HiddenTile, SameAsPlanned
  <2>2. ~HiddenTile
    BY <1>1 DEF TileKnown, Reading
  <2>q. QED
    BY <1>1, <2>1, <2>2 DEF TileKnown, Reading, Rendering, OfFrame, Empty
<1>3. held' \in Buffers /\ HeaderBounds'
  BY <1>1 DEF TileInv, HeaderBounds
<1>4. BufferBounds'
  BY <1>1 DEF TileInv, BufferBounds, OfFrame
<1>q. QED
  BY <1>1, <1>2, <1>3, <1>4 DEF TileInv, Empty

\* What every step between the comparison and the result has in common.
LEMMA RenderKnown ==
    ASSUME TileInv, stage \in Rendering, stage' \in Rendering \cup {"done"},
           UNCHANGED <<length, region, tile, content, reservation>>
    PROVE  /\ TileKnown' /\ stage' \notin Empty
           /\ content \in Contents(length) /\ length \in Nat
           /\ content.picture \in Pictures /\ tile.picture \in Pictures
           /\ region \in Regions /\ ~HiddenTile
<1>1. TileKnown
  BY DEF TileInv
<1>2. tile # NoTile /\ content \in Contents(length) /\ length \in Nat
  BY <1>1 DEF TileKnown
<1>q. QED
  BY <1>1, <1>2, KnownStep, ContentSizes
     DEF TileKnown, Rendering, OfFrame, Empty

\* Decoding: the frame, its maps, the copies of SAO, and the frame alone.
LEMMA DecodeStep ==
    ASSUME TileInv,
           AllocateFrame \/ AllocateMaps \/ CopyForSao \/ ReturnFrame
    PROVE  TileInv'
<1>1. /\ stage \in Rendering /\ stage' \in Rendering
      /\ UNCHANGED <<length, region, tile, content, reservation>>
      /\ held \in Buffers /\ HeaderBounds /\ BufferBounds
  BY DEF AllocateFrame, AllocateMaps, CopyForSao, ReturnFrame, Follows,
         Rendering, OfFrame, TileInv
<1>2. /\ TileKnown' /\ stage' \notin Empty
      /\ content \in Contents(length) /\ length \in Nat
      /\ content.picture \in Pictures
  BY <1>1, RenderKnown
<1>3. PICK n \in Nat : n = PlaneBytes(content.picture)
  BY <1>2, PictureSizes
<1>4. PICK m \in Nat : m = MarkBytes(content.picture)
  BY <1>2, PictureSizes
<1>5. PICK k \in Nat : k = MapBytes(content.picture)
  BY <1>2, PictureSizes
<1>6. /\ BufferBounds' =
           (/\ held'.planes <= IF stage' \in OfFrame THEN n ELSE 0
            /\ held'.marks <=
                 IF stage' \in OfFrame \cup {"colour", "rendered"}
                 THEN 2 * m ELSE 0
            /\ held'.maps <= IF stage' \in {"coded", "filtered"} THEN k ELSE 0
            /\ held'.copies <= IF stage' = "filtered" THEN n + m ELSE 0
            /\ held'.rgb <=
                 IF stage' \in {"rgb", "colour", "rendered", "pixels",
                                "summed", "done"}
                 THEN RgbBytes(tile.picture) ELSE 0
            /\ held'.converted <=
                 IF stage' = "rendered" THEN RgbBytes(tile.picture) ELSE 0
            /\ held'.sums <=
                 IF stage' \in {"summed", "done"}
                 THEN ContributionBytes(region) ELSE 0)
  BY <1>1, <1>3, <1>4, <1>5 DEF BufferBounds
<1>7. CASE AllocateFrame
  <2>1. /\ held' = [held EXCEPT !.planes = n, !.marks = 2 * m]
        /\ stage = "frame" /\ stage' = "context"
    BY <1>3, <1>4, <1>7 DEF AllocateFrame, Follows
  <2>2. held' \in Buffers /\ HeaderBounds'
    <3>1. held' \in Buffers
      <4>1. PICK d \in Nat : d = 2 * m
        BY <1>4
      <4>2. held' = [held EXCEPT !.planes = n, !.marks = d]
        BY <2>1, <4>1
      <4>q. QED
        BY <1>1, <1>3, <4>2 DEF Buffers
    <3>2. HeaderBounds'
      BY <1>1, <2>1 DEF Buffers, HeaderBounds
    <3>q. QED
      BY <3>1, <3>2
  <2>3. BufferBounds'
    BY <1>1, <1>6, <2>1 DEF Buffers, BufferBounds, OfFrame
  <2>q. QED
    BY <1>2, <2>2, <2>3 DEF TileInv
<1>8. CASE AllocateMaps
  <2>1. PICK e \in Nat :
          /\ held' = [held EXCEPT !.entries = e, !.maps = k]
          /\ e <= 4 * 1023
          /\ stage = "context" /\ stage' = "coded"
    <3>1. 4 * content.entries \in Nat /\ 4 * content.entries <= 4 * 1023
      BY <1>2, ContentSizes
    <3>q. QED
      BY <1>5, <1>8, <3>1 DEF AllocateMaps, Follows
  <2>2. held' \in Buffers /\ HeaderBounds'
    <3>1. held' \in Buffers
      BY <1>1, <2>1 DEF Buffers
    <3>2. HeaderBounds'
      BY <1>1, <2>1 DEF Buffers, HeaderBounds
    <3>q. QED
      BY <3>1, <3>2
  <2>3. BufferBounds'
    BY <1>1, <1>3, <1>4, <1>6, <2>1 DEF Buffers, BufferBounds, OfFrame
  <2>q. QED
    BY <1>2, <2>2, <2>3 DEF TileInv
<1>9. CASE CopyForSao
  <2>1. PICK c \in Nat :
          /\ held' = [held EXCEPT !.copies = c]
          /\ c <= n + m
          /\ stage = "coded" /\ stage' = "filtered"
    BY <1>2, <1>3, <1>4, <1>9, SaoCopies DEF CopyForSao, Follows
  <2>2. held' \in Buffers /\ HeaderBounds'
    <3>1. held' \in Buffers
      BY <1>1, <2>1 DEF Buffers
    <3>2. HeaderBounds'
      BY <1>1, <2>1 DEF Buffers, HeaderBounds
    <3>q. QED
      BY <3>1, <3>2
  <2>3. BufferBounds'
    BY <1>1, <1>3, <1>4, <1>6, <2>1 DEF Buffers, BufferBounds, OfFrame
  <2>q. QED
    BY <1>2, <2>2, <2>3 DEF TileInv
<1>10. CASE ReturnFrame
  <2>1. /\ held' = [held EXCEPT !.maps = 0, !.copies = 0, !.entries = 0,
                                !.slice = 0]
        /\ stage = "filtered" /\ stage' = "decoded"
    BY <1>10 DEF ReturnFrame, Follows
  <2>2. held' \in Buffers /\ HeaderBounds'
    <3>1. held' \in Buffers
      BY <1>1, <2>1 DEF Buffers
    <3>2. HeaderBounds'
      BY <1>1, <1>2, <2>1, TileAssumption DEF Buffers, HeaderBounds
    <3>q. QED
      BY <3>1, <3>2
  <2>3. BufferBounds'
    BY <1>1, <1>3, <1>4, <1>6, <2>1 DEF Buffers, BufferBounds, OfFrame
  <2>q. QED
    BY <1>2, <2>2, <2>3 DEF TileInv
<1>q. QED
  BY <1>7, <1>8, <1>9, <1>10

\* From the frame to the pixels of the job.
LEMMA ColourStep ==
    ASSUME TileInv,
           ConvertToRgb \/ DropPlanes \/ TransformColours \/ ReturnPixels
    PROVE  TileInv'
<1>1. /\ stage \in Rendering /\ stage' \in Rendering
      /\ UNCHANGED <<length, region, tile, content, reservation>>
      /\ held \in Buffers /\ HeaderBounds /\ BufferBounds
  BY DEF ConvertToRgb, DropPlanes, TransformColours, ReturnPixels, Follows,
         Rendering, OfFrame, TileInv
<1>2. /\ TileKnown' /\ stage' \notin Empty /\ tile.picture \in Pictures
  BY <1>1, RenderKnown
<1>3. PICK g \in Nat : g = RgbBytes(tile.picture)
  BY <1>2, PictureSizes
<1>4. HeaderBounds'
  <2>1. /\ held'.payload = held.payload
        /\ held'.parameters = held.parameters
        /\ held'.slice = held.slice /\ held'.entries = held.entries
    BY <1>1 DEF ConvertToRgb, DropPlanes, TransformColours, ReturnPixels,
                Buffers
  <2>q. QED
    BY <1>1, <2>1 DEF HeaderBounds
<1>5. CASE ConvertToRgb
  <2>1. /\ held' = [held EXCEPT !.rgb = g]
        /\ stage = "decoded" /\ stage' = "rgb"
    BY <1>3, <1>5 DEF ConvertToRgb, Follows
  <2>2. held' \in Buffers
    BY <1>1, <2>1 DEF Buffers
  <2>3. BufferBounds'
    BY <1>1, <1>3, <2>1 DEF Buffers, BufferBounds, OfFrame
  <2>q. QED
    BY <1>2, <1>4, <2>2, <2>3 DEF TileInv
<1>6. CASE DropPlanes
  <2>1. /\ held' = [held EXCEPT !.planes = 0]
        /\ stage = "rgb" /\ stage' = "colour"
    BY <1>6 DEF DropPlanes, Follows
  <2>2. held' \in Buffers
    BY <1>1, <2>1 DEF Buffers
  <2>3. BufferBounds'
    BY <1>1, <1>3, <2>1 DEF Buffers, BufferBounds, OfFrame
  <2>q. QED
    BY <1>2, <1>4, <2>2, <2>3 DEF TileInv
<1>7. CASE TransformColours
  <2>1. /\ held' = [held EXCEPT !.converted = g]
        /\ stage = "colour" /\ stage' = "rendered"
    BY <1>3, <1>7 DEF TransformColours, Follows
  <2>2. held' \in Buffers
    BY <1>1, <2>1 DEF Buffers
  <2>3. BufferBounds'
    BY <1>1, <1>3, <2>1 DEF Buffers, BufferBounds, OfFrame
  <2>q. QED
    BY <1>2, <1>4, <2>2, <2>3 DEF TileInv
<1>8. CASE ReturnPixels
  <2>1. /\ held' = [held EXCEPT !.marks = 0, !.rgb = g, !.converted = 0]
        /\ stage \in {"colour", "rendered"} /\ stage' = "pixels"
    BY <1>3, <1>8 DEF ReturnPixels
  <2>2. held' \in Buffers
    BY <1>1, <2>1 DEF Buffers
  <2>3. BufferBounds'
    BY <1>1, <1>3, <2>1 DEF Buffers, BufferBounds, OfFrame
  <2>q. QED
    BY <1>2, <1>4, <2>2, <2>3 DEF TileInv
<1>q. QED
  BY <1>5, <1>6, <1>7, <1>8

\* The result of the job: the pixels, or their sums.
LEMMA ResultStep ==
    ASSUME TileInv, KeepPixels \/ SumPixels \/ KeepSums
    PROVE  TileInv'
<1>1. /\ stage \in Rendering /\ stage' \in Rendering \cup {"done"}
      /\ UNCHANGED <<length, region, tile, content, reservation>>
      /\ held \in Buffers /\ HeaderBounds /\ BufferBounds
  BY DEF KeepPixels, SumPixels, KeepSums, Follows, Rendering, OfFrame, TileInv
<1>2. /\ TileKnown' /\ stage' \notin Empty /\ tile.picture \in Pictures
      /\ length \in Nat /\ region \in Regions /\ ~HiddenTile
      /\ ParameterLimit \in Nat
  BY <1>1, RenderKnown, TileAssumption
<1>3. PICK g \in Nat : g = RgbBytes(tile.picture)
  BY <1>2, PictureSizes
<1>4. PICK c \in Nat : c = ContributionBytes(region)
  BY <1>2, RegionSizes
<1>5. CASE KeepPixels
  <2>1. PICK r \in Nat : r = held.rgb /\ r <= g
    <3>1. stage = "pixels" /\ held.rgb \in Nat
      BY <1>1, <1>5 DEF KeepPixels, Follows, Buffers
    <3>q. QED
      BY <1>1, <1>3, <3>1 DEF BufferBounds
  <2>2. held' = [Nothing EXCEPT !.rgb = r] /\ stage' = "done"
    BY <1>5, <2>1 DEF KeepPixels, Follows
  <2>3. held' \in Buffers /\ HeaderBounds'
    BY <1>1, <1>2, <2>2 DEF Nothing, Buffers, HeaderBounds
  <2>4. BufferBounds'
    BY <1>1, <1>3, <1>4, <2>1, <2>2 DEF Nothing, BufferBounds, OfFrame
  <2>q. QED
    BY <1>2, <2>3, <2>4 DEF TileInv
<1>6. CASE SumPixels
  <2>1. /\ held' = [held EXCEPT !.sums = c]
        /\ stage = "pixels" /\ stage' = "summed"
    BY <1>4, <1>6 DEF SumPixels, Follows
  <2>2. held' \in Buffers /\ HeaderBounds'
    <3>1. held' \in Buffers
      BY <1>1, <2>1 DEF Buffers
    <3>2. HeaderBounds'
      BY <1>1, <2>1 DEF Buffers, HeaderBounds
    <3>q. QED
      BY <3>1, <3>2
  <2>3. BufferBounds'
    BY <1>1, <1>3, <1>4, <2>1 DEF Buffers, BufferBounds, OfFrame
  <2>q. QED
    BY <1>2, <2>2, <2>3 DEF TileInv
<1>7. CASE KeepSums
  <2>1. PICK s \in Nat : s = ResultBytes(region) /\ s <= c
    <3>1. region.scaled /\ region.width * region.height # 0
      BY <1>2, <1>7 DEF KeepSums, HiddenTile
    <3>2. ResultBytes(region) \in Nat /\ ResultBytes(region) <= c
      BY <1>2, <1>4, <3>1, RegionSizes
    <3>q. QED
      BY <3>2
  <2>2. held' = [Nothing EXCEPT !.sums = s] /\ stage' = "done"
    BY <1>7, <2>1 DEF KeepSums, Follows
  <2>3. held' \in Buffers /\ HeaderBounds'
    BY <1>1, <1>2, <2>2 DEF Nothing, Buffers, HeaderBounds
  <2>4. BufferBounds'
    BY <1>1, <1>3, <1>4, <2>1, <2>2 DEF Nothing, BufferBounds, OfFrame
  <2>q. QED
    BY <1>2, <2>3, <2>4 DEF TileInv
<1>q. QED
  BY <1>5, <1>6, <1>7

\* Every step keeps the invariant.
LEMMA NextTileInv ==
    ASSUME TileInv, [TileNext]_tileVars
    PROVE  TileInv'
<1>1. CASE ReadForPreflight \/ GatherTile
  BY <1>1, ReadStep
<1>2. CASE CopyParameters \/ CopySlice \/ ParseSliceHeader \/ ReturnPrepared
  BY <1>2, HeaderStep
<1>3. CASE PlanTileMemory
  BY <1>3, PlanStep
<1>4. CASE SkipHiddenTile
  BY <1>4, HiddenStep
<1>5. CASE CompareWithPlan
  BY <1>5, CompareStep
<1>6. CASE AllocateFrame \/ AllocateMaps \/ CopyForSao \/ ReturnFrame
  BY <1>6, DecodeStep
<1>7. CASE ConvertToRgb \/ DropPlanes \/ TransformColours \/ ReturnPixels
  BY <1>7, ColourStep
<1>8. CASE KeepPixels \/ SumPixels \/ KeepSums
  BY <1>8, ResultStep
<1>9. CASE RefuseTile
  BY <1>9, RefuseStep
<1>10. CASE TileEnded \/ UNCHANGED tileVars
  BY <1>10, TileStutter DEF TileEnded
<1>q. QED
  BY <1>1, <1>2, <1>3, <1>4, <1>5, <1>6, <1>7, <1>8, <1>9, <1>10 DEF TileNext

\* The inductive invariant of one tile's memory.
THEOREM TileInvariant == TileSpec => []TileInv
<1>1. TileInit => TileInv
  BY InitTileInv
<1>2. TileInv /\ [TileNext]_tileVars => TileInv'
  BY NextTileInv
<1>q. QED
  BY <1>1, <1>2, PTL DEF TileSpec

\* A tile never has more memory than is reserved for it, in preflight and in
\* its job, whatever its pictures, its NAL units and their removed bytes are,
\* and whatever the job finds when it reads the item again (render_tile).
THEOREM TileWithinReservation == TileSpec => []AllocatedWithinReservation
<1>1. TileInv => AllocatedWithinReservation
  BY TileSafe
<1>q. QED
  BY <1>1, TileInvariant, PTL

\* reconstruction_bytes, computed in preflight, covers every set of buffers
\* that a job has of its picture at one time, whatever headers it has found;
\* the headers are covered by the rest of the workspace.
THEOREM EstimateSuffices == TileSpec => []EstimateCoversPicture
<1>1. TileInv => EstimateCoversPicture
  BY TileSafe
<1>q. QED
  BY <1>1, TileInvariant, PTL
=============================================================================
