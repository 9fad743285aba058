------------------------------ MODULE GridTiles ------------------------------
(***************************************************************************)
(* The decoding of the tiles of a grid image by src/lib.rs in a build with *)
(* parallel-grid: for_each_decoded_heic_grid_tile and the sliding window   *)
(* of for_each_ordered_bounded_parallel.  The calling thread hands tiles   *)
(* to the threads of a rayon pool, keeps what they return out of order and *)
(* consumes the tiles in row-major order.  A tile takes a permit and its   *)
(* estimated memory when it is handed out and gives both back when it has  *)
(* been consumed.  A tile whose memory cannot be estimated is decoded by   *)
(* the caller, when nothing else is in flight.                             *)
(*                                                                         *)
(* Several calls share one pool, and a call may itself be made by one of   *)
(* its threads.  A tile is its number; what it decodes to is left out.     *)
(***************************************************************************)
EXTENDS Naturals, Sequences, FiniteSets, FiniteSetsExt

CONSTANTS
    Calls,          \* calls that run at the same time
    Inside,         \* those of them made by a thread of the pool
    Workers,        \* rayon::current_num_threads
    MaxThreads,     \* MAX_GRID_TILE_DECODE_THREADS
    MaxTiles,       \* tiles of a grid after the first, at most
    Budget,         \* GRID_TILE_DECODE_MEMORY_BUDGET
    Estimates       \* what the estimate of a tile may say

\* estimate_heic_grid_tile_decode_bytes(tile).ok() is None.
Unknown == 0

ASSUME CallsAssumption == IsFiniteSet(Calls) /\ Inside \subseteq Calls
ASSUME ThreadsAssumption ==
    /\ Workers \in Nat \ {0}
    /\ MaxThreads \in Nat \ {0}
    /\ MaxTiles \in Nat
ASSUME MemoryAssumption == Budget \in Nat \ {0} /\ Estimates \subseteq Nat

VARIABLES
    tiles,      \* of each call: the tiles after the first
    estimate,   \*   what estimating a tile gives
    pc,         \*   what the calling thread does next
    scheduled,  \*   next_to_schedule
    consumed,   \*   next_to_consume
    retained,   \*   retained_estimates
    bytes,      \*   retained_estimated_bytes
    cached,     \*   next_estimate, << >> when it is None
    status,     \*   where each tile is
    fate,       \*   what decoding a tile on a worker gave
    delivered,  \*   the tiles that consume accepted
    result

inputVars == <<tiles, estimate>>
windowVars == <<scheduled, retained, bytes, cached>>
vars == <<inputVars, pc, windowVars, consumed, status, fate, delivered, result>>

Sequential == INSTANCE SequentialTiles

Tiles(c) == 1 .. tiles[c]

\* The next tile to consume, and the next one to hand out.
Due(c) == consumed[c] + 1
Upcoming(c) == scheduled[c] + 1

\* heic_grid_tile_decode_window.
Window(c) == Min({Workers, MaxThreads, tiles[c]})

With(c, state) == {i \in Tiles(c) : status[c][i] = state}

-----------------------------------------------------------------------------
(* The threads of the pool.  A thread that made a call is lost to the pool *)
(* until the call waits for its scope to end: only there it runs jobs.     *)

Occupying(c) == c \in Inside /\ pc[c] \notin {"idle", "closing", "returned"}

Busy == Cardinality({c \in Calls : Occupying(c)})
        + MapThenSumSet(LAMBDA c : Cardinality(With(c, "running")), Calls)

IdleWorker == Busy < Workers

Init ==
    /\ tiles \in [Calls -> 0 .. MaxTiles]
    /\ estimate \in [Calls -> [1 .. MaxTiles -> Estimates]]
    /\ \A c \in Calls : \A i \in 1 .. MaxTiles :
           i > tiles[c] => estimate[c][i] = CHOOSE e \in Estimates : TRUE
    /\ pc = [c \in Calls |-> "idle"]
    /\ scheduled = [c \in Calls |-> 0]
    /\ consumed = [c \in Calls |-> 0]
    /\ retained = [c \in Calls |-> << >>]
    /\ bytes = [c \in Calls |-> 0]
    /\ cached = [c \in Calls |-> << >>]
    /\ status = [c \in Calls |-> [i \in 1 .. MaxTiles |-> "waiting"]]
    /\ fate = [c \in Calls |-> [i \in 1 .. MaxTiles |-> "none"]]
    /\ delivered = [c \in Calls |-> << >>]
    /\ result = [c \in Calls |-> [why |-> "none", tile |-> 0]]

-----------------------------------------------------------------------------
Goto(c, label) == pc' = [pc EXCEPT ![c] = label]

Move(c, i, state) == status' = [status EXCEPT ![c][i] = state]

\* The call is decided.  In the scope the caller then waits for its workers.
Decide(c, why, i, label) ==
    /\ result' = [result EXCEPT ![c] = [why |-> why, tile |-> i]]
    /\ Goto(c, label)
    /\ UNCHANGED <<inputVars, windowVars, consumed, status, fate, delivered>>

\* consume accepts a tile.
Deliver(c, i) == delivered' = [delivered EXCEPT ![c] = Append(@, i)]

Begin(c) ==
    /\ pc[c] = "idle"
    /\ c \in Inside => IdleWorker
    /\ Goto(c, "first")
    /\ UNCHANGED <<inputVars, windowVars, consumed, status, fate, delivered,
                   result>>

\* The first tile has been decoded before: it gives the geometry.
ConsumeFirst(c) ==
    /\ pc[c] = "first"
    /\ \/ /\ Deliver(c, 0)
          /\ Goto(c, IF Window(c) > 1 THEN "loop" ELSE "sequential")
          /\ UNCHANGED <<inputVars, windowVars, consumed, status, fate, result>>
       \/ \E why \in {"consume", "panic"} : Decide(c, why, 0, "returned")

\* Without a window the tiles are decoded and consumed in turn.
DecodeInTurn(c) ==
    /\ pc[c] = "sequential"
    /\ \/ /\ consumed[c] < tiles[c]
          /\ Deliver(c, Due(c))
          /\ consumed' = [consumed EXCEPT ![c] = @ + 1]
          /\ UNCHANGED <<inputVars, windowVars, pc, status, fate, result>>
       \/ /\ consumed[c] < tiles[c]
          /\ \E why \in {"decode", "consume", "panic"} :
                 Decide(c, why, Due(c), "returned")
       \/ /\ consumed[c] = tiles[c]
          /\ Decide(c, "done", 0, "returned")

-----------------------------------------------------------------------------
(* The loop of for_each_ordered_bounded_parallel.                          *)

\* Mutant of Takes: any tile that is ready is taken.
TakesAny(c, i) == TRUE

\* The only tile that is taken out of the ready ones.
Takes(c, i) == i = Due(c)

\* What the workers have sent is collected, and the tile that is due is
\* taken if it is there.
Collect(c) ==
    /\ pc[c] = "loop"
    /\ consumed[c] < tiles[c]
    /\ LET ready == With(c, "sent") \cup With(c, "ready")
           due == {i \in ready : Takes(c, i)}
       IN  /\ status' = [status EXCEPT ![c] =
                  [i \in 1 .. MaxTiles |->
                      IF i \in ready
                      THEN IF due # {} /\ i = Min(due) THEN "held" ELSE "ready"
                      ELSE @[i]]]
           /\ Goto(c, IF due # {} THEN "consume" ELSE "fill")
    /\ UNCHANGED <<inputVars, windowVars, consumed, fate, delivered, result>>

Complete(c) ==
    /\ pc[c] = "loop"
    /\ consumed[c] = tiles[c]
    /\ Decide(c, "done", 0, "closing")

\* The permit of a tile is given back once consume has returned.
Consume(c) ==
    /\ pc[c] = "consume"
    /\ \E i \in With(c, "held") :
           /\ fate[c][i] = "ok"
           /\ Deliver(c, i)
           /\ Move(c, i, "gone")
    /\ consumed' = [consumed EXCEPT ![c] = @ + 1]
    /\ bytes' = [bytes EXCEPT ![c] = @ - Head(retained[c])]
    /\ retained' = [retained EXCEPT ![c] = Tail(@)]
    /\ Goto(c, "loop")
    /\ UNCHANGED <<inputVars, scheduled, cached, fate, result>>

\* The tile has not been decoded, or consume does not accept it.
FailConsume(c) ==
    /\ pc[c] = "consume"
    /\ \E i \in With(c, "held") :
          \/ fate[c][i] = "error" /\ Decide(c, "decode", i, "closing")
          \/ fate[c][i] = "panic" /\ Decide(c, "panic", i, "closing")
          \/ /\ fate[c][i] = "ok"
             /\ \E why \in {"consume", "panic"} : Decide(c, why, i, "closing")

\* The estimate of the next tile to hand out: made once, then remembered.
Needed(c) == IF cached[c] = << >> THEN estimate[c][Upcoming(c)] ELSE cached[c][1]

PermitLeft(c) ==
    scheduled[c] < tiles[c] /\ Len(retained[c]) < Window(c)

\* Mutant of Fits: the memory of the next tile is not counted.
FitsWithoutNext(c) == retained[c] = << >> \/ bytes[c] <= Budget

\* A tile that is alone in flight may exceed the budget.
Fits(c) == retained[c] = << >> \/ bytes[c] + Needed(c) <= Budget

CanSchedule(c) == PermitLeft(c) /\ Needed(c) # Unknown /\ Fits(c)

\* Mutant of Schedule: the remembered estimate is used again.
ScheduleWithOldEstimate(c) ==
    /\ pc[c] = "fill"
    /\ CanSchedule(c)
    /\ Move(c, Upcoming(c), "queued")
    /\ retained' = [retained EXCEPT ![c] = Append(@, Needed(c))]
    /\ bytes' = [bytes EXCEPT ![c] = @ + Needed(c)]
    /\ scheduled' = [scheduled EXCEPT ![c] = @ + 1]
    /\ UNCHANGED <<inputVars, pc, consumed, cached, fate, delivered, result>>

\* The next tile is spawned and its estimate retained.
Schedule(c) ==
    /\ pc[c] = "fill"
    /\ CanSchedule(c)
    /\ Move(c, Upcoming(c), "queued")
    /\ retained' = [retained EXCEPT ![c] = Append(@, Needed(c))]
    /\ bytes' = [bytes EXCEPT ![c] = @ + Needed(c)]
    /\ scheduled' = [scheduled EXCEPT ![c] = @ + 1]
    /\ cached' = [cached EXCEPT ![c] = << >>]
    /\ UNCHANGED <<inputVars, pc, consumed, fate, delivered, result>>

\* Nothing more can be handed out: the caller decodes the tile itself if
\* nothing is in flight, and waits for a worker otherwise.
EndFill(c) ==
    /\ pc[c] = "fill"
    /\ ~CanSchedule(c)
    /\ cached' = [cached EXCEPT ![c] = IF PermitLeft(c) THEN <<Needed(c)>> ELSE @]
    /\ IF scheduled[c] = consumed[c] /\ retained[c] = << >>
       THEN Goto(c, "inline") /\ Move(c, Due(c), "held")
       ELSE Goto(c, "receive") /\ UNCHANGED status
    /\ UNCHANGED <<inputVars, scheduled, retained, bytes, consumed, fate,
                   delivered, result>>

DecodeInline(c) ==
    /\ pc[c] = "inline"
    /\ \/ /\ Deliver(c, Due(c))
          /\ Move(c, Due(c), "gone")
          /\ consumed' = [consumed EXCEPT ![c] = @ + 1]
          /\ scheduled' = [scheduled EXCEPT ![c] = @ + 1]
          /\ cached' = [cached EXCEPT ![c] = << >>]
          /\ Goto(c, "loop")
          /\ UNCHANGED <<inputVars, retained, bytes, fate, result>>
       \/ \E why \in {"decode", "consume", "panic"} :
              Decide(c, why, Due(c), "closing")

\* receiver.recv blocks the thread until a worker has sent something.
Receive(c) ==
    /\ pc[c] = "receive"
    /\ \E i \in With(c, "sent") : Move(c, i, "ready")
    /\ Goto(c, "loop")
    /\ UNCHANGED <<inputVars, windowVars, consumed, fate, delivered, result>>

\* in_place_scope_fifo returns when every job that was spawned has run.
Close(c) ==
    /\ pc[c] = "closing"
    /\ With(c, "queued") \cup With(c, "running") = {}
    /\ Goto(c, "returned")
    /\ UNCHANGED <<inputVars, windowVars, consumed, status, fate, delivered,
                   result>>

-----------------------------------------------------------------------------
(* A thread of the pool runs the jobs of a scope in the order they were    *)
(* spawned.                                                                *)

StartJob(c) ==
    /\ IdleWorker
    /\ With(c, "queued") # {}
    /\ Move(c, Min(With(c, "queued")), "running")
    /\ UNCHANGED <<inputVars, pc, windowVars, consumed, fate, delivered, result>>

\* Mutant of FinishJob: a panic is not caught.
FinishJobUncaught(c, i) ==
    /\ status[c][i] = "running"
    /\ \E outcome \in {"ok", "error", "panic"} :
           /\ fate' = [fate EXCEPT ![c][i] = outcome]
           /\ Move(c, i, IF outcome = "panic" THEN "gone" ELSE "sent")
    /\ UNCHANGED <<inputVars, pc, windowVars, consumed, delivered, result>>

\* The tile is decoded, or not, and sent; a panic is caught and sent as well.
FinishJob(c, i) ==
    /\ status[c][i] = "running"
    /\ \E outcome \in {"ok", "error", "panic"} :
           fate' = [fate EXCEPT ![c][i] = outcome]
    /\ Move(c, i, "sent")
    /\ UNCHANGED <<inputVars, pc, windowVars, consumed, delivered, result>>

-----------------------------------------------------------------------------
Caller(c) ==
    \/ Begin(c) \/ ConsumeFirst(c) \/ DecodeInTurn(c)
    \/ Collect(c) \/ Complete(c) \/ Consume(c) \/ FailConsume(c)
    \/ Schedule(c) \/ EndFill(c) \/ DecodeInline(c) \/ Receive(c)
    \/ Close(c)

Job(c) == StartJob(c) \/ \E i \in Tiles(c) : FinishJob(c, i)

AllReturned == (\A c \in Calls : pc[c] = "returned") /\ UNCHANGED vars

Next == (\E c \in Calls : Caller(c) \/ Job(c)) \/ AllReturned

Spec == Init /\ [][Next]_vars

\* A thread that can go on does, and an idle thread of the pool finds a job.
FairSpec ==
    /\ Spec
    /\ \A c \in Calls :
           /\ WF_vars(Caller(c))
           /\ WF_vars(StartJob(c))
           /\ \A i \in 1 .. MaxTiles : WF_vars(FinishJob(c, i))

-----------------------------------------------------------------------------
\* The tiles of a call that hold memory: handed out and not yet given back.
InFlight(c) ==
    {i \in Tiles(c) : status[c][i] \in {"queued", "running", "sent", "ready",
                                        "held"}}

\* The comment of for_each_ordered_bounded_parallel: active jobs and results
\* that wait out of order stay within both bounds, by what their estimates
\* really are.  A tile that alone exceeds the budget, or cannot be estimated,
\* is alone in flight.
WithinBounds ==
    \A c \in Calls :
        /\ Cardinality(InFlight(c)) <= Max({1, Window(c)})
        /\ \/ Cardinality(InFlight(c)) <= 1
           \/ /\ \A i \in InFlight(c) : estimate[c][i] # Unknown
              /\ MapThenSumSet(LAMBDA i : estimate[c][i], InFlight(c)) <= Budget

\* The bytes counted as retained are those of the tiles that are in flight on
\* the pool, and the estimate given back with a tile is its own, though tiles
\* complete in any order, are put off and decoded by the caller.  An error
\* here would not show: the code expects that "a completed grid tile must
\* retain one memory estimate", and subtracts with saturation.
AccountsExact ==
    \A c \in Calls :
        /\ bytes[c] = MapThenSumSet(LAMBDA i : estimate[c][i],
                                    {i \in InFlight(c) : i <= scheduled[c]})
        /\ pc[c] = "consume" =>
             \A i \in With(c, "held") :
                 retained[c] # << >> /\ Head(retained[c]) = estimate[c][i]

\* Whatever the pool does, a call consumes the tiles and reports the error
\* of the sequential loop.
DecodesInOrder == Sequential!Spec

\* Every call that has begun returns, also when tiles panic or fail, and
\* when some of the threads of the pool are themselves waiting in a call.
CallsReturn == \A c \in Calls : pc[c] = "first" ~> pc[c] = "returned"

\* A caller that waits for a worker is answered: the expectation of the code
\* that "a scoped grid worker must report completion before exiting".
WorkerReports == \A c \in Calls : pc[c] = "receive" ~> pc[c] # "receive"
=============================================================================
