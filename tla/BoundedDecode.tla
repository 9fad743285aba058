--------------------------- MODULE BoundedDecode ---------------------------
(***************************************************************************)
(* decode_bounded (src/bounded.rs) with its memory budget                  *)
(* (src/bounded/memory.rs) and the preflight of the coded items            *)
(* (src/bounded/grid.rs).                                                  *)
(*                                                                         *)
(* One call decodes a HEIC image of Count coded tiles under a budget of    *)
(* `limit` bytes.  The calling thread reserves its long-lived buffers,     *)
(* reads the headers of every tile (preflight), admits the output together *)
(* with the largest tile, then decodes the tiles in batches: gather jobs,  *)
(* run them on the worker pool, merge their results in tile order.         *)
(*                                                                         *)
(* Bytes are abstract units.  What a tile decodes to is left out: how much *)
(* memory is reserved for it, whether it fails, and when it reaches the    *)
(* output are all that matters here.  What it allocates of its reservation *)
(* is in TileMemory.                                                       *)
(***************************************************************************)
EXTENDS Naturals, Sequences

CONSTANTS
    Count,            \* number of coded tiles, grid.tiles.len()
    Columns,          \* tiles in a row of the grid
    Limits,           \* the values options.max_memory_bytes may have
    MinLimit,         \* the 64 KiB below which options are refused
    StageBytes,       \* bytes of each long-lived reservation of the call
    ExifBytes,        \* bytes of the Exif item read during preflight
    Payloads,         \* possible coded payload lengths
    Reconstructions,  \* possible values of Prepared::reconstruction_bytes
    Contribution,     \* per tile, bytes of its boundary and interior sums
    Hidden,           \* tiles that the crop leaves no pixel of
    Parallelism,      \* possible values of available_parallelism
    Slack,            \* the 1 MiB added to every codec workspace
    PoolBase,         \* the constant term of pool_bytes
    Stack             \* WORKER_STACK_BYTES

VARIABLES
    limit,      \* State.limit
    used,       \* State.used
    base,       \* sum of the long-lived reservations the call holds
    pc,         \* what the calling thread does next
    tiles,      \* the preflighted tiles, grid.tiles
    maxJob,     \* max_job
    workers,    \* threads of the pool, 1 when there is none
    next,       \* tiles gathered so far
    slots,      \* the jobs of the batch and, once they ran, their results
    batch,      \* jobs.len()
    cursor,     \* the result of the batch that is merged next
    merged,     \* tiles merged into the output
    rows,       \* calls of finish_tile_row
    rendered,   \* tiles whose pixels were reconstructed
    failed,     \* tiles whose job returned an error
    blame,      \* the tile whose error the call returns, 0 for none
    outcome     \* what the call returned

budgetVars == <<limit, used, base>>
planVars == <<tiles, maxJob, workers>>
batchVars == <<next, slots, batch, cursor>>
resultVars == <<merged, rows, rendered, failed, blame>>
vars == <<budgetVars, pc, planVars, batchVars, resultVars, outcome>>

-----------------------------------------------------------------------------
(* The stages of the calling thread, in the order of the code.             *)

\* The stage that follows each long-lived reservation.
After == [runtime |-> "metadata", metadata |-> "index", index |-> "tiles",
          tiles |-> "preflight", color |-> "boundary",
          boundary |-> "admission", output |-> "pool"]

LongLived == DOMAIN After
Setup == LongLived \cup {"options", "preflight", "exif", "admission", "pool"}
Batching == {"gather", "run", "merge"}

\* The pool has at most eight threads and a batch at most one job for each.
MaxJobs == 8
Slots == 1 .. MaxJobs

Idle == [state |-> "idle", tile |-> 0, reserved |-> 0]

ASSUME SizesAssumption ==
    /\ Count \in Nat \ {0}
    /\ Columns \in Nat \ {0}
    /\ Limits \subseteq Nat
    /\ MinLimit \in Nat
    /\ StageBytes \in [LongLived -> Nat]
    /\ StageBytes["runtime"] <= MinLimit
    /\ ExifBytes \in Nat
    /\ Payloads \subseteq Nat
    /\ Reconstructions \subseteq Nat
    /\ Contribution \in [1 .. Count -> Nat]
    /\ Hidden \subseteq 1 .. Count
    /\ Parallelism \subseteq Nat \ {0}
    /\ Slack \in Nat
    /\ PoolBase \in Nat
    /\ Stack \in Nat

-----------------------------------------------------------------------------
(* The budget.                                                             *)

\* Budget::available.
Available == limit - used

\* The condition under which Budget::reserve succeeds.
Fits(bytes) == used + bytes <= limit

\* The reservations that the jobs of the batch, or their results, hold.
InFlight(s) ==
    s[1].reserved + s[2].reserved + s[3].reserved + s[4].reserved
  + s[5].reserved + s[6].reserved + s[7].reserved + s[8].reserved

\* Tile::preflight's workspace.
Workspace(payload, reconstruction) == reconstruction + 3 * payload + Slack

HeaderBytes(payload) == 5 * payload + Slack

\* job_bytes, of the i-th tile.
JobBytes(i) == tiles[i].workspace + tiles[i].payload + Contribution[i]

PoolBytes(n) == PoolBase + n * Stack

Smaller(a, b) == IF a < b THEN a ELSE b

-----------------------------------------------------------------------------
Init ==
    /\ limit \in Limits
    /\ used = 0
    /\ base = 0
    /\ pc = "options"
    /\ tiles = << >>
    /\ maxJob = 0
    /\ workers = 1
    /\ next = 0
    /\ slots = [s \in Slots |-> Idle]
    /\ batch = 0
    /\ cursor = 1
    /\ merged = 0
    /\ rows = 0
    /\ rendered = {}
    /\ failed = {}
    /\ blame = 0
    /\ outcome = "none"

\* Leave the call: every reservation it or its jobs hold is dropped.
Return(result) ==
    /\ outcome' = result
    /\ pc' = "returned"
    /\ used' = 0
    /\ base' = 0
    /\ slots' = [s \in Slots |-> Idle]
    /\ UNCHANGED <<limit, planVars, next, batch, cursor, merged, rows,
                   rendered, failed>>

CheckOptions ==
    /\ pc = "options"
    /\ \/ /\ limit < MinLimit
          /\ Return("invalid options")
          /\ UNCHANGED blame
       \/ /\ limit >= MinLimit
          /\ pc' = "runtime"
          /\ UNCHANGED <<budgetVars, planVars, batchVars, resultVars, outcome>>

\* Budget::reserve for a buffer that lives until the call returns.
ReserveLongLived ==
    /\ pc \in LongLived
    /\ \/ /\ Fits(StageBytes[pc])
          /\ used' = used + StageBytes[pc]
          /\ base' = base + StageBytes[pc]
          /\ pc' = After[pc]
          /\ UNCHANGED <<limit, planVars, batchVars, resultVars, outcome>>
       \/ /\ ~Fits(StageBytes[pc])
          /\ Return("budget")
          /\ UNCHANGED blame

\* Any other error of the setup: malformed or unsupported input, I/O, a
\* failed allocation.
RefuseInput ==
    /\ pc \in Setup
    /\ Return("refused")
    /\ UNCHANGED blame

\* Tile::preflight.  The payload, its header parse and the whole workspace
\* are reserved in turn and released before the next tile is read.
PreflightTile ==
    /\ pc = "preflight"
    /\ Len(tiles) < Count
    /\ \E payload \in Payloads, reconstruction \in Reconstructions :
         LET workspace == Workspace(payload, reconstruction)
         IN  \/ /\ Fits(payload + HeaderBytes(payload))
                /\ Fits(payload + workspace)
                /\ tiles' = Append(tiles, [payload |-> payload,
                                           workspace |-> workspace])
                /\ UNCHANGED <<budgetVars, pc, maxJob, workers, batchVars,
                               resultVars, outcome>>
             \/ /\ ~ /\ Fits(payload + HeaderBytes(payload))
                     /\ Fits(payload + workspace)
                /\ Return("budget")
                /\ UNCHANGED blame

FinishPreflight ==
    /\ pc = "preflight"
    /\ Len(tiles) = Count
    /\ pc' = "exif"
    /\ UNCHANGED <<budgetVars, planVars, batchVars, resultVars, outcome>>

\* validate_references reads the Exif item, when there is one.
ReadExif ==
    /\ pc = "exif"
    /\ \/ /\ Fits(ExifBytes)
          /\ pc' = "color"
          /\ UNCHANGED <<budgetVars, planVars, batchVars, resultVars, outcome>>
       \/ /\ ~Fits(ExifBytes)
          /\ Return("budget")
          /\ UNCHANGED blame

\* Mutant of Admit: the first tile stands for the largest.
AdmitFirstTile ==
    /\ pc = "admission"
    /\ \/ /\ Fits(StageBytes["output"] + JobBytes(1))
          /\ maxJob' = JobBytes(1)
          /\ pc' = "output"
          /\ UNCHANGED <<budgetVars, tiles, workers, batchVars, resultVars,
                         outcome>>
       \/ /\ ~Fits(StageBytes["output"] + JobBytes(1))
          /\ Return("budget")
          /\ UNCHANGED blame

\* max_job, then the scoped reservation of the output with the largest job,
\* released before the output itself is reserved.
Admit ==
    /\ pc = "admission"
    /\ \E i \in 1 .. Count :
         /\ \A j \in 1 .. Count : JobBytes(j) <= JobBytes(i)
         /\ \/ /\ Fits(StageBytes["output"] + JobBytes(i))
               /\ maxJob' = JobBytes(i)
               /\ pc' = "output"
               /\ UNCHANGED <<budgetVars, tiles, workers, batchVars,
                              resultVars, outcome>>
            \/ /\ ~Fits(StageBytes["output"] + JobBytes(i))
               /\ Return("budget")
               /\ UNCHANGED blame

\* Mutant of SizePool: the worker count is lowered once too often.
SizePoolToZero ==
    /\ pc = "pool"
    /\ workers' = IF maxJob + PoolBytes(1) <= Available THEN 1 ELSE 0
    /\ pc' = "gather"
    /\ UNCHANGED <<budgetVars, tiles, maxJob, batchVars, resultVars, outcome>>

\* The number of workers is lowered until that many of the largest job fit
\* beside the pool's stacks; a pool is built only for more than one.
SizePool ==
    /\ pc = "pool"
    /\ \E threads \in Parallelism :
         LET most == Smaller(Smaller(threads, MaxJobs), Count)
             Affordable(n) == maxJob * n + PoolBytes(n) <= Available
         IN  \E n \in 1 .. most :
               /\ n > 1 => Affordable(n)
               /\ \A m \in (n + 1) .. most : ~Affordable(m)
               /\ workers' = n
               /\ \/ /\ n = 1
                     /\ UNCHANGED <<used, base>>
                  \/ /\ n > 1
                     /\ used' = used + PoolBytes(n)
                     /\ base' = base + PoolBytes(n)
    /\ pc' = "gather"
    /\ UNCHANGED <<limit, tiles, maxJob, batchVars, resultVars, outcome>>

-----------------------------------------------------------------------------
(* The batch loop of the calling thread.                                   *)

\* The inner loop goes on while there are tiles, threads and memory; the
\* first job of a batch is tried whatever memory is left.
MoreJobs ==
    /\ next < Count
    /\ batch < workers
    /\ batch = 0 \/ JobBytes(next + 1) <= Available

GatherJob ==
    /\ pc = "gather"
    /\ MoreJobs
    /\ LET bytes == JobBytes(next + 1)
       IN  \/ /\ Fits(bytes)
              /\ used' = used + bytes
              /\ slots' = [slots EXCEPT ![batch + 1] =
                             [state |-> "queued", tile |-> next + 1,
                              reserved |-> bytes]]
              /\ batch' = batch + 1
              /\ next' = next + 1
              /\ UNCHANGED <<limit, base, pc, planVars, cursor, resultVars,
                             outcome>>
           \/ /\ ~Fits(bytes)
              /\ Return("budget")
              /\ UNCHANGED blame

\* Reading the payload of a tile into its job fails.
FailRead ==
    /\ pc = "gather"
    /\ MoreJobs
    /\ Fits(JobBytes(next + 1))
    /\ Return("error")
    /\ blame' = next + 1

RunBatch ==
    /\ pc = "gather"
    /\ next < Count \/ batch > 0
    /\ ~MoreJobs
    /\ pc' = "run"
    /\ UNCHANGED <<budgetVars, planVars, batchVars, resultVars, outcome>>

\* The pool returns when every job of the batch has ended.
CollectResults ==
    /\ pc = "run"
    /\ \A s \in 1 .. batch : slots[s].state \in {"done", "failed"}
    /\ pc' = "merge"
    /\ UNCHANGED <<budgetVars, planVars, batchVars, resultVars, outcome>>

\* Mutant of MergeResult: the row is flushed before its last tile.
MergeResultEarlyFlush ==
    /\ pc = "merge"
    /\ cursor <= batch
    /\ slots[cursor].state = "done"
    /\ used' = used - slots[cursor].reserved
    /\ slots' = [slots EXCEPT ![cursor] = Idle]
    /\ cursor' = cursor + 1
    /\ merged' = merged + 1
    /\ rows' = IF merged % Columns = 0 THEN rows + 1 ELSE rows
    /\ UNCHANGED <<limit, base, pc, planVars, next, batch, rendered, failed,
                   blame, outcome>>

\* Merge the next result of the batch and drop its reservation; the last
\* tile of a grid row flushes the row's boundary sums.
MergeResult ==
    /\ pc = "merge"
    /\ cursor <= batch
    /\ slots[cursor].state = "done"
    /\ used' = used - slots[cursor].reserved
    /\ slots' = [slots EXCEPT ![cursor] = Idle]
    /\ cursor' = cursor + 1
    /\ merged' = merged + 1
    /\ rows' = IF slots[cursor].tile % Columns = 0 THEN rows + 1 ELSE rows
    /\ UNCHANGED <<limit, base, pc, planVars, next, batch, rendered, failed,
                   blame, outcome>>

\* Mutant of ReturnError: any failed result ends the batch.
ReturnAnyError ==
    /\ pc = "merge"
    /\ \E s \in cursor .. batch :
         /\ slots[s].state = "failed"
         /\ blame' = slots[s].tile
    /\ Return("error")

\* The first failed result of the batch is the call's error.
ReturnError ==
    /\ pc = "merge"
    /\ cursor <= batch
    /\ slots[cursor].state = "failed"
    /\ Return("error")
    /\ blame' = slots[cursor].tile

NextBatch ==
    /\ pc = "merge"
    /\ cursor > batch
    /\ pc' = "gather"
    /\ batch' = 0
    /\ cursor' = 1
    /\ UNCHANGED <<budgetVars, planVars, next, slots, resultVars, outcome>>

ReturnImage ==
    /\ pc = "gather"
    /\ batch = 0
    /\ next = Count
    /\ Return("image")
    /\ UNCHANGED blame

-----------------------------------------------------------------------------
(* The jobs, each on a thread of the pool (run_job and render_tile).       *)

\* A tile outside the crop yields an empty contribution without decoding.
SkipHidden(s) ==
    /\ pc = "run"
    /\ slots[s].state = "queued"
    /\ slots[s].tile \in Hidden
    /\ slots' = [slots EXCEPT ![s].state = "done"]
    /\ UNCHANGED <<budgetVars, pc, planVars, next, batch, cursor, resultVars,
                   outcome>>

\* codec::prepare has parsed the payload, which was read again, and what it
\* found needs no more than was planned and has the same geometry: the pixels
\* are decoded.  FailDecode is the other outcome.
StartDecode(s) ==
    /\ pc = "run"
    /\ slots[s].state = "queued"
    /\ slots[s].tile \notin Hidden
    /\ slots' = [slots EXCEPT ![s].state = "decoding"]
    /\ rendered' = rendered \cup {slots[s].tile}
    /\ UNCHANGED <<budgetVars, pc, planVars, next, batch, cursor, merged, rows,
                   failed, blame, outcome>>

FinishDecode(s) ==
    /\ pc = "run"
    /\ slots[s].state = "decoding"
    /\ slots' = [slots EXCEPT ![s].state = "done"]
    /\ UNCHANGED <<budgetVars, pc, planVars, next, batch, cursor, resultVars,
                   outcome>>

\* Mutant of FailDecode: the failed job keeps its reservation out of the count.
FailDecodeLeak(s) ==
    /\ pc = "run"
    /\ slots[s].state = "decoding"
    /\ slots' = [slots EXCEPT ![s].state = "failed", ![s].reserved = 0]
    /\ failed' = failed \cup {slots[s].tile}
    /\ UNCHANGED <<budgetVars, pc, planVars, next, batch, cursor, merged, rows,
                   rendered, blame, outcome>>

\* The headers do not parse or have changed, or the tile does not decode: the
\* job drops its reservation on the worker and leaves an error for the calling
\* thread.
FailDecode(s) ==
    /\ pc = "run"
    /\ \/ slots[s].state = "decoding"
       \/ /\ slots[s].state = "queued"
          /\ slots[s].tile \notin Hidden
    /\ used' = used - slots[s].reserved
    /\ slots' = [slots EXCEPT ![s].state = "failed", ![s].reserved = 0]
    /\ failed' = failed \cup {slots[s].tile}
    /\ UNCHANGED <<limit, base, pc, planVars, next, batch, cursor, merged,
                   rows, rendered, blame, outcome>>

-----------------------------------------------------------------------------
Caller ==
    \/ CheckOptions \/ ReserveLongLived \/ RefuseInput
    \/ PreflightTile \/ FinishPreflight \/ ReadExif \/ Admit \/ SizePool
    \/ GatherJob \/ FailRead \/ RunBatch \/ CollectResults
    \/ MergeResult \/ ReturnError \/ NextBatch \/ ReturnImage

Worker(s) ==
    SkipHidden(s) \/ StartDecode(s) \/ FinishDecode(s) \/ FailDecode(s)

\* The call has returned and nothing is left to do.
Returned == pc = "returned" /\ UNCHANGED vars

Next == Caller \/ (\E s \in Slots : Worker(s)) \/ Returned

\* Threads that can run do run: the calling thread, and each job once the
\* pool has started it.
Spec == Init /\ [][Next]_vars
Fairness == WF_vars(Caller) /\ \A s \in Slots : WF_vars(Worker(s))
FairSpec == Spec /\ Fairness

-----------------------------------------------------------------------------
JobStates == {"idle", "queued", "decoding", "done", "failed"}

SlotType ==
    [state : JobStates, tile : 0 .. Count, reserved : Nat]

Outcomes ==
    {"none", "invalid options", "budget", "refused", "error", "image"}

\* Every variable keeps its type: the counters are those of the code.
TypeOK ==
    /\ limit \in Limits
    /\ used \in Nat
    /\ base \in Nat
    /\ pc \in Setup \cup Batching \cup {"returned"}
    /\ tiles \in Seq([payload : Nat, workspace : Nat])
    /\ Len(tiles) <= Count
    /\ maxJob \in Nat
    /\ workers \in Slots
    /\ next \in 0 .. Count
    /\ slots \in [Slots -> SlotType]
    /\ batch \in 0 .. MaxJobs
    /\ cursor \in 1 .. MaxJobs + 1
    /\ merged \in 0 .. Count
    /\ rows \in Nat
    /\ rendered \subseteq 1 .. Count
    /\ failed \subseteq 1 .. Count
    /\ blame \in 0 .. Count
    /\ outcome \in Outcomes

\* The counter of the budget is at every moment the sum of the reservations
\* that are alive, whichever thread drops them, and never passes the limit.
BudgetExact ==
    /\ used = base + InFlight(slots)
    /\ used <= limit

\* Once pixels have been decoded the budget is never what stops the call:
\* API.md promises that inputs which do not fit are refused "without decoding
\* pixels".  It relates the admission check to every later reservation.
NoLateRefusal == outcome = "budget" => rendered = {}

\* However the pool schedules a batch, the error returned is that of the first
\* tile that failed, and when a job failed exactly the tiles before it reached
\* the output: the caller sees what the jobs of the batch one by one would
\* report.  A payload that cannot be read (bounded.rs:228) ends the call before
\* any job of its batch runs, so there an earlier tile may have gone unseen that
\* would not decode; with one worker it would have been reported.
FirstErrorWins ==
    blame # 0 =>
      /\ merged < blame
      /\ blame \in failed => merged = blame - 1
      /\ \A t \in failed : blame <= t

\* The boundary sums of a grid row are flushed exactly when its last tile has
\* been merged, and an image is returned only when every tile has been.
ImageComplete ==
    /\ rows = merged \div Columns
    /\ outcome = "image" => merged = Count /\ failed = {}

\* The call returns: no batch is ever gathered empty and no batch waits for a
\* job that does not run.
CallReturns == <>(pc = "returned")
=============================================================================
