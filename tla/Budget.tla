------------------------------- MODULE Budget -------------------------------
(* One call of calculate_memory and the summary printed of it, over every  *)
(* request of a given set: what the memory budget promises.                *)
EXTENDS MemoryBudget

CONSTANTS
  Requests,   \* [spec, count, workload, gpu]
  NotYet,     \* calculate_memory has not run
  Rejected    \* it raised ValueError: the context is too short

\* The dataclasses' __post_init__ have accepted every request.
WellFormed(r) ==
  /\ r.spec \in [layers : Nat \ {0}, kvHeads : Nat \ {0}, headDim : Nat \ {0}, context : Nat \ {0}]
  /\ r.count \in (Nat \ {0}) \union {Unknown}
  /\ r.workload \in Workloads
  /\ r.gpu \in Gpus
  /\ ValidWorkload(r.workload)
  /\ ValidGpu(r.gpu)

ASSUME RequestsAssumption ==
  /\ \A r \in Requests : WellFormed(r)
  /\ NotYet # Rejected

VARIABLES request, estimate

vars == <<request, estimate>>

Init == request \in Requests /\ estimate = NotYet

Calculate ==
  /\ estimate = NotYet
  /\ estimate' = IF Rejects(request.spec, request.workload) THEN Rejected
                 ELSE Estimate(request.spec, request.count, request.workload, request.gpu)
  /\ UNCHANGED request

\* The call has returned.
Done == estimate # NotYet /\ UNCHANGED vars

Next == Calculate \/ Done

Spec == Init /\ [][Next]_vars

-----------------------------------------------------------------------------
Estimated == estimate \notin {NotYet, Rejected}

Known == Estimated /\ request.count # Unknown

\* theoretical_max_concurrency is the largest target_concurrency that fits:
\* were the workload run at n concurrent requests, it would fit if and only if
\* the weights do and n is at most the maximum the estimate names.
MaxConcurrencyIsLargestFit ==
  Known =>
    \A n \in 1..(estimate.maxConcurrency + 2) :
      LET w == [request.workload EXCEPT !.concurrency = n]
      IN Estimate(request.spec, request.count, w, request.gpu).workloadFits
           <=> estimate.weightsFit /\ n <= estimate.maxConcurrency

\* `avoiding an optimistic fit caused by floating-point rounding at a boundary':
\* what fits in whole bytes fits in the exact, unrounded budget.
NeverOptimistic ==
  LET g == request.gpu
  IN Known => (estimate.workloadFits =>
       estimate.known * (100 * g.headroom[2] * g.vram[2])
         <= g.vram[1] * GIB * (100 * g.headroom[2] - g.headroom[1]))

\* Rounding costs less than two bytes of the exact budget.
RoundingIsTight ==
  LET g == request.gpu
  IN Estimated =>
       g.vram[1] * GIB * (100 * g.headroom[2] - g.headroom[1])
         < (estimate.usable + 2) * (100 * g.headroom[2] * g.vram[2])

\* The summary prints magnitudes, so the verdict, the label beside the amount
\* and the reason given have to agree on its sign, and an amount printed as
\* nothing is nothing.
SummaryAgrees ==
  Estimated =>
    /\ Verdict(estimate) = "unknown" <=> request.count = Unknown
    /\ Known =>
         /\ RemainingLabel(estimate) = "deficit" <=> estimate.remaining < 0
         /\ Blame(estimate) = "weights" <=> estimate.weights > estimate.usable
         /\ CompactMemory(estimate.remaining) = 0 => estimate.remaining = 0
=============================================================================
