--------------------------- MODULE MemoryBudget ---------------------------
(* calculate_memory of src/vramfit/memory.py: the exact byte budget of one *)
(* GPU and what of it the learned weights and the KV cache take.           *)
(*                                                                         *)
(* The decimal inputs --vram and --headroom-percent become exact Fractions *)
(* in the code; here they are pairs <<numerator, denominator>>.  Python's  *)
(* integers are unbounded, and so are these.                               *)
EXTENDS Models

CONSTANT GIB  \* bytes of a GiB, 1024 ** 3

ASSUME GibAssumption == GIB \in Nat \ {0}

Dtypes == {"float32", "float16", "bfloat16"}

\* The options of the command: integers, decimals and a closed choice.
Workloads == [prompt : Int, output : Int, concurrency : Int, dtype : Dtypes]
Gpus == [vram : Int \X (Nat \ {0}), headroom : Int \X (Nat \ {0})]

ElementBytes(dtype) == IF dtype = "float32" THEN 4 ELSE 2

CeilDiv(a, b) == -((-a) \div b)

AtLeastZero(n) == IF n < 0 THEN 0 ELSE n

\* GPUCapacity.__post_init__
ValidGpu(gpu) ==
  /\ gpu.vram[1] > 0
  /\ 0 <= gpu.headroom[1] /\ gpu.headroom[1] < 100 * gpu.headroom[2]

\* Workload.__post_init__; --dtype is a closed choice.
ValidWorkload(w) == w.prompt > 0 /\ w.output > 0 /\ w.concurrency > 0

TokensPerRequest(w) == w.prompt + w.output

\* Mutant of Physical: the fraction of a GiB is dropped before the conversion.
PhysicalWholeGib(gpu) == (gpu.vram[1] \div gpu.vram[2]) * GIB

\* Capacity rounds down and the reserve up, so neither adds a byte.
Physical(gpu) == (gpu.vram[1] * GIB) \div gpu.vram[2]

\* Mutant of Reserved: the reserve rounds down.
ReservedRoundedDown(gpu) == (Physical(gpu) * gpu.headroom[1]) \div (100 * gpu.headroom[2])

Reserved(gpu) == CeilDiv(Physical(gpu) * gpu.headroom[1], 100 * gpu.headroom[2])

Usable(gpu) == Physical(gpu) - Reserved(gpu)

KvPerRequest(spec, w) ==
  2 * spec.layers * spec.kvHeads * spec.headDim * ElementBytes(w.dtype) * TokensPerRequest(w)

KvWorkload(spec, w) == KvPerRequest(spec, w) * w.concurrency

Weights(count, w) == count * ElementBytes(w.dtype)

\* Mutant of MaxConcurrency: rounded up to the next request.
MaxConcurrencyRoundedUp(spec, count, w, gpu) ==
  AtLeastZero(CeilDiv(Usable(gpu) - Weights(count, w), KvPerRequest(spec, w)))

MaxConcurrency(spec, count, w, gpu) ==
  AtLeastZero((Usable(gpu) - Weights(count, w)) \div KvPerRequest(spec, w))

KnownMemory(spec, count, w) == Weights(count, w) + KvWorkload(spec, w)

Rejects(spec, w) == TokensPerRequest(w) > spec.context

\* The MemoryEstimate; the None of an unknown count spreads to every field
\* that needs the weights.
Estimate(spec, count, w, gpu) ==
  LET known(value) == IF count = Unknown THEN Unknown ELSE value
  IN [usable         |-> Usable(gpu),
      weights        |-> known(Weights(count, w)),
      known          |-> known(KnownMemory(spec, count, w)),
      remaining      |-> known(Usable(gpu) - KnownMemory(spec, count, w)),
      weightsFit     |-> known(Weights(count, w) <= Usable(gpu)),
      workloadFits   |-> known(KnownMemory(spec, count, w) <= Usable(gpu)),
      maxConcurrency |-> known(MaxConcurrency(spec, count, w, gpu))]

-----------------------------------------------------------------------------
(* What _render_summary of cli.py prints of an estimate.                   *)

Verdict(e) ==
  IF e.workloadFits = Unknown THEN "unknown"
  ELSE IF e.workloadFits THEN "fits" ELSE "exceeds"

RemainingLabel(e) == IF e.workloadFits = FALSE THEN "deficit" ELSE "remaining"

Blame(e) ==
  IF e.workloadFits # FALSE THEN "none" ELSE IF e.weightsFit THEN "kv" ELSE "weights"

Magnitude(n) == IF n < 0 THEN -n ELSE n

\* Mutant of CompactMemory: no case of its own for small amounts.
CompactMemoryPlain(bytes) ==
  IF bytes = Unknown THEN Unknown ELSE (100 * Magnitude(bytes) + GIB \div 2) \div GIB

\* The unsigned hundredths of a GiB printed; -1 stands for `<0.01 GiB'.
CompactMemory(bytes) ==
  IF bytes = Unknown THEN Unknown
  ELSE IF 0 < Magnitude(bytes) /\ 100 * Magnitude(bytes) < GIB THEN -1
  ELSE (100 * Magnitude(bytes) + GIB \div 2) \div GIB
=============================================================================
