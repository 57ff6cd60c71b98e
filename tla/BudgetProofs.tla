---------------------------- MODULE BudgetProofs ----------------------------
(* The memory budget's arithmetic, for every size of a GiB, every model    *)
(* geometry and count, every workload and every GPU.                       *)
EXTENDS Budget, TLAPS

\* What Python's // and TLA+'s \div return for a positive divisor.
LEMMA DivBounds ==
  ASSUME NEW a \in Int, NEW b \in Nat \ {0}
  PROVE  /\ a \div b \in Int
         /\ b * (a \div b) <= a
         /\ a < b * ((a \div b) + 1)
  OBVIOUS

\* math.ceil of a fraction.
LEMMA CeilDivBounds ==
  ASSUME NEW a \in Int, NEW b \in Nat \ {0}
  PROVE  /\ CeilDiv(a, b) \in Int
         /\ a <= b * CeilDiv(a, b)
         /\ b * (CeilDiv(a, b) - 1) < a
<1> DEFINE q == (-a) \div b
<1>1. q \in Int /\ b * q <= -a /\ -a < b * (q + 1)
  BY DivBounds
<1>2. CeilDiv(a, b) = -q
  BY DEF CeilDiv
<1>3. b * (-q) = -(b * q) /\ b * (q + 1) = b * q + b /\ b * (-q - 1) = -(b * q) - b
  BY <1>1
<1> QED
  BY <1>1, <1>2, <1>3

\* Multiplying by a positive number keeps the order.
LEMMA TimesMonotone ==
  ASSUME NEW m \in Int, NEW n \in Int, NEW b \in Nat, m <= n
  PROVE  b * m <= b * n
  OBVIOUS

\* n whole requests of b bytes fit in a bytes iff n is at most a // b.
LEMMA FitsIffAtMostQuotient ==
  ASSUME NEW a \in Int, NEW b \in Nat \ {0}, NEW n \in Int
  PROVE  b * n <= a <=> n <= a \div b
<1> DEFINE q == a \div b
<1>1. q \in Int /\ b * q <= a /\ a < b * (q + 1)
  BY DivBounds
<1>2. ASSUME n <= q PROVE b * n <= a
  <2>1. b * n <= b * q
    BY <1>1, <1>2, TimesMonotone
  <2> QED
    BY <1>1, <2>1
<1>3. ASSUME ~(n <= q) PROVE ~(b * n <= a)
  <2>1. q + 1 <= n
    BY <1>1, <1>3
  <2>2. b * (q + 1) <= b * n
    BY <1>1, <2>1, TimesMonotone
  <2> QED
    BY <1>1, <2>2
<1> QED
  BY <1>2, <1>3

\* A product of positive integers is positive.
LEMMA ProductPositive ==
  ASSUME NEW m \in Nat \ {0}, NEW n \in Nat \ {0}
  PROVE  m * n \in Nat \ {0}
  OBVIOUS

-----------------------------------------------------------------------------
(* The quantities of one well-formed request.                              *)

\* Capacity is a whole number of bytes, at most the exact capacity and less
\* than a byte below it.
LEMMA PhysicalBounds ==
  ASSUME NEW r \in Requests
  PROVE  LET g == r.gpu
         IN /\ Physical(g) \in Int
            /\ g.vram[2] * Physical(g) <= g.vram[1] * GIB
            /\ g.vram[1] * GIB < g.vram[2] * (Physical(g) + 1)
<1> DEFINE a == r.gpu.vram[1] * GIB
<1>1. a \in Int /\ r.gpu.vram[2] \in Nat \ {0}
  BY RequestsAssumption, GibAssumption DEF WellFormed, Workloads, Gpus
<1> HIDE DEF a
<1>2. LET q == a \div r.gpu.vram[2]
      IN /\ q \in Int
         /\ r.gpu.vram[2] * q <= a
         /\ a < r.gpu.vram[2] * (q + 1)
  BY <1>1, DivBounds
<1> QED
  BY <1>2 DEF Physical, a

\* The reserve is a whole number of bytes, at least the exact reserve.
LEMMA ReservedBounds ==
  ASSUME NEW r \in Requests
  PROVE  LET g == r.gpu
         IN /\ Reserved(g) \in Int
            /\ Physical(g) * g.headroom[1] <= (100 * g.headroom[2]) * Reserved(g)
            /\ (100 * g.headroom[2]) * (Reserved(g) - 1) < Physical(g) * g.headroom[1]
<1> DEFINE a == Physical(r.gpu) * r.gpu.headroom[1]
           b == 100 * r.gpu.headroom[2]
<1>1. a \in Int /\ b \in Nat \ {0}
  BY PhysicalBounds, RequestsAssumption DEF WellFormed, Workloads, Gpus
<1> HIDE DEF a, b
<1>2. /\ CeilDiv(a, b) \in Int
      /\ a <= b * CeilDiv(a, b)
      /\ b * (CeilDiv(a, b) - 1) < a
  BY <1>1, CeilDivBounds
<1> QED
  BY <1>2 DEF Reserved, a, b

LEMMA UsableType ==
  ASSUME NEW r \in Requests
  PROVE  Usable(r.gpu) \in Int
  BY PhysicalBounds, ReservedBounds DEF Usable

\* A request's cache takes at least a byte, so calculate_memory never divides
\* by zero.
LEMMA KvPositive ==
  ASSUME NEW r \in Requests
  PROVE  KvPerRequest(r.spec, r.workload) \in Nat \ {0}
<1> DEFINE s == r.spec
           t == TokensPerRequest(r.workload)
           e == ElementBytes(r.workload.dtype)
<1>1. s.layers \in Nat \ {0} /\ s.kvHeads \in Nat \ {0} /\ s.headDim \in Nat \ {0}
  BY RequestsAssumption DEF WellFormed, Workloads, Gpus
<1>2. t \in Nat \ {0}
  BY RequestsAssumption DEF WellFormed, Workloads, Gpus, ValidWorkload, TokensPerRequest
<1>3. e \in Nat \ {0}
  BY DEF ElementBytes
<1>4. 2 * s.layers \in Nat \ {0}
  BY <1>1
<1>5. 2 * s.layers * s.kvHeads \in Nat \ {0}
  BY <1>1, <1>4, ProductPositive
<1>6. 2 * s.layers * s.kvHeads * s.headDim \in Nat \ {0}
  BY <1>1, <1>5, ProductPositive
<1>7. 2 * s.layers * s.kvHeads * s.headDim * e \in Nat \ {0}
  BY <1>3, <1>6, ProductPositive
<1>8. 2 * s.layers * s.kvHeads * s.headDim * e * t \in Nat \ {0}
  BY <1>2, <1>7, ProductPositive
<1> QED
  BY <1>8 DEF KvPerRequest

LEMMA WeightsType ==
  ASSUME NEW r \in Requests, r.count # Unknown
  PROVE  Weights(r.count, r.workload) \in Nat
  BY RequestsAssumption DEF WellFormed, Workloads, Gpus, Weights, ElementBytes

-----------------------------------------------------------------------------
(* The specification.                                                      *)

\* What calculate_memory returned is the estimate of its request.
Computed ==
  /\ request \in Requests
  /\ estimate \in {NotYet, Rejected}
     \/ estimate = Estimate(request.spec, request.count, request.workload, request.gpu)

LEMMA ComputedAlways == Spec => []Computed
<1>1. Init => Computed
  BY DEF Init, Computed
<1>2. Computed /\ [Next]_vars => Computed'
  BY DEF Computed, Next, Calculate, Done, vars
<1> QED
  BY <1>1, <1>2, PTL DEF Spec

\* An estimate's maximum concurrency is the largest concurrency that fits.
LEMMA LargestFit == Computed => MaxConcurrencyIsLargestFit
<1> DEFINE s == request.spec
           c == request.count
           w == request.workload
           g == request.gpu
           K == KvPerRequest(s, w)
           W == Weights(c, w)
           U == Usable(g)
<1> SUFFICES ASSUME Computed, Known, NEW n \in 1..(estimate.maxConcurrency + 2)
             PROVE  Estimate(s, c, [w EXCEPT !.concurrency = n], g).workloadFits
                      <=> estimate.weightsFit /\ n <= estimate.maxConcurrency
  BY DEF MaxConcurrencyIsLargestFit
<1>1. request \in Requests /\ c # Unknown /\ estimate = Estimate(s, c, w, g)
  BY DEF Computed, Known, Estimated
<1>2. U \in Int /\ K \in Nat \ {0} /\ W \in Nat
  BY <1>1, UsableType, KvPositive, WeightsType
<1>3. /\ KvPerRequest(s, [w EXCEPT !.concurrency = n]) = K
      /\ Weights(c, [w EXCEPT !.concurrency = n]) = W
  BY <1>1, RequestsAssumption DEF KvPerRequest, Weights, TokensPerRequest, WellFormed, Workloads, Gpus
<1>4. /\ estimate.maxConcurrency = AtLeastZero((U - W) \div K)
      /\ estimate.weightsFit <=> W <= U
  BY <1>1 DEF Estimate, MaxConcurrency
<1>5. n \in Nat \ {0}
  <2>1. estimate.maxConcurrency \in Int
    <3> HIDE DEF U, W, K
    <3>1. (U - W) \div K \in Int
      BY <1>2, DivBounds
    <3> QED
      BY <1>4, <3>1 DEF AtLeastZero
  <2> QED
    BY <2>1
<1>6. Estimate(s, c, [w EXCEPT !.concurrency = n], g).workloadFits <=> W + K * n <= U
  BY <1>1, <1>3, RequestsAssumption DEF Estimate, KnownMemory, KvWorkload, WellFormed, Workloads, Gpus
<1> HIDE DEF K, W, U
<1>7. K * n <= U - W <=> n <= (U - W) \div K
  BY <1>2, <1>5, FitsIffAtMostQuotient
<1>8. W + K * n <= U <=> K * n <= U - W
  BY <1>2, <1>5
<1>9. CASE W <= U
  <2>1. 0 <= (U - W) \div K
    <3>1. K * 0 <= U - W
      BY <1>2, <1>9
    <3> QED
      BY <1>2, <3>1, FitsIffAtMostQuotient
  <2>2. (U - W) \div K \in Int
    BY <1>2, DivBounds
  <2>3. estimate.maxConcurrency = (U - W) \div K
    BY <1>4, <2>1, <2>2 DEF AtLeastZero
  <2> QED
    BY <1>4, <1>6, <1>7, <1>8, <1>9, <2>3
<1>10. CASE ~(W <= U)
  <2>1. K * n > 0
    BY <1>2, <1>5, ProductPositive
  <2> QED
    BY <1>2, <1>4, <1>5, <1>6, <1>10, <2>1
<1> QED
  BY <1>9, <1>10

\* theoretical_max_concurrency is the largest concurrency that fits, for every
\* model, workload and GPU.
THEOREM MaxConcurrencyCorrect == Spec => []MaxConcurrencyIsLargestFit
  BY ComputedAlways, LargestFit, PTL

\* A workload that fits the budget in whole bytes fits the exact budget.
THEOREM NoOptimisticFit == Spec => []NeverOptimistic
<1> SUFFICES Computed => NeverOptimistic
  BY ComputedAlways, PTL
<1> DEFINE g == request.gpu
           P == Physical(g)
           R == Reserved(g)
           V == g.vram[2]
           A == g.vram[1] * GIB
           H == 100 * g.headroom[2]
           h == g.headroom[1]
           k == KnownMemory(request.spec, request.count, request.workload)
<1> SUFFICES ASSUME Computed, Known, estimate.workloadFits
             PROVE  estimate.known * (H * V) <= A * (H - h)
  BY DEF NeverOptimistic
<1>1. request \in Requests /\ request.count # Unknown
  BY DEF Computed, Known, Estimated
<1>2. estimate.known = k /\ k <= P - R
  <2>1. estimate = Estimate(request.spec, request.count, request.workload, g)
    BY DEF Computed, Known, Estimated
  <2> QED
    BY <1>1, <2>1 DEF Estimate, Usable
<1>3. /\ V \in Nat \ {0} /\ H \in Nat \ {0} /\ A \in Int /\ h \in Int
      /\ h < H
  BY <1>1, RequestsAssumption, GibAssumption DEF WellFormed, Workloads, Gpus, ValidGpu
<1>4. P \in Int /\ V * P <= A
  BY <1>1, PhysicalBounds
<1>5. R \in Int /\ P * h <= H * R
  BY <1>1, ReservedBounds
<1>6. k \in Int
  BY <1>1, WeightsType, KvPositive, RequestsAssumption DEF KnownMemory, KvWorkload, WellFormed, Workloads, Gpus
<1> HIDE DEF P, R, V, A, H, h, k
\* k H <= (P - R) H <= P H - P h = P (H - h)
<1>7. H * k <= P * (H - h)
  <2>1. H * k <= H * (P - R)
    BY <1>2, <1>3, <1>4, <1>5, <1>6, TimesMonotone
  <2>2. H * (P - R) = P * H - H * R /\ P * (H - h) = P * H - P * h
    BY <1>3, <1>4, <1>5
  <2>3. H * k \in Int /\ P * H \in Int /\ P * h \in Int /\ H * R \in Int
    BY <1>3, <1>4, <1>5, <1>6
  <2> HIDE DEF P
  <2> QED
    BY <1>5, <2>1, <2>2, <2>3
<1>8. V * (H * k) <= V * (P * (H - h))
  BY <1>3, <1>4, <1>6, <1>7, TimesMonotone
<1>9. (H - h) * (V * P) <= (H - h) * A
  <2>1. H - h \in Nat
    BY <1>3
  <2> QED
    BY <1>3, <1>4, <2>1, TimesMonotone
<1>10. V * (P * (H - h)) = (H - h) * (V * P) /\ V * (H * k) = k * (H * V) /\ (H - h) * A = A * (H - h)
  BY <1>3, <1>4, <1>6
<1> QED
  BY <1>2, <1>8, <1>9, <1>10, <1>3, <1>4, <1>6

\* Rounding capacity down and the reserve up loses less than two bytes.
THEOREM RoundingTight == Spec => []RoundingIsTight
<1> SUFFICES Computed => RoundingIsTight
  BY ComputedAlways, PTL
<1> DEFINE g == request.gpu
           P == Physical(g)
           R == Reserved(g)
           V == g.vram[2]
           A == g.vram[1] * GIB
           H == 100 * g.headroom[2]
           h == g.headroom[1]
<1> SUFFICES ASSUME Computed, Estimated
             PROVE  A * (H - h) < (estimate.usable + 2) * (H * V)
  BY DEF RoundingIsTight
<1>1. request \in Requests /\ estimate.usable = P - R
  BY DEF Computed, Estimated, Estimate, Usable
<1>2. /\ V \in Nat \ {0} /\ H \in Nat \ {0} /\ A \in Int /\ h \in Nat
      /\ H - h \in Nat \ {0}
  BY <1>1, RequestsAssumption, GibAssumption DEF WellFormed, Workloads, Gpus, ValidGpu
<1>3. P \in Int /\ A < V * (P + 1)
  BY <1>1, PhysicalBounds
<1>4. R \in Int /\ H * (R - 1) < P * h
  BY <1>1, ReservedBounds
<1> HIDE DEF P, R, V, A, H, h
<1>5. (H - h) * A < (H - h) * (V * (P + 1))
  <2> DEFINE B == V * (P + 1)
  <2>1. B \in Int /\ A + 1 <= B
    BY <1>2, <1>3
  <2> HIDE DEF B
  <2>2. (H - h) * (A + 1) <= (H - h) * B
    BY <1>2, <2>1, TimesMonotone
  <2>3. (H - h) * (A + 1) = (H - h) * A + (H - h) /\ (H - h) * A \in Int
    BY <1>2
  <2> QED
    BY <1>2, <2>1, <2>2, <2>3 DEF B
\* (P + 1) (H - h) = P H - P h + H - h < P H - H R + 2 H
<1>6. (P + 1) * (H - h) <= (P - R + 2) * H
  <2>1. /\ (P + 1) * (H - h) = P * H - P * h + H - h
        /\ (P - R + 2) * H = P * H - H * R + 2 * H
        /\ H * (R - 1) = H * R - H
    BY <1>2, <1>3, <1>4
  <2>2. P * H \in Int /\ P * h \in Int /\ H * R \in Int
    BY <1>2, <1>3, <1>4
  <2> QED
    BY <1>2, <1>4, <2>1, <2>2
<1>7. V * ((P + 1) * (H - h)) <= V * ((P - R + 2) * H)
  BY <1>2, <1>3, <1>4, <1>6, TimesMonotone
<1>8. /\ (H - h) * (V * (P + 1)) = V * ((P + 1) * (H - h))
      /\ V * ((P - R + 2) * H) = (P - R + 2) * (H * V)
      /\ (H - h) * A = A * (H - h)
  BY <1>2, <1>3, <1>4
<1>9. /\ A * (H - h) \in Int
      /\ V * ((P + 1) * (H - h)) \in Int
      /\ (P - R + 2) * (H * V) \in Int
  BY <1>2, <1>3, <1>4
<1> QED
  BY <1>1, <1>5, <1>7, <1>8, <1>9

\* What is printed of an estimate agrees on the sign of what remains.
LEMMA SummaryOfEstimate == Computed => SummaryAgrees
<1> DEFINE U == Usable(request.gpu)
           W == Weights(request.count, request.workload)
           K == KnownMemory(request.spec, request.count, request.workload)
<1> SUFFICES ASSUME Computed, Estimated PROVE SummaryAgrees
  BY DEF SummaryAgrees, Known
<1>1. /\ request \in Requests
      /\ estimate = Estimate(request.spec, request.count, request.workload, request.gpu)
  BY DEF Computed, Estimated
<1>2. CASE request.count = Unknown
  BY <1>1, <1>2 DEF SummaryAgrees, Known, Estimate, Verdict
<1>3. CASE request.count # Unknown
  <2>1. U \in Int /\ W \in Int /\ K \in Int
    BY <1>1, <1>3, UsableType, WeightsType, KvPositive, RequestsAssumption
       DEF KnownMemory, KvWorkload, WellFormed, Workloads, Gpus
  <2>2. /\ estimate.usable = U /\ estimate.weights = W /\ estimate.remaining = U - K
        /\ estimate.weightsFit = (W <= U)
        /\ estimate.workloadFits = (K <= U)
    BY <1>1, <1>3 DEF Estimate
  <2>3. W <= K
    <3>1. KvWorkload(request.spec, request.workload) \in Nat
      <4>1. request.workload.concurrency \in Nat \ {0}
        BY <1>1, RequestsAssumption DEF WellFormed, Workloads, Gpus, ValidWorkload
      <4> QED
        BY <1>1, <4>1, KvPositive, ProductPositive DEF KvWorkload
    <3> QED
      BY <2>1, <3>1 DEF KnownMemory
  <2> HIDE DEF U, W, K
  <2>4. \/ K <= U /\ estimate.workloadFits = TRUE
        \/ ~(K <= U) /\ estimate.workloadFits = FALSE
    <3>1. estimate.workloadFits = (K <= U)
      BY <2>2
    <3>2. CASE K <= U
      BY <3>1, <3>2, Zenon
    <3>3. CASE ~(K <= U)
      <4>1. (K <= U) = FALSE
        BY <3>3
      <4> QED
        BY <3>1, <3>3, <4>1, Zenon
    <3> QED
      BY <3>2, <3>3
  <2>5. Verdict(estimate) # "unknown"
    <3>1. Unknown # TRUE /\ Unknown # FALSE
      BY UnknownAssumption
    <3> QED
      BY <2>4, <3>1, Zenon DEF Verdict
  <2>6. RemainingLabel(estimate) = "deficit" <=> estimate.remaining < 0
    <3>1. RemainingLabel(estimate) = "deficit" <=> ~(K <= U)
      BY <2>4, Zenon DEF RemainingLabel
    <3> QED
      BY <2>1, <2>2, <3>1
  <2>7. Blame(estimate) = "weights" <=> estimate.weights > estimate.usable
    <3>1. CASE K <= U
      <4>1. Blame(estimate) = "none"
        BY <2>4, <3>1, Zenon DEF Blame
      <4> QED
        BY <2>1, <2>2, <2>3, <3>1, <4>1
    <3>2. CASE ~(K <= U)
      <4>1. Blame(estimate) = IF W <= U THEN "kv" ELSE "weights"
        BY <2>2, <2>4, <3>2, Zenon DEF Blame
      <4> QED
        BY <2>1, <2>2, <4>1
    <3> QED
      BY <3>1, <3>2
  <2>8. CompactMemory(estimate.remaining) = 0 => estimate.remaining = 0
    <3> DEFINE n == Magnitude(U - K)
    <3>1. n \in Nat /\ (n = 0 => U - K = 0) /\ U - K # Unknown
      BY <2>1, UnknownAssumption DEF Magnitude
    <3> HIDE DEF n
    <3>2. ASSUME ~(100 * n < GIB) PROVE (100 * n + GIB \div 2) \div GIB >= 1
      <4>1. GIB \div 2 \in Nat
        BY GibAssumption
      <4>2. GIB * 1 <= 100 * n + GIB \div 2
        BY <3>1, <3>2, <4>1, GibAssumption
      <4>3. 100 * n + GIB \div 2 \in Int
        BY <3>1, <4>1
      <4> QED
        BY <4>2, <4>3, FitsIffAtMostQuotient, GibAssumption
    <3>3. CompactMemory(estimate.remaining)
            = IF 0 < n /\ 100 * n < GIB THEN -1 ELSE (100 * n + GIB \div 2) \div GIB
      BY <2>2, <3>1 DEF CompactMemory, n
    <3>4. (100 * n + GIB \div 2) \div GIB \in Int
      <4>1. 100 * n + GIB \div 2 \in Int
        BY <3>1, GibAssumption
      <4> QED
        BY <4>1, GibAssumption, DivBounds
    <3> QED
      BY <2>2, <3>1, <3>2, <3>3, <3>4, GibAssumption
  <2> QED
    BY <1>3, <2>5, <2>6, <2>7, <2>8 DEF SummaryAgrees
<1> QED
  BY <1>2, <1>3

\* The summary's verdict, labels and amounts agree with each other, for every
\* request.
THEOREM SummariesAgree == Spec => []SummaryAgrees
  BY ComputedAlways, SummaryOfEstimate, PTL
=============================================================================
