-------------------------- MODULE InspectionProofs --------------------------
(* That one run of the vramfit command answers for one commit, for any     *)
(* history of the branch, any content of its commits and any exception of  *)
(* the Hub client.                                                         *)
EXTENDS Inspection, TLAPS

\* Where the evidence gathered so far comes from.
Gathered ==
  /\ pc # "done" => answer = Pending
  /\ pc \notin {"start", "done"} => ValidGpu(request.gpu) /\ ValidWorkload(request.workload)
  /\ pc \in {"start", "resolve"} => sha = 0
  /\ pc \in {"config", "summary", "interpret", "headers", "estimate"} => sha \in 1..Len(commits)
  /\ pc \in {"summary", "interpret", "headers", "estimate"} =>
       config = commits[sha].config /\ config # Malformed
  /\ pc \in {"interpret", "headers", "estimate"} =>
       /\ summary = ParameterSummary(commits[sha].summary)
       /\ commits[sha].summary = Null \/ SummaryConsistent(commits[sha].summary)
  /\ pc \in {"headers", "estimate"} => Registered(config) /\ Supported(config)
  /\ pc = "headers" => NeedsHeaders(config, summary)
  /\ pc # "done" /\ pc # "estimate" => headers = Null

\* The headers are those of the commit if the summary leaves the count open.
HeadersOfCommit ==
  LET k == commits[sha].checkpoint
  IN IF NeedsHeaders(config, summary)
     THEN /\ k \notin Unreadable /\ (k = Null \/ InventoryComplete(k))
          /\ headers = IF k = Null THEN Null ELSE TensorInventory(k)
     ELSE headers = Null

HeadersGathered == pc = "estimate" => HeadersOfCommit

\* What has been answered is the judgement of that one commit, from its evidence.
AnswerOfCommit ==
  pc = "done" =>
    \/ answer = Error
    \/ /\ sha \in 1..Len(commits)
       /\ config = commits[sha].config
       /\ summary = ParameterSummary(commits[sha].summary)
       /\ HeadersOfCommit
       /\ answer = JudgeCommit(commits[sha], request)

Bounds ==
  /\ commits \in Repositories
  /\ request \in Requests
  /\ head \in 1..Len(commits)
  /\ pc \in {"start", "resolve", "config", "summary", "interpret", "headers", "estimate", "done"}
  /\ sha \in 0..Len(commits)
  /\ pc = "done" => answer # Pending

PInv == Bounds /\ Gathered /\ HeadersGathered /\ AnswerOfCommit

USE DEF evidence

LEMMA InitPInv == Init => PInv
<1> SUFFICES ASSUME Init PROVE PInv
  OBVIOUS
<1>1. Len(commits) \in Nat \ {0}
  BY RepositoriesAssumption DEF Init
<1>2. Bounds
  BY <1>1 DEF Init, Bounds
<1>3. Gathered /\ HeadersGathered /\ AnswerOfCommit
  BY AnswersAssumption DEF Init, Gathered, HeadersGathered, AnswerOfCommit
<1> QED
  BY <1>2, <1>3 DEF PInv

\* The estimate the command computes is the judgement of the commit it pinned.
LEMMA EstimateIsJudgement ==
  ASSUME PInv, pc = "estimate", ~Rejects(DecoderSpec(config), request.workload)
  PROVE  JudgeCommit(commits[sha], request)
           = Report(config, ResolveParameters(config, summary, headers), request)
  BY DEF PInv, Gathered, HeadersGathered, HeadersOfCommit, JudgeCommit

\* What the request for the headers raises ends the command, but for the one
\* exception by which the client says that there is no checkpoint.
LEMMA HeaderFaults ==
  ASSUME NEW k, Null \notin Unreadable, NEW e \in Transport \union ClientRaises(k)
  PROVE  IF HeaderExcept(e) = "return None" THEN k = Null ELSE HeaderExcept(e) \in Caught
<1>1. CASE e \in Transport
  BY <1>1 DEF Transport, HeaderExcept, HubRequest, Caught
<1>2. CASE k = Null /\ e \in ClientRaises(k)
  BY <1>2 DEF ClientRaises, HeaderExcept, Caught, Unreadable
<1>3. CASE k # Null /\ e \in ClientRaises(k)
  BY <1>3 DEF ClientRaises, HeaderExcept, HubRequest, Transport, Caught, Unreadable
<1> QED
  BY <1>1, <1>2, <1>3

\* Every exception of the Hub client in the requests before that one ends the
\* command with an error.
LEMMA RequestFaults ==
  RequestFails => Return(Error) /\ UNCHANGED <<commits, head, request, evidence>>
  BY DEF RequestFails, Raise, HubRequest, Caught

LEMMA HeadersFault ==
  ASSUME Null \notin Unreadable, HeadersFail
  PROVE  /\ pc = "headers"
         /\ \/ /\ commits[sha].checkpoint = Null
               /\ Proceed("estimate") /\ headers' = Null /\ UNCHANGED <<sha, config, summary>>
            \/ Return(Error) /\ UNCHANGED <<commits, head, request, evidence>>
<1> PICK e \in Transport \union ClientRaises(commits[sha].checkpoint) :
       IF HeaderExcept(e) = "return None"
       THEN Proceed("estimate") /\ headers' = Null /\ UNCHANGED <<sha, config, summary>>
       ELSE Raise(HeaderExcept(e))
  BY DEF HeadersFail
<1>1. pc = "headers"
  BY DEF HeadersFail
<1>2. IF HeaderExcept(e) = "return None" THEN commits[sha].checkpoint = Null ELSE HeaderExcept(e) \in Caught
  BY HeaderFaults
<1>3. CASE HeaderExcept(e) = "return None"
  BY <1>1, <1>2, <1>3
<1>4. CASE HeaderExcept(e) # "return None"
  BY <1>1, <1>2, <1>4 DEF Raise
<1> QED
  BY <1>3, <1>4

\* Every step preserves it.
LEMMA NextPInv == PInv /\ [Next]_vars => PInv'
<1> SUFFICES ASSUME PInv, [Next]_vars PROVE PInv'
  OBVIOUS
<1> USE RepositoriesAssumption, AnswersAssumption DEF PInv, Bounds, Gathered, HeadersGathered,
          HeadersOfCommit, AnswerOfCommit, Return, Raise, Proceed, Caught
<1>1. CASE Push
  BY <1>1 DEF Push
<1>2. CASE Start
  BY <1>2 DEF Start
<1>3. CASE ResolveRevision
  BY <1>3 DEF ResolveRevision
<1>4. CASE DownloadConfig
  BY <1>4 DEF DownloadConfig
<1>5. CASE FetchSummary
  BY <1>5 DEF FetchSummary
<1>6. CASE Interpret
  BY <1>6 DEF Interpret
<1>7. CASE LoadHeaders
  BY <1>7 DEF LoadHeaders
<1>8. CASE EstimateMemory
  <2>1. CASE Rejects(DecoderSpec(config), request.workload)
    BY <1>8, <2>1 DEF EstimateMemory
  <2>2. CASE ~Rejects(DecoderSpec(config), request.workload)
    <3>1. answer' = JudgeCommit(commits[sha], request)
      BY <1>8, <2>2, EstimateIsJudgement DEF EstimateMemory
    <3>2. JudgeCommit(commits[sha], request) # Pending
      BY <1>8, JudgementAssumption DEF EstimateMemory
    <3> QED
      BY <1>8, <2>2, <3>1, <3>2 DEF EstimateMemory
  <2> QED
    BY <2>1, <2>2
<1>9. CASE RequestFails
  BY <1>9, RequestFaults DEF RequestFails
<1>10. CASE HeadersFail
  BY <1>10, HeadersFault
<1>11. CASE UNCHANGED vars
  BY <1>11 DEF vars
<1> QED
  BY <1>1, <1>2, <1>3, <1>4, <1>5, <1>6, <1>7, <1>8, <1>9, <1>10, <1>11 DEF Next, Done

LEMMA PInvAlways == Spec => []PInv
  BY InitPInv, NextPInv, PTL DEF Spec

\* The type invariant: the pinned commit is one of the branch, and the command
\* has answered exactly when it is done.
THEOREM TypeCorrect == Spec => []TypeOK
<1>1. PInv => TypeOK
  BY DEF PInv, Bounds, Gathered, TypeOK
<1> QED
  BY <1>1, PInvAlways, PTL

\* An estimate without a summary, or without headers it needed, is of a commit
\* that has none: no exception of the Hub client becomes missing evidence but
\* the one that says there is no checkpoint.
THEOREM FailuresAreErrors == Spec => []FailureIsNoEvidence
<1>1. PInv => FailureIsNoEvidence
  <2> SUFFICES ASSUME PInv, Answered PROVE FailureIsNoEvidence
    BY DEF FailureIsNoEvidence
  <2>1. /\ sha \in 1..Len(commits) /\ HeadersOfCommit
        /\ summary = ParameterSummary(commits[sha].summary)
    BY DEF PInv, Bounds, Gathered, AnswerOfCommit, Answered
  <2>2. summary = Null => commits[sha].summary = Null
    BY <2>1, RepositoriesAssumption DEF PInv, Bounds
  <2>3. headers = Null /\ NeedsHeaders(config, summary) => commits[sha].checkpoint = Null
    BY <2>1, RepositoriesAssumption DEF HeadersOfCommit, PInv, Bounds
  <2> QED
    BY <2>2, <2>3 DEF FailureIsNoEvidence
<1> QED
  BY <1>1, PInvAlways, PTL

\* A checkpoint that stores the model once, whichever tied alias it leaves out,
\* is the layout the family adapters accept.
LEMMA CompleteIsStandard ==
  ASSUME NEW content, StandardCheckpoint(content)
  PROVE  StandardLayout(content.config, TensorInventory(content.checkpoint))
<1> DEFINE c == content.config
           k == content.checkpoint
           tensors == TensorInventory(k)
           names == {e.name : e \in k.entries}
           present == {t.name : t \in tensors}
           aliases == IF c.tied = TRUE THEN {{}, {Embedding}, {Output}} ELSE {{}}
<1>1. \A t \in tensors : \E e \in k.entries :
        t = [name |-> e.name, shape |-> e.shape, dtype |-> e.dtype]
  BY DEF TensorInventory
<1>2. present = names
  <2>1. ASSUME NEW e \in k.entries PROVE e.name \in present
    <3>1. [name |-> e.name, shape |-> e.shape, dtype |-> e.dtype] \in tensors
      BY DEF TensorInventory
    <3> HIDE DEF tensors
    <3> QED
      BY <3>1
  <2>2. ASSUME NEW t \in tensors PROVE t.name \in names
    BY <1>1
  <2> QED
    BY <2>1, <2>2
<1>3. PICK left \in aliases : names \ BufferNames(c) = WeightNames(c) \ left
  BY DEF StandardCheckpoint
<1>4. \A t \in tensors : t.shape = ShapeOf(c, t.name) /\ t.dtype \in FloatDtypes
  BY <1>1 DEF StandardCheckpoint
<1>5. \A t, u \in tensors : t.name = u.name => t = u
  BY <1>1 DEF StandardCheckpoint
<1>6. Embedding # Output /\ {Embedding, Output} \subseteq WeightNames(c)
  BY DEF Embedding, Output, WeightNames
<1> HIDE DEF tensors, names, present
<1>7. c.tied = TRUE => {Embedding, Output} \intersect present # {}
  BY <1>2, <1>3, <1>6
<1>8. ExpectedNames(c, present) \subseteq present
  BY <1>2, <1>3, <1>6 DEF ExpectedNames
<1>9. present \subseteq ExpectedNames(c, present) \union BufferNames(c)
  BY <1>2, <1>3 DEF ExpectedNames
<1>10. \A t \in tensors : t.name \in present
  BY DEF present
<1> QED
  BY <1>4, <1>5, <1>7, <1>8, <1>9, <1>10 DEF StandardLayout, present, tensors

\* The count of a standard checkpoint is never reported unknown.
THEOREM UnknownIsJustified == Spec => []UnknownHasCause
<1>1. PInv => UnknownHasCause
  <2> SUFFICES ASSUME PInv, Answered, StandardCheckpoint(commits[sha])
               PROVE  answer.parameters.source # "unknown"
    BY DEF UnknownHasCause
  <2>1. answer = JudgeCommit(commits[sha], request) /\ answer # Error /\ sha \in 1..Len(commits)
    BY DEF PInv, Bounds, Gathered, AnswerOfCommit, Answered
  <2> DEFINE c == commits[sha].config
             s == ParameterSummary(commits[sha].summary)
             k == commits[sha].checkpoint
             h == IF NeedsHeaders(c, s) /\ k # Null THEN TensorInventory(k) ELSE Null
  <2>2. answer.parameters = ResolveParameters(c, s, h)
    BY <2>1 DEF JudgeCommit, Report
  <2>3. /\ k # Null /\ TensorInventory(k) # Null
        /\ StandardLayout(c, TensorInventory(k))
    BY <2>1, CompleteIsStandard, RepositoriesAssumption DEF StandardCheckpoint, PInv, Bounds
  <2> HIDE DEF c, s, k
  <2>4. CASE NeedsHeaders(c, s)
    <3>1. ResolveParameters(c, s, h) = FromHeaders(c, s, TensorInventory(k))
      BY <2>3, <2>4 DEF ResolveParameters
    <3>2. FromHeaders(c, s, TensorInventory(k)).source = "safetensors_headers"
      BY Zenon DEF FromHeaders, KnownParameters
    <3> QED
      BY <2>2, <3>1, <3>2
  <2>5. CASE ~NeedsHeaders(c, s)
    <3>1. ResolveParameters(c, s, h) = KnownParameters(s.total, "hub_safetensors", {})
      BY <2>5 DEF ResolveParameters
    <3> QED
      BY <2>2, <3>1 DEF KnownParameters
  <2> QED
    BY <2>4, <2>5
<1> QED
  BY <1>1, PInvAlways, PTL

\* The command implements an inspection that reads one commit in one step.
THEOREM InspectionIsAtomic == Spec => ImplementsAtomicInspection
<1>1. Init => Atomic!Init
  BY DEF Init, Atomic!Init
<1>2. PInv /\ PInv' /\ [Next]_vars => [Atomic!Next]_Atomic!vars
  <2> SUFFICES ASSUME PInv, PInv', [Next]_vars PROVE [Atomic!Next]_Atomic!vars
    OBVIOUS
  <2> USE DEF PInv, Bounds, Gathered, Return, Raise, Caught, Proceed, Atomic!Next, Atomic!vars
  <2>1. CASE Push
    BY <2>1 DEF Push, Atomic!Push
  <2>2. CASE Start
    BY <2>2 DEF Start, Atomic!Answer
  <2>3. CASE ResolveRevision
    BY <2>3 DEF ResolveRevision, Atomic!Pick
  <2>4. CASE DownloadConfig
    BY <2>4 DEF DownloadConfig, Atomic!Answer
  <2>5. CASE FetchSummary
    BY <2>5 DEF FetchSummary, Atomic!Answer
  <2>6. CASE Interpret
    BY <2>6 DEF Interpret, Atomic!Answer
  <2>7. CASE LoadHeaders
    BY <2>7 DEF LoadHeaders, Atomic!Answer
  <2>8. CASE EstimateMemory
    <3>1. sha \in 1..Len(commits) /\ answer = Pending
      BY <2>8 DEF EstimateMemory
    <3>2. answer' \in {Error, JudgeCommit(commits[sha], request)}
      BY <2>8, EstimateIsJudgement DEF EstimateMemory
    <3> QED
      BY <2>8, <3>1, <3>2, RepositoriesAssumption DEF EstimateMemory, Atomic!Answer
  <2>9. CASE RequestFails
    BY <2>9, RequestFaults DEF RequestFails, Atomic!Answer
  <2>10. CASE HeadersFail
    BY <2>10, HeadersFault, RepositoriesAssumption DEF Atomic!Answer
  <2>11. CASE UNCHANGED vars
    BY <2>11 DEF vars
  <2> QED
    BY <2>1, <2>2, <2>3, <2>4, <2>5, <2>6, <2>7, <2>8, <2>9, <2>10, <2>11 DEF Next, Done
<1> QED
  BY <1>1, <1>2, PInvAlways, PTL DEF Spec, Atomic!Spec, ImplementsAtomicInspection
=============================================================================
