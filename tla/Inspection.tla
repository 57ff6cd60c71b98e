----------------------------- MODULE Inspection -----------------------------
(* One run of the vramfit command: main of cli.py calls inspect_model,     *)
(* which resolves the revision once and asks the Hub for config.json, the  *)
(* parameter summary and, when the summary does not settle the count, the  *)
(* tensor headers, all at the resolved commit; the adapter reads the       *)
(* evidence and calculate_memory turns the count into an estimate.         *)
(*                                                                         *)
(* Between any two requests the branch may move, and any request may raise *)
(* any exception of the Hub client, which goes through the except clauses  *)
(* of hub.py and cli.py.  What the Hub serves of a commit is immutable.    *)
EXTENDS DenseAdapter, MemoryBudget

CONSTANTS
  Repositories,  \* branch histories: sequences of commit contents
  Requests,      \* the command's [workload, gpu]
  Malformed,     \* a config.json that is no JSON object, a header that cannot be parsed
  ShardMissing,  \* a checkpoint whose index names a file that is not there
  Pending,       \* the command has not answered
  Error,         \* it ended with a ClickException
  Traceback      \* it ended with an exception that main does not catch

ASSUME AnswersAssumption == Pending \notin {Error, Traceback}

VARIABLES
  commits,   \* the repository's branch
  head,      \* the commit the branch points to
  request,   \* the command's workload and GPU
  pc,        \* the next step of the command
  sha,       \* snapshot.revision, as the commit's number
  config,    \* snapshot.config
  summary,   \* snapshot.parameter_summary
  headers,   \* the tensor inventory
  answer     \* what the command prints

evidence == <<sha, config, summary, headers>>
vars == <<commits, head, request, pc, evidence, answer>>

-----------------------------------------------------------------------------
(* What load_model_snapshot and load_tensor_inventory accept.              *)

\* A raw summary is [total, counts], counts a function on dtypes.
SummaryConsistent(raw) ==
  LET n == raw.counts
  IN /\ raw.total >= 0 /\ \A d \in DOMAIN n : n[d] >= 0
     /\ raw.total = MapThenSumSet(LAMBDA d : n[d], DOMAIN n)

ParameterSummary(raw) ==
  IF raw = Null THEN Null ELSE [total |-> raw.total, dtypes |-> DOMAIN raw.counts]

\* A checkpoint is [entries, weightMap]: its files' headers as a set of
\* [file, name, shape, dtype, sound], sound if the shape and byte offsets are
\* non-negative integers in order, and the index, from names to files.
Unreadable == {Malformed, ShardMissing}

InventoryComplete(checkpoint) ==
  LET entries == checkpoint.entries
      index == checkpoint.weightMap
  IN /\ entries # {}
     /\ DOMAIN index = {e.name : e \in entries}
     /\ \A e \in entries : e.sound /\ index[e.name] = e.file

TensorInventory(checkpoint) ==
  {[name |-> e.name, shape |-> e.shape, dtype |-> e.dtype] : e \in checkpoint.entries}

\* AdapterRegistry.get of the default registry.
Registered(c) == c.type \in Families

\* None is no summary and no inventory, and a branch has a commit.
ASSUME RepositoriesAssumption ==
  \A history \in Repositories :
    /\ Len(history) \in Nat \ {0}
    /\ \A i \in 1..Len(history) :
         LET k == history[i].checkpoint
             raw == history[i].summary
         IN /\ Null \notin Unreadable
            /\ k \notin {Null} \union Unreadable => TensorInventory(k) # Null
            /\ raw # Null => ParameterSummary(raw) # Null

\* A config.json is malformed or a record of the fields the adapters read.
ASSUME ConfigsAssumption ==
  \A history \in Repositories : \A i \in 1..Len(history) :
    history[i].config # Malformed => Numeric(history[i].config)

ASSUME RequestsAssumption ==
  \A r \in Requests : r.workload \in Workloads /\ r.gpu \in Gpus

-----------------------------------------------------------------------------
TypeOK ==
  /\ head \in 1..Len(commits)
  /\ pc \in {"start", "resolve", "config", "summary", "interpret", "headers", "estimate", "done"}
  /\ sha \in 0..Len(commits)
  /\ pc = "done" <=> answer # Pending

Init ==
  /\ commits \in Repositories
  /\ head = 1
  /\ request \in Requests
  /\ pc = "start"
  /\ sha = 0
  /\ config = Null /\ summary = Null /\ headers = Null
  /\ answer = Pending

Return(value) == pc' = "done" /\ answer' = value

Proceed(step) == pc' = step /\ UNCHANGED <<commits, head, request, answer>>

-----------------------------------------------------------------------------
(* Exceptions, by their classes.                                           *)

\* What any request of the Hub client may raise, whatever the commit holds:
\* the HTTP errors with their subclasses, and the others _hub_request names.
Transport ==
  {"HfHubHTTPError", "GatedRepoError", "RepositoryNotFoundError", "RevisionNotFoundError",
   "RemoteEntryNotFoundError", "HFValidationError", "LocalEntryNotFoundError", "RequestError",
   "OSError"}

\* What leaves the body of `with _hub_request' in place of an exception.
HubRequest(exception, errorType) == IF exception \in Transport THEN errorType ELSE exception

\* What get_safetensors_metadata may raise besides: the client looks for
\* either standard layout, reads the index and parses every header.
ClientRaises(checkpoint) ==
  CASE checkpoint = Null         -> {"NotASafetensorsRepoError"}
    [] checkpoint = ShardMissing -> {"RemoteEntryNotFoundError"}
    [] checkpoint = Malformed    -> {"SafetensorsParsingError", "ValueError", "KeyError", "TypeError"}
    [] OTHER                     -> {}

\* Mutant of HeaderExcept: a file that is not found is a checkpoint that is not.
HeaderExceptNotFound(exception) ==
  CASE exception \in {"NotASafetensorsRepoError", "RemoteEntryNotFoundError"} -> "return None"
    [] exception \in {"SafetensorsParsingError", "ValueError", "HFValidationError", "KeyError", "TypeError"} ->
         "ModelMetadataError"
    [] OTHER -> HubRequest(exception, "ModelHubError")

\* The except clauses of load_tensor_inventory, within those of _hub_request.
\* An HFValidationError is a ValueError.
HeaderExcept(exception) ==
  CASE exception = "NotASafetensorsRepoError" -> "return None"
    [] exception \in {"SafetensorsParsingError", "ValueError", "HFValidationError", "KeyError", "TypeError"} ->
         "ModelMetadataError"
    [] OTHER -> HubRequest(exception, "ModelHubError")

\* What main catches, by name or as a subclass; ModelInspectionError stands
\* for its own.
Caught ==
  {"ModelHubError", "ModelConfigDownloadError", "ModelMetadataError", "ModelInspectionError", "ValueError"}

Raise(exception) ==
  /\ Return(IF exception \in Caught THEN Error ELSE Traceback)
  /\ UNCHANGED <<commits, head, request, evidence>>

-----------------------------------------------------------------------------
\* Somebody pushes to the branch.
Push ==
  /\ head < Len(commits)
  /\ head' = head + 1
  /\ UNCHANGED <<commits, request, pc, evidence, answer>>

\* GPUCapacity(...) and Workload(...) come before any request.
Start ==
  /\ pc = "start"
  /\ IF ValidGpu(request.gpu) /\ ValidWorkload(request.workload)
     THEN Proceed("resolve") /\ UNCHANGED evidence
     ELSE Raise("ValueError")

\* Mutant of RequestFails: the failure is swallowed and the command says nothing.
RequestFailsSilently ==
  /\ pc \in {"resolve", "config", "summary"}
  /\ pc' = "done"
  /\ UNCHANGED <<commits, head, request, evidence, answer>>

\* A request before that of the headers raises, or the revision has no SHA.
RequestFails ==
  \/ /\ pc \in {"resolve", "config", "summary"}
     /\ \E e \in Transport :
          Raise(HubRequest(e, IF pc = "config" THEN "ModelConfigDownloadError" ELSE "ModelHubError"))
  \/ pc = "resolve" /\ Raise("ModelMetadataError")

ResolveRevision ==
  /\ pc = "resolve"
  /\ sha' = head
  /\ Proceed("config")
  /\ UNCHANGED <<config, summary, headers>>

DownloadConfig ==
  /\ pc = "config"
  /\ IF commits[sha].config = Malformed THEN Raise("ModelInspectionError")
     ELSE /\ config' = commits[sha].config
          /\ Proceed("summary")
          /\ UNCHANGED <<sha, summary, headers>>

\* Mutant of FetchSummary: asks for the summary of the branch, not the commit.
FetchSummaryOfBranch ==
  LET raw == commits[head].summary
  IN /\ pc = "summary"
     /\ IF raw # Null /\ ~SummaryConsistent(raw) THEN Raise("ModelMetadataError")
        ELSE /\ summary' = ParameterSummary(raw)
             /\ Proceed("interpret")
             /\ UNCHANGED <<sha, config, headers>>

FetchSummary ==
  LET raw == commits[sha].summary
  IN /\ pc = "summary"
     /\ IF raw # Null /\ ~SummaryConsistent(raw) THEN Raise("ModelMetadataError")
        ELSE /\ summary' = ParameterSummary(raw)
             /\ Proceed("interpret")
             /\ UNCHANGED <<sha, config, headers>>

\* The registry, normalize and needs_headers.
Interpret ==
  /\ pc = "interpret"
  /\ IF ~(Registered(config) /\ Supported(config)) THEN Raise("ModelInspectionError")
     ELSE /\ Proceed(IF NeedsHeaders(config, summary) THEN "headers" ELSE "estimate")
          /\ UNCHANGED evidence

\* The request for the headers raises.
HeadersFail ==
  /\ pc = "headers"
  /\ \E e \in Transport \union ClientRaises(commits[sha].checkpoint) :
       IF HeaderExcept(e) = "return None"
       THEN Proceed("estimate") /\ headers' = Null /\ UNCHANGED <<sha, config, summary>>
       ELSE Raise(HeaderExcept(e))

\* The headers must agree with the index, and name each of its tensors.
LoadHeaders ==
  LET checkpoint == commits[sha].checkpoint
  IN /\ pc = "headers"
     /\ checkpoint \notin {Null} \union Unreadable
     /\ IF ~InventoryComplete(checkpoint) THEN Raise("ModelMetadataError")
        ELSE /\ headers' = TensorInventory(checkpoint)
             /\ Proceed("estimate")
             /\ UNCHANGED <<sha, config, summary>>

\* resolve_parameters, calculate_memory and the summary.
Report(c, parameters, r) ==
  LET e == Estimate(DecoderSpec(c), parameters.count, r.workload, r.gpu)
  IN [parameters |-> parameters, estimate |-> e, verdict |-> Verdict(e)]

EstimateMemory ==
  /\ pc = "estimate"
  /\ IF Rejects(DecoderSpec(config), request.workload) THEN Raise("ValueError")
     ELSE /\ Return(Report(config, ResolveParameters(config, summary, headers), request))
          /\ UNCHANGED <<commits, head, request, evidence>>

Done == pc = "done" /\ UNCHANGED vars

Next ==
  \/ Push
  \/ Start \/ ResolveRevision \/ DownloadConfig \/ FetchSummary \/ Interpret
  \/ LoadHeaders \/ EstimateMemory
  \/ RequestFails \/ HeadersFail
  \/ Done

Spec == Init /\ [][Next]_vars

-----------------------------------------------------------------------------
(* The reference: how many parameters Transformers' modules of the family  *)
(* learn, from the geometry alone.                                         *)

\* The output features of a projection.
Rows(c, p) ==
  LET s == DecoderSpec(c)
  IN CASE p = "q_proj"                   -> s.heads * s.headDim
       [] p \in {"k_proj", "v_proj"}     -> s.kvHeads * s.headDim
       [] p \in {"o_proj", "down_proj"}  -> s.hidden
       [] OTHER                          -> c.intermediate

Biases(c) ==
  MapThenSumSet(LAMBDA p : Rows(c, p), {p \in Attention \union Mlp : HasBias(c, p)})

ReferenceCount(c) ==
  LET s == DecoderSpec(c)
      q == s.heads * s.headDim
      kv == s.kvHeads * s.headDim
      perLayer == s.hidden * (2 * q + 2 * kv) + 3 * s.hidden * c.intermediate + 2 * s.hidden
                    + Biases(c) + (IF c.type = "qwen3" THEN 2 * s.headDim ELSE 0)
  IN s.layers * perLayer + s.hidden + c.vocab * s.hidden * (IF c.tied = TRUE THEN 1 ELSE 2)

\* The commit's checkpoint is complete and stores each of the family's weights
\* once, in its shape, at most one alias of tied embeddings left out, and
\* nothing beside them but rotary buffers.
StandardCheckpoint(content) ==
  LET c == content.config
      k == content.checkpoint
      names == {e.name : e \in k.entries}
      aliases == IF c.tied = TRUE THEN {{}, {Embedding}, {Output}} ELSE {{}}
  IN /\ k \notin {Null} \union Unreadable
     /\ InventoryComplete(k)
     /\ \A d, e \in k.entries : d.name = e.name => d = e
     /\ \E left \in aliases : names \ BufferNames(c) = WeightNames(c) \ left
     /\ \A e \in k.entries : e.shape = ShapeOf(c, e.name) /\ e.dtype \in FloatDtypes

\* The Hub's summary counts what the checkpoint stores.
HonestSummary(content) ==
  content.summary # Null =>
    content.summary.total = ElementsOf(TensorInventory(content.checkpoint))

-----------------------------------------------------------------------------
(* Properties.                                                             *)

Answered == answer \notin {Pending, Error, Traceback}

\* A count taken from headers is exactly what the architecture learns: stored
\* aliases of tied embeddings once, rotary buffers never, biases and norms of
\* the family included.
HeaderCountIsReference ==
  Answered /\ answer.parameters.source = "safetensors_headers" =>
    answer.parameters.count = ReferenceCount(config)

\* A FITS verdict on a standard checkpoint with an honest summary is never an
\* undercount's: the learned weights and the cache do fit the usable bytes.
FitsIsSound ==
  Answered /\ StandardCheckpoint(commits[sha]) /\ HonestSummary(commits[sha])
    /\ answer.verdict = "fits" =>
      KnownMemory(DecoderSpec(config), ReferenceCount(config), request.workload)
        <= Usable(request.gpu)

\* `Insufficient parameter evidence produces unknown', and only that does: the
\* count of a standard checkpoint is known however wrong the Hub's summary is.
UnknownHasCause ==
  Answered /\ answer.parameters.source = "unknown" => ~StandardCheckpoint(commits[sha])

\* `Access, network and corrupt-checkpoint errors remain failures rather than
\* missing evidence': an estimate made without a summary, or without headers it
\* needed, is of a commit that has none, whatever the requests raised, with a
\* shard of the checkpoint that is not found among it.
FailureIsNoEvidence ==
  Answered =>
    /\ summary = Null => commits[sha].summary = Null
    /\ headers = Null /\ NeedsHeaders(config, summary) => commits[sha].checkpoint = Null

\* The judgement of one commit's files, read together.
JudgeCommit(content, r) ==
  LET c == content.config
      summaryOf == ParameterSummary(content.summary)
      needed == NeedsHeaders(c, summaryOf)
      k == content.checkpoint
      headersOf == IF needed /\ k # Null THEN TensorInventory(k) ELSE Null
      refused ==
        \/ c = Malformed
        \/ content.summary # Null /\ ~SummaryConsistent(content.summary)
        \/ ~(Registered(c) /\ Supported(c))
        \/ needed /\ (k \in Unreadable \/ (k # Null /\ ~InventoryComplete(k)))
        \/ Rejects(DecoderSpec(c), r.workload)
  IN IF refused THEN Error
     ELSE Report(c, ResolveParameters(c, summaryOf, headersOf), r)

\* Not to have answered is no judgement.
ASSUME JudgementAssumption ==
  \A history \in Repositories, r \in Requests :
    ValidGpu(r.gpu) /\ ValidWorkload(r.workload) =>
      \A i \in 1..Len(history) : JudgeCommit(history[i], r) # Pending

Atomic ==
  INSTANCE AtomicInspection WITH Judge <- JudgeCommit, picked <- sha

\* The command answers for one commit of the branch, as if it had read all of
\* that commit's files in one step, whatever is pushed between its requests.
ImplementsAtomicInspection == Atomic!Spec
=============================================================================
