-------------------------- MODULE BoundaryAnalysis --------------------------
(* analyze_boundary.py as operators: what it reads of a launch's layout    *)
(* snapshot and of a case's files, and what it refuses.                    *)
(*                                                                         *)
(* A layout is the sequence of a snapshot's cache_config_info samples; a   *)
(* report is what the analysis uses of benchmarks.json.  A number that is  *)
(* absent, NaN or no number is a negative one here: both are refused.      *)
EXTENDS Integers, Sequences

CONSTANTS
  BytesPerBlock,  \* BYTES_PER_BLOCK
  NoReport        \* benchmarks.json is absent or unreadable

ASSUME AnalysisAssumption == BytesPerBlock \in Nat \ {0}

BlockSize == 16
PromptTokens == 4104
OutputTokens == 256
WarmupSeconds == 30
CaseSeconds == 180

Fields == [block_size : Int, num_gpu_blocks : Int, kv_cache_memory_bytes : Int,
           enable_prefix_caching : {"True", "False", "absent"}]

\* A snapshot of /metrics from which no preemption counter can be read: there
\* is no file, or curl failed and it is empty.
Missing == -2
Empty == -1
Counters == Nat \union {Missing, Empty}

-----------------------------------------------------------------------------
CheckLayout(layout, pool) ==
  /\ Len(layout) = 1
  /\ layout[1].block_size = BlockSize
  /\ layout[1].num_gpu_blocks = pool \div BytesPerBlock
  /\ layout[1].kv_cache_memory_bytes = pool
  /\ layout[1].enable_prefix_caching = "False"

\* kv_cache_usage_perc is in percent.
ValidSample(s) ==
  /\ ~s.scrape_failed
  /\ s.running >= 0 /\ s.waiting >= 0 /\ s.preemptions >= 0
  /\ s.usage \in 0..100

\* The samples of metrics.jsonl the analysis goes by.
Rows(samples, report) ==
  {s \in samples : /\ report.start_time <= s.timestamp /\ s.timestamp <= report.end_time
                   /\ ValidSample(s)}

LengthsExpected(report) ==
  /\ report.prompt_min = PromptTokens /\ report.prompt_max = PromptTokens
  /\ report.output_min = OutputTokens /\ report.output_max = OutputTokens

\* The first thing case_summary raises an error for, or "none".
CaseProblem(e, warmup) ==
  IF ~e.recorded \/ e.report = NoReport THEN "file"
  ELSE IF e.exit # 0 \/ ~e.drained THEN "status"
  ELSE IF e.report.successful <= 0 \/ e.report.errored # 0 THEN "requests"
  ELSE IF e.report.duration # (IF warmup THEN WarmupSeconds ELSE CaseSeconds) THEN "duration"
  ELSE IF ~LengthsExpected(e.report) THEN "lengths"
  ELSE IF Rows(e.samples, e.report) = {} THEN "samples"
  ELSE IF e.start < 0 \/ e.end < 0 THEN "counter"
  ELSE IF e.end < e.start THEN "reset"
  ELSE "none"

\* The preemptions of the case, as the summary reports them.
Delta(e) == e.end - e.start

\* The launches, with case 0, and the cases listed under `Missing or invalid
\* evidence'.  The cases of a launch without a valid layout are not looked at.
Analyze(launches, pools, warmups, layouts, evidence) ==
  UNION {IF CheckLayout(layouts[l], pools[l])
         THEN {<<l, launches[l][k]>> : k \in
                 {i \in DOMAIN launches[l] :
                    CaseProblem(evidence[launches[l][i]], launches[l][i] \in warmups) # "none"}}
         ELSE {<<l, 0>>} : l \in DOMAIN launches}
=============================================================================
