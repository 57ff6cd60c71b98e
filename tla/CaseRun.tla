------------------------------ MODULE CaseRun ------------------------------
(* lib/case.sh: vramfit_run_case, the subshell in which run.sh and         *)
(* boundary.sh run one case, with the processes around it: the sampler it  *)
(* starts (metrics.sh), GuideLLM, and the engine whose counters it reads.  *)
(*                                                                         *)
(* Every command of the function that another process can tell from the    *)
(* next is an action.  A killed subshell leaves its children behind; each  *)
(* curl may fail.  A behaviour has at most MaxFaults faults (Charge).      *)
EXTENDS BoundaryAnalysis, FiniteSets

CONSTANTS
  Cases,           \* names of case directories
  Warmups,         \* those with `warmup' in the name
  Measured,        \* how GuideLLM may end, and what it and metrics.sh leave
  Strays,          \* samples a metrics.sh takes when its case is over
  MaxPreemptions,  \* bound: preemptions in the engine's life
  MaxFaults        \* bound: faults in a behaviour

ASSUME CaseAssumption ==
  /\ Cases \subseteq Nat \ {0} /\ Warmups \subseteq Cases
  /\ \A m \in Measured : m.exit \in {0, 1} /\ (m.report # NoReport => m.report.successful \in Nat)
  /\ MaxPreemptions \in Nat /\ MaxFaults \in Nat

VARIABLES
  step,         \* the next command of vramfit_run_case, or "none"
  case,         \* $case_dir
  status,       \* $status
  idle,         \* $idle = 1
  noted,        \* $metrics_pid is set
  returned0,    \* how the last call returned
  timeoutOk,    \* DRAIN_TIMEOUT is a positive number
  evidence,     \* the files in each case directory
  samplers,     \* cases whose metrics.sh is alive
  loads,        \* cases whose GuideLLM is alive
  servers,      \* the process group of every launch
  requests,     \* cases with requests running or waiting in the engine
  preemptions,  \* vllm:num_preemptions_total
  suffered,     \* history: the preemptions of each case's requests
  faults,       \* faults so far
  (* of the script that calls vramfit_run_case *)
  pc,           \* where it is
  entry,        \* line of the case table it is at
  outcome,      \* how it ended
  finished,     \* finished-at.txt
  runs          \* history: how often it was started

callVars == <<step, case, status, idle, noted, returned0, timeoutOk>>
engineVars == <<servers, requests, preemptions, suffered>>
caseRunVars == <<callVars, engineVars, evidence, samplers, loads, faults>>
driverVars == <<pc, entry, outcome, finished, runs>>

-----------------------------------------------------------------------------
Steps == {"none", "made", "start", "fork", "note", "load", "loading", "drain", "stop", "end", "exit"}

\* The directory, metrics-start.txt, benchmarks.json, metrics.jsonl,
\* metrics-end.txt and status.txt with what it says.
EvidenceRecords ==
  [made : BOOLEAN, start : Counters, report : {m.report : m \in Measured} \union {NoReport},
   samples : SUBSET (Strays \union UNION {m.samples : m \in Measured}), end : Counters,
   recorded : BOOLEAN, exit : {0, 1, 130}, drained : BOOLEAN]

Nothing ==
  [made |-> FALSE, start |-> Missing, report |-> NoReport, samples |-> {},
   end |-> Missing, recorded |-> FALSE, exit |-> 130, drained |-> FALSE]

CaseTypeOK ==
  /\ step \in Steps
  /\ case \in Cases
  /\ status \in {0, 1, 130}
  /\ idle \in BOOLEAN /\ noted \in BOOLEAN /\ returned0 \in BOOLEAN /\ timeoutOk \in BOOLEAN
  /\ evidence \in [Cases -> EvidenceRecords]
  /\ samplers \subseteq Cases /\ loads \subseteq Cases /\ requests \subseteq Cases
  /\ servers \in Seq({"alive", "dying", "dead"})
  /\ preemptions \in Nat
  /\ suffered \in [Cases -> Nat]
  /\ faults \in 0..MaxFaults

CaseInit ==
  /\ step = "none" /\ status = 130
  /\ idle = FALSE /\ noted = FALSE /\ returned0 = FALSE /\ timeoutOk \in BOOLEAN
  /\ evidence = [c \in Cases |-> Nothing]
  /\ samplers = {} /\ loads = {}
  /\ requests = {} /\ preemptions = 0 /\ suffered = [c \in Cases |-> 0]
  /\ faults = 0
  /\ pc = "idle" /\ entry = 1 /\ outcome = "none" /\ finished = FALSE /\ runs = 0

\* The server of the last launch answers.
Up == Len(servers) > 0 /\ servers[Len(servers)] = "alive"

\* A step may be a fault only while the bound leaves one.
Charge(fault) ==
  IF fault THEN faults < MaxFaults /\ faults' = faults + 1 ELSE UNCHANGED faults

\* What vramfit_successful_requests prints begins with 1-9.
Succeeds(report) == report # NoReport /\ report.errored = 0 /\ report.successful > 0

\* A directory whose status.txt says that the engine did not drain.
Undrained(e) == e.recorded /\ ~e.drained

\* The caller goes on at another place, or ends.
Goto(place) == pc' = place /\ UNCHANGED outcome
Ends(result) == pc' = "idle" /\ outcome' = result

-----------------------------------------------------------------------------
(* vramfit_run_case                                                        *)

\* mkdir, by the caller, and the call.
Call(c) ==
  /\ step' = "made" /\ case' = c
  /\ status' = 130 /\ idle' = FALSE /\ noted' = FALSE /\ returned0' = FALSE
  /\ evidence' = [evidence EXCEPT ![c].made = TRUE]
  /\ UNCHANGED <<timeoutOk, engineVars, samplers, loads, faults>>

At(s, next) ==
  /\ step = s /\ step' = next
  /\ UNCHANGED <<case, returned0, timeoutOk, servers, requests, preemptions, suffered>>

\* The check of DRAIN_TIMEOUT comes before the traps.
SetTraps ==
  /\ At("made", IF timeoutOk THEN "start" ELSE "none")
  /\ UNCHANGED <<status, idle, noted, evidence, samplers, loads, faults>>

\* curl of /metrics into a file: the engine's counter, or an empty file.
Readings == IF Up THEN {preemptions, Empty} ELSE {Empty}

SnapStart ==
  /\ At("start", "fork")
  /\ \E v \in Readings :
       Charge(v = Empty /\ Up) /\ evidence' = [evidence EXCEPT ![case].start = v]
  /\ UNCHANGED <<status, idle, noted, samplers, loads>>

ForkSampler ==
  /\ At("fork", "note")
  /\ samplers' = samplers \union {case}
  /\ UNCHANGED <<status, idle, noted, evidence, loads, faults>>

\* metrics_pid=$!
NoteSampler ==
  /\ At("note", "load")
  /\ noted' = TRUE
  /\ UNCHANGED <<status, idle, evidence, samplers, loads, faults>>

StartLoad ==
  /\ At("load", "loading")
  /\ loads' = loads \union {case} /\ status' = 0
  /\ UNCHANGED <<idle, noted, evidence, samplers, faults>>

\* Nothing in what GuideLLM and the sampler leave is out of the ordinary.
Ordinary(c, m) ==
  m.exit = 0 /\ CaseProblem([Nothing EXCEPT !.report = m.report, !.samples = m.samples, !.recorded = TRUE,
                         !.exit = 0, !.drained = TRUE, !.start = 0, !.end = 0],
                       c \in Warmups) = "none"

\* GuideLLM ends, at its time limit or at an error.
EndLoad ==
  /\ At("loading", "drain")
  /\ loads' = loads \ {case}
  /\ \E m \in Measured :
       /\ Charge(~Ordinary(case, m))
       /\ status' = m.exit
       /\ evidence' = [evidence EXCEPT ![case].report = m.report, ![case].samples = m.samples]
  /\ UNCHANGED <<idle, noted, samplers>>

\* INT or TERM came meanwhile: bash acts on it now, before status=$?.
EndLoadTerminated ==
  /\ At("loading", "none")
  /\ Charge(TRUE)
  /\ loads' = loads \ {case} /\ samplers' = samplers \ {case}
  /\ \E m \in Measured :
       evidence' = [evidence EXCEPT ![case].report = m.report, ![case].samples = m.samples,
                      ![case].recorded = TRUE, ![case].exit = 0, ![case].drained = FALSE]
  /\ UNCHANGED <<status, idle, noted>>

\* Mutant of DrainPoll: an empty answer counts as an idle engine.
DrainBlindPoll ==
  /\ At("drain", "stop")
  /\ idle' = TRUE
  /\ UNCHANGED <<status, noted, evidence, samplers, loads, faults>>

\* A poll is answered, and nothing is running or waiting.
DrainPoll ==
  /\ At("drain", "stop")
  /\ Up /\ requests = {}
  /\ idle' = TRUE
  /\ UNCHANGED <<status, noted, evidence, samplers, loads, faults>>

\* Mutant of DrainExpires: there is no deadline while the engine answers.
DrainNeverExpires ==
  /\ At("drain", "stop")
  /\ ~Up
  /\ UNCHANGED <<status, idle, noted, evidence, samplers, loads, faults>>

\* No poll found the engine idle before the deadline.
DrainExpires ==
  /\ At("drain", "stop")
  /\ UNCHANGED <<status, idle, noted, evidence, samplers, loads, faults>>

StopSampler ==
  /\ At("stop", "end")
  /\ samplers' = samplers \ {case} /\ noted' = FALSE
  /\ UNCHANGED <<status, idle, evidence, loads, faults>>

SnapEnd ==
  /\ At("end", "exit")
  /\ \E v \in Readings :
       Charge(v = Empty /\ Up) /\ evidence' = [evidence EXCEPT ![case].end = v]
  /\ UNCHANGED <<status, idle, noted, samplers, loads>>

\* The EXIT trap writes status.txt.
Record ==
  evidence' = [evidence EXCEPT ![case].recorded = TRUE, ![case].exit = status,
                               ![case].drained = idle]

\* Mutant of Return: GuideLLM's exit status is not looked at.
ReturnRegardless ==
  /\ step = "exit" /\ step' = "none"
  /\ returned0' = (idle /\ Succeeds(evidence[case].report))
  /\ Record
  /\ UNCHANGED <<case, status, idle, noted, timeoutOk, engineVars, samplers, loads, faults>>

Return ==
  /\ step = "exit" /\ step' = "none"
  /\ returned0' = (status = 0 /\ idle /\ Succeeds(evidence[case].report))
  /\ Record
  /\ UNCHANGED <<case, status, idle, noted, timeoutOk, engineVars, samplers, loads, faults>>

\* Mutant of TermCase: the EXIT trap leaves the sampler.
TermCaseOnly ==
  /\ step \notin {"none", "made", "loading"} /\ step' = "none"
  /\ Charge(TRUE)
  /\ Record
  /\ UNCHANGED <<case, status, idle, noted, returned0, timeoutOk, engineVars, samplers, loads>>

\* INT or TERM between or during the other commands.
TermCase ==
  /\ step \notin {"none", "made", "loading"} /\ step' = "none"
  /\ Charge(TRUE)
  /\ samplers' = IF noted THEN samplers \ {case} ELSE samplers
  /\ Record
  /\ UNCHANGED <<case, status, idle, noted, returned0, timeoutOk, engineVars, loads>>

\* SIGKILL or the OOM killer; TERM before the traps are set.
KillCase ==
  /\ step # "none" /\ step' = "none"
  /\ Charge(TRUE)
  /\ UNCHANGED <<case, status, idle, noted, returned0, timeoutOk, engineVars, evidence, samplers, loads>>

CaseSteps ==
  \/ SetTraps \/ SnapStart \/ ForkSampler \/ NoteSampler \/ StartLoad \/ EndLoad
  \/ DrainExpires \/ StopSampler \/ SnapEnd \/ Return

-----------------------------------------------------------------------------
(* The engine, and the GuideLLM and the sampler of a case that is over.    *)

OthersUnchanged == UNCHANGED <<callVars, evidence, samplers, servers>>

Request(c) ==
  /\ c \in loads \ requests /\ Up
  /\ requests' = requests \union {c}
  /\ UNCHANGED <<loads, preemptions, suffered, faults>> /\ OthersUnchanged

Preempt(c) ==
  /\ c \in requests /\ preemptions < MaxPreemptions
  /\ preemptions' = preemptions + 1
  /\ suffered' = [suffered EXCEPT ![c] = @ + 1]
  /\ UNCHANGED <<loads, requests, faults>> /\ OthersUnchanged

\* Requests finish, or are aborted when GuideLLM has closed the connection.
RequestsEnd(c) ==
  /\ c \in requests
  /\ requests' = requests \ {c}
  /\ UNCHANGED <<loads, preemptions, suffered, faults>> /\ OthersUnchanged

OrphanLoadEnds(c) ==
  /\ c \in loads /\ ~(c = case /\ step = "loading")
  /\ loads' = loads \ {c}
  /\ \E m \in Measured :
       Charge(~Ordinary(c, m)) /\ evidence' = [evidence EXCEPT ![c].report = m.report]
  /\ UNCHANGED <<callVars, samplers, engineVars>>

\* A metrics.sh that nobody stopped goes on appending to metrics.jsonl.
OrphanSamples(c) ==
  /\ c \in samplers /\ ~(c = case /\ step # "none")
  /\ \E s \in Strays : evidence' = [evidence EXCEPT ![c].samples = @ \union {s}]
  /\ UNCHANGED <<callVars, samplers, loads, engineVars, faults>>

ServerDies(l) ==
  /\ servers[l] # "dead"
  /\ servers' = [servers EXCEPT ![l] = "dead"]
  /\ requests' = IF l = Len(servers) THEN {} ELSE requests
  /\ Charge(l = Len(servers) /\ Up)
  /\ UNCHANGED <<callVars, evidence, samplers, loads, preemptions, suffered>>

Around ==
  \/ DrainPoll \/ EndLoadTerminated \/ TermCase \/ KillCase
  \/ \E c \in Cases : Request(c) \/ Preempt(c) \/ RequestsEnd(c) \/ OrphanLoadEnds(c) \/ OrphanSamples(c)
  \/ \E l \in 1..Len(servers) : ServerDies(l)

\* The caller is killed, and a case it runs goes on.
Killed ==
  /\ pc # "idle"
  /\ Ends("killed")
  /\ Charge(TRUE)
  /\ UNCHANGED <<entry, finished, runs, callVars, engineVars, evidence, samplers, loads>>
=============================================================================
