# A verification development of VramFit

VramFit has two halves. The `vramfit` command (`src/src/vramfit`) asks the
Hugging Face Hub about a model and says whether it fits a GPU. The validation
drivers (`src/validation`) rent a pod, ship the scripts to it, and run vLLM and
GuideLLM there to measure how good those answers are. The command is sequential
and its difficulty is in evidence and arithmetic; the drivers are shell scripts
on two machines, and their difficulty is in locks, files, processes and lost
connections. The TLA+ modules here follow that division.

## The system

### On the operator's machine and the pod

| Part | State it keeps | Operations | Interacts through |
| --- | --- | --- | --- |
| pod job control (`pod.sh`: `on_pod`, `run_on_pod`) | in the client `mode`, `shown`, `failures`; on the pod `control.lock`, `gpu.lock`, `jobs/active-mode`, `jobs/<mode>.{exit,pid,log}` | start or reattach, poll, give up | SSH sessions that hold `control.lock`; the job inherits `gpu.lock` |
| ship (`pod.sh ship`) | `validation/`, `COMMIT.txt` | unpack, record | both locks |
| setup (`pod.sh setup`) | `.venv`, `runs/{nvidia-smi,pip-freeze,COMMIT}.txt` | rebuild, record | both locks |
| fetch (`pod.sh fetch`) | local `validation/runs` | download, swap | `control.lock` only, so a job may be writing |
| run-all (`run-all.sh`) | `server_pid`, `runs/<model>` and `runs/smoke/<model>` | skip, refuse, move aside, serve, copy records, run, stop | child processes and exit codes, traps |
| serve (`serve.sh`) | the run directory, the server's process group | launch, wait for `/health` | exit code, the group `setsid` made |
| run and case (`run.sh`, `lib/case.sh`) | the case directories, `finished-at.txt`; in a case `status`, `idle`, `metrics_pid` | run a case, drain, skip a saved one, refuse an unsaved one | the server's HTTP port, the sampler and GuideLLM as children, traps, `status.txt` |
| boundary (`boundary.sh`) | `server_pid`, an experiment directory and its manifest | launch, check the layout, run cases, stop and look, finish | as run-all; `analyze_boundary.py` as the layout gate |
| boundary analysis (`analyze_boundary.py`) | none | check a layout, summarize a case, list what is missing or invalid | the files of a fetched experiment |
| sampling and predictions (`metrics.sh`, `predict.sh`) | output files only | sample, print | files |

What is hard here: an SSH session may die at any of its commands while the job
it started goes on; two operators may start jobs together; a wrapper, the
orchestrator it runs and a server that outlives both die in any order and stay
zombies for any time; every script may be killed between two commands and is
then run again on whatever files were left. Below the scripts, an engine goes on
with requests nobody waits for any more, and its counters are read around them.

### In the command

| Part | State it keeps | Operations | Interacts through |
| --- | --- | --- | --- |
| command line (`cli.py`) | none | validate, inspect, calculate, print | calls, exceptions |
| inspection (`inspection.py`) | none | order of the calls below | calls |
| hub evidence (`hub.py`) | the resolved commit, the config, the summary | three or four requests | HTTP; the branch may move, a request may raise any exception of the client |
| dense adapters (`adapters/`) | none | `normalize`, `needs_headers`, `resolve_parameters` | pure calls |
| registry (`adapters/registry.py`) | `model_type` to adapter | register, get | calls |
| memory budget (`memory.py`) | none | `calculate_memory` | pure call |
| model sweep (`scripts/model-sweep.sh`) | a report directory | run the command over a list | exit codes |

What is hard here: evidence of two commits must not be mixed; missing evidence
must not look like a failure nor a failure like missing evidence; tied
embeddings, rotary buffers and each family's biases change the count; and
rounding must never let a workload fit by a byte that is not there.

### What makes each part correct

* Job control: one job on the GPU, its files its own, no verdict from an older
  job, every recorded exit reported with the whole log, nobody said to have died
  who did not.
* run-all and ship: `finished-at.txt` stands for a whole run of one commit, success
  for all models of this commit, no server is left behind, nothing recorded is lost.
* Inspection: the answer is that of one commit read in one step, or an error.
* Adapters: a count from headers is what the architecture learns; unknown only for a
  reason; FITS never from an undercount.
* Budget: the reported maximum is the largest concurrency that fits; no optimistic fit.
* Cases: what a case that counts measured is what its own requests suffered; a
  recorded case is never written again; `run.sh` finishes only over saved cases; no
  sampler is left behind; a stuck engine holds nobody up.
* boundary: no server survives into the next launch; the manifest and the exit status
  account for every case; a success is not contradicted by the analysis.
* setup and fetch: "Pod ready" is true; a running job is left alone; a local snapshot
  with `finished-at.txt` is whole, and none is lost.

## Modules

| Module | What it is |
| --- | --- |
| `GpuSlot` | the abstract lease on the GPU |
| `PodJobs` | `pod.sh`: clients, their sessions, the locks, the files under `jobs/`, the jobs; implements `GpuSlot` |
| `PodJobsProofs` | the inductive invariants of `PodJobs`, and the refinement |
| `MCPodJobs` | symmetry for TLC |
| `PodFiles`, `PodFilesProofs` | `pod.sh setup` and `fetch` around a job; the proofs |
| `RunAll` | a smoke or full job on the pod, and `pod.sh ship` between jobs |
| `RunAllProofs` | the inductive invariant of `RunAll` |
| `BoundaryAnalysis` | `analyze_boundary.py`, as operators |
| `CaseRun` | `lib/case.sh`: one case with its sampler, GuideLLM and the engine |
| `RunCases` | `run.sh` by hand: cases through `CaseRun` |
| `Boundary` | `boundary.sh`: launches with cases through `CaseRun` and the gate of `BoundaryAnalysis` |
| `Drivers`, `MCDrivers`, `DriversProofs`, `EvidenceProofs` | the composition of the four, its properties; the instance; the proofs about processes and files; those about what the evidence says |
| `Models` | the values of `models.py` |
| `MemoryBudget` | `calculate_memory` and the summary's verdicts, as operators |
| `Budget`, `MCBudget`, `BudgetProofs` | one call of it over a set of requests; the instance; the proofs |
| `DenseAdapter` | the four families' adapters, as operators |
| `AtomicInspection` | the abstract command: pick a commit, answer for it |
| `Inspection`, `MCInspection`, `InspectionProofs`, `CountProofs` | the command step by step; the instance; the proofs about the command; those about the counts |

### PodJobs

A client is one invocation of `pod.sh smoke|run|boundary`. `pc` is where
`run_on_pod` is, `remote` is the next command of the session it has open, and the
two are separate because a start session goes on after its client has lost the
connection. Each command of the two here-documents that touches shared state is an
action: `TryGpu` (60-61), `Busy` (62-73), `SetMode` (74), `RmExit` (75), `Launch`
(78-85), `WritePid` (86); `PollExit` (95), `PollAlive` (97), `PollRecheck` (99),
`PollCat` (96, 100), `PollTail` (105-121). `flock` locks belong to open files, so
who holds one follows from who is alive: `ControlFree` and `GpuFree` are operators.
A job is its wrapper (`phase`), with the orchestrator inside it, and `leftover`:
descendants that outlive them with `gpu.lock` in hand. `echo $? > jobs/<mode>.exit`
is two actions, since the redirection creates the file before `echo` fills it.
`reaped` says whether the pod's init has collected the wrapper: until then `kill -0`
succeeds, and from then on it may succeed again, because the number may be another
process's (`PidReused`). A file that names a job or a log is the job's number.

`shown` counts what the client has printed, whichever log it was of, as in the code;
`printed` is history: the lines themselves, each with the job that wrote it
(`Output`, `Log`). A poll prints `NewLines`, the lines of the log as it is now from
`shown + 1` on (105-114), and what a lost session has sent is thrown away with it. So
`WholeLogShown` compares two sequences and not two numbers: with an exit of the job it
follows, a client has printed exactly that job's log, no line missing, none twice and
none of another job. It is not said of a client that reports the exit of a later job
of the mode (`jobs_verdict`): the log was truncated at line 85, `shown` was not reset,
and the first `shown` lines of the new log are never printed, whatever line 104 says.

`GpuSlot` is what all this is for: a lease, granted only when its last owner has let
go of it. `Slot == INSTANCE GpuSlot` maps its owners to the jobs that hold `gpu.lock`
and `ImplementsGpuSlot` states that every step of `PodJobs` is a grant, a release or
neither. `RunAll` and `PodFiles` rely on it where they start a job only when none is
left.

Not in the model: the wording of messages; half lines (a line is appended and read
whole); lines that an orchestrator goes on to write when its wrapper was killed; poll
sessions whose client has gone (they only read); the sessions of `setup` and `fetch`,
which are in `PodFiles` and only make others wait.

### PodFiles

The pod has `COMMIT.txt`, `.venv` with its marker and the two records `setup` writes
(`nvidia-smi.txt` is written and used by nobody, and left out). Each command of the
`setup` session is an action, `uv pip install` and `uv pip freeze` may be cut off part
of the way, and `SetupEnds` is the end of the session or the loss of its connection
anywhere. A job is what a download can see of one: a run directory that is moved
aside, made again, filled file by file and ended by `finished-at.txt`.

A `fetch` has its own staging directory; `tar` on the pod lists the directory before it
reads the files one after another, and fails if the directory changed meanwhile, which
GNU tar reports with its exit status and `pipefail` carries to `fetch`. `TestRuns`,
`MoveRuns` and `SwapIn` are lines 42, 45 and 47; between them the client may be killed
and another client's fetch may come first, in which case `mv` fails or moves the
staging directory inside the other's. Directories that the job moves aside are not
followed: a download of them has one run's files like any other.

### RunAll

`pc` is the next step of `run-all.sh`, with `run.sh`'s loop inside it (`cases`,
`running`). A run directory is a record of what is in it and, as history, of what
it was made with. `gpu.lock`, which `PodJobs` is about, appears as `GpuFree`: a
job starts and a ship unpacks only when no process of a job is left. `server = 0`
is the empty `server_pid`; `NoteServer` is the assignment of `$!`, a step after the
fork. Kills may leave `run.sh` running without `run-all.sh` (`orphaned`). A server
that has been sent SIGKILL is `dying` until it is dead, because `stop_server` does
not look. Bash delivers TERM to `run-all.sh` only after `run.sh` returns, so
`Terminate` does not occur in between.

A case is one call of `vramfit_run_case` that returns 0 or not, since the directory
is always fresh here; `Drivers` opens it up.

### CaseRun, RunCases, Boundary, Drivers

`step` is the next command of `vramfit_run_case` that somebody else can tell from the
next one, and `evidence` what is in every case's directory: the two snapshots of
`/metrics`, GuideLLM's report, the samples, `status.txt`. The function runs in a
subshell of its caller, whose place is `pc`; `Killed` takes the caller and leaves the
case, `KillCase` the case and leaves its sampler and GuideLLM, `TermCase` runs the EXIT
trap. A sampler without a case goes on appending to its case's `metrics.jsonl`
(`OrphanSamples`), whatever `status.txt` says by then; the samples of a case in progress
come at once with its report. While GuideLLM runs bash acts on a signal only at its end
(`EndLoadTerminated`): before `status=$?`, so that `status.txt` says 0. The poll loop
(61-69) is two actions: `DrainPoll`, an answered poll that found nothing running or
waiting, and `DrainExpires`, the deadline. `curl` may fail at any time (`Readings`). The
engine is `requests`, the cases that have any, `preemptions`, its counter, and
`suffered`, the history of whose they were: requests may outlive the case that sent
them.

`RunCases` is `run.sh` started again and again on one directory. Its first request,
`Probe` (`run.sh:24`), has no `--max-time`: the server may answer, the `curl` may fail,
and nothing says that either happens. `Boundary` is
`boundary.sh` from the first launch: `stop_server` is `NothingToStop`, `KillServer` and
`LookStopped` or `LookRefuses`, called from the end of a launch, from its failures
(`GiveUp`) and from the EXIT trap (`leaving`). The layout gate is `CheckLayout` of
`BoundaryAnalysis`; the files a launch leaves are judged by `Analyze` of the same module
in the property `SuccessStandsReview`, as they will be after a fetch. A counter that is
absent or unreadable is a negative number; `BYTES_PER_BLOCK` is a parameter.

Not in the model: an operator who moves a case aside or restarts the server between two
runs of `run.sh`; two `run.sh` at once, or one started while a case whose caller was
killed still goes on; failing writes to the local disk; the single steps of the
sampler's loop.

### MemoryBudget and Budget

The decimal inputs are pairs of numerator and denominator, as `Fraction(str(...))`
makes them; `GIB` is a parameter so that TLC can put every boundary within a few
hundred bytes. `Unknown` is `None`, and spreads as in the code.

### DenseAdapter and Inspection

A config is the record of the fields the adapters read, each of which may be absent
or null where the code tells the two apart; what `_check_features` refuses whatever
the family is one set of tags. A tensor's name is a triple. `Inspection` makes one
action of each request; what the Hub serves of a commit is immutable, and `Push` moves
the branch. Any request may raise any exception of the Hub client, and exceptions go
through the except clauses they meet: those of `_hub_request` (`HubRequest`), those
around the request for the headers (`HeaderExcept`), one of which answers `None` for a
checkpoint that is not there, and those of `main` (`Caught`), past which there is only a
`Traceback`. What the client raises of a commit's checkpoint, as opposed to its
transport, is `ClientRaises`, taken from how `hub.py` uses it: `NotASafetensorsRepoError`
when the commit has neither standard layout and only then, an entry that is not found
when the index names a shard that is not there, parsing errors for a header that
cannot be read. `AtomicInspection` is what the help text promises of `--revision`: all
evidence is of one commit. The kinds of `ModelInspectionError` and the messages for HTTP
statuses are one `Error`.

## What TLC checks

| Run | Instance | What it shows |
| --- | --- | --- |
| `jobs` | 2 clients, 2 modes, 1 log line, 1 reboot, first failure gives up | `TypeOK`, `OneJobAtATime`, `WriterOwnsFiles`, `FreshVerdict`, `WholeLogShown`, the refinement `ImplementsGpuSlot` |
| `jobs_live` | 2 clients, 1 mode, second failure gives up | `LostIsDead`; under fairness `RecordedIsReported`, `StartIsAnswered` |
| `runall` | 2 models, 2 cases, 2 commits, 2 jobs of either mode | `TypeOK`, `FinishedIsWhole`, `SuccessIsOfThisCommit`, `NoServerLeft`, `OneServerServes`, `EvidenceKept` |
| `drivers` | `run.sh` twice over 2 cases; `boundary.sh` over launches of 2 and 1 cases; 6 measurements, 1 sample taken too late, 1 preemption, any 2 faults | `TypeOK`, `DeltaIsOwn`, `LaunchesAlone`, `ManifestAccounts`, `SuccessStandsReview`, `FinishedIsSaved`, `SamplersStop`, `RecordedIsFinal`; under fairness `DriversEnd` |
| `files` | 2 commits, 2 jobs, 1 file beside `finished-at.txt`, 2 fetches and an earlier one | `TypeOK`, `LocalFinishedIsWhole`, `NothingLost`, `ReadyIsWhole`, `JobUndisturbed` |
| `budget` | 32256 requests | `MaxConcurrencyIsLargestFit`, `NeverOptimistic`, `RoundingIsTight`, `SummaryAgrees` |
| `inspection` | every family, setting and damaged checkpoint, with shards that are not there; every exception of the client; branches of 3 commits | `TypeOK`, `HeaderCountIsReference`, `FitsIsSound`, `UnknownHasCause`, `FailureIsNoEvidence`, the refinement `ImplementsAtomicInspection` |

Five runs end in a violation, each of a statement the source makes of itself:

* `jobs_failure`: the exit file exists before it has its content, and a poll in
  between reports a successful job as failed (`pod.sh:84`, `95`, `120`).
* `jobs_verdict`: a client that sleeps through the end of its job goes on with the
  next job of the mode and returns its exit (`pod.sh:51-52`).
* `jobs_killed`: a wrapper killed without an exit file and not reaped, or whose number
  is another process's by now, answers `kill -0`, so its client polls for ever
  (`pod.sh:93-97`, `119`).
* `runall_ship`: a ship cut off inside `tar` leaves the old `COMMIT.txt` beside
  other scripts (`pod.sh:133`, `156-157`).
* `runall_terminate`: TERM between the fork and `server_pid=$!` leaves the server
  running (`run-all.sh:35-36`, `70-71`).

### Bounds

`MaxJobs` is at least the number of clients, so no client waits because of it. Two
clients are enough for every conflict over a lock or a file of a mode, which are
pairwise; with one log line a poll finds none, all, or what it has printed already; one
reboot falls at every step of `jobs`. `FailureLimit` is 5 in the code; 1 and 2 are the
limits at which a client does not, and does, poll again after a loss. In `RunAll` two
models are what the code serves, two cases give a first and a last, and two jobs over
two commits give every pair of a job and what it finds. In `Drivers`, `MaxFaults` bounds
what goes wrong in one behaviour (a failed `curl`, a bad measurement, a signal, a kill,
a server that dies): every fault a rule of the code is about occurs alone and after any
other, and the exceptions the properties make were found so. A fault is counted where it
happens by `Charge`; requests, preemptions and the deadline of the drain are free. The
first launch has two cases so that a case follows a case, the second shows what the
first leaves. `Strays`, the samples a sampler may take when its case is over, is one
that is none of a measurement. `MaxPreemptions` 1 tells a counter that moved from one
that did not. In `PodFiles` one file is enough because files do not interact, two jobs
make a directory that changes hands, and two fetches meet. Where a theorem is proved the
bounds do not matter to it. `budget` has a GiB of 256 bytes and counts at both sides of
every boundary that follows; `inspection` has one-layer models with distinct dimensions,
so that a swapped shape or a tensor counted twice changes the sum.

### Fairness

`jobs_live` and `jobs_killed` assume that a session's commands and the client's loop
go on (weak fairness of `Session` and `OpenPoll`), which bash does, and that a
session which finds `control.lock` free again and again gets it (strong fairness of
`TakeControl`): `flock` queues its waiters. Nothing is assumed of the connection,
of the job or of the pod's init, so a job may run, and a zombie stay, for ever.

`DriversEnd` assumes weak fairness of `ScriptSteps`: each is a command that ends by
itself, which every `curl` of the cases and of `boundary.sh` does by `--max-time` or a
refused connection, the poll loop by its
deadline, GuideLLM by its `max_duration`, and the waits for the server by the 120 s of
`stop_server` and the limit of `serve.sh`. The `curl` of `run.sh:24` has no `--max-time`,
so `Probe` is not fair and `DriversEnd` is said of a `run.sh` that is past it. Nothing is
assumed of the engine: `DrainPoll` and the steps of `Around` are not fair, so requests
may stay for ever.

## What is proved

For all values of the constants, under the assumptions the modules state of them:

* `PodJobsProofs`: `TypeCorrect`, `OneJob`, `WritersOwn`, `VerdictsAreFresh`,
  `WholeLogsShown`, `LostAreDead`.
  `OneJobAtATime` is not inductive: a session that has tried `gpu.lock` may be about to
  launch. `IInv` adds that sessions past the first `flock` exclude each other
  (`ControlExclusive`) and that from `TryGpu` to `Launch` no job holds the GPU
  (`SlotKept`), which `KillWrapper` and `Reboot` only help and `Finish` must not
  break. `RefinesGpuSlot` follows from the same invariant: the only step that adds an
  owner is `Launch`, where `SlotKept` says there is none. `FreshVerdict` needs `VInv`
  besides: an exit file is that of its mode's latest job and is absent when the next is
  launched (`ExitOfLatest`), and nobody follows a job later than that
  (`FollowsOrdered`). `WholeLogShown` and `LostIsDead` need `LInv`: until a reboot the
  pid file is of the mode's latest job whenever a poll looks (`PidOfLatest`), a wrapper
  past its exit has its exit file (`ExitRecorded`), and what a poll saw is still so at
  its second look (`DeadSeen`, `VerdictIsLatest`), because it holds `control.lock` in
  between. `PrintedSoFar` is why the lines add up: while the log of its mode is that of
  the job it follows, a client has printed the first `shown` lines of it and nothing
  else, and a poll goes on from there (`PrintsOn`, `CatchesUp`).
* `RunAllProofs`: `TypeCorrect`, `FinishedWhole`, `SuccessOfCommit`, `ServersStopped`,
  `EvidenceIsKept`. `RInv` adds that `COMMIT.txt` does not change while a job runs
  (`CommitPinned`), what the current directory holds at each step (`DirOfJob`), that
  the models before it are finished at this commit (`EarlierFinished`) and that only
  the noted server is alive while all goes well (`ServersTracked`). `OneServerServing`
  is proved of the same invariant: a launch happens only after `stop_server`, and a job
  only when nothing of the last one is left.
* `PodFilesProofs`: `TypeCorrect`, `FinishedWhole`, `NoneLost`, `ReadyWhole`,
  `JobsUndisturbed`. `FInv` adds that `finished-at.txt` comes last (`FinishedLast`), that a
  download of a finished run can only read that run's files, as a directory is moved
  but never written after its end (`ReadsOneRun`, `DownloadsWhole`), that the marker
  stands for a whole environment wherever `setup` was cut off (`MarkerTruthful`), and that
  past `gpu.lock` there is no job (`SetupAlone`).
* `DriversProofs`: `TypeCorrect`, `AloneAlways`, `FinishedSaved`, `SamplersStopped`,
  `RecordsFinal`, for any tables, launches, layouts, measurements and numbers of faults.
  `DInv` adds that a server is forked only when all before it were seen dead
  (`StopsFirst`), that a case in progress belongs to a script that waits for it or is
  dead (`CallsWaitedFor`), that a directory is empty before its call and GuideLLM does
  not outlive a `status.txt` (`NothingEarly`), that `boundary.sh` calls each case once
  (`FreshAhead`), which cases have a sampler, and that a recorded one with a sampler
  says 130 and has no report (`SamplersKnown`), and that `run.sh` is past a case only
  when it is saved (`SavedSoFar`).
* `EvidenceProofs`: `ManifestTrue`, `SuccessStands` and `DeltasOwn`, from `DInv` and
  `EvidenceInv`, which TLC checks on the instance of `drivers` as well.
  The manifest: it has a line for every case the script is past, and a launch counts as
  failed exactly when one of its cases has no line `ok` (`LinesSoFar`), wherever the
  script is in its tables (`PlacesKnown`).
  Success: what stands behind a line `ok` is evidence the analysis finds no fault with
  (`OkStands`), which needs that the counter a case started from does not fall before
  its end, as no server is replaced meanwhile (`CounterGrows`).
  The delta: the requests on the engine are those of cases that ran
  (`RequestsKnown`, `TableInOrder`); while no case was killed, a case that drained left
  none, so the next one has the engine to itself (`OwnEngine`), and what its counter has
  grown by since the first snapshot is what its own requests suffered (`CountsOwn`).
  Case tables are assumed not to be empty, as the here-documents of `boundary.sh` are
  not: a launch without cases that fails would have no line of the manifest to say so.
* `BudgetProofs`: `MaxConcurrencyCorrect`, `NoOptimisticFit`, `RoundingTight` and
  `SummariesAgree`, from lemmas about floor and ceiling division.
* `InspectionProofs`: `TypeCorrect`, `FailuresAreErrors`, `UnknownIsJustified`, and
  `InspectionIsAtomic`, the refinement: each evidence variable is what the picked
  commit holds, so the last step's answer is the abstract one's judgement.
  `UnknownIsJustified` rests on `CompleteIsStandard`: a checkpoint that stores the
  model once, whichever tied alias it leaves out, passes the adapters' layout check.
  `FailuresAreErrors` rests on what the except clauses make of each exception:
  `HeaderFaults` has that of all that the client may raise while headers are asked for,
  only the exception of a commit without a checkpoint becomes `None`, and that what
  the others become is caught by `main`; `HeadersOfCommit` carries it to the answer.
  `TypeCorrect` assumes that no judgement equals `Pending`, the value of an answer that
  is not there yet (`JudgementAssumption`).
* `CountProofs`: `HeaderCountCorrect` and `FitsCorrect`, for every family, geometry,
  number of layers and assignment of names to headers. The counts are folds over sets
  (of tensors, layers, names), so the lemmas are about sums: over a union, under a
  one-to-one renaming, layer by layer (`SumUnion`, `SumImage`, `SumLayers`). The
  library's induction theorems cannot be instantiated by the provers at hand;
  `NaturalsIn` and `SubsetsIn` have the two inductions from sets, by a least
  counterexample. From there: what the adapter expects of a layer and of the rest sums
  to the architecture's count (`WeightsSum`), names and headers of an accepted
  checkpoint match one to one (`CountByNames`), so what the headers say is what the
  model learns (`LearnedIsReference`); a tied alias stored besides only adds to the
  bytes (`StoredIsEnough`); and the memory the budget asks for grows with the count,
  so no undercount makes a FITS (`KnownMemoryGrows`, `FitsIsKnown`).
  The numbers of a config are assumed to be integers, absent or null
  (`ConfigsAssumption`), and requests to be of the command's options
  (`RequestsAssumption`).

Every invariant, action property and refinement that a passing run checks is a theorem.
Only model-checked: the liveness properties `RecordedIsReported`, `StartIsAnswered` and
`DriversEnd`, since liveness under fairness is out of the provers' reach. The five
violations are TLC's as well.

## Exceptions the properties make

They are the places where the code has no way to do better, found by the runs:

* `DeltaIsOwn` says nothing of a run in which a case was killed before its EXIT trap:
  without a `status.txt` nothing tells the next case that the engine is still busy.
* `WholeLogShown` is of a client that reports the exit of the job it follows; the other
  kind is in `jobs_verdict`, and passes over lines of the log it ends with.
* `SamplersStop` excepts a case that a signal ended between the fork of `metrics.sh` and
  `metrics_pid=$!` (`case.sh:40-41`), where the trap does not know the sampler. The case
  has recorded 130 and has not run GuideLLM. `RecordedIsFinal` lets that sampler append
  samples to it, and nothing else.
* `DriversEnd` excepts a `run.sh` whose first request is never answered (`run.sh:24`).
* `ManifestAccounts` excepts a launch whose `/metrics` could not be read for the layout
  (`boundary.sh:102`), which gives up without a line; the exit status is still 1.
* `SuccessStandsReview` leaves to the analysis what `boundary.sh` does not look at: the
  lengths, the duration, the samples and the presence of the counters.
* `FinishedIsSaved` takes a case without `status.txt` as it is (`run.sh:39`).
* After a ship without a setup the manifest of `boundary.sh` names one commit and the
  copied `runs/COMMIT.txt` another (`boundary.sh:34`, `44`); both are what they are called.

## Not modelled

* `predict.sh` calls the command for a table of cases and prints; `model-sweep.sh` calls
  it for a list of models and counts exit codes; the `Makefile` calls `pod.sh` in
  sequence, and `RunAll`, `PodFiles` and `PodJobs` allow its calls in every order.
* The commands inside the sampler's loop: it appends to one file, and the samples it
  takes, with the gaps it records, are inputs (`Measured`, `Strays`).
* The vLLM command line of `serve.sh`; the wording chosen for each HTTP status; the
  layout of tables, the averages of the boundary report and the detailed report's rows:
  no property is about them.
* `AdapterRegistry.register` with adapters of one's own is not reachable from the command.

What could follow: `RunAll`'s `EndCase` shown to be an abstraction of `CaseRun`.

## Running it

    tlc -workers 2 -config RunAll.cfg RunAll
    tlc -workers 2 -config MCDrivers.cfg MCDrivers
    tlapm EvidenceProofs.tla

`PROJECT.json` lists every run, the mutants that show each property can fail, which
source lines each definition stands for, the hazards and the theorems.
