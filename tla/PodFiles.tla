------------------------------ MODULE PodFiles ------------------------------
(* What pod.sh does with files around a job: `setup', which builds the     *)
(* environment on the pod and records it, and `fetch', which downloads     *)
(* validation/runs while a job may be writing it and swaps it for the      *)
(* local one.  Sessions and fetches may be cut off between any two of      *)
(* their commands and begun again, and two operators may fetch together.   *)
(*                                                                         *)
(* Of a job (RunAll) this module keeps what a download can see: a run      *)
(* directory that is moved aside, made again, filled file by file and      *)
(* ended by finished-at.txt.  Of ship it keeps COMMIT.txt.  A file is the  *)
(* number of the job that wrote it, negative while it is being written.    *)
EXTENDS Integers, FiniteSets

CONSTANTS
  Commits,    \* commits of the repository
  NoCommit,   \* there is no runs/COMMIT.txt
  Files,      \* files a job writes for a model, finished-at.txt aside
  MaxJobs,    \* bound: jobs
  MaxFetches  \* bound: invocations of fetch

ASSUME FilesAssumption ==
  /\ NoCommit \notin Commits
  /\ MaxJobs \in Nat /\ MaxFetches \in Nat

VARIABLES
  \* On the pod.
  commit,     \* COMMIT.txt
  setup,      \* the next command of a setup session, or "none"
  venv,       \* the packages in .venv
  installed,  \* .venv/installed names the packages
  freeze,     \* runs/pip-freeze.txt
  recorded,   \* runs/COMMIT.txt
  job,        \* the job that is running, or 0
  jobs,       \* jobs started
  dir,        \* runs/<model>; what is moved aside is not followed
  \* On the operator's machine.
  fetch,      \* the next command of each fetch
  listed,     \* what tar found in runs when it began
  copy,       \* the content of the fetch's download
  place       \* where the download is

podVars == <<commit, setup, venv, installed, freeze, recorded, job, jobs, dir>>
localVars == <<fetch, listed, copy, place>>
vars == <<podVars, localVars>>

-----------------------------------------------------------------------------
\* Fetch 0 is the one, if any, that left the validation/runs found at first.
Fetches == 0..MaxFetches
Written == -MaxJobs..MaxJobs

\* A run directory: the job that made it, its files, finished-at.txt.  The job
\* is 0 when there is no directory.
Records == [job : 0..MaxJobs, files : [Files -> Written], finished : 0..MaxJobs]

\* All that is in one directory is of one job.
OneJobs(d) ==
  /\ d.finished \in {0, d.job}
  /\ \A f \in Files : d.files[f] \in {0, d.job, -d.job}
NoDir == [job |-> 0, files |-> [f \in Files |-> 0], finished |-> 0]

\* What tar sees of it when it opens the directory.
Lists == [job : 0..MaxJobs, names : SUBSET Files, finished : 0..MaxJobs]
Listing(d) == [job |-> d.job, names |-> {f \in Files : d.files[f] # 0}, finished |-> d.finished]
NoList == Listing(NoDir)

SetupSteps ==
  {"none", "gpu", "check", "clear", "install", "mark", "freeze", "commit", "ready"}
FetchSteps == {"idle", "lock", "list", "read", "test", "move", "swap", "done", "failed", "cut"}
Places == {"none", "staging", "runs", "old", "nested"}

Init ==
  /\ commit \in Commits /\ recorded = NoCommit
  /\ setup = "none" /\ venv = "none" /\ installed = FALSE /\ freeze = "none"
  /\ job = 0 /\ jobs = 0 /\ dir = NoDir
  /\ listed = [k \in Fetches |-> NoList]
  /\ copy = [k \in Fetches |-> NoDir]
  /\ \E found \in BOOLEAN :
       /\ fetch = [k \in Fetches |-> IF k = 0 /\ found THEN "done" ELSE "idle"]
       /\ place = [k \in Fetches |-> IF k = 0 /\ found THEN "runs" ELSE "none"]

\* A setup session and the download of a fetch hold control.lock.
ControlFree ==
  /\ setup = "none"
  /\ \A k \in Fetches : fetch[k] \notin {"list", "read"}

GpuFree == job = 0 /\ setup \in {"none", "gpu"}

-----------------------------------------------------------------------------
(* ship and setup                                                          *)

Ship(c) ==
  /\ ControlFree /\ GpuFree
  /\ commit' = c
  /\ UNCHANGED <<setup, venv, installed, freeze, recorded, job, jobs, dir, localVars>>

SetupBegins ==
  /\ ControlFree
  /\ setup' = "gpu"
  /\ UNCHANGED <<commit, venv, installed, freeze, recorded, job, jobs, dir, localVars>>

\* Mutant of SetupTriesGpu: it does not try gpu.lock.
SetupGoesOn ==
  /\ setup = "gpu"
  /\ setup' = "check"
  /\ UNCHANGED <<commit, venv, installed, freeze, recorded, job, jobs, dir, localVars>>

\* `Job running; preserving its installed environment'
SetupTriesGpu ==
  /\ setup = "gpu"
  /\ setup' = IF GpuFree THEN "check" ELSE "none"
  /\ UNCHANGED <<commit, venv, installed, freeze, recorded, job, jobs, dir, localVars>>

CheckInstalled ==
  /\ setup = "check"
  /\ setup' = IF installed THEN "freeze" ELSE "clear"
  /\ UNCHANGED <<commit, venv, installed, freeze, recorded, job, jobs, dir, localVars>>

\* uv venv --clear
ClearVenv ==
  /\ setup = "clear"
  /\ venv' = "partial" /\ installed' = FALSE
  /\ setup' = "install"
  /\ UNCHANGED <<commit, freeze, recorded, job, jobs, dir, localVars>>

\* Mutant of Install: the marker is written first.
InstallMarked ==
  /\ setup = "install"
  /\ installed' = TRUE
  /\ \/ venv' = "whole" /\ setup' = "mark"
     \/ venv' = "partial" /\ setup' = "none"
  /\ UNCHANGED <<commit, freeze, recorded, job, jobs, dir, localVars>>

\* uv pip install succeeds, or fails part of the way.
Install ==
  /\ setup = "install"
  /\ \/ venv' = "whole" /\ setup' = "mark"
     \/ venv' = "partial" /\ setup' = "none"
  /\ UNCHANGED <<commit, installed, freeze, recorded, job, jobs, dir, localVars>>

MarkInstalled ==
  /\ setup = "mark"
  /\ installed' = TRUE /\ setup' = "freeze"
  /\ UNCHANGED <<commit, venv, freeze, recorded, job, jobs, dir, localVars>>

\* uv pip freeze > runs/pip-freeze.txt lists what is there, or is cut off.
Freeze ==
  /\ setup = "freeze"
  /\ \/ freeze' = venv /\ setup' = "commit"
     \/ freeze' = "partial" /\ setup' = "none"
  /\ UNCHANGED <<commit, venv, installed, recorded, job, jobs, dir, localVars>>

RecordCommit ==
  /\ setup = "commit"
  /\ recorded' = commit /\ setup' = "ready"
  /\ UNCHANGED <<commit, venv, installed, freeze, job, jobs, dir, localVars>>

\* The session ends, at `Pod ready' or wherever the connection drops.
SetupEnds ==
  /\ setup # "none"
  /\ setup' = "none"
  /\ UNCHANGED <<commit, venv, installed, freeze, recorded, job, jobs, dir, localVars>>

-----------------------------------------------------------------------------
(* A job, as a download sees it.                                           *)

JobUnchanged == UNCHANGED <<commit, setup, venv, installed, freeze, recorded, jobs, localVars>>

StartJob ==
  /\ ControlFree /\ GpuFree /\ jobs < MaxJobs
  /\ jobs' = jobs + 1 /\ job' = jobs + 1
  /\ UNCHANGED <<commit, setup, venv, installed, freeze, recorded, dir, localVars>>

\* Mutant of MoveAside: the job goes on in the directory an earlier one left.
AdoptDir ==
  /\ job # 0 /\ dir.job \notin {0, job}
  /\ dir' = [dir EXCEPT !.job = job]
  /\ UNCHANGED job /\ JobUnchanged

\* The job finds what an earlier one left and moves it out of the way.
MoveAside ==
  /\ job # 0 /\ dir.job \notin {0, job}
  /\ dir' = NoDir
  /\ UNCHANGED job /\ JobUnchanged

MakeDir ==
  /\ job # 0 /\ dir.job = 0
  /\ dir' = [NoDir EXCEPT !.job = job]
  /\ UNCHANGED job /\ JobUnchanged

\* A file appears and grows until it is whole.
WriteFile(f) ==
  /\ job # 0 /\ dir.job = job /\ dir.finished = 0
  /\ dir.files[f] # job
  /\ dir' = [dir EXCEPT !.files[f] = IF @ = 0 THEN -job ELSE job]
  /\ UNCHANGED job /\ JobUnchanged

\* finished-at.txt, when everything else is there.
FinishRun ==
  /\ job # 0 /\ dir.job = job /\ dir.finished = 0
  /\ \A f \in Files : dir.files[f] = job
  /\ dir' = [dir EXCEPT !.finished = job]
  /\ UNCHANGED job /\ JobUnchanged

JobEnds ==
  /\ job # 0
  /\ job' = 0
  /\ UNCHANGED dir /\ JobUnchanged

-----------------------------------------------------------------------------
(* fetch                                                                   *)

Step(k, from, to) == fetch[k] = from /\ fetch' = [fetch EXCEPT ![k] = to]

\* mktemp -d .fetch-XXXXXX.  Fetches are numbered as they begin.
FetchBegins(k) ==
  /\ k # 0
  /\ Step(k, "idle", "lock")
  /\ \A o \in 1..(k - 1) : fetch[o] # "idle"
  /\ place' = [place EXCEPT ![k] = "staging"]
  /\ UNCHANGED <<podVars, listed, copy>>

FetchConnects(k) ==
  /\ Step(k, "lock", "list")
  /\ ControlFree
  /\ UNCHANGED <<podVars, listed, copy, place>>

\* tar lists a directory before it reads its files.
TarLists(k) ==
  /\ Step(k, "list", "read")
  /\ listed' = [listed EXCEPT ![k] = Listing(dir)]
  /\ copy' = [copy EXCEPT ![k] = [NoDir EXCEPT !.job = dir.job, !.finished = dir.finished]]
  /\ UNCHANGED <<podVars, place>>

\* The next file, which need not be whole.  A directory moved meanwhile has
\* changed: tar will fail, and what it still reads does not matter.
TarReads(k, f) ==
  /\ fetch[k] = "read"
  /\ f \in listed[k].names /\ copy[k].files[f] = 0
  /\ dir.job = listed[k].job
  /\ copy' = [copy EXCEPT ![k].files[f] = dir.files[f]]
  /\ UNCHANGED <<podVars, fetch, listed, place>>

\* tar fails if a directory changed while it was read.
TarEnds(k) ==
  /\ Step(k, "read", "test")
  /\ \A f \in listed[k].names : copy[k].files[f] # 0
  /\ listed[k] = Listing(dir)
  /\ listed' = [listed EXCEPT ![k] = NoList]
  /\ UNCHANGED <<podVars, copy, place>>

\* A download that fetch gives up is looked at no more.
Forgotten(k) ==
  /\ listed' = [listed EXCEPT ![k] = NoList]
  /\ copy' = [copy EXCEPT ![k] = NoDir]

\* tar or ssh fails: rm -rf "$staging"
DownloadFails(k) ==
  /\ fetch[k] \in {"lock", "list", "read"}
  /\ fetch' = [fetch EXCEPT ![k] = "failed"]
  /\ place' = [place EXCEPT ![k] = "none"]
  /\ Forgotten(k)
  /\ UNCHANGED podVars

RunsExists == \E k \in Fetches : place[k] = "runs"

\* [[ -e validation/runs ]]
TestRuns(k) ==
  /\ Step(k, "test", IF RunsExists THEN "move" ELSE "swap")
  /\ UNCHANGED <<podVars, listed, copy, place>>

Moved(to) == [k \in Fetches |-> IF place[k] = "runs" THEN to ELSE place[k]]

\* Mutant of MoveRuns: rm -rf validation/runs.
RemoveRuns(k) ==
  /\ Step(k, "move", "swap") /\ RunsExists
  /\ place' = Moved("none")
  /\ UNCHANGED <<podVars, listed, copy>>

\* mv validation/runs runs.old-XXXXXX
MoveRuns(k) ==
  /\ Step(k, "move", "swap") /\ RunsExists
  /\ place' = Moved("old")
  /\ UNCHANGED <<podVars, listed, copy>>

\* Another fetch has moved it in between: mv fails, and fetch by set -e.
MoveFails(k) ==
  /\ Step(k, "move", "failed") /\ ~RunsExists
  /\ Forgotten(k)
  /\ UNCHANGED <<podVars, place>>

\* Mutant of SwapIn: the download is merged into what is there.
MergeIn(k) ==
  /\ Step(k, "swap", "done")
  /\ LET merged(c) == [job |-> copy[k].job,
                       files |-> [f \in Files |-> IF copy[k].files[f] = 0 THEN c.files[f] ELSE copy[k].files[f]],
                       finished |-> IF copy[k].finished = 0 THEN c.finished ELSE copy[k].finished]
     IN  copy' = [copy EXCEPT ![k] =
           IF \E o \in Fetches : place[o] = "old"
           THEN merged(copy[CHOOSE o \in Fetches : place[o] = "old"]) ELSE @]
  /\ place' = [place EXCEPT ![k] = IF RunsExists THEN "nested" ELSE "runs"]
  /\ UNCHANGED <<podVars, listed>>

\* mv "$staging" validation/runs, which moves it inside if another fetch has
\* put its own there meanwhile.
SwapIn(k) ==
  /\ Step(k, "swap", "done")
  /\ place' = [place EXCEPT ![k] = IF RunsExists THEN "nested" ELSE "runs"]
  /\ UNCHANGED <<podVars, listed, copy>>

\* The client is killed; the staging directory stays.
FetchCut(k) ==
  /\ fetch[k] \in {"lock", "list", "read", "test", "move", "swap"}
  /\ fetch' = [fetch EXCEPT ![k] = "cut"]
  /\ Forgotten(k)
  /\ UNCHANGED <<podVars, place>>

-----------------------------------------------------------------------------
Next ==
  \/ \E c \in Commits : Ship(c)
  \/ SetupBegins \/ SetupTriesGpu \/ CheckInstalled \/ ClearVenv \/ Install \/ MarkInstalled
  \/ Freeze \/ RecordCommit \/ SetupEnds
  \/ StartJob \/ MoveAside \/ MakeDir \/ FinishRun \/ JobEnds
  \/ \E f \in Files : WriteFile(f)
  \/ \E k \in Fetches :
       \/ FetchBegins(k) \/ FetchConnects(k) \/ TarLists(k) \/ TarEnds(k) \/ DownloadFails(k)
       \/ TestRuns(k) \/ MoveRuns(k) \/ MoveFails(k) \/ SwapIn(k) \/ FetchCut(k)
       \/ \E f \in Files : TarReads(k, f)

Spec == Init /\ [][Next]_vars

-----------------------------------------------------------------------------
(* Properties.                                                             *)

\* Type correctness, and that a run directory and its download each hold the
\* files of one job only.
TypeOK ==
  /\ commit \in Commits
  /\ setup \in SetupSteps
  /\ venv \in {"none", "partial", "whole"} /\ freeze \in {"none", "partial", "whole"}
  /\ installed \in BOOLEAN
  /\ recorded \in Commits \union {NoCommit}
  /\ job \in 0..MaxJobs /\ jobs \in 0..MaxJobs
  /\ dir \in Records /\ OneJobs(dir)
  /\ fetch \in [Fetches -> FetchSteps]
  /\ listed \in [Fetches -> Lists]
  /\ copy \in [Fetches -> Records] /\ \A k \in Fetches : OneJobs(copy[k])
  /\ place \in [Fetches -> Places]

\* `merging tar output leaves stale success markers locally': wherever a
\* download ends up, a finished-at.txt in it has beside it every file of the
\* run it belongs to, whole, although the job wrote them during the download
\* and earlier downloads were of other runs.
LocalFinishedIsWhole ==
  \A k \in Fetches : place[k] \in {"runs", "old", "nested"} /\ copy[k].finished # 0 =>
    \A f \in Files : copy[k].files[f] = copy[k].finished

\* Every download that was reported is still on the disk, in validation/runs,
\* moved aside or inside another, wherever fetches were cut off and however two
\* of them met; one that was not reported is in none of these places, so
\* validation/runs is never a part of a download.
NothingLost ==
  /\ \A k \in Fetches : fetch[k] = "done" <=> place[k] \in {"runs", "old", "nested"}
  /\ \A k, o \in Fetches : place[k] = "runs" /\ place[o] = "runs" => k = o

\* `Pod ready; installed packages listed in validation/runs/pip-freeze.txt':
\* so they are, all of them, and the commit recorded is that of the scripts,
\* whatever earlier setups were cut off at.
ReadyIsWhole ==
  setup = "ready" => venv = "whole" /\ freeze = "whole" /\ recorded = commit

\* Repeating ship and setup preserves the files and the environment of a job
\* that is running.
JobUndisturbed ==
  [][job # 0 => UNCHANGED <<commit, venv, installed, freeze, recorded>>]_vars

-----------------------------------------------------------------------------
(* The inductive invariant behind the properties above.                    *)

\* From gpu.lock to the end of a setup there is no job.
SetupAlone == setup \notin {"none", "gpu"} => job = 0

\* .venv/installed is there when all packages are, and only then.
MarkerTruthful ==
  /\ installed => venv = "whole"
  /\ setup \in {"install", "mark"} => ~installed
  /\ setup \in {"mark", "freeze", "commit", "ready"} => venv = "whole"
  /\ setup \in {"commit", "ready"} => freeze = "whole"

\* finished-at.txt comes last.
FinishedLast ==
  /\ job <= jobs /\ dir.job <= jobs
  /\ dir.finished # 0 => \A f \in Files : dir.files[f] = dir.finished

\* What a download has of a finished run it has whole, as the run's directory
\* can only be moved away; a job makes its own once.
ReadsOneRun ==
  \A k \in Fetches : fetch[k] = "read" =>
    /\ listed[k].job <= jobs
    /\ listed[k].job = job /\ job # 0 => dir.job = job
    /\ listed[k].finished # 0 /\ listed[k].job = dir.job => dir.finished # 0
    /\ copy[k].job = listed[k].job /\ copy[k].finished = listed[k].finished
    /\ copy[k].finished # 0 =>
         /\ listed[k].names = Files
         /\ \A f \in Files : copy[k].files[f] \in {0, copy[k].finished}

DownloadsWhole ==
  \A k \in Fetches : fetch[k] \in {"test", "move", "swap", "done"} /\ copy[k].finished # 0 =>
    \A f \in Files : copy[k].files[f] = copy[k].finished

FInv ==
  /\ TypeOK
  /\ SetupAlone
  /\ MarkerTruthful
  /\ FinishedLast
  /\ ReadsOneRun
  /\ DownloadsWhole
  /\ NothingLost
  /\ ReadyIsWhole
=============================================================================
