------------------------------- MODULE RunAll -------------------------------
(* What a smoke or full job runs on the pod: run-all.sh serves each pinned *)
(* model in turn through serve.sh and runs its cases through run.sh, and   *)
(* `pod.sh ship', which replaces the scripts and COMMIT.txt between jobs.  *)
(*                                                                         *)
(* Every process of a job holds gpu.lock (module PodJobs), so a job starts *)
(* and a ship unpacks only when no other has a process left.  Jobs may be  *)
(* killed at any step and started again; what survives them is the run     *)
(* directories.  A case is one call of vramfit_run_case, which returns 0   *)
(* or not.                                                                 *)
EXTENDS Integers, Sequences

CONSTANTS
  Models,     \* how many models a full job serves; a smoke job serves one
  Cases,      \* how many cases run.sh has for each
  Commits,    \* commits of the repository
  NoCommit,   \* no COMMIT.txt
  Mixed,      \* validation/ while or after tar was interrupted in it
  Absent,     \* the run directory does not exist
  MaxJobs     \* bound: jobs started in a behaviour

ASSUME ConstantsAssumption ==
  /\ Models \in Nat \ {0} /\ Cases \in Nat \ {0} /\ MaxJobs \in Nat
  /\ NoCommit \notin Commits /\ Mixed \notin Commits

VARIABLES
  scripts,     \* the commit whose files are under validation/
  commitFile,  \* COMMIT.txt
  shipping,    \* the commit a ship session is unpacking, or NoCommit
  mode,        \* the argument of run-all.sh
  pc,          \* the next step of run-all.sh
  model,       \* entry of the for loop
  case,        \* entry of run.sh's while loop
  server,      \* $server_pid, as the number of the launch, or 0
  startup,     \* $startup_status = 0
  orphaned,    \* run-all.sh is dead and run.sh goes on without it
  outcome,     \* how the last job ended
  jobs,        \* jobs started
  servers,     \* the process group of every launch
  dir,         \* runs/<model> of a full job, and at 0 runs/smoke/<model>
  aside,       \* what was moved to <directory>.old-*
  began        \* history: COMMIT.txt when the job began

shipVars == <<scripts, commitFile, shipping>>
jobVars == <<mode, pc, model, case, server, startup, orphaned, outcome, jobs, began>>
vars == <<shipVars, jobVars, servers, dir, aside>>

-----------------------------------------------------------------------------
Entries == 0..Models
ModeEntries == IF mode = "smoke" THEN {0} ELSE 1..Models
CaseSet == 1..Cases
Steps == {"idle", "check", "fork", "startup", "copy", "cases", "running", "stop", "trap"}
Launches == 1..Len(servers)

\* launch, COMMIT.txt, the cases' directories and finished-at.txt; as history
\* COMMIT.txt when the job began and the scripts it ran.
RunDirs ==
  [launch : Nat, commit : Commits \union {NoCommit}, finished : BOOLEAN,
   results : [CaseSet -> {"none", "running", "ok", "bad"}],
   began : Commits, scripts : Commits \union {Mixed}]

ASSUME AbsentAssumption == Absent \notin RunDirs

TypeOK ==
  /\ scripts \in Commits \union {Mixed}
  /\ commitFile \in Commits
  /\ shipping \in Commits \union {NoCommit}
  /\ mode \in {"smoke", "full"}
  /\ pc \in Steps
  /\ model \in 0..(Models + 1)
  /\ case \in 1..(Cases + 1)
  /\ servers \in Seq({"alive", "dying", "dead"})
  /\ server \in 0..Len(servers)
  /\ startup \in BOOLEAN /\ orphaned \in BOOLEAN
  /\ outcome \in {"none", "success", "failed", "terminated", "killed"}
  /\ jobs \in 0..MaxJobs
  /\ began \in Commits
  /\ dir \in [Entries -> RunDirs \union {Absent}]
  /\ aside \subseteq Entries \X RunDirs

\* The pod has been shipped to and set up, and ran nothing yet.
Init ==
  /\ commitFile \in Commits /\ scripts = commitFile /\ began = commitFile
  /\ shipping = NoCommit
  /\ mode = "full" /\ pc = "idle" /\ model = 1 /\ case = 1 /\ server = 0
  /\ startup = FALSE /\ orphaned = FALSE /\ outcome = "none" /\ jobs = 0
  /\ servers = <<>>
  /\ dir = [m \in Entries |-> Absent]
  /\ aside = {}

\* No process of a job is left, and no ship session has gpu.lock.
GpuFree ==
  /\ pc = "idle" /\ shipping = NoCommit
  /\ \A l \in Launches : servers[l] = "dead"

-----------------------------------------------------------------------------
(* pod.sh ship.  With gpu.lock taken it changes nothing.                   *)

\* Mutant of ShipUnpacks: it does not try gpu.lock.
ShipUnpacksAnyTime(c) ==
  /\ shipping = NoCommit
  /\ shipping' = c /\ scripts' = Mixed
  /\ UNCHANGED <<commitFile, jobVars, servers, dir, aside>>

ShipUnpacks(c) ==
  /\ GpuFree
  /\ shipping' = c /\ scripts' = Mixed
  /\ UNCHANGED <<commitFile, jobVars, servers, dir, aside>>

ShipUnpacked ==
  /\ shipping # NoCommit
  /\ scripts = Mixed
  /\ scripts' = shipping
  /\ UNCHANGED <<commitFile, shipping, jobVars, servers, dir, aside>>

ShipRecords ==
  /\ shipping # NoCommit
  /\ scripts = shipping
  /\ commitFile' = shipping /\ shipping' = NoCommit
  /\ UNCHANGED <<scripts, jobVars, servers, dir, aside>>

\* The connection drops or the pod reboots.
ShipLost ==
  /\ shipping # NoCommit
  /\ shipping' = NoCommit
  /\ UNCHANGED <<scripts, commitFile, jobVars, servers, dir, aside>>

-----------------------------------------------------------------------------
(* run-all.sh                                                              *)

Goto(step) == pc' = step /\ UNCHANGED <<mode, outcome, orphaned, jobs, began, shipVars>>

\* `exit' runs the EXIT trap.
Exit(status) == pc' = "trap" /\ outcome' = status /\ UNCHANGED <<mode, orphaned, jobs, began, shipVars>>

Start(m) ==
  /\ GpuFree
  /\ jobs < MaxJobs
  /\ jobs' = jobs + 1
  /\ pc' = "check" /\ outcome' = "none" /\ began' = commitFile
  /\ mode' = m /\ model' = (IF m = "smoke" THEN 0 ELSE 1)
  /\ server' = 0 /\ orphaned' = FALSE
  /\ UNCHANGED <<case, startup, shipVars, servers, dir, aside>>

HasFinished(m) == dir[m] # Absent /\ dir[m].finished

\* Mutant of SkipFinished: COMMIT.txt is not compared.
SkipAnyFinished ==
  /\ pc = "check" /\ model \in ModeEntries
  /\ mode = "full" /\ HasFinished(model)
  /\ model' = model + 1
  /\ Goto("check")
  /\ UNCHANGED <<case, server, startup, servers, dir, aside>>

SkipFinished ==
  /\ pc = "check" /\ model \in ModeEntries
  /\ mode = "full" /\ HasFinished(model) /\ dir[model].commit = commitFile
  /\ model' = model + 1
  /\ Goto("check")
  /\ UNCHANGED <<case, server, startup, servers, dir, aside>>

RefuseForeign ==
  /\ pc = "check" /\ model \in ModeEntries
  /\ mode = "full" /\ HasFinished(model) /\ dir[model].commit # commitFile
  /\ Exit("failed")
  /\ UNCHANGED <<model, case, server, startup, servers, dir, aside>>

\* Mutant of MoveAside: the partial run is removed.
RemovePartial ==
  /\ pc = "check" /\ model \in ModeEntries
  /\ dir[model] # Absent
  /\ ~(mode = "full" /\ HasFinished(model))
  /\ dir' = [dir EXCEPT ![model] = Absent]
  /\ Goto("check")
  /\ UNCHANGED <<model, case, server, startup, servers, aside>>

\* `Cases must share one server launch with its startup log, so a partial run
\* starts over.'
MoveAside ==
  /\ pc = "check" /\ model \in ModeEntries
  /\ dir[model] # Absent
  /\ ~(mode = "full" /\ HasFinished(model))
  /\ aside' = aside \union {<<model, dir[model]>>}
  /\ dir' = [dir EXCEPT ![model] = Absent]
  /\ Goto("check")
  /\ UNCHANGED <<model, case, server, startup, servers>>

\* setsid bash serve.sh ... &: serve.sh makes the directory and starts vLLM.
Serve ==
  /\ pc = "check" /\ model \in ModeEntries
  /\ dir[model] = Absent
  /\ servers' = Append(servers, "alive")
  /\ dir' = [dir EXCEPT ![model] =
       [launch |-> Len(servers) + 1, commit |-> NoCommit, finished |-> FALSE,
        results |-> [k \in CaseSet |-> "none"], began |-> began, scripts |-> scripts]]
  /\ Goto("fork")
  /\ UNCHANGED <<model, case, server, startup, aside>>

\* server_pid=$!
NoteServer ==
  /\ pc = "fork"
  /\ server' = Len(servers)
  /\ Goto("startup")
  /\ UNCHANGED <<model, case, startup, servers, dir, aside>>

\* serve.sh returns: the server answers, has exited or is not ready in time.
AwaitServer ==
  /\ pc = "startup"
  /\ startup' \in BOOLEAN
  /\ Goto("copy")
  /\ UNCHANGED <<model, case, server, servers, dir, aside>>

CopyRecords ==
  /\ pc = "copy"
  /\ dir' = [dir EXCEPT ![model].commit = commitFile]
  /\ IF startup THEN Goto("cases") /\ case' = 1 ELSE Exit("failed") /\ UNCHANGED case
  /\ UNCHANGED <<model, server, startup, servers, aside>>

\* run.sh, and with it run-all.sh by set -e, fails; nobody is left to stop the
\* server if run-all.sh is already dead.
RunFails ==
  IF orphaned THEN Goto("idle") ELSE Exit("failed")

\* run.sh finds no server answering on the port.
RunRefused ==
  /\ pc = "cases" /\ case = 1
  /\ RunFails
  /\ UNCHANGED <<model, case, server, startup, servers, dir, aside>>

\* Mutant of BeginCase: the table is read one line too far.
BeginCasePastEnd ==
  /\ pc = "cases" /\ case <= Cases + 1
  /\ dir' = [dir EXCEPT ![model].results[case] = "running"]
  /\ Goto("running")
  /\ UNCHANGED <<model, case, server, startup, servers, aside>>

\* mkdir "$case_dir"
BeginCase ==
  /\ pc = "cases" /\ case <= Cases
  /\ dir' = [dir EXCEPT ![model].results[case] = "running"]
  /\ Goto("running")
  /\ UNCHANGED <<model, case, server, startup, servers, aside>>

\* Mutant of EndCase: a failed case does not end run.sh.
EndCaseAnyway ==
  /\ pc = "running"
  /\ \E r \in {"ok", "bad"} : dir' = [dir EXCEPT ![model].results[case] = r]
  /\ Goto("cases") /\ case' = case + 1
  /\ UNCHANGED <<model, server, startup, servers, aside>>

EndCase ==
  /\ pc = "running"
  /\ \E r \in {"ok", "bad"} :
       /\ dir' = [dir EXCEPT ![model].results[case] = r]
       /\ IF r = "ok" THEN Goto("cases") /\ case' = case + 1 ELSE RunFails /\ UNCHANGED case
  /\ UNCHANGED <<model, server, startup, servers, aside>>

\* finished-at.txt
FinishModel ==
  /\ pc = "cases" /\ case > Cases
  /\ dir' = [dir EXCEPT ![model].finished = TRUE]
  /\ Goto(IF orphaned THEN "idle" ELSE "stop")
  /\ UNCHANGED <<model, case, server, startup, servers, aside>>

\* SIGTERM, then SIGKILL to the whole group.  A process may be slow to die of
\* that, and run-all.sh does not look.
KillServer ==
  IF server = 0 THEN UNCHANGED servers
  ELSE \E s \in {"dying", "dead"} :
         servers' = [servers EXCEPT ![server] = IF @ = "dead" THEN @ ELSE s]

\* Mutant of StopServer: the server is only forgotten.
ForgetServer ==
  /\ pc = "stop"
  /\ server' = 0 /\ model' = model + 1
  /\ Goto("check")
  /\ UNCHANGED <<case, startup, servers, dir, aside>>

StopServer ==
  /\ pc = "stop"
  /\ KillServer
  /\ server' = 0 /\ model' = model + 1
  /\ Goto("check")
  /\ UNCHANGED <<case, startup, dir, aside>>

AllFinished ==
  /\ pc = "check" /\ model \notin ModeEntries
  /\ Exit("success")
  /\ UNCHANGED <<model, case, server, startup, servers, dir, aside>>

\* Mutant of ExitTrap: there is no `trap stop_server EXIT'.
ExitNoTrap ==
  /\ pc = "trap"
  /\ Goto("idle")
  /\ UNCHANGED <<model, case, server, startup, servers, dir, aside>>

ExitTrap ==
  /\ pc = "trap"
  /\ KillServer
  /\ server' = 0
  /\ Goto("idle")
  /\ UNCHANGED <<model, case, startup, dir, aside>>

-----------------------------------------------------------------------------
(* The rest of the pod.                                                    *)

\* SIGINT or SIGTERM to run-all.sh; bash waits for run.sh before it traps.
Terminate ==
  /\ pc \in {"check", "fork", "startup", "copy", "stop"}
  /\ Exit("terminated")
  /\ UNCHANGED <<model, case, server, startup, servers, dir, aside>>

\* SIGKILL or the OOM killer takes run-all.sh, and run.sh or not.
Kill ==
  /\ pc # "idle"
  /\ outcome' = "killed"
  /\ \/ pc' = "idle" /\ UNCHANGED orphaned
     \/ pc \in {"cases", "running"} /\ orphaned' = TRUE /\ UNCHANGED pc
  /\ UNCHANGED <<mode, model, case, server, startup, jobs, began, shipVars, servers, dir, aside>>

ServerDies(l) ==
  /\ servers[l] # "dead"
  /\ servers' = [servers EXCEPT ![l] = "dead"]
  /\ UNCHANGED <<shipVars, jobVars, dir, aside>>

Next ==
  \/ \E c \in Commits : ShipUnpacks(c)
  \/ ShipUnpacked \/ ShipRecords \/ ShipLost
  \/ \E m \in {"smoke", "full"} : Start(m)
  \/ SkipFinished \/ RefuseForeign \/ MoveAside \/ Serve \/ NoteServer \/ AwaitServer
  \/ CopyRecords \/ RunRefused \/ BeginCase \/ EndCase \/ FinishModel \/ StopServer \/ AllFinished \/ ExitTrap
  \/ Terminate \/ Kill
  \/ \E l \in Launches : ServerDies(l)

Spec == Init /\ [][Next]_vars

-----------------------------------------------------------------------------
(* Properties.                                                             *)

\* finished-at.txt stands for a whole run: every case returned 0, and the
\* COMMIT.txt beside it is the one the job began with, although the file may
\* be shipped over between jobs and run.sh may outlive run-all.sh.
FinishedIsWhole ==
  \A m \in Entries : HasFinished(m) =>
    /\ \A k \in CaseSet : dir[m].results[k] = "ok"
    /\ dir[m].commit = dir[m].began

\* A job that exits 0 leaves every model of its mode finished at the commit it
\* began with, whichever of them it ran and whichever it found finished.
SuccessIsOfThisCommit ==
  outcome = "success" =>
    \A m \in ModeEntries : HasFinished(m) /\ dir[m].commit = began

\* A job that ends by itself has stopped every server it started, on each of
\* its exits: success, a failed startup, a failed case, a foreign commit.
NoServerLeft ==
  pc = "idle" /\ outcome \in {"success", "failed"} =>
    \A l \in Launches : servers[l] # "alive"

\* The cases of a model are answered by the server launched for it: however the
\* job before ended and however slowly a killed server goes, no two launches
\* have a server that was not killed.
OneServerServes ==
  \A l, k \in Launches : servers[l] = "alive" /\ servers[k] = "alive" => l = k

\* e is d with more recorded in it.
Grows(d, e) ==
  /\ e.launch = d.launch /\ e.began = d.began
  /\ d.commit # NoCommit => e.commit = d.commit
  /\ d.finished => e = d
  /\ \A k \in CaseSet : d.results[k] \in {"ok", "bad"} => e.results[k] = d.results[k]

KeepsEvidence ==
  /\ aside \subseteq aside'
  /\ \A m \in Entries : dir[m] # Absent =>
       \/ dir'[m] # Absent /\ Grows(dir[m], dir'[m])
       \/ <<m, dir[m]>> \in aside'

\* What was recorded of a run is never written over or deleted: the directory
\* only grows, until it is moved aside as it is.
EvidenceKept == [][KeepsEvidence]_vars

-----------------------------------------------------------------------------
(* The inductive invariant behind the properties above.                    *)

\* COMMIT.txt stays what it was when the job began, until the job is over.
CommitPinned ==
  pc # "idle" => commitFile = began /\ shipping = NoCommit

OutcomeFollowsPc ==
  /\ pc \notin {"idle", "trap"} => outcome = "none" \/ orphaned
  /\ pc = "trap" => outcome \in {"success", "failed", "terminated"}
  /\ orphaned => outcome = "killed" /\ pc \in {"idle", "cases", "running"}

\* The model being served has a directory of this job, in which only the cases
\* so far have left anything.
DirOfJob ==
  /\ pc \in {"fork", "startup", "copy", "cases", "running", "stop"} => model \in ModeEntries
  /\ pc \in {"fork", "startup", "copy", "cases", "running"} =>
       /\ dir[model] # Absent /\ ~dir[model].finished
       /\ dir[model].began = began
  /\ pc \in {"fork", "startup", "copy"} =>
       /\ dir[model].commit = NoCommit
       /\ \A k \in CaseSet : dir[model].results[k] = "none"
  /\ pc \in {"cases", "running"} =>
       /\ dir[model].commit = began
       /\ \A k \in CaseSet :
            /\ k < case => dir[model].results[k] = "ok"
            /\ k > case => dir[model].results[k] = "none"
  /\ pc = "cases" => \A k \in CaseSet : k = case => dir[model].results[k] = "none"
  /\ pc = "running" => case \in CaseSet /\ dir[model].results[case] = "running"

\* The models before the current one are finished at the job's commit.
EarlierFinished ==
  pc \notin {"idle", "trap"} =>
    /\ mode = "full" => model >= 1
    /\ \A m \in ModeEntries :
         (m < model \/ (m = model /\ pc = "stop")) => HasFinished(m) /\ dir[m].commit = began

\* While a job goes well only the server it has noted, or the one it just
\* started, is alive.
ServersTracked ==
  /\ pc \in {"check", "fork"} => server = 0
  /\ pc # "idle" /\ outcome \in {"none", "success", "failed"} =>
       \A l \in Launches : servers[l] = "alive" =>
         l = server \/ (pc = "fork" /\ l = Len(servers))

RInv ==
  /\ TypeOK
  /\ CommitPinned
  /\ OutcomeFollowsPc
  /\ DirOfJob
  /\ EarlierFinished
  /\ ServersTracked
  /\ FinishedIsWhole
  /\ SuccessIsOfThisCommit
  /\ NoServerLeft

-----------------------------------------------------------------------------
(* Statements of the source that the code does not keep.                   *)

\* `commit them so the pod runs a known commit': the scripts that produced a
\* finished run are those of the commit it records.
KnownCommit ==
  \A m \in Entries : HasFinished(m) => dir[m].scripts = dir[m].commit

\* `serve.sh and all its descendants share this dedicated process group':
\* run-all.sh stops them when it is terminated.
TerminatedStops ==
  pc = "idle" /\ outcome = "terminated" => \A l \in Launches : servers[l] # "alive"
=============================================================================
