------------------------------- MODULE Drivers -------------------------------
(* The two scripts that run cases through lib/case.sh: run.sh against a    *)
(* server started beforehand (RunCases), and boundary.sh, which starts and *)
(* stops its own (Boundary).  Which of them it is, driver says.            *)
EXTENDS RunCases, Boundary

VARIABLE driver

vars == <<driver, caseRunVars, driverVars, launchVars>>

Places ==
  {"idle", "probe", "loop", "case", "launch", "note", "startup", "models", "layout",
   "check", "stop", "look", "end"}

TypeOK ==
  /\ CaseTypeOK
  /\ driver \in {"run.sh", "boundary.sh"}
  /\ pc \in Places
  /\ entry \in Nat \ {0}
  /\ outcome \in {"none", "success", "failed", "terminated", "killed"}
  /\ finished \in BOOLEAN
  /\ runs \in Nat
  /\ launch \in DOMAIN Launches
  /\ server \in 0..Len(servers)
  /\ leaving \in BOOLEAN
  /\ layouts \in [DOMAIN Launches -> Layouts \union {<<>>}]
  /\ failed \subseteq DOMAIN Launches

Init ==
  /\ CaseInit
  /\ case = RunTable[1]
  /\ driver \in {"run.sh", "boundary.sh"}
  /\ servers = IF driver = "run.sh" THEN <<"alive">> ELSE <<>>
  /\ launch = 1 /\ server = 0 /\ leaving = FALSE
  /\ layouts = [l \in DOMAIN Launches |-> <<>>]
  /\ lines = {} /\ failed = {}

\* The steps of the scripts, in each of which they only wait for a command of
\* bounded time.
ScriptSteps ==
  /\ UNCHANGED driver
  /\ \/ CaseSteps /\ UNCHANGED <<driverVars, launchVars>>
     \/ driver = "run.sh" /\ RunSteps /\ UNCHANGED launchVars
     \/ driver = "boundary.sh" /\ BoundarySteps

\* What else may happen at any time.
Environment ==
  /\ UNCHANGED driver
  /\ \/ Around /\ UNCHANGED <<driverVars, launchVars>>
     \/ Killed /\ UNCHANGED launchVars
     \/ driver = "run.sh" /\ Probe /\ UNCHANGED launchVars
     \/ driver = "boundary.sh" /\ Terminate

Next == ScriptSteps \/ Environment

Spec == Init /\ [][Next]_vars

\* Nothing is assumed of the engine: its requests may never end.
FairSpec == Spec /\ WF_vars(ScriptSteps)

-----------------------------------------------------------------------------
(* Properties.                                                             *)

DirectoriesMade == {c \in Cases : evidence[c].made}

\* Every case was run to its end: none was killed before the EXIT trap wrote
\* status.txt.
AllRecorded ==
  \A c \in DirectoriesMade : (c = case /\ step # "none") \/ evidence[c].recorded

\* Whether the case counts: for the analysis, or as saved for run.sh.
Accepted(c) ==
  IF driver = "boundary.sh" THEN CaseProblem(evidence[c], c \in Warmups) = "none"
  ELSE evidence[c].recorded /\ Saved(evidence[c]) /\ evidence[c].start >= 0 /\ evidence[c].end >= 0

\* `the counters give a per-case delta': what a case that counts measured is
\* what its own requests suffered, although requests may outlive GuideLLM, the
\* deadline of the drain and a failed case.
DeltaIsOwn ==
  AllRecorded => \A c \in Cases : Accepted(c) => Delta(evidence[c]) = suffered[c]

\* Two servers are never alive together, nor is one left when boundary.sh ends
\* with finished-at.txt: a group that survives SIGKILL prevents the next launch
\* on every path to it.
LaunchesAlone ==
  driver = "boundary.sh" =>
    /\ \A l \in 1..Len(servers) : l < Len(servers) => servers[l] = "dead"
    /\ finished => \A l \in 1..Len(servers) : servers[l] = "dead"

HasLine(l, c, whats) == \E w \in whats : <<l, c, w>> \in lines

\* When boundary.sh has finished, the manifest says of every case that it was
\* ok, or why not, or why its launch stopped before it; and the exit status is
\* 0 exactly when all are ok.  Only a layout that was not read is not told.
ManifestAccounts ==
  driver = "boundary.sh" /\ finished =>
    /\ \A l \in DOMAIN Launches : \A k \in DOMAIN Launches[l] :
         \/ HasLine(l, Launches[l][k], {"ok", "failed", "drain-timeout"})
         \/ HasLine(l, 0, {"server-startup-failed", "server-not-responding", "layout-mismatch"})
         \/ \E j \in 1..(k - 1) : HasLine(l, Launches[l][j], {"drain-timeout"})
         \/ layouts[l] = <<>>
    /\ (outcome = "success") <=>
         \A l \in DOMAIN Launches : \A k \in DOMAIN Launches[l] : HasLine(l, Launches[l][k], {"ok"})

\* A boundary.sh that exits 0 leaves evidence in which the analysis can only
\* find fault with a snapshot that failed or with what GuideLLM and the sampler
\* measured: never with a launch's layout, a missing file, a status, the
\* requests, or a counter that was reset under way.
SuccessStandsReview ==
  driver = "boundary.sh" /\ finished /\ outcome = "success" =>
    \A p \in Analyze(Launches, Pools, Warmups, layouts, evidence) :
      /\ p[2] # 0
      /\ CaseProblem(evidence[p[2]], p[2] \in Warmups) \in {"duration", "lengths", "samples", "counter"}

\* run.sh writes finished-at.txt when every case has drained, unless it was
\* killed before it could say so, and has completed requests without an error,
\* whichever invocation ran it.
FinishedIsSaved ==
  driver = "run.sh" /\ finished =>
    \A k \in DOMAIN RunTable : LET e == evidence[RunTable[k]] IN
      e.made /\ e.end # Missing /\ Succeeds(e.report) /\ (e.recorded => e.drained)

\* metrics.sh does not outlive a case that wrote status.txt, but for one that a
\* signal ended between the fork of metrics.sh and metrics_pid=$!, of which
\* status.txt says 130 as GuideLLM has not been run.
SamplersStop ==
  \A c \in samplers :
    \/ c = case /\ step # "none"
    \/ ~evidence[c].recorded
    \/ evidence[c].exit = 130 /\ (c = case => ~noted)

\* What a case has recorded is never written again: not by another invocation
\* of run.sh, not by a later case, not by a GuideLLM that a signal left
\* running.  A sampler that SamplersStop excepts appends to metrics.jsonl, and
\* to the other files nobody does; 130 keeps such a case out of every result.
RecordedIsFinal ==
  [][\A c \in Cases : evidence[c].recorded =>
       \/ evidence'[c] = evidence[c]
       \/ /\ evidence[c].exit = 130 /\ evidence[c].report = NoReport
          /\ evidence'[c] = [evidence[c] EXCEPT !.samples = @ \union evidence'[c].samples]]_vars

\* `bounded so a stuck engine cannot hang the run': either script ends,
\* whatever the engine does, once run.sh has had its answer from the server.
DriversEnd == (pc \notin {"idle", "probe"}) ~> (pc = "idle")

-----------------------------------------------------------------------------
(* The inductive invariant behind TypeOK, LaunchesAlone, FinishedIsSaved,  *)
(* SamplersStop and RecordedIsFinal.                                       *)

AllDead == \A l \in 1..Len(servers) : servers[l] = "dead"

\* boundary.sh has seen the last server dead when it launches another.
StopsFirst ==
  driver = "boundary.sh" =>
    /\ \A l \in 1..Len(servers) : l < Len(servers) => servers[l] = "dead"
    /\ pc \in {"launch", "end"} \/ finished => AllDead
    /\ pc = "note" => Len(servers) # 0
    /\ pc \notin {"idle", "launch", "note", "end"} /\ ~leaving => server = Len(servers) /\ server # 0
    /\ leaving => pc \in {"idle", "stop", "look"}
    /\ finished => pc = "idle"
    /\ pc # "idle" \/ leaving \/ finished => runs # 0
    /\ runs = 0 => servers = <<>> /\ entry = 1

\* A call belongs to a script that waits for it or is dead.
CallsWaitedFor ==
  /\ pc # "idle" => runs # 0
  /\ step # "none" => pc \in {"case", "idle"} /\ runs # 0 /\ ~returned0
  /\ step # "none" => evidence[case].made /\ ~evidence[case].recorded
  /\ step \in Steps \ {"none", "exit"} => evidence[case].end = Missing
  /\ step = "exit" => evidence[case].end # Missing

\* Nothing is in a case's directory, or writes to it, before its call, and its
\* GuideLLM does not outlive a status.txt.
NothingEarly ==
  /\ \A c \in Cases : ~evidence[c].made =>
       /\ ~evidence[c].recorded /\ evidence[c].end = Missing /\ evidence[c].report = NoReport
       /\ c \notin loads \union samplers
  /\ \A c \in loads :
       /\ ~evidence[c].recorded /\ evidence[c].end = Missing
       /\ c = case => step \in {"none", "loading"}

\* boundary.sh calls each case once.
BeforeCase == {"launch", "note", "startup", "models", "layout", "check", "loop"}
FreshAhead ==
  driver = "boundary.sh" =>
    \A l \in DOMAIN Launches : \A k \in DOMAIN Launches[l] :
      \/ l > launch
      \/ l = launch /\ k > entry
      \/ l = launch /\ k = entry /\ (runs = 0 \/ pc \in BeforeCase)
      => ~evidence[Launches[l][k]].made

\* The EXIT trap stops the sampler once $metrics_pid is set, and what it says
\* before GuideLLM has run is 130.
SamplersKnown ==
  /\ \A c \in samplers : evidence[c].recorded =>
       evidence[c].exit = 130 /\ evidence[c].report = NoReport /\ (c = case => ~noted)
  /\ step \in {"made", "start", "fork", "note"} => ~noted /\ evidence[case].report = NoReport
  /\ step \in {"made", "start", "fork", "note"} => status = 130
  /\ step \in {"load", "loading", "drain", "stop"} => noted
  /\ step \in {"end", "exit"} => case \notin samplers

IsSaved(e) == e.made /\ e.end # Missing /\ Succeeds(e.report) /\ (e.recorded => e.drained)

\* run.sh is past a case only when it is saved.
SavedSoFar ==
  driver = "run.sh" =>
    /\ finished => step = "none" /\ pc # "case" /\ \A k \in DOMAIN RunTable : IsSaved(evidence[RunTable[k]])
    /\ pc = "probe" => entry = 1
    /\ pc \in {"loop", "case"} =>
         \A k \in DOMAIN RunTable : k < entry => IsSaved(evidence[RunTable[k]])
    /\ pc = "case" => entry \in DOMAIN RunTable /\ case = RunTable[entry]
    /\ pc = "case" /\ returned0 => IsSaved(evidence[case])

DInv ==
  /\ TypeOK
  /\ StopsFirst
  /\ CallsWaitedFor /\ NothingEarly /\ FreshAhead
  /\ SamplersKnown
  /\ SavedSoFar
=============================================================================
