------------------------------ MODULE Boundary ------------------------------
(* boundary.sh: two launches of the same model with different KV pools,    *)
(* each with a check of the engine's layout, its cases, and a stop of the  *)
(* server's process group that looks whether it worked; the manifest says  *)
(* what became of each.  One invocation has one experiment directory.      *)
EXTENDS CaseRun

CONSTANTS
  Launches,  \* the case table of each launch
  Pools,     \* the KV_CACHE_BYTES of each
  Layouts    \* layout snapshots an engine may answer with

ASSUME LaunchesAssumption ==
  /\ Launches \in Seq(Seq(Cases) \ {<<>>}) /\ Launches # <<>>
  /\ \A l, m \in DOMAIN Launches : \A i \in DOMAIN Launches[l], j \in DOMAIN Launches[m] :
       Launches[l][i] = Launches[m][j] => l = m /\ i = j
  /\ Pools \in [DOMAIN Launches -> Nat]
  /\ Layouts \subseteq Seq(Fields)

VARIABLES
  launch,    \* which run_launch it is in
  server,    \* $server_pid, as the number of the launch, or 0
  leaving,   \* stop_server runs for the EXIT trap
  layouts,   \* layout.txt of each launch; empty when there is none
  lines,     \* status lines of the manifest: launch, case or 0, status
  failed     \* launches whose run_launch returned 1

launchVars == <<launch, server, leaving, layouts, lines, failed>>

-----------------------------------------------------------------------------
Table == Launches[launch]
Says(c, what) == lines' = lines \union {<<launch, c, what>>}

CasesUnchanged == UNCHANGED <<callVars, evidence, samplers, loads>>
EngineUnchanged == UNCHANGED engineVars
RestUnchanged == UNCHANGED <<finished, runs>> /\ CasesUnchanged

\* run_launch gives up: it stops the server and returns 1.
GiveUp == failed' = failed \union {launch} /\ Goto("stop")

Begin ==
  /\ pc = "idle" /\ runs = 0
  /\ runs' = 1 /\ entry' = 1
  /\ pc' = "launch" /\ outcome' = "none"
  /\ UNCHANGED <<finished, launchVars, caseRunVars>>

\* setsid bash serve.sh ... &
ForkServer ==
  /\ pc = "launch"
  /\ servers' = Append(servers, "alive")
  /\ requests' = {} /\ preemptions' = 0
  /\ Goto("note")
  /\ UNCHANGED <<entry, launchVars, suffered, faults>> /\ RestUnchanged

\* server_pid=$!
NoteServer ==
  /\ pc = "note"
  /\ server' = Len(servers)
  /\ Goto("startup")
  /\ UNCHANGED <<entry, launch, leaving, layouts, lines, failed, faults>> /\ EngineUnchanged /\ RestUnchanged

StartupSucceeds ==
  /\ pc = "startup" /\ Up
  /\ Goto("models")
  /\ UNCHANGED <<entry, launchVars, faults>> /\ EngineUnchanged /\ RestUnchanged

StartupFails ==
  /\ pc = "startup"
  /\ Charge(Up)
  /\ Says(0, "server-startup-failed") /\ GiveUp
  /\ UNCHANGED <<entry, launch, server, leaving, layouts>> /\ EngineUnchanged /\ RestUnchanged

Responds ==
  /\ pc = "models" /\ Up
  /\ Goto("layout")
  /\ UNCHANGED <<entry, launchVars, faults>> /\ EngineUnchanged /\ RestUnchanged

DoesNotRespond ==
  /\ pc = "models"
  /\ Charge(Up)
  /\ Says(0, "server-not-responding") /\ GiveUp
  /\ UNCHANGED <<entry, launch, server, leaving, layouts>> /\ EngineUnchanged /\ RestUnchanged

SnapLayout ==
  /\ pc = "layout" /\ Up
  /\ \E y \in Layouts :
       /\ Charge(~CheckLayout(y, Pools[launch]))
       /\ layouts' = [layouts EXCEPT ![launch] = y]
  /\ Goto("check")
  /\ UNCHANGED <<entry, launch, server, leaving, lines, failed>> /\ EngineUnchanged /\ RestUnchanged

\* The manifest is not told.
LayoutUnread ==
  /\ pc = "layout"
  /\ Charge(Up)
  /\ GiveUp
  /\ UNCHANGED <<entry, launch, server, leaving, layouts, lines>> /\ EngineUnchanged /\ RestUnchanged

JudgeLayout ==
  /\ pc = "check"
  /\ IF CheckLayout(layouts[launch], Pools[launch])
     THEN Goto("loop") /\ UNCHANGED <<lines, failed>>
     ELSE Says(0, "layout-mismatch") /\ GiveUp
  /\ UNCHANGED <<entry, launch, server, leaving, layouts, faults>> /\ EngineUnchanged /\ RestUnchanged

CallNext ==
  /\ pc = "loop" /\ entry <= Len(Table)
  /\ Call(Table[entry])
  /\ Goto("case")
  /\ UNCHANGED <<entry, finished, runs, launchVars>>

CaseOk ==
  /\ pc = "case" /\ step = "none" /\ returned0
  /\ Says(Table[entry], "ok")
  /\ entry' = entry + 1 /\ Goto("loop")
  /\ UNCHANGED <<launch, server, leaving, layouts, failed, faults>> /\ EngineUnchanged /\ RestUnchanged

CaseNotDrained ==
  /\ pc = "case" /\ step = "none" /\ ~returned0
  /\ Undrained(evidence[Table[entry]])
  /\ Says(Table[entry], "drain-timeout") /\ GiveUp
  /\ UNCHANGED <<entry, launch, server, leaving, layouts, faults>> /\ EngineUnchanged /\ RestUnchanged

\* Mutant of CaseFailed: overall_status is not set.
CaseFailedQuietly ==
  /\ pc = "case" /\ step = "none" /\ ~returned0
  /\ ~Undrained(evidence[Table[entry]])
  /\ Says(Table[entry], "failed")
  /\ entry' = entry + 1 /\ Goto("loop")
  /\ UNCHANGED <<launch, server, leaving, layouts, failed, faults>> /\ EngineUnchanged /\ RestUnchanged

CaseFailed ==
  /\ pc = "case" /\ step = "none" /\ ~returned0
  /\ ~Undrained(evidence[Table[entry]])
  /\ Says(Table[entry], "failed") /\ failed' = failed \union {launch}
  /\ entry' = entry + 1 /\ Goto("loop")
  /\ UNCHANGED <<launch, server, leaving, layouts, faults>> /\ EngineUnchanged /\ RestUnchanged

CasesDone ==
  /\ pc = "loop" /\ entry > Len(Table)
  /\ Goto("stop")
  /\ UNCHANGED <<entry, launchVars, faults>> /\ EngineUnchanged /\ RestUnchanged

-----------------------------------------------------------------------------
(* stop_server                                                             *)

\* Mutant of Stopped: there is always a next launch.
StoppedForNext ==
  /\ server' = 0
  /\ UNCHANGED outcome
  /\ IF leaving THEN pc' = "idle" /\ UNCHANGED <<launch, entry>>
     ELSE pc' = "launch" /\ launch' = launch + 1 /\ entry' = 1
  /\ UNCHANGED <<leaving, layouts, lines, failed, faults>> /\ RestUnchanged

\* It returns: the script exits, or goes on with the next launch.
Stopped ==
  /\ server' = 0
  /\ UNCHANGED outcome
  /\ IF leaving THEN pc' = "idle" /\ UNCHANGED <<launch, entry>>
     ELSE IF launch = Len(Launches) THEN pc' = "end" /\ UNCHANGED <<launch, entry>>
     ELSE pc' = "launch" /\ launch' = launch + 1 /\ entry' = 1
  /\ UNCHANGED <<leaving, layouts, lines, failed, faults>> /\ RestUnchanged

NothingToStop ==
  /\ pc = "stop" /\ server = 0
  /\ Stopped /\ EngineUnchanged

\* SIGTERM, and after two minutes SIGKILL, to the whole group.
KillServer ==
  /\ pc = "stop" /\ server # 0
  /\ servers' = [servers EXCEPT ![server] = IF @ = "alive" THEN "dying" ELSE @]
  /\ Goto("look")
  /\ UNCHANGED <<entry, launchVars, requests, preemptions, suffered, faults>> /\ RestUnchanged

\* Mutant of LookStopped: stop_server does not look, as in run-all.sh.
LookAway ==
  /\ pc = "look"
  /\ Stopped /\ EngineUnchanged

LookStopped ==
  /\ pc = "look" /\ servers[server] = "dead"
  /\ Stopped /\ EngineUnchanged

\* `refusing another launch': trap - EXIT; exit 1
LookRefuses ==
  /\ pc = "look" /\ servers[server] # "dead"
  /\ Ends("failed")
  /\ UNCHANGED <<entry, launchVars, faults>> /\ EngineUnchanged /\ RestUnchanged

End ==
  /\ pc = "end"
  /\ finished' = TRUE
  /\ Ends(IF failed = {} THEN "success" ELSE "failed")
  /\ UNCHANGED <<entry, runs, launchVars, faults>> /\ EngineUnchanged /\ CasesUnchanged

\* INT or TERM, acted on when no case is running: exit runs the EXIT trap, and
\* ends that too if it comes again.
Terminate ==
  /\ pc # "idle" /\ ~(pc = "case" /\ step # "none")
  /\ Charge(TRUE)
  /\ leaving' = TRUE /\ outcome' = "terminated"
  /\ pc' = IF leaving THEN "idle" ELSE "stop"
  /\ UNCHANGED <<entry, launch, server, layouts, lines, failed>> /\ EngineUnchanged /\ RestUnchanged

BoundarySteps ==
  \/ Begin \/ ForkServer \/ NoteServer \/ StartupSucceeds \/ StartupFails
  \/ Responds \/ DoesNotRespond \/ SnapLayout \/ LayoutUnread \/ JudgeLayout
  \/ CallNext \/ CaseOk \/ CaseNotDrained \/ CaseFailed \/ CasesDone
  \/ NothingToStop \/ KillServer \/ LookStopped \/ LookRefuses \/ End
=============================================================================
