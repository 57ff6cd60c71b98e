------------------------------ MODULE PodJobs ------------------------------
(***************************************************************************)
(* The remote job control of validation/pod.sh: run_on_pod and on_pod on   *)
(* the operator's machine, the bash sessions they open on the rented pod   *)
(* over SSH, and the detached job those sessions start.                    *)
(*                                                                         *)
(* A client is one invocation of `pod.sh smoke|run|boundary`.  Every       *)
(* session takes control.lock (fd 9) before its first command and holds it *)
(* until its bash exits; a start session then tries gpu.lock (fd 8), which *)
(* the job it launches inherits.  Both are flocks, so who holds them       *)
(* follows from which processes are alive: neither lock is a variable.     *)
(* Sessions of `ship', `setup' and `fetch' only make a session wait longer *)
(* for control.lock and are left to the modules about those subcommands.   *)
(*                                                                         *)
(* Between two commands of a session the job goes on, the connection may   *)
(* drop and the pod may reboot, so each command that touches shared state  *)
(* is an action.                                                           *)
(***************************************************************************)
EXTENDS Integers, FiniteSets, Sequences

CONSTANTS
  Clients,       \* invocations of pod.sh
  Modes,         \* job kinds: smoke, full, boundary
  NoMode,        \* jobs/active-mode does not exist yet
  MaxJobs,       \* bound: jobs launched in a behaviour
  MaxLines,      \* bound: lines a job writes to jobs/<mode>.log
  MaxReboots,    \* bound: reboots of the pod
  FailureLimit   \* consecutive failed polls before a client gives up (5)

\* A client launches at most one job, so MaxJobs never keeps one waiting.
ASSUME BoundsAssumption ==
  /\ IsFiniteSet(Clients)
  /\ MaxJobs \in Nat /\ Cardinality(Clients) <= MaxJobs
  /\ MaxLines \in Nat /\ MaxReboots \in Nat
  /\ FailureLimit \in Nat \ {0}
  /\ NoMode \notin Modes

Jobs == 1..MaxJobs
NoJob == 0

\* What a client's terminal shows: lines of jobs' logs.
Output == Seq(Jobs \X Nat)

\* The first n lines of a job's log.
Log(j, n) == [i \in 1..n |-> <<j, i>>]

VARIABLES
  \* The client, on the operator's machine.
  pc,          \* where run_on_pod is
  mode,        \* $mode
  failures,    \* $failures
  shown,       \* $shown, the log lines already printed
  result,      \* what run_on_pod told the operator
  \* The client's SSH session on the pod.
  remote,      \* the next command of the session
  status,      \* $status of a poll session
  \* Files under jobs/.
  activeMode,  \* active-mode
  exitFile,    \* <mode>.exit
  pidFile,     \* <mode>.pid, as the job whose wrapper it names
  logOf,       \* <mode>.log, as the job writing it
  \* Jobs, numbered in launch order.
  started,     \* how many were launched
  phase,       \* the wrapper `bash -c', the process <mode>.pid names
  code,        \* exit status of the orchestrator the wrapper ran
  jobMode,     \* $1 of the wrapper
  lines,       \* log lines written
  leftover,    \* descendants outlive the orchestrator or the wrapper
  reaped,      \* the pod's init has collected the dead wrapper
  reboots,
  \* History, read by properties only.
  printed,     \* the log lines the client printed, as <<job, line>>
  follows,     \* the job the client launched or reattached to
  verdictOf    \* the job whose exit file the client's verdict came from

clientVars == <<pc, mode, failures, shown, result, printed, follows, verdictOf>>
sessionVars == <<remote, status>>
fileVars == <<activeMode, exitFile, pidFile, logOf>>
jobVars == <<started, phase, code, jobMode, lines, leftover, reaped>>
vars == <<clientVars, sessionVars, fileVars, jobVars, reboots>>

-----------------------------------------------------------------------------
StartSteps == {"startLock", "tryGpu", "busy", "setMode", "rmExit", "launch", "writePid"}
PollSteps == {"pollLock", "pollExit", "pollAlive", "pollRecheck", "pollCat", "pollTail"}
InControl == (StartSteps \union PollSteps) \ {"startLock", "pollLock"}
InGpu == {"setMode", "rmExit", "launch", "writePid"}
WrapperRuns == {"running", "exiting", "creating", "recorded"}
Results == {"none", "success", "failed", "lost", "refused", "disconnected"}

TypeOK ==
  /\ pc \in [Clients -> {"idle", "starting", "polling", "sleeping", "done"}]
  /\ mode \in [Clients -> Modes \union {NoMode}]
  /\ failures \in [Clients -> 0..FailureLimit]
  /\ \A c \in Clients : pc[c] # "done" => failures[c] < FailureLimit
  /\ shown \in [Clients -> Nat]
  /\ printed \in [Clients -> Output]
  /\ result \in [Clients -> Results]
  /\ follows \in [Clients -> Jobs \union {NoJob}]
  /\ verdictOf \in [Clients -> Jobs \union {NoJob}]
  /\ remote \in [Clients -> StartSteps \union PollSteps \union {"none"}]
  /\ status \in [Clients -> {"none", "running", "lost", "empty", "ok", "fail"}]
  /\ activeMode \in Modes \union {NoMode}
  /\ exitFile \in [Modes -> {"absent", "empty", "ok", "fail"}]
  /\ pidFile \in [Modes -> Jobs \union {NoJob}]
  /\ logOf \in [Modes -> Jobs \union {NoJob}]
  /\ started \in 0..MaxJobs
  /\ phase \in [Jobs -> WrapperRuns \union {"unborn", "ended", "killed"}]
  /\ code \in [Jobs -> {"none", "ok", "fail"}]
  /\ jobMode \in [Jobs -> Modes \union {NoMode}]
  /\ lines \in [Jobs -> Nat]
  /\ leftover \in [Jobs -> BOOLEAN]
  /\ reaped \in [Jobs -> BOOLEAN]
  /\ reboots \in 0..MaxReboots

Init ==
  /\ pc = [c \in Clients |-> "idle"]
  /\ mode = [c \in Clients |-> NoMode]
  /\ failures = [c \in Clients |-> 0]
  /\ shown = [c \in Clients |-> 0]
  /\ result = [c \in Clients |-> "none"]
  /\ printed = [c \in Clients |-> <<>>]
  /\ follows = [c \in Clients |-> NoJob]
  /\ verdictOf = [c \in Clients |-> NoJob]
  /\ remote = [c \in Clients |-> "none"]
  /\ status = [c \in Clients |-> "none"]
  /\ activeMode = NoMode
  /\ exitFile = [m \in Modes |-> "absent"]
  /\ pidFile = [m \in Modes |-> NoJob]
  /\ logOf = [m \in Modes |-> NoJob]
  /\ started = 0
  /\ phase = [j \in Jobs |-> "unborn"]
  /\ code = [j \in Jobs |-> "none"]
  /\ jobMode = [j \in Jobs |-> NoMode]
  /\ lines = [j \in Jobs |-> 0]
  /\ leftover = [j \in Jobs |-> FALSE]
  /\ reaped = [j \in Jobs |-> FALSE]
  /\ reboots = 0

-----------------------------------------------------------------------------
(* The two locks.                                                          *)

\* Mutant of HoldsGpu: the wrapper closes fd 8 when the orchestrator returns.
HoldsGpuUntilFinish(j) == phase[j] = "running" \/ leftover[j]

\* A job's processes keep the gpu.lock descriptor they inherited.
HoldsGpu(j) == phase[j] \in WrapperRuns \/ leftover[j]

\* Mutant of ControlFree: the launch lacks 9>&-, so the job keeps the lock.
ControlFreeOfJobs ==
  /\ \A c \in Clients : remote[c] \notin InControl
  /\ \A j \in Jobs : ~HoldsGpu(j)

ControlFree == \A c \in Clients : remote[c] \notin InControl

\* Mutant of GpuFree: the launch closes fd 8 too, so a job holds nothing.
GpuFreeOfJobs == \A c \in Clients : remote[c] \notin InGpu

GpuFree ==
  /\ \A c \in Clients : remote[c] \notin InGpu
  /\ \A j \in Jobs : ~HoldsGpu(j)

\* `kill -0' succeeds on a zombie too.
PidAnswers(j) ==
  /\ j # NoJob
  /\ \/ phase[j] \in WrapperRuns
     \/ phase[j] \in {"ended", "killed"} /\ ~reaped[j]

\* The number of a process that is gone, after a reboot above all, may have
\* been given to another, which answers for it.
PidReused(j) == j # NoJob /\ reaped[j]

-----------------------------------------------------------------------------
(* The client.                                                             *)

Invoke(c, m) ==
  /\ pc[c] = "idle"
  /\ pc' = [pc EXCEPT ![c] = "starting"]
  /\ mode' = [mode EXCEPT ![c] = m]
  /\ remote' = [remote EXCEPT ![c] = "startLock"]
  /\ UNCHANGED <<failures, shown, printed, result, follows, verdictOf, status, fileVars, jobVars, reboots>>

\* The end of `sleep $POLL_INTERVAL'.
OpenPoll(c) ==
  /\ pc[c] = "sleeping"
  /\ pc' = [pc EXCEPT ![c] = "polling"]
  /\ remote' = [remote EXCEPT ![c] = "pollLock"]
  /\ UNCHANGED <<mode, failures, shown, printed, result, follows, verdictOf, status, fileVars, jobVars, reboots>>

\* run_on_pod returns r to its caller.
Return(c, r) ==
  /\ pc' = [pc EXCEPT ![c] = "done"]
  /\ result' = [result EXCEPT ![c] = r]

\* Mutant of Disconnect: `> 5' instead of `>= 5'.
DisconnectLate(C) ==
  LET givesUp(c) == pc[c] = "starting" \/ failures[c] >= FailureLimit
  IN /\ failures' = [c \in Clients |->
                       IF c \in C /\ pc[c] = "polling" THEN failures[c] + 1 ELSE failures[c]]
     /\ pc' = [c \in Clients |->
                 IF c \notin C THEN pc[c] ELSE IF givesUp(c) THEN "done" ELSE "sleeping"]
     /\ result' = [c \in Clients |->
                     IF c \in C /\ givesUp(c) THEN "disconnected" ELSE result[c]]

\* What a failed on_pod does to the clients in C.
Disconnect(C) ==
  LET givesUp(c) == pc[c] = "starting" \/ failures[c] + 1 >= FailureLimit
  IN /\ failures' = [c \in Clients |->
                       IF c \in C /\ pc[c] = "polling" THEN failures[c] + 1 ELSE failures[c]]
     /\ pc' = [c \in Clients |->
                 IF c \notin C THEN pc[c] ELSE IF givesUp(c) THEN "done" ELSE "sleeping"]
     /\ result' = [c \in Clients |->
                     IF c \in C /\ givesUp(c) THEN "disconnected" ELSE result[c]]

\* ssh fails under the client.  A start session that is past the connection
\* goes on without it; a poll session only reads, so it is dropped.
SshLost(c) ==
  /\ pc[c] \in {"starting", "polling"}
  /\ Disconnect({c})
  /\ \/ pc[c] = "starting" /\ UNCHANGED remote
     \/ remote[c] \in PollSteps \union {"startLock"} /\ remote' = [remote EXCEPT ![c] = "none"]
  /\ status' = [status EXCEPT ![c] = "none"]
  /\ UNCHANGED <<mode, shown, printed, follows, verdictOf, fileVars, jobVars, reboots>>

-----------------------------------------------------------------------------
(* A start session: the first here-document of run_on_pod.                 *)

TakeControl(c) ==
  /\ remote[c] \in {"startLock", "pollLock"}
  /\ ControlFree
  /\ remote' = [remote EXCEPT ![c] = IF @ = "startLock" THEN "tryGpu" ELSE "pollExit"]
  /\ UNCHANGED <<clientVars, status, fileVars, jobVars, reboots>>

TryGpu(c) ==
  /\ remote[c] = "tryGpu"
  /\ remote' = [remote EXCEPT ![c] = IF GpuFree THEN "setMode" ELSE "busy"]
  /\ UNCHANGED <<clientVars, status, fileVars, jobVars, reboots>>

\* The session ends with success: the client, if it still listens, polls.
StartSucceeds(c, j) ==
  /\ remote' = [remote EXCEPT ![c] = "none"]
  /\ IF pc[c] = "starting"
     THEN pc' = [pc EXCEPT ![c] = "sleeping"] /\ follows' = [follows EXCEPT ![c] = j]
     ELSE UNCHANGED <<pc, follows>>
  /\ UNCHANGED result

StartFails(c) ==
  /\ remote' = [remote EXCEPT ![c] = "none"]
  /\ IF pc[c] = "starting" THEN Return(c, "refused") ELSE UNCHANGED <<pc, result>>
  /\ UNCHANGED follows

\* gpu.lock is taken: reattach to a job of this mode that has not recorded its
\* exit, refuse otherwise.
Busy(c) ==
  /\ remote[c] = "busy"
  /\ IF activeMode = mode[c] /\ exitFile[mode[c]] = "absent"
     THEN StartSucceeds(c, logOf[mode[c]])
     ELSE StartFails(c)
  /\ UNCHANGED <<mode, failures, shown, printed, verdictOf, status, fileVars, jobVars, reboots>>

SetMode(c) ==
  /\ remote[c] = "setMode"
  /\ activeMode' = mode[c]
  /\ remote' = [remote EXCEPT ![c] = "rmExit"]
  /\ UNCHANGED <<clientVars, status, exitFile, pidFile, logOf, jobVars, reboots>>

\* Mutant of RmExit: the last job's exit file stays.
RmExitSkipped(c) ==
  /\ remote[c] = "rmExit"
  /\ remote' = [remote EXCEPT ![c] = "launch"]
  /\ UNCHANGED <<clientVars, status, fileVars, jobVars, reboots>>

RmExit(c) ==
  /\ remote[c] = "rmExit"
  /\ exitFile' = [exitFile EXCEPT ![mode[c]] = "absent"]
  /\ remote' = [remote EXCEPT ![c] = "launch"]
  /\ UNCHANGED <<clientVars, status, activeMode, pidFile, logOf, jobVars, reboots>>

\* nohup setsid bash -c ... > jobs/<mode>.log 9>&- &
Launch(c) ==
  /\ remote[c] = "launch"
  /\ started < MaxJobs
  /\ LET j == started + 1
     IN /\ started' = j
        /\ phase' = [phase EXCEPT ![j] = "running"]
        /\ jobMode' = [jobMode EXCEPT ![j] = mode[c]]
        /\ logOf' = [logOf EXCEPT ![mode[c]] = j]
  /\ remote' = [remote EXCEPT ![c] = "writePid"]
  /\ UNCHANGED <<clientVars, status, activeMode, exitFile, pidFile, code, lines, leftover, reaped, reboots>>

\* echo $! > jobs/<mode>.pid: $! is the job this session just launched.
WritePid(c) ==
  /\ remote[c] = "writePid"
  /\ pidFile' = [pidFile EXCEPT ![mode[c]] = started]
  /\ StartSucceeds(c, started)
  /\ UNCHANGED <<mode, failures, shown, printed, verdictOf, status, activeMode, exitFile, logOf, jobVars, reboots>>

-----------------------------------------------------------------------------
(* A poll session: the second here-document of run_on_pod.                 *)

PollGoto(c, step, s) ==
  /\ remote' = [remote EXCEPT ![c] = step]
  /\ status' = [status EXCEPT ![c] = s]

\* Mutant of PollExit: liveness is checked before the exit file.
PollAliveFirst(c) ==
  /\ remote[c] = "pollExit"
  /\ PollGoto(c, "pollAlive", "none")
  /\ UNCHANGED <<clientVars, fileVars, jobVars, reboots>>

PollExit(c) ==
  /\ remote[c] = "pollExit"
  /\ PollGoto(c, IF exitFile[mode[c]] # "absent" THEN "pollCat" ELSE "pollAlive", "none")
  /\ UNCHANGED <<clientVars, fileVars, jobVars, reboots>>

PollAlive(c) ==
  /\ remote[c] = "pollAlive"
  /\ \/ /\ PidAnswers(pidFile[mode[c]]) \/ PidReused(pidFile[mode[c]])
        /\ PollGoto(c, "pollTail", "running")
     \/ /\ ~PidAnswers(pidFile[mode[c]])
        /\ PollGoto(c, "pollRecheck", "none")
  /\ UNCHANGED <<clientVars, fileVars, jobVars, reboots>>

\* Mutant of PollRecheck: no second look at the exit file.
PollNoRecheck(c) ==
  /\ remote[c] = "pollRecheck"
  /\ PollGoto(c, "pollTail", "lost")
  /\ UNCHANGED <<clientVars, fileVars, jobVars, reboots>>

PollRecheck(c) ==
  /\ remote[c] = "pollRecheck"
  /\ IF exitFile[mode[c]] # "absent"
     THEN PollGoto(c, "pollCat", "none")
     ELSE PollGoto(c, "pollTail", "lost")
  /\ UNCHANGED <<clientVars, fileVars, jobVars, reboots>>

\* status="exit $(cat <mode>.exit)"
PollCat(c) ==
  /\ remote[c] = "pollCat"
  /\ PollGoto(c, "pollTail", exitFile[mode[c]])
  /\ verdictOf' = [verdictOf EXCEPT ![c] = logOf[mode[c]]]
  /\ UNCHANGED <<pc, mode, failures, shown, printed, result, follows, fileVars, jobVars, reboots>>

\* The lines from $shown + 1 on of the log as it is now.
NewLines(c) ==
  LET job == logOf[mode[c]]
      written == IF job = NoJob THEN 0 ELSE lines[job]
  IN [i \in 1..(written - shown[c]) |-> <<job, shown[c] + i>>]

PrintNew(c) ==
  /\ shown' = [shown EXCEPT ![c] = @ + Len(NewLines(c))]
  /\ printed' = [printed EXCEPT ![c] = @ \o NewLines(c)]

\* The client acts on the status line.
Act(c) ==
  CASE status[c] = "running" -> pc' = [pc EXCEPT ![c] = "sleeping"] /\ UNCHANGED result
    [] status[c] = "ok" -> Return(c, "success")
    [] status[c] = "lost" -> Return(c, "lost")
    [] OTHER -> Return(c, "failed")

\* Mutant of PollTail: the client returns on an exit before it prints.
PollTailReturnsFirst(c) ==
  /\ remote[c] = "pollTail"
  /\ PollGoto(c, "none", "none")
  /\ failures' = [failures EXCEPT ![c] = 0]
  /\ IF status[c] = "running" THEN PrintNew(c) ELSE UNCHANGED <<shown, printed>>
  /\ Act(c)
  /\ UNCHANGED <<mode, follows, verdictOf, fileVars, jobVars, reboots>>

\* tail prints what is new in the log and the session ends.  What a session
\* whose connection fails has sent is thrown away with it.
PollTail(c) ==
  /\ remote[c] = "pollTail"
  /\ PollGoto(c, "none", "none")
  /\ failures' = [failures EXCEPT ![c] = 0]
  /\ PrintNew(c)
  /\ Act(c)
  /\ UNCHANGED <<mode, follows, verdictOf, fileVars, jobVars, reboots>>

-----------------------------------------------------------------------------
(* The job: the wrapper `bash -c', the orchestrator it runs and the        *)
(* processes the orchestrator leaves behind.                               *)

Write(j) ==
  /\ phase[j] = "running"
  /\ lines[j] < MaxLines
  /\ lines' = [lines EXCEPT ![j] = @ + 1]
  /\ UNCHANGED <<clientVars, sessionVars, fileVars, started, phase, code, jobMode, leftover, reaped, reboots>>

\* boundary.sh or run-all.sh exits, perhaps leaving a server that did not stop.
Finish(j) ==
  /\ phase[j] = "running"
  /\ \E r \in {"ok", "fail"} : code' = [code EXCEPT ![j] = r]
  /\ \E b \in BOOLEAN : leftover' = [leftover EXCEPT ![j] = b]
  /\ phase' = [phase EXCEPT ![j] = "exiting"]
  /\ UNCHANGED <<clientVars, sessionVars, fileVars, started, jobMode, lines, reaped, reboots>>

\* echo $? > jobs/<mode>.exit: the redirection creates the file, echo fills it.
CreateExit(j) ==
  /\ phase[j] = "exiting"
  /\ exitFile' = [exitFile EXCEPT ![jobMode[j]] = "empty"]
  /\ phase' = [phase EXCEPT ![j] = "creating"]
  /\ UNCHANGED <<clientVars, sessionVars, activeMode, pidFile, logOf, started, code, jobMode, lines, leftover, reaped, reboots>>

WriteExit(j) ==
  /\ phase[j] = "creating"
  /\ exitFile' = [exitFile EXCEPT ![jobMode[j]] = code[j]]
  /\ phase' = [phase EXCEPT ![j] = "recorded"]
  /\ UNCHANGED <<clientVars, sessionVars, activeMode, pidFile, logOf, started, code, jobMode, lines, leftover, reaped, reboots>>

WrapperExits(j) ==
  /\ phase[j] = "recorded"
  /\ phase' = [phase EXCEPT ![j] = "ended"]
  /\ UNCHANGED <<clientVars, sessionVars, fileVars, started, code, jobMode, lines, leftover, reaped, reboots>>

\* The wrapper dies without recording an exit, its descendants perhaps not.
KillWrapper(j) ==
  /\ phase[j] \in {"running", "exiting", "creating"}
  /\ phase' = [phase EXCEPT ![j] = "killed"]
  /\ \E b \in BOOLEAN : leftover' = [leftover EXCEPT ![j] = b]
  /\ UNCHANGED <<clientVars, sessionVars, fileVars, started, code, jobMode, lines, reaped, reboots>>

LeftoverDies(j) ==
  /\ leftover[j]
  /\ leftover' = [leftover EXCEPT ![j] = FALSE]
  /\ UNCHANGED <<clientVars, sessionVars, fileVars, started, phase, code, jobMode, lines, reaped, reboots>>

Reap(j) ==
  /\ phase[j] \in {"ended", "killed"}
  /\ ~reaped[j]
  /\ reaped' = [reaped EXCEPT ![j] = TRUE]
  /\ UNCHANGED <<clientVars, sessionVars, fileVars, started, phase, code, jobMode, lines, leftover, reboots>>

\* Every process on the pod dies, the files stay, every open ssh fails.
Reboot ==
  /\ reboots < MaxReboots
  /\ reboots' = reboots + 1
  /\ Disconnect({c \in Clients : pc[c] \in {"starting", "polling"}})
  /\ remote' = [c \in Clients |-> "none"]
  /\ status' = [c \in Clients |-> "none"]
  /\ phase' = [j \in Jobs |-> CASE phase[j] = "unborn" -> "unborn"
                                [] phase[j] \in {"recorded", "ended"} -> "ended"
                                [] OTHER -> "killed"]
  /\ leftover' = [j \in Jobs |-> FALSE]
  /\ reaped' = [j \in Jobs |-> phase[j] # "unborn"]
  /\ UNCHANGED <<mode, shown, printed, follows, verdictOf, fileVars, started, code, jobMode, lines>>

-----------------------------------------------------------------------------
Session(c) ==
  \/ TakeControl(c)
  \/ TryGpu(c) \/ Busy(c) \/ SetMode(c) \/ RmExit(c) \/ Launch(c) \/ WritePid(c)
  \/ PollExit(c) \/ PollAlive(c) \/ PollRecheck(c) \/ PollCat(c) \/ PollTail(c)

Wrapper(j) == Finish(j) \/ CreateExit(j) \/ WriteExit(j) \/ WrapperExits(j)

\* Every client has returned and nothing is left running on the pod.
AllDone ==
  /\ \A c \in Clients : pc[c] = "done" /\ remote[c] = "none"
  /\ \A j \in Jobs : phase[j] \in {"unborn", "ended", "killed"}
  /\ UNCHANGED vars

Next ==
  \/ \E c \in Clients, m \in Modes : Invoke(c, m)
  \/ \E c \in Clients : OpenPoll(c) \/ SshLost(c) \/ Session(c)
  \/ \E j \in Jobs : Write(j) \/ Wrapper(j) \/ KillWrapper(j) \/ LeftoverDies(j) \/ Reap(j)
  \/ Reboot
  \/ AllDone

Spec == Init /\ [][Next]_vars

\* The sessions' bash and the client's loop keep running, and flock serves a
\* waiter that finds the lock free again and again.  Nothing is assumed of the
\* connection, of the job, or of the pod's init: it may never collect a zombie.
Fairness ==
  \A c \in Clients :
    /\ SF_vars(TakeControl(c))
    /\ WF_vars(Session(c))
    /\ WF_vars(OpenPoll(c))

FairSpec == Spec /\ Fairness

-----------------------------------------------------------------------------
(* Safety.                                                                 *)

\* No two jobs' processes are on the GPU together: a start session finds
\* gpu.lock taken while a wrapper, its orchestrator or a server that outlived
\* them is alive, whatever connections drop and whichever of them dies first.
OneJobAtATime == \A i, j \in Jobs : HoldsGpu(i) /\ HoldsGpu(j) => i = j

\* The GPU goes from job to job as a lease: it is granted to a new job when no
\* process of an earlier one is left, and no earlier job gets it back.
Slot == INSTANCE GpuSlot WITH owners <- {j \in Jobs : HoldsGpu(j)}, granted <- started
ImplementsGpuSlot == Slot!Spec

\* A wrapper that will still write jobs/<mode>.exit is the job that owns the
\* mode's log and the one jobs/active-mode names, so no wrapper records its
\* exit over a later job's and `Busy' compares with the job that is running.
WriterOwnsFiles ==
  \A j \in Jobs : phase[j] \in WrapperRuns =>
    /\ logOf[jobMode[j]] = j
    /\ activeMode = jobMode[j]

\* A client never takes an earlier job's exit file for its own, and reports
\* success only of a job that exited 0.
FreshVerdict ==
  \A c \in Clients : result[c] = "success" =>
    /\ verdictOf[c] # NoJob /\ verdictOf[c] >= follows[c]
    /\ jobMode[verdictOf[c]] = mode[c]
    /\ code[verdictOf[c]] = "ok"

\* `Read logs after status so a completed job includes its final lines': a
\* client that reports the exit of the job it started or reattached to has
\* printed that job's log, every line once and in order, whatever polls were
\* lost and whenever the job wrote.  A client that reports the exit
\* of a later job than it follows may have passed over lines of that job's log.
WholeLogShown ==
  \A c \in Clients : result[c] \in {"success", "failed"} /\ verdictOf[c] = follows[c] =>
    printed[c] = Log(follows[c], lines[follows[c]])

\* `died without recording an exit code' is said of a job that did die so,
\* never of one that recorded its exit between the poll's two checks.
LostIsDead ==
  \A c \in Clients : result[c] = "lost" =>
    \/ \E j \in Jobs : j >= follows[c] /\ jobMode[j] = mode[c] /\ phase[j] = "killed"
    \/ reboots > 0

-----------------------------------------------------------------------------
(* The inductive invariant behind OneJobAtATime and WriterOwnsFiles.       *)

\* A client has a session only after its invocation, which set its mode.
SessionHasMode ==
  \A c \in Clients :
    /\ pc[c] = "idle" => remote[c] = "none"
    /\ pc[c] # "idle" => mode[c] \in Modes

ControlExclusive ==
  \A c, d \in Clients : remote[c] \in InControl /\ remote[d] \in InControl => c = d

\* From the moment it has gpu.lock until it launches, no job holds the GPU.
SlotKept ==
  \A c \in Clients :
    /\ remote[c] \in {"setMode", "rmExit", "launch"} => \A j \in Jobs : ~HoldsGpu(j)
    /\ remote[c] \in {"rmExit", "launch"} => activeMode = mode[c]

\* A poll that saw the exit file still finds it when it reads it.
ExitFileStays ==
  \A c \in Clients : remote[c] = "pollCat" => exitFile[mode[c]] # "absent"

JobsSound ==
  \A j \in Jobs :
    /\ j > started => phase[j] = "unborn" /\ ~leftover[j]
    /\ phase[j] \in {"exiting", "creating", "recorded"} => code[j] # "none"

IInv ==
  /\ TypeOK
  /\ SessionHasMode
  /\ ControlExclusive
  /\ SlotKept
  /\ ExitFileStays
  /\ JobsSound
  /\ OneJobAtATime
  /\ WriterOwnsFiles

\* What FreshVerdict rests on besides.  A poll belongs to a polling client and
\* a verdict to one that is done.
SessionsBelong ==
  \A c \in Clients :
    /\ remote[c] \in PollSteps => pc[c] = "polling"
    /\ result[c] \in {"success", "failed"} => pc[c] = "done"

\* The exit file is that of the mode's latest job, which has exited, and says how
\* once it is filled.
Exited(j) == j \in Jobs /\ phase[j] \notin {"unborn", "running"}

ExitOfLatest ==
  /\ \A m \in Modes : exitFile[m] # "absent" =>
       /\ Exited(logOf[m])
       /\ jobMode[logOf[m]] = m
       /\ exitFile[m] # "empty" => code[logOf[m]] = exitFile[m]
  /\ \A c \in Clients : remote[c] = "launch" => exitFile[mode[c]] = "absent"

\* Later jobs have larger numbers, and a client follows no later job than the
\* latest of its mode.
FollowsOrdered ==
  /\ \A m \in Modes : logOf[m] <= started
  /\ \A c \in Clients :
       /\ follows[c] # NoJob => pc[c] # "idle" /\ follows[c] <= logOf[mode[c]]
       /\ remote[c] = "writePid" => logOf[mode[c]] = started

\* A poll that has read an exit file holds the verdict it is about to return.
PollHoldsVerdict ==
  \A c \in Clients : remote[c] = "pollTail" /\ status[c] \notin {"running", "lost"} =>
    /\ Exited(verdictOf[c]) /\ verdictOf[c] >= follows[c]
    /\ jobMode[verdictOf[c]] = mode[c]
    /\ status[c] = "ok" => code[verdictOf[c]] = "ok"

VInv ==
  /\ SessionsBelong
  /\ ExitOfLatest
  /\ FollowsOrdered
  /\ PollHoldsVerdict
  /\ \A c \in Clients : result[c] \in {"success", "failed"} => Exited(verdictOf[c])
  /\ FreshVerdict

\* What WholeLogShown and LostIsDead rest on besides.  A mode's log is that of a
\* job of the mode.
LogNamed ==
  \A m \in Modes : logOf[m] # NoJob => jobMode[logOf[m]] = m /\ phase[logOf[m]] # "unborn"

\* Whoever holds the GPU, a leftover too, is the job active-mode leads to, so a
\* client that reattaches, and every client that polls, has a job to follow.
OwnerNamed ==
  /\ \A j \in Jobs : HoldsGpu(j) => activeMode \in Modes /\ logOf[activeMode] = j
  /\ \A c \in Clients : remote[c] = "busy" => activeMode \in Modes /\ logOf[activeMode] # NoJob

FollowsSome ==
  \A c \in Clients :
    /\ pc[c] \in {"polling", "sleeping"} => follows[c] # NoJob /\ remote[c] \notin StartSteps
    /\ remote[c] = "writePid" => started # NoJob

\* Until a reboot cuts a start session off, the pid file names the mode's
\* latest job outside a start session, and the exit file of a wrapper that
\* wrote one is there.
PidOfLatest ==
  reboots = 0 => \A m \in Modes :
    pidFile[m] = logOf[m] \/ \E c \in Clients : remote[c] = "writePid" /\ mode[c] = m

ExitRecorded ==
  reboots = 0 => \A m \in Modes :
    logOf[m] # NoJob /\ phase[logOf[m]] \in {"creating", "recorded", "ended"} =>
      exitFile[m] # "absent" \/ \E c \in Clients : remote[c] = "launch" /\ mode[c] = m

\* What a poll saw at `kill -0' is still so at its second look.
DeadSeen ==
  \A c \in Clients : remote[c] = "pollRecheck" =>
    reboots > 0 \/ phase[logOf[mode[c]]] \in {"ended", "killed"}

Died(c) ==
  \/ \E j \in Jobs : j >= follows[c] /\ jobMode[j] = mode[c] /\ phase[j] = "killed"
  \/ reboots > 0

LostKnown ==
  \A c \in Clients :
    /\ remote[c] = "pollTail" /\ status[c] = "lost" => Died(c)
    /\ result[c] = "lost" => pc[c] = "done" /\ Died(c)

\* The log a poll is about to print is the one its verdict came with.
VerdictIsLatest ==
  \A c \in Clients : remote[c] = "pollTail" /\ status[c] \notin {"running", "lost"} =>
    verdictOf[c] = logOf[mode[c]]

\* While the log is still that of the job a client follows, it has printed its
\* first $shown lines; and nothing before it follows one.
PrintedSoFar ==
  \A c \in Clients :
    /\ follows[c] = NoJob \/ pc[c] = "starting" => shown[c] = 0 /\ printed[c] = <<>>
    /\ follows[c] # NoJob /\ logOf[mode[c]] = follows[c] =>
         /\ shown[c] <= lines[follows[c]]
         /\ printed[c] = Log(follows[c], shown[c])

LInv ==
  /\ LogNamed
  /\ OwnerNamed
  /\ FollowsSome
  /\ PidOfLatest
  /\ ExitRecorded
  /\ DeadSeen
  /\ LostKnown
  /\ VerdictIsLatest
  /\ PrintedSoFar
  /\ WholeLogShown

-----------------------------------------------------------------------------
(* Liveness, of FairSpec.                                                  *)

Following(c) == pc[c] \in {"polling", "sleeping"}

\* A later job of the client's mode owns the mode's files.
Superseded(c) == \E m \in Modes : mode[c] = m /\ logOf[m] # follows[c]

\* Once the job a client follows has recorded its exit the client stops
\* polling, even if the wrapper stays a zombie, unless a later job of the mode
\* takes the files over.
RecordedIsReported ==
  \A c \in Clients :
    (Following(c) /\ \E j \in Jobs : follows[c] = j /\ phase[j] \in {"recorded", "ended"})
      ~> (pc[c] = "done" \/ Superseded(c))

\* A start session is answered while another client's job runs on: the job
\* gives up control.lock (9>&-) and keeps only gpu.lock.
StartIsAnswered ==
  \A c \in Clients : (pc[c] = "starting") ~> (pc[c] # "starting")

-----------------------------------------------------------------------------
(* Statements of the source's comments that the code does not keep.        *)

\* `Starts run-all.sh on the pod detached from SSH, or reattaches to it, then
\* streams its log until it exits': the verdict is that of the job the client
\* started or reattached to.
VerdictIsOfFollowedJob ==
  \A c \in Clients : result[c] = "success" => verdictOf[c] = follows[c]

\* `The $mode job failed' is said of a job that did not exit 0.
FailureIsReal ==
  \A c \in Clients : result[c] = "failed" => code[verdictOf[c]] # "ok"

\* `streams its log until it exits', `The $mode job died without recording an
\* exit code': a client stops following a job that was killed.
KilledIsReported ==
  \A c \in Clients :
    (Following(c) /\ \E j \in Jobs : follows[c] = j /\ phase[j] = "killed") ~> (pc[c] = "done")
=============================================================================
