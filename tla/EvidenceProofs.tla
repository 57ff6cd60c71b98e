---------------------------- MODULE EvidenceProofs ----------------------------
(* What the evidence of run.sh and boundary.sh, and the manifest of the    *)
(* latter, can be trusted for, for any case tables, launches, layouts and  *)
(* measurements and any number of preemptions, faults and invocations: the *)
(* counters' delta of a case, what exit status 0 says, and the manifest.   *)
EXTENDS DriversProofs

-----------------------------------------------------------------------------
(* The parts of the inductive invariant that DInv has not.                 *)

\* What the manifest says of a case, or of why it was not run.
CaseTold(l, k) ==
  \/ HasLine(l, Launches[l][k], {"ok", "failed", "drain-timeout"})
  \/ HasLine(l, 0, {"server-startup-failed", "server-not-responding", "layout-mismatch"})
  \/ \E j \in 1..(k - 1) : HasLine(l, Launches[l][j], {"drain-timeout"})
  \/ layouts[l] = <<>>

CaseIsOk(l, k) == <<l, Launches[l][k], "ok">> \in lines

\* What the manifest and overall_status owe of a launch that is over.
LaunchTold(l) ==
  /\ \A k \in DOMAIN Launches[l] : CaseTold(l, k)
  /\ l \in failed \/ \A k \in DOMAIN Launches[l] : CaseIsOk(l, k)

Unread == {"launch", "note", "startup", "models", "layout"}

\* Where boundary.sh is in its case tables.
PlacesKnown ==
  driver = "boundary.sh" =>
    /\ pc \in Unread \union {"check"} => entry = 1
    /\ pc = "case" => entry \in DOMAIN Table /\ case = Table[entry]
    /\ pc = "end" \/ finished => launch = Len(Launches)
    /\ finished => (outcome = "success" <=> failed = {})

\* The manifest has a line for every case boundary.sh is past, and a launch
\* counts as failed exactly when a case of it has not the line ok.
LinesSoFar ==
  driver = "boundary.sh" =>
    /\ runs = 0 => failed = {}
    /\ \A l \in DOMAIN Launches :
         l > launch \/ (l = launch /\ pc \in Unread) \/ runs = 0 => layouts[l] = <<>>
    /\ \A l \in DOMAIN Launches : \A k \in DOMAIN Launches[l] :
         CaseIsOk(l, k) => l < launch \/ (l = launch /\ k < entry)
    /\ \A k \in DOMAIN Table : k < entry =>
         /\ HasLine(launch, Table[k], {"ok", "failed"})
         /\ launch \in failed \/ CaseIsOk(launch, k)
    /\ \A l \in DOMAIN Launches : l < launch => LaunchTold(l)
    /\ (pc \in {"stop", "look"} /\ ~leaving) \/ pc = "end" \/ finished => LaunchTold(launch)
    /\ \A l \in failed :
         /\ l <= launch
         /\ \E k \in DOMAIN Launches[l] :
              /\ ~CaseIsOk(l, k)
              /\ l < launch \/ k < entry \/ pc \notin BeforeCase \union {"case"}

\* What `ok' rests on: the analysis finds no fault with the status, the
\* requests and the two snapshots.
Stands(e) ==
  /\ e.recorded /\ e.exit = 0 /\ e.drained /\ Succeeds(e.report)
  /\ e.start >= 0 /\ e.end >= 0 => e.start <= e.end

\* The engine's counter is not reset while a case runs.
CounterGrows ==
  /\ \A c \in Cases : ~evidence[c].made => evidence[c].start = Missing
  /\ step # "none" /\ evidence[case].start >= 0 =>
       /\ evidence[case].start <= preemptions
       /\ evidence[case].end >= 0 => evidence[case].start <= evidence[case].end

OkStands ==
  /\ step = "none" /\ returned0 => Stands(evidence[case])
  /\ driver = "boundary.sh" =>
       /\ pc \in {"loop", "case"} => CheckLayout(layouts[launch], Pools[launch])
       /\ \A l \in DOMAIN Launches : \A k \in DOMAIN Launches[l] :
            CaseIsOk(l, k) => Stands(evidence[Launches[l][k]]) /\ CheckLayout(layouts[l], Pools[l])

BeforeLoad == {"made", "start", "fork", "note", "load"}
AfterStart == {"fork", "note", "load", "loading", "drain", "stop", "end", "exit"}

\* Only a case whose GuideLLM was started has requests, and none has when its
\* poll has found the engine idle.
RequestsKnown ==
  /\ \A c \in Cases : ~evidence[c].made => suffered[c] = 0
  /\ \A c \in requests : evidence[c].made /\ ~(evidence[c].recorded /\ evidence[c].drained)
  /\ step # "none" /\ idle => step \in {"stop", "end", "exit"} /\ case \notin requests
  /\ step \in BeforeLoad => suffered[case] = 0 /\ case \notin requests

\* run.sh makes a case's directory only when those before it are saved; a case
\* that goes on is the last one made.
TableInOrder ==
  driver = "run.sh" =>
    /\ \A c \in DirectoriesMade : \E j \in DOMAIN RunTable : c = RunTable[j]
    /\ \A j \in DOMAIN RunTable : evidence[RunTable[j]].made =>
         \A k \in 1..(j - 1) : IsSaved(evidence[RunTable[k]])
    /\ step # "none" => \A i, j \in DOMAIN RunTable :
         case = RunTable[i] /\ i < j => ~evidence[RunTable[j]].made

\* While no case was killed, a case has the engine to itself.
OwnEngine ==
  AllRecorded =>
    /\ step # "none" => requests \subseteq {case}
    /\ driver = "boundary.sh" =>
         /\ pc \in BeforeCase \ {"launch"} => requests = {}
         /\ pc = "case" => requests \subseteq {case}

Measures(e, preempted) == e.start >= 0 /\ e.end >= 0 => Delta(e) = preempted

\* Since the first snapshot the counter has grown by what the case's own
\* requests suffered.
CountsOwn ==
  AllRecorded =>
    /\ step \in AfterStart /\ evidence[case].start >= 0 =>
         preemptions - evidence[case].start = suffered[case]
    /\ step = "exit" /\ idle => Measures(evidence[case], suffered[case])
    /\ \A c \in Cases : evidence[c].recorded /\ evidence[c].drained => Measures(evidence[c], suffered[c])

-----------------------------------------------------------------------------
(* What a step may do to the cases and the engine.                         *)

\* The script goes on, requests end, or a server dies.
Untouched == UNCHANGED <<callVars, evidence, loads, preemptions, suffered>> /\ requests' \subseteq requests

Called(c) ==
  /\ Call(c) /\ step = "none" /\ ~evidence[c].made
  /\ pc = "loop" /\ pc' = "case" /\ UNCHANGED <<entry, launchVars, finished, runs>>
  /\ driver = "run.sh" => entry \in DOMAIN RunTable /\ c = RunTable[entry]
  /\ driver = "boundary.sh" => entry \in DOMAIN Table /\ c = Table[entry]

LEMMA DInvParts ==
  ASSUME DInv
  PROVE  /\ TypeOK /\ StopsFirst /\ CallsWaitedFor /\ NothingEarly /\ FreshAhead /\ SamplersKnown
         /\ SavedSoFar
         /\ evidence \in [Cases -> EvidenceRecords] /\ case \in Cases /\ evidence[case] \in EvidenceRecords
         /\ suffered \in [Cases -> Nat] /\ preemptions \in Nat
         /\ loads \subseteq Cases /\ requests \subseteq Cases
         /\ status \in {0, 1, 130} /\ idle \in BOOLEAN /\ step \in Steps
         /\ launch \in DOMAIN Launches /\ entry \in Nat \ {0}
  BY DEF DInv, TypeOK, CaseTypeOK

LEMMA TablesTyped ==
  /\ DOMAIN Launches = 1..Len(Launches) /\ Len(Launches) \in Nat
  /\ \A l \in DOMAIN Launches :
       /\ Launches[l] \in Seq(Cases) /\ Launches[l] # <<>>
       /\ DOMAIN Launches[l] = 1..Len(Launches[l]) /\ Len(Launches[l]) \in Nat
       /\ 1 \in DOMAIN Launches[l]
       /\ \A k \in DOMAIN Launches[l] : Launches[l][k] \in Cases
  /\ RunTable \in Seq(Cases) /\ DOMAIN RunTable = 1..Len(RunTable) /\ Len(RunTable) \in Nat
  /\ \A k \in DOMAIN RunTable : RunTable[k] \in Cases
  /\ 0 \notin Cases
<1>1. /\ Launches \in Seq(Seq(Cases) \ {<<>>}) /\ RunTable \in Seq(Cases) /\ 0 \notin Cases
  BY LaunchesAssumption, RunTableAssumption, CaseAssumption
<1>2. DOMAIN Launches = 1..Len(Launches) /\ Len(Launches) \in Nat
  BY <1>1
<1>3. ASSUME NEW l \in DOMAIN Launches
      PROVE  /\ Launches[l] \in Seq(Cases) /\ Launches[l] # <<>>
             /\ DOMAIN Launches[l] = 1..Len(Launches[l]) /\ Len(Launches[l]) \in Nat
             /\ 1 \in DOMAIN Launches[l]
             /\ \A k \in DOMAIN Launches[l] : Launches[l][k] \in Cases
  <2>1. Launches[l] \in Seq(Cases) /\ Launches[l] # <<>>
    BY <1>1
  <2> QED
    BY <2>1
<1>4. DOMAIN RunTable = 1..Len(RunTable) /\ Len(RunTable) \in Nat /\ \A k \in DOMAIN RunTable : RunTable[k] \in Cases
  BY <1>1
<1> QED
  BY <1>1, <1>2, <1>3, <1>4

LEMMA Kinds ==
  ASSUME DInv, [Next]_vars
  PROVE  \/ Untouched
         \/ \E c \in Cases : Called(c)
         \/ driver = "boundary.sh" /\ ForkServer /\ step = "none"
         \/ (CaseSteps \/ Interrupted) /\ UNCHANGED <<driverVars, launchVars>>
         \/ /\ \E c \in Cases : Request(c) \/ Preempt(c) \/ OrphanLoadEnds(c) \/ OrphanSamples(c)
            /\ UNCHANGED <<driverVars, launchVars>>
<1>1. ASSUME UNCHANGED <<callVars, evidence, loads, engineVars>> PROVE Untouched
  BY <1>1 DEF Untouched, engineVars
<1>a. CASE UNCHANGED vars \/ Killed
  BY <1>a, <1>1 DEF vars, Killed, caseRunVars
<1>2. CASE EngineSteps /\ UNCHANGED <<driverVars, launchVars>>
  BY <1>2 DEF EngineSteps, Untouched, RequestsEnd, ServerDies, OthersUnchanged, callVars
<1>3. CASE driver = "run.sh" /\ RunSteps /\ UNCHANGED launchVars
  <2>1. CASE RunCase
    <3>1. entry \in DOMAIN RunTable /\ step = "none" /\ RunTable[entry] \in Cases
      BY <2>1, DInvParts, TablesTyped DEF RunCase, CallsWaitedFor
    <3> QED
      BY <1>3, <2>1, <3>1 DEF RunCase, Called, Goto
  <2> QED
    BY <1>3, <2>1 DEF RunSteps, RunStart, SkipSaved, RefuseCase, CaseReturns, RunEnds, RunsUnchanged,
       Untouched, caseRunVars, engineVars
<1>b. CASE Probe
  BY <1>1, <1>b DEF Probe, ProbeAnswered, ProbeFails, RunsUnchanged, caseRunVars
<1>4. CASE driver = "boundary.sh" /\ (BoundarySteps \/ Terminate)
  <2>1. CASE CallNext
    <3>1. entry \in DOMAIN Table /\ step = "none" /\ Table[entry] \in Cases
      BY <2>1, DInvParts, TablesTyped DEF CallNext, CallsWaitedFor, Table
    <3>2. ~evidence[Table[entry]].made
      BY <1>4, <2>1, <3>1, DInvParts DEF CallNext, FreshAhead, BeforeCase, Table
    <3> QED
      BY <1>4, <2>1, <3>1, <3>2 DEF CallNext, Called, Goto
  <2>2. CASE ForkServer
    BY <1>4, <2>2, DInvParts DEF ForkServer, CallsWaitedFor
  <2>3. CASE KillServer
    BY <2>3 DEF KillServer, Untouched, RestUnchanged, CasesUnchanged
  <2>4. CASE Begin \/ NoteServer \/ StartupSucceeds \/ StartupFails \/ Responds \/ DoesNotRespond
             \/ SnapLayout \/ LayoutUnread \/ JudgeLayout
    BY <2>4 DEF Begin, NoteServer, StartupSucceeds, StartupFails, Responds, DoesNotRespond, SnapLayout,
       LayoutUnread, JudgeLayout, Untouched, EngineUnchanged, RestUnchanged, CasesUnchanged,
       caseRunVars, engineVars
  <2>5. CASE CaseOk \/ CaseNotDrained \/ CaseFailed \/ CasesDone \/ NothingToStop \/ LookStopped
             \/ LookRefuses \/ End \/ Terminate
    BY <1>1, <2>5 DEF CaseOk, CaseNotDrained, CaseFailed, CasesDone, NothingToStop, LookStopped, Stopped,
       LookRefuses, End, Terminate, EngineUnchanged, RestUnchanged, CasesUnchanged
  <2> QED
    BY <1>4, <2>1, <2>2, <2>3, <2>4, <2>5 DEF BoundarySteps
<1> QED
  BY <1>a, <1>2, <1>3, <1>b, <1>4, NextSplit

\* What a call does to the directories.
LEMMA CalledFacts ==
  ASSUME DInv, NEW c \in Cases, Called(c)
  PROVE  /\ case' = c /\ step' = "made" /\ ~idle' /\ ~returned0'
         /\ UNCHANGED <<loads, requests, preemptions, suffered>>
         /\ \A d \in Cases : d # c => evidence'[d] = evidence[d]
         /\ evidence'[c].made /\ ~evidence'[c].recorded
<1>1. evidence[c] \in EvidenceRecords /\ ~evidence[c].recorded
  BY DInvParts DEF NothingEarly, Called
<1> QED
  BY <1>1, DInvParts DEF Called, Call, engineVars, EvidenceRecords

LEMMA OrphanFacts ==
  ASSUME DInv, NEW c \in Cases, OrphanLoadEnds(c)
  PROVE  /\ UNCHANGED <<callVars, requests, preemptions, suffered>>
         /\ loads' = loads \ {c} /\ c \in loads /\ ~evidence[c].recorded /\ evidence[c].end = Missing
         /\ c # case \/ step = "none"
         /\ \A d \in Cases : d # c => evidence'[d] = evidence[d]
         /\ \A d \in Cases : /\ evidence'[d].made = evidence[d].made
                             /\ evidence'[d].recorded = evidence[d].recorded
                             /\ evidence'[d].start = evidence[d].start
                             /\ evidence'[d].end = evidence[d].end
                             /\ evidence'[d].drained = evidence[d].drained
<1>1. PICK m \in Measured : evidence' = [evidence EXCEPT ![c].report = m.report]
  BY DEF OrphanLoadEnds
<1>2. evidence[c] \in EvidenceRecords
  BY DInvParts
<1>3. c \in loads /\ ~evidence[c].recorded /\ evidence[c].end = Missing /\ (c # case \/ step = "none")
  BY DInvParts DEF OrphanLoadEnds, NothingEarly
<1> QED
  BY <1>1, <1>2, <1>3, DInvParts DEF OrphanLoadEnds, engineVars, EvidenceRecords

\* The samples alone.
LEMMA StrayFacts ==
  ASSUME DInv, NEW c \in Cases, OrphanSamples(c)
  PROVE  /\ UNCHANGED <<callVars, loads, requests, preemptions, suffered>>
         /\ evidence[c].recorded => evidence[c].exit = 130
         /\ \A d \in Cases : d # c => evidence'[d] = evidence[d]
         /\ \A d \in Cases : /\ evidence'[d].made = evidence[d].made
                             /\ evidence'[d].recorded = evidence[d].recorded
                             /\ evidence'[d].start = evidence[d].start
                             /\ evidence'[d].end = evidence[d].end
                             /\ evidence'[d].report = evidence[d].report
                             /\ evidence'[d].exit = evidence[d].exit
                             /\ evidence'[d].drained = evidence[d].drained
<1>1. PICK s \in Strays : evidence' = [evidence EXCEPT ![c].samples = @ \union {s}]
  BY DEF OrphanSamples
<1>2. evidence[c] \in EvidenceRecords
  BY DInvParts
<1>3. evidence[c].recorded => evidence[c].exit = 130
  BY DInvParts DEF OrphanSamples, SamplersKnown
<1> QED
  BY <1>1, <1>2, <1>3, DInvParts DEF OrphanSamples, engineVars, EvidenceRecords

\* What a case that says 0 has recorded stays as it is.
LEMMA RecordedKept ==
  ASSUME DInv, [Next]_vars, NEW c \in Cases, evidence[c].recorded, evidence[c].exit = 0
  PROVE  evidence'[c] = evidence[c]
<1>1. evidence[c].made
  BY DInvParts DEF NothingEarly
<1>2. CASE UNCHANGED evidence
  BY <1>2
<1>3. ASSUME NEW d \in Cases, Called(d) PROVE evidence'[c] = evidence[c]
  BY <1>1, <1>3, CalledFacts DEF Called
<1>4. ASSUME NEW d \in Cases, OrphanLoadEnds(d) PROVE evidence'[c] = evidence[c]
  BY <1>4, OrphanFacts
<1>5. ASSUME NEW d \in Cases, OrphanSamples(d) PROVE evidence'[c] = evidence[c]
  BY <1>5, StrayFacts
<1>6. CASE CaseSteps \/ Interrupted
  BY <1>6, CaseStepFacts, DInvParts DEF CallsWaitedFor
<1> QED
  BY <1>2, <1>3, <1>4, <1>5, <1>6, Kinds DEF Untouched, ForkServer, RestUnchanged, CasesUnchanged,
     Request, Preempt, OthersUnchanged

\* A case that was killed without a status.txt never gets one.
LEMMA AllRecordedBefore ==
  ASSUME DInv, [Next]_vars, AllRecorded'
  PROVE  AllRecorded
<1> USE DEF AllRecorded, DirectoriesMade
<1>1. CASE UNCHANGED <<callVars, evidence>>
  BY <1>1 DEF callVars
<1>2. ASSUME NEW d \in Cases, Called(d) PROVE AllRecorded
  BY <1>2, CalledFacts DEF Called
<1>3. ASSUME NEW d \in Cases, OrphanLoadEnds(d) PROVE AllRecorded
  BY <1>3, OrphanFacts DEF callVars
<1>4. CASE CaseSteps \/ Interrupted
  BY <1>4, CaseStepFacts, DInvParts
<1>5. ASSUME NEW d \in Cases, OrphanSamples(d) PROVE AllRecorded
  BY <1>5, StrayFacts DEF callVars
<1> QED
  BY <1>1, <1>2, <1>3, <1>4, <1>5, Kinds DEF Untouched, ForkServer, RestUnchanged, CasesUnchanged, Request,
     Preempt, OthersUnchanged

\* What a command of vramfit_run_case does to its case.
LEMMA CaseMoves ==
  ASSUME DInv, CaseSteps \/ Interrupted,
         NEW e, e = evidence[case], NEW f, f = evidence'[case]
  PROVE  /\ step # "none" /\ ~e.recorded /\ e.made /\ f.made
         /\ UNCHANGED <<case, requests, preemptions, suffered>>
         /\ \A c \in Cases : c # case => evidence'[c] = evidence[c]
         /\ \/ f.start = e.start /\ step' # "fork"
            \/ step = "start" /\ step' = "fork" /\ f.start \in {preemptions, Empty}
         /\ \/ f.end = e.end /\ step' # "exit"
            \/ step = "end" /\ step' = "exit" /\ f.end \in {preemptions, Empty}
         /\ f.recorded => step' = "none" /\ (f.drained => idle)
         /\ idle' => idle \/ (step = "drain" /\ step' = "stop" /\ requests = {})
         /\ step' \in BeforeLoad => step \in BeforeLoad
         /\ step' \in AfterStart => step \in AfterStart \/ step' = "fork"
         /\ step \in {"stop", "end", "exit"} => step' \in {"stop", "end", "exit", "none"}
         /\ returned0' => /\ step = "exit" /\ step' = "none" /\ f.recorded /\ f.exit = 0
                          /\ f.drained /\ Succeeds(f.report) /\ f.start = e.start /\ f.end = e.end
<1>1. /\ step # "none" /\ UNCHANGED case /\ f.made = e.made
      /\ \A c \in Cases : c # case => evidence'[c] = evidence[c]
  BY CaseStepFacts, DInvParts
<1>2. e \in EvidenceRecords /\ ~e.recorded /\ e.made /\ ~returned0 /\ evidence \in [Cases -> EvidenceRecords]
      /\ case \in Cases
  BY <1>1, DInvParts DEF CallsWaitedFor
<1>3. UNCHANGED <<requests, preemptions, suffered>>
  BY DEF CaseSteps, Interrupted, At, engineVars, SetTraps, SnapStart, ForkSampler, NoteSampler,
     StartLoad, EndLoad, DrainExpires, StopSampler, SnapEnd, Return, DrainPoll, EndLoadTerminated,
     TermCase, KillCase
<1> USE DEF BeforeLoad, AfterStart
<1>4. CASE SetTraps \/ ForkSampler \/ NoteSampler \/ StartLoad \/ DrainExpires \/ DrainPoll
           \/ StopSampler \/ KillCase
  <2>1. UNCHANGED <<evidence, returned0>>
    BY <1>4 DEF At, SetTraps, ForkSampler, NoteSampler, StartLoad, DrainExpires, DrainPoll,
       StopSampler, KillCase
  <2>2. f = e
    BY <1>1, <2>1
  <2>3. \/ step' = "none" /\ UNCHANGED idle
        \/ /\ UNCHANGED idle
           /\ <<step, step'>> \in {<<"made", "start">>, <<"fork", "note">>, <<"note", "load">>,
                <<"load", "loading">>, <<"drain", "stop">>, <<"stop", "end">>}
        \/ step = "drain" /\ step' = "stop" /\ requests = {}
    BY <1>4 DEF At, SetTraps, ForkSampler, NoteSampler, StartLoad, DrainExpires, DrainPoll,
       StopSampler, KillCase
  <2> QED
    BY <1>1, <1>2, <1>3, <2>1, <2>2, <2>3
<1>5. CASE SnapStart \/ SnapEnd
  <2>1. PICK v \in Readings :
          \/ step = "start" /\ step' = "fork" /\ evidence' = [evidence EXCEPT ![case].start = v]
          \/ step = "end" /\ step' = "exit" /\ evidence' = [evidence EXCEPT ![case].end = v]
    BY <1>5 DEF SnapStart, SnapEnd, At
  <2>2. UNCHANGED <<idle, returned0>> /\ v \in {preemptions, Empty}
    BY <1>5 DEF SnapStart, SnapEnd, At, Readings
  <2> QED
    BY <1>1, <1>2, <1>3, <2>1, <2>2 DEF EvidenceRecords
<1>6. CASE EndLoad
  <2>1. PICK m \in Measured :
          evidence' = [evidence EXCEPT ![case].report = m.report, ![case].samples = m.samples]
    BY <1>6 DEF EndLoad
  <2>2. UNCHANGED <<idle, returned0>> /\ step = "loading" /\ step' = "drain"
    BY <1>6 DEF EndLoad, At
  <2> QED
    BY <1>1, <1>2, <1>3, <2>1, <2>2 DEF EvidenceRecords
<1>7. CASE EndLoadTerminated
  <2>1. PICK m \in Measured :
          evidence' = [evidence EXCEPT ![case].report = m.report, ![case].samples = m.samples,
                         ![case].recorded = TRUE, ![case].exit = 0, ![case].drained = FALSE]
    BY <1>7 DEF EndLoadTerminated
  <2>2. UNCHANGED <<idle, returned0>> /\ step = "loading" /\ step' = "none"
    BY <1>7 DEF EndLoadTerminated, At
  <2> QED
    BY <1>1, <1>2, <1>3, <2>1, <2>2 DEF EvidenceRecords
<1>8. CASE Return \/ TermCase
  <2>1. evidence' = [evidence EXCEPT ![case].recorded = TRUE, ![case].exit = status,
                                     ![case].drained = idle]
    BY <1>8 DEF Return, TermCase, Record
  <2>2. /\ f.recorded /\ f.exit = status /\ f.drained = idle /\ f.start = e.start /\ f.end = e.end
        /\ f.report = e.report
    BY <1>1, <1>2, <2>1 DEF EvidenceRecords
  <2>3. /\ UNCHANGED idle /\ step' = "none"
        /\ returned0' => step = "exit" /\ status = 0 /\ idle /\ Succeeds(e.report)
    <3>1. CASE Return
      <4>1. step = "exit" /\ step' = "none" /\ UNCHANGED idle
        BY <3>1 DEF Return
      <4>2. returned0' => status = 0 /\ idle /\ Succeeds(e.report)
        BY <3>1, Zenon DEF Return
      <4> QED
        BY <4>1, <4>2
    <3>2. CASE TermCase
      <4>1. UNCHANGED <<idle, returned0>> /\ step' = "none"
        BY <3>2 DEF TermCase
      <4> QED
        BY <1>2, <4>1
    <3> QED
      BY <1>8, <3>1, <3>2
  <2> QED
    BY <1>1, <1>2, <1>3, <2>2, <2>3
<1> QED
  BY <1>4, <1>5, <1>6, <1>7, <1>8 DEF CaseSteps, Interrupted

LEMMA NextRequestsKnown == DInv /\ RequestsKnown /\ [Next]_vars => RequestsKnown'
<1> SUFFICES ASSUME DInv, RequestsKnown, [Next]_vars PROVE RequestsKnown'
  OBVIOUS
<1>1. CASE Untouched
  BY <1>1, DInvParts DEF Untouched, callVars, RequestsKnown
<1>2. CASE ForkServer
  BY <1>2, DInvParts DEF ForkServer, RestUnchanged, CasesUnchanged, callVars, RequestsKnown
<1>3. ASSUME NEW c \in Cases, Called(c) PROVE RequestsKnown'
  <2>1. /\ ~evidence[c].made /\ c \notin requests /\ suffered[c] = 0
    BY <1>3 DEF Called, RequestsKnown
  <2> QED
    BY <1>3, <2>1, CalledFacts, DInvParts DEF RequestsKnown
<1>4. CASE CaseSteps \/ Interrupted
  <2> DEFINE e == evidence[case]
             f == evidence'[case]
  <2>1. /\ step # "none" /\ ~e.recorded /\ e.made /\ f.made
        /\ UNCHANGED <<case, requests, preemptions, suffered>>
        /\ \A c \in Cases : c # case => evidence'[c] = evidence[c]
        /\ f.recorded => step' = "none" /\ (f.drained => idle)
        /\ idle' => idle \/ (step = "drain" /\ step' = "stop" /\ requests = {})
        /\ step' \in BeforeLoad => step \in BeforeLoad
        /\ step \in {"stop", "end", "exit"} => step' \in {"stop", "end", "exit", "none"}
    BY <1>4, CaseMoves
  <2> HIDE DEF e, f
  <2>2. \A c \in Cases : ~evidence'[c].made => suffered[c] = 0
    BY <2>1 DEF RequestsKnown, e, f
  <2>3. \A c \in requests : evidence'[c].made /\ ~(evidence'[c].recorded /\ evidence'[c].drained)
    <3> SUFFICES ASSUME NEW c \in requests PROVE evidence'[c].made /\ ~(evidence'[c].recorded /\ evidence'[c].drained)
      OBVIOUS
    <3>1. CASE c = case
      BY <2>1, <3>1 DEF RequestsKnown, f
    <3>2. CASE c # case
      BY <2>1, <3>2, DInvParts DEF RequestsKnown
    <3> QED
      BY <3>1, <3>2
  <2> QED
    BY <2>1, <2>2, <2>3 DEF RequestsKnown
<1>5. ASSUME NEW c \in Cases, OrphanLoadEnds(c) PROVE RequestsKnown'
  BY <1>5, OrphanFacts, DInvParts DEF RequestsKnown, callVars
<1>6. ASSUME NEW c \in Cases, Request(c) PROVE RequestsKnown'
  <2>1. c \in loads /\ requests' = requests \union {c} /\ UNCHANGED <<callVars, evidence, suffered>>
    BY <1>6 DEF Request, OthersUnchanged
  <2>2. evidence[c].made /\ ~evidence[c].recorded /\ (c = case => step \in {"none", "loading"})
    BY <2>1, DInvParts DEF NothingEarly
  <2> QED
    BY <2>1, <2>2 DEF RequestsKnown, callVars, BeforeLoad
<1>7. ASSUME NEW c \in Cases, Preempt(c) PROVE RequestsKnown'
  BY <1>7, DInvParts DEF Preempt, OthersUnchanged, RequestsKnown, callVars
<1>8. ASSUME NEW c \in Cases, OrphanSamples(c) PROVE RequestsKnown'
  BY <1>8, StrayFacts, DInvParts DEF RequestsKnown, callVars
<1> QED
  BY <1>1, <1>2, <1>3, <1>4, <1>5, <1>6, <1>7, <1>8, Kinds

\* A saved case stays saved.
LEMMA SavedKept ==
  ASSUME DInv, [Next]_vars, NEW c \in Cases, IsSaved(evidence[c]), c # case \/ step = "none"
  PROVE  IsSaved(evidence[c])'
<1>1. CASE UNCHANGED evidence
  BY <1>1 DEF IsSaved
<1>2. ASSUME NEW d \in Cases, Called(d) PROVE IsSaved(evidence[c])'
  BY <1>2, CalledFacts DEF Called, IsSaved
<1>3. ASSUME NEW d \in Cases, OrphanLoadEnds(d) PROVE IsSaved(evidence[c])'
  BY <1>3, OrphanFacts DEF IsSaved
<1>4. CASE CaseSteps \/ Interrupted
  BY <1>4, CaseStepFacts, DInvParts DEF IsSaved
<1>5. ASSUME NEW d \in Cases, OrphanSamples(d) PROVE IsSaved(evidence[c])'
  BY <1>5, StrayFacts DEF IsSaved
<1> QED
  BY <1>1, <1>2, <1>3, <1>4, <1>5, Kinds DEF Untouched, ForkServer, RestUnchanged, CasesUnchanged, Request,
     Preempt, OthersUnchanged

LEMMA NextTableInOrder == DInv /\ TableInOrder /\ [Next]_vars => TableInOrder'
<1> SUFFICES ASSUME DInv, TableInOrder, [Next]_vars, driver = "run.sh" PROVE TableInOrder'
  BY NextSplit DEF TableInOrder
<1>0. UNCHANGED driver
  BY NextSplit
<1>1. ASSUME UNCHANGED case, step' # "none" => step # "none",
             \A c \in Cases : evidence'[c].made = evidence[c].made,
             \A k \in DOMAIN RunTable : IsSaved(evidence[RunTable[k]]) => IsSaved(evidence[RunTable[k]])'
      PROVE  TableInOrder'
  BY <1>0, <1>1, TablesTyped DEF TableInOrder, DirectoriesMade
<1>2. CASE UNCHANGED evidence
  <2>1. CASE UNCHANGED <<step, case>>
    BY <1>0, <1>2, <2>1 DEF TableInOrder, DirectoriesMade, IsSaved
  <2>2. CASE CaseSteps \/ Interrupted
    BY <1>0, <1>2, <2>2, CaseStepFacts, DInvParts DEF TableInOrder, DirectoriesMade, IsSaved
  <2>3. ASSUME NEW c \in Cases, Called(c) PROVE TableInOrder'
    BY <1>2, <2>3, CalledFacts DEF Called
  <2> QED
    BY <2>1, <2>2, <2>3, Kinds DEF Untouched, ForkServer, RestUnchanged, CasesUnchanged, Request,
       Preempt, OrphanLoadEnds, OrphanSamples, OthersUnchanged, callVars
<1>3. ASSUME NEW c \in Cases, Called(c) PROVE TableInOrder'
  <2>1. /\ entry \in DOMAIN RunTable /\ c = RunTable[entry] /\ step = "none" /\ pc = "loop"
        /\ \A d \in Cases : d # c => evidence'[d] = evidence[d]
        /\ ~evidence[c].made
    BY <1>3, CalledFacts DEF Called
  <2>2. \A k \in DOMAIN RunTable : k < entry => IsSaved(evidence[RunTable[k]])
    BY <2>1, DInvParts DEF SavedSoFar
  <2>3. \A k \in DOMAIN RunTable : IsSaved(evidence[RunTable[k]]) => IsSaved(evidence[RunTable[k]])'
    BY <2>1, SavedKept, TablesTyped
  <2>4. ASSUME NEW d \in DirectoriesMade' PROVE \E j \in DOMAIN RunTable : d = RunTable[j]
    BY <2>1, <2>4 DEF TableInOrder, DirectoriesMade
  <2>5. ASSUME NEW j \in DOMAIN RunTable, evidence'[RunTable[j]].made, NEW k \in 1..(j - 1)
        PROVE  IsSaved(evidence[RunTable[k]])
    <3>1. k \in DOMAIN RunTable
      BY TablesTyped
    <3>2. CASE RunTable[j] = c
      <4>1. j = entry
        BY <2>1, <3>2, RunTableAssumption
      <4> QED
        BY <2>2, <3>1, <4>1, TablesTyped
    <3>3. CASE RunTable[j] # c
      BY <2>1, <2>5, <3>3, TablesTyped DEF TableInOrder
    <3> QED
      BY <3>2, <3>3
  <2>6. \A j \in DOMAIN RunTable : \A k \in 1..(j - 1) : k \in DOMAIN RunTable
    BY TablesTyped
  <2>7. ASSUME NEW i \in DOMAIN RunTable, NEW j \in DOMAIN RunTable, c = RunTable[i], i < j
        PROVE  ~evidence'[RunTable[j]].made
    <3>1. RunTable[j] # c
      <4>1. i # j
        BY <2>7, TablesTyped
      <4> QED
        BY <2>7, <4>1, RunTableAssumption
    <3>2. i \in 1..(j - 1)
      BY <2>7, TablesTyped
    <3>3. ~evidence[RunTable[j]].made
      BY <2>1, <2>7, <3>2 DEF TableInOrder, IsSaved
    <3> QED
      BY <2>1, <3>1, <3>3, TablesTyped
  <2>8. case' = c
    BY <1>3, CalledFacts
  <2> QED
    BY <1>0, <2>3, <2>4, <2>5, <2>6, <2>7, <2>8 DEF TableInOrder
<1>4. ASSUME NEW c \in Cases, OrphanLoadEnds(c) PROVE TableInOrder'
  <2>1. \A d \in Cases : evidence'[d].made = evidence[d].made
    BY <1>4, OrphanFacts
  <2>2. \A d \in Cases : IsSaved(evidence[d]) => IsSaved(evidence[d])'
    BY <1>4, OrphanFacts DEF IsSaved
  <2> QED
    BY <1>1, <1>4, <2>1, <2>2, OrphanFacts, TablesTyped DEF callVars
<1>5. CASE CaseSteps \/ Interrupted
  <2>1. /\ \A d \in Cases : evidence'[d].made = evidence[d].made
        /\ \A d \in Cases : d # case => evidence'[d] = evidence[d]
        /\ step # "none"
    BY <1>5, CaseStepFacts, DInvParts
  <2>2. UNCHANGED case
    BY <1>5, CaseStepFacts, DInvParts
  <2>3. ASSUME NEW j \in DOMAIN RunTable, evidence[RunTable[j]].made, NEW k \in 1..(j - 1)
        PROVE  IsSaved(evidence[RunTable[k]])'
    <3>1. k \in DOMAIN RunTable /\ k < j /\ RunTable[k] \in Cases
      BY TablesTyped
    <3>2. RunTable[k] # case
      BY <2>1, <2>3, <3>1 DEF TableInOrder
    <3>3. IsSaved(evidence[RunTable[k]])
      BY <2>3 DEF TableInOrder
    <3> QED
      BY <2>1, <3>1, <3>2, <3>3
  <2> QED
    BY <1>0, <2>1, <2>2, <2>3, TablesTyped DEF TableInOrder, DirectoriesMade
<1>6. ASSUME NEW c \in Cases, OrphanSamples(c) PROVE TableInOrder'
  <2>1. \A d \in Cases : evidence'[d].made = evidence[d].made
    BY <1>6, StrayFacts
  <2>2. \A d \in Cases : IsSaved(evidence[d]) => IsSaved(evidence[d])'
    BY <1>6, StrayFacts DEF IsSaved
  <2> QED
    BY <1>1, <1>6, <2>1, <2>2, StrayFacts, TablesTyped DEF callVars
<1> QED
  BY <1>2, <1>3, <1>4, <1>5, <1>6, Kinds DEF Untouched, ForkServer, RestUnchanged, CasesUnchanged, Request,
     Preempt, OthersUnchanged

-----------------------------------------------------------------------------
(* The manifest of boundary.sh.                                            *)

\* What another actor does to boundary.sh: nothing, or it kills it.
LEMMA OthersSteps ==
  ASSUME [Next]_vars, driver = "boundary.sh"
  PROVE  \/ BoundarySteps \/ Terminate
         \/ /\ UNCHANGED <<entry, finished, runs, launch, server, leaving, layouts, lines, failed>>
            /\ (pc' = pc /\ outcome' = outcome) \/ (pc # "idle" /\ pc' = "idle")
<1>1. CASE UNCHANGED vars \/ UNCHANGED <<driverVars, launchVars>>
  <2>1. UNCHANGED driverVars /\ UNCHANGED launchVars
    BY <1>1 DEF vars
  <2>2. UNCHANGED <<entry, finished, runs, pc, outcome>>
    BY <2>1 DEF driverVars
  <2>3. UNCHANGED <<launch, server, leaving, layouts, lines, failed>>
    BY <2>1 DEF launchVars
  <2> QED
    BY <2>2, <2>3
<1>2. CASE Killed /\ UNCHANGED launchVars
  BY <1>2 DEF launchVars, Killed, Ends
<1> QED
  BY <1>1, <1>2, NextSplit

\* The call of a case of the table.
LEMMA CallNextFacts ==
  ASSUME DInv, driver = "boundary.sh", CallNext
  PROVE  /\ entry \in DOMAIN Table /\ Table[entry] \in Cases /\ Called(Table[entry])
         /\ case' = Table[entry] /\ pc = "loop" /\ pc' = "case"
         /\ UNCHANGED <<entry, launchVars, finished, runs>>
<1>1. entry \in DOMAIN Table /\ step = "none" /\ Table[entry] \in Cases
  BY DInvParts, TablesTyped DEF CallNext, CallsWaitedFor, Table
<1>2. ~evidence[Table[entry]].made
  BY <1>1, DInvParts DEF CallNext, FreshAhead, BeforeCase, Table
<1>3. Called(Table[entry])
  <2>1. driver # "run.sh"
    OBVIOUS
  <2> QED
    BY <1>1, <1>2, <2>1 DEF CallNext, Called, Goto
<1> QED
  BY <1>1, <1>3, CalledFacts DEF Called

LEMMA NextPlacesKnown == DInv /\ PlacesKnown /\ [Next]_vars => PlacesKnown'
<1> SUFFICES ASSUME DInv, PlacesKnown, [Next]_vars, driver = "boundary.sh" PROVE PlacesKnown'
  BY NextSplit DEF PlacesKnown
<1>0. /\ UNCHANGED driver
      /\ finished => pc = "idle" /\ runs # 0
      /\ runs = 0 => entry = 1
  BY NextSplit, DInvParts DEF StopsFirst
<1> USE DEF PlacesKnown, Unread, Table
<1>1. CASE CallNext
  BY <1>0, <1>1, CallNextFacts DEF launchVars
<1>2. ASSUME pc # "idle", UNCHANGED finished, pc' \in {"idle", "stop", "look", "loop"} PROVE PlacesKnown'
  BY <1>0, <1>2
<1>3. ASSUME pc # "idle", UNCHANGED <<finished, entry>>, pc' \in Unread \union {"check"},
             pc \in Unread \union {"check"}
      PROVE  PlacesKnown'
  BY <1>0, <1>3
<1>4. CASE Begin
  BY <1>0, <1>4 DEF Begin
<1>5. CASE ForkServer \/ NoteServer \/ StartupSucceeds \/ StartupFails \/ Responds \/ DoesNotRespond
           \/ SnapLayout \/ LayoutUnread \/ JudgeLayout
  BY <1>2, <1>3, <1>5 DEF ForkServer, NoteServer, StartupSucceeds, StartupFails, Responds,
     DoesNotRespond, SnapLayout, LayoutUnread, JudgeLayout, Goto, GiveUp, RestUnchanged
<1>6. CASE CaseOk \/ CaseNotDrained \/ CaseFailed \/ CasesDone \/ KillServer \/ LookRefuses \/ Terminate
  BY <1>2, <1>6 DEF CaseOk, CaseNotDrained, CaseFailed, CasesDone, KillServer, LookRefuses, Terminate,
     Goto, Ends, GiveUp, RestUnchanged
<1>7. CASE NothingToStop \/ LookStopped
  <2>1. /\ pc # "idle" /\ UNCHANGED finished
        /\ \/ pc' = "idle"
           \/ pc' = "end" /\ launch' = Len(Launches)
           \/ pc' = "launch" /\ entry' = 1
    <3>1. Stopped /\ pc # "idle"
      BY <1>7 DEF NothingToStop, LookStopped
    <3>2. UNCHANGED finished
      BY <3>1 DEF Stopped, RestUnchanged
    <3>3. CASE leaving \/ launch = Len(Launches)
      BY <3>1, <3>2, <3>3 DEF Stopped
    <3>4. CASE ~(leaving \/ launch = Len(Launches))
      BY <3>1, <3>2, <3>4 DEF Stopped
    <3> QED
      BY <3>3, <3>4
  <2> QED
    BY <1>0, <2>1
<1>8. CASE End
  <2>1. /\ pc = "end" /\ pc' = "idle" /\ UNCHANGED <<launch, failed>>
        /\ outcome' = IF failed = {} THEN "success" ELSE "failed"
    BY <1>8 DEF End, Ends, launchVars
  <2> QED
    BY <1>0, <2>1
<1>9. CASE /\ UNCHANGED <<entry, finished, runs, launch, server, leaving, layouts, lines, failed>>
           /\ (pc' = pc /\ outcome' = outcome) \/ (pc # "idle" /\ pc' = "idle")
  <2>1. pc = "case" => pc' = "idle" \/ UNCHANGED case
    BY <1>9, Kinds, CaseStepFacts, DInvParts DEF Untouched, callVars, Called, ForkServer, RestUnchanged,
       CasesUnchanged, Request, Preempt, OrphanLoadEnds, OrphanSamples, OthersUnchanged
  <2> QED
    BY <1>0, <1>9, <2>1
<1> QED
  BY <1>1, <1>4, <1>5, <1>6, <1>7, <1>8, <1>9, OthersSteps DEF BoundarySteps

LEMMA ToldKept ==
  ASSUME NEW l \in DOMAIN Launches, LaunchTold(l), lines \subseteq lines', failed \subseteq failed',
         layouts'[l] = layouts[l]
  PROVE  LaunchTold(l)'
  BY DEF LaunchTold, CaseTold, CaseIsOk, HasLine

\* No line, and the launch goes on or boundary.sh ends.
LEMMA LinesKept ==
  ASSUME DInv, driver = "boundary.sh", driver' = driver, LinesSoFar, 
         UNCHANGED <<entry, launch, layouts, lines, failed>>,
         runs' = runs \/ (runs' # 0 /\ runs # 0),
         pc' \in Unread => pc \in Unread,
         pc' \in BeforeCase \union {"case"} => pc \in BeforeCase \union {"case"},
         \/ (pc' \in {"stop", "look"} /\ ~leaving') \/ pc' = "end" \/ finished' =>
              (pc \in {"stop", "look"} /\ ~leaving) \/ pc = "end" \/ finished
         \/ LaunchTold(launch)
  PROVE  LinesSoFar'
<1>1. \A l : LaunchTold(l)' = LaunchTold(l)
  BY DEF LaunchTold, CaseTold, CaseIsOk, HasLine
<1>2. \A l, k : CaseIsOk(l, k)' = CaseIsOk(l, k)
  BY DEF CaseIsOk
<1> QED
  BY <1>1, <1>2 DEF LinesSoFar, Table, HasLine

\* run_launch gives up, having said why.
LEMMA GiveUpTold ==
  ASSUME DInv, PlacesKnown, driver = "boundary.sh", driver' = driver, LinesSoFar, GiveUp,
         UNCHANGED <<entry, launch, layouts, runs>>, runs # 0, ~finished', entry \in DOMAIN Table,
         lines \subseteq lines', \A l, k : CaseIsOk(l, k)' => CaseIsOk(l, k),
         \A k \in DOMAIN Table : CaseTold(launch, k)'
  PROVE  LinesSoFar'
<1>1. failed' = failed \union {launch} /\ pc' = "stop" /\ launch \in DOMAIN Launches
  BY DInvParts DEF GiveUp, Goto
<1>2. LaunchTold(launch)'
  BY <1>1 DEF LaunchTold, Table
<1>3. ~CaseIsOk(launch, entry)
  <2>1. \A l \in DOMAIN Launches : \A k \in DOMAIN Launches[l] :
           CaseIsOk(l, k) => l < launch \/ (l = launch /\ k < entry)
    BY DEF LinesSoFar
  <2>2. entry \in DOMAIN Launches[launch]
    BY DEF Table
  <2>3. CaseIsOk(launch, entry) => launch < launch \/ (launch = launch /\ entry < entry)
    BY <1>1, <2>1, <2>2, Zenon
  <2>4. launch \in Nat /\ entry \in Nat
    BY <1>1, DInvParts, TablesTyped DEF Table
  <2> QED
    BY <2>3, <2>4
<1>4. \A l \in DOMAIN Launches : l < launch => LaunchTold(l)'
  BY <1>1, ToldKept DEF LinesSoFar
<1>5. \A l \in failed' :
         /\ l <= launch
         /\ \E k \in DOMAIN Launches[l] : ~CaseIsOk(l, k)'
  <2>1. ASSUME NEW l \in failed PROVE l <= launch /\ \E k \in DOMAIN Launches[l] : ~CaseIsOk(l, k)'
    BY <2>1 DEF LinesSoFar
  <2>2. launch <= launch /\ \E k \in DOMAIN Launches[launch] : ~CaseIsOk(launch, k)'
    BY <1>3, DInvParts, TablesTyped DEF Table
  <2> QED
    BY <1>1, <2>1, <2>2
<1>6. \A k \in DOMAIN Table : k < entry =>
         /\ HasLine(launch, Table[k], {"ok", "failed"})'
         /\ launch \in failed'
  BY <1>1 DEF LinesSoFar, HasLine, Table
<1>7. \A l \in DOMAIN Launches : \A k \in DOMAIN Launches[l] :
         CaseIsOk(l, k)' => l < launch \/ (l = launch /\ k < entry)
  BY DEF LinesSoFar
<1>8. \A l \in DOMAIN Launches : l > launch => layouts[l] = <<>>
  BY DEF LinesSoFar
<1> QED
  BY <1>1, <1>2, <1>4, <1>5, <1>6, <1>7, <1>8 DEF LinesSoFar, Table, Unread, BeforeCase

\* A case is over and the launch goes on: its line is `ok', or it is `failed'
\* and the launch too.
LEMMA CaseLineTold ==
  ASSUME DInv, PlacesKnown, driver = "boundary.sh", driver' = driver, LinesSoFar, CaseOk \/ CaseFailed
  PROVE  LinesSoFar'
<1>1. PICK w \in {"ok", "failed"} :
        /\ lines' = lines \union {<<launch, Table[entry], w>>}
        /\ failed' = IF w = "ok" THEN failed ELSE failed \union {launch}
        /\ pc = "case" /\ pc' = "loop" /\ entry' = entry + 1
        /\ UNCHANGED <<launch, leaving, layouts, finished, runs>>
  BY DEF CaseOk, CaseFailed, Says, Goto, RestUnchanged
<1>2. /\ entry \in DOMAIN Table /\ launch \in DOMAIN Launches /\ entry \in Nat
      /\ runs # 0 /\ ~finished
  BY <1>1, DInvParts DEF PlacesKnown, StopsFirst
<1>3. \A l \in DOMAIN Launches : \A k \in DOMAIN Launches[l] :
        CaseIsOk(l, k)' => CaseIsOk(l, k) \/ (l = launch /\ k = entry /\ w = "ok")
  BY <1>1, <1>2, LaunchesAssumption DEF CaseIsOk, Table
<1>4. \A l, k : CaseIsOk(l, k) => CaseIsOk(l, k)'
  BY <1>1 DEF CaseIsOk
<1>5. \A l \in DOMAIN Launches : l < launch => LaunchTold(l)'
  BY <1>1, ToldKept DEF LinesSoFar
<1>6. \A k \in DOMAIN Table : k < entry' =>
         /\ HasLine(launch, Table[k], {"ok", "failed"})'
         /\ launch \in failed' \/ CaseIsOk(launch, k)'
  <2> SUFFICES ASSUME NEW k \in DOMAIN Table, k < entry'
               PROVE  /\ HasLine(launch, Table[k], {"ok", "failed"})'
                      /\ launch \in failed' \/ CaseIsOk(launch, k)'
    OBVIOUS
  <2>1. CASE k < entry
    BY <1>1, <1>4, <2>1 DEF LinesSoFar, HasLine, Table
  <2>2. CASE k = entry
    BY <1>1, <2>2 DEF HasLine, CaseIsOk, Table
  <2>3. k \in Nat
    BY <1>2, TablesTyped DEF Table
  <2> QED
    BY <1>1, <1>2, <2>1, <2>2, <2>3
<1>7. \A l \in failed' :
         /\ l <= launch
         /\ \E k \in DOMAIN Launches[l] : ~CaseIsOk(l, k)' /\ (l < launch \/ k < entry')
  <2>1. ASSUME NEW l \in failed
        PROVE  /\ l <= launch
               /\ \E k \in DOMAIN Launches[l] : ~CaseIsOk(l, k)' /\ (l < launch \/ k < entry')
    <3>1. PICK k \in DOMAIN Launches[l] : ~CaseIsOk(l, k) /\ (l < launch \/ k < entry)
      BY <1>1 DEF LinesSoFar
    <3>2. l <= launch /\ l \in DOMAIN Launches
      BY DInvParts DEF LinesSoFar, TypeOK
    <3>3. ~CaseIsOk(l, k)'
      BY <1>2, <1>3, <3>1, <3>2, TablesTyped
    <3>4. k < entry => k < entry'
      BY <1>1, <1>2, <3>2, TablesTyped
    <3> QED
      BY <3>1, <3>2, <3>3, <3>4
  <2>2. ASSUME w = "failed"
        PROVE  \E k \in DOMAIN Launches[launch] : ~CaseIsOk(launch, k)' /\ k < entry'
    <3>1. PICK k \in DOMAIN Launches[launch] : k = entry
      BY <1>2 DEF Table
    <3>2. ~CaseIsOk(launch, k)
      BY <1>2, <3>1, TablesTyped DEF LinesSoFar
    <3>3. ~CaseIsOk(launch, k)'
      BY <1>1, <1>2, <1>3, <2>2, <3>2
    <3> QED
      BY <1>1, <1>2, <3>1, <3>3
  <2>3. launch <= launch
    BY <1>2, TablesTyped
  <2> QED
    BY <1>1, <2>1, <2>2, <2>3
<1>8. \A l \in DOMAIN Launches : \A k \in DOMAIN Launches[l] :
         CaseIsOk(l, k)' => l < launch \/ (l = launch /\ k < entry')
  <2> SUFFICES ASSUME NEW l \in DOMAIN Launches, NEW k \in DOMAIN Launches[l], CaseIsOk(l, k)'
               PROVE  l < launch \/ (l = launch /\ k < entry')
    OBVIOUS
  <2>1. k \in Nat
    BY TablesTyped
  <2>2. l < launch \/ (l = launch /\ k < entry) \/ (l = launch /\ k = entry)
    BY <1>3 DEF LinesSoFar
  <2> QED
    BY <1>1, <1>2, <2>1, <2>2
<1>9. \A l \in DOMAIN Launches : l > launch => layouts[l] = <<>>
  BY DEF LinesSoFar
<1> QED
  BY <1>1, <1>2, <1>5, <1>6, <1>7, <1>8, <1>9 DEF LinesSoFar, Table, Unread, BeforeCase

\* run_launch gives up at one of four places, or after a case.
LEMMA GiveUpSteps ==
  ASSUME DInv, PlacesKnown, driver = "boundary.sh", driver' = driver, LinesSoFar,
         StartupFails \/ DoesNotRespond \/ LayoutUnread \/ CaseNotDrained
           \/ (JudgeLayout /\ ~CheckLayout(layouts[launch], Pools[launch]))
  PROVE  LinesSoFar'
<1>1. /\ GiveUp /\ UNCHANGED <<entry, launch, layouts, runs, finished>>
      /\ pc \in {"startup", "models", "layout", "check", "case"}
      /\ pc = "case" <=> CaseNotDrained
  BY DEF StartupFails, DoesNotRespond, LayoutUnread, CaseNotDrained, JudgeLayout, RestUnchanged
<1>2. runs # 0 /\ ~finished' /\ launch \in DOMAIN Launches
  BY <1>1, DInvParts DEF StopsFirst
<1>3. entry \in DOMAIN Table
  BY <1>1, <1>2, TablesTyped DEF PlacesKnown, Unread, Table
<1>4. \/ LayoutUnread /\ UNCHANGED lines
      \/ \E w \in {"server-startup-failed", "server-not-responding", "layout-mismatch"} :
           lines' = lines \union {<<launch, 0, w>>}
      \/ CaseNotDrained /\ lines' = lines \union {<<launch, Table[entry], "drain-timeout">>}
  BY DEF StartupFails, DoesNotRespond, LayoutUnread, CaseNotDrained, JudgeLayout, Says
<1>5. lines \subseteq lines'
  BY <1>4
<1>6. \A l, k : CaseIsOk(l, k)' => CaseIsOk(l, k)
  BY <1>4 DEF CaseIsOk
<1>7. \A k \in DOMAIN Table : CaseTold(launch, k)'
  <2>1. CASE LayoutUnread
    <3>1. layouts[launch] = <<>>
      BY <1>2, <2>1 DEF LayoutUnread, LinesSoFar, Unread
    <3> QED
      BY <1>1, <3>1 DEF CaseTold
  <2>2. ASSUME NEW w \in {"server-startup-failed", "server-not-responding", "layout-mismatch"},
               lines' = lines \union {<<launch, 0, w>>}
        PROVE  \A k \in DOMAIN Table : CaseTold(launch, k)'
    BY <1>1, <2>2 DEF CaseTold, HasLine
  <2>3. ASSUME lines' = lines \union {<<launch, Table[entry], "drain-timeout">>}, NEW k \in DOMAIN Table
        PROVE  CaseTold(launch, k)'
    <3>1. k \in Nat /\ entry \in Nat \ {0} /\ DOMAIN Table = DOMAIN Launches[launch]
      BY <1>2, <1>3, TablesTyped, DInvParts DEF Table
    <3>2. CASE k < entry
      <4>1. HasLine(launch, Table[k], {"ok", "failed"})
        BY <3>2 DEF LinesSoFar
      <4> QED
        BY <1>1, <1>5, <4>1 DEF HasLine, CaseTold, Table
    <3>3. CASE k = entry
      BY <1>1, <2>3, <3>3 DEF HasLine, CaseTold, Table
    <3>4. CASE k > entry
      <4>1. PICK j \in 1..(k - 1) : j = entry
        BY <3>1, <3>4
      <4>2. HasLine(launch, Launches[launch][j], {"drain-timeout"})'
        BY <1>1, <2>3, <4>1 DEF HasLine, Table
      <4> QED
        BY <4>2 DEF CaseTold
    <3> QED
      BY <3>1, <3>2, <3>3, <3>4
  <2> QED
    BY <1>4, <2>1, <2>2, <2>3
<1> QED
  BY <1>1, <1>2, <1>3, <1>5, <1>6, <1>7, GiveUpTold

\* stop_server has returned.
LEMMA StoppedTold ==
  ASSUME DInv, PlacesKnown, driver = "boundary.sh", driver' = driver, LinesSoFar,
         NothingToStop \/ LookStopped
  PROVE  LinesSoFar'
<1>1. /\ Stopped /\ pc \in {"stop", "look"} /\ UNCHANGED <<layouts, lines, failed, leaving, finished, runs>>
  BY DEF NothingToStop, LookStopped, Stopped, RestUnchanged
<1>2. ~finished /\ runs # 0 /\ launch \in DOMAIN Launches
  BY <1>1, DInvParts DEF StopsFirst
<1>3. CASE leaving \/ launch = Len(Launches)
  <2>1. UNCHANGED <<launch, entry>> /\ pc' = IF leaving THEN "idle" ELSE "end"
    BY <1>1, <1>3 DEF Stopped
  <2> QED
    BY <1>1, <1>2, <2>1, LinesKept DEF Unread, BeforeCase
<1>4. CASE ~leaving /\ launch # Len(Launches)
  <2>1. launch' = launch + 1 /\ entry' = 1 /\ pc' = "launch" /\ LaunchTold(launch)
    BY <1>1, <1>4 DEF Stopped, LinesSoFar
  <2>2. launch' \in DOMAIN Launches /\ launch \in Nat
    BY <1>2, <1>4, <2>1, TablesTyped
  <2>3. ASSUME NEW l \in DOMAIN Launches, l < launch' PROVE LaunchTold(l)'
    <3>1. l < launch \/ l = launch
      BY <2>1, <2>2, <2>3, TablesTyped
    <3>2. LaunchTold(l)
      BY <2>1, <3>1 DEF LinesSoFar
    <3> QED
      BY <1>1, <3>2, ToldKept
  <2>4. \A l \in DOMAIN Launches : \A k \in DOMAIN Launches[l] : CaseIsOk(l, k)' => l < launch'
    <3> SUFFICES ASSUME NEW l \in DOMAIN Launches, NEW k \in DOMAIN Launches[l], CaseIsOk(l, k)'
                 PROVE  l < launch'
      OBVIOUS
    <3>1. CaseIsOk(l, k)
      BY <1>1 DEF CaseIsOk
    <3>2. l < launch \/ l = launch
      BY <3>1 DEF LinesSoFar
    <3> QED
      BY <2>1, <2>2, <3>2, TablesTyped
  <2>5. \A l \in failed : l < launch' /\ \E k \in DOMAIN Launches[l] : ~CaseIsOk(l, k)'
    <3> SUFFICES ASSUME NEW l \in failed PROVE l < launch' /\ \E k \in DOMAIN Launches[l] : ~CaseIsOk(l, k)'
      OBVIOUS
    <3>1. l \in DOMAIN Launches
      BY DInvParts DEF TypeOK
    <3>2. l <= launch /\ \E k \in DOMAIN Launches[l] : ~CaseIsOk(l, k)
      BY DEF LinesSoFar
    <3>3. l < launch'
      BY <2>1, <2>2, <3>1, <3>2, TablesTyped
    <3> QED
      BY <1>1, <3>2, <3>3 DEF CaseIsOk
  <2>6. \A l \in DOMAIN Launches : l >= launch' => layouts[l] = <<>>
    <3> SUFFICES ASSUME NEW l \in DOMAIN Launches, l >= launch' PROVE layouts[l] = <<>>
      OBVIOUS
    <3>1. l > launch
      BY <2>1, <2>2, TablesTyped
    <3> QED
      BY <3>1 DEF LinesSoFar
  <2>7. \A k \in DOMAIN Table' : ~(k < entry')
    BY <2>1, <2>2, TablesTyped DEF Table
  <2>8. \A l \in DOMAIN Launches : l > launch' \/ l = launch' => layouts'[l] = <<>>
    BY <1>1, <2>2, <2>6, TablesTyped
  <2>9. \A l \in failed' : l <= launch'
    BY <1>1, <2>2, <2>5, TablesTyped, DInvParts DEF TypeOK
  <2> QED
    BY <1>1, <1>2, <2>1, <2>3, <2>4, <2>5, <2>7, <2>8, <2>9 DEF LinesSoFar
<1> QED
  BY <1>3, <1>4

LEMMA NextLinesSoFar == DInv /\ PlacesKnown /\ LinesSoFar /\ [Next]_vars => LinesSoFar'
<1> SUFFICES ASSUME DInv, PlacesKnown, LinesSoFar, [Next]_vars, driver = "boundary.sh" PROVE LinesSoFar'
  BY NextSplit DEF LinesSoFar
<1>0. UNCHANGED driver
  BY NextSplit
<1>1. runs # 0 \/ pc = "idle"
  BY DInvParts DEF StopsFirst
<1>2. CASE Begin
  <2>1. /\ runs = 0 /\ runs' = 1 /\ entry' = 1 /\ pc' = "launch" /\ pc = "idle"
        /\ UNCHANGED <<launch, layouts, lines, failed, leaving, finished>>
    BY <1>2 DEF Begin, launchVars
  <2>2. entry = 1 /\ failed = {} /\ ~leaving /\ ~finished
    BY <2>1, DInvParts DEF StopsFirst, LinesSoFar
  <2>3. \A l : LaunchTold(l)' = LaunchTold(l)
    BY <2>1 DEF LaunchTold, CaseTold, CaseIsOk, HasLine
  <2>4. \A l, k : CaseIsOk(l, k)' = CaseIsOk(l, k)
    BY <2>1 DEF CaseIsOk
  <2> QED
    BY <1>0, <2>1, <2>2, <2>3, <2>4 DEF LinesSoFar, Table, HasLine
<1>3. CASE ForkServer \/ NoteServer \/ StartupSucceeds \/ Responds \/ CallNext \/ KillServer \/ LookRefuses
  <2>1. UNCHANGED <<entry, launch, layouts, lines, failed, leaving, finished, runs>>
    BY <1>3, CallNextFacts DEF ForkServer, NoteServer, StartupSucceeds, Responds, CallNext, KillServer,
       LookRefuses, launchVars, RestUnchanged
  <2>2. /\ pc' \in Unread => pc \in Unread
        /\ pc' \in BeforeCase \union {"case"} => pc \in BeforeCase \union {"case"}
        /\ pc' \in {"stop", "look", "end"} => pc \in {"stop", "look"}
        /\ pc' # "end"
    BY <1>3 DEF ForkServer, NoteServer, StartupSucceeds, Responds, CallNext, KillServer,
       LookRefuses, Goto, Ends, Unread, BeforeCase
  <2> QED
    BY <1>0, <2>1, <2>2, LinesKept
<1>4. CASE Terminate
  <2>1. /\ UNCHANGED <<entry, launch, layouts, lines, failed, finished, runs>> /\ leaving'
        /\ pc' \in {"idle", "stop"}
    BY <1>4 DEF Terminate, RestUnchanged
  <2> QED
    BY <1>0, <2>1, LinesKept DEF Unread, BeforeCase
<1>5. CASE CasesDone
  <2>1. /\ UNCHANGED <<entry, launch, layouts, lines, failed, finished, runs>> /\ pc' = "stop"
        /\ entry > Len(Table)
    BY <1>5 DEF CasesDone, Goto, RestUnchanged, launchVars
  <2>2. \A k \in DOMAIN Table : k < entry
    BY <2>1, DInvParts, TablesTyped DEF Table
  <2>3. LaunchTold(launch)
    <3>1. \A k \in DOMAIN Table : HasLine(launch, Table[k], {"ok", "failed"})
                                  /\ (launch \in failed \/ CaseIsOk(launch, k))
      BY <2>2 DEF LinesSoFar
    <3>2. \A k \in DOMAIN Table : CaseTold(launch, k)
      BY <3>1 DEF HasLine, CaseTold, Table
    <3> QED
      BY <3>1, <3>2 DEF LaunchTold, Table
  <2> QED
    BY <1>0, <2>1, <2>3, LinesKept DEF Unread, BeforeCase
<1>6. CASE End
  <2>1. UNCHANGED <<entry, launch, layouts, lines, failed, runs>> /\ pc = "end" /\ pc' = "idle"
    BY <1>6 DEF End, Ends, launchVars
  <2> QED
    BY <1>0, <2>1, LinesKept DEF Unread, BeforeCase
<1>7. CASE SnapLayout \/ (JudgeLayout /\ CheckLayout(layouts[launch], Pools[launch]))
  <2>1. /\ UNCHANGED <<entry, launch, lines, failed, leaving, finished, runs>>
        /\ pc \in {"layout", "check"} /\ pc' \in {"check", "loop"}
        /\ \A l \in DOMAIN Launches : l # launch => layouts'[l] = layouts[l]
    BY <1>7, DInvParts DEF SnapLayout, JudgeLayout, Goto, RestUnchanged, TypeOK
  <2>2. entry = 1 /\ ~finished /\ runs # 0 /\ launch \in DOMAIN Launches
    BY <2>1, DInvParts DEF PlacesKnown, Unread, StopsFirst
  <2>3. ASSUME NEW l \in DOMAIN Launches, l < launch PROVE LaunchTold(l)'
    <3>1. l # launch
      BY <2>2, <2>3, TablesTyped
    <3> QED
      BY <2>1, <2>3, <3>1, ToldKept DEF LinesSoFar
  <2>4. \A l, k : CaseIsOk(l, k)' = CaseIsOk(l, k)
    BY <2>1 DEF CaseIsOk
  <2>5. \A l \in DOMAIN Launches : l > launch => layouts'[l] = <<>>
    BY <2>1, <2>2, TablesTyped DEF LinesSoFar
  <2> QED
    BY <1>0, <2>1, <2>2, <2>3, <2>4, <2>5 DEF LinesSoFar, Table, HasLine, Unread, BeforeCase
<1>8. CASE /\ UNCHANGED <<entry, finished, runs, launch, server, leaving, layouts, lines, failed>>
           /\ (pc' = pc /\ outcome' = outcome) \/ (pc # "idle" /\ pc' = "idle")
  <2>1. pc' = pc \/ pc' = "idle"
    BY <1>8
  <2> QED
    BY <1>0, <1>8, <2>1, LinesKept DEF Unread, BeforeCase
<1> QED
  BY <1>0, <1>2, <1>3, <1>4, <1>5, <1>6, <1>7, <1>8, OthersSteps, GiveUpSteps, StoppedTold, CaseLineTold
     DEF BoundarySteps

-----------------------------------------------------------------------------
(* What exit status 0 rests on.                                            *)

LEMMA CounterTyped ==
  ASSUME DInv, NEW c \in Cases
  PROVE  evidence[c].start \in Int /\ evidence[c].end \in Int /\ preemptions \in Int
<1>1. evidence[c] \in EvidenceRecords /\ preemptions \in Nat
  BY DInvParts
<1> QED
  BY <1>1 DEF EvidenceRecords, Counters, Missing, Empty

LEMMA NextCounterGrows == DInv /\ CounterGrows /\ [Next]_vars => CounterGrows'
<1> SUFFICES ASSUME DInv, CounterGrows, [Next]_vars PROVE CounterGrows'
  OBVIOUS
<1>1. CASE Untouched
  BY <1>1 DEF Untouched, callVars, CounterGrows
<1>2. CASE ForkServer /\ step = "none"
  BY <1>2 DEF ForkServer, RestUnchanged, CasesUnchanged, callVars, CounterGrows
<1>3. ASSUME NEW c \in Cases, Called(c) PROVE CounterGrows'
  <2>1. evidence'[c].start = Missing /\ evidence'[c].made
    BY <1>3, DInvParts DEF Called, Call, CounterGrows, EvidenceRecords
  <2> QED
    BY <1>3, <2>1, CalledFacts DEF CounterGrows, Missing
<1>4. CASE CaseSteps \/ Interrupted
  <2> DEFINE e == evidence[case]
             f == evidence'[case]
  <2>1. /\ step # "none" /\ e.made /\ f.made /\ UNCHANGED <<case, preemptions>>
        /\ \A c \in Cases : c # case => evidence'[c] = evidence[c]
        /\ f.start = e.start \/ (step = "start" /\ f.start \in {preemptions, Empty})
        /\ f.end = e.end \/ (step = "end" /\ f.end \in {preemptions, Empty})
        /\ step = "start" => e.end = Missing
    BY <1>4, CaseMoves, DInvParts DEF CallsWaitedFor, Steps
  <2>2. e.start \in Int /\ e.end \in Int /\ preemptions \in Int
    BY CounterTyped, DInvParts
  <2> HIDE DEF e, f
  <2>3. f.start >= 0 => f.start <= preemptions /\ (f.end >= 0 => f.start <= f.end)
    BY <2>1, <2>2 DEF CounterGrows, Empty, Missing, e
  <2> QED
    BY <2>1, <2>3 DEF CounterGrows, f
<1>5. ASSUME NEW c \in Cases, OrphanLoadEnds(c) PROVE CounterGrows'
  BY <1>5, OrphanFacts, DInvParts DEF CounterGrows, callVars
<1>6. ASSUME NEW c \in Cases, Request(c) \/ Preempt(c) PROVE CounterGrows'
  <2>1. /\ UNCHANGED <<step, case, evidence>>
        /\ preemptions' \in {preemptions, preemptions + 1}
    BY <1>6 DEF Request, Preempt, OthersUnchanged, callVars
  <2>2. evidence[case].start \in Int /\ preemptions \in Int
    BY CounterTyped, DInvParts
  <2> QED
    BY <2>1, <2>2 DEF CounterGrows
<1>7. ASSUME NEW c \in Cases, OrphanSamples(c) PROVE CounterGrows'
  BY <1>7, StrayFacts, DInvParts DEF CounterGrows, callVars
<1> QED
  BY <1>1, <1>2, <1>3, <1>4, <1>5, <1>6, <1>7, Kinds

\* vramfit_run_case returns 0 only over evidence that stands.
LEMMA NextReturnStands ==
  ASSUME DInv, CounterGrows, [Next]_vars, step = "none" /\ returned0 => Stands(evidence[case])
  PROVE  step' = "none" /\ returned0' => Stands(evidence'[case'])
<1>1. CASE UNCHANGED <<callVars, evidence>>
  BY <1>1 DEF callVars
<1>2. ASSUME NEW c \in Cases, Called(c) PROVE ~returned0'
  BY <1>2, CalledFacts
<1>3. ASSUME CaseSteps \/ Interrupted, returned0' PROVE Stands(evidence'[case'])
  <2> DEFINE e == evidence[case]
             f == evidence'[case]
  <2>1. /\ step # "none" /\ UNCHANGED case
        /\ f.recorded /\ f.exit = 0 /\ f.drained /\ Succeeds(f.report) /\ f.start = e.start /\ f.end = e.end
    BY <1>3, CaseMoves
  <2>2. e.start >= 0 /\ e.end >= 0 => e.start <= e.end
    BY <2>1 DEF CounterGrows
  <2> HIDE DEF e
  <2> QED
    BY <2>1, <2>2 DEF Stands
<1>4. ASSUME NEW c \in Cases, OrphanLoadEnds(c), step' = "none", returned0' PROVE Stands(evidence'[case'])
  <2>1. step = "none" /\ returned0 /\ UNCHANGED case
    BY <1>4, OrphanFacts DEF callVars
  <2>2. c # case
    BY <1>4, <2>1, OrphanFacts DEF Stands
  <2> QED
    BY <1>4, <2>1, <2>2, OrphanFacts, DInvParts
<1>5. ASSUME NEW c \in Cases, OrphanSamples(c), step' = "none", returned0' PROVE Stands(evidence'[case'])
  <2>1. step = "none" /\ returned0 /\ UNCHANGED case
    BY <1>5, StrayFacts DEF callVars
  <2>2. c # case
    BY <1>5, <2>1, StrayFacts DEF Stands
  <2> QED
    BY <1>5, <2>1, <2>2, StrayFacts, DInvParts
<1> QED
  BY <1>1, <1>2, <1>3, <1>4, <1>5, Kinds DEF Untouched, ForkServer, RestUnchanged, CasesUnchanged, Request,
     Preempt, OthersUnchanged

LEMMA NextOkStands ==
  DInv /\ PlacesKnown /\ LinesSoFar /\ CounterGrows /\ OkStands /\ [Next]_vars => OkStands'
<1> SUFFICES ASSUME DInv, PlacesKnown, LinesSoFar, CounterGrows, OkStands, [Next]_vars PROVE OkStands'
  OBVIOUS
<1>1. step' = "none" /\ returned0' => Stands(evidence'[case'])
  BY NextReturnStands DEF OkStands
<1> SUFFICES ASSUME driver = "boundary.sh"
             PROVE  /\ pc' \in {"loop", "case"} => CheckLayout(layouts'[launch'], Pools[launch'])
                    /\ \A l \in DOMAIN Launches : \A k \in DOMAIN Launches[l] :
                         CaseIsOk(l, k)' => Stands(evidence'[Launches[l][k]])
                                            /\ CheckLayout(layouts'[l], Pools[l])
  BY <1>1, NextSplit DEF OkStands
\* The cases that were ok before this step.
<1>2. ASSUME NEW l \in DOMAIN Launches, NEW k \in DOMAIN Launches[l], CaseIsOk(l, k)
      PROVE  Stands(evidence'[Launches[l][k]]) /\ CheckLayout(layouts[l], Pools[l])
             /\ (l < launch \/ (l = launch /\ k < entry))
  <2>1. Launches[l][k] \in Cases
    BY TablesTyped
  <2>2. Stands(evidence[Launches[l][k]]) /\ CheckLayout(layouts[l], Pools[l])
    BY <1>2 DEF OkStands
  <2>3. evidence'[Launches[l][k]] = evidence[Launches[l][k]]
    BY <2>1, <2>2, RecordedKept DEF Stands
  <2> QED
    BY <1>2, <2>2, <2>3 DEF LinesSoFar
<1>3. ASSUME UNCHANGED layouts, \A l, k : CaseIsOk(l, k)' => CaseIsOk(l, k),
             pc' \in {"loop", "case"} => UNCHANGED launch /\ CheckLayout(layouts[launch], Pools[launch])
      PROVE  /\ pc' \in {"loop", "case"} => CheckLayout(layouts'[launch'], Pools[launch'])
             /\ \A l \in DOMAIN Launches : \A k \in DOMAIN Launches[l] :
                  CaseIsOk(l, k)' => Stands(evidence'[Launches[l][k]])
                                     /\ CheckLayout(layouts'[l], Pools[l])
  BY <1>2, <1>3
<1>4. CASE SnapLayout
  <2>1. /\ pc = "layout" /\ pc' = "check" /\ UNCHANGED lines
        /\ \A l \in DOMAIN Launches : l # launch => layouts'[l] = layouts[l]
    BY <1>4, DInvParts DEF SnapLayout, Goto, TypeOK
  <2>2. entry = 1 /\ launch \in Nat
    BY <2>1, DInvParts, TablesTyped DEF PlacesKnown, Unread
  <2>3. ASSUME NEW l \in DOMAIN Launches, NEW k \in DOMAIN Launches[l], CaseIsOk(l, k)'
        PROVE  Stands(evidence'[Launches[l][k]]) /\ CheckLayout(layouts'[l], Pools[l])
    <3>1. CaseIsOk(l, k)
      BY <2>1, <2>3 DEF CaseIsOk
    <3>2. l < launch \/ k < 1
      BY <1>2, <2>2, <3>1
    <3>3. l # launch
      BY <2>2, <3>2, TablesTyped
    <3> QED
      BY <1>2, <2>1, <3>1, <3>3
  <2> QED
    BY <2>1, <2>3
<1>5. CASE CaseOk
  <2>1. /\ pc = "case" /\ step = "none" /\ returned0 /\ UNCHANGED <<layouts, launch, evidence>>
        /\ lines' = lines \union {<<launch, Table[entry], "ok">>}
    BY <1>5 DEF CaseOk, Says, RestUnchanged, CasesUnchanged
  <2>2. Stands(evidence'[Table[entry]]) /\ CheckLayout(layouts[launch], Pools[launch])
    BY <2>1 DEF OkStands, PlacesKnown
  <2>3. ASSUME NEW l \in DOMAIN Launches, NEW k \in DOMAIN Launches[l], CaseIsOk(l, k)'
        PROVE  Stands(evidence'[Launches[l][k]]) /\ CheckLayout(layouts'[l], Pools[l])
    <3>1. CaseIsOk(l, k) \/ (l = launch /\ Launches[l][k] = Table[entry])
      BY <2>1, <2>3 DEF CaseIsOk
    <3> QED
      BY <1>2, <2>1, <2>2, <3>1
  <2> QED
    BY <2>1, <2>2, <2>3
<1>6. CASE CaseFailed \/ CaseNotDrained \/ StartupFails \/ DoesNotRespond \/ LayoutUnread \/ JudgeLayout
  <2>1. /\ UNCHANGED <<layouts, launch>>
        /\ \/ UNCHANGED lines
           \/ \E c, w : w # "ok" /\ lines' = lines \union {<<launch, c, w>>}
    BY <1>6 DEF CaseFailed, CaseNotDrained, StartupFails, DoesNotRespond, LayoutUnread, JudgeLayout, Says
  <2>2. \A l, k : CaseIsOk(l, k)' => CaseIsOk(l, k)
    BY <2>1 DEF CaseIsOk
  <2>3. pc' \in {"loop", "case"} => CheckLayout(layouts[launch], Pools[launch])
    BY <1>6 DEF CaseFailed, CaseNotDrained, StartupFails, DoesNotRespond, LayoutUnread, JudgeLayout,
       GiveUp, Goto, OkStands
  <2> QED
    BY <1>3, <2>1, <2>2, <2>3
<1>7. CASE Begin \/ ForkServer \/ NoteServer \/ StartupSucceeds \/ Responds \/ KillServer \/ LookRefuses
           \/ CasesDone \/ End \/ Terminate
  <2>1. UNCHANGED <<layouts, lines>> /\ pc' \notin {"loop", "case"}
    BY <1>7 DEF Begin, ForkServer, NoteServer, StartupSucceeds, Responds, KillServer, LookRefuses,
       CasesDone, End, Terminate, Goto, Ends, launchVars
  <2> QED
    BY <1>3, <2>1 DEF CaseIsOk
<1>8. CASE NothingToStop \/ LookStopped
  <2>1. UNCHANGED <<layouts, lines>> /\ pc' \notin {"loop", "case"}
    BY <1>8 DEF NothingToStop, LookStopped, Stopped
  <2> QED
    BY <1>3, <2>1 DEF CaseIsOk
<1>9. CASE CallNext
  <2>1. UNCHANGED <<layouts, lines, launch>> /\ pc = "loop"
    BY <1>9 DEF CallNext, launchVars
  <2> QED
    BY <1>3, <2>1 DEF CaseIsOk, OkStands
<1>10. CASE /\ UNCHANGED <<entry, finished, runs, launch, server, leaving, layouts, lines, failed>>
            /\ (pc' = pc /\ outcome' = outcome) \/ (pc # "idle" /\ pc' = "idle")
  BY <1>3, <1>10 DEF CaseIsOk, OkStands
<1> QED
  BY <1>4, <1>5, <1>6, <1>7, <1>8, <1>9, <1>10, OthersSteps DEF BoundarySteps

-----------------------------------------------------------------------------
(* What the counters measure.                                              *)

\* While no case was killed, the only GuideLLM is that of the case.
LEMMA LoadsOwn ==
  ASSUME DInv, AllRecorded, NEW c \in loads
  PROVE  c = case /\ step = "loading"
<1>1. c \in Cases /\ ~evidence[c].recorded /\ evidence[c].made
  BY DInvParts DEF NothingEarly
<1>2. c = case /\ step # "none"
  BY <1>1 DEF AllRecorded, DirectoriesMade
<1> QED
  BY <1>2, DInvParts DEF NothingEarly

\* A case is called when the engine is idle.
LEMMA CalledIdle ==
  ASSUME DInv, RequestsKnown, TableInOrder, OwnEngine, AllRecorded, NEW c \in Cases, Called(c)
  PROVE  requests = {}
<1>1. driver \in {"run.sh", "boundary.sh"} /\ requests \subseteq Cases
  BY DInvParts DEF TypeOK
<1>2. CASE driver = "boundary.sh"
  BY <1>2 DEF OwnEngine, Called, BeforeCase
<1>3. CASE driver = "run.sh"
  <2>1. /\ entry \in DOMAIN RunTable /\ c = RunTable[entry] /\ ~evidence[c].made /\ pc = "loop"
        /\ step = "none"
    BY <1>3 DEF Called
  <2> SUFFICES ASSUME NEW d \in requests PROVE FALSE
    OBVIOUS
  <2>2. /\ d \in Cases /\ evidence[d].made /\ evidence[d].recorded /\ ~evidence[d].drained
    BY <1>1, <2>1 DEF RequestsKnown, AllRecorded, DirectoriesMade
  <2>3. PICK j \in DOMAIN RunTable : d = RunTable[j]
    BY <1>3, <2>2 DEF TableInOrder, DirectoriesMade
  <2>4. j \in Nat /\ entry \in Nat /\ entry >= 1
    BY <2>1, TablesTyped
  <2>5. CASE j < entry
    BY <1>3, <2>1, <2>2, <2>3, <2>5, DInvParts DEF SavedSoFar, IsSaved
  <2>6. CASE j > entry
    <3>1. entry \in 1..(j - 1)
      BY <2>4, <2>6
    <3> QED
      BY <1>3, <2>1, <2>2, <2>3, <3>1 DEF TableInOrder, IsSaved
  <2>7. CASE j = entry
    BY <2>1, <2>2, <2>3, <2>7
  <2> QED
    BY <2>4, <2>5, <2>6, <2>7
<1> QED
  BY <1>1, <1>2, <1>3

\* When boundary.sh is past a case of which every one so far has drained.
LEMMA CaseOverIdle ==
  ASSUME DInv, PlacesKnown, OkStands, RequestsKnown, OwnEngine, AllRecorded, driver = "boundary.sh",
         CaseOk \/ CaseFailed
  PROVE  requests = {}
<1>1. pc = "case" /\ step = "none" /\ case = Table[entry] /\ requests \subseteq {case}
  BY DEF CaseOk, CaseFailed, PlacesKnown, OwnEngine
<1> SUFFICES ASSUME case \in requests PROVE FALSE
  BY <1>1
<1>2. evidence[case].recorded /\ ~evidence[case].drained
  BY <1>1, DInvParts DEF RequestsKnown, AllRecorded, DirectoriesMade
<1>3. CASE CaseOk
  BY <1>2, <1>3 DEF CaseOk, OkStands, Stands
<1>4. CASE CaseFailed
  BY <1>1, <1>2, <1>4 DEF CaseFailed, Undrained
<1> QED
  BY <1>3, <1>4

\* Whose requests there may be after a step.
LEMMA NextRequests ==
  ASSUME DInv, RequestsKnown, TableInOrder, OwnEngine, AllRecorded, [Next]_vars
  PROVE  /\ step' # "none" => requests' \subseteq {case'}
         /\ step = "none" /\ step' = "none" => requests' \subseteq requests
         /\ step # "none" => UNCHANGED case
         /\ UNCHANGED case => requests' \subseteq requests \union {case}
         /\ step' = "none" => UNCHANGED case
<1>1. CASE Untouched \/ (ForkServer /\ step = "none")
  BY <1>1 DEF Untouched, ForkServer, RestUnchanged, CasesUnchanged, callVars, OwnEngine
<1>2. ASSUME NEW c \in Cases, Called(c)
      PROVE  requests' = {} /\ step = "none" /\ step' # "none"
  BY <1>2, CalledIdle, CalledFacts DEF Called
<1>3. CASE CaseSteps \/ Interrupted
  <2>1. step # "none" /\ UNCHANGED <<case, requests>>
    BY <1>3, CaseMoves
  <2> QED
    BY <2>1 DEF OwnEngine
<1>4. ASSUME NEW c \in Cases, OrphanLoadEnds(c) \/ OrphanSamples(c) \/ Preempt(c)
      PROVE  UNCHANGED <<step, case, requests>>
  BY <1>4 DEF OrphanLoadEnds, OrphanSamples, Preempt, OthersUnchanged, callVars, engineVars
<1>5. ASSUME NEW c \in Cases, Request(c)
      PROVE  UNCHANGED <<step, case>> /\ requests' = requests \union {case} /\ step = "loading"
  BY <1>5, LoadsOwn DEF Request, OthersUnchanged, callVars
<1> QED
  BY <1>1, <1>2, <1>3, <1>4, <1>5, Kinds DEF OwnEngine

LEMMA NextOwnEngine ==
  DInv /\ PlacesKnown /\ OkStands /\ RequestsKnown /\ TableInOrder /\ OwnEngine /\ [Next]_vars => OwnEngine'
<1> SUFFICES ASSUME DInv, PlacesKnown, OkStands, RequestsKnown, TableInOrder, OwnEngine, [Next]_vars,
                    AllRecorded'
             PROVE  OwnEngine'
  BY DEF OwnEngine
<1>1. AllRecorded
  BY AllRecordedBefore
<1>2. /\ step' # "none" => requests' \subseteq {case'}
      /\ step = "none" /\ step' = "none" => requests' \subseteq requests
      /\ step # "none" => UNCHANGED case
      /\ UNCHANGED case => requests' \subseteq requests \union {case}
      /\ step' = "none" => UNCHANGED case
  BY <1>1, NextRequests
<1> SUFFICES ASSUME driver = "boundary.sh"
             PROVE  /\ pc' \in BeforeCase \ {"launch"} => requests' = {}
                    /\ pc' = "case" => requests' \subseteq {case'}
  BY <1>2, NextSplit DEF OwnEngine
<1>3. step # "none" => pc \in {"case", "idle"}
  BY DInvParts DEF CallsWaitedFor
<1> USE DEF BeforeCase
<1>4. CASE ForkServer
  BY <1>4 DEF ForkServer, Goto
<1>5. CASE CaseOk \/ CaseFailed
  <2>1. requests' = {} /\ pc' = "loop"
    BY <1>1, <1>5, CaseOverIdle DEF CaseOk, CaseFailed, Goto, EngineUnchanged, engineVars
  <2> QED
    BY <2>1
<1>6. CASE CallNext
  <2>1. requests = {} /\ pc' = "case"
    BY <1>1, <1>6, CallNextFacts DEF OwnEngine
  <2>2. step' # "none"
    BY <1>6 DEF CallNext, Call
  <2> QED
    BY <1>2, <2>1, <2>2
<1>7. ASSUME UNCHANGED requests, pc' \in BeforeCase \ {"launch"} => pc \in BeforeCase \ {"launch"},
             pc' # "case"
      PROVE  /\ pc' \in BeforeCase \ {"launch"} => requests' = {}
             /\ pc' = "case" => requests' \subseteq {case'}
  BY <1>1, <1>7 DEF OwnEngine
<1>8. CASE Begin \/ NoteServer \/ StartupSucceeds \/ StartupFails \/ Responds \/ DoesNotRespond
           \/ SnapLayout \/ LayoutUnread \/ JudgeLayout
  <2>1. UNCHANGED requests
    BY <1>8 DEF Begin, NoteServer, StartupSucceeds, StartupFails, Responds, DoesNotRespond,
       SnapLayout, LayoutUnread, JudgeLayout, EngineUnchanged, engineVars, caseRunVars
  <2>2. pc' # "case" /\ (pc' \in BeforeCase \ {"launch"} => pc \in BeforeCase \ {"launch"})
    BY <1>8 DEF Begin, NoteServer, StartupSucceeds, StartupFails, Responds, DoesNotRespond,
       SnapLayout, LayoutUnread, JudgeLayout, Goto, GiveUp
  <2> QED
    BY <1>7, <2>1, <2>2
<1>9. CASE CaseNotDrained \/ CasesDone \/ KillServer \/ LookRefuses \/ End \/ Terminate
  <2>1. UNCHANGED requests
    BY <1>9 DEF CaseNotDrained, CasesDone, KillServer, LookRefuses, End, Terminate, EngineUnchanged,
       engineVars
  <2>2. pc' \in {"stop", "look", "idle"}
    BY <1>9 DEF CaseNotDrained, CasesDone, KillServer, LookRefuses, End, Terminate, Goto, GiveUp, Ends
  <2> QED
    BY <1>7, <2>1, <2>2
<1>10. CASE NothingToStop \/ LookStopped
  <2>1. UNCHANGED requests
    BY <1>10 DEF NothingToStop, LookStopped, EngineUnchanged, engineVars
  <2>2. pc' \in {"idle", "end", "launch"}
    BY <1>10 DEF NothingToStop, LookStopped, Stopped
  <2> QED
    BY <1>7, <2>1, <2>2
\* Others than boundary.sh.
<1>11. CASE (pc' = pc /\ outcome' = outcome) \/ (pc # "idle" /\ pc' = "idle")
  <2>1. CASE pc' \in BeforeCase \ {"launch"}
    <3>1. pc = pc' /\ step = "none" /\ requests = {}
      BY <1>1, <1>3, <1>11, <2>1 DEF OwnEngine
    <3>2. requests' = {} \/ step' # "none"
      BY <1>2, <3>1
    <3>3. step' # "none" => \E c \in Cases : Called(c)
      BY <3>1, Kinds, CaseStepFacts, DInvParts DEF Untouched, callVars, ForkServer, RestUnchanged,
         CasesUnchanged, Request, Preempt, OrphanLoadEnds, OrphanSamples, OthersUnchanged
    <3>4. step' # "none" => pc' = "case"
      BY <3>3 DEF Called
    <3> QED
      BY <2>1, <3>2, <3>4
  <2>2. CASE pc' = "case"
    <3>1. pc = "case" /\ requests \subseteq {case}
      BY <1>1, <1>11, <2>2 DEF OwnEngine
    <3>2. CASE step' # "none"
      BY <1>2, <2>2, <3>2
    <3>3. CASE step' = "none"
      <4>1. UNCHANGED case /\ requests' \subseteq requests \union {case}
        BY <1>2, <3>3
      <4> QED
        BY <2>2, <3>1, <4>1
    <3> QED
      BY <3>2, <3>3
  <2> QED
    BY <2>1, <2>2
<1> QED
  BY <1>4, <1>5, <1>6, <1>8, <1>9, <1>10, <1>11, OthersSteps DEF BoundarySteps

LEMMA NextCountsOwn ==
  /\ DInv /\ RequestsKnown /\ TableInOrder /\ OwnEngine /\ CounterGrows /\ CountsOwn
  /\ [Next]_vars
  => CountsOwn'
<1> SUFFICES ASSUME DInv, RequestsKnown, TableInOrder, OwnEngine, CounterGrows, CountsOwn, [Next]_vars,
                    AllRecorded'
             PROVE  CountsOwn'
  BY DEF CountsOwn
<1>0. AllRecorded
  BY AllRecordedBefore
<1>1. /\ step \in AfterStart /\ evidence[case].start >= 0 =>
           preemptions - evidence[case].start = suffered[case]
      /\ step = "exit" /\ idle => Measures(evidence[case], suffered[case])
      /\ \A c \in Cases : evidence[c].recorded /\ evidence[c].drained => Measures(evidence[c], suffered[c])
  BY <1>0 DEF CountsOwn
<1> SUFFICES
      /\ step' \in AfterStart /\ evidence'[case'].start >= 0 =>
           preemptions' - evidence'[case'].start = suffered'[case']
      /\ step' = "exit" /\ idle' => Measures(evidence'[case'], suffered'[case'])
      /\ \A c \in Cases : evidence'[c].recorded /\ evidence'[c].drained => Measures(evidence'[c], suffered'[c])
  BY DEF CountsOwn
<1> USE DEF Measures, Delta, AfterStart
<1>2. CASE Untouched
  BY <1>1, <1>2 DEF Untouched, callVars
<1>3. CASE ForkServer /\ step = "none"
  BY <1>1, <1>3 DEF ForkServer, RestUnchanged, CasesUnchanged, callVars
<1>4. ASSUME NEW c \in Cases, Called(c)
      PROVE  /\ step' \notin AfterStart
             /\ \A d \in Cases : evidence'[d].recorded /\ evidence'[d].drained => Measures(evidence'[d], suffered'[d])
  BY <1>1, <1>4, CalledFacts
<1>5. ASSUME NEW c \in Cases, OrphanLoadEnds(c) PROVE FALSE
  BY <1>0, <1>5, LoadsOwn, OrphanFacts
<1>6. ASSUME NEW c \in Cases, Request(c)
      PROVE  UNCHANGED <<callVars, evidence, preemptions, suffered>>
  BY <1>6 DEF Request, OthersUnchanged
\* The counter grows by a preemption of the case.
<1>7. ASSUME NEW c \in Cases, Preempt(c)
      PROVE  /\ step' \in AfterStart /\ evidence'[case'].start >= 0 =>
                  preemptions' - evidence'[case'].start = suffered'[case']
             /\ step' = "exit" /\ idle' => Measures(evidence'[case'], suffered'[case'])
             /\ \A d \in Cases : evidence'[d].recorded /\ evidence'[d].drained => Measures(evidence'[d], suffered'[d])
  <2>1. /\ c \in requests /\ preemptions' = preemptions + 1
        /\ suffered' = [suffered EXCEPT ![c] = @ + 1]
        /\ UNCHANGED <<step, case, idle, evidence>>
    BY <1>7 DEF Preempt, OthersUnchanged, callVars
  <2>2. \A d \in Cases : evidence[d].recorded /\ evidence[d].drained => suffered'[d] = suffered[d]
    BY <2>1, DInvParts DEF RequestsKnown
  <2>3. step = "exit" /\ idle => suffered'[case] = suffered[case]
    BY <2>1, DInvParts DEF RequestsKnown
  <2>4. step # "none" => suffered'[case] = suffered[case] + 1
    BY <1>0, <2>1, DInvParts DEF OwnEngine
  <2>5. /\ preemptions \in Int /\ evidence[case].start \in Int /\ suffered[case] \in Int
    BY CounterTyped, DInvParts
  <2>6. step' \in AfterStart /\ evidence'[case'].start >= 0 =>
          preemptions' - evidence'[case'].start = suffered'[case']
    BY <1>1, <2>1, <2>4, <2>5
  <2> QED
    BY <1>1, <2>1, <2>2, <2>3, <2>6
<1>8. CASE CaseSteps \/ Interrupted
  <2> DEFINE e == evidence[case]
             f == evidence'[case]
  <2>1. /\ step # "none" /\ ~e.recorded
        /\ UNCHANGED <<case, requests, preemptions, suffered>>
        /\ \A c \in Cases : c # case => evidence'[c] = evidence[c]
        /\ \/ f.start = e.start /\ step' # "fork"
           \/ step = "start" /\ step' = "fork" /\ f.start \in {preemptions, Empty}
        /\ \/ f.end = e.end /\ step' # "exit"
           \/ step = "end" /\ step' = "exit" /\ f.end \in {preemptions, Empty}
        /\ f.recorded => step' = "none" /\ (f.drained => idle)
        /\ idle' => idle \/ (step = "drain" /\ step' = "stop" /\ requests = {})
        /\ step' \in AfterStart => step \in AfterStart \/ step' = "fork"
    BY <1>8, CaseMoves
  <2>2. e.start \in Int /\ e.end \in Int /\ preemptions \in Int /\ suffered[case] \in Int
    BY CounterTyped, DInvParts
  <2>3. /\ step # "exit" => e.end = Missing
        /\ step \in {"made", "start"} => suffered[case] = 0
    BY <2>1, DInvParts DEF CallsWaitedFor, RequestsKnown, BeforeLoad
  <2> HIDE DEF e, f
  <2>4. step' \in AfterStart /\ f.start >= 0 => preemptions - f.start = suffered[case]
    <3>1. CASE step' = "fork"
      BY <2>1, <2>2, <2>3, <3>1 DEF Empty
    <3>2. CASE step' # "fork"
      BY <1>1, <2>1, <3>2 DEF e
    <3> QED
      BY <3>1, <3>2
  <2>5. step' = "exit" /\ idle' /\ f.start >= 0 /\ f.end >= 0 => f.end - f.start = suffered[case]
    BY <1>1, <2>1, <2>2 DEF Empty, e
  <2>6. f.recorded /\ f.drained /\ f.start >= 0 /\ f.end >= 0 => f.end - f.start = suffered[case]
    BY <1>1, <2>1, <2>3 DEF Missing, e
  <2> QED
    BY <1>1, <2>1, <2>4, <2>5, <2>6 DEF f
<1>9. ASSUME NEW c \in Cases, OrphanSamples(c)
      PROVE  /\ step' \in AfterStart /\ evidence'[case'].start >= 0 =>
                  preemptions' - evidence'[case'].start = suffered'[case']
             /\ step' = "exit" /\ idle' => Measures(evidence'[case'], suffered'[case'])
             /\ \A d \in Cases : evidence'[d].recorded /\ evidence'[d].drained => Measures(evidence'[d], suffered'[d])
  BY <1>1, <1>9, StrayFacts, DInvParts DEF callVars
<1> QED
  BY <1>1, <1>2, <1>3, <1>4, <1>5, <1>6, <1>7, <1>8, <1>9, Kinds DEF callVars

-----------------------------------------------------------------------------
(* The invariants together, and what they imply.                           *)

EvidenceInv ==
  /\ PlacesKnown /\ LinesSoFar
  /\ CounterGrows /\ OkStands
  /\ RequestsKnown /\ TableInOrder
  /\ OwnEngine /\ CountsOwn

LEMMA InitEvidenceInv == Init => EvidenceInv
<1> SUFFICES ASSUME Init PROVE EvidenceInv
  OBVIOUS
<1> USE DEF Init, CaseInit
<1>1. \A c \in Cases : evidence[c] = Nothing
  OBVIOUS
<1>2. PlacesKnown
  BY DEF PlacesKnown, Unread
<1>3. LinesSoFar
  <2>1. \A l \in DOMAIN Launches : layouts[l] = <<>>
    OBVIOUS
  <2>2. \A l \in DOMAIN Launches : ~(l < launch)
    BY TablesTyped
  <2>3. \A k \in DOMAIN Table : ~(k < entry)
    <3>1. launch \in DOMAIN Launches
      BY InitTypeOK DEF TypeOK
    <3> QED
      BY <3>1, TablesTyped DEF Table
  <2> QED
    BY <2>1, <2>2, <2>3 DEF LinesSoFar, CaseIsOk
<1>4. CounterGrows /\ OkStands
  BY <1>1 DEF CounterGrows, OkStands, CaseIsOk, Nothing
<1>5. RequestsKnown /\ TableInOrder /\ OwnEngine /\ CountsOwn
  <2>1. RequestsKnown
    BY DEF RequestsKnown, BeforeLoad
  <2>2. TableInOrder
    BY <1>1, TablesTyped DEF TableInOrder, DirectoriesMade, Nothing
  <2>3. OwnEngine /\ CountsOwn
    BY <1>1 DEF OwnEngine, CountsOwn, AfterStart, Nothing
  <2> QED
    BY <2>1, <2>2, <2>3
<1> QED
  BY <1>2, <1>3, <1>4, <1>5 DEF EvidenceInv

LEMMA EvidenceInvAlways == Spec => [](DInv /\ EvidenceInv)
<1>1. DInv /\ EvidenceInv /\ [Next]_vars => EvidenceInv'
  BY NextPlacesKnown, NextLinesSoFar, NextCounterGrows, NextOkStands, NextRequestsKnown,
     NextTableInOrder, NextOwnEngine, NextCountsOwn DEF EvidenceInv
<1> QED
  BY <1>1, InitEvidenceInv, DInvAlways, PTL DEF Spec

LEMMA ManifestFollows == DInv /\ EvidenceInv => ManifestAccounts
<1> SUFFICES ASSUME DInv, EvidenceInv, driver = "boundary.sh", finished
             PROVE  /\ \A l \in DOMAIN Launches : \A k \in DOMAIN Launches[l] : CaseTold(l, k)
                    /\ (outcome = "success") <=>
                         \A l \in DOMAIN Launches : \A k \in DOMAIN Launches[l] : CaseIsOk(l, k)
  BY DEF ManifestAccounts, CaseTold, CaseIsOk, HasLine
<1>1. PlacesKnown /\ LinesSoFar
  BY DEF EvidenceInv
<1>2. \A l \in DOMAIN Launches : LaunchTold(l)
  <2> SUFFICES ASSUME NEW l \in DOMAIN Launches PROVE LaunchTold(l)
    OBVIOUS
  <2>1. launch = Len(Launches) /\ (l < launch \/ l = launch)
    BY <1>1, TablesTyped DEF PlacesKnown
  <2> QED
    BY <1>1, <2>1 DEF LinesSoFar
<1>3. ASSUME failed = {}
      PROVE  \A l \in DOMAIN Launches : \A k \in DOMAIN Launches[l] : CaseIsOk(l, k)
  BY <1>2, <1>3 DEF LaunchTold
<1>4. ASSUME NEW l \in failed
      PROVE  ~ \A m \in DOMAIN Launches : \A k \in DOMAIN Launches[m] : CaseIsOk(m, k)
  <2>1. l \in DOMAIN Launches
    BY DInvParts DEF TypeOK
  <2> QED
    BY <1>1, <2>1 DEF LinesSoFar
<1>5. outcome = "success" <=> failed = {}
  BY <1>1 DEF PlacesKnown
<1> QED
  BY <1>2, <1>3, <1>4, <1>5 DEF LaunchTold

\* What the analysis can still find at fault with evidence that stands.
LEMMA ProblemsLeft ==
  ASSUME DInv, NEW c \in Cases, Stands(evidence[c]), NEW warmup,
         CaseProblem(evidence[c], warmup) # "none"
  PROVE  CaseProblem(evidence[c], warmup) \in {"duration", "lengths", "samples", "counter"}
<1> DEFINE e == evidence[c]
<1>1. e.start \in Int /\ e.end \in Int
  BY CounterTyped
<1>2. /\ e.recorded /\ e.exit = 0 /\ e.drained /\ e.report # NoReport
      /\ e.report.errored = 0 /\ e.report.successful > 0
      /\ e.start >= 0 /\ e.end >= 0 => e.start <= e.end
  BY DEF Stands, Succeeds
<1>3. e.report.successful \in Nat
  <2>1. e \in EvidenceRecords
    BY DInvParts
  <2>2. e.report \in {m.report : m \in Measured}
    BY <1>2, <2>1 DEF EvidenceRecords
  <2> QED
    BY <1>2, <2>2, CaseAssumption
<1> HIDE DEF e
<1>4. ~(e.report.successful <= 0)
  BY <1>2, <1>3
<1>5. ~(e.start < 0 \/ e.end < 0) => ~(e.end < e.start)
  BY <1>1, <1>2
<1>6. CaseProblem(e, warmup) \in {"duration", "lengths", "samples", "counter", "none"}
  BY <1>2, <1>4, <1>5 DEF CaseProblem
<1> QED
  BY <1>6 DEF e

LEMMA SuccessFollows == DInv /\ EvidenceInv => SuccessStandsReview
<1> SUFFICES ASSUME DInv, EvidenceInv, driver = "boundary.sh", finished, outcome = "success",
                    NEW p \in Analyze(Launches, Pools, Warmups, layouts, evidence)
             PROVE  /\ p[2] # 0
                    /\ CaseProblem(evidence[p[2]], p[2] \in Warmups)
                         \in {"duration", "lengths", "samples", "counter"}
  BY DEF SuccessStandsReview
<1>1. \A l \in DOMAIN Launches : \A k \in DOMAIN Launches[l] :
        Stands(evidence[Launches[l][k]]) /\ CheckLayout(layouts[l], Pools[l])
  <2>1. \A l \in DOMAIN Launches : \A k \in DOMAIN Launches[l] : CaseIsOk(l, k)
    BY ManifestFollows DEF ManifestAccounts, HasLine, CaseIsOk
  <2> QED
    BY <2>1 DEF EvidenceInv, OkStands
<1>2. \A l \in DOMAIN Launches : CheckLayout(layouts[l], Pools[l])
  BY <1>1, TablesTyped
<1>3. PICK l \in DOMAIN Launches : \E k \in DOMAIN Launches[l] :
        /\ CaseProblem(evidence[Launches[l][k]], Launches[l][k] \in Warmups) # "none"
        /\ p = <<l, Launches[l][k]>>
  BY <1>2 DEF Analyze
<1>4. PICK k \in DOMAIN Launches[l] :
        /\ CaseProblem(evidence[Launches[l][k]], Launches[l][k] \in Warmups) # "none"
        /\ p = <<l, Launches[l][k]>>
  BY <1>3
<1>5. p[2] = Launches[l][k] /\ p[2] \in Cases /\ p[2] # 0
  BY <1>4, TablesTyped
<1> QED
  BY <1>1, <1>4, <1>5, ProblemsLeft

LEMMA DeltaFollows == DInv /\ EvidenceInv => DeltaIsOwn
<1> SUFFICES ASSUME DInv, EvidenceInv, AllRecorded, NEW c \in Cases, Accepted(c)
             PROVE  Delta(evidence[c]) = suffered[c]
  BY DEF DeltaIsOwn
<1> DEFINE e == evidence[c]
<1>1. e.recorded /\ e.drained /\ ~(e.start < 0) /\ ~(e.end < 0)
  <2>1. CASE driver = "boundary.sh"
    <3>1. CaseProblem(e, c \in Warmups) = "none"
      BY <2>1 DEF Accepted
    <3> QED
      BY <3>1 DEF CaseProblem
  <2>2. CASE driver # "boundary.sh"
    <3>1. e.recorded /\ Saved(e) /\ e.start >= 0 /\ e.end >= 0
      BY <2>2 DEF Accepted
    <3> QED
      BY <3>1, CounterTyped DEF Saved, Undrained
  <2> QED
    BY <2>1, <2>2
<1>2. e.start >= 0 /\ e.end >= 0
  BY <1>1, CounterTyped
<1> QED
  BY <1>1, <1>2 DEF EvidenceInv, CountsOwn, Measures

\* The manifest of a boundary.sh that finished tells of every case, and it
\* exits 0 exactly when every case is ok.
THEOREM ManifestTrue == Spec => []ManifestAccounts
BY EvidenceInvAlways, ManifestFollows, PTL

\* The evidence of a boundary.sh that exits 0 has no fault that the script
\* could have seen.
THEOREM SuccessStands == Spec => []SuccessStandsReview
BY EvidenceInvAlways, SuccessFollows, PTL

\* Unless a case was killed, the delta of a case that counts is what its own
\* requests suffered.
THEOREM DeltasOwn == Spec => []DeltaIsOwn
BY EvidenceInvAlways, DeltaFollows, PTL
=============================================================================
