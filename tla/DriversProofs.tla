---------------------------- MODULE DriversProofs ----------------------------
(* What run.sh, boundary.sh and lib/case.sh guarantee of their cases, for  *)
(* any case tables, launches, layouts and measurements and any number of   *)
(* preemptions, faults and invocations.                                    *)
EXTENDS Drivers, TLAPS

Interrupted == DrainPoll \/ EndLoadTerminated \/ TermCase \/ KillCase
EngineSteps ==
  \/ \E c \in Cases :
       Request(c) \/ Preempt(c) \/ RequestsEnd(c) \/ OrphanLoadEnds(c) \/ OrphanSamples(c)
  \/ \E l \in 1..Len(servers) : ServerDies(l)

\* Who may take a step, and what it leaves alone.
LEMMA NextSplit ==
  ASSUME [Next]_vars
  PROVE  /\ UNCHANGED driver
         /\ \/ UNCHANGED vars
            \/ (CaseSteps \/ Interrupted) /\ UNCHANGED <<driverVars, launchVars>>
            \/ EngineSteps /\ UNCHANGED <<driverVars, launchVars>>
            \/ driver = "run.sh" /\ (RunSteps \/ Probe) /\ UNCHANGED launchVars
            \/ driver = "boundary.sh" /\ (BoundarySteps \/ Terminate)
            \/ Killed /\ UNCHANGED launchVars
  BY DEF Next, ScriptSteps, Environment, Around, Interrupted, EngineSteps, vars

-----------------------------------------------------------------------------
(* Types.                                                                  *)

\* run.sh has found a server, boundary.sh none.
LEMMA FirstServers ==
  ASSUME NEW s, s = <<"alive">> \/ s = <<>>
  PROVE  s \in Seq({"alive", "dying", "dead"}) /\ 0 \in 0..Len(s)
<1>1. CASE s = <<"alive">>
  <2>1. Len(s) = 1 /\ s \in Seq({"alive", "dying", "dead"})
    BY <1>1
  <2> QED
    BY <2>1
<1>2. CASE s = <<>>
  BY <1>2
<1> QED
  BY <1>1, <1>2

LEMMA InitTypeOK == Init => TypeOK
<1> SUFFICES ASSUME Init PROVE TypeOK
  OBVIOUS
<1> USE CaseAssumption, RunTableAssumption, LaunchesAssumption DEF Init, CaseInit
<1>1. Nothing \in EvidenceRecords
  BY DEF Nothing, EvidenceRecords, Counters, Missing
<1>2. RunTable[1] \in Cases
  OBVIOUS
<1>3. servers \in Seq({"alive", "dying", "dead"}) /\ 0 \in 0..Len(servers)
  BY FirstServers
<1>4. 1 \in DOMAIN Launches
  OBVIOUS
<1>5. CaseTypeOK
  <2>1. evidence \in [Cases -> EvidenceRecords] /\ suffered \in [Cases -> Nat]
    BY <1>1
  <2>2. step \in Steps /\ faults \in 0..MaxFaults
    BY DEF Steps
  <2> QED
    BY <1>2, <1>3, <2>1, <2>2 DEF CaseTypeOK
<1>6. layouts \in [DOMAIN Launches -> Layouts \union {<<>>}]
  OBVIOUS
<1>7. pc \in Places /\ entry \in Nat \ {0}
  BY DEF Places
<1> QED
  BY <1>3, <1>4, <1>5, <1>6, <1>7 DEF TypeOK

\* A write to one of a case's files.
LEMMA EvidenceWritten ==
  ASSUME evidence \in [Cases -> EvidenceRecords], NEW c \in Cases, NEW e \in EvidenceRecords,
         evidence' = [evidence EXCEPT ![c] = e]
  PROVE  evidence' \in [Cases -> EvidenceRecords]
  OBVIOUS

LEMMA ReadingsAreCounters == ASSUME CaseTypeOK PROVE Readings \subseteq Counters
  BY DEF CaseTypeOK, Readings, Counters, Empty

LEMMA ChargeTyped ==
  ASSUME faults \in 0..MaxFaults, NEW f, Charge(f)
  PROVE  faults' \in 0..MaxFaults
  BY CaseAssumption DEF Charge

LEMMA CaseStepTyped ==
  ASSUME TypeOK, CaseSteps \/ Interrupted, UNCHANGED <<driverVars, launchVars, driver>>
  PROVE  TypeOK'
<1> USE CaseAssumption
<1>1. CaseTypeOK
  BY DEF TypeOK
<1>2. /\ UNCHANGED <<case, timeoutOk, engineVars>>
      /\ step' \in Steps /\ status' \in {0, 1, 130}
      /\ idle' \in BOOLEAN /\ noted' \in BOOLEAN /\ returned0' \in BOOLEAN
      /\ samplers' \subseteq Cases /\ loads' \subseteq Cases
  <2> USE <1>1 DEF CaseTypeOK, At, engineVars, Steps
  <2>1. CASE SetTraps \/ SnapStart \/ ForkSampler \/ NoteSampler \/ StartLoad
    BY <2>1 DEF SetTraps, SnapStart, ForkSampler, NoteSampler, StartLoad
  <2>2. CASE EndLoad \/ EndLoadTerminated
    BY <2>2 DEF EndLoad, EndLoadTerminated
  <2>3. CASE DrainExpires \/ DrainPoll \/ StopSampler \/ SnapEnd
    BY <2>3 DEF DrainExpires, DrainPoll, StopSampler, SnapEnd
  <2>4. CASE Return
    <3>1. returned0' \in BOOLEAN
      BY <2>4 DEF Return
    <3> QED
      BY <2>4, <3>1 DEF Return
  <2>5. CASE TermCase \/ KillCase
    BY <2>5 DEF TermCase, KillCase
  <2> QED
    BY <2>1, <2>2, <2>3, <2>4, <2>5 DEF CaseSteps, Interrupted
<1>3. faults' \in 0..MaxFaults
  BY <1>1, ChargeTyped DEF CaseTypeOK, CaseSteps, Interrupted, SetTraps, SnapStart,
     ForkSampler, NoteSampler, StartLoad, EndLoad, DrainExpires, StopSampler, SnapEnd, Return,
     DrainPoll, EndLoadTerminated, TermCase, KillCase
<1>4. evidence' \in [Cases -> EvidenceRecords]
  <2> DEFINE e == evidence[case]
  <2>1. e \in EvidenceRecords /\ case \in Cases /\ evidence \in [Cases -> EvidenceRecords]
    BY <1>1 DEF CaseTypeOK
  <2>2. CASE SnapStart \/ SnapEnd
    <3>1. PICK v \in Readings :
            \/ evidence' = [evidence EXCEPT ![case].start = v]
            \/ evidence' = [evidence EXCEPT ![case].end = v]
      BY <2>2 DEF SnapStart, SnapEnd
    <3>2. v \in Counters
      BY <1>1, ReadingsAreCounters
    <3>3. [e EXCEPT !.start = v] \in EvidenceRecords /\ [e EXCEPT !.end = v] \in EvidenceRecords
      BY <2>1, <3>2 DEF EvidenceRecords
    <3> QED
      BY <2>1, <3>1, <3>3, EvidenceWritten
  <2>3. CASE EndLoad \/ EndLoadTerminated
    <3>1. PICK m \in Measured :
            \/ evidence' = [evidence EXCEPT ![case].report = m.report, ![case].samples = m.samples]
            \/ evidence' = [evidence EXCEPT ![case].report = m.report, ![case].samples = m.samples,
                              ![case].recorded = TRUE, ![case].exit = 0, ![case].drained = FALSE]
      BY <2>3 DEF EndLoad, EndLoadTerminated
    <3>2. /\ m.report \in {n.report : n \in Measured} \union {NoReport}
          /\ m.samples \in SUBSET (Strays \union UNION {n.samples : n \in Measured})
      OBVIOUS
    <3> DEFINE r == [e EXCEPT !.report = m.report, !.samples = m.samples]
               t == [r EXCEPT !.recorded = TRUE, !.exit = 0, !.drained = FALSE]
    <3>3. r \in EvidenceRecords
      BY <2>1, <3>2 DEF EvidenceRecords
    <3>4. t \in EvidenceRecords
      BY <3>3 DEF EvidenceRecords
    <3>5. evidence' = [evidence EXCEPT ![case] = r] \/ evidence' = [evidence EXCEPT ![case] = t]
      BY <2>1, <3>1
    <3> QED
      BY <2>1, <3>3, <3>4, <3>5, EvidenceWritten
  <2>4. CASE Record
    <3> DEFINE r == [e EXCEPT !.recorded = TRUE, !.exit = status, !.drained = idle]
    <3>1. r \in EvidenceRecords
      BY <1>1, <2>1 DEF CaseTypeOK, EvidenceRecords
    <3>2. evidence' = [evidence EXCEPT ![case] = r]
      BY <2>1, <2>4 DEF Record
    <3> QED
      BY <2>1, <3>1, <3>2, EvidenceWritten
  <2> QED
    BY <2>1, <2>2, <2>3, <2>4 DEF CaseSteps, Interrupted, SetTraps, ForkSampler, NoteSampler,
       StartLoad, DrainExpires, StopSampler, Return, DrainPoll, TermCase, KillCase
<1> QED
  BY <1>1, <1>2, <1>3, <1>4 DEF TypeOK, CaseTypeOK, driverVars, launchVars, engineVars

LEMMA EngineStepTyped ==
  ASSUME TypeOK, EngineSteps, UNCHANGED <<driverVars, launchVars, driver>>
  PROVE  TypeOK'
<1> USE CaseAssumption
<1>1. CaseTypeOK
  BY DEF TypeOK
<1>2. /\ UNCHANGED callVars /\ UNCHANGED samplers
      /\ loads' \subseteq Cases /\ requests' \subseteq Cases
      /\ preemptions' \in Nat /\ suffered' \in [Cases -> Nat]
  BY <1>1 DEF CaseTypeOK, EngineSteps, Request, Preempt, RequestsEnd, OrphanLoadEnds, OrphanSamples,
     ServerDies, OthersUnchanged, engineVars
<1>3. faults' \in 0..MaxFaults
  BY <1>1, ChargeTyped DEF CaseTypeOK, EngineSteps, Request, Preempt, RequestsEnd, OrphanLoadEnds,
     OrphanSamples, ServerDies
<1>4. servers' \in Seq({"alive", "dying", "dead"}) /\ Len(servers') = Len(servers)
  <2>1. ASSUME NEW l \in 1..Len(servers), ServerDies(l)
        PROVE  servers' \in Seq({"alive", "dying", "dead"}) /\ Len(servers') = Len(servers)
    BY <1>1, <2>1 DEF CaseTypeOK, ServerDies
  <2> QED
    BY <1>1, <2>1 DEF CaseTypeOK, EngineSteps, Request, Preempt, RequestsEnd, OrphanLoadEnds,
       OrphanSamples, OthersUnchanged, engineVars
<1>5. evidence' \in [Cases -> EvidenceRecords]
  <2>1. evidence \in [Cases -> EvidenceRecords]
    BY <1>1 DEF CaseTypeOK
  <2>2. ASSUME NEW c \in Cases, OrphanLoadEnds(c) PROVE evidence' \in [Cases -> EvidenceRecords]
    <3>1. PICK m \in Measured : evidence' = [evidence EXCEPT ![c].report = m.report]
      BY <2>2 DEF OrphanLoadEnds
    <3> DEFINE r == [evidence[c] EXCEPT !.report = m.report]
    <3>2. r \in EvidenceRecords
      BY <2>1 DEF EvidenceRecords
    <3> QED
      BY <2>1, <3>1, <3>2, EvidenceWritten
  <2>3. ASSUME NEW c \in Cases, OrphanSamples(c) PROVE evidence' \in [Cases -> EvidenceRecords]
    <3>1. PICK s \in Strays : evidence' = [evidence EXCEPT ![c].samples = @ \union {s}]
      BY <2>3 DEF OrphanSamples
    <3> DEFINE r == [evidence[c] EXCEPT !.samples = @ \union {s}]
    <3>2. evidence[c] \in EvidenceRecords
      BY <2>1
    <3>3. r \in EvidenceRecords
      BY <3>2 DEF EvidenceRecords
    <3>4. evidence' = [evidence EXCEPT ![c] = r]
      BY <2>1, <3>1
    <3> QED
      BY <2>1, <3>3, <3>4, EvidenceWritten
  <2> QED
    BY <2>1, <2>2, <2>3 DEF EngineSteps, Request, Preempt, RequestsEnd, ServerDies, OthersUnchanged
<1> QED
  BY <1>1, <1>2, <1>3, <1>4, <1>5 DEF TypeOK, CaseTypeOK, driverVars, launchVars, callVars

\* A call of vramfit_run_case for a case of the table.
LEMMA CallTyped ==
  ASSUME CaseTypeOK, NEW c \in Cases, Call(c)
  PROVE  CaseTypeOK'
<1> DEFINE e == [evidence[c] EXCEPT !.made = TRUE]
<1>1. evidence[c] \in EvidenceRecords /\ evidence \in [Cases -> EvidenceRecords]
  BY DEF CaseTypeOK
<1>2. e \in EvidenceRecords
  BY <1>1 DEF EvidenceRecords
<1>3. evidence' \in [Cases -> EvidenceRecords]
  BY <1>1, <1>2, EvidenceWritten DEF Call
<1> QED
  BY <1>3 DEF CaseTypeOK, Call, Steps, engineVars

LEMMA RunStepTyped ==
  ASSUME TypeOK, RunSteps, UNCHANGED <<launchVars, driver>>
  PROVE  TypeOK'
<1> USE RunTableAssumption
<1>1. CaseTypeOK'
  <2>1. CASE RunCase
    <3>1. RunTable[entry] \in Cases
      BY <2>1 DEF RunCase, TypeOK
    <3> QED
      BY <2>1, <3>1, CallTyped DEF RunCase, TypeOK
  <2>2. CASE UNCHANGED caseRunVars
    BY <2>2 DEF caseRunVars, callVars, engineVars, CaseTypeOK, TypeOK
  <2> QED
    BY <2>1, <2>2 DEF RunSteps, RunStart, SkipSaved, RefuseCase, CaseReturns, RunEnds, RunsUnchanged
<1>2. UNCHANGED servers
  BY DEF RunSteps, RunStart, RunCase, Call, SkipSaved, RefuseCase, CaseReturns, RunEnds,
     RunsUnchanged, caseRunVars, engineVars
<1>3. entry' \in {entry, entry + 1, 1} /\ runs' \in {runs, runs + 1}
  BY DEF RunSteps, RunStart, RunCase, SkipSaved, RefuseCase, CaseReturns, RunEnds, RunsUnchanged,
     Goto, Ends
<1>4. /\ pc' \in Places /\ finished' \in BOOLEAN
      /\ outcome' \in {"none", "success", "failed", "terminated", "killed"}
  BY DEF TypeOK, Places, RunSteps, RunStart, RunCase, SkipSaved, RefuseCase, CaseReturns, RunEnds,
     RunsUnchanged, Goto, Ends
<1> QED
  BY <1>1, <1>2, <1>3, <1>4 DEF TypeOK, launchVars

LEMMA ProbeTyped ==
  ASSUME TypeOK, Probe, UNCHANGED <<launchVars, driver>>
  PROVE  TypeOK'
<1>1. /\ UNCHANGED <<entry, finished, runs, callVars, engineVars, evidence, samplers, loads>>
      /\ pc' \in Places /\ outcome' \in {outcome, "failed"}
  BY DEF Probe, ProbeAnswered, ProbeFails, Goto, Ends, RunsUnchanged, caseRunVars, Places
<1>2. faults' \in 0..MaxFaults
  BY ChargeTyped DEF Probe, ProbeAnswered, ProbeFails, RunsUnchanged, caseRunVars, TypeOK, CaseTypeOK
<1>3. CaseTypeOK' /\ UNCHANGED servers
  BY <1>1, <1>2 DEF TypeOK, CaseTypeOK, callVars, engineVars
<1> QED
  BY <1>1, <1>3 DEF TypeOK, launchVars

LEMMA StoppedTyped ==
  ASSUME TypeOK, Stopped
  PROVE  /\ pc' \in Places /\ entry' \in Nat \ {0} /\ launch' \in DOMAIN Launches /\ server' = 0
         /\ UNCHANGED <<outcome, finished, runs, leaving, layouts, failed>>
<1>1. launch \in 1..Len(Launches) /\ Len(Launches) \in Nat /\ DOMAIN Launches = 1..Len(Launches)
  BY LaunchesAssumption DEF TypeOK
<1> QED
  BY <1>1 DEF TypeOK, Stopped, Places, RestUnchanged

LEMMA BoundaryStepTyped ==
  ASSUME TypeOK, BoundarySteps \/ Terminate, UNCHANGED driver
  PROVE  TypeOK'
<1> USE LaunchesAssumption
<1>0. CaseTypeOK
  BY DEF TypeOK
<1> DEFINE Quiet == UNCHANGED <<callVars, evidence, samplers, loads>>
<1>1. CASE ForkServer
  <2>1. /\ servers' = Append(servers, "alive")
        /\ servers' \in Seq({"alive", "dying", "dead"}) /\ Len(servers') = Len(servers) + 1
    BY <1>0, <1>1 DEF CaseTypeOK, ForkServer
  <2>2. requests' \subseteq Cases /\ preemptions' \in Nat /\ UNCHANGED <<suffered, faults>> /\ Quiet
    BY <1>1 DEF ForkServer, RestUnchanged, CasesUnchanged
  <2>3. CaseTypeOK'
    BY <1>0, <2>1, <2>2 DEF CaseTypeOK, callVars
  <2> QED
    BY <1>1, <2>1, <2>3 DEF TypeOK, ForkServer, Goto, Places, launchVars, RestUnchanged
<1>2. CASE KillServer
  <2>1. server \in 1..Len(servers)
    BY <1>2 DEF TypeOK, KillServer
  <2>2. servers' \in Seq({"alive", "dying", "dead"}) /\ Len(servers') = Len(servers)
    BY <1>0, <1>2, <2>1 DEF CaseTypeOK, KillServer
  <2>3. UNCHANGED <<requests, preemptions, suffered, faults>> /\ Quiet
    BY <1>2 DEF KillServer, RestUnchanged, CasesUnchanged
  <2>4. CaseTypeOK'
    BY <1>0, <2>2, <2>3 DEF CaseTypeOK, callVars
  <2> QED
    BY <1>2, <2>2, <2>4 DEF TypeOK, KillServer, Goto, Places, launchVars, RestUnchanged
<1>3. CASE CallNext
  <2>1. Table \in Seq(Cases) /\ Table[entry] \in Cases
    BY <1>3 DEF TypeOK, CallNext, Table
  <2>2. CaseTypeOK' /\ UNCHANGED servers
    BY <1>0, <1>3, <2>1, CallTyped DEF CallNext, Call, engineVars
  <2> QED
    BY <1>3, <2>2 DEF TypeOK, CallNext, Goto, Places, launchVars
\* The other steps touch neither the engine nor a case.
<1>4. ASSUME EngineUnchanged, RestUnchanged \/ CasesUnchanged, faults' \in 0..MaxFaults
      PROVE  CaseTypeOK' /\ UNCHANGED servers
  BY <1>0, <1>4 DEF CaseTypeOK, EngineUnchanged, RestUnchanged, CasesUnchanged, engineVars, callVars
<1>5. ASSUME NEW f, Charge(f) PROVE faults' \in 0..MaxFaults
  BY <1>0, <1>5, ChargeTyped DEF CaseTypeOK
<1>6. ASSUME UNCHANGED faults PROVE faults' \in 0..MaxFaults
  BY <1>0, <1>6 DEF CaseTypeOK
<1>7. CASE Begin
  <2>1. UNCHANGED caseRunVars /\ UNCHANGED launchVars
    BY <1>7 DEF Begin
  <2>2. CaseTypeOK'
    BY <1>0, <2>1 DEF caseRunVars, callVars, engineVars, CaseTypeOK
  <2> QED
    BY <1>7, <2>1, <2>2 DEF Begin, TypeOK, Places, caseRunVars, engineVars, launchVars
<1>8. CASE NoteServer
  <2>1. Len(servers) \in Nat
    BY <1>0 DEF CaseTypeOK
  <2> QED
    BY <1>4, <1>6, <1>8, <2>1 DEF NoteServer, TypeOK, Goto, Places, RestUnchanged
<1>9. CASE StartupSucceeds \/ Responds \/ CasesDone
  BY <1>4, <1>6, <1>9 DEF StartupSucceeds, Responds, CasesDone, TypeOK, Goto, Places,
     RestUnchanged, launchVars
<1>10. CASE StartupFails \/ DoesNotRespond \/ LayoutUnread
  <2>1. faults' \in 0..MaxFaults
    BY <1>5, <1>10 DEF StartupFails, DoesNotRespond, LayoutUnread
  <2> QED
    BY <1>4, <1>10, <2>1 DEF StartupFails, DoesNotRespond, LayoutUnread, TypeOK, Goto, Places,
       GiveUp, RestUnchanged
<1>11. CASE SnapLayout
  <2>1. faults' \in 0..MaxFaults
    BY <1>5, <1>11 DEF SnapLayout
  <2>2. CaseTypeOK' /\ UNCHANGED servers
    BY <1>4, <1>11, <2>1 DEF SnapLayout
  <2>3. layouts' \in [DOMAIN Launches -> Layouts \union {<<>>}]
    BY <1>11 DEF SnapLayout, TypeOK
  <2> QED
    BY <1>11, <2>2, <2>3 DEF SnapLayout, TypeOK, Goto, Places, RestUnchanged
<1>12. CASE JudgeLayout
  BY <1>4, <1>6, <1>12 DEF JudgeLayout, TypeOK, Goto, Places, GiveUp, RestUnchanged
<1>13. CASE CaseOk \/ CaseNotDrained \/ CaseFailed
  BY <1>4, <1>6, <1>13 DEF CaseOk, CaseNotDrained, CaseFailed, TypeOK, Goto, Places, GiveUp,
     RestUnchanged
<1>14. CASE NothingToStop \/ LookStopped
  <2>1. Stopped /\ EngineUnchanged /\ UNCHANGED faults /\ RestUnchanged
    BY <1>14 DEF NothingToStop, LookStopped, Stopped
  <2>2. CaseTypeOK' /\ UNCHANGED servers
    BY <1>4, <1>6, <2>1
  <2>3. Len(servers) \in Nat
    BY <1>0 DEF CaseTypeOK
  <2> QED
    BY <2>1, <2>2, <2>3, StoppedTyped DEF TypeOK
<1>15. CASE LookRefuses
  BY <1>4, <1>6, <1>15 DEF LookRefuses, TypeOK, Ends, Places, RestUnchanged, launchVars
<1>16. CASE End
  BY <1>4, <1>6, <1>16 DEF End, TypeOK, Ends, Places, launchVars
<1>17. CASE Terminate
  <2>1. faults' \in 0..MaxFaults
    BY <1>5, <1>17 DEF Terminate
  <2> QED
    BY <1>4, <1>17, <2>1 DEF Terminate, TypeOK, Places, RestUnchanged
<1> QED
  BY <1>1, <1>2, <1>3, <1>7, <1>8, <1>9, <1>10, <1>11, <1>12, <1>13, <1>14, <1>15, <1>16, <1>17
     DEF BoundarySteps

LEMMA NextTypeOK == TypeOK /\ [Next]_vars => TypeOK'
<1> SUFFICES ASSUME TypeOK, [Next]_vars PROVE TypeOK'
  OBVIOUS
<1>1. UNCHANGED driver
  BY NextSplit
<1>2. CASE UNCHANGED vars
  BY <1>2 DEF vars, caseRunVars, callVars, engineVars, driverVars, launchVars, TypeOK, CaseTypeOK
<1>3. CASE Killed /\ UNCHANGED launchVars
  <2>1. faults' \in 0..MaxFaults
    BY <1>3, ChargeTyped DEF Killed, TypeOK, CaseTypeOK
  <2>2. CaseTypeOK' /\ UNCHANGED servers
    BY <1>3, <2>1 DEF Killed, TypeOK, CaseTypeOK, callVars, engineVars
  <2> QED
    BY <1>1, <1>3, <2>2 DEF Killed, Ends, TypeOK, Places, launchVars
<1> QED
  BY <1>1, <1>2, <1>3, NextSplit, CaseStepTyped, EngineStepTyped, RunStepTyped, ProbeTyped,
     BoundaryStepTyped

-----------------------------------------------------------------------------
(* The servers of boundary.sh.                                             *)

LEMMA NextStopsFirst == TypeOK /\ StopsFirst /\ [Next]_vars => StopsFirst'
<1> SUFFICES ASSUME TypeOK, StopsFirst, [Next]_vars, driver = "boundary.sh" PROVE StopsFirst'
  BY NextSplit DEF StopsFirst
<1>0. /\ UNCHANGED driver /\ Len(servers) \in Nat /\ server \in 0..Len(servers)
      /\ servers \in Seq({"alive", "dying", "dead"})
  BY NextSplit DEF TypeOK, CaseTypeOK
<1>1. ASSUME UNCHANGED <<servers, pc, entry, finished, runs, server, leaving>> PROVE StopsFirst'
  BY <1>0, <1>1 DEF StopsFirst, AllDead
<1>2. CASE UNCHANGED vars
  BY <1>1, <1>2 DEF vars, caseRunVars, engineVars, driverVars, launchVars
<1>3. CASE (CaseSteps \/ Interrupted) /\ UNCHANGED <<driverVars, launchVars>>
  <2>1. UNCHANGED servers
    BY <1>3 DEF CaseSteps, Interrupted, At, engineVars, SetTraps, SnapStart,
       ForkSampler, NoteSampler, StartLoad, EndLoad, DrainExpires, StopSampler, SnapEnd, Return,
       DrainPoll, EndLoadTerminated, TermCase, KillCase
  <2> QED
    BY <1>1, <1>3, <2>1 DEF driverVars, launchVars
<1>4. CASE EngineSteps /\ UNCHANGED <<driverVars, launchVars>>
  <2>1. CASE UNCHANGED servers
    BY <1>1, <1>4, <2>1 DEF driverVars, launchVars
  <2>2. ASSUME NEW l \in 1..Len(servers), ServerDies(l) PROVE StopsFirst'
    <3>1. Len(servers') = Len(servers) /\ \A k \in 1..Len(servers) : servers[k] = "dead" => servers'[k] = "dead"
      BY <1>0, <2>2 DEF ServerDies
    <3>2. servers = <<>> => servers' = <<>>
      BY <2>2
    <3> QED
      BY <1>0, <1>4, <3>1, <3>2 DEF StopsFirst, AllDead, driverVars, launchVars
  <2> QED
    BY <1>4, <2>1, <2>2 DEF EngineSteps, Request, Preempt, RequestsEnd, OrphanLoadEnds,
       OrphanSamples, OthersUnchanged, engineVars
<1>5. CASE Killed /\ UNCHANGED launchVars
  BY <1>0, <1>5 DEF Killed, Ends, launchVars, engineVars, StopsFirst, AllDead
<1>6. CASE ForkServer
  <2>1. /\ Len(servers') = Len(servers) + 1
        /\ \A l \in 1..Len(servers) : servers'[l] = servers[l]
        /\ UNCHANGED <<entry, launchVars, finished, runs>> /\ pc = "launch" /\ pc' = "note"
    BY <1>0, <1>6 DEF ForkServer, Goto, RestUnchanged
  <2>2. runs # 0 /\ AllDead /\ ~leaving /\ ~finished
    BY <2>1 DEF StopsFirst
  <2> QED
    BY <1>0, <2>1, <2>2 DEF StopsFirst, AllDead, launchVars
<1>7. CASE KillServer
  <2>1. /\ Len(servers') = Len(servers)
        /\ \A l \in 1..Len(servers) : servers[l] = "dead" => servers'[l] = "dead"
        /\ UNCHANGED <<entry, launchVars, finished, runs>> /\ pc = "stop" /\ pc' = "look"
    BY <1>0, <1>7 DEF KillServer, Goto, RestUnchanged
  <2>2. runs # 0
    BY <2>1 DEF StopsFirst
  <2> QED
    BY <1>0, <2>1, <2>2 DEF StopsFirst, AllDead, launchVars
<1>8. CASE NothingToStop \/ LookStopped
  <2>1. /\ Stopped /\ UNCHANGED <<servers, finished, runs, leaving>> /\ server' = 0
        /\ pc \in {"stop", "look"}
    BY <1>8 DEF NothingToStop, LookStopped, Stopped, EngineUnchanged, engineVars, RestUnchanged
  <2>2. runs # 0 /\ ~finished
    BY <2>1 DEF StopsFirst
  <2>3. CASE leaving
    BY <1>0, <2>1, <2>2, <2>3 DEF Stopped, StopsFirst, AllDead
  <2>4. CASE ~leaving
    <3>1. server = Len(servers) /\ server # 0
      BY <2>1, <2>4 DEF StopsFirst
    <3>2. servers[server] = "dead"
      BY <1>8, <3>1 DEF NothingToStop, LookStopped
    <3>3. AllDead
      BY <1>0, <3>1, <3>2 DEF AllDead, StopsFirst
    <3>4. pc' \in {"launch", "end"}
      BY <2>1, <2>4 DEF Stopped
    <3> QED
      BY <1>0, <2>1, <2>2, <2>4, <3>3, <3>4 DEF StopsFirst, AllDead
  <2> QED
    BY <2>3, <2>4
<1>9. CASE NoteServer
  <2>1. /\ server' = Len(servers) /\ pc = "note" /\ pc' = "startup"
        /\ UNCHANGED <<servers, entry, finished, runs, leaving>>
    BY <1>9 DEF NoteServer, Goto, EngineUnchanged, engineVars, RestUnchanged
  <2>2. runs # 0 /\ ~leaving /\ ~finished /\ Len(servers) # 0
    BY <2>1 DEF StopsFirst
  <2> QED
    BY <1>0, <2>1, <2>2 DEF StopsFirst, AllDead
<1>10. CASE Begin
  BY <1>0, <1>10 DEF Begin, StopsFirst, AllDead, launchVars, caseRunVars, engineVars
<1>11. CASE End
  BY <1>0, <1>11 DEF End, Ends, StopsFirst, AllDead, launchVars, EngineUnchanged, engineVars
<1>12. CASE LookRefuses
  BY <1>0, <1>12 DEF LookRefuses, Ends, StopsFirst, AllDead, launchVars, EngineUnchanged,
     engineVars, RestUnchanged
<1>13. CASE Terminate
  BY <1>0, <1>13 DEF Terminate, StopsFirst, AllDead, EngineUnchanged, engineVars, RestUnchanged
\* The other steps are those of a launch.
<1> DEFINE InLaunch == {"startup", "models", "layout", "check", "loop", "case"}
<1>14. ASSUME pc \in InLaunch, pc' \in InLaunch \union {"stop"},
              UNCHANGED <<servers, finished, runs, server, leaving>>
       PROVE  StopsFirst'
  BY <1>0, <1>14 DEF StopsFirst, AllDead
<1>15. CASE StartupSucceeds \/ StartupFails \/ Responds \/ DoesNotRespond \/ SnapLayout
            \/ LayoutUnread \/ JudgeLayout
  BY <1>14, <1>15 DEF StartupSucceeds, StartupFails, Responds, DoesNotRespond, SnapLayout,
     LayoutUnread, JudgeLayout, Goto, GiveUp, EngineUnchanged, engineVars, RestUnchanged, launchVars
<1>16. CASE CallNext \/ CaseOk \/ CaseNotDrained \/ CaseFailed \/ CasesDone
  BY <1>14, <1>16 DEF CallNext, Call, CaseOk, CaseNotDrained, CaseFailed, CasesDone, Goto, GiveUp,
     EngineUnchanged, engineVars, RestUnchanged, launchVars
<1> QED
  BY <1>2, <1>3, <1>4, <1>5, <1>6, <1>7, <1>8, <1>9, <1>10, <1>11, <1>12, <1>13, <1>15, <1>16,
     NextSplit DEF BoundarySteps

-----------------------------------------------------------------------------
(* The cases and their directories.                                        *)

CasesInv == CallsWaitedFor /\ NothingEarly /\ FreshAhead /\ SamplersKnown /\ SavedSoFar

LEMMA InitCasesInv == Init => StopsFirst /\ CasesInv
<1> SUFFICES ASSUME Init PROVE StopsFirst /\ CasesInv
  OBVIOUS
<1> USE DEF Init, CaseInit
<1>1. StopsFirst
  BY DEF StopsFirst, AllDead
<1>2. \A c \in Cases : evidence[c] = Nothing
  OBVIOUS
<1>3. CallsWaitedFor /\ SamplersKnown /\ SavedSoFar
  BY DEF CallsWaitedFor, SamplersKnown, SavedSoFar, Steps
<1>4. NothingEarly
  BY <1>2 DEF NothingEarly, Nothing
<1>5. FreshAhead
  <2>1. ASSUME NEW l \in DOMAIN Launches, NEW k \in DOMAIN Launches[l]
        PROVE  Launches[l][k] \in Cases
    BY <2>1, LaunchesAssumption
  <2> QED
    BY <1>2, <2>1 DEF FreshAhead, Nothing
<1> QED
  BY <1>1, <1>3, <1>4, <1>5 DEF CasesInv

\* What a step of vramfit_run_case does to the files of its case and of others.
LEMMA CaseStepFacts ==
  ASSUME TypeOK, CallsWaitedFor, CaseSteps \/ Interrupted
  PROVE  /\ step # "none" /\ UNCHANGED case
         /\ \A c \in Cases : evidence'[c].made = evidence[c].made
         /\ \A c \in Cases : c # case => evidence'[c] = evidence[c]
<1>1. evidence \in [Cases -> EvidenceRecords] /\ case \in Cases
  BY DEF TypeOK, CaseTypeOK
<1>2. evidence[case] \in EvidenceRecords
  BY <1>1
<1>3. step # "none" /\ UNCHANGED case
  BY DEF CaseSteps, Interrupted, At, SetTraps, SnapStart, ForkSampler, NoteSampler, StartLoad,
     EndLoad, DrainExpires, StopSampler, SnapEnd, Return, DrainPoll, EndLoadTerminated, TermCase,
     KillCase
<1>4. CASE UNCHANGED evidence
  BY <1>3, <1>4
<1>5. CASE SnapStart \/ SnapEnd
  <2>1. PICK v \in Readings : \/ evidence' = [evidence EXCEPT ![case].start = v]
                            \/ evidence' = [evidence EXCEPT ![case].end = v]
    BY <1>5 DEF SnapStart, SnapEnd
  <2> QED
    BY <1>1, <1>2, <1>3, <2>1 DEF EvidenceRecords
<1>6. CASE EndLoad
  <2>1. PICK m \in Measured :
          evidence' = [evidence EXCEPT ![case].report = m.report, ![case].samples = m.samples]
    BY <1>6 DEF EndLoad
  <2> QED
    BY <1>1, <1>2, <1>3, <2>1 DEF EvidenceRecords
<1>7. CASE EndLoadTerminated
  <2>1. PICK m \in Measured :
          evidence' = [evidence EXCEPT ![case].report = m.report, ![case].samples = m.samples,
                         ![case].recorded = TRUE, ![case].exit = 0, ![case].drained = FALSE]
    BY <1>7 DEF EndLoadTerminated
  <2> QED
    BY <1>1, <1>2, <1>3, <2>1 DEF EvidenceRecords
<1>8. CASE Record
  BY <1>1, <1>2, <1>3, <1>8 DEF Record, EvidenceRecords
<1> QED
  BY <1>4, <1>5, <1>6, <1>7, <1>8 DEF CaseSteps, Interrupted, SetTraps, ForkSampler, NoteSampler,
     StartLoad, DrainExpires, StopSampler, Return, DrainPoll, TermCase, KillCase

LEMMA CaseStepKeeps ==
  ASSUME TypeOK, CasesInv, CaseSteps \/ Interrupted, UNCHANGED <<driverVars, launchVars, driver>>
  PROVE  CasesInv'
<1> USE DEF CasesInv, Steps
<1>1. /\ step # "none" /\ UNCHANGED case
      /\ \A c \in Cases : evidence'[c].made = evidence[c].made
      /\ \A c \in Cases : c # case => evidence'[c] = evidence[c]
  BY CaseStepFacts
<1>2. /\ evidence \in [Cases -> EvidenceRecords] /\ case \in Cases /\ evidence[case] \in EvidenceRecords
      /\ samplers \subseteq Cases /\ loads \subseteq Cases
      /\ UNCHANGED <<pc, entry, outcome, finished, runs, launch>>
  BY DEF TypeOK, CaseTypeOK, driverVars, launchVars
<1>3. FreshAhead'
  <2>1. ASSUME NEW l \in DOMAIN Launches, NEW k \in DOMAIN Launches[l]
        PROVE  Launches[l][k] \in Cases
    BY <2>1, LaunchesAssumption
  <2> QED
    BY <1>1, <1>2, <2>1 DEF FreshAhead
<1>4. ASSUME \/ /\ step' # "none" /\ ~returned0' /\ ~evidence'[case].recorded
                /\ step' # "exit" => evidence'[case].end = Missing
                /\ step' = "exit" => evidence'[case].end # Missing
             \/ step' = "none"
      PROVE  CallsWaitedFor'
  BY <1>1, <1>2, <1>4 DEF CallsWaitedFor
<1>5. ASSUME loads' \subseteq loads \union {case}, samplers' \subseteq samplers \union {case},
             case \in loads' => /\ ~evidence'[case].recorded /\ evidence'[case].end = Missing
                                /\ step' \in {"none", "loading"}
      PROVE  NothingEarly'
  BY <1>1, <1>2, <1>5 DEF NothingEarly, CallsWaitedFor
<1>6. ASSUME samplers' \subseteq samplers \union {case},
             case \in samplers' /\ evidence'[case].recorded =>
               evidence'[case].exit = 130 /\ evidence'[case].report = NoReport /\ ~noted',
             step' \in {"made", "start", "fork", "note"} =>
               status' = 130 /\ ~noted' /\ evidence'[case].report = NoReport,
             step' \in {"load", "loading", "drain", "stop"} => noted',
             step' \in {"end", "exit"} => case \notin samplers'
      PROVE  SamplersKnown'
  BY <1>1, <1>2, <1>6 DEF SamplersKnown
<1>7. ASSUME driver = "run.sh" /\ pc = "case" /\ returned0' => IsSaved(evidence'[case])
      PROVE  SavedSoFar'
  <2> SUFFICES ASSUME driver = "run.sh" PROVE SavedSoFar'
    BY DEF SavedSoFar
  <2>1. ~finished /\ pc # "loop"
    BY <1>1 DEF SavedSoFar, CallsWaitedFor
  <2>2. ASSUME pc = "case", NEW k \in DOMAIN RunTable, k < entry
        PROVE  IsSaved(evidence[RunTable[k]])'
    <3>1. entry \in DOMAIN RunTable /\ case = RunTable[entry] /\ IsSaved(evidence[RunTable[k]])
      BY <2>2 DEF SavedSoFar
    <3>2. RunTable[k] # case /\ RunTable[k] \in Cases
      BY <2>2, <3>1, RunTableAssumption
    <3> QED
      BY <1>1, <3>1, <3>2
  <2> QED
    BY <1>1, <1>2, <1>7, <2>1, <2>2 DEF SavedSoFar
<1>8. step # "none" => ~returned0
  BY DEF CallsWaitedFor
<1> USE <1>1, <1>2
<1>9. CASE SetTraps \/ ForkSampler \/ NoteSampler \/ StartLoad \/ DrainExpires \/ DrainPoll \/ StopSampler
  <2> USE <1>9 DEF At, SetTraps, ForkSampler, NoteSampler, StartLoad, DrainExpires, DrainPoll, StopSampler
  <2>1. UNCHANGED <<evidence, returned0>>
    OBVIOUS
  <2>2. CallsWaitedFor'
    BY <1>4, <1>8, <2>1 DEF CallsWaitedFor
  <2>3. NothingEarly'
    BY <1>5, <2>1 DEF NothingEarly, CallsWaitedFor
  <2>4. SamplersKnown'
    BY <1>6, <2>1 DEF SamplersKnown, CallsWaitedFor
  <2>5. SavedSoFar'
    BY <1>7, <1>8, <2>1
  <2> QED
    BY <1>3, <2>2, <2>3, <2>4, <2>5
<1>10. CASE SnapStart \/ SnapEnd
  <2>1. PICK v \in Readings :
          \/ step = "start" /\ step' = "fork" /\ evidence' = [evidence EXCEPT ![case].start = v]
          \/ step = "end" /\ step' = "exit" /\ evidence' = [evidence EXCEPT ![case].end = v]
    BY <1>10 DEF SnapStart, SnapEnd, At
  <2>2. v # Missing
    BY DEF Readings, Missing, Empty, TypeOK, CaseTypeOK
  <2>3. UNCHANGED <<status, idle, noted, samplers, loads, returned0>>
    BY <1>10 DEF SnapStart, SnapEnd, At
  <2>4. /\ evidence'[case].recorded = evidence[case].recorded
        /\ evidence'[case].report = evidence[case].report
        /\ step' # "exit" => evidence'[case].end = evidence[case].end
        /\ step' = "exit" => evidence'[case].end # Missing
    BY <2>1, <2>2 DEF EvidenceRecords
  <2>5. CallsWaitedFor'
    BY <1>4, <1>8, <2>1, <2>3, <2>4 DEF CallsWaitedFor
  <2>6. NothingEarly'
    BY <1>5, <2>1, <2>3, <2>4 DEF NothingEarly
  <2>7. SamplersKnown'
    BY <1>6, <2>1, <2>3, <2>4 DEF SamplersKnown, CallsWaitedFor
  <2>8. SavedSoFar'
    BY <1>7, <1>8, <2>3
  <2> QED
    BY <1>3, <2>5, <2>6, <2>7, <2>8
<1>11. CASE EndLoad
  <2>1. PICK m \in Measured :
          evidence' = [evidence EXCEPT ![case].report = m.report, ![case].samples = m.samples]
    BY <1>11 DEF EndLoad
  <2>2. /\ step = "loading" /\ step' = "drain" /\ loads' = loads \ {case}
        /\ UNCHANGED <<idle, noted, samplers, returned0>>
    BY <1>11 DEF EndLoad, At
  <2>3. /\ evidence'[case].recorded = evidence[case].recorded
        /\ evidence'[case].end = evidence[case].end
    BY <2>1 DEF EvidenceRecords
  <2>4. CallsWaitedFor'
    BY <1>4, <1>8, <2>2, <2>3 DEF CallsWaitedFor
  <2>5. NothingEarly' /\ SamplersKnown' /\ SavedSoFar'
    BY <1>5, <1>6, <1>7, <1>8, <2>2, <2>3 DEF SamplersKnown, CallsWaitedFor
  <2> QED
    BY <1>3, <2>4, <2>5
<1>12. CASE EndLoadTerminated
  <2>1. /\ step' = "none" /\ loads' = loads \ {case} /\ samplers' = samplers \ {case}
        /\ UNCHANGED returned0
    BY <1>12 DEF EndLoadTerminated, At
  <2> QED
    BY <1>3, <1>4, <1>5, <1>6, <1>7, <1>8, <2>1
<1>13. CASE Return \/ TermCase
  <2>1. /\ step' = "none" /\ UNCHANGED loads /\ samplers' \subseteq samplers
        /\ step # "loading"
        /\ evidence' = [evidence EXCEPT ![case].recorded = TRUE, ![case].exit = status, ![case].drained = idle]
    BY <1>13 DEF Return, TermCase, Record
  <2>2. /\ evidence'[case].exit = status /\ evidence'[case].drained = idle
        /\ evidence'[case].end = evidence[case].end /\ evidence'[case].report = evidence[case].report
    BY <2>1 DEF EvidenceRecords
  <2>3. case \in samplers' => status = 130 /\ evidence[case].report = NoReport /\ ~noted'
    <3>1. step \in Steps
      BY DEF TypeOK, CaseTypeOK
    <3>2. CASE Return
      BY <3>2 DEF Return, SamplersKnown
    <3>3. CASE TermCase
      BY <3>1, <3>3 DEF TermCase, SamplersKnown
    <3> QED
      BY <1>13, <3>2, <3>3
  <2>4. case \notin loads
    BY <2>1 DEF NothingEarly
  <2>5. returned0' => IsSaved(evidence'[case])
    <3>1. CASE Return
      BY <1>8, <2>2, <3>1 DEF Return, IsSaved, CallsWaitedFor
    <3>2. CASE TermCase
      BY <1>8, <3>2 DEF TermCase
    <3> QED
      BY <1>13, <3>1, <3>2
  <2> QED
    BY <1>3, <1>4, <1>5, <1>6, <1>7, <2>1, <2>2, <2>3, <2>4, <2>5
<1>14. CASE KillCase
  <2>1. step' = "none" /\ UNCHANGED <<evidence, samplers, loads, returned0>>
    BY <1>14 DEF KillCase
  <2>2. case \in loads => ~evidence[case].recorded /\ evidence[case].end = Missing
    BY DEF NothingEarly
  <2>3. ~evidence[case].recorded
    BY DEF CallsWaitedFor
  <2> QED
    BY <1>3, <1>4, <1>5, <1>6, <1>7, <1>8, <2>1, <2>2, <2>3
<1> QED
  BY <1>9, <1>10, <1>11, <1>12, <1>13, <1>14 DEF CaseSteps, Interrupted

LEMMA EngineStepKeeps ==
  ASSUME TypeOK, CasesInv, EngineSteps, UNCHANGED <<driverVars, launchVars, driver>>
  PROVE  CasesInv'
<1> USE DEF CasesInv
<1>1. evidence \in [Cases -> EvidenceRecords] /\ UNCHANGED <<pc, entry, outcome, finished, runs, launch>>
  BY DEF TypeOK, CaseTypeOK, driverVars, launchVars
<1>2. CASE UNCHANGED <<callVars, evidence, samplers, loads>>
  BY <1>1, <1>2 DEF callVars, CallsWaitedFor, NothingEarly, FreshAhead, SamplersKnown, SavedSoFar
<1>3. ASSUME NEW c \in Cases, OrphanLoadEnds(c) PROVE CasesInv'
  <2>1. PICK m \in Measured : evidence' = [evidence EXCEPT ![c].report = m.report]
    BY <1>3 DEF OrphanLoadEnds
  <2>2. evidence[c] \in EvidenceRecords
    BY <1>1
  <2>3. /\ \A d \in Cases : d # c => evidence'[d] = evidence[d]
        /\ \A d \in Cases : /\ evidence'[d].made = evidence[d].made
                            /\ evidence'[d].recorded = evidence[d].recorded
                            /\ evidence'[d].end = evidence[d].end
                            /\ evidence'[d].exit = evidence[d].exit
    BY <1>1, <2>1, <2>2 DEF EvidenceRecords
  <2>4. /\ UNCHANGED <<step, case, status, idle, noted, returned0, samplers>> /\ loads' = loads \ {c}
        /\ c \in loads
    BY <1>3 DEF OrphanLoadEnds, callVars
  <2>5. /\ evidence[c].made /\ ~evidence[c].recorded /\ evidence[c].end = Missing
        /\ case = c => step \in {"none", "loading"}
        /\ case \in Cases /\ samplers \subseteq Cases /\ loads \subseteq Cases
    BY <2>4 DEF NothingEarly, TypeOK, CaseTypeOK
  <2>6. CallsWaitedFor'
    BY <1>1, <2>3, <2>4, <2>5 DEF CallsWaitedFor
  <2>7. NothingEarly'
    BY <1>1, <2>3, <2>4, <2>5 DEF NothingEarly
  <2>8. FreshAhead'
    <3>1. ASSUME NEW l \in DOMAIN Launches, NEW k \in DOMAIN Launches[l]
          PROVE  Launches[l][k] \in Cases
      BY <3>1, LaunchesAssumption
    <3> QED
      BY <1>1, <2>3, <3>1 DEF FreshAhead
  <2>9. SamplersKnown'
    BY <1>1, <2>3, <2>4, <2>5 DEF SamplersKnown
  <2>10. ASSUME NEW d \in Cases, IsSaved(evidence[d]) PROVE IsSaved(evidence[d])'
    BY <2>3, <2>5, <2>10 DEF IsSaved
  <2>11. SavedSoFar'
    <3>1. \A k \in DOMAIN RunTable : RunTable[k] \in Cases
      BY RunTableAssumption
    <3> QED
      BY <1>1, <2>4, <2>5, <2>10, <3>1 DEF SavedSoFar
  <2> QED
    BY <2>6, <2>7, <2>8, <2>9, <2>11
<1>4. ASSUME NEW c \in Cases, OrphanSamples(c) PROVE CasesInv'
  <2>1. PICK s \in Strays : evidence' = [evidence EXCEPT ![c].samples = @ \union {s}]
    BY <1>4 DEF OrphanSamples
  <2>2. evidence[c] \in EvidenceRecords
    BY <1>1
  <2>3. \A d \in Cases : /\ evidence'[d].made = evidence[d].made
                         /\ evidence'[d].recorded = evidence[d].recorded
                         /\ evidence'[d].end = evidence[d].end
                         /\ evidence'[d].exit = evidence[d].exit
                         /\ evidence'[d].report = evidence[d].report
                         /\ evidence'[d].drained = evidence[d].drained
    BY <1>1, <2>1, <2>2 DEF EvidenceRecords
  <2>4. UNCHANGED <<step, case, status, idle, noted, returned0, samplers, loads>>
    BY <1>4 DEF OrphanSamples, callVars
  <2>5. case \in Cases /\ samplers \subseteq Cases /\ loads \subseteq Cases
    BY DEF TypeOK, CaseTypeOK
  <2>6. CallsWaitedFor' /\ NothingEarly' /\ SamplersKnown'
    BY <1>1, <2>3, <2>4, <2>5 DEF CallsWaitedFor, NothingEarly, SamplersKnown
  <2>7. FreshAhead'
    <3>1. ASSUME NEW l \in DOMAIN Launches, NEW k \in DOMAIN Launches[l]
          PROVE  Launches[l][k] \in Cases
      BY <3>1, LaunchesAssumption
    <3> QED
      BY <1>1, <2>3, <3>1 DEF FreshAhead
  <2>8. \A d \in Cases : IsSaved(evidence[d])' = IsSaved(evidence[d])
    BY <2>3 DEF IsSaved
  <2>9. SavedSoFar'
    <3>1. \A k \in DOMAIN RunTable : RunTable[k] \in Cases
      BY RunTableAssumption
    <3> QED
      BY <1>1, <2>4, <2>5, <2>8, <3>1 DEF SavedSoFar
  <2> QED
    BY <2>6, <2>7, <2>9
<1> QED
  BY <1>2, <1>3, <1>4 DEF EngineSteps, Request, Preempt, RequestsEnd, ServerDies, OthersUnchanged

\* A case is called while no other call is in progress, and before it has left
\* anything.
LEMMA CallKeeps ==
  ASSUME TypeOK, CallsWaitedFor, NothingEarly, SamplersKnown, NEW c \in Cases, Call(c),
         ~evidence[c].made, step = "none", pc' = "case", runs # 0, UNCHANGED runs
  PROVE  /\ CallsWaitedFor' /\ NothingEarly' /\ SamplersKnown'
         /\ step' = "made" /\ case' = c /\ ~returned0'
         /\ \A d \in Cases : d # c => evidence'[d] = evidence[d]
<1>1. /\ evidence \in [Cases -> EvidenceRecords] /\ evidence[c] \in EvidenceRecords
      /\ samplers \subseteq Cases /\ loads \subseteq Cases
  BY DEF TypeOK, CaseTypeOK
<1>2. /\ evidence' = [evidence EXCEPT ![c].made = TRUE]
      /\ step' = "made" /\ case' = c /\ status' = 130 /\ ~noted' /\ ~returned0'
      /\ UNCHANGED <<samplers, loads>>
  BY DEF Call
<1>3. /\ \A d \in Cases : d # c => evidence'[d] = evidence[d]
      /\ evidence'[c].made /\ evidence'[c].recorded = evidence[c].recorded
      /\ evidence'[c].end = evidence[c].end /\ evidence'[c].report = evidence[c].report
  BY <1>1, <1>2 DEF EvidenceRecords
<1>4. /\ ~evidence[c].recorded /\ evidence[c].end = Missing /\ evidence[c].report = NoReport
      /\ c \notin loads /\ c \notin samplers
  BY DEF NothingEarly
<1>5. CallsWaitedFor'
  BY <1>2, <1>3, <1>4 DEF CallsWaitedFor, Steps
<1>6. NothingEarly'
  BY <1>1, <1>2, <1>3, <1>4 DEF NothingEarly
<1>7. SamplersKnown'
  <2>1. ASSUME NEW d \in samplers', evidence'[d].recorded
        PROVE  evidence'[d].exit = 130 /\ evidence'[d].report = NoReport /\ (d = case' => ~noted')
    <3>1. d # c /\ d \in Cases /\ d \in samplers
      BY <1>1, <1>2, <1>4, <2>1
    <3>2. evidence'[d] = evidence[d]
      BY <1>3, <3>1
    <3> QED
      BY <1>2, <2>1, <3>1, <3>2 DEF SamplersKnown
  <2> QED
    BY <1>2, <1>3, <1>4, <2>1 DEF SamplersKnown
<1> QED
  BY <1>2, <1>3, <1>5, <1>6, <1>7

LEMMA RunStepKeeps ==
  ASSUME TypeOK, CasesInv, driver = "run.sh", RunSteps, UNCHANGED <<launchVars, driver>>
  PROVE  CasesInv'
<1> USE DEF CasesInv
<1>0. /\ entry \in Nat \ {0} /\ RunTable \in Seq(Cases) /\ FreshAhead'
      /\ Len(RunTable) \in Nat /\ DOMAIN RunTable = 1..Len(RunTable)
  BY RunTableAssumption DEF TypeOK, FreshAhead
<1>1. CASE RunCase
  <2> DEFINE c == RunTable[entry]
  <2>1. /\ entry \in DOMAIN RunTable /\ c \in Cases /\ ~evidence[c].made /\ Call(c)
        /\ pc = "loop" /\ pc' = "case" /\ UNCHANGED <<entry, finished, runs>>
    BY <1>0, <1>1 DEF RunCase, Goto
  <2>2. step = "none" /\ runs # 0
    BY <2>1 DEF CallsWaitedFor
  <2> HIDE DEF c
  <2>3. /\ CallsWaitedFor' /\ NothingEarly' /\ SamplersKnown'
        /\ case' = c /\ ~returned0'
        /\ \A d \in Cases : d # c => evidence'[d] = evidence[d]
    BY <2>1, <2>2, CallKeeps
  <2>4. \A k \in DOMAIN RunTable : k # entry => RunTable[k] \in Cases /\ RunTable[k] # c
    BY <1>0, <2>1, RunTableAssumption DEF c
  <2>5. ~finished
    BY <2>1 DEF SavedSoFar, IsSaved, c
  <2>6. SavedSoFar'
    BY <1>0, <2>1, <2>3, <2>4, <2>5 DEF SavedSoFar, c
  <2> QED
    BY <1>0, <2>3, <2>6
<1>2. ASSUME UNCHANGED caseRunVars, pc' # "idle" => runs' # 0,
             step # "none" => pc' \in {"case", "idle"} /\ runs' # 0
      PROVE  CallsWaitedFor' /\ NothingEarly' /\ SamplersKnown'
  BY <1>2 DEF caseRunVars, callVars, CallsWaitedFor, NothingEarly, SamplersKnown
<1>3. CASE RunStart
  <2>1. UNCHANGED caseRunVars /\ pc = "idle" /\ step = "none" /\ entry' = 1 /\ pc' = "probe"
        /\ runs' = runs + 1 /\ UNCHANGED finished
    BY <1>3 DEF RunStart
  <2>2. runs' # 0
    BY <2>1 DEF TypeOK
  <2>3. finished' => step' = "none" /\ pc' # "case"
                     /\ \A k \in DOMAIN RunTable : IsSaved(evidence[RunTable[k]])'
    BY <2>1 DEF SavedSoFar, IsSaved, caseRunVars, callVars
  <2>4. SavedSoFar'
    BY <2>1, <2>3 DEF SavedSoFar
  <2> QED
    BY <1>0, <1>2, <2>1, <2>2, <2>4
<1>4. CASE SkipSaved
  <2>1. /\ UNCHANGED caseRunVars /\ pc = "loop" /\ pc' = "loop" /\ entry' = entry + 1
        /\ UNCHANGED <<finished, runs>>
        /\ evidence[RunTable[entry]].made /\ Saved(evidence[RunTable[entry]])
    BY <1>4 DEF SkipSaved, Goto, RunsUnchanged
  <2>2. IsSaved(evidence[RunTable[entry]])
    BY <2>1 DEF IsSaved, Saved, Undrained
  <2>3. SavedSoFar'
    BY <1>0, <2>1, <2>2 DEF SavedSoFar, caseRunVars, callVars
  <2>4. runs # 0 /\ step = "none"
    BY <2>1 DEF CallsWaitedFor
  <2> QED
    BY <1>0, <1>2, <2>1, <2>3, <2>4
<1>5. CASE RefuseCase
  <2>1. UNCHANGED caseRunVars /\ pc = "loop" /\ pc' = "idle" /\ UNCHANGED <<entry, finished, runs>>
    BY <1>5 DEF RefuseCase, Ends, RunsUnchanged
  <2>2. runs # 0
    BY <2>1 DEF CallsWaitedFor
  <2>3. SavedSoFar'
    BY <2>1 DEF SavedSoFar, caseRunVars, callVars
  <2> QED
    BY <1>0, <1>2, <2>1, <2>2, <2>3
<1>6. CASE CaseReturns
  <2>1. /\ UNCHANGED caseRunVars /\ pc = "case" /\ step = "none" /\ UNCHANGED <<finished, runs>>
        /\ \/ returned0 /\ pc' = "loop" /\ entry' = entry + 1
           \/ pc' = "idle" /\ UNCHANGED entry
    BY <1>6 DEF CaseReturns, Goto, Ends, RunsUnchanged
  <2>2. runs # 0
    BY <2>1 DEF CallsWaitedFor
  <2>3. SavedSoFar'
    BY <1>0, <2>1 DEF SavedSoFar, caseRunVars, callVars
  <2> QED
    BY <1>0, <1>2, <2>1, <2>2, <2>3
<1>7. CASE RunEnds
  <2>1. /\ UNCHANGED caseRunVars /\ pc = "loop" /\ pc' = "idle" /\ finished' = TRUE
        /\ UNCHANGED <<entry, runs>> /\ entry > Len(RunTable)
    BY <1>7 DEF RunEnds, Ends
  <2>2. runs # 0 /\ step = "none"
    BY <2>1 DEF CallsWaitedFor
  <2>3. \A k \in DOMAIN RunTable : k < entry
    BY <1>0, <2>1
  <2>4. SavedSoFar'
    BY <2>1, <2>2, <2>3 DEF SavedSoFar, caseRunVars, callVars
  <2> QED
    BY <1>0, <1>2, <2>1, <2>2, <2>4
<1> QED
  BY <1>1, <1>3, <1>4, <1>5, <1>6, <1>7 DEF RunSteps

\* The loop begins at the first case.
LEMMA ProbeKeeps ==
  ASSUME TypeOK, CasesInv, driver = "run.sh", Probe, UNCHANGED <<launchVars, driver>>
  PROVE  CasesInv'
<1> USE DEF CasesInv
<1>1. /\ UNCHANGED <<callVars, evidence, samplers, loads, entry, finished, runs>>
      /\ pc = "probe" /\ pc' \in {"loop", "idle"}
  BY DEF Probe, ProbeAnswered, ProbeFails, Goto, Ends, RunsUnchanged, caseRunVars
<1>2. runs # 0 /\ step = "none" /\ entry = 1
  BY <1>1 DEF CallsWaitedFor, SavedSoFar
<1>3. CallsWaitedFor' /\ NothingEarly' /\ SamplersKnown' /\ FreshAhead'
  BY <1>1, <1>2 DEF callVars, CallsWaitedFor, NothingEarly, SamplersKnown, FreshAhead
<1>4. \A k \in DOMAIN RunTable : ~(k < entry')
  BY <1>1, <1>2, RunTableAssumption
<1>5. finished' => step' = "none" /\ pc' # "case"
                   /\ \A k \in DOMAIN RunTable : IsSaved(evidence[RunTable[k]])'
  BY <1>1, <1>2 DEF SavedSoFar, IsSaved, callVars
<1>6. SavedSoFar'
  BY <1>1, <1>4, <1>5 DEF SavedSoFar
<1> QED
  BY <1>3, <1>6

LEMMA BoundaryStepKeeps ==
  ASSUME TypeOK, StopsFirst, CasesInv, driver = "boundary.sh", BoundarySteps \/ Terminate,
         UNCHANGED driver
  PROVE  CasesInv'
<1> USE DEF CasesInv
<1>0. SavedSoFar'
  BY DEF SavedSoFar
<1>1. /\ entry \in Nat \ {0} /\ launch \in DOMAIN Launches /\ Launches \in Seq(Seq(Cases))
      /\ DOMAIN Launches = 1..Len(Launches) /\ Len(Launches) \in Nat
      /\ \A l \in DOMAIN Launches : /\ Launches[l] \in Seq(Cases)
                                    /\ DOMAIN Launches[l] = 1..Len(Launches[l]) /\ Len(Launches[l]) \in Nat
  BY LaunchesAssumption DEF TypeOK
<1>2. CASE CallNext
  <2> DEFINE c == Launches[launch][entry]
  <2>1. /\ entry \in DOMAIN Launches[launch] /\ c \in Cases /\ Call(c)
        /\ pc = "loop" /\ pc' = "case" /\ UNCHANGED <<entry, launch, finished, runs>>
    BY <1>1, <1>2 DEF CallNext, Goto, Table, launchVars
  <2>2. step = "none" /\ runs # 0
    BY <2>1 DEF CallsWaitedFor
  <2>3. ~evidence[c].made
    BY <1>1, <2>1 DEF FreshAhead, BeforeCase
  <2>4. \A l \in DOMAIN Launches : \A k \in DOMAIN Launches[l] :
          Launches[l][k] \in Cases /\ (Launches[l][k] = c => l = launch /\ k = entry)
    BY <1>1, <2>1, LaunchesAssumption
  <2> HIDE DEF c
  <2>5. /\ CallsWaitedFor' /\ NothingEarly' /\ SamplersKnown'
        /\ \A d \in Cases : d # c => evidence'[d] = evidence[d]
    BY <2>1, <2>2, <2>3, CallKeeps
  <2>6. FreshAhead'
    <3> SUFFICES ASSUME NEW l \in DOMAIN Launches, NEW k \in DOMAIN Launches[l],
                        \/ l > launch'
                        \/ l = launch' /\ k > entry'
                        \/ l = launch' /\ k = entry' /\ (runs' = 0 \/ pc' \in BeforeCase)
                 PROVE  ~evidence'[Launches[l][k]].made
      BY DEF FreshAhead
    <3>1. l > launch \/ (l = launch /\ k > entry)
      BY <2>1, <2>2 DEF BeforeCase
    <3>2. Launches[l][k] \in Cases /\ Launches[l][k] # c
      BY <1>1, <2>4, <3>1
    <3>3. ~evidence[Launches[l][k]].made
      BY <3>1 DEF FreshAhead
    <3> QED
      BY <2>5, <3>2, <3>3
  <2> QED
    BY <1>0, <2>5, <2>6
\* The other steps touch no case.
<1>3. ASSUME UNCHANGED <<callVars, evidence, samplers, loads>>, pc' # "idle" => runs' # 0,
             step # "none" => pc' \in {"case", "idle"} /\ runs' # 0
      PROVE  CallsWaitedFor' /\ NothingEarly' /\ SamplersKnown'
  BY <1>3 DEF callVars, CallsWaitedFor, NothingEarly, SamplersKnown
<1>4. ASSUME UNCHANGED evidence, runs' # 0,
             \/ UNCHANGED <<launch, entry>> /\ (pc' \in BeforeCase => pc \in BeforeCase)
             \/ UNCHANGED launch /\ entry' = entry + 1
             \/ launch' = launch + 1
      PROVE  FreshAhead'
  BY <1>1, <1>4 DEF FreshAhead
<1>5. CASE Begin
  <2>1. /\ UNCHANGED caseRunVars /\ UNCHANGED launchVars /\ runs = 0 /\ runs' = 1 /\ entry' = 1
        /\ pc' = "launch"
    BY <1>5 DEF Begin
  <2>2. entry = 1 /\ step = "none"
    BY <2>1 DEF StopsFirst, CallsWaitedFor
  <2>3. FreshAhead'
    BY <1>1, <2>1, <2>2 DEF FreshAhead, launchVars, caseRunVars
  <2> QED
    BY <1>0, <1>3, <2>1, <2>2, <2>3 DEF caseRunVars
<1>6. ASSUME pc # "idle", pc # "case" \/ step = "none", UNCHANGED <<callVars, evidence, samplers, loads, runs>>
      PROVE  CallsWaitedFor' /\ NothingEarly' /\ SamplersKnown' /\ runs' # 0
  BY <1>3, <1>6 DEF CallsWaitedFor
<1> USE DEF RestUnchanged, CasesUnchanged, Goto
<1>7. CASE NothingToStop \/ LookStopped
  <2>1. /\ pc \in {"stop", "look"} /\ UNCHANGED <<callVars, evidence, samplers, loads, runs>>
        /\ \/ pc' \in {"idle", "end"} /\ UNCHANGED <<launch, entry>>
           \/ launch' = launch + 1
    BY <1>7 DEF NothingToStop, LookStopped, Stopped
  <2> QED
    BY <1>0, <1>4, <1>6, <2>1 DEF BeforeCase
<1>8. CASE CaseOk \/ CaseFailed
  <2>1. /\ pc = "case" /\ step = "none" /\ UNCHANGED <<callVars, evidence, samplers, loads, runs>>
        /\ UNCHANGED launch /\ entry' = entry + 1
    BY <1>8 DEF CaseOk, CaseFailed
  <2> QED
    BY <1>0, <1>4, <1>6, <2>1
<1>9. ASSUME pc # "idle", pc # "case" \/ step = "none",
             UNCHANGED <<callVars, evidence, samplers, loads, runs, launch, entry>>,
             pc' \in BeforeCase => pc \in BeforeCase
      PROVE  CasesInv'
  BY <1>0, <1>4, <1>6, <1>9
<1>10. CASE ForkServer \/ NoteServer \/ StartupSucceeds \/ Responds \/ SnapLayout \/ CasesDone
            \/ KillServer
  BY <1>9, <1>10 DEF ForkServer, NoteServer, StartupSucceeds, Responds, SnapLayout, CasesDone,
     KillServer, BeforeCase, launchVars
<1>11. CASE StartupFails \/ DoesNotRespond \/ LayoutUnread \/ JudgeLayout \/ CaseNotDrained
  BY <1>9, <1>11 DEF StartupFails, DoesNotRespond, LayoutUnread, JudgeLayout, CaseNotDrained,
     GiveUp, BeforeCase
<1>12. CASE LookRefuses \/ End \/ Terminate
  BY <1>9, <1>12 DEF LookRefuses, End, Terminate, Ends, BeforeCase, launchVars
<1> QED
  BY <1>2, <1>5, <1>7, <1>8, <1>10, <1>11, <1>12 DEF BoundarySteps

-----------------------------------------------------------------------------
LEMMA DInvAlways == Spec => []DInv
<1>1. Init => DInv
  BY InitTypeOK, InitCasesInv DEF DInv, CasesInv
<1>2. DInv /\ [Next]_vars => DInv'
  <2> SUFFICES ASSUME DInv, [Next]_vars PROVE DInv'
    OBVIOUS
  <2>1. TypeOK /\ StopsFirst /\ CasesInv
    BY DEF DInv, CasesInv
  <2>2. TypeOK' /\ StopsFirst'
    BY <2>1, NextTypeOK, NextStopsFirst
  <2>3. ASSUME UNCHANGED <<callVars, evidence, samplers, loads, driver, entry, finished, runs, launch>>,
               pc' = pc \/ (pc # "idle" /\ pc' = "idle")
        PROVE  CasesInv'
    <3>1. CallsWaitedFor'
      BY <2>1, <2>3 DEF CasesInv, CallsWaitedFor, callVars
    <3>2. NothingEarly'
      BY <2>1, <2>3 DEF CasesInv, NothingEarly, callVars
    <3>3. FreshAhead'
      BY <2>1, <2>3 DEF CasesInv, FreshAhead, BeforeCase
    <3>4. SamplersKnown'
      BY <2>1, <2>3 DEF CasesInv, SamplersKnown, callVars
    <3>5. SavedSoFar'
      BY <2>1, <2>3 DEF CasesInv, SavedSoFar, IsSaved, callVars
    <3> QED
      BY <3>1, <3>2, <3>3, <3>4, <3>5 DEF CasesInv
  <2>4. UNCHANGED driver
    BY NextSplit
  <2>5. ASSUME UNCHANGED vars PROVE CasesInv'
    <3>1. UNCHANGED <<caseRunVars, driverVars, launchVars, driver>>
      BY <2>5 DEF vars
    <3>2. /\ UNCHANGED <<callVars, evidence, samplers, loads, driver, entry, finished, runs, launch>>
          /\ pc' = pc
      BY <3>1 DEF caseRunVars, driverVars, launchVars
    <3> QED
      BY <2>3, <3>2, Zenon
  <2>6. ASSUME Killed, UNCHANGED launchVars PROVE CasesInv'
    BY <2>3, <2>4, <2>6, Zenon DEF launchVars, Killed, Ends
  <2>7. ASSUME CaseSteps \/ Interrupted, UNCHANGED <<driverVars, launchVars>> PROVE CasesInv'
    BY <2>1, <2>4, <2>7, CaseStepKeeps
  <2>8. ASSUME EngineSteps, UNCHANGED <<driverVars, launchVars>> PROVE CasesInv'
    BY <2>1, <2>4, <2>8, EngineStepKeeps
  <2>9. ASSUME driver = "run.sh", RunSteps \/ Probe, UNCHANGED launchVars PROVE CasesInv'
    BY <2>1, <2>4, <2>9, RunStepKeeps, ProbeKeeps
  <2>10. ASSUME driver = "boundary.sh", BoundarySteps \/ Terminate PROVE CasesInv'
    BY <2>1, <2>4, <2>10, BoundaryStepKeeps
  <2>11. CasesInv'
    BY <2>5, <2>6, <2>7, <2>8, <2>9, <2>10, NextSplit, Zenon
  <2> QED
    BY <2>2, <2>11 DEF DInv, CasesInv
<1> QED
  BY <1>1, <1>2, PTL DEF Spec

\* The state of the scripts, their cases and the engine is as typed.
THEOREM TypeCorrect == Spec => []TypeOK
<1>1. DInv => TypeOK
  BY DEF DInv
<1> QED
  BY <1>1, DInvAlways, PTL

\* boundary.sh never has two servers alive, nor one when it has finished.
THEOREM AloneAlways == Spec => []LaunchesAlone
<1>1. DInv => LaunchesAlone
  BY DEF DInv, StopsFirst, AllDead, LaunchesAlone
<1> QED
  BY <1>1, DInvAlways, PTL

\* run.sh finishes only over saved cases.
THEOREM FinishedSaved == Spec => []FinishedIsSaved
<1>1. DInv => FinishedIsSaved
  BY DEF DInv, SavedSoFar, IsSaved, FinishedIsSaved
<1> QED
  BY <1>1, DInvAlways, PTL

\* Every sampler that outlives a case that is over belongs to one that was
\* killed, or to one that says 130 and had not noted it.
THEOREM SamplersStopped == Spec => []SamplersStop
<1>1. DInv => SamplersStop
  BY DEF DInv, SamplersKnown, SamplersStop
<1> QED
  BY <1>1, DInvAlways, PTL

\* What a case has recorded is never written again, whatever is left running;
\* but for the samples of a case that says 130 and has no report, to which
\* the sampler that outlives it adds.
THEOREM RecordsFinal == Spec => RecordedIsFinal
<1> DEFINE Final(c) ==
      \/ evidence'[c] = evidence[c]
      \/ /\ evidence[c].exit = 130 /\ evidence[c].report = NoReport
         /\ evidence'[c] = [evidence[c] EXCEPT !.samples = @ \union evidence'[c].samples]
<1>1. DInv /\ [Next]_vars => [\A c \in Cases : evidence[c].recorded => Final(c)]_vars
  <2> SUFFICES ASSUME DInv, [Next]_vars, NEW c \in Cases, evidence[c].recorded
               PROVE  Final(c)
    OBVIOUS
  <2>1. TypeOK /\ CallsWaitedFor /\ NothingEarly /\ FreshAhead /\ SamplersKnown
    BY DEF DInv
  <2>2. evidence \in [Cases -> EvidenceRecords] /\ evidence[c].made
    BY <2>1 DEF TypeOK, CaseTypeOK, NothingEarly
  <2>3. CASE UNCHANGED evidence
    BY <2>3
  <2>4. CASE CaseSteps \/ Interrupted
    BY <2>1, <2>4, CaseStepFacts DEF CallsWaitedFor
  <2>5. ASSUME NEW d \in Cases, ~evidence[d].made, Call(d) PROVE Final(c)
    BY <2>2, <2>5 DEF Call
  <2>6. ASSUME NEW d \in Cases, OrphanLoadEnds(d) PROVE Final(c)
    <3>1. d # c
      BY <2>1, <2>6 DEF OrphanLoadEnds, NothingEarly
    <3> QED
      BY <2>2, <2>6, <3>1 DEF OrphanLoadEnds
  <2>7. ASSUME NEW d \in Cases, OrphanSamples(d) PROVE Final(c)
    <3>1. PICK s \in Strays : evidence' = [evidence EXCEPT ![d].samples = @ \union {s}]
      BY <2>7 DEF OrphanSamples
    <3>2. CASE d # c
      BY <2>2, <3>1, <3>2
    <3>3. CASE d = c
      <4>1. evidence[c].exit = 130 /\ evidence[c].report = NoReport
        BY <2>1, <2>7, <3>3 DEF OrphanSamples, SamplersKnown
      <4>2. evidence[c] \in EvidenceRecords
        BY <2>2
      <4>3. evidence'[c] = [evidence[c] EXCEPT !.samples = @ \union {s}]
        BY <2>2, <3>1, <3>3
      <4>4. evidence'[c].samples = evidence[c].samples \union {s}
        BY <4>2, <4>3 DEF EvidenceRecords
      <4>5. evidence[c].samples \union evidence'[c].samples = evidence[c].samples \union {s}
        BY <4>4
      <4>6. evidence'[c] = [evidence[c] EXCEPT !.samples = @ \union evidence'[c].samples]
        BY <4>2, <4>3, <4>5
      <4> QED
        BY <4>1, <4>6
    <3> QED
      BY <3>2, <3>3
  <2>8. CASE EngineSteps
    BY <2>3, <2>6, <2>7, <2>8 DEF EngineSteps, Request, Preempt, RequestsEnd, ServerDies,
       OthersUnchanged
  <2>9. CASE RunSteps
    <3>1. CASE RunCase
      <4>1. RunTable[entry] \in Cases /\ ~evidence[RunTable[entry]].made /\ Call(RunTable[entry])
        BY <2>1, <3>1, RunTableAssumption DEF RunCase, TypeOK
      <4> QED
        BY <2>5, <4>1
    <3> QED
      BY <2>3, <2>9, <3>1 DEF RunSteps, RunStart, SkipSaved, RefuseCase, CaseReturns, RunEnds,
         RunsUnchanged, caseRunVars
  <2>10. CASE Probe
    BY <2>3, <2>10 DEF Probe, ProbeAnswered, ProbeFails, RunsUnchanged, caseRunVars
  <2>11. CASE driver = "boundary.sh" /\ (BoundarySteps \/ Terminate)
    <3>1. CASE CallNext
      <4>1. /\ launch \in DOMAIN Launches /\ entry \in DOMAIN Launches[launch]
            /\ Launches[launch][entry] \in Cases
        BY <2>1, <3>1, LaunchesAssumption DEF CallNext, Table, TypeOK
      <4>2. ~evidence[Launches[launch][entry]].made
        BY <2>1, <2>11, <3>1, <4>1 DEF CallNext, FreshAhead, BeforeCase
      <4> QED
        BY <2>5, <3>1, <4>1, <4>2 DEF CallNext, Table
    <3> QED
      BY <2>3, <2>11, <3>1 DEF BoundarySteps, Begin, ForkServer, NoteServer, StartupSucceeds,
         StartupFails, Responds, DoesNotRespond, SnapLayout, LayoutUnread, JudgeLayout, CaseOk,
         CaseNotDrained, CaseFailed, CasesDone, NothingToStop, KillServer, LookStopped, Stopped,
         LookRefuses, End, Terminate, RestUnchanged, CasesUnchanged, caseRunVars
  <2> QED
    BY <2>3, <2>4, <2>8, <2>9, <2>10, <2>11, NextSplit DEF Killed, vars, caseRunVars
<1> QED
  BY <1>1, DInvAlways, PTL DEF Spec, RecordedIsFinal
=============================================================================
