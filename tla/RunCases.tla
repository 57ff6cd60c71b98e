------------------------------ MODULE RunCases ------------------------------
(* run.sh by hand: its loop over the case table on one run directory and   *)
(* one server, begun again after a failure or a kill, with its rule for    *)
(* the case directories it finds.  (As a step of run-all.sh on a fresh     *)
(* directory it is part of RunAll.)  Nobody starts it while a case of an   *)
(* earlier one goes on.                                                    *)
EXTENDS CaseRun

CONSTANTS
  RunTable,  \* the cases, in the order of the table
  MaxRuns    \* bound: how often run.sh is started

ASSUME RunTableAssumption ==
  /\ RunTable \in Seq(Cases) /\ RunTable # <<>>
  /\ \A i, j \in DOMAIN RunTable : RunTable[i] = RunTable[j] => i = j
  /\ MaxRuns \in Nat

RunsUnchanged == UNCHANGED <<finished, runs, caseRunVars>>

-----------------------------------------------------------------------------
RunStart ==
  /\ pc = "idle" /\ step = "none" /\ runs < MaxRuns
  /\ runs' = runs + 1 /\ entry' = 1
  /\ pc' = "probe" /\ outcome' = "none"
  /\ UNCHANGED <<finished, caseRunVars>>

\* The curl of /v1/models, which has no --max-time: a server that accepts the
\* connection and does not answer keeps it there.
ProbeAnswered ==
  /\ pc = "probe" /\ Up
  /\ Goto("loop")
  /\ UNCHANGED entry /\ RunsUnchanged

\* `No server responding'
ProbeFails ==
  /\ pc = "probe"
  /\ Charge(Up)
  /\ Ends("failed")
  /\ UNCHANGED <<entry, finished, runs, callVars, engineVars, evidence, samplers, loads>>

Probe == ProbeAnswered \/ ProbeFails

RunCase ==
  /\ pc = "loop" /\ entry <= Len(RunTable)
  /\ ~evidence[RunTable[entry]].made
  /\ Call(RunTable[entry])
  /\ Goto("case")
  /\ UNCHANGED <<entry, finished, runs>>

\* `already saved'
Saved(e) == ~Undrained(e) /\ e.end # Missing /\ Succeeds(e.report)

\* Mutant of SkipSaved: the drain is not looked at.
SkipUndrained ==
  /\ pc = "loop" /\ entry <= Len(RunTable)
  /\ LET e == evidence[RunTable[entry]] IN e.made /\ e.end # Missing /\ Succeeds(e.report)
  /\ entry' = entry + 1
  /\ Goto("loop") /\ RunsUnchanged

SkipSaved ==
  /\ pc = "loop" /\ entry <= Len(RunTable)
  /\ evidence[RunTable[entry]].made /\ Saved(evidence[RunTable[entry]])
  /\ entry' = entry + 1
  /\ Goto("loop") /\ RunsUnchanged

\* Mutant of RefuseCase: an unsaved case is run again into its directory.
RerunCase ==
  /\ pc = "loop" /\ entry <= Len(RunTable)
  /\ evidence[RunTable[entry]].made /\ ~Saved(evidence[RunTable[entry]])
  /\ Call(RunTable[entry])
  /\ Goto("case")
  /\ UNCHANGED <<entry, finished, runs>>

\* `move it aside to rerun the case', or the engine did not drain after it.
RefuseCase ==
  /\ pc = "loop" /\ entry <= Len(RunTable)
  /\ evidence[RunTable[entry]].made /\ ~Saved(evidence[RunTable[entry]])
  /\ Ends("failed")
  /\ UNCHANGED entry /\ RunsUnchanged

CaseReturns ==
  /\ pc = "case" /\ step = "none"
  /\ IF returned0 THEN Goto("loop") /\ entry' = entry + 1 ELSE Ends("failed") /\ UNCHANGED entry
  /\ RunsUnchanged

RunEnds ==
  /\ pc = "loop" /\ entry > Len(RunTable)
  /\ finished' = TRUE
  /\ Ends("success")
  /\ UNCHANGED <<entry, runs, caseRunVars>>

RunSteps == RunStart \/ RunCase \/ SkipSaved \/ RefuseCase \/ CaseReturns \/ RunEnds
=============================================================================
