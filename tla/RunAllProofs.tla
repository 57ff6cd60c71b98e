---------------------------- MODULE RunAllProofs ----------------------------
(* Proofs for RunAll: RInv is inductive, and with it finished-at.txt       *)
(* stands for a whole run, a job's success for its own commit, and no job  *)
(* that ends by itself leaves a server; nothing recorded is overwritten.   *)
EXTENDS RunAll, TLAPS

-----------------------------------------------------------------------------

\* What the assignments to a run directory's fields leave of it.
LEMMA SetCommit ==
  ASSUME NEW d \in RunDirs, NEW c \in Commits
  PROVE  LET e == [d EXCEPT !.commit = c]
         IN /\ e \in RunDirs /\ e.commit = c
            /\ e.launch = d.launch /\ e.finished = d.finished /\ e.results = d.results
            /\ e.began = d.began /\ e.scripts = d.scripts
  BY DEF RunDirs

WithResult(d, k, value) == [d EXCEPT !.results[k] = value]

LEMMA SetResult ==
  ASSUME NEW d \in RunDirs, NEW k \in CaseSet, NEW value \in {"running", "ok", "bad"}
  PROVE  /\ WithResult(d, k, value) \in RunDirs
         /\ WithResult(d, k, value).results[k] = value
         /\ WithResult(d, k, value).launch = d.launch
         /\ WithResult(d, k, value).finished = d.finished
         /\ WithResult(d, k, value).commit = d.commit
         /\ WithResult(d, k, value).began = d.began
<1> DEFINE R == [d.results EXCEPT ![k] = value]
<1>1. R \in [CaseSet -> {"none", "running", "ok", "bad"}]
  BY DEF RunDirs
<1>2. WithResult(d, k, value) = [d EXCEPT !.results = R]
  BY DEF RunDirs, WithResult
<1>3. R[k] = value
  BY DEF RunDirs
<1> HIDE DEF R
<1> QED
  BY <1>1, <1>2, <1>3 DEF RunDirs

LEMMA SetResultElsewhere ==
  ASSUME NEW d \in RunDirs, NEW k \in CaseSet, NEW value \in {"running", "ok", "bad"},
         NEW i \in CaseSet, i # k
  PROVE  WithResult(d, k, value).results[i] = d.results[i]
  BY DEF RunDirs, WithResult

LEMMA InitRInv == Init => RInv
<1> SUFFICES ASSUME Init PROVE RInv
  OBVIOUS
<1> USE ConstantsAssumption DEF Init
<1>1. TypeOK
  <2>1. servers \in Seq({"alive", "dying", "dead"}) /\ Len(servers) = 0
    OBVIOUS
  <2>2. dir \in [Entries -> RunDirs \union {Absent}] /\ aside \subseteq Entries \X RunDirs
    OBVIOUS
  <2>3. /\ model \in 0..(Models + 1) /\ case \in 1..(Cases + 1) /\ jobs \in 0..MaxJobs
        /\ server \in 0..Len(servers)
    BY <2>1
  <2>4. /\ scripts \in Commits \union {Mixed} /\ commitFile \in Commits /\ began \in Commits
        /\ shipping \in Commits \union {NoCommit}
    OBVIOUS
  <2> QED
    BY <2>1, <2>2, <2>3, <2>4 DEF TypeOK, Steps
<1>2. CommitPinned /\ OutcomeFollowsPc /\ DirOfJob /\ EarlierFinished
  BY DEF CommitPinned, OutcomeFollowsPc, DirOfJob, EarlierFinished
<1>3. ServersTracked
  BY DEF ServersTracked
<1>4. FinishedIsWhole /\ SuccessIsOfThisCommit /\ NoServerLeft
  BY DEF FinishedIsWhole, SuccessIsOfThisCommit, NoServerLeft, HasFinished
<1> QED
  BY <1>1, <1>2, <1>3, <1>4 DEF RInv

\* Stopping a server leaves as many launches as there were.
LEMMA KillServerTyped ==
  ASSUME TypeOK, KillServer
  PROVE  /\ servers' \in Seq({"alive", "dying", "dead"})
         /\ Len(servers') = Len(servers)
<1>1. CASE server = 0
  BY <1>1 DEF KillServer, TypeOK
<1>2. CASE server # 0
  <2>1. PICK s \in {"dying", "dead"} :
          servers' = [servers EXCEPT ![server] = IF @ = "dead" THEN @ ELSE s]
    BY <1>2 DEF KillServer
  <2>2. server \in 1..Len(servers) /\ servers \in Seq({"alive", "dying", "dead"})
    BY <1>2 DEF TypeOK
  <2> DEFINE to == IF servers[server] = "dead" THEN servers[server] ELSE s
  <2>3. to \in {"alive", "dying", "dead"} /\ servers' = [servers EXCEPT ![server] = to]
    BY <2>1
  <2> HIDE DEF to
  <2> QED
    BY <2>2, <2>3
<1> QED
  BY <1>1, <1>2

LEMMA NextRInv == RInv /\ [Next]_vars => RInv'
<1> SUFFICES ASSUME RInv, [Next]_vars PROVE RInv'
  OBVIOUS
<1> USE ConstantsAssumption, AbsentAssumption DEF RInv, ModeEntries, Entries
<1>1. ASSUME NEW c \in Commits, ShipUnpacks(c) PROVE RInv'
  <2> USE <1>1 DEF ShipUnpacks, GpuFree
  <2>1. TypeOK'
    BY DEF TypeOK, RunDirs, CaseSet, Entries, Steps, vars, shipVars, jobVars
  <2>2. CommitPinned'
    BY DEF CommitPinned, vars, shipVars, jobVars
  <2>3. OutcomeFollowsPc'
    BY DEF OutcomeFollowsPc, vars, shipVars, jobVars
  <2>4. DirOfJob'
    BY DEF DirOfJob, vars, shipVars, jobVars
  <2>5. EarlierFinished'
    BY DEF EarlierFinished, HasFinished, vars, shipVars, jobVars
  <2>6. ServersTracked'
    BY DEF ServersTracked, Launches, vars, shipVars, jobVars
  <2>7. FinishedIsWhole'
    BY DEF FinishedIsWhole, HasFinished, vars, shipVars, jobVars
  <2>8. SuccessIsOfThisCommit'
    BY DEF SuccessIsOfThisCommit, HasFinished, vars, shipVars, jobVars
  <2>9. NoServerLeft'
    BY DEF NoServerLeft, Launches, vars, shipVars, jobVars
  <2> QED
    BY <2>1, <2>2, <2>3, <2>4, <2>5, <2>6, <2>7, <2>8, <2>9
<1>2. ASSUME ShipUnpacked PROVE RInv'
  <2> USE <1>2 DEF ShipUnpacked
  <2>1. TypeOK'
    BY DEF TypeOK, RunDirs, CaseSet, Entries, Steps, vars, shipVars, jobVars
  <2>2. CommitPinned'
    BY DEF CommitPinned, vars, shipVars, jobVars
  <2>3. OutcomeFollowsPc'
    BY DEF OutcomeFollowsPc, vars, shipVars, jobVars
  <2>4. DirOfJob'
    BY DEF DirOfJob, vars, shipVars, jobVars
  <2>5. EarlierFinished'
    BY DEF EarlierFinished, HasFinished, vars, shipVars, jobVars
  <2>6. ServersTracked'
    BY DEF ServersTracked, Launches, vars, shipVars, jobVars
  <2>7. FinishedIsWhole'
    BY DEF FinishedIsWhole, HasFinished, vars, shipVars, jobVars
  <2>8. SuccessIsOfThisCommit'
    BY DEF SuccessIsOfThisCommit, HasFinished, vars, shipVars, jobVars
  <2>9. NoServerLeft'
    BY DEF NoServerLeft, Launches, vars, shipVars, jobVars
  <2> QED
    BY <2>1, <2>2, <2>3, <2>4, <2>5, <2>6, <2>7, <2>8, <2>9
<1>3. ASSUME ShipRecords PROVE RInv'
  <2> USE <1>3 DEF ShipRecords
  <2>1. TypeOK'
    BY DEF TypeOK, RunDirs, CaseSet, Entries, Steps, vars, shipVars, jobVars
  <2>2. CommitPinned'
    BY DEF CommitPinned, vars, shipVars, jobVars
  <2>3. OutcomeFollowsPc'
    BY DEF OutcomeFollowsPc, vars, shipVars, jobVars
  <2>4. DirOfJob'
    BY DEF DirOfJob, vars, shipVars, jobVars
  <2>5. EarlierFinished'
    BY DEF EarlierFinished, HasFinished, vars, shipVars, jobVars
  <2>6. ServersTracked'
    BY DEF ServersTracked, Launches, vars, shipVars, jobVars
  <2>7. FinishedIsWhole'
    BY DEF FinishedIsWhole, HasFinished, vars, shipVars, jobVars
  <2>8. SuccessIsOfThisCommit'
    BY DEF SuccessIsOfThisCommit, HasFinished, vars, shipVars, jobVars
  <2>9. NoServerLeft'
    BY DEF NoServerLeft, Launches, vars, shipVars, jobVars
  <2> QED
    BY <2>1, <2>2, <2>3, <2>4, <2>5, <2>6, <2>7, <2>8, <2>9
<1>4. ASSUME ShipLost PROVE RInv'
  <2> USE <1>4 DEF ShipLost
  <2>1. TypeOK'
    BY DEF TypeOK, RunDirs, CaseSet, Entries, Steps, vars, shipVars, jobVars
  <2>2. CommitPinned'
    BY DEF CommitPinned, vars, shipVars, jobVars
  <2>3. OutcomeFollowsPc'
    BY DEF OutcomeFollowsPc, vars, shipVars, jobVars
  <2>4. DirOfJob'
    BY DEF DirOfJob, vars, shipVars, jobVars
  <2>5. EarlierFinished'
    BY DEF EarlierFinished, HasFinished, vars, shipVars, jobVars
  <2>6. ServersTracked'
    BY DEF ServersTracked, Launches, vars, shipVars, jobVars
  <2>7. FinishedIsWhole'
    BY DEF FinishedIsWhole, HasFinished, vars, shipVars, jobVars
  <2>8. SuccessIsOfThisCommit'
    BY DEF SuccessIsOfThisCommit, HasFinished, vars, shipVars, jobVars
  <2>9. NoServerLeft'
    BY DEF NoServerLeft, Launches, vars, shipVars, jobVars
  <2> QED
    BY <2>1, <2>2, <2>3, <2>4, <2>5, <2>6, <2>7, <2>8, <2>9
<1>5. ASSUME NEW m \in {"smoke", "full"}, Start(m) PROVE RInv'
  <2> USE <1>5 DEF Start, GpuFree
  <2>1. TypeOK'
    <3>1. /\ jobs' \in 0..MaxJobs /\ model' \in 0..(Models + 1)
          /\ began' \in Commits /\ server' \in 0..Len(servers')
      BY DEF TypeOK
    <3> QED
      BY <3>1 DEF TypeOK, Steps, vars, shipVars, jobVars
  <2>2. CommitPinned'
    BY DEF CommitPinned, vars, shipVars, jobVars
  <2>3. OutcomeFollowsPc'
    BY DEF OutcomeFollowsPc, vars, shipVars, jobVars
  <2>4. DirOfJob'
    BY DEF DirOfJob, vars, shipVars, jobVars
  <2>5. EarlierFinished'
    BY DEF EarlierFinished, HasFinished, TypeOK, RunDirs, CaseSet, Entries, Steps, vars,
       shipVars, jobVars
  <2>6. ServersTracked'
    BY DEF ServersTracked, Launches, vars, shipVars, jobVars
  <2>7. FinishedIsWhole'
    BY DEF FinishedIsWhole, HasFinished, vars, shipVars, jobVars
  <2>8. SuccessIsOfThisCommit'
    BY DEF SuccessIsOfThisCommit, HasFinished, vars, shipVars, jobVars
  <2>9. NoServerLeft'
    BY DEF NoServerLeft, Launches, vars, shipVars, jobVars
  <2> QED
    BY <2>1, <2>2, <2>3, <2>4, <2>5, <2>6, <2>7, <2>8, <2>9
<1>6. ASSUME SkipFinished PROVE RInv'
  <2> USE <1>6 DEF SkipFinished, Goto
  <2>1. TypeOK'
    BY DEF TypeOK, RunDirs, CaseSet, Entries, Steps, vars, shipVars, jobVars
  <2>2. CommitPinned'
    BY DEF CommitPinned, vars, shipVars, jobVars
  <2>3. OutcomeFollowsPc'
    BY DEF OutcomeFollowsPc, vars, shipVars, jobVars
  <2>4. DirOfJob'
    BY DEF DirOfJob, vars, shipVars, jobVars
  <2>5. EarlierFinished'
    BY DEF EarlierFinished, HasFinished, TypeOK, RunDirs, CaseSet, Entries, Steps,
       OutcomeFollowsPc, DirOfJob, CommitPinned, ServersTracked, Launches, vars,
       shipVars, jobVars
  <2>6. ServersTracked'
    BY DEF ServersTracked, Launches, vars, shipVars, jobVars
  <2>7. FinishedIsWhole'
    BY DEF FinishedIsWhole, HasFinished, vars, shipVars, jobVars
  <2>8. SuccessIsOfThisCommit'
    BY DEF SuccessIsOfThisCommit, HasFinished, vars, shipVars, jobVars
  <2>9. NoServerLeft'
    BY DEF NoServerLeft, Launches, vars, shipVars, jobVars
  <2> QED
    BY <2>1, <2>2, <2>3, <2>4, <2>5, <2>6, <2>7, <2>8, <2>9
<1>7. ASSUME RefuseForeign PROVE RInv'
  <2> USE <1>7 DEF RefuseForeign, Exit
  <2>1. TypeOK'
    BY DEF TypeOK, RunDirs, CaseSet, Entries, Steps, vars, shipVars, jobVars
  <2>2. CommitPinned'
    BY DEF CommitPinned, vars, shipVars, jobVars
  <2>3. OutcomeFollowsPc'
    BY DEF OutcomeFollowsPc, vars, shipVars, jobVars
  <2>4. DirOfJob'
    BY DEF DirOfJob, vars, shipVars, jobVars
  <2>5. EarlierFinished'
    BY DEF EarlierFinished, HasFinished, vars, shipVars, jobVars
  <2>6. ServersTracked'
    BY DEF ServersTracked, Launches, TypeOK, RunDirs, CaseSet, Entries, Steps,
       OutcomeFollowsPc, DirOfJob, vars, shipVars, jobVars
  <2>7. FinishedIsWhole'
    BY DEF FinishedIsWhole, HasFinished, vars, shipVars, jobVars
  <2>8. SuccessIsOfThisCommit'
    BY DEF SuccessIsOfThisCommit, HasFinished, vars, shipVars, jobVars
  <2>9. NoServerLeft'
    BY DEF NoServerLeft, Launches, vars, shipVars, jobVars
  <2> QED
    BY <2>1, <2>2, <2>3, <2>4, <2>5, <2>6, <2>7, <2>8, <2>9
<1>8. ASSUME MoveAside PROVE RInv'
  <2> USE <1>8 DEF MoveAside, Goto
  <2>1. TypeOK'
    BY DEF TypeOK, RunDirs, CaseSet, Entries, Steps, vars, shipVars, jobVars
  <2>2. CommitPinned'
    BY DEF CommitPinned, vars, shipVars, jobVars
  <2>3. OutcomeFollowsPc'
    BY DEF OutcomeFollowsPc, vars, shipVars, jobVars
  <2>4. DirOfJob'
    BY DEF DirOfJob, vars, shipVars, jobVars
  <2>5. EarlierFinished'
    BY DEF EarlierFinished, HasFinished, TypeOK, RunDirs, CaseSet, Entries, Steps, vars,
       shipVars, jobVars
  <2>6. ServersTracked'
    BY DEF ServersTracked, Launches, vars, shipVars, jobVars
  <2>7. FinishedIsWhole'
    BY DEF FinishedIsWhole, HasFinished, vars, shipVars, jobVars
  <2>8. SuccessIsOfThisCommit'
    BY DEF SuccessIsOfThisCommit, HasFinished, TypeOK, RunDirs, CaseSet, Entries, Steps,
       OutcomeFollowsPc, DirOfJob, vars, shipVars, jobVars
  <2>9. NoServerLeft'
    BY DEF NoServerLeft, Launches, vars, shipVars, jobVars
  <2> QED
    BY <2>1, <2>2, <2>3, <2>4, <2>5, <2>6, <2>7, <2>8, <2>9
<1>9. ASSUME Serve PROVE RInv'
  <2> USE <1>9 DEF Serve, Goto
  <2>1. TypeOK'
    BY DEF TypeOK, RunDirs, CaseSet, Entries, Steps, vars, shipVars, jobVars
  <2>2. CommitPinned'
    BY DEF CommitPinned, vars, shipVars, jobVars
  <2>3. OutcomeFollowsPc'
    BY DEF OutcomeFollowsPc, vars, shipVars, jobVars
  <2>4. DirOfJob'
    <3>1. model \in Entries
      BY DEF TypeOK, Entries
    <3>2. /\ dir'[model].commit = NoCommit /\ dir'[model].finished = FALSE
          /\ dir'[model].began = began
          /\ \A k \in CaseSet : dir'[model].results[k] = "none"
      BY <3>1 DEF TypeOK
    <3>3. dir'[model] # Absent
      <4>1. /\ servers' \in Seq({"alive", "dying", "dead"})
            /\ dir' \in [Entries -> RunDirs \union {Absent}]
        BY <2>1 DEF TypeOK
      <4>2. [launch |-> Len(servers) + 1, commit |-> NoCommit, finished |-> FALSE,
             results |-> [k \in CaseSet |-> "none"], began |-> began, scripts |-> scripts] \in RunDirs
        BY DEF TypeOK, RunDirs
      <4> QED
        BY <3>1, <4>2 DEF TypeOK
    <3> QED
      BY <3>1, <3>2, <3>3 DEF DirOfJob, vars, shipVars, jobVars
  <2>5. EarlierFinished'
    BY DEF EarlierFinished, HasFinished, vars, shipVars, jobVars
  <2>6. ServersTracked'
    BY DEF ServersTracked, Launches, vars, shipVars, jobVars
  <2>7. FinishedIsWhole'
    BY DEF FinishedIsWhole, HasFinished, vars, shipVars, jobVars
  <2>8. SuccessIsOfThisCommit'
    BY DEF SuccessIsOfThisCommit, HasFinished, vars, shipVars, jobVars
  <2>9. NoServerLeft'
    BY DEF NoServerLeft, Launches, vars, shipVars, jobVars
  <2> QED
    BY <2>1, <2>2, <2>3, <2>4, <2>5, <2>6, <2>7, <2>8, <2>9
<1>10. ASSUME NoteServer PROVE RInv'
  <2> USE <1>10 DEF NoteServer, Goto
  <2>1. TypeOK'
    BY DEF TypeOK, RunDirs, CaseSet, Entries, Steps, vars, shipVars, jobVars
  <2>2. CommitPinned'
    BY DEF CommitPinned, vars, shipVars, jobVars
  <2>3. OutcomeFollowsPc'
    BY DEF OutcomeFollowsPc, vars, shipVars, jobVars
  <2>4. DirOfJob'
    BY DEF DirOfJob, vars, shipVars, jobVars
  <2>5. EarlierFinished'
    BY DEF EarlierFinished, HasFinished, vars, shipVars, jobVars
  <2>6. ServersTracked'
    BY DEF ServersTracked, Launches, vars, shipVars, jobVars
  <2>7. FinishedIsWhole'
    BY DEF FinishedIsWhole, HasFinished, vars, shipVars, jobVars
  <2>8. SuccessIsOfThisCommit'
    BY DEF SuccessIsOfThisCommit, HasFinished, vars, shipVars, jobVars
  <2>9. NoServerLeft'
    BY DEF NoServerLeft, Launches, vars, shipVars, jobVars
  <2> QED
    BY <2>1, <2>2, <2>3, <2>4, <2>5, <2>6, <2>7, <2>8, <2>9
<1>11. ASSUME AwaitServer PROVE RInv'
  <2> USE <1>11 DEF AwaitServer, Goto
  <2>1. TypeOK'
    BY DEF TypeOK, RunDirs, CaseSet, Entries, Steps, vars, shipVars, jobVars
  <2>2. CommitPinned'
    BY DEF CommitPinned, vars, shipVars, jobVars
  <2>3. OutcomeFollowsPc'
    BY DEF OutcomeFollowsPc, vars, shipVars, jobVars
  <2>4. DirOfJob'
    BY DEF DirOfJob, vars, shipVars, jobVars
  <2>5. EarlierFinished'
    BY DEF EarlierFinished, HasFinished, vars, shipVars, jobVars
  <2>6. ServersTracked'
    BY DEF ServersTracked, Launches, vars, shipVars, jobVars
  <2>7. FinishedIsWhole'
    BY DEF FinishedIsWhole, HasFinished, vars, shipVars, jobVars
  <2>8. SuccessIsOfThisCommit'
    BY DEF SuccessIsOfThisCommit, HasFinished, vars, shipVars, jobVars
  <2>9. NoServerLeft'
    BY DEF NoServerLeft, Launches, vars, shipVars, jobVars
  <2> QED
    BY <2>1, <2>2, <2>3, <2>4, <2>5, <2>6, <2>7, <2>8, <2>9
<1>12. ASSUME CopyRecords PROVE RInv'
  <2> USE <1>12 DEF CopyRecords, Goto, Exit
  <2>1. TypeOK'
    <3> DEFINE e == [dir[model] EXCEPT !.commit = commitFile]
    <3>1. model \in Entries /\ dir[model] \in RunDirs
      BY DEF TypeOK, DirOfJob
    <3>2. e \in RunDirs /\ dir' = [dir EXCEPT ![model] = e]
      BY <3>1, SetCommit DEF TypeOK
    <3>3. dir' \in [Entries -> RunDirs \union {Absent}]
      BY <3>1, <3>2 DEF TypeOK
    <3> QED
      BY <3>3 DEF TypeOK, Steps, vars, shipVars, jobVars
  <2>2. CommitPinned'
    BY DEF CommitPinned, vars, shipVars, jobVars
  <2>3. OutcomeFollowsPc'
    BY DEF OutcomeFollowsPc, vars, shipVars, jobVars
  <2>4. DirOfJob'
    <3> DEFINE e == [dir[model] EXCEPT !.commit = commitFile]
    <3>1. model \in Entries /\ dir[model] \in RunDirs /\ ~dir[model].finished
      BY DEF TypeOK, DirOfJob
    <3>2. /\ e \in RunDirs /\ e.commit = began /\ e.finished = dir[model].finished
          /\ e.results = dir[model].results /\ e.began = dir[model].began
      BY <3>1, SetCommit DEF TypeOK, CommitPinned
    <3>3. dir'[model] = e /\ model' = model
      BY <3>1 DEF TypeOK
    <3> HIDE DEF e
    <3>4. CASE startup
      <4>1. pc' = "cases" /\ case' = 1 /\ began' = began
        BY <3>4
      <4>2. \A k \in CaseSet : ~(k < 1) /\ e.results[k] = "none"
        BY <3>2 DEF DirOfJob, CaseSet
      <4> QED
        BY <3>1, <3>2, <3>3, <4>1, <4>2 DEF DirOfJob
    <3>5. CASE ~startup
      BY <3>5 DEF DirOfJob
    <3> QED
      BY <3>4, <3>5
  <2>5. EarlierFinished'
    BY DEF EarlierFinished, HasFinished, TypeOK, RunDirs, CaseSet, Entries, Steps, vars,
       shipVars, jobVars
  <2>6. ServersTracked'
    BY DEF ServersTracked, Launches, TypeOK, RunDirs, CaseSet, Entries, Steps,
       OutcomeFollowsPc, DirOfJob, vars, shipVars, jobVars
  <2>7. FinishedIsWhole'
    BY DEF FinishedIsWhole, HasFinished, TypeOK, RunDirs, CaseSet, Entries, Steps,
       OutcomeFollowsPc, DirOfJob, vars, shipVars, jobVars
  <2>8. SuccessIsOfThisCommit'
    BY DEF SuccessIsOfThisCommit, HasFinished, TypeOK, RunDirs, CaseSet, Entries, Steps,
       OutcomeFollowsPc, DirOfJob, vars, shipVars, jobVars
  <2>9. NoServerLeft'
    BY DEF NoServerLeft, Launches, vars, shipVars, jobVars
  <2> QED
    BY <2>1, <2>2, <2>3, <2>4, <2>5, <2>6, <2>7, <2>8, <2>9
<1>13. ASSUME RunRefused PROVE RInv'
  <2> USE <1>13 DEF RunRefused, RunFails, Goto, Exit
  <2>1. TypeOK'
    BY DEF TypeOK, RunDirs, CaseSet, Entries, Steps, vars, shipVars, jobVars
  <2>2. CommitPinned'
    BY DEF CommitPinned, vars, shipVars, jobVars
  <2>3. OutcomeFollowsPc'
    BY DEF OutcomeFollowsPc, vars, shipVars, jobVars
  <2>4. DirOfJob'
    BY DEF DirOfJob, vars, shipVars, jobVars
  <2>5. EarlierFinished'
    BY DEF EarlierFinished, HasFinished, vars, shipVars, jobVars
  <2>6. ServersTracked'
    BY DEF ServersTracked, Launches, TypeOK, RunDirs, CaseSet, Entries, Steps,
       OutcomeFollowsPc, DirOfJob, vars, shipVars, jobVars
  <2>7. FinishedIsWhole'
    BY DEF FinishedIsWhole, HasFinished, vars, shipVars, jobVars
  <2>8. SuccessIsOfThisCommit'
    BY DEF SuccessIsOfThisCommit, HasFinished, vars, shipVars, jobVars
  <2>9. NoServerLeft'
    BY DEF NoServerLeft, Launches, TypeOK, RunDirs, CaseSet, Entries, Steps,
       OutcomeFollowsPc, DirOfJob, vars, shipVars, jobVars
  <2> QED
    BY <2>1, <2>2, <2>3, <2>4, <2>5, <2>6, <2>7, <2>8, <2>9
<1>14. ASSUME BeginCase PROVE RInv'
  <2> USE <1>14 DEF BeginCase, Goto
  <2>1. TypeOK'
    BY DEF TypeOK, RunDirs, CaseSet, Entries, Steps, OutcomeFollowsPc, DirOfJob, vars,
       shipVars, jobVars
  <2>2. CommitPinned'
    BY DEF CommitPinned, vars, shipVars, jobVars
  <2>3. OutcomeFollowsPc'
    BY DEF OutcomeFollowsPc, vars, shipVars, jobVars
  <2>4. DirOfJob'
    <3> DEFINE e == WithResult(dir[model], case, "running")
    <3>1. /\ model \in Entries /\ dir[model] \in RunDirs /\ ~dir[model].finished
          /\ case \in CaseSet
      BY DEF TypeOK, DirOfJob, CaseSet
    <3>2. /\ e \in RunDirs /\ e.results[case] = "running"
          /\ e.commit = dir[model].commit /\ e.finished = dir[model].finished
          /\ e.began = dir[model].began
      BY <3>1, SetResult
    <3>e. ASSUME NEW i \in CaseSet, i # case PROVE e.results[i] = dir[model].results[i]
      BY <3>1, <3>e, SetResultElsewhere
    <3>3. dir'[model] = e /\ model' = model /\ case' = case
      BY <3>1 DEF TypeOK, WithResult
    <3>4. \A i \in CaseSet : (i < case => i # case) /\ (i > case => i # case)
      BY DEF CaseSet
    <3> HIDE DEF e
    <3> QED
      BY <3>1, <3>2, <3>e, <3>3, <3>4 DEF DirOfJob, vars, shipVars, jobVars
  <2>5. EarlierFinished'
    BY DEF EarlierFinished, HasFinished, TypeOK, RunDirs, CaseSet, Entries, Steps, vars,
       shipVars, jobVars
  <2>6. ServersTracked'
    BY DEF ServersTracked, Launches, vars, shipVars, jobVars
  <2>7. FinishedIsWhole'
    BY DEF FinishedIsWhole, HasFinished, TypeOK, RunDirs, CaseSet, Entries, Steps,
       OutcomeFollowsPc, DirOfJob, vars, shipVars, jobVars
  <2>8. SuccessIsOfThisCommit'
    BY DEF SuccessIsOfThisCommit, HasFinished, TypeOK, RunDirs, CaseSet, Entries, Steps,
       OutcomeFollowsPc, DirOfJob, vars, shipVars, jobVars
  <2>9. NoServerLeft'
    BY DEF NoServerLeft, Launches, vars, shipVars, jobVars
  <2> QED
    BY <2>1, <2>2, <2>3, <2>4, <2>5, <2>6, <2>7, <2>8, <2>9
<1>15. ASSUME EndCase PROVE RInv'
  <2> USE <1>15 DEF EndCase, RunFails, Goto, Exit
  <2>1. TypeOK'
    <3>1. /\ model \in Entries /\ dir[model] \in RunDirs /\ ~dir[model].finished
          /\ case \in CaseSet
      BY DEF TypeOK, DirOfJob
    <3>2. PICK r \in {"ok", "bad"} :
            /\ dir' = [dir EXCEPT ![model].results[case] = r]
            /\ IF r = "ok" THEN pc' = "cases" /\ case' = case + 1
                           ELSE pc' \in {"idle", "trap"} /\ case' = case
      OBVIOUS
    <3>ok. r \in {"running", "ok", "bad"}
      OBVIOUS
    <3> DEFINE e == WithResult(dir[model], case, r)
    <3>3. /\ e \in RunDirs /\ e.results[case] = r
          /\ e.commit = dir[model].commit /\ e.finished = dir[model].finished
          /\ e.began = dir[model].began
      BY <3>1, <3>ok, SetResult
    <3>e. ASSUME NEW i \in CaseSet, i # case PROVE e.results[i] = dir[model].results[i]
      BY <3>1, <3>e, <3>ok, SetResultElsewhere
    <3>4. dir' = [dir EXCEPT ![model] = e] /\ dir'[model] = e
      BY <3>1, <3>2 DEF TypeOK, WithResult
    <3> HIDE DEF e
    <3>5. dir' \in [Entries -> RunDirs \union {Absent}]
      BY <3>1, <3>3, <3>4 DEF TypeOK
    <3>6. case' \in 1..(Cases + 1)
      BY <3>1, <3>2 DEF CaseSet
    <3>7. pc' \in Steps /\ outcome' \in {"none", "success", "failed", "terminated", "killed"}
      BY <3>2 DEF TypeOK, Steps
    <3> QED
      BY <3>5, <3>6, <3>7 DEF TypeOK, vars, shipVars, jobVars
  <2>2. CommitPinned'
    BY DEF CommitPinned, vars, shipVars, jobVars
  <2>3. OutcomeFollowsPc'
    BY DEF OutcomeFollowsPc, vars, shipVars, jobVars
  <2>4. DirOfJob'
    <3>1. /\ model \in Entries /\ dir[model] \in RunDirs /\ ~dir[model].finished
          /\ case \in CaseSet
      BY DEF TypeOK, DirOfJob
    <3>2. PICK r \in {"ok", "bad"} :
            /\ dir' = [dir EXCEPT ![model].results[case] = r]
            /\ IF r = "ok" THEN pc' = "cases" /\ case' = case + 1
                           ELSE pc' \in {"idle", "trap"} /\ case' = case
      OBVIOUS
    <3>ok. r \in {"running", "ok", "bad"}
      OBVIOUS
    <3> DEFINE e == WithResult(dir[model], case, r)
    <3>3. /\ e \in RunDirs /\ e.results[case] = r
          /\ e.commit = dir[model].commit /\ e.finished = dir[model].finished
          /\ e.began = dir[model].began
      BY <3>1, <3>ok, SetResult
    <3>e. ASSUME NEW i \in CaseSet, i # case PROVE e.results[i] = dir[model].results[i]
      BY <3>1, <3>e, <3>ok, SetResultElsewhere
    <3>4. dir' = [dir EXCEPT ![model] = e] /\ dir'[model] = e
      BY <3>1, <3>2 DEF TypeOK, WithResult
    <3> HIDE DEF e
    <3>5. CASE r = "ok"
      <4>1. \A i \in CaseSet : i < case + 1 => e.results[i] = "ok"
        <5>1. \A i \in CaseSet : i < case + 1 => i = case \/ (i < case /\ i # case)
          BY <3>1 DEF CaseSet
        <5> QED
          BY <3>3, <3>e, <3>5, <5>1 DEF DirOfJob
      <4>2. \A i \in CaseSet : i >= case + 1 => e.results[i] = "none"
        <5>1. \A i \in CaseSet : i >= case + 1 => i > case /\ i # case
          BY <3>1 DEF CaseSet
        <5> QED
          BY <3>3, <3>e, <5>1 DEF DirOfJob
      <4>3. \A i \in CaseSet : i > case + 1 \/ i = case + 1 => i >= case + 1
        BY <3>1 DEF CaseSet
      <4> QED
        BY <3>1, <3>2, <3>3, <3>4, <3>5, <4>1, <4>2, <4>3 DEF DirOfJob, vars, shipVars, jobVars
    <3>6. CASE r = "bad"
      BY <3>2, <3>6 DEF DirOfJob
    <3> QED
      BY <3>5, <3>6
  <2>5. EarlierFinished'
    BY DEF EarlierFinished, HasFinished, TypeOK, RunDirs, CaseSet, Entries, Steps, vars,
       shipVars, jobVars
  <2>6. ServersTracked'
    BY DEF ServersTracked, Launches, TypeOK, RunDirs, CaseSet, Entries, Steps,
       OutcomeFollowsPc, DirOfJob, vars, shipVars, jobVars
  <2>7. FinishedIsWhole'
    BY DEF FinishedIsWhole, HasFinished, TypeOK, RunDirs, CaseSet, Entries, Steps,
       OutcomeFollowsPc, DirOfJob, vars, shipVars, jobVars
  <2>8. SuccessIsOfThisCommit'
    BY DEF SuccessIsOfThisCommit, HasFinished, TypeOK, RunDirs, CaseSet, Entries, Steps,
       OutcomeFollowsPc, DirOfJob, vars, shipVars, jobVars
  <2>9. NoServerLeft'
    BY DEF NoServerLeft, Launches, TypeOK, RunDirs, CaseSet, Entries, Steps,
       OutcomeFollowsPc, DirOfJob, vars, shipVars, jobVars
  <2> QED
    BY <2>1, <2>2, <2>3, <2>4, <2>5, <2>6, <2>7, <2>8, <2>9
<1>16. ASSUME FinishModel PROVE RInv'
  <2> USE <1>16 DEF FinishModel, Goto
  <2>1. TypeOK'
    BY DEF TypeOK, RunDirs, CaseSet, Entries, Steps, OutcomeFollowsPc, DirOfJob, vars,
       shipVars, jobVars
  <2>2. CommitPinned'
    BY DEF CommitPinned, vars, shipVars, jobVars
  <2>3. OutcomeFollowsPc'
    BY DEF OutcomeFollowsPc, vars, shipVars, jobVars
  <2>4. DirOfJob'
    BY DEF DirOfJob, vars, shipVars, jobVars
  <2>a. /\ model \in Entries /\ dir[model] # Absent /\ dir[model].commit = began
        /\ dir \in [Entries -> RunDirs \union {Absent}]
    BY DEF TypeOK, DirOfJob
  <2>b. /\ dir'[model] # Absent /\ dir'[model].finished /\ dir'[model].commit = began
        /\ \A m \in Entries : m # model => dir'[m] = dir[m]
    <3> DEFINE e == [dir[model] EXCEPT !.finished = TRUE]
    <3>1. e \in RunDirs /\ e.finished /\ e.commit = began
      BY <2>a DEF RunDirs
    <3>2. dir' = [dir EXCEPT ![model] = e]
      BY <2>a
    <3> HIDE DEF e
    <3> QED
      BY <2>a, <3>1, <3>2
  <2>5. EarlierFinished'
    BY <2>a, <2>b DEF EarlierFinished, HasFinished, OutcomeFollowsPc, Entries, vars, shipVars, jobVars
  <2>6. ServersTracked'
    BY DEF ServersTracked, Launches, vars, shipVars, jobVars
  <2>7. FinishedIsWhole'
    BY DEF FinishedIsWhole, HasFinished, TypeOK, RunDirs, CaseSet, Entries, Steps,
       OutcomeFollowsPc, DirOfJob, vars, shipVars, jobVars
  <2>8. SuccessIsOfThisCommit'
    BY DEF SuccessIsOfThisCommit, OutcomeFollowsPc, vars, shipVars, jobVars
  <2>9. NoServerLeft'
    BY DEF NoServerLeft, Launches, TypeOK, RunDirs, CaseSet, Entries, Steps,
       OutcomeFollowsPc, DirOfJob, vars, shipVars, jobVars
  <2> QED
    BY <2>1, <2>2, <2>3, <2>4, <2>5, <2>6, <2>7, <2>8, <2>9
<1>17. ASSUME StopServer PROVE RInv'
  <2> USE <1>17 DEF StopServer, KillServer, Goto
  <2>1. TypeOK'
    <3>1. model' \in 0..(Models + 1)
      BY DEF DirOfJob, Entries
    <3>2. servers' \in Seq({"alive", "dying", "dead"}) /\ server' \in 0..Len(servers')
      BY KillServerTyped DEF TypeOK
    <3> QED
      BY <3>1, <3>2 DEF TypeOK, Steps, vars, shipVars, jobVars
  <2>2. CommitPinned'
    BY DEF CommitPinned, vars, shipVars, jobVars
  <2>3. OutcomeFollowsPc'
    BY DEF OutcomeFollowsPc, vars, shipVars, jobVars
  <2>4. DirOfJob'
    BY DEF DirOfJob, vars, shipVars, jobVars
  <2>5. EarlierFinished'
    BY DEF EarlierFinished, HasFinished, TypeOK, RunDirs, CaseSet, Entries, Steps, vars,
       shipVars, jobVars
  <2>6. ServersTracked'
    BY DEF ServersTracked, Launches, vars, shipVars, jobVars
  <2>7. FinishedIsWhole'
    BY DEF FinishedIsWhole, HasFinished, vars, shipVars, jobVars
  <2>8. SuccessIsOfThisCommit'
    BY DEF SuccessIsOfThisCommit, HasFinished, vars, shipVars, jobVars
  <2>9. NoServerLeft'
    BY DEF NoServerLeft, Launches, vars, shipVars, jobVars
  <2> QED
    BY <2>1, <2>2, <2>3, <2>4, <2>5, <2>6, <2>7, <2>8, <2>9
<1>18. ASSUME AllFinished PROVE RInv'
  <2> USE <1>18 DEF AllFinished, Exit
  <2>1. TypeOK'
    BY DEF TypeOK, RunDirs, CaseSet, Entries, Steps, vars, shipVars, jobVars
  <2>2. CommitPinned'
    BY DEF CommitPinned, vars, shipVars, jobVars
  <2>3. OutcomeFollowsPc'
    BY DEF OutcomeFollowsPc, vars, shipVars, jobVars
  <2>4. DirOfJob'
    BY DEF DirOfJob, vars, shipVars, jobVars
  <2>5. EarlierFinished'
    BY DEF EarlierFinished, HasFinished, vars, shipVars, jobVars
  <2>6. ServersTracked'
    BY DEF ServersTracked, Launches, TypeOK, RunDirs, CaseSet, Entries, Steps,
       OutcomeFollowsPc, DirOfJob, vars, shipVars, jobVars
  <2>7. FinishedIsWhole'
    BY DEF FinishedIsWhole, HasFinished, vars, shipVars, jobVars
  <2>8. SuccessIsOfThisCommit'
    BY DEF SuccessIsOfThisCommit, HasFinished, TypeOK, RunDirs, CaseSet, Entries, Steps,
       OutcomeFollowsPc, DirOfJob, CommitPinned, EarlierFinished, ServersTracked,
       Launches, vars, shipVars, jobVars
  <2>9. NoServerLeft'
    BY DEF NoServerLeft, Launches, vars, shipVars, jobVars
  <2> QED
    BY <2>1, <2>2, <2>3, <2>4, <2>5, <2>6, <2>7, <2>8, <2>9
<1>19. ASSUME ExitTrap PROVE RInv'
  <2> USE <1>19 DEF ExitTrap, KillServer, Goto
  <2>1. TypeOK'
    <3>1. servers' \in Seq({"alive", "dying", "dead"}) /\ server' \in 0..Len(servers')
      BY KillServerTyped DEF TypeOK
    <3> QED
      BY <3>1 DEF TypeOK, Steps, vars, shipVars, jobVars
  <2>2. CommitPinned'
    BY DEF CommitPinned, vars, shipVars, jobVars
  <2>3. OutcomeFollowsPc'
    BY DEF OutcomeFollowsPc, vars, shipVars, jobVars
  <2>4. DirOfJob'
    BY DEF DirOfJob, vars, shipVars, jobVars
  <2>5. EarlierFinished'
    BY DEF EarlierFinished, HasFinished, vars, shipVars, jobVars
  <2>6. ServersTracked'
    BY DEF ServersTracked, Launches, vars, shipVars, jobVars
  <2>7. FinishedIsWhole'
    BY DEF FinishedIsWhole, HasFinished, vars, shipVars, jobVars
  <2>8. SuccessIsOfThisCommit'
    BY DEF SuccessIsOfThisCommit, HasFinished, vars, shipVars, jobVars
  <2>9. NoServerLeft'
    BY DEF NoServerLeft, Launches, TypeOK, RunDirs, CaseSet, Entries, Steps,
       OutcomeFollowsPc, DirOfJob, CommitPinned, EarlierFinished, ServersTracked,
       HasFinished, vars, shipVars, jobVars
  <2> QED
    BY <2>1, <2>2, <2>3, <2>4, <2>5, <2>6, <2>7, <2>8, <2>9
<1>20. ASSUME Terminate PROVE RInv'
  <2> USE <1>20 DEF Terminate, Exit
  <2>1. TypeOK'
    BY DEF TypeOK, RunDirs, CaseSet, Entries, Steps, vars, shipVars, jobVars
  <2>2. CommitPinned'
    BY DEF CommitPinned, vars, shipVars, jobVars
  <2>3. OutcomeFollowsPc'
    BY DEF OutcomeFollowsPc, vars, shipVars, jobVars
  <2>4. DirOfJob'
    BY DEF DirOfJob, vars, shipVars, jobVars
  <2>5. EarlierFinished'
    BY DEF EarlierFinished, HasFinished, vars, shipVars, jobVars
  <2>6. ServersTracked'
    BY DEF ServersTracked, Launches, vars, shipVars, jobVars
  <2>7. FinishedIsWhole'
    BY DEF FinishedIsWhole, HasFinished, vars, shipVars, jobVars
  <2>8. SuccessIsOfThisCommit'
    BY DEF SuccessIsOfThisCommit, HasFinished, vars, shipVars, jobVars
  <2>9. NoServerLeft'
    BY DEF NoServerLeft, Launches, vars, shipVars, jobVars
  <2> QED
    BY <2>1, <2>2, <2>3, <2>4, <2>5, <2>6, <2>7, <2>8, <2>9
<1>21. ASSUME Kill PROVE RInv'
  <2> USE <1>21 DEF Kill
  <2>1. TypeOK'
    BY DEF TypeOK, RunDirs, CaseSet, Entries, Steps, vars, shipVars, jobVars
  <2>2. CommitPinned'
    BY DEF CommitPinned, vars, shipVars, jobVars
  <2>3. OutcomeFollowsPc'
    BY DEF OutcomeFollowsPc, vars, shipVars, jobVars
  <2>4. DirOfJob'
    BY DEF DirOfJob, vars, shipVars, jobVars
  <2>5. EarlierFinished'
    BY DEF EarlierFinished, HasFinished, vars, shipVars, jobVars
  <2>6. ServersTracked'
    BY DEF ServersTracked, Launches, vars, shipVars, jobVars
  <2>7. FinishedIsWhole'
    BY DEF FinishedIsWhole, HasFinished, vars, shipVars, jobVars
  <2>8. SuccessIsOfThisCommit'
    BY DEF SuccessIsOfThisCommit, HasFinished, vars, shipVars, jobVars
  <2>9. NoServerLeft'
    BY DEF NoServerLeft, Launches, vars, shipVars, jobVars
  <2> QED
    BY <2>1, <2>2, <2>3, <2>4, <2>5, <2>6, <2>7, <2>8, <2>9
<1>22. ASSUME NEW l \in Launches, ServerDies(l) PROVE RInv'
  <2> USE <1>22 DEF ServerDies
  <2>1. TypeOK'
    BY DEF TypeOK, RunDirs, CaseSet, Entries, Steps, OutcomeFollowsPc, DirOfJob,
       CommitPinned, EarlierFinished, ServersTracked, Launches, HasFinished, vars,
       shipVars, jobVars
  <2>2. CommitPinned'
    BY DEF CommitPinned, vars, shipVars, jobVars
  <2>3. OutcomeFollowsPc'
    BY DEF OutcomeFollowsPc, vars, shipVars, jobVars
  <2>4. DirOfJob'
    BY DEF DirOfJob, vars, shipVars, jobVars
  <2>5. EarlierFinished'
    BY DEF EarlierFinished, HasFinished, vars, shipVars, jobVars
  <2>6. ServersTracked'
    BY DEF ServersTracked, Launches, vars, shipVars, jobVars
  <2>7. FinishedIsWhole'
    BY DEF FinishedIsWhole, HasFinished, vars, shipVars, jobVars
  <2>8. SuccessIsOfThisCommit'
    BY DEF SuccessIsOfThisCommit, HasFinished, vars, shipVars, jobVars
  <2>9. NoServerLeft'
    BY DEF NoServerLeft, Launches, vars, shipVars, jobVars
  <2> QED
    BY <2>1, <2>2, <2>3, <2>4, <2>5, <2>6, <2>7, <2>8, <2>9
<1>23. CASE UNCHANGED vars
  BY <1>23 DEF TypeOK, CommitPinned, OutcomeFollowsPc, DirOfJob, EarlierFinished,
     ServersTracked, FinishedIsWhole, SuccessIsOfThisCommit, NoServerLeft, HasFinished,
     Launches, vars, shipVars, jobVars
<1> QED
  BY <1>1, <1>2, <1>3, <1>4, <1>5, <1>6, <1>7, <1>8, <1>9, <1>10, <1>11, <1>12, <1>13,
     <1>14, <1>15, <1>16, <1>17, <1>18, <1>19, <1>20, <1>21, <1>22, <1>23 DEF Next

LEMMA RInvAlways == Spec => []RInv
  BY InitRInv, NextRInv, PTL DEF Spec

\* The state of the jobs and of the pod's directories is as typed.
THEOREM TypeCorrect == Spec => []TypeOK
<1>1. RInv => TypeOK
  BY DEF RInv
<1> QED
  BY <1>1, RInvAlways, PTL

\* finished-at.txt stands for a whole run of the commit the job began with.
THEOREM FinishedWhole == Spec => []FinishedIsWhole
<1>1. RInv => FinishedIsWhole
  BY DEF RInv
<1> QED
  BY <1>1, RInvAlways, PTL

\* A job that exits 0 leaves every model finished at the commit it began with.
THEOREM SuccessOfCommit == Spec => []SuccessIsOfThisCommit
<1>1. RInv => SuccessIsOfThisCommit
  BY DEF RInv
<1> QED
  BY <1>1, RInvAlways, PTL

\* A job that ends by itself has stopped every server it started.
THEOREM ServersStopped == Spec => []NoServerLeft
<1>1. RInv => NoServerLeft
  BY DEF RInv
<1> QED
  BY <1>1, RInvAlways, PTL

\* A server is launched only when no other is alive, and none comes back.
LEMMA OneServerStep == RInv /\ OneServerServes /\ [Next]_vars => OneServerServes'
<1> SUFFICES ASSUME RInv, OneServerServes, [Next]_vars PROVE OneServerServes'
  OBVIOUS
<1>1. TypeOK /\ OutcomeFollowsPc /\ ServersTracked
  BY DEF RInv
<1>2. ASSUME servers' = servers PROVE OneServerServes'
  BY <1>2 DEF OneServerServes, Launches
<1>3. ASSUME NEW l \in Launches, NEW s \in {"dying", "dead"},
             servers' = [servers EXCEPT ![l] = s]
      PROVE  OneServerServes'
  <2>1. Len(servers') = Len(servers) /\ \A k \in Launches : servers'[k] = "alive" => servers[k] = "alive"
    BY <1>1, <1>3 DEF TypeOK, Launches
  <2> QED
    BY <2>1 DEF OneServerServes, Launches
<1>4. CASE KillServer
  <2>1. CASE server = 0
    BY <1>2, <1>4, <2>1 DEF KillServer
  <2>2. CASE server # 0
    <3>1. PICK s \in {"dying", "dead"} :
            servers' = [servers EXCEPT ![server] = IF @ = "dead" THEN @ ELSE s]
      BY <1>4, <2>2 DEF KillServer
    <3>2. server \in Launches
      BY <1>1, <2>2 DEF TypeOK, Launches
    <3> QED
      BY <1>3, <3>1, <3>2
  <2> QED
    BY <2>1, <2>2
<1>5. CASE Serve
  <2>1. \A l \in Launches : servers[l] # "alive"
    BY <1>1, <1>5 DEF Serve, OutcomeFollowsPc, ServersTracked, Launches
  <2>2. /\ Len(servers') = Len(servers) + 1
        /\ \A l \in Launches : servers'[l] = servers[l]
    BY <1>1, <1>5 DEF Serve, TypeOK, Launches
  <2>3. Len(servers) \in Nat
    BY <1>1 DEF TypeOK
  <2> QED
    BY <2>1, <2>2, <2>3 DEF OneServerServes, Launches
<1>6. CASE StopServer \/ ExitTrap
  BY <1>4, <1>6 DEF StopServer, ExitTrap
<1>7. CASE \E l \in Launches : ServerDies(l)
  BY <1>3, <1>7 DEF ServerDies
<1>8. CASE \/ \E c \in Commits : ShipUnpacks(c)
           \/ ShipUnpacked \/ ShipRecords \/ ShipLost
           \/ \E m \in {"smoke", "full"} : Start(m)
           \/ SkipFinished \/ RefuseForeign \/ MoveAside \/ NoteServer \/ AwaitServer
           \/ CopyRecords \/ RunRefused \/ BeginCase \/ EndCase \/ FinishModel \/ AllFinished
           \/ Terminate \/ Kill \/ UNCHANGED vars
  BY <1>2, <1>8 DEF ShipUnpacks, ShipUnpacked, ShipRecords, ShipLost, Start, SkipFinished,
     RefuseForeign, MoveAside, NoteServer, AwaitServer, CopyRecords, RunRefused, BeginCase,
     EndCase, FinishModel, AllFinished, Terminate, Kill, vars
<1> QED
  BY <1>5, <1>6, <1>7, <1>8 DEF Next

\* The cases of a model are answered by the one server that is alive.
THEOREM OneServerServing == Spec => []OneServerServes
<1>1. Init => OneServerServes
  BY DEF Init, OneServerServes, Launches
<1> QED
  BY <1>1, RInvAlways, OneServerStep, PTL DEF Spec

\* Nothing recorded of a run is written over or deleted.
THEOREM EvidenceIsKept == Spec => EvidenceKept
<1>1. ASSUME RInv, [Next]_vars PROVE KeepsEvidence
  <2>1. ASSUME dir' = dir, aside' = aside PROVE KeepsEvidence
    BY <2>1 DEF KeepsEvidence, Grows
  <2>2. TypeOK /\ DirOfJob
    BY <1>1 DEF RInv
  <2>3. dir \in [Entries -> RunDirs \union {Absent}] /\ dir' \in [Entries -> RunDirs \union {Absent}]
    BY <1>1, NextRInv DEF RInv, TypeOK
  <2>4. CASE MoveAside
    BY <2>3, <2>4 DEF MoveAside, KeepsEvidence, Grows
  <2>5. CASE Serve
    BY <2>3, <2>5, AbsentAssumption DEF Serve, KeepsEvidence, Grows
  <2>6. ASSUME NEW e \in RunDirs, pc \in {"copy", "cases", "running"},
               dir' = [dir EXCEPT ![model] = e], aside' = aside,
               Grows(dir[model], e)
        PROVE  KeepsEvidence
    <3>1. model \in Entries
      BY <2>2, <2>6, ConstantsAssumption DEF DirOfJob, ModeEntries, Entries
    <3> QED
      BY <2>3, <2>6, <3>1, AbsentAssumption DEF KeepsEvidence, Grows
  <2>7. pc \in {"copy", "cases", "running"} =>
          /\ model \in Entries /\ dir[model] \in RunDirs /\ ~dir[model].finished
    BY <2>2, <2>3, ConstantsAssumption DEF DirOfJob, ModeEntries, Entries
  <2>8. CASE CopyRecords
    <3>1. dir[model].commit = NoCommit /\ commitFile \in Commits
      BY <2>2, <2>8 DEF CopyRecords, DirOfJob, TypeOK
    <3> QED
      BY <2>6, <2>7, <2>8, <3>1, SetCommit DEF CopyRecords, Grows
  <2>9. ASSUME NEW value \in {"running", "ok", "bad"}, pc \in {"cases", "running"},
               case \in CaseSet, dir[model].results[case] \in {"none", "running"},
               dir' = [dir EXCEPT ![model] = WithResult(dir[model], case, value)], aside' = aside
        PROVE  KeepsEvidence
    <3> DEFINE e == WithResult(dir[model], case, value)
    <3>1. e \in RunDirs /\ e.launch = dir[model].launch /\ e.commit = dir[model].commit /\ e.began = dir[model].began
      BY <2>7, <2>9, SetResult
    <3>2. ASSUME NEW k \in CaseSet, dir[model].results[k] \in {"ok", "bad"}
          PROVE  e.results[k] = dir[model].results[k]
      <4>1. k # case
        BY <2>9, <3>2
      <4> QED
        BY <2>7, <2>9, <3>2, <4>1, SetResultElsewhere
    <3> HIDE DEF e
    <3>3. Grows(dir[model], e)
      BY <2>7, <2>9, <3>1, <3>2 DEF Grows
    <3> QED
      BY <2>6, <2>9, <3>1, <3>3 DEF e
  <2>10. CASE BeginCase
    <3>1. case \in CaseSet /\ dir[model].results[case] = "none"
      BY <2>2, <2>10 DEF BeginCase, DirOfJob, TypeOK, CaseSet
    <3> QED
      BY <2>9, <2>10, <3>1 DEF BeginCase, WithResult
  <2>11. CASE EndCase
    <3>1. case \in CaseSet /\ dir[model].results[case] = "running" /\ pc = "running"
      BY <2>2, <2>11 DEF EndCase, DirOfJob
    <3>2. PICK r \in {"ok", "bad"} : dir' = [dir EXCEPT ![model].results[case] = r]
      BY <2>11 DEF EndCase
    <3>3. aside' = aside
      BY <2>11 DEF EndCase
    <3>4. r \in {"running", "ok", "bad"}
      OBVIOUS
    <3> QED
      BY <2>9, <3>1, <3>2, <3>3, <3>4 DEF WithResult
  <2>12. CASE FinishModel
    <3> DEFINE e == [dir[model] EXCEPT !.finished = TRUE]
    <3>1. e \in RunDirs /\ Grows(dir[model], e)
      BY <2>7, <2>12 DEF FinishModel, RunDirs, Grows
    <3> QED
      BY <2>6, <2>12, <3>1 DEF FinishModel
  <2>13. CASE \/ \E c \in Commits : ShipUnpacks(c)
              \/ ShipUnpacked \/ ShipRecords \/ ShipLost
              \/ \E l \in Launches : ServerDies(l)
              \/ UNCHANGED vars
    BY <2>1, <2>13 DEF ShipUnpacks, ShipUnpacked, ShipRecords, ShipLost, ServerDies, vars
  <2>14. CASE \/ \E m \in {"smoke", "full"} : Start(m)
              \/ SkipFinished \/ RefuseForeign \/ NoteServer \/ AwaitServer \/ RunRefused
              \/ StopServer \/ AllFinished \/ ExitTrap \/ Terminate \/ Kill
    BY <2>1, <2>14 DEF Start, SkipFinished, RefuseForeign, NoteServer, AwaitServer, RunRefused,
       StopServer, AllFinished, ExitTrap, Terminate, Kill
  <2> QED
    BY <1>1, <2>4, <2>5, <2>8, <2>10, <2>11, <2>12, <2>13, <2>14 DEF Next
<1> QED
  BY <1>1, RInvAlways, PTL DEF Spec, EvidenceKept

=============================================================================
