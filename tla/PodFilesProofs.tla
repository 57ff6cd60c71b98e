--------------------------- MODULE PodFilesProofs ---------------------------
(* What setup records and what fetch downloads, for any number of jobs,    *)
(* files, commits and fetches.                                             *)
EXTENDS PodFiles, TLAPS

\* The pod as it is shipped to, and at most one snapshot, satisfy the invariant.
LEMMA InitFInv == Init => FInv
<1> SUFFICES ASSUME Init PROVE FInv
  OBVIOUS
<1> USE FilesAssumption DEF Init
<1>1. NoDir \in Records /\ OneJobs(NoDir)
  BY DEF NoDir, Records, Written, OneJobs
<1>2. NoList \in Lists
  BY <1>1 DEF NoList, Listing, Lists, Records
<1>3. TypeOK
  <2>1. fetch \in [Fetches -> FetchSteps] /\ place \in [Fetches -> Places]
    BY DEF FetchSteps, Places
  <2>2. /\ listed \in [Fetches -> Lists] /\ copy \in [Fetches -> Records]
        /\ \A k \in Fetches : OneJobs(copy[k])
    BY <1>1, <1>2
  <2>3. /\ job \in 0..MaxJobs /\ jobs \in 0..MaxJobs
        /\ setup \in SetupSteps /\ dir \in Records /\ OneJobs(dir)
    BY <1>1 DEF SetupSteps
  <2> QED
    BY <2>1, <2>2, <2>3 DEF TypeOK
<1>4. SetupAlone /\ MarkerTruthful /\ ReadyIsWhole
  BY DEF SetupAlone, MarkerTruthful, ReadyIsWhole
<1>5. FinishedLast /\ DownloadsWhole
  BY DEF FinishedLast, DownloadsWhole, NoDir
<1>6. ReadsOneRun /\ NothingLost
  BY DEF ReadsOneRun, NothingLost
<1> QED
  BY <1>3, <1>4, <1>5, <1>6 DEF FInv

\* ship and setup touch neither the run directory nor a download.
LEMMA SetupFrame ==
  ASSUME FInv, UNCHANGED <<job, jobs, dir, localVars>>
  PROVE  FinishedLast' /\ ReadsOneRun' /\ DownloadsWhole' /\ NothingLost'
  BY DEF FInv, localVars, FinishedLast, ReadsOneRun, DownloadsWhole, NothingLost

\* A job touches neither the environment nor what fetch has on its own disk.
LEMMA JobFrame ==
  ASSUME FInv, UNCHANGED <<commit, setup, venv, installed, freeze, recorded, localVars>>
  PROVE  MarkerTruthful' /\ ReadyIsWhole' /\ DownloadsWhole' /\ NothingLost'
  BY DEF FInv, localVars, MarkerTruthful, ReadyIsWhole, DownloadsWhole, NothingLost

\* fetch only reads the pod.
LEMMA FetchFrame ==
  ASSUME FInv, UNCHANGED podVars
  PROVE  SetupAlone' /\ MarkerTruthful' /\ FinishedLast' /\ ReadyIsWhole'
  BY DEF FInv, podVars, SetupAlone, MarkerTruthful, FinishedLast, ReadyIsWhole

\* Every command of ship and setup preserves the invariant.
LEMMA SetupStep ==
  ASSUME FInv,
         \/ \E c \in Commits : Ship(c)
         \/ SetupBegins \/ SetupTriesGpu \/ CheckInstalled \/ ClearVenv \/ Install
         \/ MarkInstalled \/ Freeze \/ RecordCommit \/ SetupEnds
  PROVE  FInv'
<1>1. UNCHANGED <<job, jobs, dir, localVars>>
  BY DEF Ship, SetupBegins, SetupTriesGpu, CheckInstalled, ClearVenv, Install, MarkInstalled,
     Freeze, RecordCommit, SetupEnds
<1>2. FinishedLast' /\ ReadsOneRun' /\ DownloadsWhole' /\ NothingLost'
  BY <1>1, SetupFrame
<1>3. TypeOK'
  <2>1. /\ commit' \in Commits
        /\ setup' \in SetupSteps
        /\ venv' \in {"none", "partial", "whole"} /\ freeze' \in {"none", "partial", "whole"}
        /\ installed' \in BOOLEAN
        /\ recorded' \in Commits \union {NoCommit}
    BY DEF FInv, TypeOK, SetupSteps, Ship, SetupBegins, SetupTriesGpu, CheckInstalled,
       ClearVenv, Install, MarkInstalled, Freeze, RecordCommit, SetupEnds
  <2> QED
    BY <1>1, <2>1 DEF FInv, TypeOK, localVars
<1>4. SetupAlone'
  BY <1>1 DEF FInv, SetupAlone, GpuFree, ControlFree, Ship, SetupBegins, SetupTriesGpu,
     CheckInstalled, ClearVenv, Install, MarkInstalled, Freeze, RecordCommit, SetupEnds
<1>5. MarkerTruthful'
  BY DEF FInv, TypeOK, MarkerTruthful, ControlFree, Ship, SetupBegins, SetupTriesGpu,
     CheckInstalled, ClearVenv, Install, MarkInstalled, Freeze, RecordCommit, SetupEnds
<1>6. ReadyIsWhole'
  BY DEF FInv, MarkerTruthful, ReadyIsWhole, ControlFree, Ship, SetupBegins, SetupTriesGpu,
     CheckInstalled, ClearVenv, Install, MarkInstalled, Freeze, RecordCommit, SetupEnds
<1> QED
  BY <1>2, <1>3, <1>4, <1>5, <1>6 DEF FInv

\* So does every step of a job.
LEMMA JobStep ==
  ASSUME FInv,
         \/ StartJob \/ MoveAside \/ MakeDir \/ FinishRun \/ JobEnds
         \/ \E f \in Files : WriteFile(f)
  PROVE  FInv'
<1> USE FilesAssumption DEF FInv
<1>1. UNCHANGED <<commit, setup, venv, installed, freeze, recorded, localVars>>
  BY DEF StartJob, MoveAside, MakeDir, FinishRun, JobEnds, WriteFile, JobUnchanged
<1>2. MarkerTruthful' /\ ReadyIsWhole' /\ DownloadsWhole' /\ NothingLost'
  BY <1>1, JobFrame
<1>3. /\ job \in 0..MaxJobs /\ jobs \in 0..MaxJobs /\ job <= jobs /\ dir.job <= jobs
      /\ dir \in Records /\ OneJobs(dir)
  BY DEF TypeOK, FinishedLast
<1>4. ASSUME job' \in 0..MaxJobs, jobs' \in 0..MaxJobs, dir' \in Records, OneJobs(dir')
      PROVE  TypeOK'
  BY <1>1, <1>4 DEF TypeOK, localVars
<1>5. CASE StartJob
  <2>1. /\ job' = jobs + 1 /\ jobs' = jobs + 1 /\ jobs' <= MaxJobs /\ UNCHANGED dir
        /\ setup = "none"
    BY <1>3, <1>5 DEF StartJob, ControlFree
  <2>2. TypeOK'
    BY <1>3, <1>4, <2>1
  <2>3. SetupAlone' /\ FinishedLast'
    <3>1. SetupAlone'
      BY <1>1, <2>1 DEF SetupAlone
    <3>2. dir.job \in 0..MaxJobs
      BY <1>3 DEF Records
    <3>3. FinishedLast'
      BY <1>3, <2>1, <3>2 DEF FinishedLast
    <3> QED
      BY <3>1, <3>3
  <2>4. ReadsOneRun'
    <3> SUFFICES ASSUME NEW k \in Fetches, fetch[k] = "read"
                 PROVE  ReadsOneRun!(k)!2'
      BY <1>1 DEF ReadsOneRun, localVars
    <3>1. ReadsOneRun!(k)!2 /\ listed[k].job \in 0..MaxJobs
      BY DEF ReadsOneRun, TypeOK, Lists
    <3> QED
      BY <1>1, <1>3, <2>1, <3>1 DEF localVars
  <2> QED
    BY <1>2, <2>2, <2>3, <2>4
<1>6. CASE JobEnds
  BY <1>1, <1>2, <1>3, <1>4, <1>6 DEF JobEnds, JobUnchanged, SetupAlone, FinishedLast, ReadsOneRun,
     localVars
<1> DEFINE Own == dir.job = job /\ dir.finished = 0
<1>7. ASSUME NEW d \in Records, OneJobs(d), dir' = d, UNCHANGED <<job, jobs>>, job # 0,
             d.job <= jobs,
             d.finished # 0 => \A f \in Files : d.files[f] = d.finished,
             \/ dir.job # job /\ d.job = 0
             \/ dir.job = 0 /\ d.job = job
             \/ dir.job = job /\ d.job = job /\ dir.finished = 0
      PROVE  FInv'
  <2>1. TypeOK' /\ SetupAlone' /\ FinishedLast'
    BY <1>1, <1>3, <1>4, <1>7 DEF SetupAlone, FinishedLast
  <2>2. ReadsOneRun'
    <3> SUFFICES ASSUME NEW k \in Fetches, fetch[k] = "read"
                 PROVE  ReadsOneRun!(k)!2'
      BY <1>1 DEF ReadsOneRun, localVars
    <3>1. ReadsOneRun!(k)!2
      BY DEF ReadsOneRun
    <3>2. listed[k].finished # 0 => listed[k].job # 0
      BY <3>1 DEF TypeOK, OneJobs, Records, Lists
    <3> QED
      BY <1>1, <1>3, <1>7, <3>1, <3>2 DEF localVars
  <2> QED
    BY <1>2, <2>1, <2>2
<1>8. CASE MoveAside
  <2>1. NoDir \in Records /\ OneJobs(NoDir) /\ NoDir.job = 0 /\ NoDir.finished = 0
    BY DEF NoDir, Records, Written, OneJobs
  <2> QED
    BY <1>3, <1>7, <1>8, <2>1 DEF MoveAside, JobUnchanged
<1>9. CASE MakeDir
  <2> DEFINE d == [NoDir EXCEPT !.job = job]
  <2>1. d \in Records /\ OneJobs(d) /\ d.job = job /\ d.finished = 0
    BY <1>3 DEF NoDir, Records, Written, OneJobs
  <2> HIDE DEF d
  <2>2. dir' = d /\ job # 0 /\ dir.job = 0 /\ UNCHANGED <<job, jobs>>
    BY <1>9 DEF MakeDir, JobUnchanged, d
  <2> QED
    BY <1>3, <1>7, <2>1, <2>2
<1>10. CASE FinishRun
  <2> DEFINE d == [dir EXCEPT !.finished = job]
  <2>1. /\ d \in Records /\ d.job = dir.job /\ d.finished = job /\ d.files = dir.files
    BY <1>3 DEF Records
  <2> HIDE DEF d
  <2>2. /\ dir' = d /\ job # 0 /\ dir.job = job /\ dir.finished = 0 /\ UNCHANGED <<job, jobs>>
        /\ \A f \in Files : dir.files[f] = job
    BY <1>10 DEF FinishRun, JobUnchanged, d
  <2>3. OneJobs(d)
    BY <2>1, <2>2 DEF OneJobs
  <2> QED
    BY <1>3, <1>7, <2>1, <2>2, <2>3
<1>11. ASSUME NEW f \in Files, WriteFile(f) PROVE FInv'
  <2> DEFINE w == IF dir.files[f] = 0 THEN -job ELSE job
             d == [dir EXCEPT !.files[f] = w]
  <2>1. w \in Written /\ w \in {job, -job}
    BY <1>3 DEF Written
  <2> HIDE DEF w
  <2>2. /\ d \in Records /\ d.job = dir.job /\ d.finished = dir.finished
        /\ d.files = [dir.files EXCEPT ![f] = w]
    BY <1>3, <2>1 DEF Records
  <2> HIDE DEF d
  <2>3. /\ dir' = d /\ job # 0 /\ dir.job = job /\ dir.finished = 0 /\ UNCHANGED <<job, jobs>>
    BY <1>11 DEF WriteFile, JobUnchanged, d, w
  <2>4. OneJobs(d)
    BY <1>3, <2>1, <2>2, <2>3 DEF OneJobs, Records
  <2> QED
    BY <1>3, <1>7, <2>2, <2>3, <2>4
<1> QED
  BY <1>5, <1>6, <1>8, <1>9, <1>10, <1>11

\* And every step of a fetch.
LEMMA FetchStep ==
  ASSUME FInv, NEW k \in Fetches,
         \/ FetchBegins(k) \/ FetchConnects(k) \/ TarLists(k) \/ TarEnds(k) \/ DownloadFails(k)
         \/ TestRuns(k) \/ MoveRuns(k) \/ MoveFails(k) \/ SwapIn(k) \/ FetchCut(k)
         \/ \E f \in Files : TarReads(k, f)
  PROVE  FInv'
<1> USE FilesAssumption DEF FInv
<1>1. UNCHANGED podVars
  BY DEF FetchBegins, FetchConnects, TarLists, TarEnds, DownloadFails, TestRuns, MoveRuns,
     MoveFails, SwapIn, FetchCut, TarReads
<1>2. SetupAlone' /\ MarkerTruthful' /\ FinishedLast' /\ ReadyIsWhole'
  BY <1>1, FetchFrame
<1>3. /\ fetch \in [Fetches -> FetchSteps] /\ listed \in [Fetches -> Lists]
      /\ copy \in [Fetches -> Records] /\ place \in [Fetches -> Places]
      /\ \A o \in Fetches : OneJobs(copy[o])
      /\ dir \in Records /\ OneJobs(dir) /\ dir.job <= jobs
  BY DEF TypeOK, FinishedLast
<1>4. NoDir \in Records /\ OneJobs(NoDir) /\ NoDir.finished = 0
  BY DEF NoDir, Records, Written, OneJobs
<1>5. Listing(dir) \in Lists /\ NoList \in Lists
  BY <1>3, <1>4 DEF Listing, NoList, Lists, Records
\* A step that reads nothing and puts nothing in place.
<1>6. ASSUME NEW s \in FetchSteps, NEW l \in Lists, NEW d \in Records, NEW p \in Places, OneJobs(d),
             fetch' = [fetch EXCEPT ![k] = s], listed' = [listed EXCEPT ![k] = l],
             copy' = [copy EXCEPT ![k] = d], place' = [place EXCEPT ![k] = p],
             ReadsOneRun!(k)!1' => ReadsOneRun!(k)!2',
             s \in {"test", "move", "swap", "done"} /\ d.finished # 0 =>
               \A f \in Files : d.files[f] = d.finished,
             s = "done" <=> p \in {"runs", "old", "nested"},
             p = "runs" => ~RunsExists
      PROVE  FInv'
  <2>1. TypeOK'
    BY <1>1, <1>3, <1>6 DEF TypeOK, podVars
  <2>2. ReadsOneRun'
    <3> SUFFICES ASSUME NEW o \in Fetches, o # k, fetch'[o] = "read"
                 PROVE  ReadsOneRun!(o)!2'
      BY <1>6 DEF ReadsOneRun
    <3>1. ReadsOneRun!(o)!2
      BY <1>3, <1>6 DEF ReadsOneRun
    <3> QED
      BY <1>1, <1>3, <1>6, <3>1 DEF podVars
  <2>3. DownloadsWhole'
    BY <1>3, <1>6 DEF DownloadsWhole
  <2>4. NothingLost'
    BY <1>3, <1>6 DEF NothingLost, RunsExists
  <2> QED
    BY <1>2, <2>1, <2>2, <2>3, <2>4
<1> USE <1>3, <1>4, <1>5
<1>7. fetch[k] # "done" => place[k] \notin {"runs", "old", "nested"}
  BY DEF NothingLost
<1>8. /\ listed = [listed EXCEPT ![k] = @] /\ copy = [copy EXCEPT ![k] = @]
      /\ place = [place EXCEPT ![k] = @]
      /\ fetch[k] \in FetchSteps /\ listed[k] \in Lists /\ copy[k] \in Records /\ place[k] \in Places
      /\ OneJobs(copy[k])
  OBVIOUS
<1>9. CASE FetchBegins(k)
  BY <1>6, <1>8, <1>9 DEF FetchBegins, Step, FetchSteps, Places
<1>10. CASE FetchConnects(k)
  BY <1>6, <1>7, <1>8, <1>10 DEF FetchConnects, Step, FetchSteps
<1>11. CASE DownloadFails(k)
  BY <1>6, <1>11 DEF DownloadFails, Forgotten, FetchSteps, Places
<1>12. CASE FetchCut(k)
  <2>1. /\ fetch[k] # "done" /\ fetch' = [fetch EXCEPT ![k] = "cut"] /\ UNCHANGED place
        /\ listed' = [listed EXCEPT ![k] = NoList] /\ copy' = [copy EXCEPT ![k] = NoDir]
    BY <1>12 DEF FetchCut, Forgotten
  <2>2. "cut" \in FetchSteps /\ fetch'[k] # "read"
    BY <2>1 DEF FetchSteps
  <2> QED
    BY <1>6, <1>7, <1>8, <2>1, <2>2
<1>13. CASE MoveFails(k)
  <2>1. /\ fetch[k] # "done" /\ fetch' = [fetch EXCEPT ![k] = "failed"] /\ UNCHANGED place
        /\ listed' = [listed EXCEPT ![k] = NoList] /\ copy' = [copy EXCEPT ![k] = NoDir]
    BY <1>13 DEF MoveFails, Step, Forgotten
  <2>2. "failed" \in FetchSteps /\ fetch'[k] # "read"
    BY <2>1 DEF FetchSteps
  <2> QED
    BY <1>6, <1>7, <1>8, <2>1, <2>2
<1>14. CASE TestRuns(k)
  <2>1. PICK s \in {"move", "swap"} : fetch' = [fetch EXCEPT ![k] = s]
    BY <1>14 DEF TestRuns, Step
  <2>2. fetch[k] = "test" /\ UNCHANGED <<listed, copy, place>>
    BY <1>14 DEF TestRuns, Step
  <2>3. copy[k].finished # 0 => \A f \in Files : copy[k].files[f] = copy[k].finished
    BY <2>2 DEF DownloadsWhole
  <2>4. s \in FetchSteps /\ s # "done" /\ fetch'[k] # "read"
    BY <2>1 DEF FetchSteps
  <2> QED
    BY <1>6, <1>7, <1>8, <2>1, <2>2, <2>3, <2>4
<1>15. CASE SwapIn(k)
  BY <1>6, <1>8, <1>15 DEF SwapIn, Step, FetchSteps, Places, DownloadsWhole
<1>16. CASE TarLists(k)
  <2> DEFINE d == [NoDir EXCEPT !.job = dir.job, !.finished = dir.finished]
             l == Listing(dir)
  <2>1. /\ d \in Records /\ OneJobs(d) /\ d.job = dir.job /\ d.finished = dir.finished
        /\ \A f \in Files : d.files[f] = 0
    BY DEF NoDir, Records, Written, OneJobs
  <2>2. /\ l.job = dir.job /\ l.finished = dir.finished
        /\ l.names = {f \in Files : dir.files[f] # 0}
    BY DEF Listing
  <2>3. dir.finished # 0 => {f \in Files : dir.files[f] # 0} = Files
    BY DEF FinishedLast
  <2> HIDE DEF d, l
  <2>4. /\ fetch[k] = "list" /\ fetch' = [fetch EXCEPT ![k] = "read"]
        /\ listed' = [listed EXCEPT ![k] = l] /\ copy' = [copy EXCEPT ![k] = d]
        /\ UNCHANGED place
    BY <1>16 DEF TarLists, Step, d, l
  <2>5. listed'[k] = l /\ copy'[k] = d
    BY <2>4
  <2>6. ReadsOneRun!(k)!2'
    BY <1>1, <2>1, <2>2, <2>3, <2>5 DEF podVars
  <2>7. l \in Lists /\ "read" \in FetchSteps
    BY DEF l, FetchSteps
  <2> QED
    BY <1>6, <1>7, <1>8, <2>1, <2>4, <2>6, <2>7
<1>17. ASSUME NEW f \in Files, TarReads(k, f) PROVE FInv'
  <2> DEFINE d == [copy[k] EXCEPT !.files[f] = dir.files[f]]
  <2>1. /\ fetch[k] = "read" /\ dir.job = listed[k].job
        /\ copy' = [copy EXCEPT ![k] = d] /\ UNCHANGED <<fetch, listed, place>>
    BY <1>17 DEF TarReads
  <2>2. /\ d \in Records /\ d.job = copy[k].job /\ d.finished = copy[k].finished
        /\ d.files = [copy[k].files EXCEPT ![f] = dir.files[f]]
    BY DEF Records
  <2>3. ReadsOneRun!(k)!2
    BY <2>1 DEF ReadsOneRun
  <2>4. OneJobs(d)
    BY <2>1, <2>2, <2>3 DEF OneJobs, Records
  <2> HIDE DEF d
  <2>5. d.finished # 0 => dir.files[f] = d.finished
    BY <2>1, <2>2, <2>3 DEF FinishedLast, OneJobs, Records
  <2>6. copy'[k] = d
    BY <2>1
  <2>7. ReadsOneRun!(k)!2'
    BY <1>1, <2>1, <2>2, <2>3, <2>5, <2>6 DEF podVars, Records
  <2>8. fetch = [fetch EXCEPT ![k] = "read"] /\ "read" \in FetchSteps
    BY <2>1 DEF FetchSteps
  <2> QED
    <3>1. fetch[k] # "done" /\ listed' = [listed EXCEPT ![k] = @] /\ place' = [place EXCEPT ![k] = @]
      BY <1>8, <2>1
    <3>2. fetch' = [fetch EXCEPT ![k] = "read"] /\ copy' = [copy EXCEPT ![k] = d]
      BY <2>1, <2>8
    <3> QED
      BY <1>6, <1>7, <1>8, <2>2, <2>4, <2>7, <2>8, <3>1, <3>2
<1>18. CASE TarEnds(k)
  <2>1. /\ fetch[k] = "read" /\ fetch' = [fetch EXCEPT ![k] = "test"]
        /\ listed' = [listed EXCEPT ![k] = NoList] /\ UNCHANGED <<copy, place>>
        /\ \A f \in listed[k].names : copy[k].files[f] # 0
    BY <1>18 DEF TarEnds, Step
  <2>2. copy[k].finished # 0 => \A f \in Files : copy[k].files[f] = copy[k].finished
    BY <2>1 DEF ReadsOneRun
  <2>3. "test" \in FetchSteps
    BY DEF FetchSteps
  <2> QED
    BY <1>6, <1>7, <1>8, <2>1, <2>2, <2>3
<1>19. CASE MoveRuns(k)
  <2>1. /\ fetch[k] = "move" /\ fetch' = [fetch EXCEPT ![k] = "swap"]
        /\ place' = Moved("old") /\ UNCHANGED <<listed, copy>>
    BY <1>19 DEF MoveRuns, Step
  <2>2. TypeOK'
    BY <1>1, <2>1 DEF TypeOK, podVars, FetchSteps, Places, Moved
  <2>3. ReadsOneRun'
    BY <1>1, <2>1 DEF ReadsOneRun, podVars
  <2>4. DownloadsWhole'
    BY <2>1 DEF DownloadsWhole
  <2>5. NothingLost'
    BY <2>1 DEF NothingLost, Moved
  <2> QED
    BY <1>2, <2>2, <2>3, <2>4, <2>5
<1> QED
  BY <1>9, <1>10, <1>11, <1>12, <1>13, <1>14, <1>15, <1>16, <1>17, <1>18, <1>19

LEMMA FInvAlways == Spec => []FInv
<1>1. FInv /\ [Next]_vars => FInv'
  <2> SUFFICES ASSUME FInv, [Next]_vars PROVE FInv'
    OBVIOUS
  <2>1. CASE UNCHANGED vars
    BY <2>1 DEF vars, podVars, localVars, FInv, TypeOK, SetupAlone, MarkerTruthful, FinishedLast,
       ReadsOneRun, DownloadsWhole, NothingLost, ReadyIsWhole
  <2> QED
    BY <2>1, SetupStep, JobStep, FetchStep DEF Next
<1> QED
  BY <1>1, InitFInv, PTL DEF Spec

\* The state is as typed, and a directory or its download is of one job.
THEOREM TypeCorrect == Spec => []TypeOK
<1>1. FInv => TypeOK
  BY DEF FInv
<1> QED
  BY <1>1, FInvAlways, PTL

\* A finished-at.txt that reaches the operator's disk stands for a whole run.
THEOREM FinishedWhole == Spec => []LocalFinishedIsWhole
<1>1. FInv => LocalFinishedIsWhole
  BY DEF FInv, DownloadsWhole, NothingLost, LocalFinishedIsWhole
<1> QED
  BY <1>1, FInvAlways, PTL

\* No fetch loses a download, wherever fetches are cut off or meet.
THEOREM NoneLost == Spec => []NothingLost
<1>1. FInv => NothingLost
  BY DEF FInv
<1> QED
  BY <1>1, FInvAlways, PTL

\* `Pod ready' is said of a whole environment that is recorded.
THEOREM ReadyWhole == Spec => []ReadyIsWhole
<1>1. FInv => ReadyIsWhole
  BY DEF FInv
<1> QED
  BY <1>1, FInvAlways, PTL

\* ship and setup leave a running job its files and its environment.
THEOREM JobsUndisturbed == Spec => JobUndisturbed
<1>1. FInv /\ [Next]_vars => [job # 0 => UNCHANGED <<commit, venv, installed, freeze, recorded>>]_vars
  <2> SUFFICES ASSUME FInv, Next, job # 0
               PROVE  UNCHANGED <<commit, venv, installed, freeze, recorded>>
    OBVIOUS
  <2> QED
    BY DEF FInv, SetupAlone, Next, podVars, GpuFree, Ship, SetupBegins, SetupTriesGpu,
       CheckInstalled, ClearVenv, Install, MarkInstalled, Freeze, RecordCommit, SetupEnds,
       StartJob, MoveAside, MakeDir, FinishRun, JobEnds, WriteFile, JobUnchanged,
       FetchBegins, FetchConnects, TarLists, TarEnds, DownloadFails, TestRuns, MoveRuns,
       MoveFails, SwapIn, FetchCut, TarReads
<1> QED
  BY <1>1, FInvAlways, PTL DEF Spec, JobUndisturbed
=============================================================================
