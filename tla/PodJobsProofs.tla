--------------------------- MODULE PodJobsProofs ---------------------------
(* That the job control of pod.sh admits one job at a time, for any number *)
(* of clients, modes, jobs, log lines and reboots.                         *)
EXTENDS PodJobs, TLAPS

USE DEF Jobs, NoJob

\* The empty pod satisfies the inductive invariant.
LEMMA InitIInv == Init => IInv
<1>1. <<>> \in Output
  BY DEF Output
<1> QED
  BY <1>1, BoundsAssumption DEF Init, IInv, TypeOK, SessionHasMode, ControlExclusive, SlotKept,
     ExitFileStays, JobsSound, OneJobAtATime, WriterOwnsFiles, HoldsGpu, WrapperRuns,
     Results, StartSteps, PollSteps, InControl

\* A session that has control.lock may move to any command of its own.
LEMMA KeepsControl ==
  ASSUME TypeOK, ControlExclusive,
         NEW c \in Clients, remote[c] \in InControl,
         NEW s, remote' = [remote EXCEPT ![c] = s]
  PROVE  ControlExclusive'
  BY DEF TypeOK, ControlExclusive

\* What tail sends is the part of the log that the client has not printed.
LEMMA NewLinesType ==
  ASSUME TypeOK, NEW c \in Clients, mode[c] \in Modes
  PROVE  NewLines(c) \in Output /\ Len(NewLines(c)) \in Nat
<1> DEFINE job == logOf[mode[c]]
           written == IF job = NoJob THEN 0 ELSE lines[job]
           n == written - shown[c]
<1>1. written \in Nat /\ shown[c] \in Nat /\ n \in Int
  BY DEF TypeOK
<1>2. CASE n \in Nat \ {0}
  <2>1. job \in Jobs
    BY <1>2, <1>1 DEF TypeOK
  <2>2. NewLines(c) = [i \in 1..n |-> <<job, shown[c] + i>>]
    BY DEF NewLines
  <2> HIDE DEF job, n
  <2>3. \A i \in 1..n : <<job, shown[c] + i>> \in Jobs \X Nat
    BY <2>1, <1>1, <1>2
  <2> QED
    BY <2>2, <2>3, <1>2 DEF Output
<1>3. CASE ~(n \in Nat \ {0})
  <2>1. 1..n = {}
    BY <1>1, <1>3
  <2>2. NewLines(c) = <<>>
    BY <2>1 DEF NewLines
  <2> QED
    BY <2>2 DEF Output
<1> QED
  BY <1>2, <1>3

\* Every step of a client, a session, a job or the pod preserves it.
LEMMA NextIInv == IInv /\ [Next]_vars => IInv'
<1> USE BoundsAssumption DEF IInv, StartSteps, PollSteps, InControl,
      clientVars, sessionVars, fileVars, jobVars
<1> SUFFICES ASSUME IInv, [Next]_vars PROVE IInv'
  OBVIOUS
<1>1. ASSUME NEW c \in Clients, NEW m \in Modes, Invoke(c, m) PROVE IInv'
  <2>1. TypeOK'
    BY <1>1 DEF TypeOK, WrapperRuns, Results, Invoke
  <2>2. SessionHasMode'
    BY <1>1 DEF TypeOK, SessionHasMode, Invoke
  <2>3. ControlExclusive'
    BY <1>1 DEF TypeOK, ControlExclusive, Invoke
  <2>4. SlotKept'
    BY <1>1 DEF TypeOK, SlotKept, HoldsGpu, WrapperRuns, Invoke
  <2>5. ExitFileStays'
    BY <1>1 DEF TypeOK, ExitFileStays, Invoke
  <2>6. JobsSound'
    BY <1>1 DEF TypeOK, JobsSound, WrapperRuns, Invoke
  <2>7. OneJobAtATime'
    BY <1>1 DEF TypeOK, OneJobAtATime, HoldsGpu, WrapperRuns, Invoke
  <2>8. WriterOwnsFiles'
    BY <1>1 DEF TypeOK, WriterOwnsFiles, WrapperRuns, Invoke
  <2> QED
    BY <2>1, <2>2, <2>3, <2>4, <2>5, <2>6, <2>7, <2>8
<1>2. ASSUME NEW c \in Clients, OpenPoll(c) PROVE IInv'
  <2>1. TypeOK'
    BY <1>2 DEF TypeOK, WrapperRuns, Results, OpenPoll
  <2>2. SessionHasMode'
    BY <1>2 DEF TypeOK, SessionHasMode, OpenPoll
  <2>3. ControlExclusive'
    BY <1>2 DEF TypeOK, ControlExclusive, OpenPoll
  <2>4. SlotKept'
    BY <1>2 DEF TypeOK, SlotKept, HoldsGpu, WrapperRuns, OpenPoll
  <2>5. ExitFileStays'
    BY <1>2 DEF TypeOK, ExitFileStays, OpenPoll
  <2>6. JobsSound'
    BY <1>2 DEF TypeOK, JobsSound, WrapperRuns, OpenPoll
  <2>7. OneJobAtATime'
    BY <1>2 DEF TypeOK, OneJobAtATime, HoldsGpu, WrapperRuns, OpenPoll
  <2>8. WriterOwnsFiles'
    BY <1>2 DEF TypeOK, WriterOwnsFiles, WrapperRuns, OpenPoll
  <2> QED
    BY <2>1, <2>2, <2>3, <2>4, <2>5, <2>6, <2>7, <2>8
<1>3. ASSUME NEW c \in Clients, SshLost(c) PROVE IInv'
  <2>1. TypeOK'
    <3>1. pc' \in [Clients -> {"idle", "starting", "polling", "sleeping", "done"}]
      BY <1>3 DEF SshLost, Disconnect, TypeOK
    <3>2. result' \in [Clients -> Results]
      BY <1>3 DEF SshLost, Disconnect, TypeOK, Results
    <3>3. /\ failures' \in [Clients -> 0..FailureLimit]
          /\ \A d \in Clients : pc'[d] # "done" => failures'[d] < FailureLimit
      BY <1>3 DEF SshLost, Disconnect, TypeOK
    <3>4. remote' \in [Clients -> StartSteps \union PollSteps \union {"none"}]
      <4>1. remote' = remote \/ remote' = [remote EXCEPT ![c] = "none"]
        BY <1>3 DEF SshLost
      <4> QED
        BY <4>1 DEF TypeOK
    <3>5. status' \in [Clients -> {"none", "running", "lost", "empty", "ok", "fail"}]
      BY <1>3 DEF SshLost, TypeOK
    <3> QED
      BY <1>3, <3>1, <3>2, <3>3, <3>4, <3>5 DEF SshLost, TypeOK, WrapperRuns
  <2>2. SessionHasMode'
    BY <1>3 DEF TypeOK, SessionHasMode, SshLost, Disconnect
  <2>3. ControlExclusive'
    BY <1>3 DEF TypeOK, ControlExclusive, SshLost, Disconnect
  <2>4. SlotKept'
    BY <1>3 DEF TypeOK, SlotKept, HoldsGpu, WrapperRuns, SshLost, Disconnect
  <2>5. ExitFileStays'
    BY <1>3 DEF TypeOK, ExitFileStays, SshLost, Disconnect
  <2>6. JobsSound'
    BY <1>3 DEF TypeOK, JobsSound, WrapperRuns, SshLost, Disconnect
  <2>7. OneJobAtATime'
    BY <1>3 DEF TypeOK, OneJobAtATime, HoldsGpu, WrapperRuns, SshLost, Disconnect
  <2>8. WriterOwnsFiles'
    BY <1>3 DEF TypeOK, WriterOwnsFiles, WrapperRuns, SshLost, Disconnect
  <2> QED
    BY <2>1, <2>2, <2>3, <2>4, <2>5, <2>6, <2>7, <2>8
<1>4. ASSUME NEW c \in Clients, TakeControl(c) PROVE IInv'
  <2>1. TypeOK'
    BY <1>4 DEF TypeOK, WrapperRuns, Results, TakeControl, ControlFree
  <2>2. SessionHasMode'
    BY <1>4 DEF TypeOK, SessionHasMode, TakeControl, ControlFree
  <2>3. ControlExclusive'
    BY <1>4 DEF TypeOK, ControlExclusive, TakeControl, ControlFree
  <2>4. SlotKept'
    BY <1>4 DEF TypeOK, SlotKept, HoldsGpu, WrapperRuns, TakeControl, ControlFree
  <2>5. ExitFileStays'
    BY <1>4 DEF TypeOK, ExitFileStays, TakeControl, ControlFree
  <2>6. JobsSound'
    BY <1>4 DEF TypeOK, JobsSound, WrapperRuns, TakeControl, ControlFree
  <2>7. OneJobAtATime'
    BY <1>4 DEF TypeOK, OneJobAtATime, HoldsGpu, WrapperRuns, TakeControl, ControlFree
  <2>8. WriterOwnsFiles'
    BY <1>4 DEF TypeOK, WriterOwnsFiles, WrapperRuns, TakeControl, ControlFree
  <2> QED
    BY <2>1, <2>2, <2>3, <2>4, <2>5, <2>6, <2>7, <2>8
<1>5. ASSUME NEW c \in Clients, TryGpu(c) PROVE IInv'
  <2>1. TypeOK'
    BY <1>5 DEF TypeOK, WrapperRuns, Results, TryGpu, GpuFree, InGpu
  <2>2. SessionHasMode'
    BY <1>5 DEF TypeOK, SessionHasMode, TryGpu, GpuFree, InGpu
  <2>3. ControlExclusive'
    BY <1>5 DEF TypeOK, ControlExclusive, TryGpu, GpuFree, InGpu
  <2>4. SlotKept'
    BY <1>5 DEF TypeOK, SlotKept, HoldsGpu, WrapperRuns, TryGpu, GpuFree, InGpu
  <2>5. ExitFileStays'
    BY <1>5 DEF TypeOK, ExitFileStays, TryGpu, GpuFree, InGpu
  <2>6. JobsSound'
    BY <1>5 DEF TypeOK, JobsSound, WrapperRuns, TryGpu, GpuFree, InGpu
  <2>7. OneJobAtATime'
    BY <1>5 DEF TypeOK, OneJobAtATime, HoldsGpu, WrapperRuns, TryGpu, GpuFree, InGpu
  <2>8. WriterOwnsFiles'
    BY <1>5 DEF TypeOK, WriterOwnsFiles, WrapperRuns, TryGpu, GpuFree, InGpu
  <2> QED
    BY <2>1, <2>2, <2>3, <2>4, <2>5, <2>6, <2>7, <2>8
<1>6. ASSUME NEW c \in Clients, Busy(c) PROVE IInv'
  <2>1. TypeOK'
    <3>1. /\ logOf[mode[c]] \in Jobs \union {NoJob}
          /\ remote' = [remote EXCEPT ![c] = "none"]
      BY <1>6 DEF Busy, StartSucceeds, StartFails, TypeOK, SessionHasMode
    <3>2. pc' \in [Clients -> {"idle", "starting", "polling", "sleeping", "done"}]
      <4>1. CASE pc[c] = "starting"
        <5>1. \/ pc' = [pc EXCEPT ![c] = "sleeping"]
              \/ pc' = [pc EXCEPT ![c] = "done"]
          BY <1>6, <4>1 DEF Busy, StartSucceeds, StartFails, Return
        <5> QED
          BY <5>1 DEF TypeOK
      <4>2. CASE pc[c] # "starting"
        <5>1. pc' = pc
          BY <1>6, <4>2 DEF Busy, StartSucceeds, StartFails, Return
        <5> QED
          BY <5>1 DEF TypeOK
      <4> QED
        BY <4>1, <4>2
    <3>3. result' \in [Clients -> Results]
      BY <1>6 DEF Busy, StartSucceeds, StartFails, Return, TypeOK, Results
    <3>4. follows' \in [Clients -> Jobs \union {NoJob}]
      BY <1>6, <3>1 DEF Busy, StartSucceeds, StartFails, TypeOK
    <3>5. \A d \in Clients : pc'[d] # "done" => pc[d] # "done"
      BY <1>6 DEF Busy, StartSucceeds, StartFails, Return, TypeOK
    <3> QED
      BY <1>6, <3>1, <3>2, <3>3, <3>4, <3>5 DEF Busy, TypeOK, WrapperRuns
  <2>2. SessionHasMode'
    BY <1>6 DEF TypeOK, SessionHasMode, Busy, StartSucceeds, StartFails, Return
  <2>3. ControlExclusive'
    <3>1. remote[c] \in InControl /\ \E s : remote' = [remote EXCEPT ![c] = s]
      BY <1>6 DEF Busy, StartSucceeds, StartFails
    <3> QED
      BY <3>1, KeepsControl
  <2>4. SlotKept'
    BY <1>6 DEF TypeOK, SlotKept, HoldsGpu, WrapperRuns, Busy, StartSucceeds, StartFails, Return
  <2>5. ExitFileStays'
    BY <1>6 DEF TypeOK, ExitFileStays, Busy, StartSucceeds, StartFails, Return
  <2>6. JobsSound'
    BY <1>6 DEF TypeOK, JobsSound, WrapperRuns, Busy, StartSucceeds, StartFails, Return
  <2>7. OneJobAtATime'
    BY <1>6 DEF TypeOK, OneJobAtATime, HoldsGpu, WrapperRuns, Busy, StartSucceeds,
       StartFails, Return
  <2>8. WriterOwnsFiles'
    BY <1>6 DEF TypeOK, WriterOwnsFiles, WrapperRuns, Busy, StartSucceeds, StartFails, Return
  <2> QED
    BY <2>1, <2>2, <2>3, <2>4, <2>5, <2>6, <2>7, <2>8
<1>7. ASSUME NEW c \in Clients, SetMode(c) PROVE IInv'
  <2>1. TypeOK'
    BY <1>7 DEF TypeOK, WrapperRuns, Results, SessionHasMode, SetMode
  <2>2. SessionHasMode'
    BY <1>7 DEF TypeOK, SessionHasMode, SetMode
  <2>3. ControlExclusive'
    BY <1>7 DEF TypeOK, ControlExclusive, SetMode
  <2>4. SlotKept'
    BY <1>7 DEF TypeOK, SlotKept, HoldsGpu, WrapperRuns, ControlExclusive,
       SessionHasMode, SetMode
  <2>5. ExitFileStays'
    BY <1>7 DEF TypeOK, ExitFileStays, SetMode
  <2>6. JobsSound'
    BY <1>7 DEF TypeOK, JobsSound, WrapperRuns, SetMode
  <2>7. OneJobAtATime'
    BY <1>7 DEF TypeOK, OneJobAtATime, HoldsGpu, WrapperRuns, SetMode
  <2>8. WriterOwnsFiles'
    BY <1>7 DEF TypeOK, WriterOwnsFiles, WrapperRuns, SlotKept, HoldsGpu, SetMode
  <2> QED
    BY <2>1, <2>2, <2>3, <2>4, <2>5, <2>6, <2>7, <2>8
<1>8. ASSUME NEW c \in Clients, RmExit(c) PROVE IInv'
  <2>1. TypeOK'
    BY <1>8 DEF TypeOK, WrapperRuns, Results, RmExit
  <2>2. SessionHasMode'
    BY <1>8 DEF TypeOK, SessionHasMode, RmExit
  <2>3. ControlExclusive'
    BY <1>8 DEF TypeOK, ControlExclusive, RmExit
  <2>4. SlotKept'
    BY <1>8 DEF TypeOK, SlotKept, HoldsGpu, WrapperRuns, RmExit
  <2>5. ExitFileStays'
    BY <1>8 DEF TypeOK, ExitFileStays, ControlExclusive, SessionHasMode, RmExit
  <2>6. JobsSound'
    BY <1>8 DEF TypeOK, JobsSound, WrapperRuns, RmExit
  <2>7. OneJobAtATime'
    BY <1>8 DEF TypeOK, OneJobAtATime, HoldsGpu, WrapperRuns, RmExit
  <2>8. WriterOwnsFiles'
    BY <1>8 DEF TypeOK, WriterOwnsFiles, WrapperRuns, RmExit
  <2> QED
    BY <2>1, <2>2, <2>3, <2>4, <2>5, <2>6, <2>7, <2>8
<1>9. ASSUME NEW c \in Clients, Launch(c) PROVE IInv'
  <2>1. TypeOK'
    BY <1>9 DEF TypeOK, WrapperRuns, Results, SessionHasMode, WrapperRuns, Launch
  <2>2. SessionHasMode'
    BY <1>9 DEF TypeOK, SessionHasMode, Launch
  <2>3. ControlExclusive'
    BY <1>9 DEF TypeOK, ControlExclusive, Launch
  <2>4. SlotKept'
    BY <1>9 DEF TypeOK, SlotKept, HoldsGpu, WrapperRuns, ControlExclusive, Launch
  <2>5. ExitFileStays'
    BY <1>9 DEF TypeOK, ExitFileStays, Launch
  <2>6. JobsSound'
    BY <1>9 DEF TypeOK, JobsSound, WrapperRuns, Launch
  <2>7. OneJobAtATime'
    BY <1>9 DEF TypeOK, OneJobAtATime, HoldsGpu, WrapperRuns, SlotKept, Launch
  <2>8. WriterOwnsFiles'
    BY <1>9 DEF TypeOK, WriterOwnsFiles, WrapperRuns, SlotKept, HoldsGpu, SessionHasMode, Launch
  <2> QED
    BY <2>1, <2>2, <2>3, <2>4, <2>5, <2>6, <2>7, <2>8
<1>10. ASSUME NEW c \in Clients, WritePid(c) PROVE IInv'
  <2>1. TypeOK'
    <3>1. started \in Jobs \union {NoJob}
      BY DEF TypeOK
    <3>2. pc' \in [Clients -> {"idle", "starting", "polling", "sleeping", "done"}]
      <4>1. CASE pc[c] = "starting"
        <5>1. \/ pc' = [pc EXCEPT ![c] = "sleeping"]
              \/ pc' = [pc EXCEPT ![c] = "done"]
          BY <1>10, <4>1 DEF WritePid, StartSucceeds
        <5> QED
          BY <5>1 DEF TypeOK
      <4>2. CASE pc[c] # "starting"
        <5>1. pc' = pc
          BY <1>10, <4>2 DEF WritePid, StartSucceeds
        <5> QED
          BY <5>1 DEF TypeOK
      <4> QED
        BY <4>1, <4>2
    <3>3. follows' \in [Clients -> Jobs \union {NoJob}]
      BY <1>10, <3>1 DEF WritePid, StartSucceeds, TypeOK
    <3>4. \A d \in Clients : pc'[d] # "done" => pc[d] # "done"
      BY <1>10 DEF WritePid, StartSucceeds, TypeOK
    <3> QED
      BY <1>10, <3>1, <3>2, <3>3, <3>4 DEF WritePid, StartSucceeds, TypeOK, WrapperRuns, Results
  <2>2. SessionHasMode'
    BY <1>10 DEF TypeOK, SessionHasMode, WritePid, StartSucceeds
  <2>3. ControlExclusive'
    BY <1>10 DEF TypeOK, ControlExclusive, WritePid, StartSucceeds
  <2>4. SlotKept'
    BY <1>10 DEF TypeOK, SlotKept, HoldsGpu, WrapperRuns, WritePid, StartSucceeds
  <2>5. ExitFileStays'
    BY <1>10 DEF TypeOK, ExitFileStays, WritePid, StartSucceeds
  <2>6. JobsSound'
    BY <1>10 DEF TypeOK, JobsSound, WrapperRuns, WritePid, StartSucceeds
  <2>7. OneJobAtATime'
    BY <1>10 DEF TypeOK, OneJobAtATime, HoldsGpu, WrapperRuns, WritePid, StartSucceeds
  <2>8. WriterOwnsFiles'
    BY <1>10 DEF TypeOK, WriterOwnsFiles, WrapperRuns, WritePid, StartSucceeds
  <2> QED
    BY <2>1, <2>2, <2>3, <2>4, <2>5, <2>6, <2>7, <2>8
<1>11. ASSUME NEW c \in Clients, PollExit(c) PROVE IInv'
  <2>1. TypeOK'
    BY <1>11 DEF TypeOK, WrapperRuns, Results, PollExit, PollGoto
  <2>2. SessionHasMode'
    BY <1>11 DEF TypeOK, SessionHasMode, PollExit, PollGoto
  <2>3. ControlExclusive'
    BY <1>11 DEF TypeOK, ControlExclusive, PollExit, PollGoto
  <2>4. SlotKept'
    BY <1>11 DEF TypeOK, SlotKept, HoldsGpu, WrapperRuns, PollExit, PollGoto
  <2>5. ExitFileStays'
    BY <1>11 DEF TypeOK, ExitFileStays, PollExit, PollGoto
  <2>6. JobsSound'
    BY <1>11 DEF TypeOK, JobsSound, WrapperRuns, PollExit, PollGoto
  <2>7. OneJobAtATime'
    BY <1>11 DEF TypeOK, OneJobAtATime, HoldsGpu, WrapperRuns, PollExit, PollGoto
  <2>8. WriterOwnsFiles'
    BY <1>11 DEF TypeOK, WriterOwnsFiles, WrapperRuns, PollExit, PollGoto
  <2> QED
    BY <2>1, <2>2, <2>3, <2>4, <2>5, <2>6, <2>7, <2>8
<1>12. ASSUME NEW c \in Clients, PollAlive(c) PROVE IInv'
  <2>1. TypeOK'
    <3>1. /\ remote' \in [Clients -> StartSteps \union PollSteps \union {"none"}]
          /\ status' \in [Clients -> {"none", "running", "lost", "empty", "ok", "fail"}]
      BY <1>12 DEF PollAlive, PollGoto, TypeOK
    <3> QED
      BY <1>12, <3>1 DEF PollAlive, TypeOK
  <2>2. SessionHasMode'
    BY <1>12 DEF TypeOK, SessionHasMode, PollAlive, PollGoto
  <2>3. ControlExclusive'
    <3>1. remote[c] \in InControl /\ \E s : remote' = [remote EXCEPT ![c] = s]
      BY <1>12 DEF PollAlive, PollGoto
    <3> QED
      BY <3>1, KeepsControl
  <2>4. SlotKept'
    BY <1>12 DEF TypeOK, SlotKept, HoldsGpu, WrapperRuns, PollAlive, PollGoto
  <2>5. ExitFileStays'
    BY <1>12 DEF TypeOK, ExitFileStays, PollAlive, PollGoto
  <2>6. JobsSound'
    BY <1>12 DEF TypeOK, JobsSound, WrapperRuns, PollAlive, PollGoto
  <2>7. OneJobAtATime'
    BY <1>12 DEF TypeOK, OneJobAtATime, HoldsGpu, WrapperRuns, PollAlive, PollGoto
  <2>8. WriterOwnsFiles'
    BY <1>12 DEF TypeOK, WriterOwnsFiles, WrapperRuns, PollAlive, PollGoto
  <2> QED
    BY <2>1, <2>2, <2>3, <2>4, <2>5, <2>6, <2>7, <2>8
<1>13. ASSUME NEW c \in Clients, PollRecheck(c) PROVE IInv'
  <2>1. TypeOK'
    <3>1. /\ remote' \in [Clients -> StartSteps \union PollSteps \union {"none"}]
          /\ status' \in [Clients -> {"none", "running", "lost", "empty", "ok", "fail"}]
      BY <1>13 DEF PollRecheck, PollGoto, TypeOK
    <3> QED
      BY <1>13, <3>1 DEF PollRecheck, TypeOK
  <2>2. SessionHasMode'
    BY <1>13 DEF TypeOK, SessionHasMode, PollRecheck, PollGoto
  <2>3. ControlExclusive'
    <3>1. remote[c] \in InControl /\ \E s : remote' = [remote EXCEPT ![c] = s]
      BY <1>13 DEF PollRecheck, PollGoto
    <3> QED
      BY <3>1, KeepsControl
  <2>4. SlotKept'
    BY <1>13 DEF TypeOK, SlotKept, HoldsGpu, WrapperRuns, PollRecheck, PollGoto
  <2>5. ExitFileStays'
    BY <1>13 DEF TypeOK, ExitFileStays, PollRecheck, PollGoto
  <2>6. JobsSound'
    BY <1>13 DEF TypeOK, JobsSound, WrapperRuns, PollRecheck, PollGoto
  <2>7. OneJobAtATime'
    BY <1>13 DEF TypeOK, OneJobAtATime, HoldsGpu, WrapperRuns, PollRecheck, PollGoto
  <2>8. WriterOwnsFiles'
    BY <1>13 DEF TypeOK, WriterOwnsFiles, WrapperRuns, PollRecheck, PollGoto
  <2> QED
    BY <2>1, <2>2, <2>3, <2>4, <2>5, <2>6, <2>7, <2>8
<1>14. ASSUME NEW c \in Clients, PollCat(c) PROVE IInv'
  <2>1. TypeOK'
    BY <1>14 DEF TypeOK, WrapperRuns, Results, ExitFileStays, SessionHasMode, PollCat, PollGoto
  <2>2. SessionHasMode'
    BY <1>14 DEF TypeOK, SessionHasMode, PollCat, PollGoto
  <2>3. ControlExclusive'
    BY <1>14 DEF TypeOK, ControlExclusive, PollCat, PollGoto
  <2>4. SlotKept'
    BY <1>14 DEF TypeOK, SlotKept, HoldsGpu, WrapperRuns, PollCat, PollGoto
  <2>5. ExitFileStays'
    BY <1>14 DEF TypeOK, ExitFileStays, PollCat, PollGoto
  <2>6. JobsSound'
    BY <1>14 DEF TypeOK, JobsSound, WrapperRuns, PollCat, PollGoto
  <2>7. OneJobAtATime'
    BY <1>14 DEF TypeOK, OneJobAtATime, HoldsGpu, WrapperRuns, PollCat, PollGoto
  <2>8. WriterOwnsFiles'
    BY <1>14 DEF TypeOK, WriterOwnsFiles, WrapperRuns, PollCat, PollGoto
  <2> QED
    BY <2>1, <2>2, <2>3, <2>4, <2>5, <2>6, <2>7, <2>8
<1>15. ASSUME NEW c \in Clients, PollTail(c) PROVE IInv'
  <2>1. TypeOK'
    <3>1. pc' \in [Clients -> {"idle", "starting", "polling", "sleeping", "done"}]
      BY <1>15 DEF PollTail, Act, Return, TypeOK
    <3>2. result' \in [Clients -> Results]
      BY <1>15 DEF PollTail, Act, Return, TypeOK, Results
    <3>3. /\ failures' \in [Clients -> 0..FailureLimit]
          /\ \A d \in Clients : pc'[d] # "done" => failures'[d] < FailureLimit
      BY <1>15 DEF PollTail, Act, Return, TypeOK
    <3>4. /\ shown' \in [Clients -> Nat]
          /\ printed' \in [Clients -> Output]
      <4>1. mode[c] \in Modes
        BY <1>15 DEF PollTail, SessionHasMode, TypeOK
      <4>2. NewLines(c) \in Output /\ Len(NewLines(c)) \in Nat
        BY <4>1, NewLinesType
      <4>3. printed[c] \o NewLines(c) \in Output
        BY <4>2 DEF TypeOK, Output
      <4> QED
        BY <1>15, <4>2, <4>3 DEF PollTail, PrintNew, TypeOK
    <3>5. /\ remote' \in [Clients -> StartSteps \union PollSteps \union {"none"}]
          /\ status' \in [Clients -> {"none", "running", "lost", "empty", "ok", "fail"}]
      BY <1>15 DEF PollTail, PollGoto, TypeOK
    <3> QED
      BY <1>15, <3>1, <3>2, <3>3, <3>4, <3>5 DEF PollTail, TypeOK, WrapperRuns
  <2>2. SessionHasMode'
    BY <1>15 DEF TypeOK, SessionHasMode, PollTail, PollGoto, Act, Return
  <2>3. ControlExclusive'
    BY <1>15 DEF TypeOK, ControlExclusive, PollTail, PollGoto, Act, Return
  <2>4. SlotKept'
    BY <1>15 DEF TypeOK, SlotKept, HoldsGpu, WrapperRuns, PollTail, PollGoto, Act, Return
  <2>5. ExitFileStays'
    BY <1>15 DEF TypeOK, ExitFileStays, PollTail, PollGoto, Act, Return
  <2>6. JobsSound'
    BY <1>15 DEF TypeOK, JobsSound, WrapperRuns, PollTail, PollGoto, Act, Return
  <2>7. OneJobAtATime'
    BY <1>15 DEF TypeOK, OneJobAtATime, HoldsGpu, WrapperRuns, PollTail, PollGoto, Act, Return
  <2>8. WriterOwnsFiles'
    BY <1>15 DEF TypeOK, WriterOwnsFiles, WrapperRuns, PollTail, PollGoto, Act, Return
  <2> QED
    BY <2>1, <2>2, <2>3, <2>4, <2>5, <2>6, <2>7, <2>8
<1>16. ASSUME NEW j \in Jobs, Write(j) PROVE IInv'
  <2>1. TypeOK'
    BY <1>16 DEF TypeOK, WrapperRuns, Results, Write
  <2>2. SessionHasMode'
    BY <1>16 DEF TypeOK, SessionHasMode, Write
  <2>3. ControlExclusive'
    BY <1>16 DEF TypeOK, ControlExclusive, Write
  <2>4. SlotKept'
    BY <1>16 DEF TypeOK, SlotKept, HoldsGpu, WrapperRuns, Write
  <2>5. ExitFileStays'
    BY <1>16 DEF TypeOK, ExitFileStays, Write
  <2>6. JobsSound'
    BY <1>16 DEF TypeOK, JobsSound, WrapperRuns, Write
  <2>7. OneJobAtATime'
    BY <1>16 DEF TypeOK, OneJobAtATime, HoldsGpu, WrapperRuns, Write
  <2>8. WriterOwnsFiles'
    BY <1>16 DEF TypeOK, WriterOwnsFiles, WrapperRuns, Write
  <2> QED
    BY <2>1, <2>2, <2>3, <2>4, <2>5, <2>6, <2>7, <2>8
<1>17. ASSUME NEW j \in Jobs, Finish(j) PROVE IInv'
  <2>1. TypeOK'
    BY <1>17 DEF TypeOK, WrapperRuns, Results, Finish
  <2>2. SessionHasMode'
    BY <1>17 DEF TypeOK, SessionHasMode, Finish
  <2>3. ControlExclusive'
    BY <1>17 DEF TypeOK, ControlExclusive, Finish
  <2>4. SlotKept'
    BY <1>17 DEF TypeOK, SlotKept, HoldsGpu, WrapperRuns, Finish
  <2>5. ExitFileStays'
    BY <1>17 DEF TypeOK, ExitFileStays, Finish
  <2>6. JobsSound'
    BY <1>17 DEF TypeOK, JobsSound, WrapperRuns, Finish
  <2>7. OneJobAtATime'
    BY <1>17 DEF TypeOK, OneJobAtATime, HoldsGpu, WrapperRuns, Finish
  <2>8. WriterOwnsFiles'
    BY <1>17 DEF TypeOK, WriterOwnsFiles, WrapperRuns, Finish
  <2> QED
    BY <2>1, <2>2, <2>3, <2>4, <2>5, <2>6, <2>7, <2>8
<1>18. ASSUME NEW j \in Jobs, CreateExit(j) PROVE IInv'
  <2>1. TypeOK'
    BY <1>18 DEF TypeOK, WrapperRuns, Results, CreateExit
  <2>2. SessionHasMode'
    BY <1>18 DEF TypeOK, SessionHasMode, CreateExit
  <2>3. ControlExclusive'
    BY <1>18 DEF TypeOK, ControlExclusive, CreateExit
  <2>4. SlotKept'
    BY <1>18 DEF TypeOK, SlotKept, HoldsGpu, WrapperRuns, CreateExit
  <2>5. ExitFileStays'
    BY <1>18 DEF TypeOK, ExitFileStays, SessionHasMode, CreateExit
  <2>6. JobsSound'
    BY <1>18 DEF TypeOK, JobsSound, WrapperRuns, CreateExit
  <2>7. OneJobAtATime'
    BY <1>18 DEF TypeOK, OneJobAtATime, HoldsGpu, WrapperRuns, CreateExit
  <2>8. WriterOwnsFiles'
    BY <1>18 DEF TypeOK, WriterOwnsFiles, WrapperRuns, CreateExit
  <2> QED
    BY <2>1, <2>2, <2>3, <2>4, <2>5, <2>6, <2>7, <2>8
<1>19. ASSUME NEW j \in Jobs, WriteExit(j) PROVE IInv'
  <2>1. TypeOK'
    BY <1>19 DEF TypeOK, WrapperRuns, Results, JobsSound, WriteExit
  <2>2. SessionHasMode'
    BY <1>19 DEF TypeOK, SessionHasMode, WriteExit
  <2>3. ControlExclusive'
    BY <1>19 DEF TypeOK, ControlExclusive, WriteExit
  <2>4. SlotKept'
    BY <1>19 DEF TypeOK, SlotKept, HoldsGpu, WrapperRuns, WriteExit
  <2>5. ExitFileStays'
    BY <1>19 DEF TypeOK, ExitFileStays, JobsSound, SessionHasMode, WriteExit
  <2>6. JobsSound'
    BY <1>19 DEF TypeOK, JobsSound, WrapperRuns, WriteExit
  <2>7. OneJobAtATime'
    BY <1>19 DEF TypeOK, OneJobAtATime, HoldsGpu, WrapperRuns, WriteExit
  <2>8. WriterOwnsFiles'
    BY <1>19 DEF TypeOK, WriterOwnsFiles, WrapperRuns, WriteExit
  <2> QED
    BY <2>1, <2>2, <2>3, <2>4, <2>5, <2>6, <2>7, <2>8
<1>20. ASSUME NEW j \in Jobs, WrapperExits(j) PROVE IInv'
  <2>1. TypeOK'
    BY <1>20 DEF TypeOK, WrapperRuns, Results, WrapperExits
  <2>2. SessionHasMode'
    BY <1>20 DEF TypeOK, SessionHasMode, WrapperExits
  <2>3. ControlExclusive'
    BY <1>20 DEF TypeOK, ControlExclusive, WrapperExits
  <2>4. SlotKept'
    BY <1>20 DEF TypeOK, SlotKept, HoldsGpu, WrapperRuns, WrapperExits
  <2>5. ExitFileStays'
    BY <1>20 DEF TypeOK, ExitFileStays, WrapperExits
  <2>6. JobsSound'
    BY <1>20 DEF TypeOK, JobsSound, WrapperRuns, WrapperExits
  <2>7. OneJobAtATime'
    BY <1>20 DEF TypeOK, OneJobAtATime, HoldsGpu, WrapperRuns, WrapperExits
  <2>8. WriterOwnsFiles'
    BY <1>20 DEF TypeOK, WriterOwnsFiles, WrapperRuns, WrapperExits
  <2> QED
    BY <2>1, <2>2, <2>3, <2>4, <2>5, <2>6, <2>7, <2>8
<1>21. ASSUME NEW j \in Jobs, KillWrapper(j) PROVE IInv'
  <2>1. TypeOK'
    BY <1>21 DEF TypeOK, WrapperRuns, Results, KillWrapper
  <2>2. SessionHasMode'
    BY <1>21 DEF TypeOK, SessionHasMode, KillWrapper
  <2>3. ControlExclusive'
    BY <1>21 DEF TypeOK, ControlExclusive, KillWrapper
  <2>4. SlotKept'
    BY <1>21 DEF TypeOK, SlotKept, HoldsGpu, WrapperRuns, KillWrapper
  <2>5. ExitFileStays'
    BY <1>21 DEF TypeOK, ExitFileStays, KillWrapper
  <2>6. JobsSound'
    BY <1>21 DEF TypeOK, JobsSound, WrapperRuns, KillWrapper
  <2>7. OneJobAtATime'
    BY <1>21 DEF TypeOK, OneJobAtATime, HoldsGpu, WrapperRuns, KillWrapper
  <2>8. WriterOwnsFiles'
    BY <1>21 DEF TypeOK, WriterOwnsFiles, WrapperRuns, KillWrapper
  <2> QED
    BY <2>1, <2>2, <2>3, <2>4, <2>5, <2>6, <2>7, <2>8
<1>22. ASSUME NEW j \in Jobs, LeftoverDies(j) PROVE IInv'
  <2>1. TypeOK'
    BY <1>22 DEF TypeOK, WrapperRuns, Results, LeftoverDies
  <2>2. SessionHasMode'
    BY <1>22 DEF TypeOK, SessionHasMode, LeftoverDies
  <2>3. ControlExclusive'
    BY <1>22 DEF TypeOK, ControlExclusive, LeftoverDies
  <2>4. SlotKept'
    BY <1>22 DEF TypeOK, SlotKept, HoldsGpu, WrapperRuns, LeftoverDies
  <2>5. ExitFileStays'
    BY <1>22 DEF TypeOK, ExitFileStays, LeftoverDies
  <2>6. JobsSound'
    BY <1>22 DEF TypeOK, JobsSound, WrapperRuns, LeftoverDies
  <2>7. OneJobAtATime'
    BY <1>22 DEF TypeOK, OneJobAtATime, HoldsGpu, WrapperRuns, LeftoverDies
  <2>8. WriterOwnsFiles'
    BY <1>22 DEF TypeOK, WriterOwnsFiles, WrapperRuns, LeftoverDies
  <2> QED
    BY <2>1, <2>2, <2>3, <2>4, <2>5, <2>6, <2>7, <2>8
<1>23. ASSUME NEW j \in Jobs, Reap(j) PROVE IInv'
  <2>1. TypeOK'
    BY <1>23 DEF TypeOK, WrapperRuns, Results, Reap
  <2>2. SessionHasMode'
    BY <1>23 DEF TypeOK, SessionHasMode, Reap
  <2>3. ControlExclusive'
    BY <1>23 DEF TypeOK, ControlExclusive, Reap
  <2>4. SlotKept'
    BY <1>23 DEF TypeOK, SlotKept, HoldsGpu, WrapperRuns, Reap
  <2>5. ExitFileStays'
    BY <1>23 DEF TypeOK, ExitFileStays, Reap
  <2>6. JobsSound'
    BY <1>23 DEF TypeOK, JobsSound, WrapperRuns, Reap
  <2>7. OneJobAtATime'
    BY <1>23 DEF TypeOK, OneJobAtATime, HoldsGpu, WrapperRuns, Reap
  <2>8. WriterOwnsFiles'
    BY <1>23 DEF TypeOK, WriterOwnsFiles, WrapperRuns, Reap
  <2> QED
    BY <2>1, <2>2, <2>3, <2>4, <2>5, <2>6, <2>7, <2>8
<1>24. CASE Reboot
  <2>1. TypeOK'
    <3>1. /\ pc' \in [Clients -> {"idle", "starting", "polling", "sleeping", "done"}]
          /\ result' \in [Clients -> Results]
      BY <1>24 DEF Reboot, Disconnect, TypeOK, Results
    <3>2. /\ failures' \in [Clients -> 0..FailureLimit]
          /\ \A d \in Clients : pc'[d] # "done" => failures'[d] < FailureLimit
      <4>1. \A d \in Clients :
              /\ failures[d] \in 0..FailureLimit
              /\ pc[d] # "done" => failures[d] < FailureLimit
        BY DEF TypeOK
      <4>2. failures' = [d \in Clients |-> IF pc[d] = "polling" THEN failures[d] + 1 ELSE failures[d]]
        BY <1>24 DEF Reboot, Disconnect
      <4>3. \A d \in Clients :
              /\ pc[d] = "polling" /\ failures[d] + 1 >= FailureLimit => pc'[d] = "done"
              /\ pc[d] = "done" => pc'[d] = "done"
        BY <1>24 DEF Reboot, Disconnect
      <4>4. \A d \in Clients : failures'[d] \in 0..FailureLimit
        BY <4>1, <4>2
      <4>5. \A d \in Clients : pc'[d] # "done" => failures'[d] < FailureLimit
        BY <4>1, <4>2, <4>3
      <4> QED
        BY <4>2, <4>4, <4>5
    <3>3. phase' \in [Jobs -> WrapperRuns \union {"unborn", "ended", "killed"}]
      BY <1>24 DEF Reboot, TypeOK, WrapperRuns
    <3>4. /\ remote' \in [Clients -> StartSteps \union PollSteps \union {"none"}]
          /\ status' \in [Clients -> {"none", "running", "lost", "empty", "ok", "fail"}]
          /\ leftover' \in [Jobs -> BOOLEAN] /\ reaped' \in [Jobs -> BOOLEAN]
          /\ reboots' \in 0..MaxReboots
      BY <1>24 DEF Reboot, TypeOK
    <3> QED
      BY <1>24, <3>1, <3>2, <3>3, <3>4 DEF Reboot, TypeOK
  <2>2. SessionHasMode'
    BY <1>24 DEF TypeOK, SessionHasMode, Reboot, Disconnect
  <2>3. ControlExclusive'
    BY <1>24 DEF TypeOK, ControlExclusive, Reboot, Disconnect
  <2>4. SlotKept'
    BY <1>24 DEF TypeOK, SlotKept, HoldsGpu, WrapperRuns, Reboot, Disconnect
  <2>5. ExitFileStays'
    BY <1>24 DEF TypeOK, ExitFileStays, Reboot, Disconnect
  <2>6. JobsSound'
    BY <1>24 DEF TypeOK, JobsSound, WrapperRuns, Reboot, Disconnect
  <2>7. OneJobAtATime'
    BY <1>24 DEF TypeOK, OneJobAtATime, HoldsGpu, WrapperRuns, Reboot, Disconnect
  <2>8. WriterOwnsFiles'
    BY <1>24 DEF TypeOK, WriterOwnsFiles, WrapperRuns, Reboot, Disconnect
  <2> QED
    BY <2>1, <2>2, <2>3, <2>4, <2>5, <2>6, <2>7, <2>8
<1>25. CASE UNCHANGED vars
  BY <1>25 DEF vars, TypeOK, SessionHasMode, ControlExclusive, SlotKept, ExitFileStays,
     JobsSound, OneJobAtATime, WriterOwnsFiles, HoldsGpu, WrapperRuns, Results
<1> QED
  BY <1>1, <1>2, <1>3, <1>4, <1>5, <1>6, <1>7, <1>8, <1>9, <1>10, <1>11, <1>12, <1>13,
     <1>14, <1>15, <1>16, <1>17, <1>18, <1>19, <1>20, <1>21, <1>22, <1>23, <1>24, <1>25
     DEF Next, Session, Wrapper, AllDone

\* Every step preserves what FreshVerdict rests on.
LEMMA NextVInv == IInv /\ VInv /\ [Next]_vars => VInv'
<1> USE BoundsAssumption DEF IInv, VInv, TypeOK, StartSteps, PollSteps, InControl,
      WrapperRuns, clientVars, sessionVars, fileVars, jobVars
<1> DEFINE Told == \A c \in Clients : result[c] \in {"success", "failed"} => Exited(verdictOf[c])
<1> SUFFICES ASSUME IInv, VInv, [Next]_vars PROVE VInv'
  OBVIOUS
<1>1. ASSUME NEW c \in Clients, NEW m \in Modes, Invoke(c, m) PROVE VInv'
  <2>1. SessionsBelong'
    BY <1>1 DEF SessionsBelong, SessionHasMode, Invoke
  <2>2. ExitOfLatest'
    BY <1>1 DEF ExitOfLatest, Exited, SessionHasMode, JobsSound, Invoke
  <2>3. FollowsOrdered'
    BY <1>1 DEF FollowsOrdered, SessionHasMode, Invoke
  <2>4. PollHoldsVerdict'
    BY <1>1 DEF PollHoldsVerdict, Exited, JobsSound, SessionHasMode, SessionsBelong, Invoke
  <2>5. Told'
    BY <1>1 DEF Exited, SessionsBelong, JobsSound, PollHoldsVerdict, Invoke
  <2>6. FreshVerdict'
    BY <1>1 DEF FreshVerdict, Exited, SessionsBelong, JobsSound, PollHoldsVerdict,
       SessionHasMode, Invoke
  <2> QED
    BY <2>1, <2>2, <2>3, <2>4, <2>5, <2>6
<1>2. ASSUME NEW c \in Clients, OpenPoll(c) PROVE VInv'
  BY <1>2 DEF OpenPoll, SessionHasMode, JobsSound, SessionsBelong, ExitOfLatest,
     FollowsOrdered, PollHoldsVerdict, FreshVerdict, Exited
<1>3. ASSUME NEW c \in Clients, SshLost(c) PROVE VInv'
  <2>1. SessionsBelong'
    BY <1>3 DEF SessionsBelong, SessionHasMode, SshLost, Disconnect
  <2>2. ExitOfLatest'
    BY <1>3 DEF ExitOfLatest, Exited, SessionHasMode, JobsSound, SshLost, Disconnect
  <2>3. FollowsOrdered'
    BY <1>3 DEF FollowsOrdered, SessionHasMode, SshLost, Disconnect
  <2>4. PollHoldsVerdict'
    BY <1>3 DEF PollHoldsVerdict, Exited, JobsSound, SessionHasMode, SessionsBelong,
       SshLost, Disconnect
  <2>5. Told'
    BY <1>3 DEF Exited, SessionsBelong, JobsSound, PollHoldsVerdict, SshLost, Disconnect
  <2>6. FreshVerdict'
    BY <1>3 DEF FreshVerdict, Exited, SessionsBelong, JobsSound, PollHoldsVerdict,
       SessionHasMode, SshLost, Disconnect
  <2> QED
    BY <2>1, <2>2, <2>3, <2>4, <2>5, <2>6
<1>4. ASSUME NEW c \in Clients, TakeControl(c) PROVE VInv'
  BY <1>4 DEF TakeControl, ControlFree, SessionHasMode, JobsSound, SessionsBelong,
     ExitOfLatest, FollowsOrdered, PollHoldsVerdict, FreshVerdict, Exited
<1>5. ASSUME NEW c \in Clients, TryGpu(c) PROVE VInv'
  BY <1>5 DEF TryGpu, GpuFree, InGpu, SessionHasMode, JobsSound, SessionsBelong,
     ExitOfLatest, FollowsOrdered, PollHoldsVerdict, FreshVerdict, Exited
<1>6. ASSUME NEW c \in Clients, Busy(c) PROVE VInv'
  <2>1. SessionsBelong'
    BY <1>6 DEF SessionsBelong, SessionHasMode, Busy, StartSucceeds, StartFails, Return
  <2>2. ExitOfLatest'
    BY <1>6 DEF ExitOfLatest, Exited, SessionHasMode, JobsSound, Busy, StartSucceeds,
       StartFails, Return
  <2>3. FollowsOrdered'
    BY <1>6 DEF FollowsOrdered, SessionHasMode, Busy, StartSucceeds, StartFails, Return
  <2>4. PollHoldsVerdict'
    BY <1>6 DEF PollHoldsVerdict, Exited, JobsSound, SessionHasMode, SessionsBelong,
       Busy, StartSucceeds, StartFails, Return
  <2>5. Told'
    BY <1>6 DEF Exited, SessionsBelong, JobsSound, PollHoldsVerdict, Busy,
       StartSucceeds, StartFails, Return
  <2>6. FreshVerdict'
    BY <1>6 DEF FreshVerdict, Exited, SessionsBelong, JobsSound, PollHoldsVerdict,
       SessionHasMode, Busy, StartSucceeds, StartFails, Return
  <2> QED
    BY <2>1, <2>2, <2>3, <2>4, <2>5, <2>6
<1>7. ASSUME NEW c \in Clients, SetMode(c) PROVE VInv'
  BY <1>7 DEF SetMode, SessionHasMode, JobsSound, SessionsBelong, ExitOfLatest,
     FollowsOrdered, PollHoldsVerdict, FreshVerdict, Exited
<1>8. ASSUME NEW c \in Clients, RmExit(c) PROVE VInv'
  <2>1. SessionsBelong'
    BY <1>8 DEF SessionsBelong, SessionHasMode, RmExit
  <2>2. ExitOfLatest'
    BY <1>8 DEF ExitOfLatest, Exited, SessionHasMode, JobsSound, RmExit
  <2>3. FollowsOrdered'
    BY <1>8 DEF FollowsOrdered, SessionHasMode, RmExit
  <2>4. PollHoldsVerdict'
    BY <1>8 DEF PollHoldsVerdict, Exited, JobsSound, SessionHasMode, SessionsBelong, RmExit
  <2>5. Told'
    BY <1>8 DEF Exited, SessionsBelong, JobsSound, PollHoldsVerdict, RmExit
  <2>6. FreshVerdict'
    BY <1>8 DEF FreshVerdict, Exited, SessionsBelong, JobsSound, PollHoldsVerdict,
       SessionHasMode, RmExit
  <2> QED
    BY <2>1, <2>2, <2>3, <2>4, <2>5, <2>6
<1>9. ASSUME NEW c \in Clients, Launch(c) PROVE VInv'
  <2>1. SessionsBelong'
    BY <1>9 DEF SessionsBelong, SessionHasMode, Launch
  <2>2. ExitOfLatest'
    BY <1>9 DEF ExitOfLatest, Exited, SessionHasMode, JobsSound, Launch
  <2>3. FollowsOrdered'
    <3>1. mode[c] \in Modes /\ started' = started + 1 /\ started' \in Jobs
      BY <1>9 DEF Launch, SessionHasMode
    <3>2. logOf' = [logOf EXCEPT ![mode[c]] = started'] /\ mode' = mode
      BY <1>9 DEF Launch
    <3>3. ASSUME NEW m \in Modes PROVE logOf[m] <= logOf'[m] /\ logOf'[m] <= started'
      <4>1. logOf[m] <= started /\ logOf[m] \in Int /\ started \in Int
        BY DEF FollowsOrdered
      <4> QED
        BY <3>1, <3>2, <4>1
    <3>4. \A d \in Clients : follows[d] # NoJob => pc[d] # "idle" /\ follows[d] <= logOf'[mode[d]]
      <4> SUFFICES ASSUME NEW d \in Clients, follows[d] # NoJob
                   PROVE  pc[d] # "idle" /\ follows[d] <= logOf'[mode[d]]
        OBVIOUS
      <4>1. pc[d] # "idle" /\ mode[d] \in Modes /\ follows[d] <= logOf[mode[d]]
        BY DEF FollowsOrdered, SessionHasMode
      <4>2. follows[d] \in Int /\ logOf[mode[d]] \in Int /\ logOf'[mode[d]] \in Int
        BY <3>1, <3>2, <4>1
      <4>3. logOf[mode[d]] <= logOf'[mode[d]]
        BY <3>3, <4>1
      <4> QED
        BY <4>1, <4>2, <4>3
    <3>5. \A d \in Clients : remote'[d] = "writePid" => d = c
      BY <1>9 DEF Launch, ControlExclusive
    <3> QED
      BY <1>9, <3>1, <3>2, <3>3, <3>4, <3>5 DEF Launch, FollowsOrdered
  <2>4. PollHoldsVerdict'
    BY <1>9 DEF PollHoldsVerdict, Exited, JobsSound, SessionHasMode, SessionsBelong, Launch
  <2>5. Told'
    BY <1>9 DEF Exited, SessionsBelong, JobsSound, PollHoldsVerdict, Launch
  <2>6. FreshVerdict'
    BY <1>9 DEF FreshVerdict, Exited, SessionsBelong, JobsSound, PollHoldsVerdict,
       SessionHasMode, Launch
  <2> QED
    BY <2>1, <2>2, <2>3, <2>4, <2>5, <2>6
<1>10. ASSUME NEW c \in Clients, WritePid(c) PROVE VInv'
  <2>1. SessionsBelong'
    BY <1>10 DEF SessionsBelong, SessionHasMode, WritePid, StartSucceeds
  <2>2. ExitOfLatest'
    BY <1>10 DEF ExitOfLatest, Exited, SessionHasMode, JobsSound, WritePid, StartSucceeds
  <2>3. FollowsOrdered'
    BY <1>10 DEF FollowsOrdered, SessionHasMode, WritePid, StartSucceeds
  <2>4. PollHoldsVerdict'
    BY <1>10 DEF PollHoldsVerdict, Exited, JobsSound, SessionHasMode, SessionsBelong,
       WritePid, StartSucceeds
  <2>5. Told'
    BY <1>10 DEF Exited, SessionsBelong, JobsSound, PollHoldsVerdict, WritePid, StartSucceeds
  <2>6. FreshVerdict'
    <3>1. \A d \in Clients : result[d] = "success" => follows'[d] = follows[d]
      BY <1>10 DEF WritePid, StartSucceeds, SessionsBelong
    <3> QED
      BY <1>10, <3>1 DEF WritePid, StartSucceeds, FreshVerdict
  <2> QED
    BY <2>1, <2>2, <2>3, <2>4, <2>5, <2>6
<1>11. ASSUME NEW c \in Clients, PollExit(c) PROVE VInv'
  BY <1>11 DEF PollExit, PollGoto, SessionHasMode, JobsSound, SessionsBelong,
     ExitOfLatest, FollowsOrdered, PollHoldsVerdict, FreshVerdict, Exited
<1>12. ASSUME NEW c \in Clients, PollAlive(c) PROVE VInv'
  <2>1. SessionsBelong'
    BY <1>12 DEF SessionsBelong, SessionHasMode, PollAlive, PollGoto
  <2>2. ExitOfLatest'
    BY <1>12 DEF ExitOfLatest, Exited, SessionHasMode, JobsSound, PollAlive, PollGoto
  <2>3. FollowsOrdered'
    BY <1>12 DEF FollowsOrdered, SessionHasMode, PollAlive, PollGoto
  <2>4. PollHoldsVerdict'
    <3>1. /\ remote'[c] = "pollTail" => status'[c] \in {"running", "lost"}
          /\ \A d \in Clients \ {c} : remote'[d] = remote[d] /\ status'[d] = status[d]
      BY <1>12 DEF PollAlive, PollGoto
    <3> QED
      BY <1>12, <3>1 DEF PollAlive, PollHoldsVerdict, Exited
  <2>5. Told'
    BY <1>12 DEF Exited, SessionsBelong, JobsSound, PollHoldsVerdict, PollAlive,
       PollGoto
  <2>6. FreshVerdict'
    BY <1>12 DEF FreshVerdict, Exited, SessionsBelong, JobsSound, PollHoldsVerdict,
       SessionHasMode, PollAlive, PollGoto
  <2> QED
    BY <2>1, <2>2, <2>3, <2>4, <2>5, <2>6
<1>13. ASSUME NEW c \in Clients, PollRecheck(c) PROVE VInv'
  <2>1. SessionsBelong'
    BY <1>13 DEF SessionsBelong, SessionHasMode, PollRecheck, PollGoto
  <2>2. ExitOfLatest'
    BY <1>13 DEF ExitOfLatest, Exited, SessionHasMode, JobsSound, PollRecheck, PollGoto
  <2>3. FollowsOrdered'
    BY <1>13 DEF FollowsOrdered, SessionHasMode, PollRecheck, PollGoto
  <2>4. PollHoldsVerdict'
    <3>1. /\ remote'[c] = "pollTail" => status'[c] \in {"running", "lost"}
          /\ \A d \in Clients \ {c} : remote'[d] = remote[d] /\ status'[d] = status[d]
      BY <1>13 DEF PollRecheck, PollGoto
    <3> QED
      BY <1>13, <3>1 DEF PollRecheck, PollHoldsVerdict, Exited
  <2>5. Told'
    BY <1>13 DEF Exited, SessionsBelong, JobsSound, PollHoldsVerdict, PollRecheck, PollGoto
  <2>6. FreshVerdict'
    BY <1>13 DEF FreshVerdict, Exited, SessionsBelong, JobsSound, PollHoldsVerdict,
       SessionHasMode, PollRecheck, PollGoto
  <2> QED
    BY <2>1, <2>2, <2>3, <2>4, <2>5, <2>6
<1>14. ASSUME NEW c \in Clients, PollCat(c) PROVE VInv'
  <2>1. SessionsBelong'
    BY <1>14 DEF SessionsBelong, SessionHasMode, PollCat, PollGoto
  <2>2. ExitOfLatest'
    BY <1>14 DEF ExitOfLatest, Exited, SessionHasMode, JobsSound, PollCat, PollGoto
  <2>3. FollowsOrdered'
    BY <1>14 DEF FollowsOrdered, SessionHasMode, PollCat, PollGoto
  <2>4. PollHoldsVerdict'
    <3>1. /\ UNCHANGED <<mode, follows, phase, jobMode, code>>
          /\ \A d \in Clients \ {c} : /\ remote'[d] = remote[d] /\ status'[d] = status[d]
                                     /\ verdictOf'[d] = verdictOf[d]
          /\ verdictOf'[c] = logOf[mode[c]] /\ status'[c] = exitFile[mode[c]]
      <4>1. exitFile[mode[c]] \in {"absent", "empty", "ok", "fail"}
        BY <1>14 DEF PollCat, SessionsBelong, SessionHasMode
      <4> QED
        BY <1>14, <4>1 DEF PollCat, PollGoto
    <3>2. pc[c] = "polling" /\ mode[c] \in Modes /\ exitFile[mode[c]] # "absent"
      BY <1>14 DEF PollCat, SessionsBelong, SessionHasMode, ExitFileStays
    <3>3. /\ Exited(logOf[mode[c]]) /\ jobMode[logOf[mode[c]]] = mode[c]
          /\ exitFile[mode[c]] = "ok" => code[logOf[mode[c]]] = "ok"
      BY <3>2 DEF ExitOfLatest
    <3>4. logOf[mode[c]] >= follows[c]
      BY <3>2, <3>3 DEF FollowsOrdered, Exited
    <3> SUFFICES ASSUME NEW d \in Clients, remote'[d] = "pollTail", status'[d] \notin {"running", "lost"}
                 PROVE  /\ verdictOf'[d] \in Jobs /\ phase[verdictOf'[d]] \notin {"unborn", "running"}
                        /\ verdictOf'[d] >= follows[d]
                        /\ jobMode[verdictOf'[d]] = mode[d]
                        /\ status'[d] = "ok" => code[verdictOf'[d]] = "ok"
      BY <3>1 DEF PollHoldsVerdict, Exited
    <3>6. CASE d = c
      BY <3>1, <3>3, <3>4, <3>6 DEF Exited
    <3>7. CASE d # c
      <4>1. /\ Exited(verdictOf[d]) /\ verdictOf[d] >= follows[d]
            /\ jobMode[verdictOf[d]] = mode[d]
            /\ status[d] = "ok" => code[verdictOf[d]] = "ok"
        BY <3>1, <3>7 DEF PollHoldsVerdict
      <4> QED
        BY <3>1, <3>7, <4>1 DEF Exited
    <3> QED
      BY <3>6, <3>7
  <2>5. Told'
    BY <1>14 DEF Exited, SessionsBelong, JobsSound, PollHoldsVerdict, PollCat, PollGoto
  <2>6. FreshVerdict'
    BY <1>14 DEF FreshVerdict, Exited, SessionsBelong, JobsSound, PollHoldsVerdict,
       SessionHasMode, PollCat, PollGoto
  <2> QED
    BY <2>1, <2>2, <2>3, <2>4, <2>5, <2>6
<1>15. ASSUME NEW c \in Clients, PollTail(c) PROVE VInv'
  <2>1. SessionsBelong'
    BY <1>15 DEF SessionsBelong, SessionHasMode, PollTail, PollGoto, Act, Return
  <2>2. ExitOfLatest'
    BY <1>15 DEF ExitOfLatest, Exited, SessionHasMode, JobsSound, PollTail, PollGoto, Act, Return
  <2>3. FollowsOrdered'
    BY <1>15 DEF FollowsOrdered, SessionHasMode, PollTail, PollGoto, Act, Return
  <2>4. PollHoldsVerdict'
    BY <1>15 DEF PollHoldsVerdict, Exited, JobsSound, SessionHasMode, SessionsBelong,
       PollTail, PollGoto, Act, Return
  <2>5. Told'
    BY <1>15 DEF Exited, SessionsBelong, JobsSound, PollHoldsVerdict, PollTail, PollGoto, Act, Return
  <2>6. FreshVerdict'
    BY <1>15 DEF FreshVerdict, Exited, SessionsBelong, JobsSound, PollHoldsVerdict,
       SessionHasMode, PollTail, PollGoto, Act, Return
  <2> QED
    BY <2>1, <2>2, <2>3, <2>4, <2>5, <2>6
<1>16. ASSUME NEW j \in Jobs, Write(j) PROVE VInv'
  BY <1>16 DEF Write, SessionHasMode, JobsSound, SessionsBelong, ExitOfLatest,
     FollowsOrdered, PollHoldsVerdict, FreshVerdict, Exited
<1>17. ASSUME NEW j \in Jobs, Finish(j) PROVE VInv'
  <2>1. SessionsBelong'
    BY <1>17 DEF SessionsBelong, SessionHasMode, Finish
  <2>2. ExitOfLatest'
    BY <1>17 DEF ExitOfLatest, Exited, SessionHasMode, JobsSound, Finish
  <2>3. FollowsOrdered'
    BY <1>17 DEF FollowsOrdered, SessionHasMode, Finish
  <2>4. PollHoldsVerdict'
    BY <1>17 DEF PollHoldsVerdict, Exited, JobsSound, SessionHasMode, SessionsBelong, Finish
  <2>5. Told'
    BY <1>17 DEF Exited, SessionsBelong, JobsSound, PollHoldsVerdict, Finish
  <2>6. FreshVerdict'
    BY <1>17 DEF FreshVerdict, Exited, SessionsBelong, JobsSound, PollHoldsVerdict,
       SessionHasMode, Finish
  <2> QED
    BY <2>1, <2>2, <2>3, <2>4, <2>5, <2>6
<1>18. ASSUME NEW j \in Jobs, CreateExit(j) PROVE VInv'
  <2>1. SessionsBelong'
    BY <1>18 DEF SessionsBelong, SessionHasMode, CreateExit
  <2>2. ExitOfLatest'
    BY <1>18 DEF ExitOfLatest, Exited, SessionHasMode, JobsSound, SlotKept, HoldsGpu,
       WriterOwnsFiles, CreateExit
  <2>3. FollowsOrdered'
    BY <1>18 DEF FollowsOrdered, SessionHasMode, CreateExit
  <2>4. PollHoldsVerdict'
    BY <1>18 DEF PollHoldsVerdict, Exited, JobsSound, SessionHasMode, SessionsBelong, CreateExit
  <2>5. Told'
    BY <1>18 DEF Exited, SessionsBelong, JobsSound, PollHoldsVerdict, CreateExit
  <2>6. FreshVerdict'
    BY <1>18 DEF FreshVerdict, Exited, SessionsBelong, JobsSound, PollHoldsVerdict,
       SessionHasMode, CreateExit
  <2> QED
    BY <2>1, <2>2, <2>3, <2>4, <2>5, <2>6
<1>19. ASSUME NEW j \in Jobs, WriteExit(j) PROVE VInv'
  <2>1. SessionsBelong'
    BY <1>19 DEF SessionsBelong, SessionHasMode, WriteExit
  <2>2. ExitOfLatest'
    BY <1>19 DEF ExitOfLatest, Exited, SessionHasMode, JobsSound, SlotKept, HoldsGpu,
       WriterOwnsFiles, WriteExit
  <2>3. FollowsOrdered'
    BY <1>19 DEF FollowsOrdered, SessionHasMode, WriteExit
  <2>4. PollHoldsVerdict'
    BY <1>19 DEF PollHoldsVerdict, Exited, JobsSound, SessionHasMode, SessionsBelong, WriteExit
  <2>5. Told'
    BY <1>19 DEF Exited, SessionsBelong, JobsSound, PollHoldsVerdict, WriteExit
  <2>6. FreshVerdict'
    BY <1>19 DEF FreshVerdict, Exited, SessionsBelong, JobsSound, PollHoldsVerdict,
       SessionHasMode, WriteExit
  <2> QED
    BY <2>1, <2>2, <2>3, <2>4, <2>5, <2>6
<1>20. ASSUME NEW j \in Jobs, WrapperExits(j) PROVE VInv'
  BY <1>20 DEF WrapperExits, SessionHasMode, JobsSound, SessionsBelong, ExitOfLatest,
     FollowsOrdered, PollHoldsVerdict, FreshVerdict, Exited
<1>21. ASSUME NEW j \in Jobs, KillWrapper(j) PROVE VInv'
  <2>1. SessionsBelong'
    BY <1>21 DEF SessionsBelong, SessionHasMode, KillWrapper
  <2>2. ExitOfLatest'
    BY <1>21 DEF ExitOfLatest, Exited, SessionHasMode, JobsSound, KillWrapper
  <2>3. FollowsOrdered'
    BY <1>21 DEF FollowsOrdered, SessionHasMode, KillWrapper
  <2>4. PollHoldsVerdict'
    BY <1>21 DEF PollHoldsVerdict, Exited, JobsSound, SessionHasMode, SessionsBelong,
       KillWrapper
  <2>5. Told'
    BY <1>21 DEF Exited, SessionsBelong, JobsSound, PollHoldsVerdict, KillWrapper
  <2>6. FreshVerdict'
    BY <1>21 DEF FreshVerdict, Exited, SessionsBelong, JobsSound, PollHoldsVerdict,
       SessionHasMode, KillWrapper
  <2> QED
    BY <2>1, <2>2, <2>3, <2>4, <2>5, <2>6
<1>22. ASSUME NEW j \in Jobs, LeftoverDies(j) PROVE VInv'
  BY <1>22 DEF LeftoverDies, SessionHasMode, JobsSound, SessionsBelong, ExitOfLatest,
     FollowsOrdered, PollHoldsVerdict, FreshVerdict, Exited
<1>23. ASSUME NEW j \in Jobs, Reap(j) PROVE VInv'
  BY <1>23 DEF Reap, SessionHasMode, JobsSound, SessionsBelong, ExitOfLatest,
     FollowsOrdered, PollHoldsVerdict, FreshVerdict, Exited
<1>24. CASE Reboot
  <2>1. SessionsBelong'
    BY <1>24 DEF SessionsBelong, SessionHasMode, Reboot, Disconnect
  <2>2. ExitOfLatest'
    BY <1>24 DEF ExitOfLatest, Exited, SessionHasMode, JobsSound, Reboot, Disconnect
  <2>3. FollowsOrdered'
    BY <1>24 DEF FollowsOrdered, SessionHasMode, Reboot, Disconnect
  <2>4. PollHoldsVerdict'
    BY <1>24 DEF PollHoldsVerdict, Exited, JobsSound, SessionHasMode, SessionsBelong,
       Reboot, Disconnect
  <2>5. Told'
    BY <1>24 DEF Exited, SessionsBelong, JobsSound, PollHoldsVerdict, Reboot, Disconnect
  <2>6. FreshVerdict'
    BY <1>24 DEF FreshVerdict, Exited, SessionsBelong, JobsSound, PollHoldsVerdict,
       SessionHasMode, Reboot, Disconnect
  <2> QED
    BY <2>1, <2>2, <2>3, <2>4, <2>5, <2>6
<1>25. CASE UNCHANGED vars
  BY <1>25 DEF vars, SessionHasMode, JobsSound, SessionsBelong, ExitOfLatest,
     FollowsOrdered, PollHoldsVerdict, FreshVerdict, Exited
<1> QED
  BY <1>1, <1>2, <1>3, <1>4, <1>5, <1>6, <1>7, <1>8, <1>9, <1>10, <1>11, <1>12, <1>13,
     <1>14, <1>15, <1>16, <1>17, <1>18, <1>19, <1>20, <1>21, <1>22, <1>23, <1>24, <1>25
     DEF Next, Session, Wrapper, AllDone

\* What is printed of a job's log, with the lines that follow, is a longer part
\* of it.
LEMMA PrintsOn ==
  ASSUME NEW j \in Jobs, NEW n \in Nat, NEW k \in Nat
  PROVE  Log(j, n) \o [i \in 1..k |-> <<j, n + i>>] = Log(j, n + k)
<1> DEFINE old == Log(j, n)
           new == [i \in 1..k |-> <<j, n + i>>]
           S == Jobs \X Nat
<1>1. old \in Seq(S) /\ Len(old) = n
  BY DEF Log
<1>2. new \in Seq(S) /\ Len(new) = k
  OBVIOUS
<1>3. \A i \in 1..n : old[i] = <<j, i>>
  BY DEF Log
<1>4. \A i \in 1..k : new[i] = <<j, n + i>>
  OBVIOUS
<1> HIDE DEF old, new, S
<1>5. old \o new \in Seq(S) /\ Len(old \o new) = n + k
  BY <1>1, <1>2
<1>6. ASSUME NEW i \in 1..(n + k) PROVE (old \o new)[i] = <<j, i>>
  <2>1. CASE i \in 1..n
    BY <1>1, <1>2, <1>3, <2>1
  <2>2. CASE i \notin 1..n
    <3>1. (old \o new)[i] = new[i - n] /\ i - n \in 1..k
      BY <1>1, <1>2, <2>2
    <3> QED
      BY <3>1, <1>4
  <2> QED
    BY <2>1, <2>2
<1> QED
  BY <1>5, <1>6 DEF old, new, Log

\* While the log is that of the job a client follows, tail shows all the rest.
LEMMA CatchesUp ==
  ASSUME TypeOK, PrintedSoFar, NEW c \in Clients, mode[c] \in Modes, PrintNew(c),
         follows[c] # NoJob, logOf[mode[c]] = follows[c]
  PROVE  /\ shown'[c] = lines[follows[c]]
         /\ printed'[c] = Log(follows[c], lines[follows[c]])
<1> DEFINE j == follows[c]
           n == shown[c]
           k == lines[j] - n
<1>1. j \in Jobs /\ n \in Nat /\ lines[j] \in Nat
  BY DEF TypeOK
<1>2. n <= lines[j] /\ printed[c] = Log(j, n)
  BY DEF PrintedSoFar
<1>3. k \in Nat /\ n + k = lines[j]
  BY <1>1, <1>2
<1>4. NewLines(c) = [i \in 1..k |-> <<j, n + i>>]
  BY DEF NewLines
<1>5. shown'[c] = n + Len(NewLines(c)) /\ printed'[c] = printed[c] \o NewLines(c)
  BY DEF PrintNew, TypeOK
<1> HIDE DEF j, n, k
<1>6. Len(NewLines(c)) = k
  BY <1>3, <1>4
<1>7. printed'[c] = Log(j, n) \o [i \in 1..k |-> <<j, n + i>>]
  BY <1>2, <1>4, <1>5
<1>8. @ = Log(j, n + k)
  BY <1>1, <1>3, PrintsOn
<1> QED
  BY <1>3, <1>5, <1>6, <1>7, <1>8 DEF j

\* Every step preserves what WholeLogShown and LostIsDead rest on.
LEMMA NextLInv == IInv /\ VInv /\ LInv /\ [Next]_vars => LInv'
<1> USE BoundsAssumption DEF IInv, VInv, LInv, TypeOK, StartSteps, PollSteps, InControl,
      WrapperRuns, clientVars, sessionVars, fileVars, jobVars
<1> SUFFICES ASSUME IInv, VInv, LInv, [Next]_vars PROVE LInv'
  OBVIOUS
<1>1. ASSUME NEW c \in Clients, NEW m \in Modes, Invoke(c, m) PROVE LInv'
  <2>1. LogNamed'
    BY <1>1 DEF LogNamed, SessionHasMode, JobsSound, Invoke
  <2>2. OwnerNamed'
    BY <1>1 DEF OwnerNamed, HoldsGpu, SlotKept, ControlExclusive, SessionHasMode, JobsSound,
       Invoke
  <2>3. FollowsSome'
    BY <1>1 DEF FollowsSome, OwnerNamed, SessionHasMode, FollowsOrdered, Invoke
  <2>4. PidOfLatest'
    BY <1>1 DEF PidOfLatest, ControlExclusive, SessionHasMode, FollowsOrdered, Invoke
  <2>5. ExitRecorded'
    BY <1>1 DEF ExitRecorded, ControlExclusive, SessionHasMode, LogNamed, JobsSound, Invoke
  <2>6. DeadSeen'
    BY <1>1 DEF DeadSeen, ControlExclusive, SessionHasMode, Invoke
  <2>7. LostKnown'
    BY <1>1 DEF LostKnown, Died, SessionsBelong, SessionHasMode, Invoke
  <2>8. VerdictIsLatest'
    BY <1>1 DEF VerdictIsLatest, ControlExclusive, SessionHasMode, Invoke
  <2>9. WholeLogShown'
    BY <1>1 DEF WholeLogShown, SessionsBelong, SessionHasMode, FreshVerdict, Exited, Invoke
  <2>10. PrintedSoFar'
    BY <1>1 DEF PrintedSoFar, FollowsOrdered, SessionHasMode, Invoke
  <2> QED
    BY <2>1, <2>2, <2>3, <2>4, <2>5, <2>6, <2>7, <2>8, <2>9, <2>10
<1>2. ASSUME NEW c \in Clients, OpenPoll(c) PROVE LInv'
  <2>1. LogNamed'
    BY <1>2 DEF LogNamed, SessionHasMode, JobsSound, OpenPoll
  <2>2. OwnerNamed'
    BY <1>2 DEF OwnerNamed, HoldsGpu, SlotKept, ControlExclusive, SessionHasMode, JobsSound,
       OpenPoll
  <2>3. FollowsSome'
    BY <1>2 DEF FollowsSome, OwnerNamed, SessionHasMode, FollowsOrdered, OpenPoll
  <2>4. PidOfLatest'
    BY <1>2 DEF PidOfLatest, FollowsSome, SessionHasMode, OpenPoll
  <2>5. ExitRecorded'
    BY <1>2 DEF ExitRecorded, FollowsSome, SessionHasMode, OpenPoll
  <2>6. DeadSeen'
    BY <1>2 DEF DeadSeen, ControlExclusive, SessionHasMode, OpenPoll
  <2>7. LostKnown'
    BY <1>2 DEF LostKnown, Died, SessionsBelong, SessionHasMode, OpenPoll
  <2>8. VerdictIsLatest'
    BY <1>2 DEF VerdictIsLatest, ControlExclusive, SessionHasMode, OpenPoll
  <2>9. WholeLogShown'
    BY <1>2 DEF WholeLogShown, SessionsBelong, SessionHasMode, FreshVerdict, Exited, OpenPoll
  <2>10. PrintedSoFar'
    BY <1>2 DEF PrintedSoFar, FollowsOrdered, SessionHasMode, OpenPoll
  <2> QED
    BY <2>1, <2>2, <2>3, <2>4, <2>5, <2>6, <2>7, <2>8, <2>9, <2>10
<1>3. ASSUME NEW c \in Clients, SshLost(c) PROVE LInv'
  <2>1. LogNamed'
    BY <1>3 DEF LogNamed, SessionHasMode, JobsSound, SshLost, Disconnect
  <2>2. OwnerNamed'
    BY <1>3 DEF OwnerNamed, HoldsGpu, SlotKept, ControlExclusive, SessionHasMode, JobsSound,
       SshLost, Disconnect
  <2>3. FollowsSome'
    BY <1>3 DEF FollowsSome, OwnerNamed, SessionHasMode, FollowsOrdered, SshLost, Disconnect
  <2>4. PidOfLatest'
    BY <1>3 DEF PidOfLatest, ControlExclusive, SessionHasMode, FollowsOrdered, SshLost,
       Disconnect
  <2>5. ExitRecorded'
    BY <1>3 DEF ExitRecorded, ControlExclusive, SessionHasMode, LogNamed, JobsSound,
       SshLost, Disconnect
  <2>6. DeadSeen'
    BY <1>3 DEF DeadSeen, ControlExclusive, SessionHasMode, SshLost, Disconnect
  <2>7. LostKnown'
    BY <1>3 DEF LostKnown, Died, SessionsBelong, SessionHasMode, SshLost, Disconnect
  <2>8. VerdictIsLatest'
    <3>1. /\ UNCHANGED <<mode, verdictOf, logOf>>
          /\ \A d \in Clients \ {c} : remote'[d] = remote[d] /\ status'[d] = status[d]
          /\ remote'[c] # "pollTail"
      BY <1>3 DEF SshLost, SessionsBelong
    <3> QED
      BY <3>1 DEF VerdictIsLatest
  <2>9. WholeLogShown'
    BY <1>3 DEF WholeLogShown, SessionsBelong, SessionHasMode, FreshVerdict, Exited,
       SshLost, Disconnect
  <2>10. PrintedSoFar'
    BY <1>3 DEF PrintedSoFar, FollowsOrdered, SessionHasMode, SshLost, Disconnect
  <2> QED
    BY <2>1, <2>2, <2>3, <2>4, <2>5, <2>6, <2>7, <2>8, <2>9, <2>10
<1>4. ASSUME NEW c \in Clients, TakeControl(c) PROVE LInv'
  BY <1>4 DEF TakeControl, ControlFree, LogNamed, OwnerNamed, FollowsSome, PidOfLatest,
     ExitRecorded,
     DeadSeen, LostKnown, Died, VerdictIsLatest, PrintedSoFar, WholeLogShown, HoldsGpu, SessionHasMode
<1>5. ASSUME NEW c \in Clients, TryGpu(c) PROVE LInv'
  <2>1. LogNamed'
    BY <1>5 DEF LogNamed, SessionHasMode, JobsSound, TryGpu, GpuFree, InGpu
  <2>2. OwnerNamed'
    <3>1. \A d \in Clients : remote[d] \notin InGpu
      BY <1>5 DEF TryGpu, ControlExclusive, InGpu
    <3>2. remote'[c] = "busy" => \E j \in Jobs : HoldsGpu(j)
      BY <1>5, <3>1 DEF TryGpu, GpuFree
    <3>3. \A j \in Jobs : HoldsGpu(j)' = HoldsGpu(j)
      BY <1>5 DEF TryGpu, HoldsGpu
    <3>4. /\ activeMode' = activeMode /\ logOf' = logOf
          /\ \A d \in Clients \ {c} : remote'[d] = remote[d]
      BY <1>5 DEF TryGpu
    <3> QED
      BY <3>2, <3>3, <3>4 DEF OwnerNamed
  <2>3. FollowsSome'
    BY <1>5 DEF FollowsSome, OwnerNamed, SessionHasMode, FollowsOrdered, TryGpu, GpuFree,
       InGpu
  <2>4. PidOfLatest'
    BY <1>5 DEF PidOfLatest, ControlExclusive, SessionHasMode, FollowsOrdered, TryGpu,
       GpuFree, InGpu
  <2>5. ExitRecorded'
    BY <1>5 DEF ExitRecorded, ControlExclusive, SessionHasMode, LogNamed, JobsSound, TryGpu,
       GpuFree, InGpu
  <2>6. DeadSeen'
    BY <1>5 DEF DeadSeen, ControlExclusive, SessionHasMode, TryGpu, GpuFree, InGpu
  <2>7. LostKnown'
    BY <1>5 DEF LostKnown, Died, SessionsBelong, SessionHasMode, TryGpu, GpuFree, InGpu
  <2>8. VerdictIsLatest'
    BY <1>5 DEF VerdictIsLatest, ControlExclusive, SessionHasMode, TryGpu, GpuFree, InGpu
  <2>9. WholeLogShown'
    BY <1>5 DEF WholeLogShown, SessionsBelong, SessionHasMode, FreshVerdict, Exited, TryGpu,
       GpuFree, InGpu
  <2>10. PrintedSoFar'
    BY <1>5 DEF PrintedSoFar, FollowsOrdered, SessionHasMode, TryGpu, GpuFree, InGpu
  <2> QED
    BY <2>1, <2>2, <2>3, <2>4, <2>5, <2>6, <2>7, <2>8, <2>9, <2>10
<1>6. ASSUME NEW c \in Clients, Busy(c) PROVE LInv'
  <2>1. LogNamed'
    BY <1>6 DEF LogNamed, SessionHasMode, JobsSound, Busy, StartSucceeds, StartFails, Return
  <2>2. OwnerNamed'
    BY <1>6 DEF OwnerNamed, HoldsGpu, SlotKept, ControlExclusive, SessionHasMode, JobsSound,
       Busy, StartSucceeds, StartFails, Return
  <2>3. FollowsSome'
    BY <1>6 DEF FollowsSome, OwnerNamed, SessionHasMode, FollowsOrdered, Busy,
       StartSucceeds, StartFails, Return
  <2>4. PidOfLatest'
    BY <1>6 DEF PidOfLatest, ControlExclusive, SessionHasMode, FollowsOrdered, Busy,
       StartSucceeds, StartFails, Return
  <2>5. ExitRecorded'
    BY <1>6 DEF ExitRecorded, ControlExclusive, SessionHasMode, LogNamed, JobsSound, Busy,
       StartSucceeds, StartFails, Return
  <2>6. DeadSeen'
    BY <1>6 DEF DeadSeen, ControlExclusive, SessionHasMode, Busy, StartSucceeds, StartFails,
       Return
  <2>7. LostKnown'
    BY <1>6 DEF LostKnown, Died, SessionsBelong, SessionHasMode, Busy, StartSucceeds,
       StartFails, Return
  <2>8. VerdictIsLatest'
    BY <1>6 DEF VerdictIsLatest, ControlExclusive, SessionHasMode, Busy, StartSucceeds,
       StartFails, Return
  <2>9. WholeLogShown'
    BY <1>6 DEF WholeLogShown, SessionsBelong, SessionHasMode, FreshVerdict, Exited, Busy,
       StartSucceeds, StartFails, Return
  <2>10. PrintedSoFar'
    <3>1. /\ UNCHANGED <<mode, shown, printed, logOf, lines>>
          /\ \A d \in Clients \ {c} : pc'[d] = pc[d] /\ follows'[d] = follows[d]
          /\ \/ pc'[c] = pc[c] /\ follows'[c] = follows[c]
             \/ pc[c] = "starting" /\ pc'[c] # "starting"
      BY <1>6 DEF Busy, StartSucceeds, StartFails, Return
    <3>2. pc[c] = "starting" => shown[c] = 0 /\ printed[c] = <<>>
      BY DEF PrintedSoFar
    <3>3. mode[c] \in Modes
      BY <1>6 DEF Busy, SessionHasMode
    <3>4. follows'[c] # NoJob => lines[follows'[c]] >= 0
      BY <1>6, <3>3 DEF Busy, StartSucceeds, StartFails
    <3>5. \A j \in Jobs : Log(j, 0) = <<>>
      BY DEF Log
    <3>6. follows'[c] # NoJob => follows'[c] \in Jobs
      BY <1>6, <3>3 DEF Busy, StartSucceeds, StartFails
    <3> QED
      BY <3>1, <3>2, <3>4, <3>5, <3>6 DEF PrintedSoFar
  <2> QED
    BY <2>1, <2>2, <2>3, <2>4, <2>5, <2>6, <2>7, <2>8, <2>9, <2>10
<1>7. ASSUME NEW c \in Clients, SetMode(c) PROVE LInv'
  <2>1. LogNamed'
    BY <1>7 DEF LogNamed, SessionHasMode, JobsSound, SetMode
  <2>2. OwnerNamed'
    BY <1>7 DEF OwnerNamed, HoldsGpu, SlotKept, ControlExclusive, SessionHasMode, JobsSound,
       SetMode
  <2>3. FollowsSome'
    BY <1>7 DEF FollowsSome, OwnerNamed, SessionHasMode, FollowsOrdered, SetMode
  <2>4. PidOfLatest'
    BY <1>7 DEF PidOfLatest, ControlExclusive, SessionHasMode, FollowsOrdered, SetMode
  <2>5. ExitRecorded'
    BY <1>7 DEF ExitRecorded, ControlExclusive, SessionHasMode, LogNamed, JobsSound, SetMode
  <2>6. DeadSeen'
    BY <1>7 DEF DeadSeen, ControlExclusive, SessionHasMode, SetMode
  <2>7. LostKnown'
    BY <1>7 DEF LostKnown, Died, SessionsBelong, SessionHasMode, SetMode
  <2>8. VerdictIsLatest'
    BY <1>7 DEF VerdictIsLatest, ControlExclusive, SessionHasMode, SetMode
  <2>9. WholeLogShown'
    BY <1>7 DEF WholeLogShown, SessionsBelong, SessionHasMode, FreshVerdict, Exited, SetMode
  <2>10. PrintedSoFar'
    BY <1>7 DEF PrintedSoFar, FollowsOrdered, SessionHasMode, SetMode
  <2> QED
    BY <2>1, <2>2, <2>3, <2>4, <2>5, <2>6, <2>7, <2>8, <2>9, <2>10
<1>8. ASSUME NEW c \in Clients, RmExit(c) PROVE LInv'
  BY <1>8 DEF RmExit, LogNamed, OwnerNamed, FollowsSome, PidOfLatest, ExitRecorded,
     DeadSeen, LostKnown, Died, VerdictIsLatest, PrintedSoFar, WholeLogShown, HoldsGpu, SessionHasMode
<1>9. ASSUME NEW c \in Clients, Launch(c) PROVE LInv'
  <2>1. LogNamed'
    BY <1>9 DEF LogNamed, SessionHasMode, JobsSound, Launch
  <2>2. OwnerNamed'
    BY <1>9 DEF OwnerNamed, HoldsGpu, SlotKept, ControlExclusive, SessionHasMode, JobsSound,
       Launch
  <2>3. FollowsSome'
    BY <1>9 DEF FollowsSome, OwnerNamed, SessionHasMode, FollowsOrdered, Launch
  <2>4. PidOfLatest'
    BY <1>9 DEF PidOfLatest, ControlExclusive, SessionHasMode, FollowsOrdered, Launch
  <2>5. ExitRecorded'
    BY <1>9 DEF ExitRecorded, ControlExclusive, SessionHasMode, LogNamed, JobsSound, Launch
  <2>6. DeadSeen'
    BY <1>9 DEF DeadSeen, ControlExclusive, SessionHasMode, Launch
  <2>7. LostKnown'
    <3>1. \A i \in Jobs : phase[i] = "killed" => phase'[i] = "killed" /\ jobMode'[i] = jobMode[i]
      BY <1>9 DEF Launch, JobsSound
    <3>2. UNCHANGED <<result, pc, status, mode, follows, reboots>>
      BY <1>9 DEF Launch
    <3>3. \A d \in Clients : remote'[d] = "pollTail" => remote[d] = "pollTail"
      BY <1>9 DEF Launch
    <3>4. \A d \in Clients : Died(d) => Died(d)'
      BY <3>1, <3>2 DEF Died
    <3> QED
      BY <3>2, <3>3, <3>4 DEF LostKnown
  <2>8. VerdictIsLatest'
    BY <1>9 DEF VerdictIsLatest, ControlExclusive, SessionHasMode, Launch
  <2>9. WholeLogShown'
    BY <1>9 DEF WholeLogShown, SessionsBelong, SessionHasMode, FreshVerdict, Exited, Launch
  <2>10. PrintedSoFar'
    <3>1. /\ UNCHANGED <<pc, mode, shown, printed, follows, lines>>
          /\ logOf' = [logOf EXCEPT ![mode[c]] = started + 1]
      BY <1>9 DEF Launch
    <3>2. ASSUME NEW d \in Clients, follows[d] # NoJob
          PROVE  mode[d] \in Modes /\ follows[d] \in Int /\ follows[d] <= started
      <4>1. mode[d] \in Modes /\ follows[d] <= logOf[mode[d]]
        BY <3>2 DEF FollowsOrdered, SessionHasMode
      <4>2. logOf[mode[d]] <= started /\ logOf[mode[d]] \in Int /\ follows[d] \in Int
        BY <4>1 DEF FollowsOrdered
      <4> QED
        BY <4>1, <4>2
    <3>3. \A d \in Clients : follows[d] # NoJob /\ logOf'[mode[d]] = follows[d] =>
            logOf[mode[d]] = follows[d]
      BY <3>1, <3>2
    <3> QED
      BY <3>1, <3>3 DEF PrintedSoFar
  <2> QED
    BY <2>1, <2>2, <2>3, <2>4, <2>5, <2>6, <2>7, <2>8, <2>9, <2>10
<1>10. ASSUME NEW c \in Clients, WritePid(c) PROVE LInv'
  <2>1. LogNamed'
    BY <1>10 DEF LogNamed, SessionHasMode, JobsSound, WritePid, StartSucceeds
  <2>2. OwnerNamed'
    BY <1>10 DEF OwnerNamed, HoldsGpu, SlotKept, ControlExclusive, SessionHasMode,
       JobsSound, WritePid, StartSucceeds
  <2>3. FollowsSome'
    BY <1>10 DEF FollowsSome, OwnerNamed, SessionHasMode, FollowsOrdered, WritePid,
       StartSucceeds
  <2>4. PidOfLatest'
    BY <1>10 DEF PidOfLatest, ControlExclusive, SessionHasMode, FollowsOrdered, WritePid,
       StartSucceeds
  <2>5. ExitRecorded'
    BY <1>10 DEF ExitRecorded, ControlExclusive, SessionHasMode, LogNamed, JobsSound,
       WritePid, StartSucceeds
  <2>6. DeadSeen'
    <3>1. \A d \in Clients : remote'[d] = "pollRecheck" => remote[d] = "pollRecheck"
      BY <1>10 DEF WritePid, StartSucceeds
    <3> QED
      BY <1>10, <3>1 DEF WritePid, DeadSeen
  <2>7. LostKnown'
    BY <1>10 DEF LostKnown, Died, SessionsBelong, SessionHasMode, WritePid, StartSucceeds
  <2>8. VerdictIsLatest'
    BY <1>10 DEF VerdictIsLatest, ControlExclusive, SessionHasMode, WritePid, StartSucceeds
  <2>9. WholeLogShown'
    <3>1. /\ UNCHANGED <<result, verdictOf, printed, lines>>
          /\ \A d \in Clients \ {c} : follows'[d] = follows[d]
          /\ pc[c] = "starting" \/ follows'[c] = follows[c]
      BY <1>10 DEF WritePid, StartSucceeds
    <3>2. pc[c] = "starting" => result[c] \notin {"success", "failed"}
      BY DEF SessionsBelong
    <3> QED
      BY <3>1, <3>2 DEF WholeLogShown
  <2>10. PrintedSoFar'
    <3>1. /\ UNCHANGED <<mode, shown, printed, logOf, lines>>
          /\ \A d \in Clients \ {c} : pc'[d] = pc[d] /\ follows'[d] = follows[d]
          /\ \/ pc'[c] = pc[c] /\ follows'[c] = follows[c]
             \/ pc[c] = "starting" /\ pc'[c] # "starting" /\ follows'[c] = started
      BY <1>10 DEF WritePid, StartSucceeds
    <3>2. pc[c] = "starting" => shown[c] = 0 /\ printed[c] = <<>>
      BY DEF PrintedSoFar
    <3>3. started \in Jobs /\ lines[started] >= 0
      BY <1>10 DEF WritePid, FollowsSome
    <3>4. Log(started, 0) = <<>>
      BY DEF Log
    <3> QED
      BY <3>1, <3>2, <3>3, <3>4 DEF PrintedSoFar
  <2> QED
    BY <2>1, <2>2, <2>3, <2>4, <2>5, <2>6, <2>7, <2>8, <2>9, <2>10
<1>11. ASSUME NEW c \in Clients, PollExit(c) PROVE LInv'
  BY <1>11 DEF PollExit, PollGoto, LogNamed, OwnerNamed, FollowsSome, PidOfLatest,
     ExitRecorded,
     DeadSeen, LostKnown, Died, VerdictIsLatest, PrintedSoFar, WholeLogShown, HoldsGpu, SessionHasMode
<1>12. ASSUME NEW c \in Clients, PollAlive(c) PROVE LInv'
  <2>1. LogNamed'
    BY <1>12 DEF LogNamed, SessionHasMode, JobsSound, PollAlive, PollGoto
  <2>2. OwnerNamed'
    BY <1>12 DEF OwnerNamed, HoldsGpu, SlotKept, ControlExclusive, SessionHasMode,
       JobsSound, PollAlive, PollGoto
  <2>3. FollowsSome'
    BY <1>12 DEF FollowsSome, OwnerNamed, SessionHasMode, FollowsOrdered, PollAlive, PollGoto
  <2>4. PidOfLatest'
    BY <1>12 DEF PidOfLatest, ControlExclusive, SessionHasMode, FollowsOrdered, PollAlive,
       PollGoto
  <2>5. ExitRecorded'
    BY <1>12 DEF ExitRecorded, ControlExclusive, SessionHasMode, LogNamed, JobsSound,
       PollAlive, PollGoto
  <2>6. DeadSeen'
    <3>1. ASSUME remote'[c] = "pollRecheck", reboots = 0
          PROVE  phase[logOf[mode[c]]] \in {"ended", "killed"}
      <4>1. remote[c] = "pollAlive" /\ pc[c] = "polling" /\ mode[c] \in Modes
        BY <1>12 DEF PollAlive, SessionsBelong, SessionHasMode
      <4>2. pidFile[mode[c]] = logOf[mode[c]]
        BY <3>1, <4>1 DEF PidOfLatest, ControlExclusive
      <4>3. logOf[mode[c]] # NoJob /\ logOf[mode[c]] \in Jobs
        BY <4>1 DEF FollowsSome, FollowsOrdered
      <4>4. phase[logOf[mode[c]]] # "unborn"
        BY <4>1, <4>3 DEF LogNamed
      <4>5. ~PidAnswers(pidFile[mode[c]])
        BY <1>12, <3>1 DEF PollAlive, PollGoto
      <4> QED
        BY <4>2, <4>3, <4>4, <4>5 DEF PidAnswers
    <3>2. UNCHANGED <<mode, logOf, phase, reboots>>
      BY <1>12 DEF PollAlive
    <3>3. \A d \in Clients \ {c} : remote'[d] = remote[d]
      BY <1>12 DEF PollAlive, PollGoto
    <3> QED
      BY <3>1, <3>2, <3>3 DEF DeadSeen
  <2>7. LostKnown'
    <3>1. /\ UNCHANGED <<result, pc, mode, follows, reboots, phase, jobMode>>
          /\ status'[c] # "lost"
          /\ \A d \in Clients \ {c} : remote'[d] = remote[d] /\ status'[d] = status[d]
      BY <1>12 DEF PollAlive, PollGoto
    <3> QED
      BY <3>1 DEF LostKnown, Died
  <2>8. VerdictIsLatest'
    <3>1. /\ UNCHANGED <<verdictOf, mode, logOf>>
          /\ remote'[c] = "pollTail" => status'[c] \in {"running", "lost"}
          /\ \A d \in Clients \ {c} : remote'[d] = remote[d] /\ status'[d] = status[d]
      BY <1>12 DEF PollAlive, PollGoto
    <3> QED
      BY <3>1 DEF VerdictIsLatest
  <2>9. WholeLogShown'
    BY <1>12 DEF WholeLogShown, SessionsBelong, SessionHasMode, FreshVerdict, Exited,
       PollAlive, PollGoto
  <2>10. PrintedSoFar'
    BY <1>12 DEF PrintedSoFar, FollowsOrdered, SessionHasMode, PollAlive, PollGoto
  <2> QED
    BY <2>1, <2>2, <2>3, <2>4, <2>5, <2>6, <2>7, <2>8, <2>9, <2>10
<1>13. ASSUME NEW c \in Clients, PollRecheck(c) PROVE LInv'
  <2>1. LogNamed'
    BY <1>13 DEF LogNamed, SessionHasMode, JobsSound, PollRecheck, PollGoto
  <2>2. OwnerNamed'
    BY <1>13 DEF OwnerNamed, HoldsGpu, SlotKept, ControlExclusive, SessionHasMode,
       JobsSound, PollRecheck, PollGoto
  <2>3. FollowsSome'
    BY <1>13 DEF FollowsSome, OwnerNamed, SessionHasMode, FollowsOrdered, PollRecheck,
       PollGoto
  <2>4. PidOfLatest'
    BY <1>13 DEF PidOfLatest, ControlExclusive, SessionHasMode, FollowsOrdered, PollRecheck,
       PollGoto
  <2>5. ExitRecorded'
    BY <1>13 DEF ExitRecorded, ControlExclusive, SessionHasMode, LogNamed, JobsSound,
       PollRecheck, PollGoto
  <2>6. DeadSeen'
    BY <1>13 DEF DeadSeen, ControlExclusive, SessionHasMode, PollRecheck, PollGoto
  <2>7. LostKnown'
    <3>1. /\ UNCHANGED <<result, pc, mode, follows, reboots, phase, jobMode>>
          /\ \A d \in Clients \ {c} : remote'[d] = remote[d] /\ status'[d] = status[d]
      BY <1>13 DEF PollRecheck, PollGoto
    <3>2. ASSUME status'[c] = "lost" PROVE Died(c)
      <4>1. remote[c] = "pollRecheck" /\ pc[c] = "polling" /\ mode[c] \in Modes
        BY <1>13 DEF PollRecheck, SessionsBelong, SessionHasMode
      <4>2. exitFile[mode[c]] = "absent"
        BY <1>13, <3>2 DEF PollRecheck, PollGoto
      <4>3. follows[c] # NoJob /\ logOf[mode[c]] \in Jobs /\ logOf[mode[c]] >= follows[c]
        BY <4>1 DEF FollowsSome, FollowsOrdered
      <4>4. ASSUME reboots = 0 PROVE phase[logOf[mode[c]]] = "killed"
        <5>1. \A d \in Clients : remote[d] # "launch"
          BY <4>1 DEF ControlExclusive
        <5>2. \A m \in Modes : logOf[m] # NoJob /\ phase[logOf[m]] = "ended" => exitFile[m] # "absent"
          BY <4>4, <5>1 DEF ExitRecorded
        <5>3. ~(reboots > 0)
          BY <4>4
        <5>4. phase[logOf[mode[c]]] \in {"ended", "killed"}
          BY <4>1, <5>3 DEF DeadSeen
        <5> QED
          BY <4>1, <4>2, <4>3, <5>2, <5>4
      <4>5. reboots \in Nat
        OBVIOUS
      <4>6. jobMode[logOf[mode[c]]] = mode[c]
        BY <4>1, <4>3 DEF LogNamed
      <4> QED
        BY <4>3, <4>4, <4>5, <4>6 DEF Died
    <3>3. \A d \in Clients : Died(d)' = Died(d)
      BY <3>1 DEF Died
    <3> QED
      BY <3>1, <3>2, <3>3 DEF LostKnown
  <2>8. VerdictIsLatest'
    <3>1. /\ UNCHANGED <<verdictOf, mode, logOf>>
          /\ remote'[c] = "pollTail" => status'[c] \in {"running", "lost"}
          /\ \A d \in Clients \ {c} : remote'[d] = remote[d] /\ status'[d] = status[d]
      BY <1>13 DEF PollRecheck, PollGoto
    <3> QED
      BY <3>1 DEF VerdictIsLatest
  <2>9. WholeLogShown'
    BY <1>13 DEF WholeLogShown, SessionsBelong, SessionHasMode, FreshVerdict, Exited,
       PollRecheck, PollGoto
  <2>10. PrintedSoFar'
    BY <1>13 DEF PrintedSoFar, FollowsOrdered, SessionHasMode, PollRecheck, PollGoto
  <2> QED
    BY <2>1, <2>2, <2>3, <2>4, <2>5, <2>6, <2>7, <2>8, <2>9, <2>10
<1>14. ASSUME NEW c \in Clients, PollCat(c) PROVE LInv'
  <2>1. LogNamed'
    BY <1>14 DEF LogNamed, SessionHasMode, JobsSound, PollCat, PollGoto
  <2>2. OwnerNamed'
    BY <1>14 DEF OwnerNamed, HoldsGpu, SlotKept, ControlExclusive, SessionHasMode,
       JobsSound, PollCat, PollGoto
  <2>3. FollowsSome'
    BY <1>14 DEF FollowsSome, OwnerNamed, SessionHasMode, FollowsOrdered, PollCat, PollGoto
  <2>4. PidOfLatest'
    BY <1>14 DEF PidOfLatest, ControlExclusive, SessionHasMode, FollowsOrdered, PollCat,
       PollGoto
  <2>5. ExitRecorded'
    BY <1>14 DEF ExitRecorded, ControlExclusive, SessionHasMode, LogNamed, JobsSound,
       PollCat, PollGoto
  <2>6. DeadSeen'
    BY <1>14 DEF DeadSeen, ControlExclusive, SessionHasMode, PollCat, PollGoto
  <2>7. LostKnown'
    <3>1. mode[c] \in Modes
      BY <1>14 DEF PollCat, SessionsBelong, SessionHasMode
    <3>2. /\ UNCHANGED <<result, pc, mode, follows, reboots, phase, jobMode>>
          /\ status'[c] # "lost"
          /\ \A d \in Clients \ {c} : remote'[d] = remote[d] /\ status'[d] = status[d]
      BY <1>14, <3>1 DEF PollCat, PollGoto
    <3> QED
      BY <3>2 DEF LostKnown, Died
  <2>8. VerdictIsLatest'
    BY <1>14 DEF VerdictIsLatest, ControlExclusive, SessionHasMode, PollCat, PollGoto
  <2>9. WholeLogShown'
    BY <1>14 DEF WholeLogShown, SessionsBelong, SessionHasMode, FreshVerdict, Exited,
       PollCat, PollGoto
  <2>10. PrintedSoFar'
    BY <1>14 DEF PrintedSoFar, FollowsOrdered, SessionHasMode, PollCat, PollGoto
  <2> QED
    BY <2>1, <2>2, <2>3, <2>4, <2>5, <2>6, <2>7, <2>8, <2>9, <2>10
<1>15. ASSUME NEW c \in Clients, PollTail(c) PROVE LInv'
  <2>1. LogNamed'
    BY <1>15 DEF LogNamed, SessionHasMode, JobsSound, PollTail, PollGoto, Act, Return
  <2>2. OwnerNamed'
    BY <1>15 DEF OwnerNamed, HoldsGpu, SlotKept, ControlExclusive, SessionHasMode,
       JobsSound, PollTail, PollGoto, Act, Return
  <2>3. FollowsSome'
    <3>1. pc[c] = "polling"
      BY <1>15 DEF PollTail, SessionsBelong
    <3>2. /\ UNCHANGED <<follows, started>>
          /\ remote' = [remote EXCEPT ![c] = "none"]
          /\ \A d \in Clients \ {c} : pc'[d] = pc[d]
      BY <1>15 DEF PollTail, PollGoto, Act, Return
    <3> QED
      BY <3>1, <3>2 DEF FollowsSome
  <2>4. PidOfLatest'
    BY <1>15 DEF PidOfLatest, ControlExclusive, SessionHasMode, FollowsOrdered, PollTail,
       PollGoto, Return
  <2>5. ExitRecorded'
    BY <1>15 DEF ExitRecorded, ControlExclusive, SessionHasMode, LogNamed, JobsSound,
       PollTail, PollGoto, Act, Return
  <2>6. DeadSeen'
    BY <1>15 DEF DeadSeen, ControlExclusive, SessionHasMode, PollTail, PollGoto, Act, Return
  <2>7. LostKnown'
    BY <1>15 DEF LostKnown, Died, SessionsBelong, SessionHasMode, PollTail, PollGoto, Act, Return
  <2>8. VerdictIsLatest'
    BY <1>15 DEF VerdictIsLatest, ControlExclusive, SessionHasMode, PollTail, PollGoto, Act, Return
  <2>9. WholeLogShown'
    <3>1. /\ UNCHANGED <<follows, verdictOf, lines>>
          /\ \A d \in Clients \ {c} : result'[d] = result[d] /\ printed'[d] = printed[d]
      BY <1>15 DEF PollTail, PrintNew, Act, Return
    <3>2. ASSUME result'[c] \in {"success", "failed"}, verdictOf[c] = follows[c]
          PROVE  printed'[c] = Log(follows[c], lines[follows[c]])
      <4>1. remote[c] = "pollTail" /\ pc[c] = "polling" /\ mode[c] \in Modes /\ PrintNew(c)
        BY <1>15 DEF PollTail, SessionsBelong, SessionHasMode
      <4>2. follows[c] # NoJob
        BY <4>1 DEF FollowsSome
      <4>3. status[c] \notin {"running", "lost"}
        <5>1. result[c] \notin {"success", "failed"}
          BY <4>1 DEF SessionsBelong
        <5> QED
          BY <1>15, <3>2, <5>1 DEF PollTail, Act, Return
      <4>4. verdictOf[c] = logOf[mode[c]]
        BY <4>1, <4>3 DEF VerdictIsLatest
      <4> QED
        BY <3>2, <4>1, <4>2, <4>4, CatchesUp
    <3> QED
      BY <3>1, <3>2 DEF WholeLogShown
  <2>10. PrintedSoFar'
    <3>1. /\ UNCHANGED <<mode, follows, logOf, lines>>
          /\ \A d \in Clients \ {c} : pc'[d] = pc[d] /\ shown'[d] = shown[d] /\ printed'[d] = printed[d]
      BY <1>15 DEF PollTail, PrintNew, Act, Return
    <3>2. pc[c] = "polling" /\ mode[c] \in Modes /\ PrintNew(c)
      BY <1>15 DEF PollTail, SessionsBelong, SessionHasMode
    <3>3. follows[c] # NoJob
      BY <3>2 DEF FollowsSome
    <3>4. pc'[c] # "starting"
      BY <1>15 DEF PollTail, Act, Return
    <3>5. logOf[mode[c]] = follows[c] => /\ shown'[c] = lines[follows[c]]
                                         /\ printed'[c] = Log(follows[c], lines[follows[c]])
      BY <3>2, <3>3, CatchesUp
    <3>6. lines[follows[c]] \in Nat
      BY <3>3
    <3> QED
      BY <3>1, <3>3, <3>4, <3>5, <3>6 DEF PrintedSoFar
  <2> QED
    BY <2>1, <2>2, <2>3, <2>4, <2>5, <2>6, <2>7, <2>8, <2>9, <2>10
<1>16. ASSUME NEW j \in Jobs, Write(j) PROVE LInv'
  <2>1. LogNamed'
    BY <1>16 DEF LogNamed, SessionHasMode, JobsSound, Write
  <2>2. OwnerNamed'
    BY <1>16 DEF OwnerNamed, HoldsGpu, SlotKept, ControlExclusive, SessionHasMode,
       JobsSound, Write
  <2>3. FollowsSome'
    BY <1>16 DEF FollowsSome, OwnerNamed, SessionHasMode, FollowsOrdered, Write
  <2>4. PidOfLatest'
    BY <1>16 DEF PidOfLatest, ControlExclusive, SessionHasMode, FollowsOrdered, Write
  <2>5. ExitRecorded'
    BY <1>16 DEF ExitRecorded, ControlExclusive, SessionHasMode, LogNamed, JobsSound, Write
  <2>6. DeadSeen'
    BY <1>16 DEF DeadSeen, ControlExclusive, SessionHasMode, Write
  <2>7. LostKnown'
    BY <1>16 DEF LostKnown, Died, SessionsBelong, SessionHasMode, Write
  <2>8. VerdictIsLatest'
    BY <1>16 DEF VerdictIsLatest, ControlExclusive, SessionHasMode, Write
  <2>9. WholeLogShown'
    BY <1>16 DEF WholeLogShown, SessionsBelong, SessionHasMode, FreshVerdict, Exited, Write
  <2>10. PrintedSoFar'
    <3>1. UNCHANGED <<pc, mode, shown, printed, follows, logOf>>
      BY <1>16 DEF Write
    <3>2. \A i \in Jobs : lines[i] <= lines'[i]
      BY <1>16 DEF Write
    <3>3. \A d \in Clients : follows[d] # NoJob => follows[d] \in Jobs
      OBVIOUS
    <3>4. \A i \in Jobs : lines[i] \in Nat /\ lines'[i] \in Nat
      BY <1>16 DEF Write
    <3> QED
      BY <3>1, <3>2, <3>3, <3>4 DEF PrintedSoFar
  <2> QED
    BY <2>1, <2>2, <2>3, <2>4, <2>5, <2>6, <2>7, <2>8, <2>9, <2>10
<1>17. ASSUME NEW j \in Jobs, Finish(j) PROVE LInv'
  BY <1>17 DEF Finish, LogNamed, OwnerNamed, FollowsSome, PidOfLatest, ExitRecorded,
     DeadSeen, LostKnown, Died, VerdictIsLatest, PrintedSoFar, WholeLogShown, HoldsGpu, SessionHasMode
<1>18. ASSUME NEW j \in Jobs, CreateExit(j) PROVE LInv'
  BY <1>18 DEF CreateExit, LogNamed, OwnerNamed, FollowsSome, PidOfLatest, ExitRecorded,
     DeadSeen, LostKnown, Died, VerdictIsLatest, PrintedSoFar, WholeLogShown, HoldsGpu, SessionHasMode
<1>19. ASSUME NEW j \in Jobs, WriteExit(j) PROVE LInv'
  <2>1. LogNamed'
    BY <1>19 DEF LogNamed, SessionHasMode, JobsSound, WriteExit
  <2>2. OwnerNamed'
    BY <1>19 DEF OwnerNamed, HoldsGpu, SlotKept, ControlExclusive, SessionHasMode,
       JobsSound, WriteExit
  <2>3. FollowsSome'
    BY <1>19 DEF FollowsSome, OwnerNamed, SessionHasMode, FollowsOrdered, WriteExit
  <2>4. PidOfLatest'
    BY <1>19 DEF PidOfLatest, ControlExclusive, SessionHasMode, FollowsOrdered, WriteExit
  <2>5. ExitRecorded'
    <3>1. jobMode[j] \in Modes /\ logOf[jobMode[j]] = j /\ code[j] \in {"ok", "fail"}
      BY <1>19 DEF WriteExit, WriterOwnsFiles, OwnerNamed, HoldsGpu, JobsSound
    <3>2. /\ UNCHANGED <<reboots, logOf, remote, mode>>
          /\ exitFile' = [exitFile EXCEPT ![jobMode[j]] = code[j]]
          /\ phase' = [phase EXCEPT ![j] = "recorded"]
      BY <1>19 DEF WriteExit
    <3> QED
      BY <3>1, <3>2 DEF ExitRecorded, LogNamed
  <2>6. DeadSeen'
    BY <1>19 DEF DeadSeen, ControlExclusive, SessionHasMode, WriteExit
  <2>7. LostKnown'
    BY <1>19 DEF LostKnown, Died, SessionsBelong, SessionHasMode, WriteExit
  <2>8. VerdictIsLatest'
    BY <1>19 DEF VerdictIsLatest, ControlExclusive, SessionHasMode, WriteExit
  <2>9. WholeLogShown'
    BY <1>19 DEF WholeLogShown, SessionsBelong, SessionHasMode, FreshVerdict, Exited,
       WriteExit
  <2>10. PrintedSoFar'
    BY <1>19 DEF PrintedSoFar, FollowsOrdered, SessionHasMode, WriteExit
  <2> QED
    BY <2>1, <2>2, <2>3, <2>4, <2>5, <2>6, <2>7, <2>8, <2>9, <2>10
<1>20. ASSUME NEW j \in Jobs, WrapperExits(j) PROVE LInv'
  BY <1>20 DEF WrapperExits, LogNamed, OwnerNamed, FollowsSome, PidOfLatest, ExitRecorded,
     DeadSeen, LostKnown, Died, VerdictIsLatest, PrintedSoFar, WholeLogShown, HoldsGpu, SessionHasMode
<1>21. ASSUME NEW j \in Jobs, KillWrapper(j) PROVE LInv'
  BY <1>21 DEF KillWrapper, LogNamed, OwnerNamed, FollowsSome, PidOfLatest, ExitRecorded,
     DeadSeen, LostKnown, Died, VerdictIsLatest, PrintedSoFar, WholeLogShown, HoldsGpu, SessionHasMode
<1>22. ASSUME NEW j \in Jobs, LeftoverDies(j) PROVE LInv'
  BY <1>22 DEF LeftoverDies, LogNamed, OwnerNamed, FollowsSome, PidOfLatest, ExitRecorded,
     DeadSeen, LostKnown, Died, VerdictIsLatest, PrintedSoFar, WholeLogShown, HoldsGpu, SessionHasMode
<1>23. ASSUME NEW j \in Jobs, Reap(j) PROVE LInv'
  BY <1>23 DEF Reap, LogNamed, OwnerNamed, FollowsSome, PidOfLatest, ExitRecorded,
     DeadSeen, LostKnown, Died, VerdictIsLatest, PrintedSoFar, WholeLogShown, HoldsGpu, SessionHasMode
<1>24. CASE Reboot
  <2>1. LogNamed'
    BY <1>24 DEF LogNamed, SessionHasMode, JobsSound, Reboot, Disconnect
  <2>2. OwnerNamed'
    BY <1>24 DEF OwnerNamed, HoldsGpu, SlotKept, ControlExclusive, SessionHasMode,
       JobsSound, Reboot, Disconnect
  <2>3. FollowsSome'
    BY <1>24 DEF FollowsSome, OwnerNamed, SessionHasMode, FollowsOrdered, Reboot, Disconnect
  <2>4. PidOfLatest'
    BY <1>24 DEF PidOfLatest, ControlExclusive, SessionHasMode, FollowsOrdered, Reboot,
       Disconnect
  <2>5. ExitRecorded'
    BY <1>24 DEF ExitRecorded, ControlExclusive, SessionHasMode, LogNamed, JobsSound,
       Reboot, Disconnect
  <2>6. DeadSeen'
    BY <1>24 DEF DeadSeen, ControlExclusive, SessionHasMode, Reboot, Disconnect
  <2>7. LostKnown'
    BY <1>24 DEF LostKnown, Died, SessionsBelong, SessionHasMode, Reboot, Disconnect
  <2>8. VerdictIsLatest'
    BY <1>24 DEF VerdictIsLatest, ControlExclusive, SessionHasMode, Reboot, Disconnect
  <2>9. WholeLogShown'
    BY <1>24 DEF WholeLogShown, SessionsBelong, SessionHasMode, FreshVerdict, Exited,
       Reboot, Disconnect
  <2>10. PrintedSoFar'
    BY <1>24 DEF PrintedSoFar, FollowsOrdered, SessionHasMode, Reboot, Disconnect
  <2> QED
    BY <2>1, <2>2, <2>3, <2>4, <2>5, <2>6, <2>7, <2>8, <2>9, <2>10
<1>25. CASE UNCHANGED vars
  BY <1>25 DEF vars, LogNamed, OwnerNamed, HoldsGpu, FollowsSome, PidOfLatest,
     ExitRecorded, DeadSeen, LostKnown, Died, VerdictIsLatest, PrintedSoFar, WholeLogShown
<1> QED
  BY <1>1, <1>2, <1>3, <1>4, <1>5, <1>6, <1>7, <1>8, <1>9, <1>10, <1>11, <1>12, <1>13,
     <1>14, <1>15, <1>16, <1>17, <1>18, <1>19, <1>20, <1>21, <1>22, <1>23, <1>24, <1>25
     DEF Next, Session, Wrapper, AllDone

\* The pod's state is as typed in every reachable state.
THEOREM TypeCorrect == Spec => []TypeOK
<1>1. IInv => TypeOK
  BY DEF IInv
<1> QED
  BY <1>1, InitIInv, NextIInv, PTL DEF Spec

\* No two jobs ever hold gpu.lock, whatever connections drop, wrappers die or
\* servers outlive them.
THEOREM OneJob == Spec => []OneJobAtATime
<1>1. IInv => OneJobAtATime
  BY DEF IInv
<1> QED
  BY <1>1, InitIInv, NextIInv, PTL DEF Spec

\* A wrapper that can still record its exit owns the files of its mode.
THEOREM WritersOwn == Spec => []WriterOwnsFiles
<1>1. IInv => WriterOwnsFiles
  BY DEF IInv
<1> QED
  BY <1>1, InitIInv, NextIInv, PTL DEF Spec

\* A client that reports success reports the exit of a job that exited 0, of
\* its mode, and no older than the one it started or reattached to.
THEOREM VerdictsAreFresh == Spec => []FreshVerdict
<1>1. Init => VInv
  BY BoundsAssumption DEF Init, VInv, SessionsBelong, ExitOfLatest, FollowsOrdered,
     PollHoldsVerdict, FreshVerdict, PollSteps
<1>2. VInv => FreshVerdict
  BY DEF VInv
<1> QED
  BY <1>1, <1>2, InitIInv, NextIInv, NextVInv, PTL DEF Spec

\* What holds of the empty pod, and for ever after.
LEMMA LInvAlways == Spec => []LInv
<1>1. Init => VInv
  BY BoundsAssumption DEF Init, VInv, SessionsBelong, ExitOfLatest, FollowsOrdered,
     PollHoldsVerdict, FreshVerdict, PollSteps
<1>2. Init => LInv
  BY DEF Init, LInv, LogNamed, OwnerNamed, HoldsGpu, WrapperRuns, FollowsSome, PidOfLatest,
     ExitRecorded, DeadSeen, LostKnown, VerdictIsLatest, PrintedSoFar, WholeLogShown
<1> QED
  BY <1>1, <1>2, InitIInv, NextIInv, NextVInv, NextLInv, PTL DEF Spec

\* A client that reports the exit of the job it started or reattached to has
\* printed every line of its log, once and in order.
THEOREM WholeLogsShown == Spec => []WholeLogShown
<1>1. LInv => WholeLogShown
  BY DEF LInv
<1> QED
  BY <1>1, LInvAlways, PTL

\* A client says that a job died without recording an exit only of a job that
\* did, unless the pod was rebooted.
THEOREM LostAreDead == Spec => []LostIsDead
<1>1. LInv => LostIsDead
  BY DEF LInv, LostKnown, LostIsDead, Died
<1> QED
  BY <1>1, LInvAlways, PTL

\* The job control implements GpuSlot: every step grants the GPU to a new job
\* when it is free, takes it from the job that has it, or leaves it alone.
LEMMA SlotStep == IInv /\ [Next]_vars => [Slot!Next]_<<{j \in Jobs : HoldsGpu(j)}, started>>
<1> DEFINE Owners == {j \in Jobs : HoldsGpu(j)}
<1> SUFFICES ASSUME IInv, [Next]_vars
             PROVE  [Slot!Next]_<<Owners, started>>
  OBVIOUS
<1> USE BoundsAssumption DEF IInv, sessionVars, fileVars, jobVars, clientVars
<1>0. ASSUME UNCHANGED <<phase, leftover, started>> PROVE UNCHANGED <<Owners, started>>
  BY <1>0 DEF HoldsGpu
<1>1. ASSUME UNCHANGED started,
             \A j \in Jobs : HoldsGpu(j)' => HoldsGpu(j)
      PROVE  [Slot!Next]_<<Owners, started>>
  <2>1. Owners' \subseteq Owners
    BY <1>1
  <2>2. CASE Owners' = Owners
    BY <2>2, <1>1
  <2>3. CASE Owners' # Owners
    <3>1. Owners # {} /\ Owners' = {}
      BY <2>1, <2>3 DEF OneJobAtATime
    <3> QED
      BY <3>1, <1>1 DEF Slot!Next, Slot!Release
  <2> QED
    BY <2>2, <2>3
<1>2. ASSUME NEW c \in Clients, Launch(c) PROVE [Slot!Next]_<<Owners, started>>
  <2>1. started' = started + 1 /\ started' \in Jobs
    BY <1>2 DEF Launch, TypeOK
  <2>2. Owners = {}
    BY <1>2 DEF Launch, SlotKept
  <2>3. phase' = [phase EXCEPT ![started'] = "running"] /\ leftover' = leftover
    BY <1>2, <2>1 DEF Launch
  <2>4. Owners' = {started'}
    BY <2>1, <2>2, <2>3 DEF TypeOK, HoldsGpu, WrapperRuns
  <2> QED
    BY <2>1, <2>2, <2>4 DEF Slot!Next, Slot!Grant
<1>3. ASSUME NEW j \in Jobs, Finish(j) \/ CreateExit(j) \/ WriteExit(j) \/ WrapperExits(j)
                              \/ KillWrapper(j) \/ LeftoverDies(j)
      PROVE  [Slot!Next]_<<Owners, started>>
  <2>1. UNCHANGED started
    BY <1>3 DEF Finish, CreateExit, WriteExit, WrapperExits, KillWrapper, LeftoverDies
  <2>2. HoldsGpu(j)
    BY <1>3 DEF Finish, CreateExit, WriteExit, WrapperExits, KillWrapper, LeftoverDies,
       HoldsGpu, WrapperRuns
  <2>3. \A i \in Jobs \ {j} : phase'[i] = phase[i] /\ leftover'[i] = leftover[i]
    BY <1>3 DEF Finish, CreateExit, WriteExit, WrapperExits, KillWrapper, LeftoverDies, TypeOK
  <2> QED
    BY <1>1, <2>1, <2>2, <2>3 DEF HoldsGpu
<1>4. ASSUME Reboot PROVE [Slot!Next]_<<Owners, started>>
  <2>1. \A j \in Jobs : ~HoldsGpu(j)'
    BY <1>4 DEF Reboot, HoldsGpu, WrapperRuns, TypeOK
  <2>2. UNCHANGED started
    BY <1>4 DEF Reboot
  <2> QED
    BY <1>1, <2>1, <2>2
<1>5. CASE \E c \in Clients, m \in Modes : Invoke(c, m)
  BY <1>0, <1>5 DEF Invoke
<1>6. CASE \E c \in Clients : OpenPoll(c) \/ SshLost(c) \/ Session(c)
  BY <1>0, <1>2, <1>6 DEF OpenPoll, SshLost, Session, TakeControl, TryGpu, Busy, SetMode,
     RmExit, WritePid, PollExit, PollAlive, PollRecheck, PollCat, PollTail
<1>7. CASE \E j \in Jobs : Write(j) \/ Reap(j)
  BY <1>0, <1>7 DEF Write, Reap
<1>8. CASE UNCHANGED vars
  BY <1>0, <1>8 DEF vars
<1> QED
  BY <1>3, <1>4, <1>5, <1>6, <1>7, <1>8 DEF Next, Wrapper, AllDone

\* The GPU goes from job to job as a lease, for any number of clients, jobs and
\* reboots.
THEOREM RefinesGpuSlot == Spec => ImplementsGpuSlot
<1>1. Init => Slot!Init
  BY DEF Init, Slot!Init, HoldsGpu, WrapperRuns
<1> QED
  BY <1>1, InitIInv, NextIInv, SlotStep, PTL DEF Spec, ImplementsGpuSlot, Slot!Spec
=============================================================================
