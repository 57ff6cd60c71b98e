-------------------------- MODULE AtomicInspection --------------------------
(* What `vramfit MODEL --revision BRANCH' promises of its evidence: one    *)
(* commit of the branch is picked while the call runs, and the answer is   *)
(* either an error or the judgement of that commit's files, as if they had *)
(* been read in one step however the branch moves.                         *)
EXTENDS Integers, Sequences

CONSTANTS Judge(_, _), Error, Pending

VARIABLES
  commits,  \* the branch's history, as the contents of its commits
  head,     \* the commit the branch points to
  request,  \* what the command was asked
  picked,   \* the commit the call answers for, 0 before it is picked
  answer

vars == <<commits, head, request, picked, answer>>

Init == head = 1 /\ picked = 0 /\ answer = Pending

Push ==
  /\ head < Len(commits)
  /\ head' = head + 1
  /\ UNCHANGED <<commits, request, picked, answer>>

Pick ==
  /\ picked = 0 /\ answer = Pending
  /\ picked' = head
  /\ UNCHANGED <<commits, request, head, answer>>

Answer ==
  /\ answer = Pending
  /\ \/ answer' = Error
     \/ picked # 0 /\ answer' = Judge(commits[picked], request)
  /\ UNCHANGED <<commits, request, head, picked>>

Next == Push \/ Pick \/ Answer

Spec == Init /\ [][Next]_vars
=============================================================================
