------------------------------ MODULE GpuSlot ------------------------------
(* What gpu.lock promises whoever runs work on the pod's one GPU: a lease  *)
(* that is granted only when its last owner has let go of it, and never    *)
(* comes back to an owner that has.  Owners are numbered as they are       *)
(* granted it.                                                             *)
EXTENDS Naturals

VARIABLES
  owners,   \* who holds the lease
  granted   \* how often it was granted

Init == owners = {} /\ granted = 0

Grant ==
  /\ owners = {}
  /\ granted' = granted + 1
  /\ owners' = {granted'}

Release ==
  /\ owners # {} /\ owners' = {}
  /\ UNCHANGED granted

Next == Grant \/ Release

Spec == Init /\ [][Next]_<<owners, granted>>
=============================================================================
