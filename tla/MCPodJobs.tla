----------------------------- MODULE MCPodJobs -----------------------------
(* Small instances of PodJobs for TLC.                                     *)
EXTENDS PodJobs, TLC

\* Invocations of pod.sh differ only in their name.
ClientSymmetry == Permutations(Clients)
=============================================================================
