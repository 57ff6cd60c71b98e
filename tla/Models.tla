------------------------------- MODULE Models -------------------------------
(* The values src/vramfit/models.py passes from the adapters to the memory *)
(* budget.                                                                 *)
EXTENDS Integers

CONSTANT Unknown  \* None, as a parameter count and all that follows from it

ASSUME UnknownAssumption == Unknown \notin Int \union BOOLEAN

\* What DecoderSpec.__post_init__ requires of the counts and of their relation.
ValidDecoderSpec(s) ==
  /\ \A f \in {"layers", "hidden", "heads", "kvHeads", "headDim", "context"} : s[f] > 0
  /\ s.heads % s.kvHeads = 0

\* A ParameterEstimate with a count names the evidence it came from; one
\* without is explained by a warning.
KnownParameters(count, source, warnings) ==
  [count |-> count, source |-> source, warnings |-> warnings]

UnknownParameters == [count |-> Unknown, source |-> "unknown", warnings |-> {"explained"}]
=============================================================================
