----------------------------- MODULE MCSarStore -----------------------------
(* Model-checking instance of SarStore: cpu readings that are corrected     *)
(* and memory readings that complete a sample, one time or all at once.    *)
EXTENDS SarStore, TLC

CONSTANTS Cpu, Mem, Low, High

Only(f, v) == [g \in Fields |-> IF g = f THEN v ELSE None]
OneTime(s, t) == [u \in Times |-> IF u = t THEN s ELSE NoSample]

FewReports ==
  {OneTime(s, t) : s \in {Only(Cpu, Low), Only(Cpu, High), Only(Mem, Low)}, t \in {0, 1}}
    \cup {OneTime(Only(Cpu, Low), 2), [t \in Times |-> Only(Cpu, Low)]}

Symmetry == Permutations(Instances)

=============================================================================
