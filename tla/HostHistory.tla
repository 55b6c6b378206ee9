----------------------------- MODULE HostHistory -----------------------------
(***************************************************************************)
(* What the host-metric history promises its readers: for every instance   *)
(* and time the fields reported last, however reports overlap, repeat or   *)
(* come late, until retention drops whole buckets.  SarStore keeps this    *)
(* promise with a table of samples and a table of rollups of them.         *)
(***************************************************************************)
EXTENDS HostSamples

VARIABLE obs    \* instance -> what is known of each time

Init == obs = [i \in Instances |-> Empty]

Report(i, report) == obs' = [obs EXCEPT ![i] = Overlay(@, report)]

Expire(cut) ==
  obs' = [i \in Instances |-> [t \in Times |-> IF Floor(t) < cut THEN NoSample ELSE obs[i][t]]]

\* The observations of an old identity join those of the new one.
Rename(old, new) ==
  /\ old # new
  /\ obs' = [obs EXCEPT ![new] = Overlay(@, obs[old]), ![old] = Empty]

Forget(i) == obs' = [obs EXCEPT ![i] = Empty]

Next ==
  \/ \E i \in Instances : \E report \in Reports : Report(i, report)
  \/ \E cut \in Times : Expire(cut)
  \/ \E old, new \in Instances : Rename(old, new)
  \/ \E i \in Instances : Forget(i)

Spec == Init /\ [][Next]_obs

=============================================================================
