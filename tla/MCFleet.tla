------------------------------ MODULE MCFleet ------------------------------
(* Model-checking instance of Fleet: two interchangeable brokers of one      *)
(* cluster; batches that are clean, hold only skipped records or show a      *)
(* Full GC; host reports that are calm or lack a signal.                     *)
EXTENDS Fleet, TLC

CONSTANTS b1, b2

TwoPlaces == (b1 :> <<"NAM", "PROD", "c1", "brokers">>) @@ (b2 :> <<"NAM", "PROD", "c1", "brokers">>)
TwoRoles == (b1 :> "broker") @@ (b2 :> "broker")

Pause(ms, full, after) == [ms |-> ms, full |-> full, after |-> after]
Batch(stw, span, bad) == [stw |-> stw, span |-> span, events |-> 4, bad |-> bad, heapMax |-> 1000]

Clean   == Batch(<<Pause(20, FALSE, 400), Pause(40, FALSE, 900)>>, 120, FALSE)
FullGc  == Batch(<<Pause(20, FALSE, 400), Pause(300, TRUE, 300)>>, 120, FALSE)
BadOnly == Batch(<<>>, 0, TRUE)

FewBatches == {Clean, FullGc, BadOnly}

Calm(cpu) == [c \in HostColumns |-> IF c = "cpu" THEN cpu ELSE IF c = "tx" THEN 100 ELSE 5]
Sample(dur, val) == [dur |-> dur, val |-> val]

FewReports == {<<Sample(60, Calm(200)), Sample(120, Calm(260))>>,
               <<Sample(0, Calm(200)), Sample(0, [Calm(300) EXCEPT !["netUtil"] = None])>>}

Symmetry == Permutations(Instances)

=============================================================================
