------------------------------ MODULE MCKafka ------------------------------
(* Model-checking instance of Kafka: a broker and a ZooKeeper node, whose     *)
(* exporters may answer or not.                                              *)
EXTENDS Kafka, TLC

CONSTANTS k1, z1

Symmetry == Permutations(Passes)

TwoRoles == (k1 :> "broker") @@ (z1 :> "zookeeper")

Line(cats, ms) == [at |-> 0, matches |-> cats, ms |-> ms]
Urp   == Line({"urp_detected"}, 0)
Shrink == Line({"isr_shrink", "urp_detected"}, 0)
Lost  == Line({"offline_partition"}, 0)
Stall == Line({"zk_fsync_stall"}, 14800)
Gone  == [Line({"zk_session_expired", "zk_connection_drop"}, 0) EXCEPT !.at = None]

FewLines == [broker |-> {Urp}, zookeeper |-> {Stall, Gone}]
FewScrapes == [broker |-> {<<>>, [urp |-> 0, offline |-> 0, controllers |-> 1, idle |-> 200]},
               zookeeper |-> {<<>>, [zkAvg |-> 20]}]
Plain == Line({}, 0)
FewTexts == {<<Lost, Urp, Shrink>>, <<Stall, Gone>>, <<Plain>>}

Calm == [metrics |-> [max |-> 40, full |-> 0], alerts |-> {}]
Swaps == [NoHost EXCEPT !["mem"] = 800, !["swap"] = 30, !["cpu"] = 300]
Swapping == [at |-> 0, seen |-> 0, row |-> Swaps, day |-> [Swaps EXCEPT !["swap"] = 40, !["cpu"] = 200]]
OneGc == {Calm}
OneHost == {Swapping}

=============================================================================
