--------------------------- MODULE MCNaiveInbound ---------------------------
(* A node with two ports, two host names or none, and ports too small or large. *)
EXTENDS NaiveInbound

MCNodeInfo ==
  [type : {"naive"}, port : {1, 2}, host : {"a", "b"}]
    \cup {[type |-> "naive", port |-> 1, host |-> ""],
          [type |-> "naive", port |-> 65536, host |-> "a"],
          [type |-> "naive", port |-> 0, host |-> "a"]}

MCConfig == [port |-> 1, sni |-> "c"]
=============================================================================
