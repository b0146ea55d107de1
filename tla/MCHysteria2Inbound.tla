------------------------- MODULE MCHysteria2Inbound -------------------------
(* A node with two ports, two host names or none, and ports too small or large. *)
EXTENDS Hysteria2Inbound

MCNodeInfo ==
  [type : {"hysteria2"}, port : {1, 2}, host : {"a", "b"}]
    \cup {[type |-> "hysteria2", port |-> 1, host |-> ""],
          [type |-> "hysteria2", port |-> 65536, host |-> "a"],
          [type |-> "hysteria2", port |-> 0, host |-> "a"]}

MCConfig == [port |-> 1, sni |-> "c"]
=============================================================================
