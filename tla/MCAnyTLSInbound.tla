--------------------------- MODULE MCAnyTLSInbound ---------------------------
(* A node with two ports, two host names or none, bad ports and another type. *)
EXTENDS AnyTLSInbound

MCNodeInfo ==
  [type : {"anytls"}, port : {1, 2}, host : {"a", "b", ""}]
    \cup {[type |-> "anytls", port |-> 65536, host |-> "a"],
          [type |-> "anytls", port |-> 0, host |-> "a"],
          [type |-> "naive", port |-> 1, host |-> "a"]}

MCConfig == [port |-> 1, sni |-> "c"]
=============================================================================
