--------------------------- MODULE MCMeshControl ---------------------------
(***************************************************************************)
(* A relay "us" that has IPv4 alone, or IPv6 and IPv4 behind NAT, and a    *)
(* registry that lists one or two other relays, changes the key, and       *)
(* sometimes answers with a broken entry or without a valid key.           *)
(***************************************************************************)
EXTENDS MeshControl

Dual(v4, v6) == [ipv4 |-> v4, ipv6 |-> v6]
Node(pin, v4, v6) == [pin |-> pin, ip |-> Dual(v4, v6)]

MCPinned == Dual("auto", "auto")
MCLocalView == {Dual("us4", NoAddr), Dual(Private, "us6")}
MCNatAddr == Dual("nat4", "nat6")

Us == Node("us", "us4", "us6")

MCContent == {"first", "later", "broken entry", "no key"}
MCResponse ==
  [c \in MCContent |->
     CASE c = "first" ->
            [status |-> TRUE, psk |-> "k1", nodes |-> {Us, Node("b", "b4", "b6")}]
       [] c = "later" ->
            [status |-> TRUE, psk |-> "k2",
             nodes |-> {Us, Node("b", NoAddr, "b6"), Node("c", "c4", NoAddr)}]
       [] c = "broken entry" ->
            [status |-> TRUE, psk |-> "k1", nodes |-> {Us, Node("c", "bad address", NoAddr)}]
       [] c = "no key" ->
            [status |-> TRUE, psk |-> "bad key", nodes |-> {Us}]]
=============================================================================
