---------------------------- MODULE BillingLedger ----------------------------
(***************************************************************************)
(* What traffic accounting promises the panel's operator and its users: a  *)
(* chunk of bytes is charged at most once, after it was transferred, and   *)
(* to the user who transferred it.  It may also never be charged.          *)
(***************************************************************************)
EXTENDS Naturals

CONSTANTS UID, Chunk, nil

VARIABLES
  usedBy,  \* who transferred a chunk; nil before the transfer
  charges  \* how often each user was charged for a chunk

vars == <<usedBy, charges>>

Init ==
  /\ usedBy = [c \in Chunk |-> nil]
  /\ charges = [c \in Chunk |-> [u \in UID |-> 0]]

\* A user transfers a chunk.
Use(c, u) ==
  /\ usedBy[c] = nil
  /\ usedBy' = [usedBy EXCEPT ![c] = u]
  /\ UNCHANGED charges

\* One report charges any number of chunks, none of them charged before.
Charge(C) ==
  /\ \A c \in C : usedBy[c] # nil /\ charges[c] = [u \in UID |-> 0]
  /\ charges' = [c \in Chunk |-> IF c \in C
                   THEN [u \in UID |-> IF u = usedBy[c] THEN 1 ELSE 0]
                   ELSE charges[c]]
  /\ UNCHANGED usedBy

Next == \/ \E c \in Chunk, u \in UID : Use(c, u)
        \/ \E C \in SUBSET Chunk : Charge(C)

Spec == Init /\ [][Next]_vars
=============================================================================
