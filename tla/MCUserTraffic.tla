---------------------------- MODULE MCUserTraffic ----------------------------
(***************************************************************************)
(* A user who is added, deleted and added again, so that a meter is        *)
(* replaced while a connection still holds it; one chunk each way.  That   *)
(* records are not attributed to another user is proved for any number of  *)
(* users (UserTrafficProofs).                                              *)
(***************************************************************************)
EXTENDS UserTraffic
=============================================================================
