---------------------------- MODULE MCLifecycle ----------------------------
(***************************************************************************)
(* One reload.  Each of the two panels runs one monitor, and the first     *)
(* one's Execute may fail.  Two worlds keep the instance small: in         *)
(* "monitors" the files agree and stay as they are, and only SIGHUP is     *)
(* sent; in "files" they may lack an inbound that a node names or have one *)
(* that no node names, and are edited once, both signals are sent, and no  *)
(* monitor is scheduled.                                                   *)
(***************************************************************************)
EXTENDS Lifecycle

VARIABLE world

MCTask == {<<1, "node monitor">>, <<2, "node monitor">>}

MCExecuteFails == {<<1, "node monitor">>}

MCConfigs ==
  { [server |-> {"a"},      panel |-> {"a"}],
    [server |-> {"a", "b"}, panel |-> {"a"}],
    [server |-> {"a"},      panel |-> {"a", "b"}],
    [server |-> {"b"},      panel |-> {"a"}] }

MCInit ==
  /\ LifeInit
  /\ \/ world = "monitors" /\ disk = [server |-> {"a"}, panel |-> {"a"}]
     \/ world = "files"

Files == world = "files" /\ EditFiles

Monitors(k) ==
  world = "monitors" /\ \E t \in Thread : Launch(k, t) \/ TaskStep(k, t)

MCNext ==
  /\ \/ Main \/ Cleanup \/ CloseMonitor \/ Files
     \/ Send("hup")
     \/ world = "files" /\ Send("term")
     \/ \E b \in Box : HelperCancels(b) \/ HelperTimeout(b)
     \/ \E k \in Task : Monitors(k)
  /\ UNCHANGED world

MCVars == <<lifeVars, world>>

MCSpec ==
  /\ MCInit /\ [][MCNext]_MCVars
  /\ MainFairness
  /\ \A k \in Task : WF_lifeVars(Monitors(k))

=============================================================================
