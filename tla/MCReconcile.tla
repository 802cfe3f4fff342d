---------------------------- MODULE MCReconcile ----------------------------
(* Small instances of Reconcile for TLC. *)
EXTENDS Reconcile

Plain == [replicas |-> 2, claims |-> 1, reboot |-> TRUE, clean |-> FALSE,
          tests |-> FALSE, valid |-> TRUE]

\* Rolling reboots of two pods.
Rolling == {Plain}

\* Rolling reboots, with one pod more or less.
Scaling == {Plain, [Plain EXCEPT !.replicas = 1]}

\* Rolling reboots of three pods, and one pod less.
ScalingOfThree == {[Plain EXCEPT !.replicas = 3], Plain}

\* The ways through the handler of the CR: a rolling reboot, no reboot but one
\* pod less and a StatefulSet to be created anew, cleanup, and a configuration
\* that is refused at creation and only tested later.
AllPaths ==
    {Plain, [Plain EXCEPT !.replicas = 1, !.reboot = FALSE, !.claims = 2],
     [Plain EXCEPT !.clean = TRUE], [Plain EXCEPT !.tests = TRUE, !.valid = FALSE]}

\* The runs begin with one change of the CR that is not handled yet: a new
\* namespace, or a cluster of two pods that users have changed.
Changed ==
    /\ \/ Fresh
       \/ \E s \in Shapes :
            /\ Settled(Plain)
            /\ desired = [handled EXCEPT !.cr = [gen |-> 2, text |-> 2, shape |-> s]]
    /\ h = [p \in Handlers |-> Idle] /\ updates = 1 /\ faults = 0

ChangedSpec == Changed /\ [][Next]_vars
=============================================================================
