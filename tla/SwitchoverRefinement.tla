----------------------- MODULE SwitchoverRefinement -----------------------
(***************************************************************************)
(* Switchover implements SwitchoverContract.                               *)
(***************************************************************************)
EXTENDS Switchover

Marks == [s \in Sites |-> [mode |-> spec[s].mode, retry |-> spec[s].retry]]

\* The run of a site as the contract sees it.
ContractRun == [s \in Sites |->
    IF h[s].pc = "idle" THEN "none"
    ELSE IF h[s].prev = "active" /\ h[s].req.mode # "active"
         THEN IF OwnBackup(s) THEN "saved" ELSE "leaving"
         ELSE "other"]

Contract == INSTANCE SwitchoverContract
                WITH asked <- Marks, status <- dr, run <- ContractRun

\* Every step of the handlers, daemons, users and faults is a step of the
\* contract or leaves what the observer sees unchanged.
ImplementsContract == Contract!Spec
=============================================================================
