------------------------ MODULE SwitchoverContract ------------------------
(***************************************************************************)
(* What an observer of the custom resource may rely on during a switchover *)
(* (the site manager polls the mode and the status): a request is started  *)
(* by setting `running' with its mode, it ends as done or failed with that *)
(* mode, and a run that leaves the active mode ends as done only once a    *)
(* full backup of the site is complete.  Switchover implements this.       *)
(***************************************************************************)
EXTENDS Naturals

CONSTANT Sites

VARIABLES
    asked,     \* the mode and the retry mark requested
    handled,   \* those of the request that was completed last
    status,    \* the mode and the status reported
    run        \* "none", or the run in progress: "leaving" the active mode
               \* without or with a backup ("saved"), or any "other"

vars == <<asked, handled, status, run>>

NoMode  == "none"
AnyMode == {"active", "standby", "disable", NoMode}
Mark    == [mode : AnyMode, retry : Nat]

Init ==
    /\ asked \in [Sites -> Mark]
    /\ handled \in [Sites -> Mark]
    /\ status \in [Sites -> {[mode |-> NoMode, status |-> "none"],
                             [mode |-> "active", status |-> "done"]}]
    /\ run = [s \in Sites |-> "none"]

Ask(s) ==
    /\ asked'[s] \in Mark
    /\ asked' = [asked EXCEPT ![s] = asked'[s]]
    /\ UNCHANGED <<handled, status, run>>

Open(s) == run[s] = "none" /\ asked[s] # handled[s]

Start(s) ==
    /\ Open(s) /\ asked[s].mode # NoMode
    /\ status' = [status EXCEPT ![s] = [mode |-> asked[s].mode, status |-> "running"]]
    /\ run' = [run EXCEPT ![s] =
         IF status[s].mode = "active" /\ asked[s].mode # "active"
         THEN "leaving" ELSE "other"]
    /\ UNCHANGED <<asked, handled>>

Reject(s) ==
    /\ Open(s) /\ asked[s].mode = NoMode
    /\ handled' = [handled EXCEPT ![s] = asked[s]]
    /\ UNCHANGED <<asked, status, run>>

Save(s) ==
    /\ run[s] = "leaving"
    /\ run' = [run EXCEPT ![s] = "saved"]
    /\ UNCHANGED <<asked, handled, status>>

\* The run ends with a result; the request stays open if nobody recorded that.
Finish(s, result) ==
    /\ run[s] \in IF result = "done" THEN {"saved", "other"}
                                     ELSE {"leaving", "saved", "other"}
    /\ status[s].status = "running"
    /\ status' = [status EXCEPT ![s].status = result]
    /\ \/ /\ handled'[s] \in {mark \in Mark : mark.mode = status[s].mode}
          /\ handled' = [handled EXCEPT ![s] = handled'[s]]
       \/ UNCHANGED handled
    /\ run' = [run EXCEPT ![s] = "none"]
    /\ UNCHANGED asked

\* The run is given up; the request stays open.
Abandon(s) ==
    /\ run[s] # "none"
    /\ run' = [run EXCEPT ![s] = "none"]
    /\ UNCHANGED <<asked, handled, status>>

Next == \E s \in Sites :
    \/ Ask(s) \/ Start(s) \/ Reject(s) \/ Save(s) \/ Abandon(s)
    \/ Finish(s, "done") \/ Finish(s, "failed")

Spec == Init /\ [][Next]_vars
=============================================================================
