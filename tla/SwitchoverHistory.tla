------------------------- MODULE SwitchoverHistory -------------------------
(***************************************************************************)
(* Switchover with a history variable: how many backups there were when    *)
(* the site last served clients in the active mode.  It relates several    *)
(* runs of the handler, which no variable of the program does.             *)
(***************************************************************************)
EXTENDS Switchover

VARIABLE served    \* Len(backups) then; -1 for a site that never served

Serves(s) == /\ dr[s] = [mode |-> "active", status |-> "done"]
             /\ spec[s].mode = "active"

HistoryInit == Init /\ served = [s \in Sites |-> -1]

HistoryNext ==
    /\ Next
    /\ served' = [s \in Sites |-> IF Serves(s) THEN Len(backups) ELSE served[s]]

HistorySpec == HistoryInit /\ [][HistoryNext]_<<vars, served>>

\* disasterRecovery.md: "RabbitMQ backup daemon performs full backup before it
\* will be down (switchover from `active` to `standby`)" and "The DR feature
\* supports retry if operation has not been finished successfully": a site that
\* served and is then reported to be down successfully has a complete full
\* backup made since, over however many runs of the handler that took.
StandbyIsSaved ==
    \A s \in Sites :
        /\ dr[s].status = "done" /\ dr[s].mode \in {"standby", "disable"}
        /\ served[s] >= 0
        => \E i \in (served[s] + 1)..Len(backups) :
             backups[i].region = s /\ backups[i].full /\ backups[i].state = "ok"
=============================================================================
