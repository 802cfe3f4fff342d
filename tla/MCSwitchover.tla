--------------------------- MODULE MCSwitchover ---------------------------
(* Small instances of Switchover for TLC. *)
EXTENDS SwitchoverRefinement

Wish(mode, noWait) == [mode |-> mode, noWait |-> noWait]

\* The two modes of the documented scheme.
TwoModes == {Wish("active", FALSE), Wish("standby", FALSE)}

\* With the mode left out as well.
TwoModesOrNone == TwoModes \cup {Wish(NoMode, FALSE)}

\* An active site that may do without a restore, and a site switched off.
NoWaitModes == {Wish("active", TRUE), Wish("active", FALSE), Wish("disable", FALSE)}
=============================================================================
