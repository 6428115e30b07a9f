----------------------------- MODULE MCLogStore -----------------------------
(***************************************************************************)
(* Instances of LogStore for TLC.                                          *)
(***************************************************************************)
EXTENDS LogStore

CONSTANT a  \* a service name

Line(id, hook, timestamp) ==
  [id |-> id, service |-> a, hook |-> hook, timestamp |-> timestamp]

(* An expired row left from an earlier run, a line and a hook's line.      *)
NoRows == << >>
OneRow == <<Line(1, FALSE, 1)>>
OneLine == {Line(2, FALSE, 5)}
TwoLinesAndRow == Range(OneRow) \cup {Line(2, FALSE, 5), Line(3, TRUE, 6)}
ClearHooks == {[op |-> "ClearServiceHooks", service |-> a]}
NoClear == {}

=============================================================================
