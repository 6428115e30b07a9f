---------------------------- MODULE MCLifecycle ----------------------------
(***************************************************************************)
(* Instances of Lifecycle for TLC.                                         *)
(***************************************************************************)
EXTENDS Lifecycle

CONSTANTS a, b  \* service names

OneRetry == [s \in Service |-> 1]
NoPolicy == [s \in Service |-> {}]
OnFailure == [s \in Service |-> {"on-failure"}]
NoEdges == [e \in {} |-> {}]
OnceStarted ==
  <<b, a>> :> [condition |-> "started", allow_skipped |-> FALSE,
               exit_code |-> {}]

R(id, kind, scope, all) ==
  [id |-> id, kind |-> kind, scope |-> scope, all |-> all, states |-> {}]

StartOnly == {R(1, "start", <<a>>, TRUE)}
StartStop == {R(1, "start", <<a>>, TRUE), R(2, "stop", <<a>>, TRUE)}
StartRestart == {R(1, "start", <<a>>, TRUE), R(2, "restart", <<a>>, TRUE)}
EveryKind ==
  {R(1, "start", <<a>>, TRUE), R(2, "start", <<a>>, FALSE),
   R(3, "stop", <<a>>, TRUE), R(4, "watch", <<a>>, FALSE),
   [R(5, "restart", <<a>>, FALSE) EXCEPT !.states = {"Exited", "Failed"}]}
StartRestartStop ==
  {R(1, "start", <<a, b>>, TRUE), R(2, "restart", <<a>>, FALSE),
   R(3, "stop", <<a, b>>, TRUE)}

=============================================================================
