-------------------------------- MODULE Deps --------------------------------
(***************************************************************************)
(* Service statuses, restart policies and dependency conditions: the pure  *)
(* operators of state.rs, config/restart.rs and deps.rs.  They hold no     *)
(* state; ConfigActor and Lifecycle evaluate them on the actor's state.    *)
(***************************************************************************)
EXTENDS Integers

----------------------------------------------------------------------------
(* Statuses (state.rs).                                                    *)

ServiceStatus ==
  {"Stopped", "Waiting", "Starting", "Running", "Stopping", "Restarting",
   "Failed", "Healthy", "Unhealthy", "Exited", "Killed", "Skipped"}

is_running(status) == status \in {"Running", "Healthy", "Unhealthy"}

is_active(status) ==
  status \notin {"Stopped", "Failed", "Exited", "Killed", "Skipped"}

(* The statuses in which service_startup() still returns the claim.        *)
StartupStatus == {"Waiting", "Starting", "Restarting"}

----------------------------------------------------------------------------
(* Exit codes.  Option<i32> is an integer: a process exit code is 0..255   *)
(* on Unix, so -1 stands for None, which is also what unwrap_or(-1) gives. *)

NoExitCode == -1

----------------------------------------------------------------------------
(* Restart policy: a set of the three flags of RestartPolicy.              *)

RestartPolicy == SUBSET {"on-failure", "on-success", "on-unhealthy"}

should_restart_on_exit(policy, code) ==
  IF code = 0 THEN "on-success" \in policy ELSE "on-failure" \in policy

restart_follows(status, code, policy) ==
  status # "Failed" /\ should_restart_on_exit(policy, code)

----------------------------------------------------------------------------
(* Dependency conditions.  A dependency state is a record with at least    *)
(* the fields status, exit_code and was_healthy; a dependency edge is      *)
(* [condition, allow_skipped, exit_code], its exit_code a set of codes.    *)

DependencyCondition ==
  {"started", "healthy", "completed_successfully", "unhealthy", "failed",
   "stopped"}

(* An empty exit-code filter matches every code.                           *)
filter_matches(filter, code) == filter = {} \/ code \in filter

is_transient_satisfaction(dep, policy) ==
  /\ dep.status \in {"Exited", "Killed"}
  /\ restart_follows(dep.status, dep.exit_code, policy)

(* is_condition_met without a restart configuration, as the waiting task   *)
(* calls it (check_dependency_satisfied).                                  *)
check_dependency_satisfied(dep, edge) ==
  IF dep.status = "Skipped" THEN edge.allow_skipped
  ELSE CASE edge.condition = "started" -> is_running(dep.status)
         [] edge.condition = "healthy" -> dep.status = "Healthy"
         [] edge.condition = "completed_successfully" ->
              dep.status \in {"Stopped", "Exited"} /\ dep.exit_code = 0
         [] edge.condition = "unhealthy" ->
              dep.status = "Unhealthy" /\ dep.was_healthy
         [] edge.condition = "failed" ->
              /\ \/ dep.status \in {"Failed", "Killed"}
                 \/ dep.status = "Exited" /\ dep.exit_code # 0
              /\ filter_matches(edge.exit_code, dep.exit_code)
         [] edge.condition = "stopped" ->
              /\ dep.status \in {"Stopped", "Exited", "Failed", "Killed"}
              /\ filter_matches(edge.exit_code, dep.exit_code)

(* is_condition_met with the dependency's restart configuration, as the    *)
(* actor calls it (is_condition_satisfied_sync).                           *)
is_condition_met(dep, edge, policy) ==
  /\ check_dependency_satisfied(dep, edge)
  /\ ~is_transient_satisfaction(dep, policy)

is_dependency_permanently_unsatisfied(dep, edge, policy) ==
  IF dep.status = "Skipped" THEN ~edge.allow_skipped
  ELSE /\ dep.status \in {"Stopped", "Exited", "Failed", "Killed"}
       /\ ~check_dependency_satisfied(dep, edge)
       /\ \/ dep.status = "Stopped"
          \/ ~restart_follows(dep.status, dep.exit_code, policy)

is_condition_unreachable_by_policy(condition, policy) ==
  \/ condition = "failed" /\ "on-failure" \in policy
  \/ condition = "stopped" /\ {"on-failure", "on-success"} \subseteq policy
  \/ condition = "completed_successfully" /\ "on-success" \in policy

(* Edges is a function from <<service, dependency>> pairs to edges.        *)
is_failure_handled(failed, Edges) ==
  \E e \in DOMAIN Edges :
     e[2] = failed /\ Edges[e].condition \in {"failed", "stopped"}

=============================================================================
