----------------------------- MODULE Lifecycle -----------------------------
(***************************************************************************)
(* The orchestrator's tasks around one ConfigActor: start, stop, restart   *)
(* and file-change requests, the startups they launch, the processes, one  *)
(* monitor task per process, and one handle_exit task per exit event.      *)
(*                                                                         *)
(* A step is what a task does up to and including its next command to the  *)
(* actor; every command is an action of ConfigActor, so each behaviour     *)
(* here is one of ConfigActor.  Hooks, resolution and delays are the gaps  *)
(* between two steps.                                                      *)
(***************************************************************************)
EXTENDS ConfigActor, SequencesExt

CONSTANTS
  Request,   \* records [id, kind, scope, all, states]: see RequestKind
  MaxRequests,  \* bound: requests that arrive
  MaxExits,  \* bound: processes that end without being stopped
  MayFail,   \* whether resolution, hooks, spawning or waits may fail
  Cgroup     \* containment: cgroup v2 rather than process groups

RequestKind == {"start", "stop", "restart", "watch"}

(* scope lists services in start order; all tells a request without        *)
(* service names; states are the --states of a restart.                    *)
ASSUME RequestAssumption ==
  \A r \in Request :
     /\ r.kind \in RequestKind
     /\ r.scope \in Seq(Service)
     /\ r.scope # << >>
     /\ r.all \in BOOLEAN
     /\ r.states \subseteq RestartState
ASSUME BoundsAssumption ==
  /\ MaxRequests \in Nat /\ MaxExits \in Nat
  /\ MayFail \in BOOLEAN /\ Cgroup \in BOOLEAN

VARIABLES
  req,     \* req[r]: the task of request r
  launch,  \* launch[r, s]: the startup of service s that r claimed
  proc,    \* proc[i]: process instance i with its monitor and exit handler
  exits    \* how many processes ended without being stopped

taskVars == <<req, launch, proc, exits>>
vars == <<actorVars, taskVars>>

Launch == Request \X Service

(* A request: where it is, the services left in its current phase, the     *)
(* instance it is stopping or spawned; for stop the pass and whether it    *)
(* stopped a service in it; for restart the services that were running.    *)
RequestState ==
  [pc: {"idle", "raise", "claim", "lower", "join", "check", "unhook",
        "halt", "stopping", "take", "await", "cancel", "stopped", "pid",
        "cleanup", "respawn", "post", "failed", "done"},
   todo: Seq(Service), inst: Nat, pass: Nat, stopped: BOOLEAN,
   picked: SUBSET Service]

LaunchState ==
  [pc: {"none", "claimed", "wait", "settled", "enter", "resolve", "hook", "spawn",
        "post", "aux", "skip", "fail", "failed", "done"},
   startup: Nat \cup {NoStartup}, met: SUBSET Service, inst: Nat]

(* tx is the shutdown sender: held, used for a request, or dropped; gate   *)
(* is the registration by the spawning task up to SpawnGate::release.      *)
Process ==
  [service: Service, alive: BOOLEAN, code: Int,
   tx: {"held", "requested", "dropped"},
   gate: {"forked", "stored", "released"},
   monitor: {"watching", "gated", "stopping", "done"},
   handler: {"none", "new", "hook", "settle", "restart", "backoff",
             "spawned", "rerun", "cleanup", "errored", "done"},
   inst: Nat]  \* the instance its exit handler spawned

----------------------------------------------------------------------------
(* Processes.                                                              *)

DropHandle(p, i) ==
  IF i \in DOMAIN p /\ p[i].tx = "held" THEN [p EXCEPT ![i].tx = "dropped"]
  ELSE p

KillService(p, s) ==
  [i \in DOMAIN p |->
     IF p[i].service = s /\ p[i].alive
     THEN [p[i] EXCEPT !.alive = FALSE, !.code = NoExitCode] ELSE p[i]]

(* cleanup_service: rmdir fails while processes are left in the cgroup,    *)
(* and then all of them are killed.                                        *)
cleanup_service(p, s) == IF Cgroup THEN KillService(p, s) ELSE p

NewProcess(s) ==
  [service |-> s, alive |-> TRUE, code |-> NoExitCode, tx |-> "held",
   gate |-> "forked", monitor |-> "watching", handler |-> "none", inst |-> 0]

(* Mutant: the new process is not registered with the actor.               *)
spawn_service_unregistered(s) ==
  UNCHANGED actorVars /\ proc' = Append(proc, NewProcess(s))

(* spawn_service: fork, register the instance, start the monitor.          *)
spawn_service(s) ==
  RegisterServiceInstance(s) /\ proc' = Append(proc, NewProcess(s))

(* Mutant: a replaced handle stays alive, its process unreachable.         *)
StoreHandle_leaks(i) ==
  /\ proc[i].gate = "forked"
  /\ StoreProcessHandle(proc[i].service, i)
  /\ proc' = [proc EXCEPT ![i].gate = "stored"]
  /\ UNCHANGED <<req, launch, exits>>

(* The spawning task stores the handle (a handle it replaces is dropped),  *)
(* then publishes Running and releases the gate.                           *)
StoreHandle(i) ==
  /\ proc[i].gate = "forked"
  /\ LET s == proc[i].service
     IN  /\ StoreProcessHandle(s, i)
         /\ proc' = [DropHandle(proc, svc[s].process) EXCEPT
                       ![i].gate = "stored"]
  /\ UNCHANGED <<req, launch, exits>>

(* Mutant: the gate is released without publishing Running.                *)
PublishRunning_silent(i) ==
  /\ proc[i].gate = "stored"
  /\ proc' = [proc EXCEPT ![i].gate = "released"]
  /\ UNCHANGED <<actorVars, req, launch, exits>>

PublishRunning(i) ==
  /\ proc[i].gate = "stored"
  /\ SetServiceStatus(proc[i].service, "Running")
  /\ proc' = [proc EXCEPT ![i].gate = "released"]
  /\ UNCHANGED <<req, launch, exits>>

ProcessExits(i) ==
  /\ proc[i].alive
  /\ exits < MaxExits
  /\ exits' = exits + 1
  /\ \E code \in ExitCode \cup {NoExitCode} :
        proc' = [proc EXCEPT ![i].alive = FALSE, ![i].code = code]
  /\ UNCHANGED <<actorVars, req, launch>>

(* monitor_process: the branch for a process that ended by itself.         *)
MonitorSeesExit(i) ==
  /\ proc[i].monitor = "watching" /\ ~proc[i].alive
  /\ proc' = [proc EXCEPT ![i].monitor = "gated"]
  /\ UNCHANGED <<actorVars, req, launch, exits>>

(* Mutant: no spawn gate.                                                  *)
MonitorReports_ungated(i) ==
  /\ proc[i].monitor = "gated"
  /\ proc' = [proc EXCEPT ![i].monitor = "done", ![i].handler = "new"]
  /\ UNCHANGED <<actorVars, req, launch, exits>>

MonitorReports(i) ==
  /\ proc[i].monitor = "gated" /\ proc[i].gate = "released"
  /\ proc' = [proc EXCEPT ![i].monitor = "done", ![i].handler = "new"]
  /\ UNCHANGED <<actorVars, req, launch, exits>>

(* The branch for a shutdown request or a dropped sender.                  *)
MonitorSeesShutdown(i) ==
  /\ proc[i].monitor = "watching" /\ proc[i].tx # "held"
  /\ proc' = [proc EXCEPT ![i].monitor = "stopping"]
  /\ UNCHANGED <<actorVars, req, launch, exits>>

(* Mutant: SIGKILL does not follow a signal the process ignores.           *)
MonitorStops_no_escalation(i) ==
  /\ proc[i].monitor = "stopping"
  /\ RecordProcessExit(proc[i].service, NoExitCode)
  /\ proc' = DropHandle([proc EXCEPT ![i].monitor = "done"],
                        svc[proc[i].service].process)
  /\ UNCHANGED <<req, launch, exits>>

(* A graceful stop ends the process alone, with any code; a forced one     *)
(* kills whatever the containment reaches.  Recording the exit drops the   *)
(* handle stored for the service, whichever instance it belongs to.        *)
MonitorStops(i) ==
  LET s == proc[i].service
      Stopped(p) == DropHandle([p EXCEPT ![i].alive = FALSE,
                                         ![i].monitor = "done"],
                               svc[s].process)
  IN  /\ proc[i].monitor = "stopping"
      /\ \/ /\ RecordProcessExit(s, NoExitCode)
            /\ proc' = Stopped(cleanup_service(proc, s))
         \/ /\ proc[i].tx = "requested"
            /\ \E code \in ExitCode \cup {NoExitCode} :
                  RecordProcessExit(s, code)
            /\ proc' = Stopped(proc)
      /\ UNCHANGED <<req, launch, exits>>

----------------------------------------------------------------------------
(* handle_exit, run concurrently for every exit event.                     *)

HandlerRecords(i) ==
  /\ proc[i].handler = "new"
  /\ LET s == proc[i].service
     IN  /\ RecordProcessExit(s, proc[i].code)
         /\ proc' = [DropHandle(proc, svc[s].process) EXCEPT
                       ![i].handler = "hook"]
  /\ UNCHANGED <<req, launch, exits>>

(* After the post_exit hook: the guard against stale exit events.          *)
was_actively_running(status) == is_running(status) \/ status = "Starting"

HandlerDecides(i) ==
  /\ proc[i].handler = "hook"
  /\ LET s == proc[i].service
         next == IF ~was_actively_running(svc[s].status) THEN "cleanup"
                 ELSE IF should_restart_on_exit(Policy[s], proc[i].code)
                 THEN "restart" ELSE "settle"
     IN  proc' = [proc EXCEPT ![i].handler = next]
  /\ UNCHANGED <<actorVars, req, launch, exits>>

(* An exit without code was caused by a signal, unless wait() failed: then *)
(* there is neither.                                                       *)
HandlerSettles(i) ==
  /\ proc[i].handler = "settle"
  /\ \/ /\ proc[i].code = NoExitCode
        /\ SetServiceStatus(proc[i].service, "Killed")
     \/ /\ proc[i].code # NoExitCode \/ MayFail
        /\ SetServiceStatus(proc[i].service, "Exited")
  /\ proc' = [proc EXCEPT ![i].handler = "cleanup"]
  /\ UNCHANGED <<req, launch, exits>>

(* handle_exit returns before the cleanup when it cannot create the        *)
(* evaluator for the service's outputs.                                    *)
HandlerCleansUp(i) ==
  /\ proc[i].handler = "cleanup"
  /\ \/ proc' = [cleanup_service(proc, proc[i].service) EXCEPT
                   ![i].handler = "done"]
     \/ MayFail /\ proc' = [proc EXCEPT ![i].handler = "done"]
  /\ UNCHANGED <<actorVars, req, launch, exits>>

HandlerRestarts(i) ==
  /\ proc[i].handler = "restart"
  /\ SetServiceStatus(proc[i].service, "Starting")
  /\ proc' = [proc EXCEPT ![i].handler = "backoff"]
  /\ UNCHANGED <<req, launch, exits>>

(* After backoff and hooks: spawn the next instance.                       *)
HandlerRespawns(i) ==
  /\ proc[i].handler = "backoff"
  /\ RegisterServiceInstance(proc[i].service)
  /\ proc' = Append([proc EXCEPT ![i].handler = "spawned",
                                 ![i].inst = next_service_instance'],
                    NewProcess(proc[i].service))
  /\ UNCHANGED <<req, launch, exits>>

(* Mutant: a spawn that fails leaves the status as it is.                  *)
HandlerAborts_silently(i) ==
  /\ MayFail /\ proc[i].handler = "backoff"
  /\ UNCHANGED actorVars
  /\ \E h \in {"done", "errored"} : proc' = [proc EXCEPT ![i].handler = h]
  /\ UNCHANGED <<req, launch, exits>>

(* The token guard or the spawn fails: Failed.  Re-resolution fails: the   *)
(* error is returned and the status stays as it is.                        *)
HandlerAborts(i) ==
  /\ MayFail /\ proc[i].handler = "backoff"
  /\ \/ /\ SetServiceStatus(proc[i].service, "Failed")
        /\ \E p \in {proc, cleanup_service(proc, proc[i].service)} :
              proc' = [p EXCEPT ![i].handler = "done"]
     \/ /\ UNCHANGED actorVars
        /\ proc' = [proc EXCEPT ![i].handler = "errored"]
  /\ UNCHANGED <<req, launch, exits>>

(* spawn_auxiliary_tasks for instance i of s: a health checker.            *)
spawn_auxiliary_tasks(s, i) ==
  IF s \in HasHealthcheck /\ CanBeginHealthCheck(s, i)
  THEN BeginHealthCheck(s, i) ELSE UNCHANGED actorVars

HandlerPostStart(i) ==
  /\ proc[i].handler = "spawned" /\ proc[proc[i].inst].gate = "released"
  /\ spawn_auxiliary_tasks(proc[i].service, proc[i].inst)
  /\ proc' = [proc EXCEPT ![i].handler = "rerun"]
  /\ UNCHANGED <<req, launch, exits>>

HandlerRepublishes(i) ==
  /\ proc[i].handler = "rerun"
  /\ SetServiceStatus(proc[i].service, "Running")
  /\ proc' = [proc EXCEPT ![i].handler = "done"]
  /\ UNCHANGED <<req, launch, exits>>

(* A result of the health checker of the current session.                  *)
HealthResult(s) ==
  /\ svc[s].session # 0
  /\ svc[s].health_check_failures < Retries[s]
  /\ \E passed \in BOOLEAN : UpdateHealthCheck(s, svc[s].session, passed)
  /\ UNCHANGED taskVars

----------------------------------------------------------------------------
(* Startups: prepare_service_launch and start_service_process for the      *)
(* launch l = <<request, service>>.                                        *)

LaunchTo(l, pc) ==
  launch' = [launch EXCEPT ![l].pc = pc] /\ UNCHANGED <<req, exits>>

(* ensure_service_startup.                                                 *)
Cancelled(l) == ~IsCurrentStartup(l[2], launch[l].startup)

LaunchCancelled(l) ==
  /\ launch[l].pc \in {"wait", "enter", "resolve", "hook"}
  /\ Cancelled(l)
  /\ LaunchTo(l, "done")
  /\ UNCHANGED <<actorVars, proc>>

(* wait_for_dependencies takes one dependency after the other, in an order *)
(* that is fixed by depends_on.                                            *)
Unmet(l) == DependsOn(l[2]) \ launch[l].met
CurrentDependency(l) == CHOOSE d \in Unmet(l) : TRUE

WaitsForDependency(l) ==
  launch[l].pc = "wait" /\ ~Cancelled(l) /\ Unmet(l) # {}

DependencyMet(l, d) ==
  is_condition_met(svc[d], Edges[<<l[2], d>>], Policy[d])

(* Mutant: only the restart policy tells that a condition is out of reach. *)
DependencyHopeless_by_policy(l, d) ==
  /\ is_running(svc[d].status)
  /\ is_condition_unreachable_by_policy(Edges[<<l[2], d>>].condition, Policy[d])

DependencyHopeless(l, d) ==
  LET edge == Edges[<<l[2], d>>]
  IN  /\ ~check_dependency_satisfied(svc[d], edge)
      /\ \/ is_dependency_permanently_unsatisfied(svc[d], edge, Policy[d])
         \/ /\ is_running(svc[d].status)
            /\ is_condition_unreachable_by_policy(edge.condition, Policy[d])

(* The condition is checked on one read of the dependency's state, whether *)
(* it holds only until the dependency restarts on a second one.            *)
LaunchSeesCondition(l) ==
  /\ WaitsForDependency(l)
  /\ LET d == CurrentDependency(l)
     IN  check_dependency_satisfied(svc[d], Edges[<<l[2], d>>])
  /\ LaunchTo(l, "settled")
  /\ UNCHANGED <<actorVars, proc>>

LaunchPassesDependency(l) ==
  LET d == CurrentDependency(l)
      transient == is_transient_satisfaction(svc[d], Policy[d])
  IN  /\ launch[l].pc = "settled"
      /\ launch' = [launch EXCEPT
                       ![l].pc = "wait",
                       ![l].met = IF transient THEN @ ELSE @ \cup {d}]
      /\ UNCHANGED <<actorVars, req, proc, exits>>

LaunchIsHopeless(l) ==
  /\ WaitsForDependency(l)
  /\ DependencyHopeless(l, CurrentDependency(l))
  /\ LaunchTo(l, "skip")
  /\ UNCHANGED <<actorVars, proc>>

(* Mutant: the skipped service keeps its status.                           *)
LaunchSkips_silently(l) ==
  /\ launch[l].pc = "skip"
  /\ LaunchTo(l, "done")
  /\ UNCHANGED <<actorVars, proc>>

LaunchSkips(l) ==
  /\ launch[l].pc = "skip"
  /\ IF Cancelled(l) THEN UNCHANGED actorVars
     ELSE TransitionServiceStartup(l[2], launch[l].startup, "Skipped")
  /\ LaunchTo(l, "done")
  /\ UNCHANGED proc

LaunchDependenciesMet(l) ==
  /\ launch[l].pc = "wait" /\ ~Cancelled(l) /\ Unmet(l) = {}
  /\ LaunchTo(l, "enter")
  /\ UNCHANGED <<actorVars, proc>>

(* Starting for a start, Restarting for the restart of a running service.  *)
StartupStatusOf(l) ==
  IF l[2] \in req[l[1]].picked THEN "Restarting" ELSE "Starting"

LaunchEnters(l) ==
  /\ launch[l].pc = "enter"
  /\ TransitionServiceStartup(l[2], launch[l].startup, StartupStatusOf(l))
  /\ LaunchTo(l, "resolve")
  /\ UNCHANGED proc

(* Resolution succeeded and the startup is still current.                  *)
LaunchResolves(l) ==
  /\ launch[l].pc = "resolve" /\ ~Cancelled(l)
  /\ LaunchTo(l, "hook")
  /\ UNCHANGED <<actorVars, proc>>

(* Mutant: Skipped is set whether or not the startup is still current.     *)
LaunchConditionFalse_unchecked(l) ==
  /\ MayFail /\ l[1].all
  /\ launch[l].pc = "resolve"
  /\ SetServiceStatus(l[2], "Skipped")
  /\ LaunchTo(l, "done")
  /\ UNCHANGED proc

(* The `if` condition is false; named services skip the condition.         *)
LaunchConditionFalse(l) ==
  /\ MayFail /\ l[1].all
  /\ launch[l].pc = "resolve"
  /\ TransitionServiceStartup(l[2], launch[l].startup, "Skipped")
  /\ LaunchTo(l, "done")
  /\ UNCHANGED proc

LaunchErrors(l) ==
  /\ MayFail /\ launch[l].pc \in {"wait", "resolve", "hook", "spawn"}
  /\ launch[l].pc = "wait" => Unmet(l) # {}  \* a dependency timeout
  /\ proc' = IF launch[l].pc = "spawn" THEN cleanup_service(proc, l[2])
             ELSE proc
  /\ LaunchTo(l, "fail")
  /\ UNCHANGED actorVars

(* handle_service_launch_result for an error.                              *)
LaunchFails(l) ==
  /\ launch[l].pc = "fail"
  /\ IF Cancelled(l)
     THEN LaunchTo(l, "done") /\ UNCHANGED actorVars
     ELSE /\ TransitionServiceStartup(l[2], launch[l].startup, "Failed")
          /\ LaunchTo(l, "failed")
  /\ UNCHANGED proc

(* The pre_start hook succeeded; the last check before the spawn.          *)
LaunchHooked(l) ==
  /\ launch[l].pc = "hook" /\ ~Cancelled(l)
  /\ LaunchTo(l, "spawn")
  /\ UNCHANGED <<actorVars, proc>>

LaunchSpawns(l) ==
  /\ launch[l].pc = "spawn"
  /\ spawn_service(l[2])
  /\ launch' = [launch EXCEPT ![l].pc = "post",
                              ![l].inst = next_service_instance']
  /\ UNCHANGED <<req, exits>>

LaunchPostStart(l) ==
  /\ launch[l].pc = "post" /\ proc[launch[l].inst].gate = "released"
  /\ MarkServiceInitialized(l[2])
  /\ LaunchTo(l, "aux")
  /\ UNCHANGED proc

LaunchAuxiliary(l) ==
  /\ launch[l].pc = "aux"
  /\ spawn_auxiliary_tasks(l[2], launch[l].inst)
  /\ LaunchTo(l, "done")
  /\ UNCHANGED proc

----------------------------------------------------------------------------
(* Requests.                                                               *)

RequestTo(r, pc) == req' = [req EXCEPT ![r].pc = pc] /\ UNCHANGED exits

cur(r) == Head(req[r].todo)

(* Move on to the next service of the phase, at pc.                        *)
NextService(r, pc) ==
  /\ req' = [req EXCEPT ![r].pc = pc, ![r].todo = Tail(@), ![r].inst = 0]
  /\ UNCHANGED exits

StopOrder(r) == IF r.all \/ r.kind = "restart" THEN Reverse(r.scope)
                ELSE r.scope

Only(seq, S) == SelectSeq(seq, LAMBDA s : s \in S)

(* start_services: return at once if every service is active.  A start of  *)
(* named services claims and launches one after the other, without fence.  *)
StartBegins(r) ==
  /\ r.kind = "start" /\ req[r].pc = "idle"
  /\ LET needed == \E k \in DOMAIN r.scope : ~is_active(svc[r.scope[k]].status)
     IN  req' = [req EXCEPT
                   ![r].todo = r.scope,
                   ![r].pc = IF ~needed THEN "done"
                             ELSE IF r.all THEN "raise" ELSE "claim"]
  /\ UNCHANGED <<actorVars, launch, proc, exits>>

(* restart_services_with_states: select by the states read now.            *)
RestartBegins(r) ==
  LET named == Range(r.scope)
      running == {s \in named : svc[s].initialized /\ is_running(svc[s].status)}
      chosen == running \cup
                {s \in named : svc[s].initialized /\ svc[s].status \in r.states}
      refused == ~r.all /\ \E s \in named : ~svc[s].initialized
  IN  /\ r.kind = "restart" /\ req[r].pc = "idle"
      /\ req' = [req EXCEPT
                    ![r].todo = Only(StopOrder(r), chosen),
                    ![r].picked = running,
                    ![r].pc = IF refused \/ chosen = {} THEN "done" ELSE "raise"]
      /\ UNCHANGED <<actorVars, launch, proc, exits>>

RaiseFence(r) ==
  /\ req[r].pc = "raise"
  /\ SetStartupInProgress(TRUE)
  /\ RequestTo(r, "claim")
  /\ UNCHANGED <<launch, proc>>

CanClaim(r, s) ==
  \/ r.kind = "start" /\ CanClaimServiceStart(s)
  \/ /\ r.kind = "restart"
     /\ IF s \in req[r].picked THEN CanClaimServiceRestart(s)
        ELSE CanClaimInactiveServiceRestart(s, r.states)

Claim(r, s) ==
  IF r.kind = "start" THEN ClaimServiceStart(s)
  ELSE IF s \in req[r].picked THEN ClaimServiceRestart(s)
  ELSE ClaimInactiveServiceRestart(s, r.states)

Fenced(r) == r.kind = "restart" \/ r.all

ClaimNext(r) ==
  LET s == cur(r)
      granting == CanClaim(r, s)
  IN  /\ req[r].pc = "claim" /\ req[r].todo # << >>
      /\ IF granting THEN Claim(r, s) ELSE UNCHANGED actorVars
      /\ launch' =
           IF granting
           THEN [launch EXCEPT
                   ![r, s].pc = IF Fenced(r) THEN "claimed" ELSE "wait",
                   ![r, s].startup = svc'[s].claim]
           ELSE launch
      /\ IF granting /\ ~Fenced(r) THEN RequestTo(r, "join")
         ELSE NextService(r, "claim")
      /\ UNCHANGED proc

ClaimsDone(r) ==
  /\ req[r].pc = "claim" /\ req[r].todo = << >>
  /\ RequestTo(r, IF Fenced(r) THEN "lower" ELSE "done")
  /\ UNCHANGED <<actorVars, launch, proc>>

Dispatch(r) ==
  launch' = [l \in Launch |->
               IF l[1] = r /\ launch[l].pc = "claimed"
               THEN [launch[l] EXCEPT !.pc = "wait"] ELSE launch[l]]

(* A start dispatches its launches and returns; a restart goes on to stop  *)
(* the services that were running.                                         *)
LowerFence(r) ==
  /\ req[r].pc = "lower"
  /\ SetStartupInProgress(FALSE)
  /\ IF r.kind = "start"
     THEN RequestTo(r, "done") /\ Dispatch(r)
     ELSE /\ req' = [req EXCEPT
                       ![r].pc = "halt",
                       ![r].todo =
                         Only(StopOrder(r),
                              {s \in req[r].picked :
                                 launch[r, s].pc = "claimed"})]
          /\ UNCHANGED <<launch, exits>>
  /\ UNCHANGED proc

(* The last ensure_service_startup before a restart stops the process.     *)
RestartHalts(r) ==
  /\ req[r].pc = "halt" /\ req[r].todo # << >>
  /\ IF Cancelled(<<r, cur(r)>>) THEN NextService(r, "halt")
     ELSE RequestTo(r, "take")
  /\ UNCHANGED <<actorVars, launch, proc>>

RestartDispatches(r) ==
  /\ req[r].pc = "halt" /\ req[r].todo = << >>
  /\ Dispatch(r)
  /\ RequestTo(r, "join")
  /\ UNCHANGED <<actorVars, proc>>

(* Wait for the launches.  A named start goes on with the next service and *)
(* gives up on an error; a restart waits for all of its launches.          *)
StartJoins(r) ==
  /\ r.kind = "start" /\ req[r].pc = "join"
  /\ \/ launch[r, cur(r)].pc = "done" /\ NextService(r, "claim")
     \/ launch[r, cur(r)].pc = "failed" /\ RequestTo(r, "done")
  /\ UNCHANGED <<actorVars, launch, proc>>

RestartCollectsError(r) ==
  /\ r.kind = "restart" /\ req[r].pc = "join"
  /\ \E s \in Service :
        /\ launch[r, s].pc = "failed"
        /\ launch' = [launch EXCEPT ![r, s].pc = "done"]
        /\ proc' = cleanup_service(proc, s)
  /\ UNCHANGED <<actorVars, req, exits>>

RestartJoins(r) ==
  /\ r.kind = "restart" /\ req[r].pc = "join"
  /\ \A s \in Service : launch[r, s].pc \in {"none", "done"}
  /\ RequestTo(r, "done")
  /\ UNCHANGED <<actorVars, launch, proc>>

----------------------------------------------------------------------------
(* stop_services: at most as many passes as services.                      *)

StopBegins(r) ==
  /\ r.kind = "stop" /\ req[r].pc = "idle"
  /\ req' = [req EXCEPT ![r].pc = "check", ![r].todo = StopOrder(r),
                        ![r].pass = 1]
  /\ UNCHANGED <<actorVars, launch, proc, exits>>

StopChecks(r) ==
  /\ req[r].pc = "check" /\ req[r].todo # << >>
  /\ IF is_active(svc[cur(r)].status) THEN RequestTo(r, "stopping")
     ELSE NextService(r, "check")
  /\ UNCHANGED <<actorVars, launch, proc>>

(* End of a pass: another one if this one stopped a service or, from the   *)
(* second on, if a service became active during the settle time.           *)
StopPassEnds(r) ==
  LET active == \E k \in DOMAIN r.scope : is_active(svc[r.scope[k]].status)
      again == /\ req[r].pass < Len(r.scope)
               /\ req[r].stopped \/ (req[r].pass > 1 /\ active)
  IN  /\ req[r].pc = "check" /\ req[r].todo = << >>
      /\ req' = [req EXCEPT ![r] =
                   [@ EXCEPT !.pc = IF again THEN "check" ELSE "done",
                             !.todo = IF again THEN StopOrder(r) ELSE << >>,
                             !.pass = IF again THEN @ + 1 ELSE @,
                             !.stopped = FALSE]]
      /\ UNCHANGED <<actorVars, launch, proc, exits>>

(* stop_service for cur(r); a restart keeps the status (skips the two      *)
(* status updates).                                                        *)
StopSetsStopping(r) ==
  /\ req[r].pc = "stopping"
  /\ SetServiceStatus(cur(r), "Stopping")
  /\ RequestTo(r, "take")
  /\ UNCHANGED <<launch, proc>>

StopTakesHandle(r) ==
  LET i == svc[cur(r)].process
  IN  /\ req[r].pc = "take"
      /\ RemoveProcessHandle(cur(r))
      /\ req' = [req EXCEPT ![r].pc = IF i = 0 THEN "cancel" ELSE "await",
                            ![r].inst = i]
      /\ proc' = IF i # 0 /\ proc[i].tx = "held"
                 THEN [proc EXCEPT ![i].tx = "requested"] ELSE proc
      /\ UNCHANGED <<launch, exits>>

(* Mutant: only a reply counts, not that the process exited by itself.     *)
StopAwaits_reply_only(r) ==
  /\ req[r].pc = "await"
  /\ proc[req[r].inst].monitor = "done" /\ proc[req[r].inst].handler = "none"
  /\ RequestTo(r, "cancel")
  /\ UNCHANGED <<actorVars, launch, proc>>

(* The monitor replied, or its receiver is gone, or neither happened in    *)
(* the grace period and 15 s more.                                         *)
StopAwaits(r) ==
  /\ req[r].pc = "await"
  /\ proc[req[r].inst].monitor \in {"gated", "done"} \/ MayFail
  /\ RequestTo(r, "cancel")
  /\ UNCHANGED <<actorVars, launch, proc>>

StopCancelsHealthCheck(r) ==
  /\ req[r].pc = "cancel"
  /\ CancelHealthCheck(cur(r))
  /\ RequestTo(r, IF r.kind = "restart" THEN "pid" ELSE "stopped")
  /\ UNCHANGED <<launch, proc>>

(* Mutant: the last status update is left out.                             *)
StopSetsStopped_silently(r) ==
  /\ req[r].pc = "stopped"
  /\ RequestTo(r, "pid")
  /\ UNCHANGED <<actorVars, launch, proc>>

StopSetsStopped(r) ==
  /\ req[r].pc = "stopped"
  /\ SetServiceStatus(cur(r), "Stopped")
  /\ RequestTo(r, "pid")
  /\ UNCHANGED <<launch, proc>>

StopClearsPid(r) ==
  /\ req[r].pc = "pid"
  /\ ClearServicePid(cur(r))
  /\ RequestTo(r, "cleanup")
  /\ UNCHANGED <<launch, proc>>

StopCleansUp(r) ==
  /\ req[r].pc = "cleanup"
  /\ proc' = cleanup_service(proc, cur(r))
  /\ \/ /\ r.kind = "stop"
        /\ req' = [req EXCEPT ![r].pc = "check", ![r].todo = Tail(@),
                              ![r].inst = 0, ![r].stopped = TRUE]
        /\ UNCHANGED exits
     \/ r.kind = "restart" /\ NextService(r, "halt")
     \/ r.kind = "watch" /\ RequestTo(r, "respawn")
  /\ UNCHANGED <<actorVars, launch>>

----------------------------------------------------------------------------
(* handle_file_change and restart_single_service_with_reason.              *)

WatchBegins(r) ==
  /\ r.kind = "watch" /\ req[r].pc = "idle"
  /\ req' = [req EXCEPT ![r].todo = r.scope,
                        ![r].pc = IF is_active(svc[Head(r.scope)].status)
                                  THEN "unhook" ELSE "done"]
  /\ UNCHANGED <<actorVars, launch, proc, exits>>

WatchCancelsHealthCheck(r) ==
  /\ req[r].pc = "unhook"
  /\ CancelHealthCheck(cur(r))
  /\ RequestTo(r, "stopping")
  /\ UNCHANGED <<launch, proc>>

WatchRespawns(r) ==
  /\ req[r].pc = "respawn"
  /\ spawn_service(cur(r))
  /\ req' = [req EXCEPT ![r].pc = "post", ![r].inst = next_service_instance']
  /\ UNCHANGED <<launch, exits>>

WatchErrors(r) ==
  /\ MayFail /\ req[r].pc = "respawn"
  /\ \E p \in {proc, cleanup_service(proc, cur(r))} : proc' = p
  /\ RequestTo(r, "failed")
  /\ UNCHANGED <<actorVars, launch>>

WatchFails(r) ==
  /\ req[r].pc = "failed"
  /\ SetServiceStatus(cur(r), "Failed")
  /\ RequestTo(r, "done")
  /\ UNCHANGED <<launch, proc>>

WatchPostStart(r) ==
  /\ req[r].pc = "post" /\ proc[req[r].inst].gate = "released"
  /\ spawn_auxiliary_tasks(cur(r), req[r].inst)
  /\ RequestTo(r, "done")
  /\ UNCHANGED <<launch, proc>>

----------------------------------------------------------------------------

LInit ==
  /\ Init
  /\ req = [r \in Request |->
              [pc |-> "idle", todo |-> << >>, inst |-> 0, pass |-> 0,
               stopped |-> FALSE, picked |-> {}]]
  /\ launch = [l \in Launch |->
                 [pc |-> "none", startup |-> NoStartup, met |-> {}, inst |-> 0]]
  /\ proc = << >>
  /\ exits = 0

RequestArrives(r) ==
  /\ Cardinality({q \in Request : req[q].pc # "idle"}) < MaxRequests
  /\ StartBegins(r) \/ RestartBegins(r) \/ StopBegins(r) \/ WatchBegins(r)

RequestStep(r) ==
  \/ RaiseFence(r) \/ ClaimNext(r) \/ ClaimsDone(r) \/ LowerFence(r)
  \/ RestartHalts(r) \/ RestartDispatches(r) \/ StartJoins(r)
  \/ RestartCollectsError(r) \/ RestartJoins(r)
  \/ StopChecks(r) \/ StopPassEnds(r) \/ StopSetsStopping(r)
  \/ StopTakesHandle(r) \/ StopAwaits(r) \/ StopCancelsHealthCheck(r)
  \/ StopSetsStopped(r) \/ StopClearsPid(r) \/ StopCleansUp(r)
  \/ WatchCancelsHealthCheck(r) \/ WatchRespawns(r) \/ WatchErrors(r)
  \/ WatchFails(r) \/ WatchPostStart(r)

LaunchStep(l) ==
  \/ LaunchCancelled(l) \/ LaunchSeesCondition(l)
  \/ LaunchPassesDependency(l) \/ LaunchIsHopeless(l)
  \/ LaunchSkips(l) \/ LaunchDependenciesMet(l) \/ LaunchEnters(l)
  \/ LaunchResolves(l) \/ LaunchConditionFalse(l) \/ LaunchErrors(l)
  \/ LaunchFails(l) \/ LaunchHooked(l) \/ LaunchSpawns(l)
  \/ LaunchPostStart(l) \/ LaunchAuxiliary(l)

(* The tasks about instance i: the rest of its registration, its monitor,  *)
(* its exit handler.                                                       *)
RegistrationStep(i) == StoreHandle(i) \/ PublishRunning(i)
MonitorStep(i) ==
  \/ MonitorSeesExit(i) \/ MonitorReports(i) \/ MonitorSeesShutdown(i)
  \/ MonitorStops(i)
HandlerStep(i) ==
  \/ HandlerRecords(i) \/ HandlerDecides(i) \/ HandlerSettles(i)
  \/ HandlerCleansUp(i) \/ HandlerRestarts(i) \/ HandlerRespawns(i)
  \/ HandlerAborts(i) \/ HandlerPostStart(i) \/ HandlerRepublishes(i)

(* Nothing left to do: requests done or never sent, launches finished or   *)
(* waiting for a dependency, every process either watched or reaped.       *)
Blocked(l) ==
  /\ WaitsForDependency(l)
  /\ LET d == CurrentDependency(l)
     IN  ~DependencyMet(l, d) /\ ~DependencyHopeless(l, d)

AtRest ==
  /\ \A r \in Request :
        \/ req[r].pc \in {"idle", "done"}
        \/ req[r].pc = "join" /\ \E s \in Service : Blocked(<<r, s>>)
  /\ \A l \in Launch : launch[l].pc \in {"none", "done", "failed"} \/ Blocked(l)
  /\ \A i \in DOMAIN proc :
        /\ proc[i].gate = "released"
        /\ proc[i].handler \in {"none", "errored", "done"}
        /\ \/ proc[i].monitor = "done"
           \/ /\ proc[i].monitor = "watching"
              /\ proc[i].alive /\ proc[i].tx = "held"

Rest == AtRest /\ UNCHANGED vars

(* What the runtime does by itself: a task that can go on goes on.         *)
TaskStep ==
  \/ \E r \in Request : req[r].pc \notin {"idle", "done"} /\ RequestStep(r)
  \/ \E l \in Launch : launch[l].pc \notin {"none", "done"} /\ LaunchStep(l)
  \/ \E i \in DOMAIN proc :
        RegistrationStep(i) \/ MonitorStep(i) \/ HandlerStep(i)

LNext ==
  \/ \E r \in Request : RequestArrives(r)
  \/ TaskStep
  \/ \E i \in DOMAIN proc : ProcessExits(i)
  \/ \E s \in Service : HealthResult(s)
  \/ Rest

LSpec == LInit /\ [][LNext]_vars

(* The runtime does not stop while a task can go on; it polls every such   *)
(* task, but that some task moves is enough.  Processes need not exit,     *)
(* requests need not arrive and checks need not report.                    *)
Fairness == WF_vars(TaskStep)

FairSpec == LSpec /\ Fairness

----------------------------------------------------------------------------

(* The shape of the tasks' state.                                          *)
LTypeOK ==
  /\ req \in [Request -> RequestState]
  /\ launch \in [Launch -> LaunchState]
  /\ proc \in Seq(Process)
  /\ Len(proc) = next_service_instance
  /\ exits \in 0..MaxExits

(* The orchestrator only ever does to the actor what ConfigActor allows,   *)
(* so the theorems about ConfigActor hold of it.                           *)
ActorSpec == Spec

(* No process is leaked: while a monitor watches a process whose shutdown  *)
(* sender nobody used or dropped, the spawning task still holds the handle *)
(* or the actor's `processes` map has it, so the next stop reaches it.     *)
EveryProcessReachable ==
  \A i \in DOMAIN proc :
     proc[i].monitor = "watching" /\ proc[i].tx = "held" =>
        proc[i].gate = "forked" \/ svc[proc[i].service].process = i

(* However starts, stops, restarts and exits overlap, once all tasks are   *)
(* at rest a service has at most one live process.                         *)
OneProcessPerService ==
  AtRest => \A i, j \in DOMAIN proc :
     /\ proc[i].alive /\ proc[j].alive
     /\ proc[i].service = proc[j].service
     => i = j

(* Once all tasks are at rest, a service shown as running has a process    *)
(* (the spawn gate: no service is left "stuck in `Running` forever").      *)
RunningHasProcess ==
  AtRest => \A s \in Service :
     is_running(svc[s].status) =>
        \E i \in DOMAIN proc : proc[i].service = s /\ proc[i].alive

(* Once all tasks are at rest, a live process belongs to a service shown   *)
(* as running.                                                             *)
ProcessIsShown ==
  AtRest => \A i \in DOMAIN proc :
     proc[i].alive => is_running(svc[proc[i].service].status)

(* A policy restart whose re-resolution failed: handle_exit returns the    *)
(* error and leaves the status, Starting or what a manual restart made of  *)
(* it before the policy restart took that over.                            *)
LeftComingUp(s) ==
  /\ svc[s].status \in {"Starting", "Restarting"}
  /\ \E i \in DOMAIN proc : proc[i].service = s /\ proc[i].handler = "errored"

(* Once all tasks are at rest, no service is on its way up or down, except *)
(* one waiting for a dependency and one that a failed policy restart left. *)
NoTransientAtRest ==
  AtRest => \A s \in Service :
     \/ svc[s].status \notin StartupStatus \cup {"Stopping"}
     \/ svc[s].status = "Waiting" /\ \E r \in Request : Blocked(<<r, s>>)
     \/ LeftComingUp(s)

(* docs/service-lifecycle.md: "A stop cancels the pending lifecycle".  A   *)
(* service that is Stopped comes up only through a new claim: no startup   *)
(* from before the stop spawns it, and no exit handler that read the       *)
(* status before the stop restarts it.  (Not for file-change restarts.)    *)
StopCancelsPendingStartup ==
  [][\A s \in Service :
        svc[s].status = "Stopped" =>
           ~was_actively_running(svc'[s].status)]_vars

(* handle_exit: "Guard against stale exit events".  Recording the exit of  *)
(* an instance never drops the ProcessHandle of a later instance, which    *)
(* would kill it.                                                          *)
StaleExitKeepsHandle ==
  [][\A i \in DOMAIN proc :
        proc[i].handler = "new" /\ proc'[i].handler = "hook" =>
           svc[proc[i].service].process \in {0, i}]_vars

(* A client is always answered: no start, stop or restart waits forever    *)
(* for a process, its monitor or a launch, whatever else happens to the    *)
(* service meanwhile, and the passes of a stop come to an end.  (A request *)
(* leaves "done" never and "idle" for good.)                               *)
RequestsFinish ==
  \A r \in Request : []<>(req[r].pc \in {"idle", "done"})

(* Whoever loses its stored ProcessHandle (stopped, replaced, or dropped   *)
(* by the exit of another instance) is killed by its monitor.              *)
DroppedIsReaped ==
  []<>(\A i \in DOMAIN proc : proc[i].tx # "held" => ~proc[i].alive)

(* Every claimed startup comes to an end: it runs, fails, is skipped or is *)
(* cancelled; wait_for_dependencies never waits for a condition that can   *)
(* no longer come true.                                                    *)
StartupsResolve ==
  \A l \in Launch : []<>(launch[l].pc \in {"none", "done", "failed"})

=============================================================================
