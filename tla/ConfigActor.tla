---------------------------- MODULE ConfigActor ----------------------------
(***************************************************************************)
(* The per-config actor of config_actor/actor.rs.  The actor owns the      *)
(* state of every service and handles one ConfigCommand at a time, so each *)
(* command is one atomic action here.  Next is the most general client:    *)
(* any command, with any argument a client may hold, in any order.  What   *)
(* holds of this module holds for every interleaving of the orchestrator's *)
(* tasks; Lifecycle adds those tasks.                                      *)
(*                                                                         *)
(* Left out as data no property reads: reasons, timestamps, signals,       *)
(* restart counters, environments, the persisted copy of the state.        *)
(***************************************************************************)
EXTENDS Deps, Sequences, FiniteSets

CONSTANTS
  Service,         \* service names of the config
  Edges,           \* function from <<service, dependency>> to an edge (Deps)
  Policy,          \* Policy[s]: restart policy of s, the same raw and resolved
  HasHealthcheck,  \* the services configured with a healthcheck
  Retries,         \* Retries[s]: failed checks before s becomes Unhealthy
  ExitCode         \* exit codes a process may report

DependsOn(s) == {d \in Service : <<s, d>> \in DOMAIN Edges}

ASSUME ServiceAssumption == IsFiniteSet(Service)
ASSUME EdgesAssumption ==
  \A e \in DOMAIN Edges :
     /\ e \in Service \X Service
     /\ Edges[e].condition \in DependencyCondition
     /\ Edges[e].allow_skipped \in BOOLEAN
ASSUME PolicyAssumption == Policy \in [Service -> RestartPolicy]
ASSUME HealthcheckAssumption ==
  HasHealthcheck \subseteq Service /\ Retries \in [Service -> Nat \ {0}]
ASSUME ExitCodeAssumption == ExitCode \subseteq Nat

VARIABLES
  svc,                    \* svc[s]: the actor's record of service s
  next_service_instance,  \* last instance number given out
  next_health_check,      \* last health-check session number given out
  startup_in_progress,    \* the startup fence
  last_ready, last_quiescent,  \* whether the signal was sent for this cycle
  events,                 \* the signals the last command sent to subscribers
  granted                 \* history: granted[s] is the sequence of startups
                          \* the claim commands have replied for s

fenceVars == <<startup_in_progress, last_ready, last_quiescent>>
counterVars == <<next_service_instance, next_health_check>>
actorVars == <<svc, counterVars, fenceVars, events, granted>>

(* u64 identities: generations wrap after 2^64 claims and are not capped   *)
(* here; NoStartup is None.  Instance and session numbers start at 1, so 0 *)
(* is None.                                                                *)
NoStartup == -1

ServiceState ==
  [status: ServiceStatus, exit_code: Int, was_healthy: BOOLEAN,
   health_check_failures: Nat, initialized: BOOLEAN,
   pid: Nat,          \* the instance whose pid is recorded, 0 for None
   generation: Nat,   \* startup_generations
   claim: Nat \cup {NoStartup},  \* startup_claims
   instance: Nat,     \* service_instances
   session: Nat,      \* health_check_sessions
   session_for: Nat,  \* history: the instance that session was begun for
   process: Nat]      \* processes: the instance whose handle is stored

DefaultServiceState ==
  [status |-> "Stopped", exit_code |-> NoExitCode, was_healthy |-> FALSE,
   health_check_failures |-> 0, initialized |-> FALSE, pid |-> 0,
   generation |-> 0, claim |-> NoStartup, instance |-> 0, session |-> 0,
   session_for |-> 0, process |-> 0]

----------------------------------------------------------------------------
(* Readiness and quiescence, on any valuation v of svc.                    *)

is_condition_satisfied_sync(v, s, d) ==
  is_condition_met(v[d], Edges[<<s, d>>], Policy[d])

UnmetDeps(v, s) ==
  {d \in DependsOn(s) : ~is_condition_satisfied_sync(v, s, d)}

DepStillSettling(v, d) ==
  \/ v[d].status \in {"Starting", "Waiting", "Stopping"}
  \/ /\ v[d].status \in {"Exited", "Killed", "Failed"}
     /\ restart_follows(v[d].status, v[d].exit_code, Policy[d])

is_service_ready(v, s) ==
  \/ v[s].status \in {"Exited", "Failed", "Killed", "Skipped"}
  \/ v[s].status = "Running" /\ s \notin HasHealthcheck
  \/ v[s].status \in {"Healthy", "Unhealthy"}
  \/ /\ v[s].status = "Waiting"
     /\ UnmetDeps(v, s) # {}
     /\ \A d \in UnmetDeps(v, s) : ~DepStillSettling(v, d)

compute_ready(v) == \A s \in Service : is_service_ready(v, s)

are_deps_satisfiable(v, s, settled) ==
  \A d \in UnmetDeps(v, s) :
     /\ v[d].status = "Skipped" => Edges[<<s, d>>].allow_skipped
     /\ ~settled[d]

is_service_settled(v, s, settled) ==
  \/ v[s].status = "Skipped"
  \/ /\ v[s].status = "Waiting"
     /\ UnmetDeps(v, s) # {}
     /\ \A d \in UnmetDeps(v, s) : settled[d]
  \/ /\ v[s].status \in {"Stopped", "Failed", "Exited", "Killed"}
     /\ \/ ~restart_follows(v[s].status, v[s].exit_code, Policy[s])
        \/ ~are_deps_satisfiable(v, s, settled)

(* The code visits services in topological order, so a dependency's entry  *)
(* is in the cache before its dependents'; the recursion follows Edges.    *)
compute_quiescence(v) ==
  LET settled[s \in Service] == is_service_settled(v, s, settled)
  IN  \A s \in Service : settled[s]

----------------------------------------------------------------------------
(* set_service_status.                                                     *)

(* Mutant: a service that starts again keeps its generation.               *)
InvalidatesStartup_stop_only(old, new) ==
  \/ new = "Stopping"
  \/ new = "Restarting" /\ new # old

(* A stop always invalidates the current startup; so does entering Waiting *)
(* or Restarting from another status.                                      *)
InvalidatesStartup(old, new) ==
  \/ new = "Stopping"
  \/ new \in {"Waiting", "Restarting"} /\ new # old

(* Mutant: leaving the startup statuses does not release the claim.        *)
WithStatus_keeps_claim(r, new) ==
  LET invalidates == InvalidatesStartup(r.status, new)
      fresh == new \in {"Starting", "Running"}
  IN  [r EXCEPT
         !.status = new,
         !.session = IF is_running(new) THEN @ ELSE 0,
         !.generation = IF invalidates THEN @ + 1 ELSE @,
         !.claim = IF invalidates THEN NoStartup ELSE @,
         !.was_healthy = IF fresh THEN FALSE ELSE @,
         !.health_check_failures = IF fresh THEN 0 ELSE @,
         !.exit_code = IF fresh THEN NoExitCode ELSE @,
         !.pid = IF is_active(new) THEN @ ELSE 0]

(* The part of set_service_status that writes the service's own record.    *)
WithStatus(r, new) ==
  LET invalidates == InvalidatesStartup(r.status, new)
      fresh == new \in {"Starting", "Running"}
  IN  [r EXCEPT
         !.status = new,
         !.session = IF is_running(new) THEN @ ELSE 0,
         !.generation = IF invalidates THEN @ + 1 ELSE @,
         !.claim = IF invalidates \/ new \notin StartupStatus
                   THEN NoStartup ELSE @,
         !.was_healthy = IF fresh THEN FALSE ELSE @,
         !.health_check_failures = IF fresh THEN 0 ELSE @,
         !.exit_code = IF fresh THEN NoExitCode ELSE @,
         !.pid = IF is_active(new) THEN @ ELSE 0]

IsFailure(r) ==
  \/ r.status \in {"Failed", "Killed"}
  \/ r.status = "Exited" /\ r.exit_code \notin {0, NoExitCode}

UnhandledFailure(s) ==
  /\ IsFailure(svc'[s])
  /\ ~restart_follows(svc'[s].status, svc'[s].exit_code, Policy[s])
  /\ ~is_failure_handled(s, Edges)

(* check_and_notify_ready and check_and_notify_quiescent after the flags   *)
(* were reset to ready0 and quiet0; checkQuiet says whether the second is  *)
(* called, others are the further events of the command.                   *)
CheckAndNotify(ready0, quiet0, checkQuiet, others) ==
  LET ready == ~startup_in_progress' /\ compute_ready(svc')
      quiet == /\ ~startup_in_progress'
               /\ checkQuiet
               /\ compute_quiescence(svc')
  IN  /\ last_ready' = (ready0 \/ ready)
      /\ last_quiescent' = (quiet0 \/ quiet)
      /\ events' = others
                   \cup (IF ready /\ ~ready0 THEN {"Ready"} ELSE {})
                   \cup (IF quiet /\ ~quiet0 THEN {"Quiescent"} ELSE {})

(* Mutant: readiness is looked at only when quiescence is.                 *)
NotifyStatus_terminal_only(s, new) ==
  LET mayQuiesce == ~is_active(new) \/ new = "Waiting"
  IN  IF mayQuiesce
      THEN CheckAndNotify(last_ready, last_quiescent, TRUE, {})
      ELSE events' = {} /\ UNCHANGED <<last_ready, last_quiescent>>

(* The part that sends signals after service s entered status new.         *)
NotifyStatus(s, new) ==
  LET mayQuiesce == ~is_active(new) \/ new = "Waiting"
  IN  CheckAndNotify(last_ready /\ new \notin {"Starting", "Restarting"},
                     last_quiescent /\ mayQuiesce,
                     mayQuiesce,
                     IF UnhandledFailure(s) THEN {"UnhandledFailure"} ELSE {})

set_service_status(s, new) ==
  /\ svc' = [svc EXCEPT ![s] = WithStatus(@, new)]
  /\ UNCHANGED startup_in_progress
  /\ NotifyStatus(s, new)

----------------------------------------------------------------------------
(* Startup claims.                                                         *)

service_startup(r) ==
  IF r.status \in StartupStatus THEN r.claim ELSE NoStartup

claim_startup(r) == [r EXCEPT !.claim = r.generation]

(* Reply the claimed startup to the client.                                *)
Grant(s) == granted' = [granted EXCEPT ![s] = Append(@, svc'[s].claim)]

(* set_service_status(new) followed by claim_startup.                      *)
ClaimWithStatus(s, new) ==
  /\ svc' = [svc EXCEPT ![s] = claim_startup(WithStatus(@, new))]
  /\ UNCHANGED <<startup_in_progress, counterVars>>
  /\ NotifyStatus(s, new)
  /\ Grant(s)

(* Mutant: a reserved service can be claimed again and again.              *)
CanClaimServiceStart_claimed(s) ==
  svc[s].status = "Waiting" \/ ~is_active(svc[s].status)

CanClaimServiceStart(s) ==
  \/ svc[s].status = "Waiting" /\ svc[s].claim = NoStartup
  \/ ~is_active(svc[s].status)

(* A reserved Waiting service is claimed as it is.                         *)
ClaimServiceStart(s) ==
  /\ CanClaimServiceStart(s)
  /\ \/ ~is_active(svc[s].status) /\ ClaimWithStatus(s, "Waiting")
     \/ /\ svc[s].status = "Waiting"
        /\ svc' = [svc EXCEPT ![s] = claim_startup(@)]
        /\ events' = {}
        /\ UNCHANGED <<fenceVars, counterVars>>
        /\ Grant(s)

CanClaimServiceRestart(s) == svc[s].initialized /\ is_running(svc[s].status)

ClaimServiceRestart(s) ==
  CanClaimServiceRestart(s) /\ ClaimWithStatus(s, "Restarting")

(* states: the terminal statuses selected by restart --states.             *)
CanClaimInactiveServiceRestart(s, states) ==
  svc[s].initialized /\ svc[s].status \in states

ClaimInactiveServiceRestart(s, states) ==
  CanClaimInactiveServiceRestart(s, states) /\ ClaimWithStatus(s, "Waiting")

IsCurrentStartup(s, startup) == service_startup(svc[s]) = startup

TransitionServiceStartup(s, startup, new) ==
  /\ IsCurrentStartup(s, startup)
  /\ set_service_status(s, new)
  /\ UNCHANGED <<counterVars, granted>>

SetServiceStatus(s, new) ==
  set_service_status(s, new) /\ UNCHANGED <<counterVars, granted>>

----------------------------------------------------------------------------
(* Commands that write one record and send nothing.                        *)

SetService(s, r) ==
  /\ svc' = [svc EXCEPT ![s] = r]
  /\ events' = {}
  /\ UNCHANGED <<fenceVars, granted>>

ClearServicePid(s) ==
  SetService(s, [svc[s] EXCEPT !.pid = 0]) /\ UNCHANGED counterVars

RecordProcessExit(s, code) ==
  /\ SetService(s, [svc[s] EXCEPT !.session = 0, !.process = 0,
                                  !.exit_code = code, !.pid = 0])
  /\ UNCHANGED counterVars

(* Mutant: the health check of the previous instance goes on.              *)
RegisterServiceInstance_keeps_session(s) ==
  /\ next_service_instance' = next_service_instance + 1
  /\ SetService(s, [svc[s] EXCEPT !.pid = next_service_instance',
                                  !.instance = next_service_instance'])
  /\ UNCHANGED next_health_check

RegisterServiceInstance(s) ==
  /\ next_service_instance' = next_service_instance + 1
  /\ SetService(s, [svc[s] EXCEPT !.pid = next_service_instance',
                                  !.session = 0,
                                  !.instance = next_service_instance'])
  /\ UNCHANGED next_health_check

MarkServiceInitialized(s) ==
  SetService(s, [svc[s] EXCEPT !.initialized = TRUE]) /\ UNCHANGED counterVars

StoreProcessHandle(s, i) ==
  SetService(s, [svc[s] EXCEPT !.process = i]) /\ UNCHANGED counterVars

RemoveProcessHandle(s) ==
  SetService(s, [svc[s] EXCEPT !.process = 0]) /\ UNCHANGED counterVars

----------------------------------------------------------------------------
(* Health checks.                                                          *)

CanBeginHealthCheck(s, i) ==
  svc[s].instance = i /\ is_running(svc[s].status)

BeginHealthCheck(s, i) ==
  /\ CanBeginHealthCheck(s, i)
  /\ next_health_check' = next_health_check + 1
  /\ SetService(s, [svc[s] EXCEPT !.session = next_health_check',
                                  !.session_for = i])
  /\ UNCHANGED next_service_instance

is_health_check_current(s, session) ==
  svc[s].session = session /\ is_running(svc[s].status)

CancelHealthCheck(s) ==
  SetService(s, [svc[s] EXCEPT !.session = 0]) /\ UNCHANGED counterVars

(* Mutant: a passed check takes one failure back instead of all.           *)
WithHealthResult_decrements(r, passed, retries) ==
  IF passed
  THEN [r EXCEPT !.health_check_failures = @ - 1,
                 !.status = "Healthy",
                 !.was_healthy = @ \/ r.status # "Healthy"]
  ELSE [r EXCEPT !.health_check_failures = @ + 1,
                 !.status = IF r.health_check_failures + 1 >= retries
                            THEN "Unhealthy" ELSE @]

(* The record update_health_check leaves after one more result.            *)
WithHealthResult(r, passed, retries) ==
  IF passed
  THEN [r EXCEPT !.health_check_failures = 0,
                 !.status = "Healthy",
                 !.was_healthy = @ \/ r.status # "Healthy"]
  ELSE [r EXCEPT !.health_check_failures = @ + 1,
                 !.status = IF r.health_check_failures + 1 >= retries
                            THEN "Unhealthy" ELSE @]

UpdateHealthCheck(s, session, passed) ==
  /\ is_health_check_current(s, session)
  /\ LET r == WithHealthResult(svc[s], passed, Retries[s])
     IN  IF r.status = svc[s].status
         THEN SetService(s, r)
         ELSE /\ svc' = [svc EXCEPT ![s] = r]
              /\ UNCHANGED <<startup_in_progress, granted>>
              /\ CheckAndNotify(last_ready, last_quiescent, FALSE, {})
  /\ UNCHANGED counterVars

----------------------------------------------------------------------------
(* The startup fence and the re-check for new subscribers.                 *)

(* Mutant: lowering the fence does not look for the signals held back.     *)
SetStartupInProgress_forgets(raised) ==
  /\ startup_in_progress' = raised
  /\ events' = {}
  /\ UNCHANGED <<svc, counterVars, granted, last_ready, last_quiescent>>

SetStartupInProgress(raised) ==
  /\ startup_in_progress' = raised
  /\ UNCHANGED <<svc, counterVars, granted>>
  /\ IF raised
     THEN events' = {} /\ UNCHANGED <<last_ready, last_quiescent>>
     ELSE CheckAndNotify(last_ready, last_quiescent, TRUE, {})

RecheckReadyQuiescent ==
  /\ UNCHANGED <<svc, counterVars, granted, startup_in_progress>>
  /\ CheckAndNotify(FALSE, FALSE, TRUE, {})

----------------------------------------------------------------------------

Init ==
  /\ svc = [s \in Service |-> DefaultServiceState]
  /\ next_service_instance = 0
  /\ next_health_check = 0
  /\ startup_in_progress = FALSE
  /\ last_ready = FALSE
  /\ last_quiescent = FALSE
  /\ events = {}
  /\ granted = [s \in Service |-> << >>]

(* The statuses clients pass to SetServiceStatus and to                    *)
(* TransitionServiceStartup.                                               *)
ClientStatus ==
  {"Waiting", "Starting", "Running", "Stopping", "Stopped", "Failed",
   "Exited", "Killed"}
TransitionStatus == {"Starting", "Restarting", "Skipped", "Failed"}
RestartState == {"Stopped", "Exited", "Failed", "Killed"}

ClaimCommand(s) ==
  \/ ClaimServiceStart(s)
  \/ ClaimServiceRestart(s)
  \/ \E states \in SUBSET RestartState : ClaimInactiveServiceRestart(s, states)

StatusCommand(s) ==
  \/ \E new \in ClientStatus : SetServiceStatus(s, new)
  \/ \E k \in DOMAIN granted[s], new \in TransitionStatus :
        TransitionServiceStartup(s, granted[s][k], new)

ProcessCommand(s) ==
  \/ RegisterServiceInstance(s)
  \/ \E i \in 1..next_service_instance : StoreProcessHandle(s, i)
  \/ RemoveProcessHandle(s)
  \/ \E code \in ExitCode \cup {NoExitCode} : RecordProcessExit(s, code)
  \/ ClearServicePid(s)
  \/ MarkServiceInitialized(s)

HealthCommand(s) ==
  \/ \E i \in 1..next_service_instance : BeginHealthCheck(s, i)
  \/ CancelHealthCheck(s)
  \/ \E session \in 1..next_health_check, passed \in BOOLEAN :
        UpdateHealthCheck(s, session, passed)

Next ==
  \/ \E s \in Service :
        ClaimCommand(s) \/ StatusCommand(s) \/ ProcessCommand(s)
        \/ HealthCommand(s)
  \/ \E raised \in BOOLEAN : SetStartupInProgress(raised)
  \/ RecheckReadyQuiescent

Spec == Init /\ [][Next]_actorVars

----------------------------------------------------------------------------

(* The shape of the actor's state (ServiceState and the actor's maps).     *)
TypeOK ==
  /\ svc \in [Service -> ServiceState]
  /\ next_service_instance \in Nat
  /\ next_health_check \in Nat
  /\ startup_in_progress \in BOOLEAN
  /\ last_ready \in BOOLEAN
  /\ last_quiescent \in BOOLEAN
  /\ events \subseteq {"Ready", "Quiescent", "UnhandledFailure"}
  /\ granted \in [Service -> Seq(Nat)]

(* startup_claims never holds a claim that service_startup() would have to *)
(* hide: a claim is of the current generation and its service is still on  *)
(* its way up, so whoever holds it owns the service's startup.             *)
ClaimsAreCurrent ==
  \A s \in Service :
     svc[s].claim # NoStartup =>
        /\ svc[s].claim = svc[s].generation
        /\ svc[s].status \in StartupStatus

(* "A pending startup cannot be claimed by overlapping start or restart    *)
(* requests more than once": the claim commands never reply the same       *)
(* startup twice, and later claims have later generations.                 *)
NoStartupGrantedTwice ==
  \A s \in Service : \A j, k \in DOMAIN granted[s] :
     j < k => granted[s][j] < granted[s][k]

(* No claim command has replied a generation still to come, and a Waiting  *)
(* service that nobody claimed yet is of a generation never replied: the   *)
(* next ClaimServiceStart of it cannot repeat an earlier reply.            *)
GrantsArePast ==
  \A s \in Service : \A k \in DOMAIN granted[s] :
     /\ granted[s][k] <= svc[s].generation
     /\ svc[s].status = "Waiting" /\ svc[s].claim = NoStartup =>
           granted[s][k] < svc[s].generation

(* A startup that a stop or a later lifecycle invalidated never becomes    *)
(* current again, so a task that was cancelled once fails every later      *)
(* ensure_service_startup and TransitionServiceStartup.                    *)
CancelledStaysCancelled ==
  [][\A s \in Service : \A k \in DOMAIN granted[s] :
        service_startup(svc'[s]) = granted[s][k] =>
           service_startup(svc[s]) = granted[s][k]]_actorVars

(* A health-check session is open only while its service runs, and only    *)
(* for the process instance it was begun for: a check of a replaced        *)
(* process can no longer change the service's status.                      *)
HealthSessionOfLiveInstance ==
  \A s \in Service :
     svc[s].session # 0 =>
        /\ is_running(svc[s].status)
        /\ svc[s].session_for = svc[s].instance

(* The fence holds back Ready and Quiescent, and holding back loses none:  *)
(* whenever a status change or the lowering of the fence leaves the config *)
(* ready (quiescent) with the fence down, the signal of this cycle has     *)
(* been sent by the end of that command.                                   *)
SignalsFollowState ==
  [][/\ startup_in_progress' => events' \cap {"Ready", "Quiescent"} = {}
     /\ /\ ~startup_in_progress'
        /\ \/ startup_in_progress
           \/ \E s \in Service : svc'[s].status # svc[s].status
        => /\ compute_ready(svc') => last_ready'
           /\ compute_quiescence(svc') => last_quiescent']_actorVars

(* docs/service-lifecycle.md lists Stopped among the terminal states whose *)
(* reaching makes `kepler start` in the foreground exit.  So once services *)
(* have run and a stop has brought every one of them to Stopped, the       *)
(* config is quiescent, whatever the restart policies are.                 *)
StoppedIsTerminal ==
  /\ \E s \in Service : svc[s].initialized
  /\ \A s \in Service : svc[s].status = "Stopped"
  => compute_quiescence(svc)

=============================================================================
