------------------------- MODULE ConfigActorProofs -------------------------
(***************************************************************************)
(* Proofs about ConfigActor for any config: any services, dependency       *)
(* edges, restart policies and health checks, any number of claims,        *)
(* processes and sessions, and any order of commands.                      *)
(*                                                                         *)
(* Every command rewrites the record of at most one service.  RecordStep   *)
(* lists the ways it may; NextIsActorStep shows that each command is one   *)
(* of them, and the invariants are proved once per way rather than once    *)
(* per command.                                                            *)
(***************************************************************************)
EXTENDS ConfigActor, TLAPS

----------------------------------------------------------------------------
(* What a command does to one service's record r and to the sequence g of  *)
(* startups replied for it; r1 and g1 are the values after it.             *)

(* set_service_status.                                                     *)
StatusStep(r, g, r1, g1) ==
  g1 = g /\ \E new \in ServiceStatus : r1 = WithStatus(r, new)

(* A claim of a reserved Waiting service.                                  *)
PlainClaimStep(r, g, r1, g1) ==
  /\ r.status = "Waiting" /\ r.claim = NoStartup
  /\ r1 = claim_startup(r)
  /\ g1 = Append(g, r1.claim)

(* A claim that also enters Waiting or Restarting.                         *)
FreshClaimStep(r, g, r1, g1) ==
  /\ r.status \notin {"Waiting", "Restarting"}
  /\ \E new \in {"Waiting", "Restarting"} :
        r1 = claim_startup(WithStatus(r, new))
  /\ g1 = Append(g, r1.claim)

(* Any other command: neither the generation nor the claim changes, the    *)
(* status at most from one running status to another, and an open session  *)
(* stays one of the current instance.                                      *)
OtherStep(r, g, r1, g1) ==
  /\ g1 = g
  /\ r1.generation = r.generation
  /\ r1.claim = r.claim
  /\ r1.status = r.status \/ (is_running(r.status) /\ is_running(r1.status))
  /\ r1.session # 0 =>
        \/ is_running(r1.status) /\ r1.session_for = r1.instance
        \/ /\ r.session # 0
           /\ r1.session_for = r.session_for
           /\ r1.instance = r.instance

RecordStep(r, g, r1, g1) ==
  \/ StatusStep(r, g, r1, g1)
  \/ PlainClaimStep(r, g, r1, g1)
  \/ FreshClaimStep(r, g, r1, g1)
  \/ OtherStep(r, g, r1, g1)

----------------------------------------------------------------------------
(* Facts about the records.                                                *)

(* Writing one field of a record keeps it well-formed.                     *)
LEMMA SetField ==
  ASSUME NEW r \in ServiceState
  PROVE  /\ \A v \in ServiceStatus : [r EXCEPT !.status = v] \in ServiceState
         /\ \A v \in Int : [r EXCEPT !.exit_code = v] \in ServiceState
         /\ \A v \in BOOLEAN : [r EXCEPT !.was_healthy = v] \in ServiceState
         /\ \A v \in Nat : [r EXCEPT !.health_check_failures = v] \in ServiceState
         /\ \A v \in BOOLEAN : [r EXCEPT !.initialized = v] \in ServiceState
         /\ \A v \in Nat : [r EXCEPT !.pid = v] \in ServiceState
         /\ \A v \in Nat : [r EXCEPT !.generation = v] \in ServiceState
         /\ \A v \in Nat \cup {NoStartup} : [r EXCEPT !.claim = v] \in ServiceState
         /\ \A v \in Nat : [r EXCEPT !.instance = v] \in ServiceState
         /\ \A v \in Nat : [r EXCEPT !.session = v] \in ServiceState
         /\ \A v \in Nat : [r EXCEPT !.session_for = v] \in ServiceState
         /\ \A v \in Nat : [r EXCEPT !.process = v] \in ServiceState
BY DEF ServiceState

(* set_service_status leaves a well-formed record.                         *)
LEMMA WithStatusType ==
  ASSUME NEW r \in ServiceState, NEW new \in ServiceStatus
  PROVE  WithStatus(r, new) \in ServiceState
<1> DEFINE invalidates == InvalidatesStartup(r.status, new)
           fresh == new \in {"Starting", "Running"}
           r1 == [r EXCEPT !.status = new]
           r2 == [r1 EXCEPT !.session = IF is_running(new) THEN r.session ELSE 0]
           r3 == [r2 EXCEPT !.generation = IF invalidates THEN r.generation + 1
                                           ELSE r.generation]
           r4 == [r3 EXCEPT !.claim = IF invalidates \/ new \notin StartupStatus
                                      THEN NoStartup ELSE r.claim]
           r5 == [r4 EXCEPT !.was_healthy = IF fresh THEN FALSE ELSE r.was_healthy]
           r6 == [r5 EXCEPT !.health_check_failures = IF fresh THEN 0
                                              ELSE r.health_check_failures]
           r7 == [r6 EXCEPT !.exit_code = IF fresh THEN NoExitCode
                                          ELSE r.exit_code]
           r8 == [r7 EXCEPT !.pid = IF is_active(new) THEN r.pid ELSE 0]
<1>0. /\ r.session \in Nat /\ r.generation \in Nat
      /\ r.claim \in Nat \cup {NoStartup} /\ r.was_healthy \in BOOLEAN
      /\ r.health_check_failures \in Nat /\ r.exit_code \in Int
      /\ r.pid \in Nat
  BY DEF ServiceState
<1> HIDE DEF invalidates, fresh
<1>1. r1 \in ServiceState
  BY SetField
<1> HIDE DEF r1
<1>2. r2 \in ServiceState
  BY <1>0, <1>1, SetField
<1> HIDE DEF r2
<1>3. r3 \in ServiceState
  BY <1>0, <1>2, SetField
<1> HIDE DEF r3
<1>4. r4 \in ServiceState
  BY <1>0, <1>3, SetField
<1> HIDE DEF r4
<1>5. r5 \in ServiceState
  BY <1>0, <1>4, SetField
<1> HIDE DEF r5
<1>6. r6 \in ServiceState
  BY <1>0, <1>5, SetField
<1> HIDE DEF r6
<1>7. r7 \in ServiceState
  BY <1>0, <1>6, SetField DEF NoExitCode
<1> HIDE DEF r7
<1>8. r8 \in ServiceState
  BY <1>0, <1>7, SetField
<1> HIDE DEF r8
<1>9. r8 = WithStatus(r, new)
  BY DEF WithStatus, r1, r2, r3, r4, r5, r6, r7, r8, invalidates, fresh
<1> QED
  BY <1>8, <1>9

(* The fields of the record after set_service_status.                      *)
LEMMA WithStatusFields ==
  ASSUME NEW r \in ServiceState, NEW new \in ServiceStatus
  PROVE  /\ WithStatus(r, new).status = new
         /\ WithStatus(r, new).generation =
              IF InvalidatesStartup(r.status, new)
              THEN r.generation + 1 ELSE r.generation
         /\ WithStatus(r, new).claim =
              IF InvalidatesStartup(r.status, new) \/ new \notin StartupStatus
              THEN NoStartup ELSE r.claim
         /\ WithStatus(r, new).session =
              IF is_running(new) THEN r.session ELSE 0
         /\ WithStatus(r, new).session_for = r.session_for
         /\ WithStatus(r, new).instance = r.instance
BY DEF WithStatus, ServiceState

(* claim_startup leaves a well-formed record whose claim is its            *)
(* generation.                                                             *)
LEMMA ClaimStartupFields ==
  ASSUME NEW r \in ServiceState
  PROVE  /\ claim_startup(r) \in ServiceState
         /\ claim_startup(r).claim = r.generation
         /\ claim_startup(r).generation = r.generation
         /\ claim_startup(r).status = r.status
         /\ claim_startup(r).session = r.session
         /\ claim_startup(r).session_for = r.session_for
         /\ claim_startup(r).instance = r.instance
BY DEF claim_startup, ServiceState

(* update_health_check leaves a well-formed record: still running, and     *)
(* with its generation, claim, session and instance.                       *)
LEMMA WithHealthResultFields ==
  ASSUME NEW r \in ServiceState, NEW passed \in BOOLEAN, NEW retries \in Nat,
         is_running(r.status)
  PROVE  LET r1 == WithHealthResult(r, passed, retries)
         IN  /\ r1 \in ServiceState
             /\ is_running(r1.status)
             /\ r1.generation = r.generation
             /\ r1.claim = r.claim
             /\ r1.session = r.session
             /\ r1.session_for = r.session_for
             /\ r1.instance = r.instance
<1> DEFINE f1 == [r EXCEPT !.health_check_failures = 0]
           f2 == [f1 EXCEPT !.status = "Healthy"]
           f3 == [f2 EXCEPT !.was_healthy = r.was_healthy \/ r.status # "Healthy"]
           n1 == [r EXCEPT !.health_check_failures = r.health_check_failures + 1]
           n2 == [n1 EXCEPT !.status = IF r.health_check_failures + 1 >= retries
                                       THEN "Unhealthy" ELSE r.status]
<1>0. /\ r.status \in ServiceStatus /\ r.health_check_failures \in Nat
      /\ r.was_healthy \in BOOLEAN
      /\ "Healthy" \in ServiceStatus /\ "Unhealthy" \in ServiceStatus
  BY DEF ServiceState, ServiceStatus
<1>1. CASE passed
  <2>1. f1 \in ServiceState
    BY SetField
  <2>2. f2 \in ServiceState
    <3> HIDE DEF f1
    <3> QED BY <1>0, <2>1, SetField
  <2>3. f3 \in ServiceState
    <3> HIDE DEF f2
    <3> QED BY <1>0, <2>2, SetField
  <2>4. WithHealthResult(r, passed, retries) = f3
    BY <1>1 DEF WithHealthResult
  <2>5. /\ is_running(f3.status)
        /\ f3.generation = r.generation
        /\ f3.claim = r.claim
        /\ f3.session = r.session
        /\ f3.session_for = r.session_for
        /\ f3.instance = r.instance
    BY DEF ServiceState, is_running
  <2> QED
    BY <2>3, <2>4, <2>5
<1>2. CASE ~passed
  <2>1. n1 \in ServiceState
    BY <1>0, SetField
  <2>2. n2 \in ServiceState
    <3> HIDE DEF n1
    <3> QED BY <1>0, <2>1, SetField
  <2>3. WithHealthResult(r, passed, retries) = n2
    BY <1>2 DEF WithHealthResult
  <2>4. /\ is_running(n2.status)
        /\ n2.generation = r.generation
        /\ n2.claim = r.claim
        /\ n2.session = r.session
        /\ n2.session_for = r.session_for
        /\ n2.instance = r.instance
    BY DEF ServiceState, is_running
  <2> QED
    BY <2>2, <2>3, <2>4
<1> QED
  BY <1>1, <1>2

----------------------------------------------------------------------------
(* Every command is a RecordStep for every service.                        *)

ActorStep ==
  /\ TypeOK'
  /\ \A s \in Service : RecordStep(svc[s], granted[s], svc'[s], granted'[s])

(* The signals of set_service_status keep the types of the flags.          *)
LEMMA NotifyStatusType ==
  ASSUME TypeOK, NEW s \in Service, NEW new, NotifyStatus(s, new)
  PROVE  /\ last_ready' \in BOOLEAN
         /\ last_quiescent' \in BOOLEAN
         /\ events' \subseteq {"Ready", "Quiescent", "UnhandledFailure"}
BY DEF TypeOK, NotifyStatus, CheckAndNotify

(* A command that rewrites the record of s, and perhaps replies a startup, *)
(* by a RecordStep of s is one for every service.                          *)
LEMMA OneRecord ==
  ASSUME TypeOK, NEW s \in Service, NEW q \in ServiceState, NEW g \in Seq(Nat),
         svc' = [svc EXCEPT ![s] = q],
         granted' = [granted EXCEPT ![s] = g],
         RecordStep(svc[s], granted[s], q, g)
  PROVE  /\ svc' \in [Service -> ServiceState]
         /\ granted' \in [Service -> Seq(Nat)]
         /\ \A t \in Service :
               RecordStep(svc[t], granted[t], svc'[t], granted'[t])
<1>1. ASSUME NEW t \in Service, t # s
      PROVE  RecordStep(svc[t], granted[t], svc'[t], granted'[t])
  <2>1. svc'[t] = svc[t] /\ granted'[t] = granted[t]
    BY <1>1 DEF TypeOK
  <2>2. OtherStep(svc[t], granted[t], svc[t], granted[t])
    BY DEF OtherStep
  <2> QED
    BY <2>1, <2>2 DEF RecordStep
<1>2. svc'[s] = q /\ granted'[s] = g
  BY DEF TypeOK
<1> QED
  BY <1>1, <1>2 DEF TypeOK

(* The same for a command that replies no startup.                         *)
LEMMA OneRecordNoGrant ==
  ASSUME TypeOK, NEW s \in Service, NEW q \in ServiceState,
         svc' = [svc EXCEPT ![s] = q], granted' = granted,
         RecordStep(svc[s], granted[s], q, granted[s])
  PROVE  /\ svc' \in [Service -> ServiceState]
         /\ granted' \in [Service -> Seq(Nat)]
         /\ \A t \in Service :
               RecordStep(svc[t], granted[t], svc'[t], granted'[t])
<1>1. granted' = [granted EXCEPT ![s] = granted[s]] /\ granted[s] \in Seq(Nat)
  BY DEF TypeOK
<1> QED
  BY <1>1, OneRecord

(* A command that leaves every record and reply alone.                     *)
LEMMA NoRecord ==
  ASSUME TypeOK, svc' = svc, granted' = granted
  PROVE  /\ svc' \in [Service -> ServiceState]
         /\ granted' \in [Service -> Seq(Nat)]
         /\ \A t \in Service :
               RecordStep(svc[t], granted[t], svc'[t], granted'[t])
BY DEF TypeOK, RecordStep, OtherStep

(* set_service_status, by SetServiceStatus or TransitionServiceStartup.    *)
LEMMA SetServiceStatusStep ==
  ASSUME TypeOK, NEW s \in Service, NEW new \in ServiceStatus,
         SetServiceStatus(s, new)
  PROVE  ActorStep
<1>1. svc[s] \in ServiceState
  BY DEF TypeOK
<1>2. WithStatus(svc[s], new) \in ServiceState
  BY <1>1, WithStatusType
<1>3. RecordStep(svc[s], granted[s], WithStatus(svc[s], new), granted[s])
  BY DEF RecordStep, StatusStep
<1>4. /\ svc' = [svc EXCEPT ![s] = WithStatus(svc[s], new)]
      /\ granted' = granted
      /\ UNCHANGED <<counterVars, startup_in_progress>>
      /\ NotifyStatus(s, new)
  BY DEF SetServiceStatus, set_service_status
<1> QED
  BY <1>2, <1>3, <1>4, OneRecordNoGrant, NotifyStatusType
     DEF ActorStep, TypeOK, counterVars

(* The claims that enter Waiting or Restarting.                            *)
LEMMA ClaimWithStatusStep ==
  ASSUME TypeOK, NEW s \in Service, NEW new \in {"Waiting", "Restarting"},
         svc[s].status \notin {"Waiting", "Restarting"},
         ClaimWithStatus(s, new)
  PROVE  ActorStep
<1> DEFINE q == claim_startup(WithStatus(svc[s], new))
<1>1. svc[s] \in ServiceState /\ new \in ServiceStatus
  BY DEF TypeOK, ServiceStatus
<1>2. WithStatus(svc[s], new) \in ServiceState
  BY <1>1, WithStatusType
<1>3. q \in ServiceState /\ q.claim \in Nat
  BY <1>2, ClaimStartupFields DEF ServiceState
<1>4. /\ svc' = [svc EXCEPT ![s] = q]
      /\ granted' = [granted EXCEPT ![s] = Append(granted[s], svc'[s].claim)]
      /\ UNCHANGED <<counterVars, startup_in_progress>>
      /\ NotifyStatus(s, new)
  BY DEF ClaimWithStatus, Grant
<1>5. svc'[s] = q
  BY <1>4 DEF TypeOK
<1>6. FreshClaimStep(svc[s], granted[s], q, Append(granted[s], q.claim))
  BY DEF FreshClaimStep
<1> HIDE DEF q
<1>7. Append(granted[s], q.claim) \in Seq(Nat)
  BY <1>3 DEF TypeOK
<1> QED
  BY <1>3, <1>4, <1>5, <1>6, <1>7, OneRecord, NotifyStatusType
     DEF ActorStep, TypeOK, counterVars, RecordStep

(* The three claim commands.                                               *)
LEMMA ClaimCommandStep ==
  ASSUME TypeOK, NEW s \in Service, ClaimCommand(s)
  PROVE  ActorStep
<1>0. svc[s] \in ServiceState
  BY DEF TypeOK
<1>1. CASE ClaimServiceStart(s)
  <2>1. CASE ~is_active(svc[s].status) /\ ClaimWithStatus(s, "Waiting")
    <3>1. svc[s].status \notin {"Waiting", "Restarting"}
      BY <2>1 DEF is_active
    <3> QED
      BY <2>1, <3>1, ClaimWithStatusStep
  <2>2. CASE /\ svc[s].status = "Waiting"
             /\ svc' = [svc EXCEPT ![s] = claim_startup(svc[s])]
             /\ events' = {}
             /\ UNCHANGED <<fenceVars, counterVars>>
             /\ Grant(s)
    <3> DEFINE q == claim_startup(svc[s])
    <3>1. svc[s].status = "Waiting" /\ svc[s].claim = NoStartup
      BY <1>1, <2>2 DEF ClaimServiceStart, CanClaimServiceStart, is_active
    <3>2. q \in ServiceState /\ q.claim \in Nat
      BY <1>0, ClaimStartupFields DEF ServiceState
    <3>3. PlainClaimStep(svc[s], granted[s], q, Append(granted[s], q.claim))
      BY <3>1 DEF PlainClaimStep
    <3>4. svc' = [svc EXCEPT ![s] = q] /\ svc'[s] = q
      BY <2>2 DEF TypeOK
    <3> HIDE DEF q
    <3>5. Append(granted[s], q.claim) \in Seq(Nat)
      BY <3>2 DEF TypeOK
    <3>6. granted' = [granted EXCEPT ![s] = Append(granted[s], q.claim)]
      BY <2>2, <3>4 DEF Grant
    <3> QED
      BY <2>2, <3>2, <3>3, <3>4, <3>5, <3>6, OneRecord
         DEF ActorStep, TypeOK, counterVars, fenceVars, RecordStep
  <2> QED
    BY <1>1, <2>1, <2>2 DEF ClaimServiceStart
<1>2. CASE ClaimServiceRestart(s)
  <2>1. svc[s].status \notin {"Waiting", "Restarting"}
    BY <1>2 DEF ClaimServiceRestart, CanClaimServiceRestart, is_running
  <2> QED
    BY <1>2, <2>1, ClaimWithStatusStep DEF ClaimServiceRestart
<1>3. CASE \E states \in SUBSET RestartState :
              ClaimInactiveServiceRestart(s, states)
  <2>1. svc[s].status \notin {"Waiting", "Restarting"}
    BY <1>3 DEF ClaimInactiveServiceRestart, CanClaimInactiveServiceRestart,
                RestartState
  <2> QED
    BY <1>3, <2>1, ClaimWithStatusStep DEF ClaimInactiveServiceRestart
<1> QED
  BY <1>1, <1>2, <1>3 DEF ClaimCommand

(* SetServiceStatus and TransitionServiceStartup.                          *)
LEMMA StatusCommandStep ==
  ASSUME TypeOK, NEW s \in Service, StatusCommand(s)
  PROVE  ActorStep
<1>1. ClientStatus \subseteq ServiceStatus /\ TransitionStatus \subseteq ServiceStatus
  BY DEF ClientStatus, TransitionStatus, ServiceStatus
<1>2. ASSUME NEW startup, NEW new, TransitionServiceStartup(s, startup, new)
      PROVE  SetServiceStatus(s, new)
  BY <1>2 DEF TransitionServiceStartup, SetServiceStatus
<1> QED
  BY <1>1, <1>2, SetServiceStatusStep DEF StatusCommand

(* A command that goes through SetService and writes a record that is an   *)
(* OtherStep; the counters it may advance stay natural numbers.            *)
LEMMA SetServiceStep ==
  ASSUME TypeOK, NEW s \in Service, NEW q \in ServiceState,
         SetService(s, q), OtherStep(svc[s], granted[s], q, granted[s]),
         next_service_instance' \in Nat, next_health_check' \in Nat
  PROVE  ActorStep
<1>1. /\ svc' = [svc EXCEPT ![s] = q] /\ granted' = granted
      /\ events' = {} /\ UNCHANGED fenceVars
  BY DEF SetService
<1>2. RecordStep(svc[s], granted[s], q, granted[s])
  BY DEF RecordStep
<1> QED
  BY <1>1, <1>2, OneRecordNoGrant DEF ActorStep, TypeOK, fenceVars

(* The commands about the process.                                         *)
LEMMA ProcessCommandStep ==
  ASSUME TypeOK, NEW s \in Service, ProcessCommand(s)
  PROVE  ActorStep
<1> DEFINE r == svc[s]
<1>0. /\ r \in ServiceState
      /\ next_service_instance \in Nat
      /\ next_health_check \in Nat
      /\ 0 \in Nat
  BY DEF TypeOK
<1> HIDE DEF r
<1>1. CASE RegisterServiceInstance(s)
  <2> DEFINE i == next_service_instance + 1
             r1 == [r EXCEPT !.pid = i]
             r2 == [r1 EXCEPT !.session = 0]
             r3 == [r2 EXCEPT !.instance = i]
  <2>1. i \in Nat
    BY <1>0
  <2>2. /\ SetService(s, [r EXCEPT !.pid = i, !.session = 0, !.instance = i])
        /\ next_service_instance' = i /\ next_health_check' = next_health_check
    BY <1>1 DEF RegisterServiceInstance, r
  <2>3. r3 = [r EXCEPT !.pid = i, !.session = 0, !.instance = i]
    OBVIOUS
  <2>4. r3.session = 0 /\ OtherStep(r, granted[s], r3, granted[s])
    BY <1>0 DEF OtherStep, ServiceState
  <2> HIDE DEF i
  <2>5. r1 \in ServiceState
    BY <1>0, <2>1, SetField
  <2> HIDE DEF r1
  <2>6. r2 \in ServiceState
    BY <1>0, <2>5, SetField
  <2> HIDE DEF r2
  <2>7. r3 \in ServiceState
    BY <2>1, <2>6, SetField
  <2> HIDE DEF r3
  <2> QED
    BY <1>0, <2>1, <2>2, <2>3, <2>4, <2>7, SetServiceStep DEF r
<1>2. CASE \E i \in 1..next_service_instance : StoreProcessHandle(s, i)
  <2>1. PICK i \in 1..next_service_instance : StoreProcessHandle(s, i)
    BY <1>2
  <2> DEFINE q == [r EXCEPT !.process = i]
  <2>2. SetService(s, q) /\ UNCHANGED counterVars
    BY <2>1 DEF StoreProcessHandle, r
  <2>3. q \in ServiceState
    BY <1>0, SetField
  <2>4. OtherStep(r, granted[s], q, granted[s])
    BY <1>0 DEF OtherStep, ServiceState
  <2> HIDE DEF q
  <2> QED
    BY <1>0, <2>2, <2>3, <2>4, SetServiceStep DEF r, counterVars
<1>3. CASE RemoveProcessHandle(s)
  <2> DEFINE q == [r EXCEPT !.process = 0]
  <2>2. SetService(s, q) /\ UNCHANGED counterVars
    BY <1>3 DEF RemoveProcessHandle, r
  <2>3. q \in ServiceState
    BY <1>0, SetField
  <2>4. OtherStep(r, granted[s], q, granted[s])
    BY <1>0 DEF OtherStep, ServiceState
  <2> HIDE DEF q
  <2> QED
    BY <1>0, <2>2, <2>3, <2>4, SetServiceStep DEF r, counterVars
<1>4. CASE \E code \in ExitCode \cup {NoExitCode} : RecordProcessExit(s, code)
  <2>1. PICK code \in ExitCode \cup {NoExitCode} : RecordProcessExit(s, code)
    BY <1>4
  <2> DEFINE r1 == [r EXCEPT !.session = 0]
             r2 == [r1 EXCEPT !.process = 0]
             r3 == [r2 EXCEPT !.exit_code = code]
             r4 == [r3 EXCEPT !.pid = 0]
  <2>2. code \in Int
    BY ExitCodeAssumption DEF NoExitCode
  <2>3. /\ SetService(s, [r EXCEPT !.session = 0, !.process = 0,
                                   !.exit_code = code, !.pid = 0])
        /\ UNCHANGED counterVars
    BY <2>1 DEF RecordProcessExit, r
  <2>4. r4 = [r EXCEPT !.session = 0, !.process = 0, !.exit_code = code, !.pid = 0]
    OBVIOUS
  <2>5. OtherStep(r, granted[s], r4, granted[s])
    BY <1>0 DEF OtherStep, ServiceState
  <2>6. r1 \in ServiceState
    BY <1>0, SetField
  <2> HIDE DEF r1
  <2>7. r2 \in ServiceState
    BY <1>0, <2>6, SetField
  <2> HIDE DEF r2
  <2>8. r3 \in ServiceState
    BY <2>2, <2>7, SetField
  <2> HIDE DEF r3
  <2>9. r4 \in ServiceState
    BY <1>0, <2>8, SetField
  <2> HIDE DEF r4
  <2> QED
    BY <1>0, <2>3, <2>4, <2>5, <2>9, SetServiceStep DEF r, counterVars
<1>5. CASE ClearServicePid(s)
  <2> DEFINE q == [r EXCEPT !.pid = 0]
  <2>2. SetService(s, q) /\ UNCHANGED counterVars
    BY <1>5 DEF ClearServicePid, r
  <2>3. q \in ServiceState
    BY <1>0, SetField
  <2>4. OtherStep(r, granted[s], q, granted[s])
    BY <1>0 DEF OtherStep, ServiceState
  <2> HIDE DEF q
  <2> QED
    BY <1>0, <2>2, <2>3, <2>4, SetServiceStep DEF r, counterVars
<1>6. CASE MarkServiceInitialized(s)
  <2> DEFINE q == [r EXCEPT !.initialized = TRUE]
  <2>2. SetService(s, q) /\ UNCHANGED counterVars
    BY <1>6 DEF MarkServiceInitialized, r
  <2>3. q \in ServiceState
    BY <1>0, SetField
  <2>4. OtherStep(r, granted[s], q, granted[s])
    BY <1>0 DEF OtherStep, ServiceState
  <2> HIDE DEF q
  <2> QED
    BY <1>0, <2>2, <2>3, <2>4, SetServiceStep DEF r, counterVars
<1> QED
  BY <1>1, <1>2, <1>3, <1>4, <1>5, <1>6 DEF ProcessCommand

(* The commands about health checks.                                       *)
LEMMA HealthCommandStep ==
  ASSUME TypeOK, NEW s \in Service, HealthCommand(s)
  PROVE  ActorStep
<1> DEFINE r == svc[s]
<1>0. /\ r \in ServiceState
      /\ next_service_instance \in Nat
      /\ next_health_check \in Nat
      /\ 0 \in Nat
  BY DEF TypeOK
<1> HIDE DEF r
<1>1. CASE \E i \in 1..next_service_instance : BeginHealthCheck(s, i)
  <2>1. PICK i \in 1..next_service_instance : BeginHealthCheck(s, i)
    BY <1>1
  <2> DEFINE n == next_health_check + 1
             r1 == [r EXCEPT !.session = n]
             r2 == [r1 EXCEPT !.session_for = i]
  <2>2. n \in Nat /\ i \in Nat
    BY <1>0
  <2>3. /\ SetService(s, [r EXCEPT !.session = n, !.session_for = i])
        /\ next_health_check' = n
        /\ next_service_instance' = next_service_instance
        /\ r.instance = i /\ is_running(r.status)
    BY <2>1 DEF BeginHealthCheck, CanBeginHealthCheck, r
  <2>4. r2 = [r EXCEPT !.session = n, !.session_for = i]
    OBVIOUS
  <2>5. OtherStep(r, granted[s], r2, granted[s])
    BY <1>0, <2>3 DEF OtherStep, ServiceState
  <2> HIDE DEF n
  <2>6. r1 \in ServiceState
    BY <1>0, <2>2, SetField
  <2> HIDE DEF r1
  <2>7. r2 \in ServiceState
    BY <2>2, <2>6, SetField
  <2> HIDE DEF r2
  <2> QED
    BY <1>0, <2>2, <2>3, <2>4, <2>5, <2>7, SetServiceStep DEF r
<1>2. CASE CancelHealthCheck(s)
  <2> DEFINE q == [r EXCEPT !.session = 0]
  <2>2. SetService(s, q) /\ UNCHANGED counterVars
    BY <1>2 DEF CancelHealthCheck, r
  <2>3. q \in ServiceState
    BY <1>0, SetField
  <2>4. OtherStep(r, granted[s], q, granted[s])
    BY <1>0 DEF OtherStep, ServiceState
  <2> HIDE DEF q
  <2> QED
    BY <1>0, <2>2, <2>3, <2>4, SetServiceStep DEF r, counterVars
<1>3. CASE \E session \in 1..next_health_check, passed \in BOOLEAN :
              UpdateHealthCheck(s, session, passed)
  <2>1. PICK session \in 1..next_health_check, passed \in BOOLEAN :
                UpdateHealthCheck(s, session, passed)
    BY <1>3
  <2> DEFINE q == WithHealthResult(r, passed, Retries[s])
  <2>2. is_running(r.status) /\ Retries[s] \in Nat
    BY <2>1, HealthcheckAssumption
       DEF UpdateHealthCheck, is_health_check_current, r
  <2>3. /\ q \in ServiceState
        /\ is_running(q.status)
        /\ q.generation = r.generation
        /\ q.claim = r.claim
        /\ q.session = r.session
        /\ q.session_for = r.session_for
        /\ q.instance = r.instance
    BY <1>0, <2>2, WithHealthResultFields
  <2>4. /\ UNCHANGED counterVars
        /\ \/ SetService(s, q)
           \/ /\ svc' = [svc EXCEPT ![s] = q]
              /\ UNCHANGED <<startup_in_progress, granted>>
              /\ CheckAndNotify(last_ready, last_quiescent, FALSE, {})
    BY <2>1 DEF UpdateHealthCheck, r
  <2> HIDE DEF q
  <2>5. OtherStep(r, granted[s], q, granted[s])
    BY <2>2, <2>3 DEF OtherStep
  <2>6. CASE SetService(s, q)
    BY <1>0, <2>3, <2>4, <2>5, <2>6, SetServiceStep DEF r, counterVars
  <2>7. CASE /\ svc' = [svc EXCEPT ![s] = q]
             /\ UNCHANGED <<startup_in_progress, granted>>
             /\ CheckAndNotify(last_ready, last_quiescent, FALSE, {})
    <3>1. RecordStep(svc[s], granted[s], q, granted[s])
      BY <2>5 DEF RecordStep, r
    <3>2. /\ last_ready' \in BOOLEAN
          /\ last_quiescent' \in BOOLEAN
          /\ events' \subseteq {"Ready", "Quiescent", "UnhandledFailure"}
      BY <2>7 DEF CheckAndNotify, TypeOK
    <3> QED
      BY <2>3, <2>4, <2>7, <3>1, <3>2, OneRecordNoGrant
         DEF ActorStep, TypeOK, counterVars
  <2> QED
    BY <2>4, <2>6, <2>7
<1> QED
  BY <1>1, <1>2, <1>3 DEF HealthCommand

(* The fence and the re-check write no record.                             *)
LEMMA SignalCommandStep ==
  ASSUME TypeOK,
         \/ \E raised \in BOOLEAN : SetStartupInProgress(raised)
         \/ RecheckReadyQuiescent
  PROVE  ActorStep
<1>1. /\ svc' = svc /\ granted' = granted /\ UNCHANGED counterVars
      /\ startup_in_progress' \in BOOLEAN
  BY DEF SetStartupInProgress, RecheckReadyQuiescent, TypeOK
<1>2. /\ last_ready' \in BOOLEAN
      /\ last_quiescent' \in BOOLEAN
      /\ events' \subseteq {"Ready", "Quiescent", "UnhandledFailure"}
  BY DEF SetStartupInProgress, RecheckReadyQuiescent, CheckAndNotify, TypeOK
<1> QED
  BY <1>1, <1>2, NoRecord DEF ActorStep, TypeOK, counterVars

(* Every step of the actor, stuttering included.                           *)
LEMMA NextIsActorStep ==
  ASSUME TypeOK, [Next]_actorVars
  PROVE  ActorStep
<1>1. CASE Next
  BY <1>1, ClaimCommandStep, StatusCommandStep, ProcessCommandStep,
     HealthCommandStep, SignalCommandStep DEF Next
<1>2. CASE UNCHANGED actorVars
  BY <1>2, NoRecord DEF ActorStep, TypeOK, actorVars, fenceVars, counterVars
<1> QED
  BY <1>1, <1>2

----------------------------------------------------------------------------
(* The inductive invariant.                                                *)

IInv ==
  /\ TypeOK
  /\ ClaimsAreCurrent
  /\ GrantsArePast
  /\ NoStartupGrantedTwice
  /\ HealthSessionOfLiveInstance

(* The per-service parts of IInv on a record r and the replies g.          *)
ClaimCurrent(r) ==
  r.claim # NoStartup => r.claim = r.generation /\ r.status \in StartupStatus

GrantPast(r, g) ==
  \A k \in DOMAIN g :
     /\ g[k] <= r.generation
     /\ r.status = "Waiting" /\ r.claim = NoStartup => g[k] < r.generation

GrantsIncrease(g) == \A j, k \in DOMAIN g : j < k => g[j] < g[k]

SessionLive(r) ==
  r.session # 0 => is_running(r.status) /\ r.session_for = r.instance

RecordInv(r, g) ==
  ClaimCurrent(r) /\ GrantPast(r, g) /\ GrantsIncrease(g) /\ SessionLive(r)

(* The invariant is one of every service's record and replies by itself.   *)
LEMMA IInvByRecord ==
  IInv <=> TypeOK /\ \A s \in Service : RecordInv(svc[s], granted[s])
BY DEF IInv, ClaimsAreCurrent, GrantsArePast, NoStartupGrantedTwice,
       HealthSessionOfLiveInstance, RecordInv, ClaimCurrent, GrantPast,
       GrantsIncrease, SessionLive

(* No startup replied in g is current in r1 that was not current in r.     *)
NoneRevived(r, g, r1) ==
  \A k \in DOMAIN g :
     service_startup(r1) = g[k] => service_startup(r) = g[k]

(* A reply of the generation that was just claimed extends the replies.    *)
LEMMA AppendGrant ==
  ASSUME NEW g \in Seq(Nat), NEW n \in Nat, GrantsIncrease(g),
         \A k \in DOMAIN g : g[k] < n
  PROVE  /\ GrantsIncrease(Append(g, n))
         /\ \A k \in DOMAIN Append(g, n) : Append(g, n)[k] <= n
<1> DEFINE g1 == Append(g, n)
<1>1. /\ DOMAIN g = 1..Len(g) /\ DOMAIN g1 = 1..(Len(g) + 1) /\ Len(g) \in Nat
      /\ g1[Len(g) + 1] = n
      /\ \A k \in 1..Len(g) : g1[k] = g[k] /\ g[k] \in Nat
  OBVIOUS
<1> HIDE DEF g1
<1>2. GrantsIncrease(g1)
  BY <1>1 DEF GrantsIncrease
<1>3. \A k \in DOMAIN g1 : g1[k] <= n
  BY <1>1
<1> QED
  BY <1>2, <1>3 DEF g1

(* Every way a command rewrites a record keeps its invariant and revives   *)
(* no startup.                                                             *)
LEMMA RecordInvStep ==
  ASSUME NEW r \in ServiceState, NEW r1 \in ServiceState, NEW g \in Seq(Nat),
         NEW g1, RecordInv(r, g), RecordStep(r, g, r1, g1)
  PROVE  RecordInv(r1, g1) /\ NoneRevived(r, g, r1)
<1>0. /\ r.generation \in Nat /\ r1.generation \in Nat
      /\ r.claim \in Nat \cup {NoStartup} /\ NoStartup \notin Nat
      /\ r.status \in ServiceStatus
      /\ \A k \in DOMAIN g : g[k] \in Nat
  <2>1. \A k \in DOMAIN g : g[k] \in Nat
    OBVIOUS
  <2> QED
    BY <2>1 DEF ServiceState, NoStartup
<1>1. CASE StatusStep(r, g, r1, g1)
  <2>1. PICK new \in ServiceStatus : r1 = WithStatus(r, new)
    BY <1>1 DEF StatusStep
  <2>2. /\ r1.status = new
        /\ r1.generation = IF InvalidatesStartup(r.status, new)
                           THEN r.generation + 1 ELSE r.generation
        /\ r1.claim =
              IF InvalidatesStartup(r.status, new) \/ new \notin StartupStatus
              THEN NoStartup ELSE r.claim
        /\ r1.session = IF is_running(new) THEN r.session ELSE 0
        /\ r1.session_for = r.session_for
        /\ r1.instance = r.instance
    BY <2>1, WithStatusFields
  <2>3. g1 = g
    BY <1>1 DEF StatusStep
  <2>4. ClaimCurrent(r1)
    BY <2>2 DEF RecordInv, ClaimCurrent
  <2>5. GrantPast(r1, g)
    BY <1>0, <2>2 DEF RecordInv, GrantPast, ClaimCurrent, InvalidatesStartup,
                      StartupStatus
  <2>6. SessionLive(r1)
    BY <2>2 DEF RecordInv, SessionLive
  <2>7. NoneRevived(r, g, r1)
    BY <1>0, <2>2 DEF NoneRevived, service_startup, RecordInv, ClaimCurrent
  <2> QED
    BY <2>3, <2>4, <2>5, <2>6, <2>7 DEF RecordInv
<1>2. CASE PlainClaimStep(r, g, r1, g1)
  <2>1. /\ r.status = "Waiting" /\ r.claim = NoStartup
        /\ g1 = Append(g, r1.claim)
        /\ r1.claim = r.generation
        /\ r1.generation = r.generation
        /\ r1.status = r.status
        /\ r1.session = r.session
        /\ r1.session_for = r.session_for
        /\ r1.instance = r.instance
    BY <1>2, ClaimStartupFields DEF PlainClaimStep
  <2>2. \A k \in DOMAIN g : g[k] < r.generation
    BY <2>1 DEF RecordInv, GrantPast
  <2>3. /\ GrantsIncrease(g1)
        /\ \A k \in DOMAIN g1 : g1[k] <= r.generation
    BY <1>0, <2>1, <2>2, AppendGrant DEF RecordInv
  <2>4. GrantPast(r1, g1)
    BY <1>0, <2>1, <2>3 DEF GrantPast
  <2>5. ClaimCurrent(r1) /\ SessionLive(r1)
    BY <2>1 DEF RecordInv, ClaimCurrent, SessionLive, StartupStatus
  <2>6. NoneRevived(r, g, r1)
    BY <1>0, <2>1, <2>2 DEF NoneRevived, service_startup
  <2> QED
    BY <2>3, <2>4, <2>5, <2>6 DEF RecordInv
<1>3. CASE FreshClaimStep(r, g, r1, g1)
  <2>1. PICK new \in {"Waiting", "Restarting"} :
               r1 = claim_startup(WithStatus(r, new))
    BY <1>3 DEF FreshClaimStep
  <2> DEFINE q == WithStatus(r, new)
  <2>2. new \in ServiceStatus /\ InvalidatesStartup(r.status, new)
    BY <1>3 DEF ServiceStatus, FreshClaimStep, InvalidatesStartup
  <2>3. /\ q \in ServiceState
        /\ q.status = new
        /\ q.generation = r.generation + 1
        /\ q.session = 0
    BY <2>2, WithStatusType, WithStatusFields DEF is_running
  <2>4. /\ g1 = Append(g, r1.claim)
        /\ r1.claim = r.generation + 1
        /\ r1.generation = r.generation + 1
        /\ r1.status = new
        /\ r1.session = 0
    BY <1>3, <2>1, <2>3, ClaimStartupFields DEF FreshClaimStep
  <2>5. \A k \in DOMAIN g : g[k] < r.generation + 1
    BY <1>0 DEF RecordInv, GrantPast
  <2>6. /\ GrantsIncrease(g1)
        /\ \A k \in DOMAIN g1 : g1[k] <= r.generation + 1
    BY <1>0, <2>4, <2>5, AppendGrant DEF RecordInv
  <2>7. GrantPast(r1, g1)
    BY <1>0, <2>4, <2>6 DEF GrantPast
  <2>8. ClaimCurrent(r1) /\ SessionLive(r1)
    BY <2>4 DEF ClaimCurrent, SessionLive, StartupStatus
  <2>9. NoneRevived(r, g, r1)
    BY <1>0, <2>4, <2>5 DEF NoneRevived, service_startup, StartupStatus
  <2> QED
    BY <2>6, <2>7, <2>8, <2>9 DEF RecordInv
<1>4. CASE OtherStep(r, g, r1, g1)
  <2>1. ClaimCurrent(r1)
    BY <1>4 DEF OtherStep, RecordInv, ClaimCurrent, is_running, StartupStatus
  <2>2. GrantPast(r1, g1) /\ GrantsIncrease(g1)
    BY <1>4 DEF OtherStep, RecordInv, GrantPast, is_running
  <2>3. SessionLive(r1)
    BY <1>4 DEF OtherStep, RecordInv, SessionLive
  <2>4. NoneRevived(r, g, r1)
    BY <1>0, <1>4 DEF OtherStep, NoneRevived, service_startup, is_running,
                      StartupStatus
  <2> QED
    BY <2>1, <2>2, <2>3, <2>4 DEF RecordInv
<1> QED
  BY <1>1, <1>2, <1>3, <1>4 DEF RecordStep

----------------------------------------------------------------------------
(* The theorems.                                                           *)

(* The initial state, every service Stopped and nothing claimed.           *)
LEMMA InitIInv == Init => IInv
<1> SUFFICES ASSUME Init PROVE IInv
  OBVIOUS
<1>1. DefaultServiceState \in ServiceState
  BY DEF DefaultServiceState, ServiceState, ServiceStatus, NoExitCode, NoStartup
<1>2. TypeOK
  <2>1. << >> \in Seq(Nat)
    OBVIOUS
  <2>2. /\ svc \in [Service -> ServiceState]
        /\ granted \in [Service -> Seq(Nat)]
    BY <1>1, <2>1 DEF Init
  <2> QED
    BY <2>2 DEF Init, TypeOK
<1>3. ASSUME NEW s \in Service PROVE RecordInv(svc[s], granted[s])
  <2>1. svc[s] = DefaultServiceState /\ granted[s] = << >>
    BY DEF Init
  <2>2. RecordInv(DefaultServiceState, << >>)
    BY DEF RecordInv, ClaimCurrent, GrantPast, GrantsIncrease, SessionLive,
           DefaultServiceState
  <2> QED
    BY <2>1, <2>2
<1> QED
  BY <1>2, <1>3, IInvByRecord

(* One command preserves the invariant and revives no startup.             *)
LEMMA NextIInv ==
  ASSUME IInv, [Next]_actorVars
  PROVE  /\ IInv'
         /\ \A s \in Service : NoneRevived(svc[s], granted[s], svc'[s])
<1>1. ActorStep
  BY NextIsActorStep DEF IInv
<1>2. ASSUME NEW s \in Service
      PROVE  /\ RecordInv(svc'[s], granted'[s])
             /\ NoneRevived(svc[s], granted[s], svc'[s])
  <2>1. /\ svc[s] \in ServiceState /\ svc'[s] \in ServiceState
        /\ granted[s] \in Seq(Nat)
        /\ RecordStep(svc[s], granted[s], svc'[s], granted'[s])
    BY <1>1 DEF ActorStep, IInv, TypeOK
  <2>2. RecordInv(svc[s], granted[s])
    BY IInvByRecord
  <2> QED
    BY <2>1, <2>2, RecordInvStep
<1>3. TypeOK'
  BY <1>1 DEF ActorStep
<1>4. IInv' <=> TypeOK' /\ \A s \in Service : RecordInv(svc'[s], granted'[s])
  BY DEF IInv, ClaimsAreCurrent, GrantsArePast, NoStartupGrantedTwice,
         HealthSessionOfLiveInstance, RecordInv, ClaimCurrent, GrantPast,
         GrantsIncrease, SessionLive
<1> QED
  BY <1>2, <1>3, <1>4

(* The inductive invariant holds of every behaviour of the actor.          *)
THEOREM Invariance == Spec => []IInv
<1>1. IInv /\ [Next]_actorVars => IInv'
  BY NextIInv
<1> QED
  BY <1>1, InitIInv, PTL DEF Spec

(* The actor's state is always well-formed.                                *)
THEOREM TypeCorrect == Spec => []TypeOK
<1>1. IInv => TypeOK
  BY DEF IInv
<1> QED
  BY <1>1, Invariance, PTL

(* Whoever holds a claim owns the startup of a service on its way up.      *)
THEOREM ClaimsStayCurrent == Spec => []ClaimsAreCurrent
<1>1. IInv => ClaimsAreCurrent
  BY DEF IInv
<1> QED
  BY <1>1, Invariance, PTL

(* No overlapping start, restart or recovery request is ever given a       *)
(* startup that was given out before.                                      *)
THEOREM StartupGrantedOnce == Spec => []NoStartupGrantedTwice
<1>1. IInv => NoStartupGrantedTwice
  BY DEF IInv
<1> QED
  BY <1>1, Invariance, PTL

(* A cancelled startup stays cancelled: no command makes one current that  *)
(* was replied earlier and is no longer current.                           *)
THEOREM CancellationIsFinal == Spec => CancelledStaysCancelled
<1>1. IInv /\ [Next]_actorVars =>
        [\A s \in Service : \A k \in DOMAIN granted[s] :
            service_startup(svc'[s]) = granted[s][k] =>
               service_startup(svc[s]) = granted[s][k]]_actorVars
  BY NextIInv DEF NoneRevived
<1> QED
  BY <1>1, Invariance, PTL DEF Spec, CancelledStaysCancelled

(* An open health-check session is one of the current process instance of  *)
(* a running service.                                                      *)
THEOREM SessionsAreLive == Spec => []HealthSessionOfLiveInstance
<1>1. IInv => HealthSessionOfLiveInstance
  BY DEF IInv
<1> QED
  BY <1>1, Invariance, PTL

=============================================================================
