# A TLA+ model of Kepler

Kepler is a process orchestrator: one root daemon loads configurations, each of
which names services with dependencies, restart policies, hooks and health
checks, and starts, stops, restarts and watches their processes. This directory
holds TLA+ modules of its core, the TLC configurations that check them and
proofs checked by TLAPS.

## 1. The system

Paths are relative to `kepler-daemon/src/` unless they start with `kepler-`.

| Part | State | Operations | What is hard |
| --- | --- | --- | --- |
| Statuses, policies, conditions (`state.rs`, `deps.rs`, `config/restart.rs`, `config/deps.rs`) | none | predicates on a dependency's state | conditions that hold for a moment only, or can no longer come true |
| Config actor (`config_actor/`) | per service: status, exit code, startup generation and claim, process instance and handle, health-check session; startup fence; sent signals | one `ConfigCommand` at a time | commands of many tasks in any order; claims that outlive their lifecycle; signals lost or early |
| Orchestrator (`orchestrator/mod.rs`) | none of its own: local variables of concurrent tasks | start, stop, restart, restart of one service, `handle_exit` | everything read before an `await` and used after it |
| Processes (`process/`) | child, monitor task, spawn gate | spawn, monitor, stop | exits during registration, exits racing a stop, dropped shutdown senders |
| Containment (`containment.rs`, `kepler-unix`) | cgroups or process groups | kill, cleanup | a cleanup that meets the next instance |
| Health checks (`health.rs`) | one task per session | check loop, hooks on a change | results of a replaced process |
| Event handler (`orchestrator/events.rs`) | one channel per service | restart propagation, restart on unhealthy | sequential waits without timeout, full channels |
| Daemon and recovery (`main.rs`, `persistence.rs`) | snapshot and state files | load, kill orphans, respawn | a crash between two writes |
| Registry (`config_registry.rs`) | map of actors | get_or_create, unload, shutdown_all | removal racing creation |
| Log store, monitor (`logs/`, `monitor/`, `db_cleanup.rs`) | queue, batch, database | write, flush, discard, retention | failed batches, acknowledgements of lost writes |
| Watcher (`watcher.rs`) | suppression, debounce | file events to restarts | events during suppression |
| Hooks, outputs (`hooks.rs`, `outputs.rs`) | files of outputs | run hook steps | failing steps |
| Tokens, ACL (`token_store.rs`, `permissions.rs`, `acl.rs`) | registered tokens | register, revoke, match | a guard that replaces another |
| Protocol (`kepler-protocol/`) | pending requests, permits | request, response, event, cancel | answers for requests that were dropped |
| Configuration, templating, queries (`config/`, `lua/`, `query/`) | none | parse, validate, evaluate | data only |
| Command line, exec wrapper (`kepler-cli/`, `kepler-exec/`) | terminal state | user interface, system calls | out of scope |

The parts meet in the config actor. Every request of a client is a task of the
orchestrator that sends commands to the actor and awaits each reply, so between
two commands of one task any number of commands of other tasks run. Each process
has a monitor task that reports its exit to the daemon, which runs one
`handle_exit` task per report.

## 2. The modules

| Module | Models | State and actions |
| --- | --- | --- |
| `Deps` | the pure predicates of `state.rs`, `deps.rs`, `config/restart.rs`, `config/deps.rs` | operators with the source's names |
| `ConfigActor` | `config_actor/actor.rs` | `svc[s]` is the actor's `ServiceState` together with its entries in `startup_generations`, `startup_claims`, `service_instances`, `health_check_sessions` and `processes`; one action per `ConfigCommand` |
| `ConfigActorProofs` | | the theorems about `ConfigActor` |
| `Lifecycle` | `orchestrator/mod.rs`, `process/mod.rs`, `containment.rs` | the tasks: `req[r]` (requests), `launch[r, s]` (startups), `proc[i]` (process instance `i` with its monitor and exit handler); every step ends with one command of `ConfigActor` or none |
| `LogStore` | `logs/store.rs`, `run_cleanup_batches` of `db_cleanup.rs` | the channel, the writer thread with its batch, the database, the shared flags and counters, the threads that hold a handle, the file system; `pc` is where the writer thread is, an action goes from one access to shared state to the next |
| `MCConfigActor`, `MCLifecycle`, `MCLogStore` | | instances for TLC |

**ConfigActor** is written for the most general client: any command with any
argument a client may hold, in any order. `granted` and `session_for` are history
variables: the startups the claim commands replied, and the instance a
health-check session was begun for. Reasons, timestamps, environments, restart
counters and the persisted copy of the state are left out. The policy in the raw
and in the resolved configuration is taken to be the same. `Init` is a config
without saved state.

**Lifecycle** instantiates no second copy of the actor: it extends `ConfigActor`,
and its steps use the actor's actions literally. `ActorSpec` (checked by the run
`policy`) states that every behaviour of the orchestrator is one of the most
general client, so the theorems hold of it.

What one step of a task is: the code from one reply of the actor to the next.
Hooks, resolution, log retention, backoff and the restart delay lie between two
steps, that is, any other task may run in the meantime; their failure is the
choice `MayFail`. Further abstractions:

- `wait_for_dependencies` takes the dependencies one after the other, in a fixed
  order (`CurrentDependency`). It reads a dependency once for its condition and a
  second time to see whether the condition holds only until a restart; the reads
  that tell that a condition is out of reach are one step. The waiting task looks
  whenever it can: notification by the per-dependency watchers is left out;
- the services a restart selects are read in one step;
- with `MayFail`, `stop_service` may give up on the monitor after its safety
  timeout, `wait()` on a process may fail (an exit with neither code nor signal),
  and `handle_exit` may return before its cleanup because it has no evaluator for
  the outputs;
- timeouts that protect against a hung actor never fire: the 30 s of the spawn
  gate, the 5 s of a full exit channel;
- a graceful stop ends the process with any exit code or by the signal; a forced
  stop, and a monitor whose sender was dropped, kill it;
- configurations stay loaded; `--no-deps`, `--clean`, `recreate` and `run` are
  left out.

**LogStore** stands alone: the config actor and the process output tasks appear
as the threads that send entries, clears, flushes and the shutdown, in any order.
Time is left out: the flush interval, the cleanup interval and the time budget of
a cleanup may be over at any point where the code asks. The database is the
sequence of its rows. A write fails when the open file descriptor is stale or the
file system is down, when `shutdown_discard` interrupts it, and by a commit that
reports an error after its rows became durable; reopening succeeds whenever the
file system is up. `sent`, `acked`, `dropped` and `gone` are history variables.
Left out: `SetLogNotify` and the wakeup of readers, and a database that cannot be
opened at all.

## 3. Runs

Every run uses small sets: one service, or two with one edge between them, as the
races of the code are between tasks of one service, and an edge adds one waiting
task. `MaxRequests` and `MaxExits` bound what the environment does; the tasks
themselves are finite. In `live` every exit is by a signal (`ExitCode` is empty):
without a restart policy and with a `started` edge nobody reads the code.

| Run | Instance | Shows |
| --- | --- | --- |
| `actor` | one service, two generations, instances and sessions: a claim, its cancellation, the next claim, a replaced process and its old session all occur | claims stay current and are granted once, cancellation is final, sessions belong to the live instance, signals follow the state |
| `overlap` | any three of five kinds of request, failures | deadlock freedom (no task is stuck), `OneProcessPerService`, `NoTransientAtRest` |
| `policy` | any two requests, one exit, `on-failure`, failures | `EveryProcessReachable`, `NoTransientAtRest`, and `ActorSpec` (refinement) |
| `single` | one request of any kind, cgroups, health check, two exits at any point, failures | `RunningHasProcess`, `ProcessIsShown` |
| `logs` | a row left by an earlier run, two lines, a clear of hook lines, one flush, retention, shutdown or discard, one outage or up to three other faults; batches of 2, deletes of 1 | `PendingCountExact`, `FlushSyncMeansStored`, `OnlyOutagesLose`, `RowsInOrder`, `ClearedStaysCleared`, `NobodyForgotten` |
| `live` | two services, `started` edge, any two of a start and a stop of both and a restart of one, one exit, fairness | `RequestsFinish`, `StartupsResolve`, `DroppedIsReaped`, `SignalsFollowState`, `NoTransientAtRest` |
| `stopped_terminal` | `restart: always` | violation: a stopped config is not quiescent |
| `running_forever` | one start, `on-failure`, two exits | violation: Running without a process after a policy restart |
| `stop_pending` | start and stop, `on-failure`, one exit | violation: a stop does not cancel a startup that is past its last check |
| `stale_handle` | start, restart, one exit | violation: the exit of the old instance drops the handle of the new one |
| `logs_discard` | one line, one fault | violation: a flush reopens the database after the discard |
| `logs_degraded` | one line, one outage, no retention, fairness | violation: a recovered store stays degraded |

`Lifecycle` has an explicit step `Rest`, enabled only when all tasks are finished
or wait for a dependency, so TLC's deadlock check finds any other stuck state. The
run `live` leaves that to its temporal properties. The writer thread of
`LogStore` exits or waits on an empty channel, so its runs do not check deadlock.

The faults in `logs` are what a flush can meet: an outage lasts as long as it
likes, so one of them uses up all four attempts; a stale descriptor or an
ambiguous commit each cost one attempt, so three of them (`MaxFaults`) are the
most that `OnlyOutagesLose` promises to survive. A behaviour has the one or the
other, which keeps the instance small. Batches of 2 with two lines give full,
partial and empty batches; deletes of 1 give a cleanup that needs a second window.

*Fairness.* Tokio polls every task that was woken. `Lifecycle` assumes less: as
long as some task (a request, a startup, the registration, monitor or exit handler
of a process) can go on, one of them does; that suffices because every task is
finite. Nothing is assumed of processes exiting, requests arriving or checks
reporting. In `LogStore` the writer thread is weakly fair; `AfterFlushes` is strongly fair, because the flush interval is over
after finitely many iterations that keep a batch; and whoever has called
`shutdown_discard` goes on to call `shutdown`, as both its callers do.

*Disagreements.* Besides the six violations above, the models show more
without a run of their own. A stop during the backoff of `handle_exit` does not
keep it from spawning (the instance of `stop_pending` has this counterexample to
`StopCancelsPendingStartup` as well). When re-resolution fails in a policy restart
the service stays Starting, or Restarting if a manual restart was overtaken; it is
the exception `LeftComingUp` of `NoTransientAtRest`. Under `on-failure`
`StartupsResolve` does not hold: an exit handler that has decided to settle is
overtaken by a restart, sets Exited although the new process lives, and with the
exit code that the restart cleared the dependents take the service for one that
is about to restart and wait without end. That is why `live` has no restart
policy.
In the log store an entry sent after the thread has exited stays counted by
`has_pending` (`PendingCountExact` therefore speaks of the living thread), a clear
whose DELETE fails is logged and forgotten (`gone` only holds what a DELETE that
succeeded covers), and an interrupt that meets the last attempt of a flush raises
the degraded flag.

## 4. Proofs

`ConfigActorProofs` proves, for all values of the constants and for any number of
generations, instances and sessions:

- `TypeCorrect`: `TypeOK` is invariant;
- `ClaimsStayCurrent`, `StartupGrantedOnce`, `SessionsAreLive`: the invariants
  `ClaimsAreCurrent`, `NoStartupGrantedTwice` and `HealthSessionOfLiveInstance`;
- `CancellationIsFinal`: the action property `CancelledStaysCancelled`.

The assumptions are those of `ConfigActor` about its constants, which TLC evaluates.

`NoStartupGrantedTwice` is not inductive: a Waiting service without a claim might
be of a generation that was replied before. The inductive invariant `IInv` adds
`GrantsArePast` (no reply is of a generation to come, and an unclaimed Waiting
service is of a generation never replied) and `ClaimsAreCurrent`. The argument
goes through records: every command rewrites the record of at most one service,
by a `StatusStep`, a claim that bumps the generation (`FreshClaimStep`) or not
(`PlainClaimStep`), or an `OtherStep` that leaves status, generation and claim
alone up to health results; `NextIsActorStep` shows that each command is one of
these and `RecordInvStep` that each of these keeps the invariant of a record and
makes no replied startup current again.

Only model-checked: `SignalsFollowState` and everything about `Lifecycle` and
`LogStore`. The liveness properties are out of the prover's reach (fairness, ENABLED).

## 5. Plan

1. The wait loop: the notifications of the watchers in `wait_for_dependencies`;
   restart propagation and its channels.
2. The metrics writer on the pattern of the log store; `SetLogNotify` and the
   readers that wait for it.
3. Recovery: saved state, orphans, respawn, a crash between any two writes.
4. Registry, watcher, token guards, health-check loop, protocol client and
   server, hooks; backoff arithmetic and topological sorting as operators checked
   against a reference definition.
5. Proofs: `EveryProcessReachable` and the refinement of `ConfigActor` by
   `Lifecycle` for any requests; `PendingCountExact` and `ClearedStaysCleared` of
   `LogStore`; invariants of the modules of 1 to 4.
