------------------------------ MODULE LogStore ------------------------------
(***************************************************************************)
(* The log store of logs/store.rs with run_cleanup_batches of              *)
(* db_cleanup.rs: one writer thread (LogStoreActor) that owns the SQLite   *)
(* connection and takes commands from an unbounded channel, and the        *)
(* threads that hold a LogStoreHandle.                                     *)
(*                                                                         *)
(* A step of the writer goes from one access to state it shares with       *)
(* others (channel, discard_flag, database) to the next.  Left out:        *)
(* SetLogNotify and the wakeup of long-polling readers, the test seam.     *)
(***************************************************************************)
EXTENDS Naturals, SequencesExt, FiniteSetsExt

CONSTANTS
  Entry,         \* records [id, service, hook, timestamp]: lines to be logged
  Backlog,       \* rows the database holds when it is opened
  ClearCall,     \* records [op, service]: the clear commands clients send
  Flusher,       \* the threads that call wait_flush_sync
  Retention,     \* whether a retention period is configured
  Cutoff,        \* rows with a timestamp below are expired
  batch_size,
  CleanupBatch,  \* PERIODIC_CLEANUP_BATCH and STARTUP_CLEANUP_BATCH
  MaxFaults      \* bound: stale descriptors and ambiguous commits, or an outage

ASSUME LogAssumption ==
  /\ Backlog \in Seq(Entry)
  /\ Retention \in BOOLEAN
  /\ batch_size \in Nat \ {0} /\ CleanupBatch \in Nat \ {0}
  /\ \A e \in Entry : e.timestamp \in Nat /\ e.hook \in BOOLEAN

MAX_FLUSH_REOPEN_ATTEMPTS == 3

VARIABLES
  queue,    \* the channel
  batch, db,
  pc,       \* where the writer thread is
  attempt, count,  \* of flush_batch
  then,     \* where flush_batch returns to
  cmd,      \* the command handle_non_write is working on
  deleting, \* inside run_batched_delete
  cleanup_has_more,
  degraded, discard_flag, pending_count,  \* shared with the handles
  writer,   \* writer[e]: how far the thread that logs e is in send()
  flusher,  \* flusher[f]: how far thread f is in wait_flush_sync()
  unsent,   \* commands other than Write that clients have yet to send
  closed,   \* all handles were dropped
  conn, fs, \* the open file descriptor and the file system
  \* Faults so far: the open file descriptor went stale; the file system went
  \* away; a commit reported an error but was durable.
  stales, outages, ambiguous,
  \* History: the entries in the order they entered the channel; how many of
  \* them wait_flush_sync has acknowledged; those that a flush gave up; those
  \* a later clear command has removed.
  sent, acked, dropped, gone

handlerVars == <<cmd, deleting, cleanup_has_more>>
flushVars == <<attempt, count, then>>
batchVars == <<batch, pending_count>>
storeVars == <<db, conn, ambiguous>>
historyVars == <<acked, dropped, gone>>
(* What the writer thread never changes.                                   *)
clientVars ==
  <<discard_flag, writer, unsent, closed, sent, fs, stales, outages>>
logVars == <<queue, pc, handlerVars, flushVars, batchVars, storeVars, degraded,
             flusher, historyVars, clientVars>>

ClearOp == {"Clear", "ClearService", "ClearServiceHooks"}
Write(e) == [op |-> "Write", entry |-> e]
Shutdown == [op |-> "Shutdown"]
NoCommand == [op |-> "none"]

(* The rows the DELETE of clear command c matches.                         *)
Matches(c, e) ==
  \/ c.op = "Clear"
  \/ c.op = "ClearService" /\ e.service = c.service
  \/ c.op = "ClearServiceHooks" /\ e.service = c.service /\ e.hook

(* Up to MaxFaults transient faults, or one outage instead of them.        *)
MayFault == outages = 0 /\ stales + ambiguous < MaxFaults
MayGoDown == outages = 0 /\ stales + ambiguous = 0
Usable == conn = "open" /\ fs = "up"

----------------------------------------------------------------------------
(* flush_batch.                                                            *)

StartFlush(next) ==
  pc' = "flush" /\ attempt' = 0 /\ count' = 0 /\ then' = next

(* Return from flush_batch, whose local variables are dead then.           *)
Return == pc' = then /\ attempt' = 0 /\ count' = 0 /\ then' = "top"

(* The loop is over: the batch is gone, stored or not, and is subtracted   *)
(* from pending_count after that.                                          *)
EndFlush ==
  /\ batch' = << >>
  /\ count' = Len(batch)
  /\ attempt' = 0
  /\ pc' = "subtract"
  /\ UNCHANGED <<then, pending_count>>

FlushSubtracts ==
  /\ pc = "subtract"
  /\ pending_count' = pending_count - count
  /\ Return
  /\ UNCHANGED <<queue, handlerVars, batch, storeVars, degraded, flusher,
                 historyVars, clientVars>>

(* Without a batch, a degraded store checks whether it has recovered.      *)
FlushIdle ==
  /\ pc = "flush" /\ batch = << >>
  /\ IF degraded /\ ~discard_flag
     THEN pc' = "revalidate" /\ UNCHANGED flushVars
     ELSE Return
  /\ UNCHANGED <<queue, handlerVars, batchVars, storeVars, degraded, flusher,
                 historyVars, clientVars>>

FlushRevalidates ==
  /\ pc = "revalidate"
  /\ Return
  /\ IF fs = "up" THEN conn' = "open" /\ degraded' = FALSE
     ELSE UNCHANGED <<conn, degraded>>
  /\ UNCHANGED <<queue, handlerVars, batchVars, db, ambiguous, flusher,
                 historyVars, clientVars>>

(* Mutant: a batch dropped for a discard is not subtracted.                *)
FlushChecks_uncounted ==
  /\ pc = "flush" /\ batch # << >>
  /\ IF discard_flag
     THEN batch' = << >> /\ Return /\ UNCHANGED pending_count
     ELSE pc' = "write" /\ UNCHANGED <<flushVars, batchVars>>
  /\ UNCHANGED <<queue, handlerVars, storeVars, degraded, flusher, historyVars,
                 clientVars>>

(* The top of the retry loop honours discard_flag.                         *)
FlushChecks ==
  /\ pc = "flush" /\ batch # << >>
  /\ IF discard_flag THEN EndFlush
     ELSE pc' = "write" /\ UNCHANGED <<flushVars, batchVars>>
  /\ UNCHANGED <<queue, handlerVars, storeVars, degraded, flusher, historyVars,
                 clientVars>>

(* Mutant: the batch stays when it is stored.                              *)
FlushStores_keeps_batch ==
  /\ pc = "write" /\ Usable
  /\ db' = db \o batch
  /\ degraded' = FALSE
  /\ Return
  /\ UNCHANGED <<queue, handlerVars, batchVars, conn, ambiguous, flusher,
                 historyVars, clientVars>>

FlushStores ==
  /\ pc = "write" /\ Usable
  /\ db' = db \o batch
  /\ degraded' = FALSE
  /\ EndFlush
  /\ UNCHANGED <<queue, handlerVars, conn, ambiguous, flusher, historyVars,
                 clientVars>>

(* try_write_batch fails: the connection is unusable, shutdown_discard     *)
(* interrupted the INSERT, or the COMMIT reports an error after the rows   *)
(* became durable.                                                         *)
WriteFails ==
  \/ (~Usable \/ discard_flag) /\ UNCHANGED <<db, ambiguous>>
  \/ /\ Usable /\ MayFault
     /\ db' = db \o batch /\ ambiguous' = ambiguous + 1

(* Mutant: one attempt too many.                                           *)
FlushRetries_once_more ==
  /\ pc = "write" /\ attempt <= MAX_FLUSH_REOPEN_ATTEMPTS
  /\ WriteFails
  /\ pc' = "reopen"
  /\ UNCHANGED <<queue, handlerVars, flushVars, batchVars, conn, degraded,
                 flusher, historyVars, clientVars>>

FlushRetries ==
  /\ pc = "write" /\ attempt < MAX_FLUSH_REOPEN_ATTEMPTS
  /\ WriteFails
  /\ pc' = "reopen"
  /\ UNCHANGED <<queue, handlerVars, flushVars, batchVars, conn, degraded,
                 flusher, historyVars, clientVars>>

(* Mutant: the retry uses the connection that failed.                      *)
FlushReopens_same_connection ==
  /\ pc = "reopen"
  /\ attempt' = attempt + 1
  /\ pc' = "flush"
  /\ UNCHANGED <<queue, handlerVars, count, then, batchVars, storeVars, degraded,
                 flusher, historyVars, clientVars>>

(* reopen_connection; its failure is logged and the loop goes on.          *)
FlushReopens ==
  /\ pc = "reopen"
  /\ conn' = IF fs = "up" THEN "open" ELSE conn
  /\ attempt' = attempt + 1
  /\ pc' = "flush"
  /\ UNCHANGED <<queue, handlerVars, count, then, batchVars, db, ambiguous, degraded,
                 flusher, historyVars, clientVars>>

(* Mutant: one attempt too few.                                            *)
FlushGivesUp_early ==
  /\ pc = "write" /\ attempt = MAX_FLUSH_REOPEN_ATTEMPTS - 1
  /\ WriteFails
  /\ dropped' = dropped \cup Range(batch)
  /\ degraded' = TRUE
  /\ EndFlush
  /\ UNCHANGED <<queue, handlerVars, conn, flusher, acked, gone, clientVars>>

FlushGivesUp ==
  /\ pc = "write" /\ attempt = MAX_FLUSH_REOPEN_ATTEMPTS
  /\ WriteFails
  /\ dropped' = dropped \cup Range(batch)
  /\ degraded' = TRUE
  /\ EndFlush
  /\ UNCHANGED <<queue, handlerVars, conn, flusher, acked, gone, clientVars>>

FlushStep ==
  FlushIdle \/ FlushRevalidates \/ FlushChecks \/ FlushStores
  \/ FlushRetries \/ FlushReopens \/ FlushGivesUp \/ FlushSubtracts

----------------------------------------------------------------------------
(* The end of the thread: the channel goes with it, and with the channel   *)
(* the reply senders of callers still waiting in wait_flush_sync.          *)

(* Mutant: a reply sender outlives the channel.                            *)
ThreadEnds_keeps_waiting ==
  /\ pc' = "exited"
  /\ queue' = << >>
  /\ batch' = << >>
  /\ UNCHANGED flusher

ThreadEnds ==
  /\ pc' = "exited"
  /\ queue' = << >>
  /\ batch' = << >>
  /\ flusher' = [f \in Flusher |->
                    IF flusher[f] = "waiting" THEN "returned" ELSE flusher[f]]

discard ==
  /\ discard_flag
  /\ ThreadEnds
  /\ pending_count' = 0
  /\ UNCHANGED <<handlerVars, flushVars, storeVars, degraded, historyVars,
                 clientVars>>

Exits ==
  /\ pc = "exit"
  /\ ThreadEnds
  /\ UNCHANGED <<handlerVars, flushVars, pending_count, storeVars, degraded,
                 historyVars, clientVars>>

----------------------------------------------------------------------------
(* The loop of run() up to the command it takes.                           *)

GoTo(next) ==
  /\ pc' = next
  /\ UNCHANGED <<queue, handlerVars, flushVars, batchVars, storeVars, degraded,
                 flusher, historyVars, clientVars>>

TopChecks == pc = "top" /\ ~discard_flag /\ GoTo("recv")
TopDiscards == pc = "top" /\ discard

(* The flag is looked at again after the wait, before the command is.      *)
RecvDiscards ==
  /\ pc = "recv"
  /\ queue # << >> \/ batch # << >> \/ Retention \/ closed
  /\ discard

(* Mutant: a command overtakes the batch that was sent before it.          *)
handle_non_write_unflushed(c) ==
  /\ cmd' = c
  /\ queue' = Tail(queue)
  /\ pc' = "exec"
  /\ UNCHANGED <<flushVars, deleting, cleanup_has_more, batchVars, storeVars,
                 degraded, flusher, historyVars, clientVars>>

(* Every command of the model other than Write flushes the batch first.    *)
handle_non_write(c) ==
  /\ cmd' = c
  /\ queue' = Tail(queue)
  /\ StartFlush("exec")
  /\ UNCHANGED <<deleting, cleanup_has_more, batchVars, storeVars, degraded,
                 flusher, historyVars, clientVars>>

PushWrite ==
  /\ Head(queue).op = "Write"
  /\ batch' = Append(batch, Head(queue).entry)
  /\ queue' = Tail(queue)
  /\ UNCHANGED <<handlerVars, pending_count, storeVars, degraded, flusher,
                 historyVars, clientVars>>

TakeCommand ==
  /\ queue # << >>
  /\ Head(queue).op # "Write"
  /\ handle_non_write(Head(queue))

RecvWrite ==
  /\ pc = "recv" /\ ~discard_flag /\ queue # << >>
  /\ PushWrite
  /\ pc' = "drain"
  /\ UNCHANGED flushVars

RecvCommand == pc = "recv" /\ ~discard_flag /\ TakeCommand

(* With an empty batch and no retention period recv() has no timeout.      *)
RecvTimeout ==
  /\ pc = "recv" /\ ~discard_flag /\ queue = << >> /\ ~closed
  /\ batch # << >> \/ Retention
  /\ GoTo("after")

RecvDisconnected ==
  /\ pc = "recv" /\ ~discard_flag /\ queue = << >> /\ closed
  /\ StartFlush("exit")
  /\ UNCHANGED <<queue, handlerVars, batchVars, storeVars, degraded, flusher,
                 historyVars, clientVars>>

DrainWrite ==
  /\ pc = "drain" /\ Len(batch) < batch_size /\ ~discard_flag /\ queue # << >>
  /\ PushWrite
  /\ UNCHANGED <<pc, flushVars>>

DrainCommand ==
  pc = "drain" /\ Len(batch) < batch_size /\ ~discard_flag /\ TakeCommand

DrainDiscards == pc = "drain" /\ Len(batch) < batch_size /\ discard

DrainEnds ==
  /\ pc = "drain"
  /\ Len(batch) >= batch_size \/ (queue = << >> /\ ~discard_flag)
  /\ GoTo("after")

RunStep ==
  \/ TopChecks \/ TopDiscards \/ RecvDiscards \/ RecvWrite \/ RecvCommand
  \/ RecvTimeout \/ RecvDisconnected
  \/ DrainWrite \/ DrainCommand \/ DrainDiscards \/ DrainEnds \/ Exits

----------------------------------------------------------------------------
(* handle_non_write after its flush.  Inside run_batched_delete it was     *)
(* called by drain_and_flush_writes, whose own flush then finds no batch.  *)

HandlerReturns ==
  /\ pc' = IF deleting THEN "delete" ELSE "after"
  /\ cmd' = NoCommand
  /\ UNCHANGED <<deleting, cleanup_has_more>>

(* A DELETE that fails is logged and not tried again.                      *)
ExecClears ==
  /\ pc = "exec" /\ cmd.op \in ClearOp
  /\ \/ /\ Usable
        /\ db' = SelectSeq(db, LAMBDA e : ~Matches(cmd, e))
        /\ gone' = gone \cup {e \in Range(SubSeq(sent, 1, cmd.before)) :
                                Matches(cmd, e)}
     \/ /\ ~Usable \/ discard_flag
        /\ UNCHANGED <<db, gone>>
  /\ HandlerReturns
  /\ UNCHANGED <<queue, flushVars, batchVars, conn, ambiguous, degraded,
                 flusher, acked, dropped, clientVars>>

ExecReplies ==
  /\ pc = "exec" /\ cmd.op = "FlushSync"
  /\ flusher' = [flusher EXCEPT ![cmd.from] = "returned"]
  /\ acked' = Max({acked, cmd.before})
  /\ HandlerReturns
  /\ UNCHANGED <<queue, flushVars, batchVars, storeVars, degraded, dropped,
                 gone, clientVars>>

ExecStartsDelete ==
  /\ pc = "exec" /\ cmd.op = "CleanupBefore"
  /\ deleting' = TRUE
  /\ cmd' = NoCommand
  /\ pc' = "delete"
  /\ UNCHANGED <<queue, cleanup_has_more, flushVars, batchVars, storeVars,
                 degraded, flusher, historyVars, clientVars>>

ExecShutsDown == pc = "exec" /\ cmd.op = "Shutdown" /\ GoTo("exit")

----------------------------------------------------------------------------
(* Retention: run_cleanup_batches, called from run_batched_delete (at      *)
(* "delete") and from run_cleanup_pass (at "sweep").                       *)

Expired(e) == e.timestamp < Cutoff
ExpiredRows == {i \in DOMAIN db : Expired(db[i])}

Without(rows) ==
  FoldLeftDomain(LAMBDA kept, i : IF i \in rows THEN kept ELSE Append(kept, db[i]),
                 << >>, db)

(* One DELETE: up to CleanupBatch of the oldest expired rows.              *)
DeletesBatch ==
  LET n == Min({CleanupBatch, Cardinality(ExpiredRows)})
  IN  \E rows \in kSubset(n, ExpiredRows) :
     /\ \A i \in rows, j \in ExpiredRows \ rows :
           db[i].timestamp <= db[j].timestamp
     /\ db' = Without(rows)

Cleaning == pc \in {"delete", "sweep"}
CleanupComplete == Cardinality(ExpiredRows) < CleanupBatch

(* How the two callers go on after the last batch, or without it.          *)
CleanupReturns ==
  /\ deleting' = (deleting /\ pc # "delete")
  /\ cleanup_has_more' = (cleanup_has_more /\ pc # "sweep")
  /\ pc' = IF pc = "delete" THEN "after" ELSE "top"
  /\ UNCHANGED <<queue, cmd, flushVars, batchVars, conn, ambiguous, degraded,
                 flusher, historyVars, clientVars>>

CleanupCompletes ==
  /\ Cleaning /\ ~discard_flag /\ Usable /\ CleanupComplete
  /\ DeletesBatch
  /\ CleanupReturns

(* Discarded, or the DELETE fails (the interrupt included).                *)
CleanupAborts ==
  /\ Cleaning /\ (discard_flag \/ ~Usable)
  /\ UNCHANGED db
  /\ CleanupReturns

CleanupContinues ==
  /\ Cleaning /\ ~discard_flag /\ Usable /\ ~CleanupComplete
  /\ DeletesBatch
  /\ UNCHANGED <<queue, pc, handlerVars, flushVars, batchVars, conn, ambiguous,
                 degraded, flusher, historyVars, clientVars>>

(* The budget of 25ms is used up: run_cleanup_pass leaves the rest to a    *)
(* later pass, run_batched_delete first takes what the channel holds.      *)
CleanupPauses ==
  /\ Cleaning /\ ~discard_flag /\ Usable /\ ~CleanupComplete
  /\ DeletesBatch
  /\ cleanup_has_more' = (cleanup_has_more \/ pc = "sweep")
  /\ pc' = IF pc = "delete" THEN "catchup" ELSE "top"
  /\ UNCHANGED <<queue, cmd, deleting, flushVars, batchVars, conn, ambiguous,
                 degraded, flusher, historyVars, clientVars>>

CatchupWrite ==
  /\ pc = "catchup" /\ queue # << >>
  /\ PushWrite
  /\ IF Len(batch') >= batch_size THEN StartFlush("catchup")
     ELSE UNCHANGED <<pc, flushVars>>

CatchupCommand == pc = "catchup" /\ TakeCommand

CatchupEnds ==
  /\ pc = "catchup" /\ queue = << >>
  /\ IF batch # << >> THEN StartFlush("delete")
     ELSE pc' = "delete" /\ UNCHANGED flushVars
  /\ UNCHANGED <<queue, handlerVars, batchVars, storeVars, degraded, flusher,
                 historyVars, clientVars>>

----------------------------------------------------------------------------
(* The end of an iteration of run().                                       *)

(* flush_interval is over, or the batch is full.                           *)
AfterFlushes ==
  /\ pc = "after" /\ batch # << >>
  /\ StartFlush("tidy")
  /\ UNCHANGED <<queue, handlerVars, batchVars, storeVars, degraded, flusher,
                 historyVars, clientVars>>

AfterSkips == pc = "after" /\ Len(batch) < batch_size /\ GoTo("tidy")

(* cleanup_interval is over, or the last pass ran out of its budget.       *)
TidyCleans ==
  /\ pc = "tidy" /\ Retention
  /\ StartFlush("sweep")
  /\ UNCHANGED <<queue, handlerVars, batchVars, storeVars, degraded, flusher,
                 historyVars, clientVars>>

TidySkips == pc = "tidy" /\ ~(Retention /\ cleanup_has_more) /\ GoTo("top")

CleanupStep ==
  \/ CleanupCompletes \/ CleanupAborts \/ CleanupContinues \/ CleanupPauses
  \/ CatchupWrite \/ CatchupCommand \/ CatchupEnds

WriterStep ==
  \/ RunStep \/ FlushStep \/ CleanupStep
  \/ ExecClears \/ ExecReplies \/ ExecStartsDelete \/ ExecShutsDown
  \/ AfterFlushes \/ AfterSkips \/ TidyCleans \/ TidySkips

----------------------------------------------------------------------------
(* The handles.  A send to a thread that has exited fails and is ignored.  *)

WriterVars == <<pc, handlerVars, flushVars, batch, storeVars, degraded>>

Enqueue(c) == queue' = IF pc = "exited" THEN queue ELSE Append(queue, c)

(* send() of a Write counts the entry first, then puts it in the channel.  *)
CountsEntry(e) ==
  /\ writer[e] = "idle" /\ ~closed
  /\ writer' = [writer EXCEPT ![e] = "counted"]
  /\ pending_count' = pending_count + 1
  /\ UNCHANGED <<queue, WriterVars, flusher, historyVars, discard_flag, unsent,
                 closed, sent, fs, stales, outages>>

SendsEntry(e) ==
  /\ writer[e] = "counted"
  /\ writer' = [writer EXCEPT ![e] = "done"]
  /\ Enqueue(Write(e))
  /\ sent' = IF pc = "exited" THEN sent ELSE Append(sent, e)
  /\ UNCHANGED <<pending_count, WriterVars, flusher, historyVars, discard_flag,
                 unsent, closed, fs, stales, outages>>

SendsClear(c) ==
  /\ c \in unsent /\ c \in ClearCall /\ ~closed
  /\ unsent' = unsent \ {c}
  /\ Enqueue([op |-> c.op, service |-> c.service, before |-> Len(sent)])
  /\ UNCHANGED <<pending_count, WriterVars, flusher, historyVars, discard_flag,
                 writer, closed, sent, fs, stales, outages>>

(* wait_flush_sync sends FlushSync and blocks until the reply, or until    *)
(* the reply sender is dropped.                                            *)
WaitsForFlush(f) ==
  /\ flusher[f] = "idle" /\ ~closed
  /\ flusher' = [flusher EXCEPT
                    ![f] = IF pc = "exited" THEN "returned" ELSE "waiting"]
  /\ Enqueue([op |-> "FlushSync", from |-> f, before |-> Len(sent)])
  /\ UNCHANGED <<pending_count, WriterVars, historyVars, discard_flag, writer,
                 unsent, closed, sent, fs, stales, outages>>

(* shutdown().                                                             *)
SendsShutdown ==
  /\ Shutdown \in unsent /\ ~closed
  /\ unsent' = unsent \ {Shutdown}
  /\ Enqueue(Shutdown)
  /\ UNCHANGED <<pending_count, WriterVars, flusher, historyVars, discard_flag,
                 writer, closed, sent, fs, stales, outages>>

(* shutdown_discard(); its callers go on with shutdown().                  *)
SetsDiscard ==
  /\ ~discard_flag /\ Shutdown \in unsent /\ ~closed
  /\ discard_flag' = TRUE
  /\ UNCHANGED <<queue, pending_count, WriterVars, flusher, historyVars, writer,
                 unsent, closed, sent, fs, stales, outages>>

(* The last handle is dropped: nobody is inside a call of one.             *)
HandlesDropped ==
  /\ ~closed /\ (discard_flag => Shutdown \notin unsent)
  /\ \A e \in Entry : writer[e] # "counted"
  /\ \A f \in Flusher : flusher[f] # "waiting"
  /\ closed' = TRUE
  /\ UNCHANGED <<queue, pending_count, WriterVars, flusher, historyVars,
                 discard_flag, writer, unsent, sent, fs, stales, outages>>

(* External: the file system under the database.                           *)
GoesStale ==
  /\ conn = "open" /\ MayFault
  /\ conn' = "stale" /\ stales' = stales + 1
  /\ UNCHANGED <<queue, pc, handlerVars, flushVars, batchVars, db, ambiguous,
                 degraded, flusher, historyVars, discard_flag, writer, unsent,
                 closed, sent, fs, outages>>

Outage ==
  /\ \/ fs = "up" /\ MayGoDown /\ fs' = "down" /\ outages' = outages + 1
     \/ fs = "down" /\ fs' = "up" /\ UNCHANGED outages
  /\ UNCHANGED <<queue, pending_count, WriterVars, flusher, historyVars,
                 discard_flag, writer, unsent, closed, sent, stales>>

----------------------------------------------------------------------------

LogInit ==
  /\ queue = IF Retention THEN <<[op |-> "CleanupBefore"]>> ELSE << >>
  /\ batch = << >> /\ db = Backlog
  /\ pc = "top" /\ attempt = 0 /\ count = 0 /\ then = "top"
  /\ cmd = NoCommand /\ deleting = FALSE /\ cleanup_has_more = FALSE
  /\ degraded = FALSE /\ discard_flag = FALSE /\ pending_count = 0
  /\ writer = [e \in Entry |-> IF e \in Range(Backlog) THEN "done" ELSE "idle"]
  /\ flusher = [f \in Flusher |-> "idle"]
  /\ unsent = ClearCall \cup {Shutdown} /\ closed = FALSE
  /\ conn = "open" /\ fs = "up"
  /\ stales = 0 /\ outages = 0 /\ ambiguous = 0
  /\ sent = << >> /\ acked = 0 /\ dropped = {} /\ gone = {}

ClientStep ==
  \/ \E e \in Entry : CountsEntry(e) \/ SendsEntry(e)
  \/ \E c \in ClearCall : SendsClear(c)
  \/ \E f \in Flusher : WaitsForFlush(f)
  \/ SendsShutdown \/ SetsDiscard \/ HandlesDropped
  \/ GoesStale \/ Outage

LogNext == WriterStep \/ ClientStep
LogSpec == LogInit /\ [][LogNext]_logVars

(* The writer thread runs, flush_interval elapses, and whoever called      *)
(* shutdown_discard() goes on to call shutdown().                          *)
LogFairness ==
  /\ WF_logVars(WriterStep)
  /\ SF_logVars(AfterFlushes)
  /\ WF_logVars(discard_flag /\ SendsShutdown)

LogFairSpec == LogSpec /\ LogFairness

----------------------------------------------------------------------------

QueuedWrites == SelectSeq(queue, LAMBDA c : c.op = "Write")
InFlight == {c.entry : c \in Range(QueuedWrites)} \cup Range(batch)

(* The shape of the state.                                                 *)
LogTypeOK ==
  /\ batch \in Seq(Entry) /\ db \in Seq(Entry) /\ sent \in Seq(Entry)
  /\ Len(batch) <= batch_size
  /\ attempt \in 0..MAX_FLUSH_REOPEN_ATTEMPTS
  /\ deleting \in BOOLEAN /\ cleanup_has_more \in BOOLEAN
  /\ degraded \in BOOLEAN /\ discard_flag \in BOOLEAN
  /\ writer \in [Entry -> {"idle", "counted", "done"}]
  /\ flusher \in [Flusher -> {"idle", "waiting", "returned"}]
  /\ conn \in {"open", "stale"} /\ fs \in {"up", "down"}
  /\ dropped \subseteq Entry /\ gone \subseteq Entry

(* has_pending() never misses an entry: while the thread lives,            *)
(* pending_count is exactly the number of entries that a send() has        *)
(* counted and that are not yet flushed, so fetch_sub never underflows.    *)
PendingCountExact ==
  pc # "exited" =>
     pending_count = Cardinality({e \in Entry : writer[e] = "counted"})
                     + Len(QueuedWrites) + Len(batch) + count

(* check_and_notify_quiescent flushes "so that any drain pass by the CLI   *)
(* sees the final logs": once wait_flush_sync was answered, all entries    *)
(* sent before it are rows, unless a flush reported them as lost, a clear  *)
(* or the retention took them, or the store is being discarded.            *)
FlushSyncMeansStored ==
  ~discard_flag =>
     \A k \in 1..acked :
        \/ sent[k] \in Range(db) \cup dropped \cup gone
        \/ Retention /\ Expired(sent[k])

(* flush_batch: "no data loss on recovery".  As long as the file system    *)
(* itself stays up, file descriptors that go stale and commits that fail   *)
(* lose no entry and do not leave the store degraded.                      *)
OnlyOutagesLose ==
  /\ stales + ambiguous <= MAX_FLUSH_REOPEN_ATTEMPTS
  /\ outages = 0 /\ ~discard_flag
  => dropped = {} /\ ~degraded

(* Rows are in the order the entries entered the channel and, unless a     *)
(* commit was ambiguous, no retry stores one twice.                        *)
RowsInOrder ==
  ambiguous = 0 =>
     LET rows == SelectSeq(db, LAMBDA e : e \in Range(sent))
     IN  \A i, j \in DOMAIN rows : i < j =>
            \E k, l \in DOMAIN sent :
               k < l /\ sent[k] = rows[i] /\ sent[l] = rows[j]

(* A clear takes everything that was sent before it: no such entry is      *)
(* still on its way to the database when the DELETE runs.                  *)
ClearedStaysCleared == gone \cap (Range(db) \cup InFlight) = {}

(* test flush_honors_discard_without_reopening: "When the discard flag is  *)
(* set (stop --clean / prune), a failing flush must NOT reopen/retry".     *)
NoReopenDuringDiscard ==
  [][/\ pc \in {"reopen", "revalidate"}
     /\ pc' # pc
     => ~discard_flag]_logVars

(* Nobody stays blocked in wait_flush_sync, where the config actor waits   *)
(* before it sends Quiescent: as long as a caller waits, its command is in *)
(* the channel or at work, whether the thread shut down, discarded or was  *)
(* inside a startup cleanup meanwhile.                                     *)
NobodyForgotten ==
  \A f \in Flusher : flusher[f] = "waiting" =>
     \E c \in Range(queue) \cup {cmd} : c.op = "FlushSync" /\ c.from = f

(* flush_batch: the flag is cleared "so `is_degraded()` doesn't report a   *)
(* false "DEGRADED" forever when the producing service has gone quiet".    *)
DegradedRevalidated ==
  [](fs = "up" /\ conn = "open" /\ degraded =>
       <>(~degraded \/ fs = "down" \/ conn = "stale" \/ discard_flag
          \/ pc = "exited"))

=============================================================================
