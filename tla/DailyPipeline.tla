---------------------------- MODULE DailyPipeline ----------------------------
(***************************************************************************)
(* The daily collection pipeline: every process that calls                 *)
(* DailyPipeline.run_once (the scheduler, the `db run-daily` and           *)
(* `db retry-failed` commands, the manual trigger of the web process)      *)
(* against one PostgreSQL database and a set of remote sources.            *)
(*                                                                         *)
(* A worker goes through                                                   *)
(*   idle/sleeping/backoff -> ready -> collecting -> enriching ->          *)
(*   releasing -> idle/sleeping/backoff/done                               *)
(* The work item (key, registry) is fixed before the lock is tried; the    *)
(* sources are fetched one by one while the lock is held; everything that  *)
(* is persisted is one transaction on the connection that holds the lock.  *)
(*                                                                         *)
(* Data abstracted: a source serves one document at a time, a member of    *)
(* Content (its normalized hash); only the sign of the finding count is    *)
(* kept, the code tests nothing else; time is the schedule's day number.   *)
(***************************************************************************)
EXTENDS Naturals, Sequences, FiniteSets

CONSTANTS
    Scheduler,    \* long-lived scheduler processes (DailyScheduler.run_forever)
    Cli,          \* operator shells running db run-daily and db retry-failed
    Trigger,      \* manual triggers submitted to the web process
    NoWorker,
    Source,       \* the registry's sources
    Disabled,     \* those with enabled = false
    Content,      \* what a source may serve
    NoContent,
    Empty,        \* contents whose parser yields no document
    Bearing,      \* contents whose extraction yields at least one finding
    Initial,      \* what every source serves first
    MaxDay,       \* bound: the clock stops at this schedule day
    MaxFailures,  \* bound: fetches fail only below this consecutive count
    Faults        \* the faults that may happen: "conn", "persist", "enrich", "crash"

Worker == Scheduler \cup Cli \cup Trigger
Day == 1..MaxDay

\* Idempotency keys: daily:<date>, manual:<trigger id>, retry:<run id> (bound:
\* the run that is retried is not itself a retry).
FirstKey == ({"daily"} \X Day) \cup ({"manual"} \X Trigger)
Key == FirstKey \cup ({"retry"} \X FirstKey)

ASSUME PipelineAssumption ==
    /\ IsFiniteSet(Source)
    /\ MaxDay \in Nat \ {0} /\ MaxFailures \in Nat
    /\ NoWorker \notin Worker
    /\ Scheduler \cap (Cli \cup Trigger) = {} /\ Cli \cap Trigger = {}
    /\ Initial \in Content /\ NoContent \notin Content
    /\ Disabled \subseteq Source
    /\ Empty \subseteq Content /\ Bearing \subseteq Content \ Empty
    /\ Content \cap {"pending", "skipped", "failed", "unchanged"} = {}
    /\ Faults \subseteq {"conn", "persist", "enrich", "crash"}

VARIABLES
    lock,        \* the worker whose session holds the advisory lock
    conn,        \* the lock connection of each worker
    pc,
    job,         \* the key and the registry of the worker's current attempt
    outcome,     \* per-source outcome of the current collection
    validators,  \* IngestionService._validators, in memory
    result,      \* what run_once is about to return; a trigger's final status
    wake,        \* the day a sleeping scheduler wakes up
    runs,        \* ingestion_run rows with their source_run rows
    docs,        \* source_document chains, oldest version first
    failures,    \* source.consecutive_failure_count
    remote,      \* what each source serves now
    day

dbVars == <<runs, docs, failures>>
envVars == <<remote, day>>
vars == <<lock, conn, pc, job, outcome, validators, result, wake,
          runs, docs, failures, remote, day>>

-----------------------------------------------------------------------------
Pc == {"idle", "ready", "collecting", "enriching", "releasing",
       "sleeping", "backoff", "done"}

\* The steps of run_once between try_daily_lock and the end of its finally.
InSection == {"collecting", "enriching", "releasing"}

SourceStatus == {"none", "completed", "failed", "skipped"}
Outcome == Content \cup {"pending", "skipped", "failed", "unchanged"}

Row == [status: {"completed", "failed"},
        total: Nat, ok: Nat, bad: Nat,
        found: BOOLEAN,
        src: [Source -> SourceStatus]]
NoRow == [status |-> "absent", total |-> 0, ok |-> 0, bad |-> 0,
          found |-> FALSE, src |-> [s \in Source |-> "none"]]
NoJob == [key |-> <<"none", 0>>, scope |-> {}]
Job == [key: Key, scope: SUBSET Source] \cup {NoJob}

TypeOK ==
    /\ lock \in Worker \cup {NoWorker}
    /\ conn \in [Worker -> {"closed", "open", "lost"}]
    /\ pc \in [Worker -> Pc]
    /\ job \in [Worker -> Job]
    /\ outcome \in [Worker -> [Source -> Outcome]]
    /\ validators \in [Worker -> [Source -> Content \cup {NoContent}]]
    /\ result \in [Worker -> {"none", "lock_busy", "completed", "failed", "error"}]
    /\ wake \in [Worker -> Nat]
    /\ runs \in [Key -> Row \cup {NoRow}]
    /\ docs \in [Source -> Seq(Content)]
    /\ failures \in [Source -> Nat]
    /\ remote \in [Source -> Content]
    /\ day \in Day

NoValidators == [s \in Source |-> NoContent]
NoOutcome == [s \in Source |-> "skipped"]

Init ==
    /\ lock = NoWorker
    /\ conn = [w \in Worker |-> "closed"]
    /\ pc = [w \in Worker |-> "idle"]
    /\ job = [w \in Worker |-> NoJob]
    /\ outcome = [w \in Worker |-> NoOutcome]
    /\ validators = [w \in Worker |-> NoValidators]
    /\ result = [w \in Worker |-> "none"]
    /\ wake = [w \in Worker |-> 0]
    /\ runs = [k \in Key |-> NoRow]
    /\ docs = [s \in Source |-> <<>>]
    /\ failures = [s \in Source |-> 0]
    /\ remote = [s \in Source |-> Initial]
    /\ day = 1

-----------------------------------------------------------------------------
(* The environment: sources change what they serve, days pass.             *)

RemoteChange(s) ==
    /\ \E c \in Content \ {remote[s]} : remote' = [remote EXCEPT ![s] = c]
    /\ UNCHANGED <<lock, conn, pc, job, outcome, validators, result, wake,
                   runs, docs, failures, day>>

NewDay ==
    /\ day < MaxDay
    /\ day' = day + 1
    /\ UNCHANGED <<lock, conn, pc, job, outcome, validators, result, wake,
                   runs, docs, failures, remote>>

-----------------------------------------------------------------------------
(* Starting an attempt: the key and the registry are chosen before the     *)
(* lock is tried. The scheduler keeps one IngestionService for its whole   *)
(* life; a command or a trigger builds a new one, with no validators.      *)

DailyKey(d) == <<"daily", d>>
FailedSources(k) == {s \in Source : runs[k].src[s] = "failed"}

StartWith(w, j) ==
    /\ pc' = [pc EXCEPT ![w] = "ready"]
    /\ job' = [job EXCEPT ![w] = j]
    /\ result' = [result EXCEPT ![w] = "none"]
    /\ validators' = IF w \in Scheduler THEN validators
                     ELSE [validators EXCEPT ![w] = NoValidators]
    /\ UNCHANGED <<lock, conn, outcome, wake, dbVars, envVars>>

SchedulerStart(w) ==
    /\ w \in Scheduler
    /\ \/ pc[w] \in {"idle", "backoff"}
       \/ pc[w] = "sleeping" /\ day >= wake[w]
    /\ StartWith(w, [key |-> DailyKey(day), scope |-> Source])

\* The command takes the date of the clock, not of the schedule: after midnight
\* and before the scheduled hour that is already the next schedule day.
CliRunDaily(w) ==
    /\ w \in Cli /\ pc[w] = "idle"
    /\ \E d \in {day, day + 1} \cap Day :
          StartWith(w, [key |-> DailyKey(d), scope |-> Source])

CliRetryFailed(w) ==
    /\ w \in Cli /\ pc[w] = "idle"
    /\ \E k \in FirstKey :
          /\ FailedSources(k) # {}
          /\ StartWith(w, [key |-> <<"retry", k>>, scope |-> FailedSources(k)])

TriggerSubmit(w) ==
    /\ w \in Trigger /\ pc[w] = "idle"
    /\ StartWith(w, [key |-> <<"manual", w>>, scope |-> Source])

-----------------------------------------------------------------------------
(* How a finished attempt leaves the process. run_forever sleeps until the *)
(* next scheduled instant after any return, lock_not_acquired included,    *)
(* and retries after a minute only when run_once raised.                   *)

\* Mutant: _execute forgets to set the trigger's final status.
AfterReturn_NotSettled(w) == IF w \in Scheduler THEN "sleeping" ELSE "idle"
AfterReturn(w) == IF w \in Scheduler THEN "sleeping"
                  ELSE IF w \in Trigger THEN "done" ELSE "idle"
\* Mutant: the exception handler of run_forever sleeps like a return.
AfterRaise_Sleeps(w) == AfterReturn(w)
AfterRaise(w) == IF w \in Scheduler THEN "backoff" ELSE AfterReturn(w)

\* Only a manual trigger keeps its outcome; the scheduler logs it, a command
\* exits with it.
Report(w, r) == IF w \in Trigger THEN r ELSE "none"

Sleep(w, p) == IF p = "sleeping" THEN [wake EXCEPT ![w] = day + 1] ELSE wake

LockBusy(w) ==
    /\ pc[w] = "ready" /\ lock # NoWorker
    /\ pc' = [pc EXCEPT ![w] = AfterReturn(w)]
    /\ wake' = Sleep(w, AfterReturn(w))
    /\ result' = [result EXCEPT ![w] = Report(w, "lock_busy")]
    /\ job' = [job EXCEPT ![w] = NoJob]
    /\ UNCHANGED <<lock, conn, outcome, validators, dbVars, envVars>>

\* The database cannot be reached: run_once raises before it asks for the lock.
LockRaises(w) ==
    /\ pc[w] = "ready" /\ "conn" \in Faults
    /\ pc' = [pc EXCEPT ![w] = AfterRaise(w)]
    /\ wake' = Sleep(w, AfterRaise(w))
    /\ result' = [result EXCEPT ![w] = Report(w, "error")]
    /\ job' = [job EXCEPT ![w] = NoJob]
    /\ UNCHANGED <<lock, conn, outcome, validators, dbVars, envVars>>

\* Mutant: the result of pg_try_advisory_lock is ignored.
LockAcquired_Ignored(w) ==
    /\ pc[w] = "ready"
    /\ lock' = w
    /\ conn' = [conn EXCEPT ![w] = "open"]
    /\ pc' = [pc EXCEPT ![w] = "collecting"]
    /\ outcome' = [outcome EXCEPT ![w] =
           [s \in Source |-> IF s \in job[w].scope THEN "pending" ELSE "skipped"]]
    /\ UNCHANGED <<job, validators, result, wake, dbVars, envVars>>

LockAcquired(w) ==
    /\ pc[w] = "ready" /\ lock = NoWorker
    /\ lock' = w
    /\ conn' = [conn EXCEPT ![w] = "open"]
    /\ pc' = [pc EXCEPT ![w] = "collecting"]
    /\ outcome' = [outcome EXCEPT ![w] =
           [s \in Source |-> IF s \in job[w].scope THEN "pending" ELSE "skipped"]]
    /\ UNCHANGED <<job, validators, result, wake, dbVars, envVars>>

-----------------------------------------------------------------------------
(* _collect_source, one source at a time in any order.                     *)

Collected(w, s, o) ==
    /\ outcome' = [outcome EXCEPT ![w][s] = o]
    /\ UNCHANGED <<lock, conn, pc, job, result, wake, dbVars, envVars>>

Awaiting(w, s) == pc[w] = "collecting" /\ outcome[w][s] = "pending"

SkipDisabled(w, s) ==
    /\ Awaiting(w, s) /\ s \in Disabled
    /\ Collected(w, s, "skipped")
    /\ UNCHANGED validators

\* The remote answers 304 to the validators of a content it still serves.
FetchNotModified(w, s) ==
    /\ Awaiting(w, s) /\ s \notin Disabled
    /\ validators[w][s] = remote[s]
    /\ Collected(w, s, "unchanged")
    /\ UNCHANGED validators

\* The body was fetched and parsed; only then are its validators remembered.
FetchBody(w, s) ==
    /\ Awaiting(w, s) /\ s \notin Disabled
    /\ Collected(w, s, remote[s])
    /\ validators' = [validators EXCEPT ![w][s] = remote[s]]

\* A fetch, parse or schema error.
FetchFailed(w, s) ==
    /\ Awaiting(w, s) /\ s \notin Disabled
    /\ failures[s] < MaxFailures
    /\ Collected(w, s, "failed")
    /\ UNCHANGED validators

-----------------------------------------------------------------------------
(* The persistence transaction.                                            *)

Gathered(w) == pc[w] = "collecting" /\ \A s \in Source : outcome[w][s] # "pending"

\* Mutant: a finished run is persisted again.
RunFinished_Never(row) == FALSE

\* The early return of persist_collection_with_documents.
RunFinished(row) == row.status = "completed" /\ row.found

StatusOf(w, s) ==
    CASE outcome[w][s] \in Content \cup {"unchanged"} -> "completed"
      [] outcome[w][s] = "failed" -> "failed"
      [] outcome[w][s] = "skipped" -> "skipped"
      [] OTHER -> "none"

WithStatus(w, st) == {s \in job[w].scope : StatusOf(w, s) = st}
Documents(w) == {s \in Source : outcome[w][s] \in Content \ Empty}
Stored(s) == {docs[s][i] : i \in DOMAIN docs[s]}

CollectionStatus(w) == IF WithStatus(w, "failed") # {} THEN "failed" ELSE "completed"

\* total_sources is written only when the row is created; source_run rows are
\* merged over the ones of an earlier attempt with the same key.
NewRow(w, row) ==
    [status |-> CollectionStatus(w),
     total  |-> IF row = NoRow THEN Cardinality(job[w].scope) ELSE row.total,
     ok     |-> Cardinality(WithStatus(w, "completed")),
     bad    |-> Cardinality(WithStatus(w, "failed")),
     found  |-> IF Documents(w) = {} THEN row.found
                ELSE \E s \in Documents(w) : outcome[w][s] \in Bearing,
     src    |-> [s \in Source |-> IF s \in job[w].scope THEN StatusOf(w, s)
                                  ELSE row.src[s]]]

\* A content already in the chain resolves to the existing version.
NewChain(w, s) ==
    IF s \in Documents(w) /\ outcome[w][s] \notin Stored(s)
    THEN Append(docs[s], outcome[w][s]) ELSE docs[s]

\* Mutant: a success does not reset the counter.
NewFailures_NoReset(w, s) ==
    IF s \in WithStatus(w, "failed") THEN failures[s] + 1 ELSE failures[s]

NewFailures(w, s) ==
    CASE s \in WithStatus(w, "completed") -> 0
      [] s \in WithStatus(w, "failed") -> failures[s] + 1
      [] OTHER -> failures[s]

\* The transaction runs on the connection that took the lock.
CanCommit(w) == conn[w] = "open"

PersistReplay(w) ==
    /\ Gathered(w) /\ CanCommit(w)
    /\ RunFinished(runs[job[w].key])
    /\ pc' = [pc EXCEPT ![w] = "releasing"]
    /\ result' = [result EXCEPT ![w] = runs[job[w].key].status]
    /\ UNCHANGED <<lock, conn, job, outcome, validators, wake, dbVars, envVars>>

PersistCollection(w) ==
    /\ Gathered(w) /\ CanCommit(w)
    /\ ~RunFinished(runs[job[w].key])
    /\ runs' = [runs EXCEPT ![job[w].key] = NewRow(w, runs[job[w].key])]
    /\ docs' = [s \in Source |-> NewChain(w, s)]
    /\ failures' = [s \in Source |-> NewFailures(w, s)]
    /\ pc' = [pc EXCEPT ![w] = IF Documents(w) = {} THEN "releasing" ELSE "enriching"]
    /\ result' = [result EXCEPT ![w] = CollectionStatus(w)]
    /\ UNCHANGED <<lock, conn, job, outcome, validators, wake, envVars>>

\* Mutant: a rolled-back transaction is reported as the collection's status.
PersistFails_Swallowed(w) ==
    /\ Gathered(w)
    /\ "persist" \in Faults \/ conn[w] = "lost"
    /\ pc' = [pc EXCEPT ![w] = "releasing"]
    /\ result' = [result EXCEPT ![w] = CollectionStatus(w)]
    /\ UNCHANGED <<lock, conn, job, outcome, validators, wake, dbVars, envVars>>

\* The transaction rolls back: a database error, or a connection that is gone.
PersistFails(w) ==
    /\ Gathered(w)
    /\ "persist" \in Faults \/ conn[w] = "lost"
    /\ pc' = [pc EXCEPT ![w] = "releasing"]
    /\ result' = [result EXCEPT ![w] = "error"]
    /\ UNCHANGED <<lock, conn, job, outcome, validators, wake, dbVars, envVars>>

-----------------------------------------------------------------------------
(* The enrichment stage uses connections of its own and writes none of     *)
(* these tables. Only its query of the run's CVEs can raise: the failure   *)
(* of one CVE is recorded and the stage goes on.                           *)

EnrichRunCves(w) ==
    /\ pc[w] = "enriching"
    /\ pc' = [pc EXCEPT ![w] = "releasing"]
    /\ UNCHANGED <<lock, conn, job, outcome, validators, result, wake, dbVars, envVars>>

EnrichRaises(w) ==
    /\ pc[w] = "enriching" /\ "enrich" \in Faults
    /\ pc' = [pc EXCEPT ![w] = "releasing"]
    /\ result' = [result EXCEPT ![w] = "error"]
    /\ UNCHANGED <<lock, conn, job, outcome, validators, wake, dbVars, envVars>>

\* Mutant: the finally clause returns the connection without unlocking.
Release_KeepsLock(w) ==
    /\ pc[w] = "releasing"
    /\ conn' = [conn EXCEPT ![w] = "closed"]
    /\ result' = [result EXCEPT ![w] = Report(w, @)]
    /\ pc' = [pc EXCEPT ![w] = AfterReturn(w)]
    /\ wake' = Sleep(w, AfterReturn(w))
    /\ job' = [job EXCEPT ![w] = NoJob]
    /\ outcome' = [outcome EXCEPT ![w] = NoOutcome]
    /\ UNCHANGED <<lock, validators, dbVars, envVars>>

\* The finally clause. On a lost connection the unlock itself raises.
Release(w) ==
    /\ pc[w] = "releasing"
    /\ lock' = IF lock = w THEN NoWorker ELSE lock
    /\ conn' = [conn EXCEPT ![w] = "closed"]
    /\ LET raised == result[w] = "error" \/ conn[w] = "lost"
           next == IF raised THEN AfterRaise(w) ELSE AfterReturn(w)
       IN /\ result' = [result EXCEPT ![w] = Report(w, IF raised THEN "error" ELSE @)]
          /\ pc' = [pc EXCEPT ![w] = next]
          /\ wake' = Sleep(w, next)
    /\ job' = [job EXCEPT ![w] = NoJob]
    /\ outcome' = [outcome EXCEPT ![w] = NoOutcome]
    /\ UNCHANGED <<validators, dbVars, envVars>>

-----------------------------------------------------------------------------
(* Faults.                                                                 *)

\* The server ends the session of the lock connection: the lock is free.
ConnectionLost(w) ==
    /\ "conn" \in Faults
    /\ conn[w] = "open"
    /\ conn' = [conn EXCEPT ![w] = "lost"]
    /\ lock' = IF lock = w THEN NoWorker ELSE lock
    /\ UNCHANGED <<pc, job, outcome, validators, result, wake, dbVars, envVars>>

\* The process dies: its session ends and everything in memory is gone.
Crash(w) ==
    /\ "crash" \in Faults
    /\ pc[w] \notin {"idle", "done"}
    /\ lock' = IF lock = w THEN NoWorker ELSE lock
    /\ conn' = [conn EXCEPT ![w] = "closed"]
    /\ pc' = [pc EXCEPT ![w] = IF w \in Trigger THEN "done" ELSE "idle"]
    /\ validators' = [validators EXCEPT ![w] = NoValidators]
    /\ result' = [result EXCEPT ![w] = "none"]
    /\ wake' = [wake EXCEPT ![w] = 0]
    /\ job' = [job EXCEPT ![w] = NoJob]
    /\ outcome' = [outcome EXCEPT ![w] = NoOutcome]
    /\ UNCHANGED <<dbVars, envVars>>

-----------------------------------------------------------------------------
Start(w) ==
    SchedulerStart(w) \/ CliRunDaily(w) \/ CliRetryFailed(w) \/ TriggerSubmit(w)

CollectSource(w, s) ==
    SkipDisabled(w, s) \/ FetchNotModified(w, s) \/ FetchBody(w, s) \/ FetchFailed(w, s)

\* What the process itself does once an attempt has begun.
Proceed(w) ==
    \/ LockBusy(w) \/ LockRaises(w) \/ LockAcquired(w)
    \/ \E s \in Source : CollectSource(w, s)
    \/ PersistReplay(w) \/ PersistCollection(w) \/ PersistFails(w)
    \/ EnrichRunCves(w) \/ EnrichRaises(w)
    \/ Release(w)

Next ==
    \/ NewDay
    \/ \E s \in Source : RemoteChange(s)
    \/ \E w \in Worker : Start(w) \/ Proceed(w) \/ ConnectionLost(w) \/ Crash(w)

Spec == Init /\ [][Next]_vars

(***************************************************************************)
(* Fairness: asyncio keeps running an attempt that has begun, the timer of *)
(* a scheduler fires, and a database that is tried again and again does    *)
(* not fail every transaction. Operators, triggers, days and faults are    *)
(* never obliged to happen.                                                *)
(***************************************************************************)
Fairness ==
    /\ \A w \in Worker : WF_vars(Proceed(w))
    /\ \A w \in Worker : SF_vars(PersistCollection(w) \/ PersistReplay(w))
    /\ \A w \in Scheduler : WF_vars(SchedulerStart(w))

LiveSpec == Spec /\ Fairness

-----------------------------------------------------------------------------
(* Properties.                                                             *)

\* A worker whose lock connection is alive holds the advisory lock through the
\* whole of run_once's try block, so two such workers never overlap.
LockHeldInSection ==
    \A w \in Worker : pc[w] \in InSection /\ conn[w] = "open" => lock = w

\* run_once reports the status that is in the database: while the lock
\* connection lives, the status it will return is the one of the run's row, so
\* the exit code of `db run-daily` and the trigger's status match what was
\* persisted, whatever other attempts with the same key were doing meanwhile.
ReportMatchesRow ==
    \A w \in Worker :
        pc[w] \in {"enriching", "releasing"} /\ conn[w] = "open" /\ result[w] # "error"
            => result[w] = runs[job[w].key].status

\* The bookkeeping behind LockHeldInSection, strong enough to be inductive: a
\* lock connection is checked out exactly during the try block, the holder's
\* session is alive, and an attempt under way has a key.
SectionBookkeeping ==
    /\ \A w \in Worker : conn[w] = "closed" <=> pc[w] \notin InSection
    /\ lock # NoWorker => conn[lock] = "open"
    /\ \A w \in Worker : pc[w] \in InSection \cup {"ready"} => job[w].key \in Key

\* The run of a manual trigger is its own: no other attempt has its key, so
\* nothing can rewrite the row that the trigger reports.
TriggerKeys ==
    /\ \A w \in Worker, t \in Trigger : job[w].key = <<"manual", t>> => w = t
    /\ \A t \in Trigger : pc[t] \in InSection \cup {"ready"} => job[t].key = <<"manual", t>>

\* A manual trigger that ended as completed or failed has a row that says the
\* same, for good.
TriggerReportIsDurable ==
    \A t \in Trigger :
        pc[t] = "done" /\ result[t] \in {"completed", "failed"}
            => runs[<<"manual", t>>].status = result[t]

\* Rows, document chains and freshness counters change only in the transaction
\* of the worker that holds the lock before and after it.
OnlyHolderWrites ==
    [][dbVars' # dbVars => lock # NoWorker /\ pc[lock] = "collecting" /\ lock' = lock]_vars

\* No content is ever stored twice in a source's version chain, a source that
\* goes back to an older content included.
ChainsDistinct ==
    \A s \in Source : \A i, j \in DOMAIN docs[s] : docs[s][i] = docs[s][j] => i = j

\* A source with a positive consecutive_failure_count has a run whose
\* source_run row still says it failed, so the freshness view and
\* `db retry-failed` never disagree about whether it needs attention.
FailureHasEvidence ==
    \A s \in Source : failures[s] > 0 => \E k \in Key : runs[k].src[s] = "failed"

\* What makes FailureHasEvidence inductive: a source is skipped only because it
\* is disabled, so a commit never replaces a failed source_run by a skipped one
\* while the source's count is positive.
SkipsAreDisabled ==
    /\ \A s \in Disabled : failures[s] = 0
    /\ \A w \in Worker : \A s \in Disabled : outcome[w][s] \in {"pending", "skipped"}
    /\ \A w \in Worker : pc[w] = "collecting" =>
           \A s \in job[w].scope : outcome[w][s] = "skipped" => s \in Disabled

\* The content a 304 stands for is in the database: skipping it loses nothing.
NotModifiedMeansStored ==
    \A w \in Worker, s \in Source :
        outcome[w][s] = "unchanged" => validators[w][s] \in Stored(s) \cup Empty

\* The inductive invariant of the proofs.
PipelineInv ==
    TypeOK /\ SectionBookkeeping /\ LockHeldInSection /\ ReportMatchesRow /\ TriggerKeys

Ledger == INSTANCE RunLedger WITH
    Blank <- NoRow, holder <- lock, rows <- runs, chains <- docs

\* The pipeline implements the ledger its readers rely on: one holder at a
\* time, one row per commit, finished runs frozen, document chains that only
\* grow by new contents, under lost connections, rollbacks and crashes.
ImplementsLedger == Ledger!LedgerSpec

\* The lock is never kept for ever: whoever takes it gives it back.
LockReleased == \A w \in Worker : lock = w ~> lock # w

\* A scheduler that wakes up on a day gets a run for that day persisted, or the
\* day ends first: failed transactions are retried until one commits. Only a
\* manual trigger may take its turn away, since lock_not_acquired is a return.
ScheduledDayPersisted ==
    \A d \in Day : \A w \in Scheduler :
        day = d /\ job[w].key = DailyKey(d)
            ~> \/ runs[DailyKey(d)] # NoRow \/ day # d
               \/ \E t \in Trigger : pc[t] # "idle"

\* A submitted manual trigger always reaches a final status.
TriggerSettles == \A t \in Trigger : pc[t] = "ready" ~> pc[t] = "done"
=============================================================================
