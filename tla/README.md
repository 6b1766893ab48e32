# TaskPilot server: a TLA+ development

TaskPilot turns a document (text or PDF) into a reviewed list of tasks: a user
uploads a document, a background worker has an AI service parse it, the user
edits and confirms the parse result, creates a project from it and works
through its tasks. This directory holds TLA+ models of the server's own logic,
the TLC runs that check them and the TLAPS proofs about them.

Paths below are relative to `src/`.

## 1. Inventory

| Component | State | Operations | Hard behaviour |
|---|---|---|---|
| Parse job API (`internal/logic/parsejob`) | rows of `parse_jobs` | Create, Retry, publish after commit; Get, Latest | row locks, partial unique index as last resort, publication that fails after the commit |
| Document service (`internal/logic/document`) | rows of `documents` (soft delete), files | CreateText, CreatePDF, Delete; Get, List | delete against jobs being created or retried; file and row written one after the other |
| Parse worker (`internal/worker/parsejob`) | `status`, `started_at`, `retry_count` of jobs, `parse_results`, process slots | consume, reclaim, reconcile, trim, heartbeat and cleanup loops; claim, complete, fail, recover; start, signal and grace | duplicates, leases, crashes, lost replies, recovery against a live or late run, jobs that run when the signal comes |
| Parse queue (`pkg/cache/parse_job_queue.go`) | Redis stream, consumer group, pending entries, heartbeat key | Publish, Read, ClaimStale, Ack, EnsureGroup, TrimBefore, Heartbeat, WorkerHealthy | at-least-once delivery, lost replies, loss of the data |
| Parse results (`internal/logic/parseresult`) | content, `version`, `is_confirmed` | Update, Confirm; Get, GetByJob, HistoryList | lost updates, edit against confirmation |
| Projects (`internal/logic/project`) | `status`, `version`, one row per parse result | Create (idempotent), Update, Archive, Unarchive, Delete; reads | concurrent creation, archive against task writes |
| Tasks (`internal/logic/task`) | `sort_order`, `status`, `version`, content | Create, Update, UpdateStatus, Delete, Reorder; List | unlocked first read, order numbers without a unique index, reorder against create and delete |
| Sessions and accounts (`internal/logic/auth`, `pkg/cache/redis.go`, `pkg/auth`) | users in PostgreSQL, session hashes in Redis | Register, Login, Refresh, Logout, UpdateCurrentUser | token reuse, two stores written in one operation |
| Uploads (`pkg/upload`, CreatePDF, cleanup loop) | `.tmp` and `documents` files, extraction slots | SaveTemp, Extract, Promote, Delete, Cleanup | crash between file and row, cleanup with an old list of references, INSERT with an unknown outcome |
| AI chat (`internal/logic/aichat`, `pkg/cache/ai_chat_guard.go`) | chat lock and rate window in Redis, stream channels | Stream, Acquire, Release; the part of a conversation that is sent | lock expiry, several channels selected at once |
| AI client (`pkg/ai`) | the text an attempt has collected | Parse (one retry), response stream reader, checks of an answer | end of stream, partial output, a retry after it, checks repeated in four other places |
| Rate limiter (`pkg/cache/auth_rate_limiter.go`) | sliding windows in Redis | Allow | boundaries of the window |
| Configuration (`internal/config`) | settings of a process | Load: file, environment, defaults, limits | two processes with different settings share one key |
| Readiness (`internal/handler/taskpilothandler.go`, `pkg/cache/parse_job_queue.go`) | one heartbeat key in Redis | Heartbeat, WorkerHealthy | all workers write the key, each with its own lifetime |
| Dashboard, HTTP layer, start-up of the API | none that changes | reads, routing, binding | - |

Interactions: the API and the workers share the PostgreSQL tables and the
Redis stream and never call each other. The database row is the truth, a
stream entry is only a hint that a row is pending: every lost hint is made up
for by the reconcile loop, every superfluous one is turned away by the
conditional `UPDATE` of the claim.

What makes each component correct:

* pipeline: at most one active job per document, none for a deleted document,
  a result exactly for the jobs that succeeded, success is final, automatic
  recovery is bounded, every accepted job ends, every entry is acknowledged;
* results, projects, tasks: an accepted edit was made against the current
  content, a confirmed result never changes, one project per result, an
  archived project is read-only, tasks of a project have distinct positions;
* sessions: one live token per session, a replayed token ends the session,
  no session survives a registration or a profile change that was rolled back;
* uploads: no file of a live document is removed, no orphan stays for ever;
* chat: one stream per user, and the browser gets what the AI service sent;
* content: only whole answers of the AI are stored, and what one place has
  accepted no later place refuses or changes;
* readiness: ready while a worker runs, and not long after the last one has
  gone; a stop cuts off no job that fits into the grace.

## 2. Plan

The order follows what would hurt most if it were wrong.

| Module | Content | State |
|---|---|---|
| `ParseJobLifecycle` | abstract: documents, jobs and results with atomic actions | checked, proved |
| `ParseWorker` | detailed: worker processes, queue, leases, failures; implements `ParseJobLifecycle` | checked, safety proved |
| `ParseApi` | detailed: transactions of requests and completions with row locks; implements `ParseJobLifecycle` | checked, safety proved |
| `BoardContract` | abstract: results, projects and tasks with atomic actions | checked, proved |
| `ProjectBoard` | detailed: statements and row locks of the review and board services; implements `BoardContract` | checked, safety proved |
| `RefreshSessions` | accounts in PostgreSQL, sessions in Redis, cookies in browsers | checked, proved |
| `RateScript`, `RateWindow` | the script of the sliding windows, and the calls of the authentication limiter | script checked within `ChatGuard`, limit and `Retry-After` proved |
| `ChatGuard` | composes `RateScript` with the chat lock and the life of a request | checked, safety proved |
| `ChatStream` | the goroutines and channels of one answer | checked, safety proved |
| `ChatHistory` | pure: the part of a conversation that is sent, against its definition; `ChatStream` states it | checked, proved |
| `ContentRules`, `ParserCall`, `ResultContent` | the rules for content, one call of the parser, and the way of an answer to the tasks of a project | checked, proved |
| `Settings`, `WorkerProcess` | the numeric settings; start, heartbeat, readiness and stop of worker processes | checked, safety proved |
| `Uploads` | files, rows, extraction slots and cleanup rounds | checked, safety proved |

Every safety property that a run checks is proved; of `NeverStuck`, which
speaks of ENABLED, its form with the guards written out is. Section 6 lists what
is only model-checked, with the reasons. What is worth doing next:

1. the document service beyond `CreatePDF` and `Delete`, and the parts of the
   configuration that decide whether a process starts at all;
2. the lease against the time the parser may take: the settings are checked one
   by one, and nothing compares the two;
3. the end of a stream when the deadline passes while `sendEvent` waits
   (section 7), as a property of its own.

Modules to be proved about use no recursive operators; parameters are
constants with named assumptions.

## 3. Modules and code

**ParseJobLifecycle.** The contract of the pipeline over the tables
`documents`, `parse_jobs` and `parse_results` (`scripts/migrate.sql`): one
atomic action for each change the API or a worker makes. It is the abstract
specification both detailed modules refine with the identity mapping on the
five table variables.

**ParseWorker** (`internal/worker/parsejob/worker.go`,
`pkg/cache/parse_job_queue.go`). A goroutine is a consume or a reclaim loop
with a program counter `pc[g]`: "slot" is `acquireProcessSlot`, "claim" and
"reload" are the two statements of `claimJob`, "load" and "parse" are
`processJob`, "complete" and "fail" the transactions at its end, "ack" is XACK,
"recover" and "republish" are `recoverStaleJobs`. The reconcile loop of a
process is `todo` and `touching`. Redis is `stream` (undelivered entries),
`pel` (delivered, not acknowledged) and `job_id` (payload). Time is kept as the
outcome of the comparisons the code makes: `leaseExpired`, `due`, `idle`.
Failures: a reply that is lost after the call took effect, a call that fails,
a context that ends, a process that dies, a Redis that loses its data, a
stream that is trimmed. `late` holds completions whose client has gone and
which the database may still run.

**ParseApi** (`internal/logic/parsejob`, `Delete` of
`internal/logic/document`, `completeJob` of the worker). A transaction is a
program counter over its statements; rows lock FOR UPDATE or FOR KEY SHARE
(`docLock`, `docShare`, `jobLock`), and `inserted` is the entry of the unique
index that an uncommitted result occupies. Effects show at the commit.

**BoardContract, ProjectBoard** (`internal/logic/parseresult`, `.../project`,
`.../task`). A handler runs one request: "find" is the unlocked first read of
a task request, "lock" and "lockTask" the SELECT ... FOR UPDATE, "read" the
second read of Create and Reorder, "write" the last write with the commit.
`base[h]` is the row as the client had it, which carries the version it sends.

**RefreshSessions** (`internal/logic/auth/service.go`, `pkg/cache/redis.go`,
`pkg/auth/refresh.go`, `internal/handler/auth`). A request goes through
statements of PostgreSQL ("insert", "read", "lock", "commit"), scripts of Redis
("issue", "rotate", "revoke") and its response ("answer", "clear"). Each may
fail, or take effect and lose its reply. Tokens are numbered per session
instead of hashed; `cookie[d]` and `told[d]` are what the browser holds.

**RateScript, RateWindow, ChatGuard** (`pkg/cache/auth_rate_limiter.go`,
`pkg/cache/ai_chat_guard.go`, `Stream` and `release` of
`internal/logic/aichat/service.go`). `RateScript` has the commands both scripts
run on a sorted set. A call reads its clock, and runs the script up to
`MaxDelay` later. `ChatGuard` adds the lock with its time to live and the
phases of the request; its refinement to `RateWindow` states the limit.

**ChatStream** (`internal/logic/aichat/service.go`,
`internal/handler/aichat/chat.go`). Three goroutines: `ai` is the call to the
AI service, `main` is `runStream`, `handler` the HTTP handler; `deltas`,
`result` and `events` are the channels between them with their capacities. A
`select` takes any case that is ready.

**Uploads** (`CreatePDF` and `Delete` of `internal/logic/document`,
`pkg/upload`, `cleanupUploads` of the worker). `pc[u]` follows CreatePDF from
SaveTemp over the extraction slot, the rename and the INSERT to the deferred
removals; `unlinking` are the removals a Delete has yet to make after its
commit; `at[w]` follows a cleanup round: query, clock and listing of `.tmp`,
removals, listing of `documents`, removals.

**ContentRules, ParserCall, ResultContent** (`pkg/ai/parser.go`,
`pkg/ai/responses_stream.go`, `completeJob`, the validation and normalization in
`internal/logic/parseresult`, `.../project` and `.../task`). A text is its
number of characters without white space around it, and whether there is such
space: all that the rules look at. Deliverables, requirements and warnings
follow one rule and are one list. `ParserCall` is `Parse` with its two attempts
under one deadline: an answer comes in `Pieces` deltas, `output` is the
`strings.Builder` of the attempt, and the other side may break off or complete
the stream anywhere. `ResultContent` takes what `Parse` returns through the row
of the result, what a user is shown and edits, and the project made of it.

**ChatHistory** (`normalizeMessages` of `internal/logic/aichat/service.go`). A
message is its role and its number of characters; the loop is a recursive
function over the first message that is left. `ChatStream` extends it:
`WindowIsLongest` speaks of the moment when `runStream` announces the answer,
which is after the messages have been cut.

**Settings, WorkerProcess** (`internal/config/config.go`, `New`, `Run` and the
heartbeat loop of `internal/worker/parsejob/worker.go`, `Heartbeat` and
`WorkerHealthy` of `pkg/cache/parse_job_queue.go`, `cmd/worker`). `conf[p]` is
what `New` has taken over from `Load`, `phase[p]` where `Run` is, `loop[p]` the
loops of its wait group, `next[p]`, `due[p]` and `flight[p]` the ticker, its
tick and the SET on its way, `key` the remaining life of the one key. The run
context is done in the phase "stopping", the work context at the end of it.
Time passes in steps of `Step` seconds and stops before anything that is due.
Reading a message and taking a process slot is one step here, two in
`ParseWorker`.

## 4. Runs

Numbers of distinct states are after symmetry, where a run uses it.

| Run | Instance | Distinct states | Shows |
|---|---|---|---|
| `worker` | 1 process, 1 job, 1 entry, 2 failures, 1 user retry, 1 late statement, fairness | 81 191 | `Lifecycle` (implements the contract), `RecoveryBudget`, `RecoverOnlyExpired`, `JobsSettle`, `EntriesSettle` |
| `worker_two_processes` | 2 processes, 1 job, 2 entries, 2 failures, no retry, no late statement | 1 636 563 | `TypeOK`, `OneRun`, `RunOwnsJob` |
| `api` | 1 document, 2 jobs, 2 requests, 1 completion, fairness | 79 784 | `Lifecycle`, `OneActiveJob`, `ActiveJobHasDocument`, `ResultIffSuccess`, `TransactionsEnd` |
| `board_edits` | 1 result, 2 projects, 1 task, 2 handlers, versions up to 3 | 166 832 | `Serialized` (implements the contract), `OneProjectPerResult`, `EditsAreCurrent` |
| `board_tasks` | 1 project, 3 tasks, 2 handlers, create, delete, reorder, archive | 131 060 | `PositionsDistinct`, `ArchivedReadOnly`, `Serialized`, `NeverStuck` |
| `sessions` | 2 accounts, 1 browser, 2 sessions, 2 requests, 3 tokens a session | 1 023 410 | `TokenUsedOnce`, `CookieIsBacked`, `Compensated`, `EndIsFinal` |
| `chat_guard` | 4 requests, limit 2, window 3, delay 1, lock 3, timeout 1, clock up to 7 | 359 688 | `RunningHoldsLock`, `RequestsLimited`, `RetryAfterIsExact` |
| `chat_stream` | channels of 2, 4 deltas, 1 ping; conversations of up to 6 messages of up to 3 characters; fairness | 72 698 | `NoGaps`, `WellFormed`, `WindowIsLongest`, `NothingLeaks` |
| `chat_stream_done` | channels of 2, 2 deltas | - | violates `DoneIsComplete` (section 7) |
| `worker_process` | 2 processes, 1 of them gets messages, 1 consume loop, step 10 s, interval 10, lifetime 30 or 20, grace 30, 2 failures, 3 environments, fairness | 401 286 | `ReadyIsFresh`, `AliveIsReady`, `StopIsGraceful`, `ReadyAgain` |
| `content` | answers in 2 pieces, 2 attempts, texts of up to 4 characters, limits of 2 and 3, versions up to 2 | 35 189 | `AnswerIsWhole`, `ConfirmedIsCreated`, `EchoIsNeutral` |
| `uploads` | 2 uploads, 1 cleanup loop, 1 slot, 2 failures, fairness | 173 396 | `DocumentsKeepFiles`, `OrphansGo` |

`TypeOK` of `ParseWorker` is checked by `worker_two_processes`; the type
invariants of the other modules document the variables and hold in the
instances above (a line of the cfg checks them again); those of
`ParseApi`, `ProjectBoard`, `RefreshSessions`, `RateWindow`, `ChatGuard`,
`ChatStream` and `Uploads` are conjuncts of the invariants proved in section 6. The runs of `MCParseWorker` and `MCParseApi`
also check for deadlocks. The others do not: clocks, versions and identifiers
are bounded there, a parser call ends and processes exit, and an instance that
has used them up stops.

Why the bounds are enough:

* two of everything that competes: entries for one job, processes, requests,
  handlers, projects for one result; three tasks, because an order needs a
  task in the middle that goes;
* one job and one document in the worker runs: jobs share nothing but the
  process slots, and the statements all name one row. What two jobs of one
  document do to each other is the subject of `api`. The run with liveness has
  one entry, which the failures and the reconcile loop lose and publish again;
  competition of two entries is the subject of `worker_two_processes`;
* failures: one failure at any point shows each loss alone; two show a failure
  during the repair of the first. `MaxRecoveries = 1` makes both outcomes of
  recovery, reset and exhaustion, happen;
* windows: four calls against a limit of two fill two windows; the clock
  passes twice the period;
* texts have lengths of zero, below, at and above the limit of their field,
  with and without white space around them, lists are empty, full and longer,
  with items that are equal only without white space;
* two pieces are the least that can arrive in part; three processes or more
  add nothing to the heartbeat that a second writer does not show, and the
  theorem has any number of them. Lifetimes are two and three intervals, so
  that one failed write is too many, or not;
* channels hold two instead of sixteen, and the answers are longer than a
  channel, so that every channel gets full and empty;
* sessions: three tokens give two rotations, so that a token can be replayed
  when it is the current one, the one before, or older.

What bounds cut off: `Messages` is the number of entries alive at once (XADD
without a free identifier counts as lost), a create in `ParseApi` needs an
identifier that is left, a request of `ProjectBoard` fails when identifiers
have run out, rows at `MaxVersion` get no more requests.

## 5. Fairness

* `ParseWorker`: every step of `handleMessage`, reading, reclaim and reconcile
  loops are weakly fair, since each loop runs again and every call has a
  timeout. Getting a process slot is strongly fair: several loops of a process
  wait for the same buffered channel, and Go serves blocked senders in order.
  Leases, grace periods and idle times elapse. Nothing is assumed of the
  requests of users, of publications, of failures or of trimming: an entry is
  never assumed to arrive, only that loops which find work go on with it.
* `ParseApi`: each transaction is strongly fair, because PostgreSQL queues the
  waiters of a row lock; without it a stream of other requests could overtake
  one for ever.
* `ChatStream`: goroutines that can run do run, writing to the client ends, and
  the deadline comes. The AI service owes nothing: only once the context of
  its call is done has the call to end.
* `WorkerProcess`: time passes, the heartbeat loop sends what is due, a SET is
  applied or fails, `Run` returns when it can, and jobs end (they have a
  timeout). Processes need not start, connect or get messages; failures are at
  most `MaxFaults`, which is what `ReadyAgain` needs: a Redis that fails for
  ever never gets a key.
* `Uploads`: requests, the cleanup loop and the ageing of files go on. Uploads
  need not begin, documents need not be deleted, crashes need not happen.

`ProjectBoard` needs no fairness: `NeverStuck` says of every reachable state
that some request can take its next step.

## 6. Theorems

Proved by TLAPS for all values of the constants. Two forms of argument recur:
an inductive invariant, and from it a refinement of the contract.

**ParseJobLifecycle.** `TablesCorrect`: one active job for a document, none on
a deleted document, results for exactly the successes. The invariant adds that
every inserted job names a document. `SuccessStays`: success is final.

**ParseWorkerProofs.** `Shape` (types, and that every entry in use has a job as
payload) is shown to be inductive first (`TypeCorrect`). `Effect` then reduces
each of the many actions to the handful of things it can do to the tables, so
that the later inductions look at six effects instead of thirty actions.
`Stamps` says that a stale row a reclaim loop holds carries the count of its
claim: `started_at` never runs ahead of `claims`, and a list entry whose claim
is still the current one also holds the current `retry_count`. It is what makes
`recoverStaleJobs`, which writes a count it read earlier, correct, and gives
`RecoveryBounded`, `RecoveryWaitsForLease`, `Refinement` (`Spec => Lifecycle`)
and, through the theorems of the contract, `WorkerKeepsTables` and
`WorkerKeepsSuccess`. `Owner` says
that a handler which works on a job has the row "processing", its lease not
over, and no other handler beside it; it is inductive when `MaxLate = 0`, and
gives `RunOwnsItsJob` and `SingleRun`.

**ParseApiProofs.** What a transaction knows at each statement: it holds the
document (`HoldsDocument`), the absence of active jobs it counted still holds
(`StillCounted`), the job it found failed still is (`StillFailed`), and it works
on rows that exist (`Placed`, `Targets`). From this `ApiRefinement`: each commit
is one atomic step of the contract; and `ApiKeepsTables`, with its parts under
the names the run checks, `ApiJobsHaveDocuments` and `ApiResultsMatchJobs`, and
`ApiKeepsSuccess`. `ApiCreateMeetsNoIndex`: what Create counted still holds at its
INSERT, so the partial unique index turns down no creation; only a retry, which
counts nothing, can meet it. `ApiLockOrder` is the safety part of
`TransactionsEnd`. Its invariant `OrderInv` says that a transaction holds the
locks of the statements it has run and no others (`Holds`), and that a lock
excludes whom it should (`Exclusive`). Whoever waits then waits for one that has come further
(`WaitsForward`): results are inserted before documents are locked, documents
before jobs. So there is always one whose next statement finds its locks free
(`SomebodyRuns`).

**ProjectBoardProofs.** First the contract: `TablesInv` joins its invariants,
since a task has a position only in a project that exists. Then the handlers:
what each knows under the locks it holds (`Knows`: the result is still
confirmed, the project active and the task there, the position it has read is
still behind all others, the tasks it has listed are still all), and that a lock
is held by the one whose transaction has taken it. It makes every COMMIT one atomic step of the contract, on the rows as they are
then (`BoardSerialized`), and the invariants of the contract hold of the
services (`BoardOneProject`, `BoardProjectsConfirmed`, `BoardPositions`,
`BoardArchivedReadOnly`, `BoardConfirmedFrozen`). `Seen` says that the row a client
has seen, with the version it sends, is the row as it was at that version; with
`BoardVersions`, that a version names one content, this gives
`BoardEditsAreCurrent`. `BoardLockOrder`: a handler that another waits for waits
for nobody itself. `Allowed` says that the checks a request has made under its
locks hold until its write. It is inductive on top of `Knows`, and gives
`BoardWritesFindTheirRow`: the conditions an UPDATE repeats in its WHERE never
fail, and the branch for "no row affected" is never taken. The two together give
`BoardNeverStuck`, which is `NeverStuck` with the guards of `Statement` written
out (`CanRun`) in place of ENABLED. Its hypothesis is that tasks are finitely many,
since a new task stands behind the greatest position. That `CanRun` and ENABLED
agree was compared by TLC on both instances of the board, and is not proved.

**RefreshSessionsProofs.** Who knows the current token of a session? The number a
rotation hands out is new, so nobody else can rotate the session until its
response is delivered (`Undelivered`); what the session says meanwhile is what
its request is about to commit (`Pending`); whoever presents the current token
has it from a response, which comes after the commit (`Backed`); and no token
is known that was not generated (`Generated`). Together these are inductive, and give
`OneRotationPerToken`, `CookiesAreBacked` and `FailuresAreCompensated`;
`SessionsEndOnce` follows from the scripts' check that the key exists.

**ChatGuardProofs.** Scripts may run in another order than
their clocks. `Remembered`: a call that was allowed and that some later script
may still have to count is in the sorted set; `Timely`: no script looks back
further than the delay. With the cardinality of the set below the limit at
every addition, `LimitAlwaysHolds` and `RequestsAreLimited`. The same bound
(`Bounded`) makes `RetryAfterFits`: a window that is full is full to the limit, so it
opens in the second its earliest entry leaves it, and not before. `Held` says that
the lock of a running request lives longer than the request can run; it needs
distinct request identifiers and `MaxDelay + Timeout < LockTTL`, and gives
`LockIsHeld` and `OneAtATime`.
The module extends `ChatStream` too. Meta and the deltas are the pieces
of an answer, numbered from 0; the page, the events, what `runStream` is sending
and the deltas of the call hold them in one order (`Chained`, `Ascending`,
`Follows`, `DeltaInv`), and an end comes last (`EndsLast`). `PageHasNoGaps` and
`PageIsWellFormed` follow for channels of any capacity, at least one.
`ChannelsNeverBlock` is the safety part of `NothingLeaks`: from `meta` on the call
is under way or has left its result (`CallPlaced`), so that a forwarder that waits
for room finds a handler that reads, one that waits for an input finds a call
that sends or has ended, and a handler that waits finds a forwarder.
`LongestWindow` holds for any limits and lengths. The sum of the lengths is the
number of the characters, each taken as a pair of its message and its place there
(`CharsCount`). The loop leaves what begins at the first of its stops
(`LoopEnds`, `FirstStop`): the places it can reach from which no more need be
dropped. In a conversation of the right form these are exactly the questions
from which on it fits (`LongestEnds`). The inductions, over sets of places and
over what is left, are arguments about a least counterexample in the naturals.

**UploadsProofs.** `Dead(u)`: no document can need the file any more. It is
stable (`DeadStable`), and whoever removes a final file knows it (`RoundInv`
for cleanups, `UploadInv` and `RowInv` for the API). `FilesAreKept` follows.

**WorkerProcessProofs.** `ReadyMeansAlive`: whoever wrote the key last, the key
lives no longer than that process's lifetime and one delay, counted from the
end of its run (`LastWriter`). A SET that is on its way is at least as old as
the silence of its process (`FlightInv`), which is what a late write after the
stop needs; `PhaseInv` ties settings and silence to the phases. The settings
enter through `Load`: what is accepted is at least one second.
`NothingIsCutOff`: a job that ran when the signal came has run for at least as
long as its process has been stopping (`JobInv`), and no job is older than
`JobTime`, so that it has ended when a longer grace is over. `RunningMeansReady`: the
ticker, the tick that waits and the SET on its way are in step (`Paced`), so
what is left of the key and the time since the last write add up to the
lifetime (`Fed`). It has the hypothesis `RegularBeats`, that intervals are whole
numbers of steps and a SET takes no longer than an interval: the loop sends one
SET at a time, and a slow one would delay those after it.

The call of the parser and the content have their theorems in the same module,
as the job of a worker. `WholeAnswersOnly`: while an attempt reads its stream,
the text collected is exactly the pieces of this attempt that have arrived, in
order (`Collected`), so that it decodes only if all of them have; and as long as
the call goes on no whole answer has arrived (`Undecided`), so that an error at
the end is never one in spite of a whole answer. `ConfirmedBecomesProject` and
`SavedUnchanged` rest on one idea: what is accepted is stored *clean*, trimmed,
without duplicates and with a priority, and every rule lets what is clean pass
and leaves it alone (`DocClean`), whoever made it so: the parser
(`AnswerCleaned`), an edit of the result (`UpdateCleaned`) or of a task
(`TaskCleaned`). That rows and projects hold nothing else is `ContentInv`. The lists are
the hard part: `DistinctKeeps` says that `Distinct` keeps only what was there,
nothing twice, and all of a list in which nothing comes twice. The hypothesis is
`ShapesOK`: documents have the fields of the schema, and null is none of them.

Assumptions are the ASSUMEs of the modules (non-empty limits, disjoint
identifiers, finite sets of loops) and the hypotheses named above.

Model-checked only:

* liveness (`JobsSettle`, `EntriesSettle`, `TransactionsEnd`, `NothingLeaks`,
  `OrphansGo`, `ReadyAgain`), which rests on fairness, and which TLAPS does not
  prove. `ApiLockOrder` and `ChannelsNeverBlock` are what can be proved of two of
  them: that nobody waits in a circle;
* `NeverStuck` itself, since TLAPS does not reason about ENABLED
  (`BoardNeverStuck` has its content).

`Distinct` is defined by the places it keeps, not by recursion, because facts
about what a fold or a recursive definition computes need induction over data.

## 7. What was found

* `chat_stream_done`: `runStream` (`internal/logic/aichat/service.go:136-147`)
  selects between the deltas and the result of the call. The result may be
  selected while deltas are still in their channel; the client then gets
  `done` and never the end of the answer, which `docs/openapi.yaml:130-135`
  shows before `done`. One delta is enough: the call puts it into the channel
  and ends before the forwarder comes to select.
* Observed while modelling, without a run of their own:
  * when the deadline passes while `sendEvent` waits, `runStream` returns and
    the stream ends with neither `done` nor `error`, unlike the deadline that
    `select` notices (`service.go:152`);
  * the lock of the chat lives for 100 s (`chatLockTTL`), the timeout of a
    generation is configured without an upper limit. `LockIsHeld` names the
    relation the two need;
  * a repeated `X-Request-ID` is one member of the window and is counted once;
  * when the INSERT of `CreatePDF` commits and its reply is lost, the file is
    removed and the document stays. `DocumentsKeepFiles` leaves these documents
    out by name (`unsure`); their text is in the row, and no code reads the
    file again;
  * two branches of `normalizeMessages` are never taken: a conversation that is
    left begins and ends with a question, so its length is odd and never two
    (`service.go:202-203`), and the last question is limited below the history
    (`service.go:210-212`). `IsLongestEnd` holds without them;
  * the environment variable of `MaxRecoveries` is parsed with 64 bits and cut
    to 32 (`config.go:359`): a value beyond them is accepted as another one;
  * the reader of a stream does not look at the status of the event that
    completes it: an answer the service calls incomplete fails only because it
    does not decode;
  * the name of the model is configured without a limit and stored in a
    VARCHAR(64) (`scripts/migrate.sql:88`): a longer one makes every completion
    fail;
  * a text with a NUL character passes every check and PostgreSQL refuses it.

## 8. Assumptions and omissions

* The clocks of the worker hosts agree: a lease that is over for one of them is
  over for all.
* A statement whose client gave up is applied, if at all, in less than a
  lease. There is no fencing token: with `MaxLate > 0` two handlers may run
  one job, and the tables still follow the contract (run `worker`).
* Entries without a job identifier and jobs whose row is missing are dropped by
  the worker at once and are not modelled; batch limits of 100 rows neither.
* All rows belong to one user: every query of the services has `user_id` in its
  condition, and the models leave it out.
* `ReconcileTouch` may leave a job due that was touched (an over-approximation
  of the comparison with `updated_at`).
* The expiry of a session can happen at any time; access tokens are not stored
  and not modelled.
* `OrphanGrace` is longer than an upload takes after its last write, the query
  of a cleanup included that missed its row. The default is a day against some
  20 seconds; the configuration does not compare them. Nothing is assumed of
  `TempGrace`: an upload whose temporary file goes fails.
* Messages to the worker are read and given a slot in one step of
  `WorkerProcess`; a process gets messages only if it is in `Busy`.
* Of the settings only the numbers are modelled. Names, addresses, keys, the
  port and lists of origins decide whether a connection works and nothing else
  here.
* The lease is not compared with the time the parser may take: the models let
  every run end before or after its lease.
* Not modelled: reads (Get, List, dashboard, history) and access tokens, which
  change nothing; routing, binding and error mapping; start and stop of the API
  process, which keeps no state of its own; deadlines in the content, which are
  passed on as they are; the framing of events in a response stream; the text of
  prompts and what Poppler makes of a file. Planned: section 2.
