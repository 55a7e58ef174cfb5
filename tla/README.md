# Verification of the Document Intelligence Platform

TLA+ models of the platform's own logic, the TLC runs that check them on small
instances, and TLAPS proofs of the properties that matter most. Line numbers
are those of the files under `src/`.

## The system

A browser asks the API for an upload slot (a row of `documents`, status
UPLOADING, and a presigned URL), posts the file to S3 and tells the API
(UPLOADING becomes QUEUED). S3 notifies an SQS queue. Workers poll the queue,
claim the document in PostgreSQL, fetch the object, run a LangGraph workflow,
write the result and the report, and delete the message. The browser polls the
list of documents.

| Component | State | Operations | Interacts by |
|---|---|---|---|
| Documents table (`worker/consumer/claim.py`, `reaper.py`, `backend/app/models.py`) | status, lease, attempt_count, current_step, age; row locks | claim, heartbeat, record_step, mark_completed, mark_failed (with or without commit), two sweeps, insert, upload-complete | SQL statements of the worker, its heartbeat thread, its sweeps and the API |
| Worker (`worker/consumer/main.py`) | the message in hand, its claim's token, the open transaction | run, _handle, _process, _run_graph, _record, _publish_and_commit | SQS, S3, the table, the graph |
| Heartbeat (`worker/consumer/heartbeat.py`) | stop and lost events, current step | a beat: extend the lease, then the visibility timeout | a thread beside the run |
| SQS and S3 notifications (`infra/data.tf`) | visibility, receive count, dead letter queue | send, receive, hide, delete, redrive | external |
| Workflow (`worker/graph`) | the shared State, the next node | eleven nodes, two routers, the wrapper | called by the worker |
| Rules (`worker/rules`), LLM client (`worker/llm`) | none | validate, verify snippets, mask, parse | called by nodes |
| API (`backend/app`) | engine, cached password, pooled connections | create, list, get, upload-complete, report; migrations at start under an advisory lock | the table, S3, Secrets Manager |
| Browser (`frontend/src`) | polling loop, upload panel, selection, report view | poll, focus, upload, select, getReport | the API |

What is hard: deliveries are at least once and may overlap; a worker may stall,
lose its lease and wake up; the finishing write is left uncommitted across two
AWS calls; any call may raise and any process may die between two of them;
three clocks (lease, visibility, reaper) decide who may act; API tasks migrate the
same database at once while its password may rotate; the browser's requests overlap
and answer out of order, and React runs effects after the screen has changed. `PROJECT.json` lists each hazard at
its line with the properties that cover it.

## Modules

| Module | Models | Uses |
|---|---|---|
| `Lifecycle` | abstract: what a document's status, attempt and settler may do | |
| `DocumentStore` | the table and every statement on it, under any clients at all | implements `Lifecycle` |
| `MessageQueue` | the SQS queue (external) | |
| `Pipeline` | browser, API, S3, workers, heartbeats, reaper, crashes | extends the two above, implements `DocumentStore` |
| `Graph` | one run of the workflow: nodes, wrapper, routers | |
| `Workflow` | the same with its document: parsing, prompts, amounts and dates | extends `Graph`, implements it |
| `Evidence` | the rules for evidence, validation and masking, on texts | |
| `Startup` | migrations, `wait_for_schema`, passwords and their rotation | |
| `Polling` | the browser's polling loop | |
| `Page` | selection, report view and upload panel around it | extends `Polling`, implements it |
| `MCStore`, `MCPipeline`, `MCWorkflow`, `MCEvidence`, `MCPage` | instances for TLC | |
| `DocumentedClaims` | what comments say of the pipeline and the code does not keep | extends `MCPipeline` |
| `DocumentStoreProofs`, `PipelineProofs`, `GraphProofs`, `WorkflowProofs`, `EvidenceProofs`, `StartupProofs`, `PollingProofs`, `PageProofs` | theorems | |

Definitions marked *Mutant* are wrong versions of the definition that follows
them. No specification uses them: each property must fail when its mutant
takes that definition's place (`PROJECT.json`, `mutants`).

### DocumentStore

One action per statement. `row[d]` is the committed row. A write with
`commit=False` is an entry of `open[d]`, which is the row lock: every action that
writes a row needs `Free(d)` beside its WHERE clause, because PostgreSQL tests
the clause on the committed row first and waits only on a match, then tests
again. `now()` never appears: a lease is the time left, moved by `StoreTick`,
live above 0, expired below 0, neither at 0, exactly the strict comparisons of
`CLAIM_SQL` and the fences. It stops counting one unit past the reaper's margin,
where no statement can tell two values apart. In PostgreSQL `now()` is the start of
the transaction, which matters for a beat that waits for a finishing write's lock:
its fence is tested, and its new lease counted, from when it asked. `ExtendLease`
therefore has `asked`, what the new lease comes to when it is granted
(`LeaseSeconds` less the wait), and `CurrentWhen` is the fence at that time. So a
lease that lapsed during the wait may come back after a rollback, without a new
attempt; `LeaseNotRevived` says that this is the only way besides a claim, and for
how long. `current_step` is the attempt that
wrote it (0 for NULL). `settledBy` is a history variable.

`StoreSpec` lets any client present any token ever issued at any moment, which
is more than workers do. What holds of it holds whatever the worker's code is.

### MessageQueue and Pipeline

A message has a visibility timer, a receive count and a state; a receipt handle
is the number of its delivery. A worker is its place in the code (`pc`), its
message, receipt, token and verdict; each of its steps is one database
transaction or one AWS call, so that anything may happen between two. At every
call the call may raise, after having taken effect or not. `Crash` ends the
process anywhere; `LoopEnds` is an exception outside `_handle`'s `try`. The
heartbeat thread is a process of its own with a step per call; it may fail to
connect and die (`Fetch`), it may outlast `join(timeout=5)` (`StopBeat`), and where
the row is locked it waits (`BeatLocked`) while what it asked for ages
(`AskedAges`).
`ConnectionsDrop` says whether the database may drop an open transaction
without the worker noticing.

Abstractions: a put of the report is atomic and does not land after its
process died; the reap interval is a choice at each turn of the loop; SIGTERM is
seen at the loop's test; a beat that outlasts its run ends before the same
worker starts another run's heartbeat; a claim that waited for a lock gets a
lease that counts from its start and is shorter than the model's, which is one
more `Tick` (if the write it waits for is rolled back, its own condition was true
before the wait and stays so); a worker's own finishing write waits for no lock but
a beat's or a sweep's, which are one step; other statements that commit at once are one step. Left out: the
operator's redrive out of the dead letter queue, retention of messages, the
parsing of a message body (a message names a document or none).

### Graph and Workflow

`Graph` is the state the nodes share and the next node. Model answers and validation
results are any value; texts are abstracted to which sensitive values they may quote: one
that its field still holds ("raw"), only such as verification cleared ("cleared"), what
redaction of the held ones leaves, in which a cleared one may remain ("masked"), none
("plain"). What `str(exc)` says ("exception") is a kind of its own: nobody looks for
anything in it, and `record_failure` puts it into the report as it is. The wrapper's two ways out of an
exception are `Fails` (terminal, into the state) and `Raises` (out of the graph).
`Pipeline` sees a run as `NodeFinished`, `GraphEnds` or `GraphRaises`; `Recorded`
in `Graph` is what `_record` makes of its end.

`Workflow` gives the nodes a document. `Load` is `rules/parse.py`: which kind a file is
taken for, whether it becomes text, images or an error; the length that is compared with
the scanned threshold counts the newlines that join the pages, as the code's does.
`Prompt` is what `llm/prompts.py` shows of it. `Judge` is `rules/validate.py` on a cell of
value and evidence. The evidence is a snippet of words the text has or has not, one of
white space, which is in any text, blank and empty ones included (`Supported`), or none.
Verification clears a value, then come the formats, the order of
the dates, the sum of the line items and the required fields, in that order, on what
it left. `JudgeFails` is Python refusing to compare a date that has a UTC offset
with one that has none. Every action is one of `Graph`'s with something more said, so
`WorkflowImplementsGraph` holds action by action. `answer` and `shown` are history: what
the model said last, and what it had been shown. Of the fields that are neither amounts
nor dates only what came of them is kept (`rest`); `Evidence` has them in full.

### Evidence

The deterministic rules of one extraction, from the model's answer to masked state,
one action per node. A text is a sequence of `Characters`: `Letters` are the alphanumeric
ones up to case, a space stands for any white space, `Separators` for the rest, which a
mask keeps, and `MASK_CHAR` is what it writes. `Normalise` and `FoundAt` are the two
matchers, verification's and masking's, which the code wrote separately and which must
agree. `Done` is how far `re.sub` is when it has looked at a place, and `Substituted` what
it replaces, from the left and without looking back; `After` takes the secrets in turn.
What the code does in a loop over a text is a recursive function of the place, so that it
can be proved about. A cell of a nested row is an untagged field. `answer` and `held` are
history: what the model said, and what masking found.

What a well-formed text is, is the constant `WellFormed`. Letters are compared up to
case, where the code compares `casefold()` in one place and `re.IGNORECASE` in the
other; the few characters they differ on ("ß" and "ss") are left out.

Proving the masking rules for every text showed what they do not reach, and the
properties except exactly that:

* `OverlapsItself`: two occurrences of a value such as "abab" in "ababab" share
  characters, and `re.sub` replaces only the first. If the value starts with a letter and
  keeps no tail, the letter they share is masked and the second is gone too. Otherwise it
  may stay readable: it starts in the tail that the first keeps, or with a separator,
  which no mask covers (`Escapes`). The normal form decides, not the spacing.
* `Plain`: a value with a mask character in it can come about by masking another, and is
  found where it never was. Masking can bring about no other value (`FoundBefore`).
* A value without letters or digits is not masked at all (`mask_value` keeps separators).
* A snippet of white space alone is found in every document.

### Startup

An API task is its place between import and serving; a worker, between its start and
its first poll. The lock belongs to a connection: it is free when that connection closes
or drops, and orphaned while the server has not noticed that its client died. Alembic's
connection is another one, made with the password cached at import, so an upgrade can
fail to connect while the lock is held, and can go on after the lock was lost. `schema`
says whether the migration has committed; `ReadRevision` and `Create` are two steps
because Alembic looks before it writes. A password is the number of rotations before
it; RDS changes the secret and the database one after the other, in either order.

Left out: revisions beyond the first two states (a database is at head or not), and the
pool's size: a task has one pooled connection or none.

### Polling and Page

Each stretch of `poll()` between two awaits is one action. `requests` are polls
awaiting their answer, `timers` what the browser holds, `timerRef` the one handle
the code keeps. `MaxRequests` bounds the polls of a page.

`Page` adds what is on the screen around the loop. `Deps` are the dependencies of
`ReportView`'s effect; it is due while they differ from those it ran with, and runs some
time later (`EffectRuns`, or `EffectRunsTwice` when StrictMode mounts it). A `getReport`
call is a fetch with the cancelled flag its cleanup sets. `handleFile` has a step per
await. `server` changes by the API's rules, by this page and by everybody else.
What `get_report` answers is by the document's status, as `documents.py` has it.

## Runs

| Run | Question | Bounds |
|---|---|---|
| `store` | Do the fences hold against any client, however long its beats waited? Does the table implement `Lifecycle`? | 2 documents, 2 attempts each |
| `two_workers` | Is the stored report the settled attempt's, and a settled document final? | 2 workers, 1 message, 3 deliveries, lease 1, grace 2 |
| `intake` | When transactions may be dropped: is a message deleted early only when its work is finished or there is none, has a COMPLETED document a report, does every step stay within the table's interface, and what brings a lapsed lease back? | 1 worker, 3 messages: a document, an object without row, the test event; lease 2, grace 2 |
| `settles` | Is everything that is started settled in the end? | 1 worker, 2 deliveries, grace 3 |
| `workflow` | Retries, masking, trace and outcome on every path; is a COMPLETE document sound, and is what is called verified read as text? | 8 files, 2 extractions, 2 rows, amounts 1 and 3, 2 days |
| `evidence` | Is a value without evidence gone and recorded, and any other masked wherever it is quoted? | 3 fields (whole, tail, free text), texts of 2 letters, a separator and a space, up to 6 long |
| `startup` | Does everything come up, one migration at a time, whatever dies or rotates? | 2 API tasks, 1 worker, 1 rotation, 2 faults |
| `page` | One loop, no stale view, one announcement; the selected document's report, an upload that stays visible | 2 documents, 2 polls, 2 clicks |
| `ack_means_finished`, `queued_settles`, `tagged_values`, `stale_secret` | see Findings | |

Why the bounds suffice: a lease of one unit already separates live, boundary
and lapsed, and the grace adds one value the reaper tells apart; two workers and
two deliveries give the overtaking of one attempt by another, three deliveries a
third attempt after a failed second; in `intake` a lease of two lets a beat wait past
the end of the lease it renews and still be granted some of the next; documents and their rows do not interact
but in `Reap`, which two documents of `store` cover; with one worker `intake` still
lets a heartbeat outlive its run and a crashed worker start again, and `PipelineImplementsStore`
is proved for any number. Symmetry is used over
workers in `two_workers`, whose properties do not tell them apart and are not
liveness. In `evidence` three fields are a longer secret, one it contains and a text
that quotes both; two letters, a separator and a space spell containment, overlap and wrapping,
and a tail of one letter from three letters on makes one value with a tail and one too short for it.
That no longer text or other schema behaves differently is what `EvidenceProofs` shows.
In `workflow` two rows of 1 or 3 against a total of 1 or 3, with a tolerance of 1, give sums
that are right, off within the tolerance, off beyond it, and right only because a row was
dropped; evidence is words that are there or not, white space, or none; the files are a text, a scan that is too long, a scan with a little text,
blank pages whose newlines reach the threshold of 3, a document without text, an image
and two refusals. `startup` has two tasks that race for the lock, one rotation that may fall
between any two steps, and two faults, so that the second hits whoever took over from the
first; the theorems hold for any numbers. In `page` one document is done or nearly when the
page opens and the other is uploaded, so that a click back and forth, a late report and a poll
that is older than the upload all happen; four polls in a row add nothing for `Polling`,
whose theorems are for any number.

`workflow`, `evidence`, `startup` and `page` switch off deadlock checking: a run ends, a page
whose polls are used up stops, and a system that is up with no faults left has nothing to do
but requests.

### Fairness

`FairSpec` asks for: time passes; S3 notifies an object; a started task is
started again (ECS); a worker's loop turns and a call in progress answers or
raises (timeouts of boto3 and psycopg); a heartbeat's calls likewise. Two strong
conditions: a message that keeps becoming visible is received in the end, and a
worker that keeps reaching the sweep does sweep in the end, since the interval
passes and `_maybe_reap` is the first thing the loop does. Nothing is assumed
about calls succeeding, workers staying alive or clients finishing uploads.

`StartupFairSpec`: ECS starts a task that has exited again and processes run
(`TaskStarts`, `WorkerStarts`), requests and messages come, a rotation that began ends,
PostgreSQL notices a dead connection. Weak fairness suffices: a task takes the lock once
per life and those that wait stay waiting, and with finitely many faults the lock is free
for good at last.

`PageFairness`: React runs an effect that is due, and a `getReport` call is answered or
fails. Polls, clicks and uploads need not go on.

### Findings

Each is a run that violates one sentence of the repository; `PROJECT.json` quotes it.

* `AckMeansFinished`: on the last delivery `mark_failed`'s answer is ignored
  (`main.py` 231, 297) and the message deleted although the row may still be PROCESSING.
* `QueuedSettles`: a QUEUED document whose deliveries all failed before the claim
  stays QUEUED; neither sweep looks at it.
* `TaggedValuesAreScrubbed`: masking looks for the values it finds; one that
  verification cleared is not among them, and another field may quote it.
* `TasksFollowRotation`: the API is said to refetch the password on an
  authentication error; nothing does, and the engine's URL is fixed at import.

Three more sentences the code does not keep. They have no run of their own; the
properties named say what remains true.

* `main.py` 331-337 and 405-406 say that a worker that has lost the lease writes
  nothing and that nobody else can claim while the report is written. A transaction the
  database drops takes the row lock with it, and a superseded worker may then still
  store its report over the winner's. `CompletedHasReport` holds all the same (run
  `intake`, with dropped transactions): a COMPLETED document has a report of one of its
  attempts. That it is the settled one's (`ReportIsTheWinners`) and stays
  (`TerminalIsFinal`) is shown for `~ConnectionsDrop` only.
* `mask.py` 20 says that unmasked values are never written to logs or persisted. A FAILED
  report's summary and error say what was raised (`nodes.py` 444, 450), and nothing masks
  that. `ReportIsMasked` keeps it out of every other report and out of all traces.
* `usePolling.ts` 36 and 47-49 speak of transitions that were observed. A document that
  is first listed in a later answer, settled by then, is announced too, with its present
  status as the one it came from (line 98). `AnnouncedOnce` counts it.

Behaviour the models show that no sentence of the repository denies:

* The sweep comes before the receive, so after a long outage it fails a document
  whose message has deliveries left.
* A beat that waited for a finishing write renews, after a rollback, a lease that was over
  meanwhile. It is the latest attempt's own, so no fence is passed by anybody else.
* A claim with one date that has a UTC offset and one that has not ends FAILED, without
  the retry an ill-formed date gets (`JudgeFails`); no property asks for that retry.
* A scan of many blank pages is taken for text, because the newlines between the
  pages count; the model is then shown white space. A value it answers with words for
  evidence is rejected, one with a snippet of white space passes as verified, and with
  enough of these the document is COMPLETE.
* `ReportView` asks for a report once: after an error nothing asks again until another
  selection. `UploadPanel` says "Upload failed" also when only the answer was lost, and
  the document then goes on.
* A worker touches its heartbeat file once per turn of the loop, so a run longer than the
  health check's patience has a healthy worker killed; each delivery may end so. To
  `ProcessingSettles` that is a crash like any other: the reaper settles the document.

## Proofs

For all values of the constants:

* `DocumentStoreProofs`. `StoreInv` strengthens `StoreTypeOK` (checked
  as a part of the pipeline's `TypeOK`) with: a lease exists exactly while PROCESSING, an open write belongs to the row's current
  attempt and the row is PROCESSING, a step is 0 or the current attempt, a
  terminal row was settled by its attempt or the reaper. The open-write part is
  what makes the rest inductive: `Commit` writes without looking at the fence
  again, so the lock must have kept the row where the fence left it. From it:
  `StoreTypeCorrect`, `Fencing`, `Progress`, `OpenWrites`,
  `LapsedLeasesStayLapsed` (an action property, whatever the beats asked and waited) and
  `LifecycleRefined`.
* `PipelineProofs`. `PipelineInv` adds the workers to `StoreInv`: a token in hand was
  issued, tokens are not shared, and each place in the code has the message and the
  document it needs. From it: `TypeCorrect`, `TokensAreNotShared` and
  `PipelineImplementsStore` (so the table's theorems hold of the pipeline; of them
  `LeasesAreNotRevived` is stated). `CompletedHasReportAlways` needs no assumption about
  the database: an attempt that is past the put has stored a report, a later put only
  replaces it by another attempt's, and a commit needs the transaction open since.
  `RecordingInvariant` adds `ReportInv`: a worker past its fenced write has its
  transaction open, and one past the put has its own report stored. It, `WinnersReport`
  and `TerminalStays` need `~ConnectionsDrop`. `TerminalStays` follows action by action: a
  status changes only through the table's statements, none of which matches a terminal
  row (`SettledRowsStay`), and a report only under the open transaction of a
  row that is PROCESSING (`SettledReportsStay`).
  `AckInv` ties the message in a worker's hand to the queue and the row: an object
  has a row or is foreign, a sent message has an object, a receipt is at most the
  message's count, and whoever is about to delete a message early has seen its document
  finished. What was seen stays so: terminal rows stay (`SettledRowsStay`), and a foreign
  object never gets a row (`ForeignStaysAbsent`). From it `EarlyAckMeansFinishedAlways`, dropped
  transactions included.
* `GraphProofs`. `GraphInv` says, for each place in the graph, what has been extracted
  and how many steps and attempts that took, which texts may quote a held value, which nodes
  have run well, and that the masked trace is a prefix of the trace that says nothing of what
  was raised. The
  attempts are what bounds the retries: the counter is in the state, the extractions are in
  the trace, and only the invariant ties the two. Lemmas take the nodes one by one: what
  a node returns (`Returned`, `ExtractDoes`, ...) and that it keeps the invariant. From it
  `RetriesAreBoundedAlways`, `ReportIsMaskedAlways`, `OutcomeIsWhatHappenedAlways`,
  `TraceIsWholeAlways` and `ErrorsStopAlways`, for any retry budget.
* `WorkflowProofs`. `WorkflowInv` adds that what is judged is what was answered, to a
  prompt of this document, and that past the last validation the state's verdict is
  the right one. The heart is `JudgedIsSound`: on any answer, `Missing` and `Invalid` of what
  verification left find nothing exactly if the answer itself is `Sound`, by the evidence
  that verification accepts. Sums are
  compared as they are, never computed, so it holds for any fold of any rows. From it
  `WorkflowImplementsGraph` (which needs the invariant, for a schema's fields to be there),
  `CompleteIsSoundAlways`, `VerdictIsOfWhatWasShownAlways` and `WorkflowTypeOKAlways`.
* `EvidenceProofs`. The state part is short: `EvidenceInv` adds to the three properties the types
  and that what is validated is what was answered, and each node keeps it. The work is in what
  the text functions compute, for every text. Induction over data is done with sets: a set of
  numbers has a least one (`Least`), so one with 0 and every successor has all
  (`SetInduction`), and a function defined by recursion exists (`Recursion`), which is what
  `NormalToIs`, `DoneIs` and `AfterIs` need before anything can be said of theirs. `At(t, k)`, how
  far a text's first k places reach in its normal form, then relates the two matchers: a
  stretch found by masking is one whose normal form verification would find
  (`NormalOfPart`, `QuoteIsFound`, `PartIsQuoted`), and two occurrences that share characters are a
  shift of one normal form onto itself (`FoundInside`). Every secret in turn only writes mask
  characters (`Covers`), so what a later pass sees of a plain value was there before
  (`FoundBefore`), hence `RedactScrubs`: a value replaced once stays away. The secrets are
  sorted (`SortedFieldsAre`: ranks in a strict order are a bijection), so nothing shorter has written where a value is when its
  turn comes (`UntouchedUntil`, `RedactMasksWhole`). From it `HeldValuesAreScrubbedAlways`,
  `LongerIsMaskedWholeAlways` and `FabricationIsRecordedAlways`, for any schema, document and answer.
* `StartupProofs`. `StartupInv` adds that whoever has seen the schema saw what is there,
  that a task past the upgrade has seen it, that an upgrade goes on without its lock only when
  its connection was lost, and that a migration that will fail had lost its lock or met one
  that had. From it `ServingHasSchemaAlways`, `MigrationsAreSerialAlways` and
  `LockIsTheUpgradersAlways`, and the types (`StartupTypeCorrect`), for any number of tasks, workers, rotations and faults.
* `PollingProofs`. `PollingInv` adds that the browser holds only the timer the
  page can clear, that tickets are unique, that the newest poll's answer is not older
  than the view, and that whoever was told a document is settled was told its last status. From
  it `OneLoopAlways`, `ViewIsMonotonic` and `Announcements`, for any number of
  documents and polls.
* `PageProofs`. `PageImplementsPolling` carries these over to the page: every step of it is
  one of the loop's or leaves the loop alone. Its own invariant says that the report
  shown and every fetch not cancelled are for the effect's dependencies, that every document
  asked for is COMPLETED in the page's list (which never goes back, so neither does the
  server), and that polls started after an upload's confirmation see it. From it
  `ReportIsOfSelectedAlways`, `ReportIsReadyAlways`, `UploadIsSeenAlways` and
  `ReportStaysAlways` (an action property), and the types (`PageTypeCorrect`).

Assumptions are the named ASSUMEs of the modules (positive lease and deliveries,
NULL is not a number, messages name documents or none, a model's cells have a value and
evidence; a schema lists each field once, tags some of its fields, a tail is shorter than the
texts that keep one, and what the model answers are texts); TLC evaluates them on each run.
Model-checked only: liveness (`ProcessingSettles`, `UploadSettles`, `EverybodyComesUp`,
`WorkersFollowRotation`, `ReportLoads`), which is out of the prover's reach. Every invariant and
action property of the passing runs is proved.

## Not modelled

* The LLM client's construction, timeouts and retries (`worker/llm/provider.py`): a call
  answers anything the schema admits, raises a terminal error or a transient one, which is
  all its callers tell apart. Prompts' wording, the test double and the sample generator.
* Decoding and rendering (pypdf, python-docx, Pillow), of which `Workflow` keeps whether
  they succeed and what they return; Unicode's case folding.
* Alembic's chain of revisions beyond "at head or not"; the pool's size and overflow.
* Logging, layout and rendering; Terraform and the local stack, but for the queue's and
  the tasks' behaviour the models rest on; retention of messages and the operator's redrive.
* The list's limit of the fifty newest documents: a selected document that falls out of it.
