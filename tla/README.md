# Verification of europe-job-scan

TLA+ models, TLC runs and TLAPS proofs about the parts of this repository whose
correctness is hard to test: the durable one-application lane, the service and the policy
in front of it and the local record of its outcome, the writers that prepare an application
form without submitting it, the canaries and inspections of live pages, the guarded change
of a tracked application, and the signed TEST queue between Google Apps Script and CI
runners with their browsers. Paths are relative to the repository
root; `services/...`,
`persistence/...` and `apps/...` stand for `src/ejs/...`.

The modules are translated from the code. A doc or a comment is quoted where a property
states what it promises; the model never takes its behaviour from one.

Contents: 1 the system, 2 the plan, 3 modules and code, 4 runs, 5 fairness, 6 proofs,
7 what is only model-checked, 8 disagreements found, 9 abstractions.

## 1. The system

### 1.1 Modelled components

| component | state | operations | talks to |
|---|---|---|---|
| Durable submission ledger (`persistence/submission_ledger.py`) | one SQLite file with at most one row | `__init__`, `reserve_intent`, `mark_started`, `confirm`, `has_intent`, `has_submit_key`, `snapshot` | the runtime, the command and the outcome writer, all through one file |
| Durable submission service (`services/durable_submission.py`) and submit policy (`services/submit_policy.py`) | none of its own: a receipt, a snapshot of the row | `reserve`, `record_before_dispatch`, `reconcile`; `validate_pre_submit`, `create_submission_attempt` | the ledger, beside its other users |
| Reviewed inputs (`services/single_application_inputs.py`) | two private files | loading of facts and manifest | the runtime, and through it the submit policy |
| Network boundary (`services/oneclick_target.py`) | phase, budgets and counters, under one lock | `begin_upload`, `end_upload`, `begin_submit`, `allows` | armed by the browser driver, consulted for every request of the page |
| Single-application runtime, driver and command (`services/single_application_runtime.py`, `services/oneclick_browser.py`, `apps/single_application`) | progress of a run, `started`, verified uploads | `run`, the driver's calls, `main` | ledger, boundary, page, outcome writer |
| Outcome record (`services/application_outcome.py`) | one final file name and temporary names | `write_confirmed_outcome`, `_publish`, `_existing_matches` | a ledger snapshot, the file system |
| Replay ledger of the signed gateway (`google_native/apps_script_zero_cost/EjsGitHubGatewayV1.gs`) | markers in Script Properties, one per request id and nonce | `doPost`: time checks, clean-up, replay check | every signed request |
| TEST execution queue (`EjsQueueZeroCostV1.gs`) and its CI runner (`services/github_queue.py`) | rows of a sheet; the progress of a runner and of its browser | initialise, claim, read payload and assets, reconcile; `GitHubQueueRunner.run`; `PlaywrightBrowserWorker.inspect` | signed HTTP requests with a 20 s timeout; one page per runner |
| Guarded mutation, MW-5 (`services/guarded_mutation.py`, `services/mw5_executor.py`, `persistence/mutation_memory.py`) | Applications row, Outcome Event Log, Pipeline History, derived tables, kill switch | plan, execute, repair, postcondition snapshot | the owner, who edits the same row; other executions |
| Fenced session, fence and SmartRecruiters executor (`services/fenced_application_session.py`, `prepare_network_fence.py`, `smartrecruiters_executor.py`) | session state, current observation, fence, counters of attempts, report | open, `inspect`, `prepare`, `close`, cancellation; every check and write in between | one browser page, the fence in its network, files on disk |
| Safe field writer, BE-2 (`services/safe_field_writer.py`) and document uploader, FILE-1 (`services/file_uploader.py`) | attempts and item results of one execution; the artifact repository | `execute` | one browser page, files on disk, `persistence/tmh_memory.py` |
| ADP canaries (eight `services/adp_*_canary.py`) | what one run has looked at, clicked and written, and its counters | `run_adp_*_canary` | one browser page, which nobody controls |
| Live inspections and routes (`services/adp_live_inspector.py`, `adp_live_route.py`, `adp_verified_session_inspector.py`, `smartrecruiters_live_inspector.py`, `smartrecruiters_live_route.py`) | the stage of one inspection, its fence, the requests it denied | `inspect_live_page`, `follow_one_read_only_apply_entry`, `route_*` | one browser page, which redirects, sends requests and leaves |

### 1.2 How they interact

* `main` opens the ledger, asks `has_intent`, launches a browser guarded by a boundary
  object, and hands all of them to `run`. `run` fills and uploads page after page,
  reserves the intent, marks it started, arms the boundary and clicks. The answer of the
  employer is verified, confirmed in the ledger and then published as the outcome record.
  Several invocations of the command share only the ledger file and the outcome file.
* The submission service is another client of the same ledger: each of its two operations
  is two ledger transactions, with a decision over a receipt between them. Its decision and
  the loader's are taken from lists of field names that were written separately.
* The page is an active party everywhere. It changes between any two browser calls, and
  it sends requests that a boundary or fence callback judges while a call runs.
* A retained session inspects once, gives its owner an observation token, and prepares
  against that token; the executor works inside the session, which has the last look.
* CI runners reach the queue only through signed requests. The runner cannot tell a lost
  answer from a refusal; the gateway cannot tell a late request from a timely one, except
  through the replay ledger. What a runner reports it has read in several browser calls
  from a page that may navigate between them.
* MW-5 has no transactions: four appends and updates in a fixed order, one repair.

### 1.3 What is hard, and what correctness means there

| component | hard behaviour | what must hold |
|---|---|---|
| ledger | commit and acknowledgement are different moments; failures and kills between them; two processes; an abandoned empty file | the budget is granted once, never reset, and the row always stays readable |
| submission service | four transactions and two comparisons, on receipts that may differ, beside other users of the ledger | what is dispatched is what was reserved, and every required answer is one a writer may write |
| reviewed inputs | two judgements of the same answers, one before the browser and one after the last page | what the loader accepts is not refused at the end, or it is known what is |
| boundary | page requests on another thread, in any phase, repeated | one upload and one application, then closed |
| single application | crash or error between intent, click, answer and report; a stale `has_intent`; a drifting page | one dispatch after the durable uncertainty; true reports |
| outcome record | racing publications, kills between `link` and `unlink`, failing clean-up | only complete bytes under the final name, never replaced |
| replay ledger | concurrent, late and repeated deliveries; a clock read before the wait for the lock; a full store | an id or nonce has one meaning while its request is valid |
| queue | duplicated and late claims, lost answers, redeployment, a page that navigates while it is read | one executor per row, truthful reports, no result changed, a completed row describes one document |
| MW-5 | an edit of the owner, a second execution, a failing write or a kill between any two calls | evidence first, one change per message, only allowed transitions |
| fenced session | drift, expiry, navigation and denied requests between any two calls; files that change | nothing leaves after the first write; approved values only; readiness certified last |
| writers | the page rewrites, moves or closes in mid plan; executions repeated on one repository | bounded writes, counted, the gate earned, lineage immutable |
| live inspections | an entry is followed while the page sends writes or leaves, and an exception strikes on either side of the click; a frame cannot be read | nothing but reads leaves while the entry is followed; a partial form is not proposed as the form |
| ADP canaries | the page changes after every look; a click or fill raises after it took effect | each click and write follows a look that showed what was reviewed; what a run returns never hides an effect |

The full list of hazards, each at its source line and with its properties, is
`hazards` in `PROJECT.json`.

### 1.4 Components without a model

| component | why, and whether it is planned |
|---|---|
| In-memory submit store (`persistence/submit_memory.py`), `applied_transition_allowed` | one in-process map, used by tests only; one pure check |
| MW-5 preflight, MW-3 and MW-4 canaries, derived state, user-action projection, decision shadow | projections over recorded events with idempotent appends; the append-only store is planned |
| Field plan policy (`services/prefill_writer.py`), ATS adapter registry, evidence and policy gates | pure checks of one input each, without state |
| SmartRecruiters shadow run and fixture writer | the pattern of `BoundedWriter` on offline fixtures |
| LinkedIn resolver | reads one redirect |
| ADP verified-session bootstrap | an operator passes a one-time code by hand while the run polls the page; planned |
| ADP profile rules (`services/adp_profile_policy.py`, `adp_validation_contract.py`) | pure checks and transliteration of one profile |
| Template mapping history | an append-only registry; its artifact store is in `BoundedWriter`, the rest is planned |
| Orchestrator, Cloud Run and smoke-test apps, `google_native/apps_script/EjsIdempotencyV1.gs` | entry points; the script is one claim under a lock, planned |
| Workflows, infrastructure, scripts | deployment configuration |

## 2. Plan

Order, most important behaviour first. All steps but 15 are done.

1. `LedgerRow`, `SubmissionLedger` and proofs: everything else relies on the one row.
2. `BoundaryState`, `OneClickBoundary` and proofs.
3. `OneApplication` (abstract) and `SingleApplication`, which composes `LedgerRow` and
   `BoundaryState` with the runtime, and proofs including the refinement.
4. `OutcomePublication`.
5. `ReplayLedger`, then `OneShotJobs` (abstract) and `ExecutionQueue`.
6. `GuardedMutation`.
7. `FencedPreparation`.
8. `BoundedWriter`.
9. `AdpCanaryPlans` and `AdpCanary`.
10. `SubmitPolicy` and `DurableSubmission`, which composes it with `SubmissionLedger`, and
    the proof that the service is a client of the ledger and nothing more.
11. `ReviewedInputs`: loader against policy, with a proof for every manifest.
12. `LiveInspection`: two more plans for `AdpCanary`, and the SmartRecruiters inspection.
13. `BrowserInspection`, the browser of the queue's runners, which composes with
    `ExecutionQueue`; proofs of the queue with its browsers and of the refinement.
14. Proofs of `FencedPreparation`.
15. To come: one module for the append-only stores (template history, append-only log,
    idempotency script), and the bootstrap of the verified session.
16. Proofs of `GuardedMutation`, `OutcomePublication`, `ReplayLedger`, `BoundedWriter`,
    `LiveInspection` and the canaries.

Abstract specifications: `OneApplication` says what the lane promises in the life of the
host, `OneShotJobs` what the queue promises; both are refinement properties of runs. For
the other components the promise is a handful of invariants and action properties, and a
second machine would only repeat them. `SubmissionLedger` is at the same time the abstract
specification of `DurableSubmission`.

## 3. Modules and code

`map` in `PROJECT.json` names the source lines of every definition. The main
correspondences:

**LedgerRow / SubmissionLedger.** `row` is the row of the table or `Null`, `file` tells an
absent, an empty (schema not committed) and a usable file apart, `lock` is the SQLite write
lock. A process makes a call (`Invoke`), gets the lock (`Begin`), runs its statement and
commits (`Commit...`), and returns or fails after the commit (`Return`,
`FailAfterCommit`: `_sync_parent` or `close` raises). `FailBeforeCommit` is any exception
inside the transaction, the 10 s busy timeout included; `Crash` may come anywhere. The
acknowledgement counters are history.

**SubmitPolicy.** Pure: one operator per blocker of `_field_blocker`, with the references of
a control as presence only, and the conditions of `create_submission_attempt`.

**DurableSubmission.** `service[p]` is the operation a process is in and its stage: its first
ledger call, what it compares, its second call. The ledger calls are those of
`SubmissionLedger`, with all their failures; `DirectCalls` are the calls other code makes.
`Document` says what a receipt contains, `ReceiptAccepted` compares it as `_validate_receipt`
does. `intent` and `dispatched` are history: the receipt whose proof was committed, and
those a dispatch was permitted for.

**ReviewedInputs.** Pure: what the loader accepts of facts, answers and a manifest, and
`Resolution`, the control `_resolutions` makes of an accepted answer, with its aliases. The
manifest's `execution_id` and `opportunity_key`, which the loader does not read, are stated,
blank or missing, and `RequestOf` is complete only if both are stated.

**BoundaryState / OneClickBoundary.** One function per method of
`OneClickNetworkBoundary`; each runs under the object's lock. Requests are the seven kinds
`allows` tells apart. `OneClickBoundary` lets a driver call the methods in any order.

**SingleApplication.** `pc[p]` follows `run` and `main` from browser call to browser call.
A ledger transaction is a commit step and a return step, as in `SubmissionLedger`.
`Abort` is the one `except` of `run`; `Crash` kills the process; `Launch` starts it again.
`PageDrifts` and `PageSends` are the page. `Untimed` are the places where the call under way
has no timeout. Field values, locators and the manifest are
abstracted to a page that is `reviewed` or `drifted`.

**OutcomePublication.** One action per file system call of `_publish`, with `Fail`
(an OSError), `CleanUp` (the `finally`, which may fail too) and `Die`.

**ReplayLedger.** `Arrive` reads the clock and checks the times; `CheckReplay` is the whole
critical section. Signed messages are a constant set; any may arrive any number of times.

**ExecutionQueue.** One action per handler of the gateway and per answer the runner
handles. `requests` only grows, so a request may be handled late, twice or never.
`Fail` is every exception of the runner.

**BrowserInspection.** The browser step of `ExecutionQueue` call by call: `visit[r]` is the
call a runner has come to, `tab[r]` the document in its page, `trace[r]` the addresses its
main frame went through, `looked[r]` the document its result describes. `Navigates` is the
page between two calls. `RuntimeState` is the order in which CAPTCHA, sign-in and controls
decide; the HTTP status becomes the error code and decides nothing. A Python exception
anywhere, closing included, makes the result a typed failure (`Raises`); `Killed` is the end
of the process.

**GuardedMutation.** One action per repository call; `Raise` enters or ends the repair; a
failing write has taken effect, as `_maybe_fail` has it. The owner edits one cell at a time.

**FencedPreparation.** An action is the code up to the next browser call. `surface1` and
`surface2` are the two probes of `require_current_surface`, which returns to `then`.
`Raise` is an exception or a failing check. `Request` is the fence's callback. `Untimed` are
the places where the session waits for the page's own JavaScript.

**BoundedWriter.** `execute` of both writers, whose control is the same; `uploading` says
which. The uploader alone verifies its files first and appends artifacts.

**AdpCanaryPlans / AdpCanary.** A canary is a straight line of looks, clicks and writes that
stops at the first thing that is not as reviewed. It is therefore data: `Plan(canary)` is the
sequence of its steps, each with the gates that stop it and whether an exception in it is
reported or escapes. `AdpCanary` carries a plan out, one step per action, on a `page` that
may `Drift` between any two. `seen` is the last full snapshot; what its two fingerprints
leave out is left out of `NavigationSurface` and `SafeFillSurface`. A click may raise before
or after it took effect (`ClickStep`), a fill too (`Fill`). `landed` is history: what really
happened to the page; its sum dates a look among the run's own effects.
A click is two steps, because the code makes separate browser calls on a locator that each of
them resolves anew: `Resolved` is the last check before it, and notes in `target` what it found
and on which page; `ClickStep` is the click, and meets what is there by then (`Met`). The entry
is found by an index, so that it may have become another element (`another`); every other
button is found by its exact name or its id, and can only be gone. The label check of an
entry is a gate because two canaries lack it. An exception that leaves `run_*` ends the
process without a report (`Escapes`), but for profile v2, whose `main` then writes one
(`PreflightFailed`). The country and the number are located together
in the code and one after the other here; the browser's validity check is part of the
readback; a handler of profile v2 that reads the page again, and may itself raise, is one
escaping exception. A look reads the forms of the document and its frames first (`ReadForm`)
and the text of the page after that; a frame that cannot be read leaves its controls out.
The read-only ADP inspection and that of a verified session are two more plans; a report's
route is `route_adp_live_inspection`'s.

**LiveInspection.** The SmartRecruiters inspection beside those of `AdpCanary`: `stage` is
how far it is, `posting` the live page, `fence` whether requests are judged, `denied` the
stages at which one was denied, `sent` (history) what left that was no read. `Follow`,
`Settle` and `Unfence` are `follow_one_read_only_apply_entry`; `Judge` is the state of the
report and its route.

A definition whose comment begins with "Mutant" is not part of the model: it is a bug the
code could have had, kept next to the definition it would replace, and shows that the
property named with it in `PROJECT.json` would have noticed.

## 4. Runs

| run | instance and bounds | states | shows |
|---|---|---|---|
| `MCSubmissionLedger` | 2 symmetric processes, 2 submit keys, 1 execution, 2 pieces of evidence, times 0..2, valid and invalid direct calls; 6 receipts for the service, 3 of which it must refuse | 2,542,706 | the budget is granted once, confirmations agree, the row is readable, permanent, an abandoned file stays closed, and a dispatch is permitted for what was reserved only |
| `MCSingleApplication` | 2 invocations of one manifest, 3 launches, 2 pages with one upload, 2 denied requests per run | 297,718 | one dispatch after the durable record, honest reports, preparation before reservation, refinement of `OneApplication`, every run that no untimed call holds reports; its assumptions evaluate the loader against the policy on every answer |
| `MCOutcomePublication` | 4 calls, three with equal bytes | 236,437 | complete bytes only, never replaced, a recorded answer is published |
| `MCReplayLedger` | 2 deliveries, 6 signed messages sharing ids and nonces, room for 3, lifetime 2, skew 1, clock 0..4 | 427,454 | one meaning per id and nonce; the store's true bound |
| `MCExecutionQueue` | 2 runners for one of 2 SHAs, 1 asset, 1 row beside the deployed one; 5 documents, 1 navigation step allowed of 2 | 210,638 | one execution, truthful reports, completed rows describe one readable document, refinement of `OneShotJobs`, claims settle |
| `MCGuardedMutation` | 2 symmetric executors, 1 opportunity, receipt, rejection and a vague message, 2 dates, 1 owner edit, kills | 1,570,024 | evidence first, one mutation, guarded transitions, effects are accounted for |
| `MCFencedPreparation` | 1 field and 1 document, 3 forms (two share a fingerprint), 2 acts of page or disk, 2 observations | 343,329 | nothing leaves, approved writes only, each counted once, readiness certified, no session revived, every call that no evaluation holds returns |
| `MCBoundedWriter` | 2 items, 3 forms, 2 executions, 3 acts of page or files, 2 times; both writers | 50,244 | bounded and counted writes, earned gate, immutable lineage |
| `MCAdpCanary` | all eight canaries (safe fill under both cookie policies), the two ADP inspections and the SmartRecruiters one, 2 acts of the page | 349,803 | what a run returns covers its effects, Apply, writes and Continue follow a fresh look, routes are about the last page, an entry stays fenced, a manifest review needs a whole form |
| `MCOutcomePublicationIdempotent`, `MCGuardedMutationReconciled`, `MCFencedPreparationReviewed` | as above (one executor in the second) | | section 8 |

Why the bounds are enough. Two processes, runners, deliveries and executors show every
race over one row, marker or file, because all of them meet at one such object; a third
would repeat the role of one of the two. The ledger needs three distinct times for a
start between a request and an observation, and one before its start. Of the six receipts,
one is reviewed, one differs from it in the CV alone, one is for another opportunity, and
three break a comparison each (kill switch, readback, work right). Three launches let
both invocations run and one be restarted after a crash. Two pages give a page with and
without an upload, and a last page that is not the first. Six messages are a retry with a
new nonce, a changed payload, a stolen nonce, an independent request and one whose
lifetime is too long; three entries make the store overflow, and a clock of 4 passes every
expiry. Four publications let two losers of `link` follow a winner and a conflicting one.
Two acts of a page are a change and a change back, which is what a check between
two probes could miss; a third act in `BoundedWriter` moves it once more between items.
In `MCAdpCanary` one act
falls before a look and another after it, or one before an entry is clicked and one while it
is followed. The five documents of `MCExecutionQueue` are the combinations of CAPTCHA,
sign-in and controls that decide a state, and two addresses pass the one step allowed. One edit of the owner suffices to separate planning, checking and writing. The forms are
the reviewed one, one that differs only in what the fingerprint leaves out (DOM ids) or
in what the plan needs (a `maxlength`), and one with another fingerprint.

`CHECK_DEADLOCK FALSE` stands where the program really stops: when launches, executions,
deliveries or acts are used up. `MCSubmissionLedger` checks for deadlock. Symmetry is used
in two runs, neither of which checks a liveness property.

## 5. Fairness

* `SingleApplication`: weak fairness of each run's own next step or exception, except where
  the call under way has no timeout (`Untimed`). Playwright's waiting calls (`goto`, `click`,
  `fill`, `wait_for`, `expect_response`) time out, a transaction has its busy timeout, and both
  raise. `count`, `is_visible`, `evaluate` (`oneclick_browser.py:155`, 197, 217, 298), the
  `body` and `json` of an answer (331, 365) and `close` have no timeout that could be relied
  on. The page, the employer, the operator and crashes are free.
* `FencedPreparation`: weak fairness of the call under way, except where it waits for
  `page.evaluate` (`fenced_application_session.py:173`, 177; `smartrecruiters_executor.py:109`,
  118, 169, 172, 265) or another call of that kind. `docs/MVP_RETAINED_SESSION.md:37` says that
  there is no background watchdog.
* `BrowserInspection` (with `ExecutionQueue`): weak fairness of each runner, its browser
  calls and its end. HTTP calls time out after 20 s, page calls that wait have timeouts, and
  whatever has none ends with the job, which has `timeout-minutes` (`Killed`). The gateway and
  the network owe nothing, and a page may navigate for ever.

`ClaimsSettle` rests on this alone. `EveryRunReports` and `CallsReturn` have a premise besides:
that no untimed call holds the run, or the session, for ever. A stalled body or a busy page can
do so, and then nothing is claimed. What the two properties rule out is everything else
that could keep a run going: a wait for the page, the employer or the ledger without a
timeout, an exception that is not handled while it waits, and a loop that a restless page
could keep alive.

## 6. Proofs

All theorems hold for every value of the constants that satisfies the named assumptions.

| module | assumptions | theorems |
|---|---|---|
| `LedgerRowProofs` | `NullAssumption` (Null is no number, evidence or row) | lemmas on the row: what the statements accept, preserve and continue |
| `SubmissionLedgerProofs`: the ledger | and `CallsAssumption` (calls carry fields of their types) | `TypeCorrect`, `AlwaysReadable`, `AtMostOneGrant`, `OneConfirmation`, `Permanence`, `Abandoned` |
| the submission service | and `ServiceAssumption` (equal digests mean equal payloads, and no direct caller makes up a digest) | `ServiceUsesLedger`, `DurableTypeCorrect`, `DispatchIsOfReservation`, `RequiredAnswersAreWritable` |
| `SingleApplicationProofs`: the runtime | `NullAssumption`, `ParametersAssumption` | `TypeCorrect`, `AtMostOneDispatch`, `HonestReports`, `TrueConfirmations`, `PreparedBeforeReserved`, `Refinement` |
| the reviewed inputs | none | `OnlyUnsignedPrivacyBlocked`, `AcceptedManifestIsExecutable` |
| the network boundary | none | `AtMostOneOfEach`, `AttemptsClose`, `ClosedStaysClosed` |
| the outcome record | `RunAssumption` (finitely many runs, "no file" is none of them) | `OutcomeTypeCorrect`, `RecordsArePublished`, `RecordsAreFinal` |
| `ExecutionQueueProofs`: the queue | `QueueAssumption` (Null and "unposted" are no values of the protocol), `BrowserAssumption` | `QueueTypeCorrect`, `OneRunnerExecutes`, `CompletedRowsWereRead`, `QueueRefinement` |
| the replay ledger | `SignedAssumption` (equal signed identities mean equal payloads) | `ReplayTypeCorrect`, `LedgerStaysSmall`, `IdentifiersKeepTheirMeaning` |
| `FencedPreparationProofs` | `PreparationAssumption` (a plan is a non-empty sequence without repetition) | `PreparationTypeCorrect`, `NoRequestAfterWrite`, `OnlyApprovedIsWritten`, `EveryAttemptIsCounted`, `ReadinessIsCertified`, `EndedStaysEnded` |
| `GuardedMutationProofs` | `MutationAssumption` (the allowlist is within the initial one, as `authority.validate` demands; Null is no date and no plan) | `TypeCorrect`, `EvidenceComesFirst`, `NoSecondMutation`, `NoEffectIsLost`, `OnlyGuardedTransitions` |
| `BoundedWriterProofs` | `WriterAssumption` (as `PreparationAssumption`; each item has its document) | `WritesBoundedAndCounted`, `ReviewGateIsEarned`, `LineageNeverChanges` |
| `LiveInspectionProofs` | `CanaryAssumption` (the canaries are those of the code) | `CleanEntryBeforeManifest`, `EntryIsFenced`, `CountersCoverEffects`, `VerdictsFollowLastLook`, `ApplyFollowsFreshLook`, `WritesFollowReviewedForm`, `ContinueFollowsReadBack` |

The `Max...` constants that keep TLC's instances finite are any natural numbers in the proofs.

*Ledger.* `IInv` adds to the properties what connects a call under way to the row:
arguments were checked when the call was made (`ArgumentsChecked`), only the holder of the
lock is inside (`InsideHoldsLock`), it has seen a committed schema (`SchemaSeen`), and a
committed but unacknowledged reservation, start or confirmation already accounts for the
row and for the one acknowledgement still possible (`PendingReserves`, `PendingStarts`,
`PendingConfirms`). Without the last three the bound of one acknowledgement is not
inductive, because commit and acknowledgement are separate steps. Permanence follows
from `Continues` being a preorder over what each statement does to the row.

*Submission service.* `DInv` is the ledger's `IInv` and, for each process, `ServiceOK`: its
ledger call is that of its stage, its view is of the row, and past its comparison the row
carries the proof of its receipt. The view stays true after its transaction has ended because
a row only continues; the proof in the row says which receipt, if any, put it there
(`IntentFrozen`). Every step of the service is a step of the ledger specification or leaves it
alone, so that `ServiceUsesLedger` carries all theorems of the ledger over.

*Reviewed inputs.* The lemmas go blocker by blocker: which of the loader's names an alias
turns into one the policy speaks of, and what the loader has demanded of that name. `AcceptedManifestIsExecutable` is an equivalence:
an accepted manifest is executable exactly if it states both identities and has no
required privacy acknowledgement stated as a fact.

*Boundary.* The invariants are inductive together with the link between a phase and the
flag that armed it (`ArmedPhases`).

*Single application.* `IInv` is type correctness, `OneEngaged` (at most one run holds the
slot it reserved or has an armed boundary) and, for each run, `Local`: the row follows its progress
(`RowFollows`), its boundary is armed only as far as it has come (`Arming`), its report
agrees with what it sent (`Reports`), and reservation follows preparation (`Prepared`); with
the number of dispatches tied to the row. The refinement proof shows that every step is a
step of `OneApplication` or leaves its three variables alone (`StepRefines`).

*Queue.* `BInv` says of each request in the bag, which may still be handled, who may have
posted it and when (`RequestsOwned`, `ResultsOwned`), that answers agree with the row they
are about (`AnswersHold`), and how far a runner has come with the row it claims
(`Progress`, `RowsTold`). Without the history of requests a late duplicate could hold
anything. `BrowserStepIsStep` shows that a browser step is a step of the queue or leaves it
alone; `Looked` ties a result to the document it was taken from.

*Fenced session.* `FInv` says where in the executor the thread is, also while the two probes
of `require_current_surface` are under way (`At`), and what it has done by then: the executor
is entered once (`Control`), the items before the current one are done and those after it
untouched (`Items`), the fence was told before the first write (`Fenced`), and what was last
looked at is the approved form (`Looks`). A failure may leave the executor anywhere;
`AttemptedOnceAndCounted` holds because `attempted` keeps it from being entered again.

*Outcome record.* `OutcomeInv` adds `Linking`: a run's bytes are complete before it may link,
and once it has linked, the final name is its own for good. Only `link` fills the final name,
and only when it is free, so that whatever a run verifies later is still what it published.

*Replay ledger.* A delivery decides with the time at which it arrived, and another may have
cleaned the ledger with a later one. What saves the meaning of a request is that no delivery
works with a time ahead of the clock (`Arrived`): both markers of a granted request are there,
and its own, for as long as it has not expired by the clock (`Remembered`), which is when
another could still be granted under its names. `FewMarkers` counts: cleaning only takes
markers away, and a grant adds one where there was room.

*Guarded mutation.* `IInv` says of each executor what the planner found (`Plans`: an eligible
plan's transition is on the allowlist) and what it has left behind by the place it is at
(`Progress`). One mutation per message is not inductive alone: `ChangedOnce` says that after
a change the row's status is one that no execution leads back from (`Past`: a receipt leads
out of To Apply, a rejection into Rejected), so that only the owner's edit, which the
property allows for, can open a second one.

*Writers.* `WInv` follows the execution under way (`UnderWay`): the items before the current
one are written and verified, those after it untouched, the counter is the number of
items written, and nothing is claimed that was not read back exactly. `Reported` keeps this of
the last report when the execution is over and the page goes on changing.

*Live inspection.* `ManifestNeedsCleanEntry` speaks of the end only. `LInv` says where the
fence stands at every stage before (`FenceFollows`: up from before the entry is followed until
its outcome is decided), and that a denial by then is in the outcome (`DenialsNoted`).

*ADP canaries.* A canary's steps are data, so the proofs are in two parts. The first is about
the plans: each acts once on anything, a look or glance with the gates in question comes
before each click, the fields are read back before Continue (`Sound`, `PlansCheck`). It is
shown of the pieces a plan is made of and of two pieces put together, because the writing
plans are concatenations. The second is about a run of any plan with these facts. `CountsInv`:
what was clicked has its step behind the run, and no step behind it is done again, so that
nothing is clicked twice and the counters cover what landed on the page. Its part `Aimed` says
that between check and click the run is at a click, and that what was found is what the click
is meant for, or another entry only where the label is not compared; the click can then only
land elsewhere if the page has moved from what `target` noted. `SightsInv`: what was seen
is what the last look saw, it passed that look's gates, and it is of this moment unless the
run has acted since. `ChecksInv`: the targets read back are those of the steps behind the run
(`ReadBackBehind`), the reviewed buttons were seen after everything but what was done since
(`ButtonsSeen`), after a look only writes come before the next click (`WritesSinceLook`), and
safe fill under the policy "block" comes to Apply without a click (`BannerBlocks`). The
exceptions of section 8 are where a plan lacks a fact the others have.

`OneClickBoundary` has no run of its own: its theorems are complete, and the run of
`SingleApplication` exercises the same operators.

## 7. What is only model-checked

The liveness properties `EveryRunReports`, `ClaimsSettle` and `CallsReturn`: liveness under
fairness and ENABLED are out of the prover's reach. Every invariant and every action property
that a passing run checks is stated by a theorem of section 6, and so are the two refinements,
which are of safety. The three properties of section 8 are false of the code and are there
to be violated. No module computes recursively, so nothing rests on induction over data.

## 8. Disagreements between the code and its documentation

1. `IdenticalBytesAreAccepted`. The docstring of `write_confirmed_outcome` calls existing
   canonical bytes idempotent (`application_outcome.py:142`). Between `os.link` and the
   unlink of the temporary name the record has two links, and `_private_file` refuses
   it: a concurrent call with the same bytes is refused, and every later one when the
   first was killed there.
2. `CommittedIsReconciled`. `reconcile_derived` remembers opportunities, not transitions, so
   the second transition of an opportunity is reported "committed and reconciled"
   (`mw5_executor.py:150`) without a reconciliation.
3. `WritesOnReviewedForm`. `MVP_RETAINED_SESSION.md:35-37` says a changed locator identity
   prevents preparation. The executor reads the form again after the comparison and
   compares only a fingerprint that leaves DOM ids out; the last check notices, after the writes.

Noted while modelling, without a run: a run of the single application whose `mark_started`
commits and then raises reports `dispatch_intent_recorded: False` (an error on the safe
side: nothing was sent); the uploader verifies a document before the browser starts and
attaches it by path later, so a change in between is found by the readback, not prevented;
an MW-5 execution killed after its evidence is logged leaves a message whose retries are
suppressed as duplicates (`EffectsAreAccounted` holds because it excepts the killed); an
exception in a writer reports zero attempts, which `WritesAreBoundedAndCounted` excepts.

The loader accepts a required privacy acknowledgement that is stated as a fact, and the
policy blocks it only after every page is filled and the CV uploaded: the one exception of
`OnlyUnsignedPrivacyBlocked`. Nor does it read `execution_id` and `opportunity_key`: with a blank
one the policy blocks, with a missing one the construction of the request raises
(`single_application_runtime.py:240`), at that same late point.

Of the browser worker: a page of an HTTP error is "rendered" and only carries an error code
(`browser_worker.py:280-293`), and so is a sign-in page that has controls, so that the row
becomes COMPLETED; `docs/GD004_WAVE2_TEST_QUEUE.md:44` says that access and
authentication failures reconcile as REVIEW_REQUIRED. An exception while the browser is closed
turns a good reading into a navigation error. The number of navigations is checked before
the extraction only.

Of the SmartRecruiters inspection: a request denied between the outcome of the entry and the
removal of the fence is not reported. It notes a frame it could not read; the ADP inspection,
which uses the same reader, does not.

The ADP canaries are not equally strict, and the properties of `MCAdpCanary` say where:
after denying the banner the safe-fill canary clicks Apply on a look taken before; after the
cookies the diagnostic and profile-v2 canaries compare only the navigation fingerprint, which
does not cover whether signing in is asked for (`adp_navigation_canary.py:103-109`; the
document `GD004_ADP_NAVIGATION_CANARY.md:17` says that it covers the "fail-closed boundary
state"); the diagnostic canary and the verified-session inspection click what they find at the
index of Apply without comparing its label; profile v2 does not look at the form again between its writes and Continue. TLC
violates the properties without these exceptions, and without the two that follow.

No canary is sure to click what it compared. `GD004_ADP_NAVIGATION_CANARY.md:32-34` says that
the live label remains `Apply` and that any drift stops execution before the click. The label
is read (`adp_navigation_canary.py:403`) and the click made (415) through
`page.locator("*").nth(i)`, which each call resolves anew: a page that changes in between has
another button clicked. `ApplyOnFreshLook` allows for a page that moved after its label was read.

The report of profile v2 may be false. Its `main` reports whatever exception leaves `run_*` as
`ADP_PROFILE_V2_PREFLIGHT_FAILED` with every counter 0
(`adp_profile_v2_continue_canary.py:545-564`), also after Apply, five writes and Continue, and the
workflow's step "Reassert bounded profile-v2 authority" judges the run by these counters.
`ReportsCoverEffects` excepts this one report.

## 9. Abstractions

Signatures, hashes, schemas and canonical JSON are opaque values: equal inputs have equal
digests. A reference of a control is its presence; a field no check names is one member of
its prefix. The shapes, lengths and types a receipt or a manifest must have are left out, its
comparisons are kept. Title and address that the browser worker reads after the extraction
carry no property. URL rules are the kinds of request they tell apart. A page is what the checks look
at. Times are small numbers where they are compared (ledger, replay ledger) and flags where
only expiry matters (session, observation). Pure validation that ends in an exception is a
nondeterministic failure. Files outside `src/ejs` and `google_native` are not modelled.
SQLite's own atomicity and durability, `link` and `unlink` being atomic, and Apps
Script's `LockService` excluding other executions are assumed.
