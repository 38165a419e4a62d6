# Verification of the KetQat SDK

TLA+ models of the parts of this repository whose correctness depends on order,
failure and time, the TLC runs that check them, and the TLAPS proofs of what
matters most about them. `PROJECT.json` is the index: which definition models
which lines, which property answers which hazard, which run checks it.

1. [The system](#1-the-system): components, state, interactions, what is hard
2. [The modules](#2-the-modules) and how they correspond to the code
3. [The runs](#3-the-runs): what each asks, bounds, fairness
4. [What is proved](#4-what-is-proved)
5. [Divergences found](#5-divergences-found)
6. [What is not modelled](#6-what-is-not-modelled) and the plan

## 1. The system

The SDK is a TypeScript library with a CLI, an MCP server and an API client, a
Python runner with its own CLI, and the *execution plane*: the worker images
that run submitted jobs for a control plane that lives in another repository.

| Component | State it keeps | Operations | Hard behaviour |
|---|---|---|---|
| **Worker execution plane** `src/worker/{callback,execute,job,signed-identity}.ts`, `worker/entrypoint.mjs`, `worker/lambda/*.mjs` | one invocation's job, result, secret; the control plane's row of a job; the object store | claim, compute, request an upload, PUT, complete, exit | duplicate dispatch, lost and late requests, reaped attempts, kill at any point |
| **Isolated runner** `worker/lambda/run-isolated.mjs`, `engine-child.mjs` | the closure `result`, `timer`; a child process | fork, message, error, timer, close, kill | races of five event sources; a child that blocks |
| **Invocation budget** `handler.mjs`, `batch.mjs` | the platform's deadline, the handler's belief about it | admission, bounded awaits | boundaries; two clocks |
| **API client and job surfaces** `src/client`, `src/cli`, `src/mcp/execution.ts`, `jobs.py`, `publish.py`, `token_env.py` | the last status seen, a deadline | submit, status, cancel, waitFor, publish | polling against a job that moves; an answer lost after the job was made |
| **Pro bundles and entitlement** `catalog/pro/*.py` | `pro/<product>/<version>/`, staging and retired directories, the token file | install, verify, load, login | a crash between renames; concurrent installs, logins and runs |
| **Catalog runs** `catalog/{execute,records,report,loader,cli}.py` | `runs/<id>/record.json`, `report.json` | resolve, run, record, send | a receipt after its request; a failed run that must still be recorded |
| **Regression** `regression*.py` | snapshots, policy, report, preview file | capture, compare, preview, upload | a child process with a deadline; files that change between the commands; retries |
| **Circuit engine** `src/engine`, `src/circuit/{graph,diff}.ts`, `src/hardware` | the circuit being rewritten or routed, a layout, a ZX diagram | simulate, optimise, decouple, route, extract, verify, diff, count | rewrites across other operations; layout bookkeeping; evidence read through a permutation |
| **Intelligence** `src/intelligence`, `src/engine/{fault-tolerant,distillation}.ts` | a document of scenarios, a bundle on disk | resolve, revise, estimate, thresholds, decide, bundle, verify | the same question answered by several formulas; partial inputs; edited files |
| **MCP stdio transport** `src/mcp/transport.ts` | a buffer of a partial frame | data, end, error | chunks against frames; notifications |
| **Image publication** `scripts/publish-worker-images.py` | a registry, staging, `worker-images.json` | build or promote, probe, scan, push, manifest | staging that moves during promotion; partial pushes |
| **Circuit front ends** `src/circuit/{qasm3,qasm2}.ts` | `parseQasm3`'s locals: registers, operations, a pending condition and its depth of braces, gate definitions | parse, expand custom gates, emit in both dialects | conditions and their blocks; substitution into bodies; registers that grow as they are used |
| **Provider adapters**, **other engine numerics**, **contracts and schemas**, **report and demonstration**, **notebooks and generated files** | none | convert, validate, print | see section 6 |

**How they interact.** A dispatcher (outside) starts a worker with a job id and an
attempt number. The worker claims the job over HTTP; the control plane accepts one
claim per attempt. The native workers (Lambda, Batch) compute in a child process
over IPC; the container entrypoint computes on its own event loop. The result goes
back inline, or through S3: a capability for exactly these bytes, a conditional PUT,
and a completion ticket. The client, the CLIs and the MCP tools talk to the same
control plane and poll. Bundles, records, regression and publication do not talk
to the execution plane; they share files, a registry or the API with each other's
concurrent runs. Intelligence reads the engine's counts (`workload.ts` makes a
workload of an `estimateResources` result), and the engine has a fault-tolerant panel
of its own that users see beside the intelligence estimate.

**What makes each component correct.**

* *Execution plane*: one execution per attempt whatever is dispatched twice; a
  result on record is its current attempt's claimant's; stored bytes likewise; an
  exit code that says "delivered" is true; no invocation waits for ever, except for the
  identity token of its requests (section 5).
* *Isolated runner*: one verdict per run; success only from the child; nothing
  computes after its run; every run resolves.
* *Budget*: the platform's kill never hits an admitted Lambda invocation, nor the
  computation on Batch; the report gets its time.
* *Surfaces*: one job per request, whatever is lost; a watch prints what happened, in
  order, once; every command ends.
* *Bundles*: an interrupted or contested install does not lose the version unseen; source
  that runs was verified; a token is one login's. *Runs*: an exit of 0 has its record;
  a run is reported once.
* *Regression*: a green comparison of observations means circuits that agree within the
  policy; evidence is never overwritten; what is stored is what was confirmed, and what is
  acknowledged is stored.
* *Engine*: no rewrite changes what a circuit does; a routed circuit does the same
  through its layouts; counts and evidence say what is so. *Front ends*: a program that
  is read is read as the language means it, and what is printed of it reads back.
* *Intelligence*: a status is what the inputs support; two formulas for one number
  agree; an edited bundle is noticed.

## 2. The modules

| Module | Models | Composes |
|---|---|---|
| `JobLedger` | what the plane promises: claim, execute and settle, per attempt | (abstract) |
| `WorkerPlane` | workers, network, control plane, object store | implements `JobLedger` |
| `MCWorkerPlane` | symmetry for TLC | extends `WorkerPlane` |
| `WorkerPlaneProofs` | theorems | extends `WorkerPlane` |
| `IsolatedRunner` | parent and child processes of consecutive runs | |
| `IsolatedRunnerProofs` | theorems | extends `IsolatedRunner` |
| `InvocationBudget` | seconds left, phase by phase | |
| `InvocationBudgetProofs` | theorems | extends `InvocationBudget` |
| `EntrypointLoop` | the entrypoint's timer and its event loop | |
| `LocalCatalog`, `MCLocalCatalog` | install, login, run and report as processes on one machine | |
| `LocalCatalogProofs` | theorems | extends `LocalCatalog` |
| `Regression`, `MCRegression` | capture, compare, preview and upload | |
| `RegressionProofs` | theorems | extends `Regression` |
| `JobSurfaces` | the commands and tools that submit, ask and wait | a queue with `WorkerPlane`'s transitions |
| `JobSurfacesProofs` | theorems | extends `JobSurfaces` |
| `Circuits` | what a circuit does: the exact simulator | |
| `CircuitRewrites` | the optimiser's sweeps, decoupling, equivalence, diff | extends `Circuits` |
| `ZxGraph` | diagrams, local complementation, pivot, extraction | extends `Circuits` |
| `Estimator` | one workload under one scenario; the engine's own panel | |
| `Resources` | counts, depth, summary, and the workload made of them | extends `CircuitRewrites`, `Estimator` |
| `Qasm` | OpenQASM programs: reading, and printing in both dialects | extends `Circuits` |
| `Engine`, `MCEngine` | the pipeline: read, rewrite, decouple, route, verify | extends `Resources`, `ZxGraph`, `Qasm` |
| `EngineProofs` | theorems about the pipeline and the router | extends `Engine` |
| `Advantage` | thresholds and the six-dimension decision | extends `Estimator` |
| `Intelligence`, `MCIntelligence` | document, revisions, bundle, edits, verification | extends `Advantage` |
| `IntelligenceProofs` | theorems | extends `Intelligence` |

Definitions whose name has a suffix after an underscore (`Usable_Unchecked`) are
*variants*: what a definition would be with a plausible bug in it. No specification
uses them. Each property is shown to fail under at least one, which is how we know
it says something about the code; `PROJECT.json` pairs them under `mutants`.

### WorkerPlane

One worker is one invocation of either runtime: `mode` "callback" is
`entrypoint.mjs`, "native" is `handler.mjs` under Lambda or Batch. Its `pc` is the
`await` it stands at; each action runs from one await to the next.

| Action | Code |
|---|---|
| `Begin`, `RefuseInvocation` | the dispatch, up to the first await; everything refused before it |
| `TokenAnswered` | `metadataIdentity` for the claim's or the report's token, then `authorizedFetch` sends the request |
| `ClaimAnswered` | `claimJob`, `validateJob`, and the native comparison of id and timeout |
| `Compute` | `executeJob` or the isolated runner, and the first step of `reportResult` |
| `UploadAnswered` | the capability's field-by-field check, and the PUT's request |
| `PutAnswered` | 2xx and 412 continue, anything else is refused |
| `ReportAnswered` | the exit code |
| `TransportFailure` | any await of a request that was sent, when it rejects; only a lost PUT is swallowed |
| `Crash` | the platform's kill, at any point |

In callback mode every request of an inline job first waits for an identity token
(`FetchesToken`), at steps of their own: that fetch alone has no timeout. A native worker
signs its requests itself, and so does a worker that was given a secret for S3.

A request that leaves a worker is in `requests` until it is served, which may be
after its worker has given up or died; a PUT may be served twice (S3 clients and
networks may repeat it; the claim and the completion are not idempotent and are
guarded by the row). Answers are abstracted to what the code tells apart: `ok`,
`invalid` (the manifest fails `validateJob`), `mismatch` (valid but not what was
dispatched), `malformed` (a capability that fails the check), `exists` (412),
`refused` (4xx) and `error` (5xx, 408, 429).

*Modelled from use, not from source* (marked external): the control plane's claim,
current-attempt check, upload ticket, completion, reaper and cancel, and S3's
conditional PUT. They are what the comments of `callback.ts`, the tests
(`tests/lambda-worker.test.mjs`, `tests/worker-result-transfer.test.mjs`) and
`worker/lambda/README.md` rely on. The completion of an S3 result succeeds only if
the object holds the worker's exact bytes; it then replaces them by a tombstone, or
that clean-up fails.

Abstractions: the HMAC of `signed-identity.ts` is the request's sender and attempt;
bytes and SHA-256 are the name of the worker that computed them; the size check
before the upload ticket (50 MB) cannot fail after `enforceResultSize`, whose limit
is at most that, and is left out.

### IsolatedRunner

`Fork`, `OnMessage`, `OnFault` (the `error` event and the `send` callback),
`OnTimer` and `OnClose` are the parent's callbacks; each runs `finish` as the code
does, with its early return. `wire`, `signal` and `faults` are what is between the
two processes. The child may reply with a success, a failure or anything else, may
die at any point, and may never reply.

### InvocationBudget

Seven phases, each an await with the window its `AbortSignal` or timer allows.
An await may take any time up to its window; if the deadline falls within it, the
platform may kill. `Remaining` is what the handler *believes* is left: exact on
Lambda, `lag` too much on Batch, whose `runBatch` counts from the Node process.
Timers are assumed to fire on time (the parent is idle while it awaits); the time
from SIGKILL to the child's close is `KillBound`; the 1 ms floor is rounded up to
one second.

### EntrypointLoop

`runWithTimeout` with a stack, a microtask queue and a timer: the timer's callback
needs both to be empty.

### LocalCatalog

A process runs one command at a time; an action is one system call another process can
see, with all the process does before its next one.

| Actions | Code |
|---|---|
| `InstallFetched`, `DestinationExists`, `Retire`, `Place`, `CleanUp`, `InstallFails` | `bundle.py` `install_bundle`: stage, move the old version away, move the new one in, remove |
| `LoginAnswered`, `OpenTemporary`, `WriteToken`, `ReplaceToken` | `entitlement.py` `store_token` |
| `BeginRun`, `ReadToken`, `ReadManifest`, `CheckFiles`, `Load`, `Product`, `WriteRecord` | `execute.py`, `pro/runtime.py`, `records.py` |
| `BeginReport`, `Confirm`, `Send`, `WriteReceipt` | `report.py` |
| `Killed`, `Edit`, `Tick` | a kill between any two calls, an edit of an installed file or bytecode written beside it, the clock |

A directory is which bundle it holds, whether the files the manifest lists still hash to it
(`clean`), and whether there is bytecode under a `__pycache__` (`cached`), which
`verify_installed` leaves out of its comparison and the interpreter may take in place of
the source.
The server that counts reports is external; it counts one `clientReportId` once.

### Regression

Captures share one output path; each has a child process (`ChildSaves`) and a deadline
(`TimesOut`). `Compare` is `compare` with its order of verdicts; `EditReport`,
`EditPreview` and `Review` are people, and a preview may be edited before it is confirmed
or after. `ReadSummary` is `upload` up to its first request; `RequestDenied`,
`RequestArrives` and `ExchangeLost` are what may happen to a request and its answer;
`AnswerRead` is what the command makes of an answer (`Acknowledges` is the code's test of
its body: stored or duplicate, under the verdict that was sent), and `Retry` the next of its
three attempts. Distributions have two outcomes and sampling is an error of at most
`Slack`: the Hoeffding bound's confidence is taken as certainty, so the verdict's logic is
checked and not its statistics. The server keeps one copy for an idempotency key, under the
verdict the summary names or the one its figures give, and answers with that verdict
or with none (external). `prepared`, the preview as it was written, is history.

### JobSurfaces

One command or tool call per process: `JobSubmit`, `JobAsk` (`watch`, `status`,
`cancel`), `SubmitTool`, `PySubmit`, `PyAsk`, `PublishResult` begin it, after token
resolution and the local checks; `Serve` and `Lost` settle its exchange; `ReadAnswer`,
`BeginWait`, `Poll` and `Wake` are what it does with the answer. `JobMoves` is the
worker plane. A dry run of `publish` stands for "not confirmed". The server's own
idempotency keys are not modelled: no surface repeats a request.

### Circuits, CircuitRewrites, ZxGraph, Resources, Engine

Amplitudes are numbers modulo 257, where 2 is a primitive sixteenth root of unity and so
stands for e^(i pi/8): 16 is i and 227 is 1/sqrt 2. Angles are multiples of pi/4. Every
identity between the code's amplitudes holds there, and arithmetic is exact; a false
identity could hold by accident modulo 257 in one entry, and would have to hold in all
of them. A circuit is a sequence of operations, its `Meaning` the set of its branches:
one for each outcome of measurements and resets, with the classical bits and the
image of every basis state. `Sweep` is one sweep of `optimizeCircuit` (any rewrite the
sweep may apply, `Optimized` when none does), `ApplyDynamicalDecoupling`, `Transpile`,
`EmitSwap` (one SWAP of `emitRouting`; a record's `path` is what is left of the shortest path
it walks, any of them), `EmitOperation` (the operation itself, once its qubits are coupled) and
`VerifyRouting` follow `decoupling.ts`, `transpile.ts` and `routing-verification.ts`; `Complement`,
`PivotPair` and `Extract` follow `zx-graph.ts`, whose extraction takes diagrams reduced to their
boundary. `CommonSubsequence` is the table and the walk of `commonSubsequence`, `DiffEntries`
the entries `diffCircuits` puts around the matches, `DiffIsSound` what `verifyDiff` reads back;
two operations are equal when `operationKey` says so. Left out: the refusal of a table over four
million cells, the gates u, u2, u3, crx, cry, sxdg and those on three qubits (the router refuses
them), noise, shots, durations and success probabilities.

### Qasm

A program is the list `splitStatements` makes of its text, in which a brace is a statement of
its own; a statement's record says what its text is matched for. The reader's record has
`parseQasm3`'s locals, and `ReadStatement` is one turn of its loop: registers, `if` with and
without a block, definitions, custom calls, measurements in both syntaxes. A parameter is a
number or a name, and no name is two of a parameter's, a qubit's and a gate's. `Expansion`
inlines custom calls up to `MAX_GATE_EXPANSION_DEPTH` (here `MaxExpansion`),
`SubstituteGateBody` replaces one formal after another as the code does, in what earlier
replacements put in as well: a whole operand, or the register an index stands after
(`Renamed`); an operand that so comes to have two indices is refused (`Malformed`). The
marks it leaves become the spans.
`EmitQasm3` and `EmitQasm2` print a circuit, or refuse. What the language itself means is a
definition of its own (`Written`: conditions by the braces around a statement, `Bound`: every
formal at once), and `ReadAsWritten` compares the two, except for the programs of
`TakenWrongly` (section 5), and asks that what is printed reads back as the same circuit.

### Estimator, Advantage, Intelligence

An error rate is a power of two, written as its exponent: 35 p^3 is 2^5 p^3, the threshold
1e-2 is 2^-7, the target 1e-10 is 2^-33, the distance search ends at `MaxDistance`. A
time is rounds times an integer cycle, counted in *shares*: a unit of time divided among the
scenario's factories, so that no division by their number is ever rounded. What the code
distance has to suppress is counted in halvings (at most `MOST_HALVINGS`), not computed as a
power. A quotient is a pair compared by cross multiplication. With these, `Evaluate`,
`SensitivityFor`, `Snapshot` (figures and warnings), `ComputeAdvantageThresholds` and `AssessDecision` follow the files of
the same name branch by branch; `EstimateFaultTolerantResources` and
`EstimateFactoryCost` are the engine's panel. `Revise`, `Report`, `Edit` and `Verify`
are the commands and somebody with an editor; a revision that the document's schema refuses
(`LegalInputs` and its parts) changes nothing. A hash is the content it was taken of.

## 3. The runs

| Run | Asks | Bounds | Result |
|---|---|---|---|
| `worker_plane` | all safety properties of the plane, and `ImplementsLedger` | 1 job, 2 workers, 2 attempts, both modes, both transports | holds |
| `worker_plane_liveness` | `InvocationsEnd` | 1 job, 2 workers, 1 attempt | holds |
| `worker_claim_orphan` | the comment on failed claims | callback mode, inline | violated (section 5) |
| `isolated_runner` | safety and `EveryRunResolves` | 2 runs | holds |
| `invocation_budget` | the budget, in the source's numbers (its types are a theorem) | limits of 1 s and 3 s, lags up to 72 s | holds |
| `entrypoint_timer` | the comment on the timeout | limit 2, platform 4, work up to 5 | violated (section 5) |
| `catalog` | what survives on disk, what runs, what is counted | 2 processes, 2 bundles, 4 commands, 2 instants, edits and bytecode at any point | holds |
| `regression` | verdicts, evidence, uploads | 2 captures, 2 uploads, 3 circuits, 9 baselines, 3 policies, 3 attempts, edits at any point | holds |
| `surfaces` | one job, true watch, an end | 2 commands of any kind, 2 identities, 2 jobs, 3 moves each | holds |
| `engine` | meaning, diagrams, routing and their evidence, counts, the diff, reading and printing | circuits of 3 operations over 20 on two qubits, of 4 over 7, of 3 over 5 on three qubits; 4 placements, and a distant gate under a condition that holds; all small diagrams; programs of 3 phrases over 33 and of 4 over 8 | holds |
| `engine_conditional` | "routing preserves the unitary" for conditional gates | 4 or fewer operations on a line | violated (section 5) |
| `intelligence` | status, thresholds, two panels, edits | 4 workloads, 4 baselines, 8 sets of options, 10 revisions (2 of them refused), 2 steps | holds |

**Why the bounds suffice.** Every hazard of the plane is between two invocations
(a duplicate of one attempt, or a reaped attempt beside its successor) on one job;
rows and objects of different jobs share nothing. A third attempt repeats the
second. The proofs remove the bounds altogether for safety. The safety run uses the symmetry of
workers; the liveness run uses none. In the runner, the second run is what could
meet the first one's child. In the budget, what matters are the differences between
the constants, which are the source's; the limits only shift the clock, and the
budgets are chosen on both sides of the 90 s boundary (40 and 92 refused for 3 s,
91 refused for 3 s and admitted for 1 s, 93 exactly enough).

In the catalog, every hazard is between two processes; four commands are two installs
or two logins each beside a run and its report, and the clock's two instants are before
and after an expiry. In the regression, the second capture contests the output and the
second upload the idempotency key; distances of 0, 1 and 4 eighths with a slack of 1
are "the same", "not told apart by a sample" and "told apart". In the surfaces, a watch
needs three moves to miss one and see a status come back (RUNNING, QUEUED, RUNNING). In the engine,
a sweep relates two gates and what is between them: three operations for each pair of
gate classes with everything between, four for fusion over two. Diagrams have every
pattern of edges between two boundaries and two interior spiders, and the three shared
neighbourhoods of a pivot. Programs begin with two registers that are named like formals, a
register of each kind, a custom gate and one that calls it with its formals the other way
round; a definition, a condition, its brace and what follows are four phrases, and the
expansion's depth of 2 is met and exceeded. In the intelligence, workloads, prices and constraints are
on either side of every branch, one revision has a number of factories that does not
divide their rounds, and one revision followed by one edit is what a verification must see
through.

**Deadlock checking is off** where the system stops: invocations end, a warm process
serves a bounded number of runs, a job settles.

**Fairness.** `WorkerPlane!FairSpec`: weak fairness of each worker's steps after a request
was sent, because the await of every request carries an `AbortSignal` (75 s for a callback,
30 s for the PUT, less on Lambda), and of its computation, because the engine's work is
finite. `TokenAnswered` is not among these steps: the fetch of an identity token
(`callback.ts:57`) carries no signal, so `InvocationsEnd` excepts a worker that waits there for
ever. Nothing is assumed of the network, the metadata server, the control plane, the reaper
or the platform. `IsolatedRunner!FairSpec`: the parent's event loop
dispatches what is due, the kernel delivers SIGKILL. The child is assumed to do
nothing. `JobSurfaces!Fairness`: the event loop runs what is ready, the clock goes on,
and an exchange settles, with an answer or an error; a job need never move. (The
Python surfaces give each exchange 30 s; the TypeScript client gives none and relies on
the limits of `fetch`, which is the one assumption that is not this repository's.)
The other new specifications are safety only: their processes may stop anywhere.

## 4. What is proved

TLAPS checks, for every value of the constants that satisfies the named assumptions
(`PlaneAssumption`, `RunsAssumption`, `BudgetAssumption`, `RoomAssumption`,
`SurfacesAssumption`, `CatalogAssumption`, `RegressionAssumption`, `InputsAssumption`,
`EstimatorAssumption`, `DocumentAssumption`, `PlacementAssumption`, `ScenarioAssumption`; TLC evaluates each on the
runs' instances):

* **Plane** (`WorkerPlaneProofs`): `[]TypeOK`, `[]OneExecutionPerAttempt`,
  `[]ResultIsClaimants`, `[]StoredBytesAreClaimants`, `[]CleanExitIsRecorded`, and
  `Spec => ImplementsLedger`.

  None of these is inductive. `PlaneInv` adds: where a worker stands fixes how far
  its execution has come, and what it may have on the wire (`StepsFollowOutcome`);
  a claimed attempt is never queued again (`ClaimsAreTaken`); whoever was given a
  manifest or started on one is the claimant (`HoldersAreClaimants`); a saved
  result, the answer that acknowledges it and the exit code agree (`SavedResults`).
  The argument: the row admits one claim per attempt, only its answer starts an
  engine, only a worker with an outcome sends anything after the claim, and the
  attempt is part of the object's key; so the bytes, the result and the exit code
  can only be the claimant's. Even the *type* of `status` needs this: the completion
  copies the worker's outcome into the row.

  The refinement maps `verdict` of an attempt to the outcome of its claimant;
  network and storage steps are stutters.

* **Runner** (`IsolatedRunnerProofs`): `[]TypeOK`, `[]NoWorkSurvives`,
  `NoFabricatedSuccess`, `FirstVerdictStands`, for any number of runs. The invariant
  is that a resolved run's child is dead, and that a run is forked only when all
  earlier ones are resolved.

* **Budget** (`InvocationBudgetProofs`): `[]TypeOK`, `[]LambdaAlwaysReturns`,
  `[]EngineKeepsItsTimeout`, `[]DeliveryHasTime`, from an account of the most each
  phase can have spent (`Spent`) and of the guard that callbacks leave.
  `RoomAssumption` states the arithmetic the source's numbers must satisfy, and TLC
  evaluates it on them: change a number in `handler.mjs` and this is what to recheck.

* **Catalog** (`LocalCatalogProofs`), for any number of processes, bundles and commands:
  `[]TypeOK`, `[]VersionSurvives`, `[]EditsAreRefused`, `[]TokenIsWhole`,
  `[]ReportedOnce`, `[]ExitZeroIsTrue`. `CatalogInv` adds: what is staged is as it was
  signed, without bytecode, and there until it is placed (`StagedIsSigned`); the files a run is
  about to load are clean, or their edit was noted (`CheckedIsSigned`); what runs and is neither
  clean nor edited under the run is bytecode, which is the exception `EditsAreRefused` names; while no two logins have met, the temporary file is
  the one storing process's own (`TemporaryIsOwned`); what the server counted is a run on
  record, under the id in its record (`CountedIsRecorded`).

* **Regression** (`RegressionProofs`), for any set of circuits, policies and baselines:
  `[]TypeOK`, `[]VerdictIsSound`, `[]CaptureExitIsTrue`, `[]UploadedAsReviewed`,
  `[]UploadIsTrue` and the action property `EvidenceIsKept`. `RegressionInv` adds: a snapshot
  on its way to the output is consistent and executed only if its child ended cleanly, and one
  command at most has the output open (`CapturesAreHonest`); a report is the verdict on the file
  at the output (`ReportIsOfOutput`); what `preview` wrote carries the verdict its evidence gives,
  what an upload holds is what was reviewed, the server has it once or not at all, and an
  acknowledgement on its way or printed names the verdict of the server's copy
  (`UploadsAreReviewed`). The verdict's soundness is then
  arithmetic about distances: a snapshot is off by no more than its execution's slack, and
  `compare` leaves room for the slack of both.

* **Surfaces** (`JobSurfacesProofs`), for any number of commands and identities:
  `[]SubmittedOnce` and `[]WatchIsTrue`. `SurfacesInv` adds: a row's command passed its
  own checks, has begun and points at that row alone (`RowsAreAsked`); what a watch has printed,
  with the answer it is about to read, is a thinning of the job's history, and a last word in
  it is still the job's (`WatchKnows`).

* **Intelligence** (`IntelligenceProofs`), for every document, price, option, revision and
  bound: `[]EditsAreSeen`, `[]StatusIsEarned`, `[]PanelsAgree` and `[]ThresholdsAgree`. `IntelligenceInv` says that the inputs stay legal
  whatever is revised, that the bundle written is `BuildBundle` of its inputs, and that a verdict
  is about the file as it is. The rest is about what an evaluation computes: the code distance
  and the distillation level are each the least member of a set (from the well-foundedness of
  finite sets), so the two panels, which search the same sets by different routes,
  find the same number; the thresholds are the inequalities of the estimate solved for one
  variable, which is arithmetic on products. The threshold found by bisection
  (`CapacityRateAgrees`) needs more: a lower error rate never takes a larger machine, because the
  code distance and the distillation levels fall with it (the levels by a least counterexample
  in the recursive function that counts them), so that the rates that fit are all those below
  the last one, and the search, which keeps one that fits below one that does not, ends
  at that last rate.

* **Engine's pipeline and router** (`EngineProofs`), for every device, circuit, diagram and
  choice of rule, match and shortest path:

  `PipelineInvariance`: a legal input stays legal whatever the passes do. Every graph rule makes
  a diagram of a diagram, what is extracted is a circuit on the diagram's wires, and so is what
  a sweep of the optimizer or the decoupling's pulses make of a circuit. `SweepsShorten`: each
  sweep that does not report a fixed point has shortened the circuit (a cancelled pair, a fused
  rotation), so that the operations left and the sweeps made are together no more than the
  operations given: a circuit of *k* operations is changed by *k* sweeps at most,
  whatever `max_iterations` says.

  `RoutingInvariance` and `RoutesStayOnDevice`: nothing emitted at any point of any walk is
  off the operational qubits or, on two qubits, off the couplings, and what is handed to the
  router is a circuit. The argument is `RoutingInv`: the layout stays an injection into the
  operational qubits, and the path being walked leads from where the first qubit is to where
  the second is, because a shortest path meets its end only at its end, so that the walk's
  SWAPs leave the second qubit where it is.

  `CountsAgreement`, which is `[](LegalInput => CountsAgree)`: the numbers shown beside an
  optimization and beside a routing are what there is. Neither half is inductive.

  - *Optimized.* `ThinningInv`: what the sweeps so far left can be found in the circuit given, by
    an increasing map of indices, each operation with its qubits and conditions, and every T
    gate is found. Each rule takes away one or two operations that are no T gates or changes the
    angle or the name of one; such maps compose. An increasing map cannot make a count grow,
    and cannot make a layer grow either: the least operation that stood higher than its
    image would have one below it that did. Then the estimator: from no more depth and no
    more unsupported gates, with the same T gates, come no greater distance, space or
    time (`LessIsCheaper`), and a known total stays known.
  - *Routed.* `TallyingInv`: what was routed can be found in what was emitted, in order
    (`Woven`); whatever else was emitted is a SWAP, each before the gate it was emitted
    for, and both kinds are counted right, those under a condition of their own as well
    (`RoutedConditions`: an operation keeps its condition, and a SWAP has that of the gate it
    precedes, so that the conditional operations grow by the wrapped SWAPs); and wherever a qubit is now, something stands there
    as high as all that was routed on it (`AsDeep`). Counts are then cardinalities of a
    set and of its image with or without the SWAPs; a SWAP brings no feature, because what
    it was emitted for comes after it.
  - *Layers.* `LayerOf` is a recursive function, so its equation is itself proved
    (`LayersExist`, by a least length without a layering), and then used as four facts
    (`LayersAreLayered`).

  `DiffMinimality`, which is `[](LegalInput => DiffIsMinimal)`: the entries of the diff of an
  optimization read back to both circuits, in order, and no pairing of equal operations that
  comes in the same order on both sides is larger than what the entries leave unchanged. It is
  a fact about any two sequences (`DiffIsRightOf`), used for the two that `PipelineInv` says
  are circuits.

  - *The bound.* `RemaindersBound`: a pairing in order of what is left from a cell of the table
    on has no more pairs than the cell says. By `CellInduction`, from the far corner: where the
    two operations are equal, a pairing uses at most one pair of that row or column
    (`PairingThroughMatch`); where they differ, it leaves the row or the column alone
    (`PairingPastDifference`).
  - *The walk.* `WalksAscend`: following the larger neighbour collects as many pairs as the
    cell says, each further on both sides than the one before.
  - *The entries.* `EntryIsRead`, `RunIsRead`, `GapIsRead`, `DiffIsRead`: after each match the
    entries so far read back to what precedes it on both sides, and after the last gap to
    everything.
  - The table, the walk and the entries are recursive functions, whose equations are proved
    (`TablesExist`, `PrefixesExist`: a least cell, a least index, without a value).

  The hypotheses are about what the user gives: `LegalInput` (the circuit has its gates on its
  qubits and none twice on one; the diagram is finite and has no loop) and an initial layout
  without duplicates. The code refuses neither a gate on one qubit twice, nor a loop, nor such
  a layout (see section 5 for the first and the last); every input of the run is legal.

*Only model-checked*, and why:

* liveness (`InvocationsEnd`, `EveryRunResolves`, `CommandsEnd`), which needs ENABLED and
  fairness and is out of the prover's reach;
* the violation runs;
* what the engine means by a circuit: `RewritesKeepMeaning`, `DiagramsKeepTheirMap`,
  `ReadAsWritten`, and that a routed circuit *does* the same
  (`RoutedIsFaithful` beyond its couplings), each with the evidence the engine gives of it.
  `Meaning` and the reader are folds over the operations. The library's induction theorems
  cannot be instantiated by the installed provers, so each fold needs an argument of its own by
  a least counterexample (`LeastNumber`), as `FlattenedType` has for `FlattenSeq`,
  `LayersExist` for the layers and `DiffIsRead` for the diff; for these it has not been made,
  and for `Meaning` it would need the powers of two that number the basis states, of which the
  provers know nothing.

## 5. Divergences found

* **A rejected manifest orphans its job** (`worker_claim_orphan`).
  `entrypoint.mjs:76-86` treats a manifest that fails `validateJob` like a claim that
  failed. The claim succeeded: the job is RUNNING in this worker's name, and the
  comment's "leaves no job to report against" does not hold.
* **The entrypoint's timeout cannot fire** (`entrypoint_timer`). `executeJob` has no
  asynchronous step, so the race in `runWithTimeout` is settled before any timer
  callback. Overlong jobs end as SUCCEEDED or FAILED, or are killed without a record.

* **A conditional gate is routed wrongly** (`engine_conditional`). `transpile.ts:267-273`
  puts the SWAPs a conditional gate needs under its condition, while the layout moves in
  any case. When the condition is false, everything after acts on the wrong qubits, and
  `final_layout` is false. `verifyRouting` does not see it: it strips measurements before
  it simulates, so every condition is read on an all-zero register, and its coupling
  check skips conditionals.

Seen and not given a run. *Execution plane*: the metadata fetch of an identity token
(`callback.ts:57`) is the one request without an `AbortSignal`; `authorizedFetch` awaits it
first (88-90), so that a silent metadata server holds a callback worker until the platform
kills it. `entrypoint.mjs` exits 2 ("the submission was invalid")
for a refused duplicate claim (409) and 1 for a manifest it rejects; a Lambda
invocation admitted with exactly 90 s in reserve may give the completion of an S3
report 1 ms after the slowest secret, claim, upload and PUT (with the documented
900 s function and limits up to 780 s it has 120 s, which is enough).

*Catalog*: "in one step" (`bundle.py:11-12`) does not hold across a crash between the
renames: the version is then absent and its old copy under a hidden name, so
`VersionSurvives` excepts an installer that ended there. Concurrent logins may leave a
torn token, which `TokenIsWhole` excepts likewise. A `ParameterError` raised inside a
product that has started leaves no record. "A file edited after installation is refused"
(`bundle.py:13-15`) does not hold of bytecode: `verify_installed` skips every path with
`__pycache__` in it (153) and `load_entry_point` imports as usual (`runtime.py:31-46`), so that
what is there may be executed, unverified, and `EditsAreRefused` excepts it.
*Regression*: `upload` compares the preview's hash with the confirmed one and its shape with
the schema, and does not compute its verdict again (`regression_upload.py:126-130`), so that a
preview edited before it was confirmed is stored with the edited verdict;
`UploadedAsReviewed` asks for the evidence's verdict of an unedited one. A connection that
breaks other than by a `URLError` or a `TimeoutError` ends the upload without another
attempt. If `GITHUB_STEP_SUMMARY` cannot
be written, `compare` exits as ERROR after its report is complete.

*Surfaces*: `job submit --wait` exits 1 on a mere timeout (`cli/index.ts:711-721`), where
`watch` says 2 and its comment why (744-747). `--idempotency-key` is put into the
manifest, where the client's comment says the control plane ignores it
(`client/index.ts:384-386`). Python's `TERMINAL_STATES` lacks TIMED_OUT (`jobs.py:43`),
so `ketqat job status` calls such a job "not terminal"; it also does not unwrap
`{"job": ...}` as the TypeScript client does. Nothing ties the MCP tool's `confirmed: true`
to the summary that was shown.

*Engine*: `checkCircuitEquivalence` and `verifyRouting` compare the image of the zero
state only, as their notes say. A routed condition on one bit loses its `bit`
(`transpile.ts:272`) and becomes one on the register (`graph.ts:88-97` says they differ).
The SWAPs under a condition count as conditional operations in the routed circuit's
estimate (`resources.ts:168-171`, `transpile.ts:267-273`); `CountsAgree` gives the difference.
Duplicates in `initial_layout` pass (`transpile.ts:125-136`). `decoupling.ts:79-81` says
it layers "the same way circuitDepth does", which counts conditional bodies where
decoupling skips them. A pulse inserted after another qubit's measurement makes the
summary call the circuit mid-circuit-measuring (`graph.ts:170-184`), so `CountsAgree`
makes that claim of optimising and routing and not of decoupling. A two-qubit gate on one
qubit twice is refused nowhere (`graph.ts:36-42`, `transpile.ts:195-201`).

*Front ends* (`TakenWrongly` is exactly the first four). A gate on a register, or a custom gate,
under a condition on one line: only the first operation is conditional, and the custom gate is
not expanded (`qasm3.ts:684-693`, 1026-1028; against `graph.ts:76-78`). A condition within
another's block replaces it, and what is left of the outer block is then under the inner
condition, or under none (against `graph.ts:80-83`). `substituteGateBody` replaces one formal
after another, so that `flip b, a` with formals `a, b` becomes `cx a, a` (against "Inlining is
exact", `qasm3.ts:93`), `flip b[0], a` becomes `cx a[0], a`, and `flip b[0], a[0]` is refused
for its `a[0][0]`; parameters likewise. `$n` used before a register is declared changes the
registers' order when the circuit is printed and read again.

*Intelligence*: with protocol NONE and T gates, the factory's footprint is 0 and a total
is reported (against `estimate.ts:39-43`) while the thresholds still count the factory's
rounds; the agreement properties except this case (`SameFactory`). A missed distillation
still gets a `max_cycle_time_for_runtime_target`. Cost ratios are taken across currencies.
`verifyBundle` compares the rebuilt hash with the claimed one, so that edits of the
comparison rows, limitations, `is_demo` and generator pass (against `bundle.ts:317`).
POTENTIALLY_ECONOMIC is reachable from RESEARCH_ONLY (`decision.ts:43` against 599-602).
A machine or classical cost of 0 makes a quotient infinite and the schema throws: no
report. The floor of the bisection, "low enough that if it does not fit, nothing does"
(`thresholds.ts:151`), is not that low when the target state error is far below it: the raw state
error goes on falling with the rate (146) and fewer distillation levels may do, so a device
below the floor may fit where the threshold is null, and `CapacityRateAgrees` asks
about the rates above it. `max_physical_error_rate_within_capacity` raises the raw state error to ten times
the target (`thresholds.ts:146`). The uncertainty ranges of `runtime` and
`occupied_logical_qubits` are built from totals of physical qubits
(`estimate.ts:564-577`, 791, 802). `unsupported_gate_policy: REFUSE` is read nowhere. UNKNOWN
evidence, which `baseline.ts:43` calls representable, is refused by its refinements (66-99).

## 6. What is not modelled

* **MCP stdio transport**: one synchronous reader that keeps a partial line. Off the
  code: `initialize`, `tools/list` and `tools/call` without an id are answered
  (`transport.ts:98-99` says they must not be); a frame `null` throws; a last frame
  without a newline is dropped; a batch gets no answer.
* **Image publication**: release tooling, a sequence of external commands whose manifest
  is written last. What moves in staging meanwhile is another system's.
* **Provider adapters**: one read of a vendor's API per call. `cancellation.py` is called
  by nothing in the repository, so the order of its use is not in the source.
  `braket.py:168-191` drops non-numeric edges silently, which its comment (175-177) rules out.
* **Other engine numerics**: error mitigation, Clifford regression, virtual distillation,
  noise: correctness there is numerical accuracy in floating point.
* **Contracts, schemas, hashing, compatibility; report and demonstration; notebooks,
  catalog data, generated files**: declarations, layout and data, with no state.
* Within modelled components: the client's other endpoints (one request, no state), CLI
  parsing and printing, the characters of OpenQASM (how a text is split into statements and a
  statement matched), the YAML subset of `assessment-file.ts`, field-by-field
  validation, wording.

### Plan

1. More about the engine by least counterexamples (`LeastNumber`): that a sweep keeps the
   meaning, that extraction ends, that a span lies within its caller's.
2. A composition of `WorkerPlane` with `IsolatedRunner`'s verdicts and
   `InvocationBudget`'s kills in place of `Compute` and `Crash`, with the refinement proved.
3. `McpStdio`, `ImagePublisher`, if their code gains state of its own.
