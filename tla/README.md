# MCagentLauncher: TLA+ models and proofs

This directory holds the specifications of MCagentLauncher: the client sessions of the
desktop application and of the web playground, the planning pipeline with its metadata
provider and compatibility analysis, the contract under which a plan may be executed, the
controlled-workspace executor of the desktop shell, and the autonomy runtime of the
repository's tooling. TLC checks them on small instances; TLAPS proves, for any value of their
constants, every safety property that a passing run checks, and both refinements.

Paths below are relative to the repository. `PROJECT.json` maps every definition that
models code to its lines.

## 1. Inventory

| Component | Where | State it keeps | Operations | What is hard |
|---|---|---|---|---|
| Controlled-workspace executor | `apps/desktop/src-tauri/src/controlled_workspace.rs`, `main.rs` | files under the application-data directory: ownership markers, and per transaction a manifest, numbered journal records with a checksum chain, one artifact, `.pending` names | `preview`, `confirm_and_begin`, `simulate_commit`, `simulate_interruption`, `recover`, `rollback` | crashes between any two file operations, two applications on one directory, check-then-rename publication, recovery from the journal alone |
| Local executor contract | `packages/shared-types/src/localExecutor.ts` | none | the transition table, validation of confirmations, audit events and manifests | agreement with the executor that claims to implement it |
| Autonomy runtime: lease, sentinels, run state | `scripts/autonomy-{runtime,controller,pause,resume,cleanup,doctor,status}.mjs` | `lease.json`, `PAUSE`, `STOP`, `run-state.json`, `current-operation.json` | start, heartbeat, checkpoint, complete, pause, resume, cleanup, doctor, status | each command is a process; file reads and writes of several commands interleave; leases expire; commands die |
| Autonomy runtime: process supervisor | `scripts/autonomy-process-supervisor.mjs` | `process-registry.json`, detached processes with an identity endpoint | supervise, challenge, terminate, record the end | read-change-write of one registry, timers against exits, death of the supervisor |
| Planning pipeline, resolver, compatibility analysis | `packages/api-client/src`, the plan and compatibility types of `packages/shared-types/src` | values handed from stage to stage; nothing between calls | build the queries, resolve them, build the plan, analyse its candidates, bring the analysis into the plan | one query of many fails, precedence among conflicting findings, cycles, what is unknown |
| Metadata providers | `packages/api-client/src/providers`, `modrinth.ts` | none | search, project, versions: one request with a timeout each | every failure of every request, service order |
| Execution contract | `packages/shared-types/src/localExecutor.ts` | none; the caller keeps request, confirmation and journal | validate request, confirmation, manifest and journal | a confirmation used twice, late, or for something else; damaged journals |
| Desktop interface | `apps/desktop/src/App.tsx`, `lib` | React state: intent, plan, previews, pending label, connection, environment report | parse, generate, explain, preview, check connection, probe | overlapping asynchronous requests and checks |
| Web playground | `apps/web/src/components/ApiPlayground.tsx`, `lib` | React state, the same without the environment panel | the same, one request each | the same |
| Service metadata | `packages/shared-types/src/serviceInfo.ts`, `packages/api-client/src/serviceInfo.ts` | none | read and evaluate what the endpoint says of itself | malformed or unsafe metadata |
| Environment reports, probe policy | `packages/shared-types/src/environment.ts`, `probePolicy.ts`, `apps/desktop/src/lib/safePlatformProbe.ts` | none | make, merge, redact, validate a report | agreement with a policy the code never consults |
| Install-action previews | `packages/shared-types/src/installActions.ts` | none | list a plan's actions for display | nothing executes them |
| MCAgent server | `services/mcagent-server/app` | none | stateless mock handlers | nothing stateful |
| Schemas, repository checks | `packages/schemas/scripts`, `scripts/check-autonomy-boundaries.mjs`, `scripts/verify-project.mjs` | none | validation at build time | nothing stateful |
| `crates/*`, `supabase`, `datasets`, `packages/rules` | | | placeholders without code | |

How they interact. The two clients call the planner over HTTP, after they have read the
endpoint's metadata. The planning pipeline calls the metadata service; its plan and the
analysis of its candidates are what an execution request is made of. The executor is
reached through Tauri's `invoke`; the interface at this commit calls none of its commands
and only previews what they would do. The executor reads and writes only its own directory; two
applications share nothing but those files. The autonomy commands share only the control
directory (and the operating system's processes); a supervisor is a command that also
heartbeats for its run. The autonomy runtime and the product never touch each other.

What makes the components correct:

- executor: records are never overwritten; the journal is always one acceptable chain; a
  transaction follows the operation its manifest binds; *committed* means the artifact is
  there, *rolled back* that it is gone; an unmarked directory is never adopted; interrupted
  work can be recovered;
- autonomy runtime: one live lease at a time, not taken away from its holder; a dead
  holder does not block the directory; the registry claims only what was seen or brought
  about; the timeout, PAUSE and recovery each reach the processes they are for;
- client session: one request at a time; what is displayed belongs together although
  answers come late; planning only against a compatible endpoint;
  a displayed report is licensed by the probe policy and says truly how it came about;
- planning: no query is lost, a failure is not hidden, the network is used only when
  allowed; compatibility is concluded from evidence only; a cycle is always found;
- execution contract: only what was reviewed, confirmed in time and not yet consumed
  passes; a journal whose events do not continue one another does not.

`PROJECT.json` lists each hazard at its line with the properties that would catch it.

## 2. Modules

| Module | Role |
|---|---|
| `TransactionStates` | the state machine of transactions: `allowed_transition`, the paths of the two operations; the contract's table, which `ExecutionReview` uses |
| `TransactionProtocol` | abstract specification of a transaction, without files, processes or crashes |
| `ControlledWorkspace` | the executor, one action per file-system effect or decision |
| `WorkspaceProperties` | its type invariant, safety, liveness, refinement |
| `WorkspaceInvariant` | the inductive invariant `IInv` |
| `WorkspaceProofs`, `WorkspaceSafety` | TLAPS proofs: types, then the safety properties, for any number of applications |
| `WorkspaceRefinement` | TLAPS proofs for applications that are not at work on one transaction together: the refinement of `TransactionProtocol` |
| `MCWorkspace` | instances for TLC |
| `AutonomyControl` | the autonomy runtime, one action per awaited file operation |
| `AutonomyProperties` | its properties and fairness |
| `AutonomyProofs` | TLAPS proofs: types and the registry, for any number of commands |
| `LeaseProofs` | TLAPS proofs: the lease, for commands that take turns at it |
| `MCAutonomy` | instances for TLC |
| `ServiceCompatibility` | the evaluation of an endpoint's metadata, and the failures of reading it |
| `EnvironmentReport` | environment reports, their redaction and validation; the probe policy |
| `PlanningSession` | abstract specification of a client session: intent, plan, explanation, preview, without requests |
| `ClientSession` | desktop and web client, one action per event handler and per answer |
| `SessionProperties` | their properties, the refinement of `PlanningSession` |
| `SessionProofs` | TLAPS proofs: the session, its refinement, the environment panel |
| `MCSession` | instance for TLC |
| `CompatibilityAnalysis` | `analyzeCompatibility` as operators |
| `MetadataResolution` | requests to the metadata service and what is made of their answers |
| `ResourcePlanning` | queries from an intent, the plan from candidates, the analysis brought into the plan |
| `PlanningPipeline` | `planResourcesFromIntent` and `resolveAndAnalyzeMetadata`, one awaited request per action |
| `ExecutionReview` | the contract's validators, and the caller who confirms, amends, submits, cancels and journals |
| `PlanningProperties` | the properties of the last five |
| `PlanningProofs` | TLAPS proofs: analysis, network, plan, requirements, journal, review |
| `CycleProofs` | TLAPS proofs: the search for cycles |
| `MCPlanning` | instance for TLC |

### ControlledWorkspace

A process is one running application. Its commands are synchronous Tauri commands, so a
process runs one at a time; nothing in the code keeps a second application from running
on the same directory, hence `Proc`. A transaction is a workspace identity together with
a transaction identity (`Home` gives the workspace).

| Variable | Code |
|---|---|
| `made`, `marked` | directories that exist; roots and workspaces with a published ownership record |
| `manifest`, `journal`, `artifact` | the published records of each transaction |
| `pending` | records under their temporary `.pending` name |
| `pc`, `pub`, `job`, `seen` | where a command is, how far its `publish_new_file` is, its arguments, the journal as it read or wrote it |

`publish_new_file` is four steps, each of which may be separated from the next by another
process or by a crash: the target is looked for (`CheckTarget`), the temporary is created
exclusively and filled (`CreatePending`), the target is looked for again (`RecheckTarget`),
and the temporary is renamed (`RenameManifest`, `RenameEvent`, ...). A command that meets
an error leaves with `Refuse`; `Abort` is a crash or an I/O error anywhere, and leaves
the files as they are. `Confirm` covers `preview` and `confirm_and_begin` up to its first
file operation, with the confirmation token bound to the operation previewed.
`rollback` is `recover` in the code and in the model.

Abstractions: a journal record's checksum chain is represented by the sequence of
transitions the record and its predecessors stand for, which is what the chain can tell
apart (two records are linked iff one extends the other). The transaction, journal and
artifacts directories are made together. Checks of things that are never removed again
(a marker, a directory) are taken with the last of them. Listing a directory is one step.
Path and identifier validation, symbolic links and reparse points, and the JSON text are
left out.

### TransactionProtocol

Four actions: `Bind` an operation once, `Advance` along that operation's path, `Place`
and `Remove` the artifact. Its guards are the promise: no `committed` without the
artifact, no `rolled_back` with it. `ControlledWorkspace` implements it
(`op <- manifest`, `state <-` the state of the journal's last record) when one application
runs, and when no two are at work on one transaction (`SeparateSpec`: once a command has
read a transaction's journal, or begins it, no other comes to that point until it is
through); without that it does not, which is finding `rollback_race`.

### AutonomyControl

A command (`Cmd` is a slot for one) is a Node process. One step is one awaited file
operation with the computation up to the next; `atomicWriteJson` is one step, its rename.

| Variable | Code |
|---|---|
| `lease` | `lease.json`: absent, torn (created by the exclusive open, not yet written), or a run's record with its expiry |
| `pause`, `stop` | the sentinels |
| `state`, `operation`, `registry` | the JSON files of these names, reduced to run, status and, in the registry, each process's status |
| `proc` | the supervised processes themselves |
| `now` | the clock, in units of which a lease lasts `LeaseDuration` |
| `pc`, `mem` | a command's next file operation; its arguments and everything it has read and may use later |

A command's tests are collected in `MayGoOn`; a test that fails makes it `Refuse`. In a
supervisor, a refusal is a heartbeat that failed, and the process is terminated, as in the
`catch` of the heartbeat timer. `Register` publishes the registry entry and attaches the
exit listener, in that order: an exit before it may be missed. `Terminate` is the request
and the kill sent to an owned process after an answered challenge. It has three outcomes:
the process is dead; kill reported success and the process lives on (`"asked"`), for a
moment or for good; the kill failed and the process lives on, whether or not the request has
reached it. A command counts the first two as terminated, as `terminated: result.status ===
0 || !processIsAlive(pid)` does. `Challenge` may go unanswered and a kill may fail, at most
`MaxLapses` times together. `Issue` is a user's or agent's call with any run that was given
a lease before, the stale ones included.

Abstractions: an ownership token stands for the process and its pid (a reused pid is a
process that does not answer for the token). A heartbeat still under way when the process
exits is finished before the supervisor records the end; the two touch different files. No
code marks an operation `active`, so pause's waiting loop never waits. Evidence, logs, the
resume packet and `last-heartbeat.json` are written but never decide anything and are left
out, as is `cleanup`'s removal of temporary files, whose one effect on another command, a
rename that fails, is covered by `Crash`. A spawn that finds no unused token is refused;
this is the bound on processes.

A fact the model shows: nobody makes sure that a process obeys. Once a kill has exited with
status 0 the registry says "terminated", and `autonomy-process-supervisor.mjs:220` skips the
process from then on, so one that ignores the signal runs on and no later pause or resume
tries again. The properties therefore ask that a process is reached (dead, or sent the
request or a signal), and that the registry is warranted by that; they do not say it is
dead.

### ClientSession

One module models both surfaces (`surface` is chosen in `Init`), for they differ in few
handlers: the desktop's generate sends two requests, takes any answer and has an
environment panel; the playground's sends one and refuses an answer without a plan.

| Variable | Code |
|---|---|
| `prompt`, `intent`, `planResponse`, `explanation`, `installPreview` | the state hooks of these names; `executorPreview` is set and cleared with `installPreview`, which stands for both |
| `pending` | the pending label, or kind |
| `requests` | requests under way: their operation, call and body |
| `connection`, `checks` | `serviceConnection` (status and metadata), and the number of checks under way |
| `environmentReport`, `showProbeConsent`, `confirmationMessage` | the environment panel |

A handler runs to its first `await` in one action and on from each answer in another. An
answer is a value of `Answers`, so that the same request may be answered in several ways,
or a failure (`RequestFailed`). A plan is a record of the intent it was made from, so that
`ResultsAgree` can tell a stale one. The service's metadata is any element of `ServiceInfos`
or unreadable. `EnvironmentReport` keeps the fields that a validator or the policy reads;
a text is one of the classes the redaction patterns distinguish. `probePolicy.ts` is
consulted by no other code, so `ReportWithinPolicy` is an agreement between two parts that
nothing enforces.

Abstractions: a request or a check is answered, refused, or never settles: neither client
passes `fetch` a signal or a time-out, so nothing is assumed of when an answer comes. A plan
to explain is a plan, malformed or not; the desktop sends either, the playground only what
`extractPlan` finds. Handlers of controls disabled while an operation is pending are guarded
by `pending = Null`; the environment buttons are enabled at any time and so are their
actions.

Facts the model shows that no document settles. Two overlapping checks leave the answer
that came last on display, even if it is the older check's. The second request of the
desktop's generate is sent without a look at the connection, which may have been found
incompatible since the first (`docs/adr/0003:77` asks for no calls to an incompatible
endpoint); `ReadyMeansCompatible` is about the buttons. An endpoint that accepts a connection
and never answers leaves `pending` set and every planning button disabled, or the connection
at "checking", until the page is left; no liveness is claimed of a session.

### PlanningSession

Three variables' worth of promise: an explanation and a preview are always of the plan
shown, a plan of the intent shown; each is replaced or dropped together with what it was
made from. `ClientSession` implements it on both surfaces with the identity as mapping.

### PlanningPipeline, CompatibilityAnalysis, ExecutionReview

`job` is the caller's call with its arguments, `stage` where it is, `todo` the queries or
requirements not yet resolved, `results` what came of the others. Each request to the
service is one action (`SearchAnswered`, `VersionsAnswered`, `ProjectAnswered`,
`RequirementVersionsAnswered`) that takes any answer of `Answers`; the values between two
requests are computed by the operators of `ResourcePlanning` and `MetadataResolution`. An
injected resolver (the `resolver` option of the code) answers with any element of
`Resolved`; that is how the analysis is shown graphs and candidates of every kind. `Analyse`
is the caller's composition of `planResourcesFromIntent`, `analyzeCompatibility` and
`applyCompatibilityToResourcePlan`, which the repository's tests also make.
`PlanAgain` repeats a call, whose answer may be another, so that a later request is about
another plan of the same intent.

`ExecutionReview` has the validators as operators. What calls them does not exist yet at
this commit: the actions `Confirm`, `Amend`, `Submit`, `Cancel`, `Tick` and `AppendJournal`
are the caller of `docs/adr/0008`, and are marked external. The digest of a plan or a
manifest is represented by what it is the digest of. The digest of a journal event is a
value its writer supplies, and an event with other contents may carry it: nothing recomputes
one. Of the contents of an event the validator reads the number, the states, the digests and
the identities; the others are not in the model. Malformed identifiers, digests and dates
are left out.

Sets of issues stand for the sorted, deduplicated lists; a message is its code and what it
is about. Texts an alias is searched in are sets of words.

Facts the model shows. `applyCompatibilityToResourcePlan` sets the risk of a plan with a
warning but no blocker to "medium" even if it was "high" before, where ADR 0007 says "at
least medium": finding `risk_lowered`; `PlanOwnsUp` demands "high" only before the analysis.
With two candidates of one identity the analysis keeps the dependencies of the last, so
`CyclesReported` leaves that case out. `validateTransactionJournal` compares what it is
given: it sorts the events, compares each with the one before, and recomputes no digest. So
a journal in another order, one without its last events, and one with an event whose other
contents were altered under the same digest are all accepted, although `docs/adr/0008:195`
says "Corrupt, missing, reordered, or contradictory journal evidence requires manual
review." and `docs/execution/risk-register.md:18` "reject gaps, reordering, invalid
transitions". `JournalEvident` says what is noticed, and claims nothing of these three. The
pattern for Windows user paths in the safety validation cannot match the JSON text it is
applied to (`FoundInJson`); the redaction before it works on the values.

## 3. What is checked

| Run | Instance | Shows |
|---|---|---|
| `race` | 2 applications, 1 transaction, 1 crash | `TypeOK`, `IInv`, `OwnedTree`, `JournalChain`, `OperationBound`, `CommittedHasArtifact`, `SingleBeginner`, `RecordsImmutable`, `OrphansStay` |
| `serial` | 1 application, 2 transactions in one workspace, 2 crashes | `RolledBackIsClean`, the refinement `ImplementsProtocol`, the liveness property `RecoveryCompletes` |
| `rollback_race` | 2 applications, no crash | finding: `RolledBackIsClean` fails between two applications |
| `control` | 1 command slot, 2 runs, all commands but supervise, clock to 2, 1 crash | `TypeOK`, `LeaseNotStolen`, `StaleLeaseRecovered` |
| `orphans` | 1 slot, 1 supervised process, 1 crash, 1 lapse | `RegistryWarranted`, `OrphansReached` |
| `supervision` | 2 slots, 1 process, 1 lapse, no crash, clock at 0 | `RegistryWarranted`, `TimeoutReachesWork`, `PauseReachesWork` |
| `lease_race` | 2 slots, 2 runs | finding: a late heartbeat overwrites another run's live lease (`ExclusiveLease`) |
| `unregistered` | 2 slots, 2 processes | finding: two registrations at once lose one (`Registered`) |
| `missed_exit` | 1 slot, 1 process | finding: an exit during registration is missed, supervision never ends (`SupervisionEnds`) |
| `session` | both surfaces, 2 intents, readable and malformed answers, 3 endpoints, 2 devices, 2 checks at a time | `TypeOK`, `OneRequest`, `ResultsAgree`, `RequestsCurrent`, `CheckingHasCheck`, `ReadyMeansCompatible`, `NoticeTruthful`, `ReportWithinPolicy`, `ProbeReportsRedacted`, the refinement `ImplementsPlanningSession` |
| `planning` | the calls of `MCPlanning`: searches with and without network, goals, a target without a version, every graph of 3 projects, every way a candidate declares itself, rules, metadata requirements, and 5 proposals for execution | `TypeOK`, `NothingLost`, `NetworkTruthful`, `PlanOwnsUp`, `CompatibleIsProven`, `CyclesReported`, `ExecutionAuthorised`, `JournalEvident` |
| `risk_lowered` | the calls of `planning` | finding: the analysis lowers the risk of a plan (`RiskKept`) |

Why the bounds are enough for the questions asked. In the executor, every conflict is
between two commands on one record: two applications and one transaction give all of them,
for any number of commands one after the other, since the journal ends after six records
(`LastSequence`). Two transactions in one workspace add the sharing of the root and the
workspace; two crashes let a recovery itself be interrupted. In the autonomy runtime a
conflict needs two commands in progress; where one slot is used, commands still follow one
another in any order and die in the middle, which is what crash recovery is about. Two runs
are needed for one to be stale; in `control` and `lease_race` the clock goes one unit past a
lease's duration so that a lease can expire and be followed by a new one, elsewhere a lease
can at most expire (`supervision` needs no clock: its timers may fire at any time).
`MaxAborts`, `MaxCrashes`, `MaxLapses` and `MaxTime` are the only bounds in guards.
`SYMMETRY` is used in `race` only, on applications; its properties are invariants and action
properties.

In `session`, two intents let a result be stale, and two checks (`MaxChecks`) overlap; a
third adds no new order of two answers. One prompt is enough, since a prompt decides
nothing (the empty one does, and is there). In `planning`, three projects give every shape
of a cycle up to length three, two cycles sharing a node included; two queries let one fail
before or after the other. `Lifetime = 1` with `MaxTime = 2` has times within and after a
confirmation's life; `MaxJournal = 5` is the length of the contract's path to a commit. The
journal of an accepted request ends a behaviour of the review: once there are events,
nothing but further events happens. That is a bound too, as the validators of requests and
of journals have no state in common. There is one confirmation in a behaviour: a second one
would begin the review anew. Calls end, hence `CHECK_DEADLOCK FALSE` there.

`LeaseNotStolen`, `RolledBackIsClean` and `ImplementsProtocol` are checked with one process in
progress at a time. With two they fail for the reasons `lease_race` and `rollback_race`
show. What two processes have to leave each other alone with is said by `SeparateSpec`
and `TurnsSpec`, for which the three are proved (section 4); before that, TLC found nothing
against them with two applications, one transaction and one crash (224,262 states), and with
two commands and two runs, start, heartbeat, complete, pause and resume, and a clock to 2
(2,046,604 states, `SYMMETRY` on commands).

### Findings

`PROJECT.json` has each with the lines quoted.

- `rollback_race`: `simulate_interruption` journals `recovery_required` before it creates
  its artifact. A recovery by a second application in between finds nothing to remove,
  and the artifact appears after `rolled_back`, when no command removes it any more.
- `lease_race`, `unregistered`: read-change-write of `lease.json` and
  `process-registry.json` by concurrent commands.
- `missed_exit`: the exit listener comes after the registry's read and write.
- `risk_lowered`: a warning of the analysis sets a plan's risk to "medium", from "high" too.

Not runs, but visible in the model. `allowed_transition` goes from staging to committing,
and `simulate_commit` does, where the contract's table (`ContractSuccessors`) and
`docs/adr/0008:165` ask for a verifying state in between. `create_owned_directory` accepts
an existing directory, so the transaction directory's creation is not the exclusive one that
`docs/security.md:121` describes, and two beginners may both be past it. The single use of
an identity holds all the same (`SingleBeginner`, proved): it rests on the manifest's
`.pending` file and its second check.

### Fairness

Executor: a command is straight-line code of a running process, so its steps are weakly
fair; `RecoveryCompletes` further assumes that `recover` is tried again and again on each
transaction. It allows for one outcome that the code documents as fail-closed
(`docs/releases/v0.2-m17-review.md`): a `.pending` record left by a crash wedges its
transaction until somebody removes it.

Autonomy runtime: the same for the steps of a command. While a supervisor waits, its
heartbeat timer is always enabled again, so weak fairness would let the heartbeats starve
the timeout and the exit; the event loop serves all of its sources, hence strong fairness
of `TimeOut` and `Exited`. `RecoverySpec` adds that `resume --clear-stop` is tried again
and again; nobody is obliged to issue any other command. `ProcessEnds` is not fair: a
supervised process may run forever. `Tick` is not fair either: no property needs a lease
to expire, only that an expired one is recovered.

`TimeoutReachesWork` excepts a timeout whose one attempt met an unanswered challenge or a
failed kill, since the timer fires once. `PauseReachesWork` needs no such exception: every
refused heartbeat tries again, and lapses are bounded. `OrphansReached` excepts a torn lease,
which every recovery refuses.

Client session: no fairness. No press of a button is owed, and no answer is, for `fetch` has
no time-out; every property is a safety property.

The planning pipeline has no liveness property: a call is a loop over finitely many
queries, and each iteration ends when its request does.

## 4. What is proved

Executor. For any set of applications, workspaces and transactions and any number of crashes,
from `ConstantsAssumption` (there is a transaction, each has a workspace, and the
names of directories do not clash):

| Theorem | States |
|---|---|
| `WorkspaceProofs!TypeCorrect` | `Spec => []TypeOK` |
| `WorkspaceSafety!Invariance` | `Spec => []IInv` |
| `OperationBoundHolds`, `CommittedHasArtifactHolds`, `SingleBeginnerHolds`, `OwnedTreeHolds`, `JournalChainHolds` | the safety invariants of run `race` |
| `RecordsImmutableHolds`, `OrphansStayHolds` | its action properties |

The argument. None of the safety properties is inductive: that a journal is a chain
depends on what a process about to rename a record believes the journal to be. `IInv`
adds that. Its parts are

- `PublishInv`: a process past the creation of its temporary file is alone in holding that
  record, and at the rename the target is still absent. Exclusive creation of the
  temporary with the second check of the target is all the mutual exclusion there is, and
  `RecordsImmutable` and `SingleBeginner` come from it;
- `CommandInv`: a command that has opened a transaction knows the operation in the
  published manifest, and follows it;
- `SeenInv`: what a process knows of the journal is published, its location fits the state
  that shows, and a process about to journal `committed` has its artifact in place;
- `JournalInv`: each published record extends its predecessor, has the length of its
  state's rank and fits the manifest's operation;
- `SingleBeginner`, and `TreeInv`: directories appear below marked ones only.

`WorkspaceProofs` has typing, action by action. `WorkspaceSafety` has a lemma for each
part and each kind of step, combined into `Invariance`; the theorems about properties
follow from `IInv` (and, for the action properties, a step from a state where it holds).
TLC checked `IInv` on `race` first.

Two results need more: no two applications may be at work on one transaction at a time. The
code takes no locks, so this is a condition on the interleavings: `SeparateSpec` is `Spec`
without the steps to a state where two commands are between their reading of one journal, or
the manifest of a new transaction, and their last effect on it. The number of applications,
transactions, crashes and commands is any:

| Theorem | States |
|---|---|
| `WorkspaceRefinement!RolledBackIsCleanHolds` | `SeparateSpec => []RolledBackIsClean` |
| `ImplementsProtocolHolds` | `SeparateSpec => ImplementsProtocol`: the executor implements `TransactionProtocol` |
| `LoneApplication` | both of `Spec`, when `Proc` has one element |

Something of the kind is necessary: `rollback_race` is a counterexample to the first with two
applications, and it is no step of the protocol either. What keeping apart adds to `IInv` is
`ApartInv`: what a command read of the journal is still all of it (`Current`: no record was
published meanwhile), and a command about to record `rolled_back` has seen its artifact
removed (`Removed`), or none was there. A command keeps these of itself (`CurrentStep`,
`RemovedStep`), and those of another transaction cannot disturb them (`OthersCurrent`,
`OthersRemoved`). From it, each action is a step of the protocol or leaves its three variables
alone: `RenameManifest` is `Bind`, `RenameEvent` is `Advance` (the journal's length is the
length of what was read, so the record appended is the last, by `JournalLength`),
`RenameArtifact` is `Place`, `RemoveArtifact` is `Remove`, and everything else stutters, a
crash included. The practical reading: a lock per transaction, taken before the journal is
read and kept to the end of the command, would make several applications implement the
protocol.

Autonomy runtime. For any set of commands in progress, runs, processes and preserved
processes, any bounds on the clock, crashes and lapses, from `RuntimeAssumption` (the name
`"none"` is neither a run nor a process, a lease lasts a while, the bounds are natural
numbers):

| Theorem | States |
|---|---|
| `AutonomyProofs!RuntimeInv` | `Spec => []IInv` |
| `RuntimeTypes` | `Spec => []TypeOK` |
| `RegistryStaysWarranted` | `Spec => []RegistryWarranted` |
| `LeaseProofs!LeaseInTurns` | `TurnsSpec => LeaseNotStolen` |
| `LeaseStaysExclusive` | `TurnsSpec => ExclusiveLease` |
| `LeaseOfOneCommand` | both of `Spec`, when `Cmd` has one element |

The argument. The registry is read, changed and written by commands that do not wait for one
another, so what is written may be an old copy. It stays warranted because a copy only
claims exits that were heard and kills that reported success, and both are for good: a
process never comes back to life, one that was sent the signal was sent it, and a supervisor
spawns with a token no process had. `IInv` says so of every command (`KnowledgeInv`: the
registry it read, the processes it counts as killed, the exit it heard), together with where
a command of its kind can be (`LocationInv`), since only a supervisor that has heard of the
exit records one, and only a command whose challenge was answered terminates. An old copy
may lose an entry (finding `unregistered`), but it cannot invent one.

`LeaseProofs` is about any number of commands of which one at a time is at the lease
(`TurnsSpec`): between its reading of the lease and the writing that relies on it, or about
to write the lease or the run state at all (`AtTheLease`). Everything else they do
interleaves freely, and a crash ends a turn. `FreshInv` says what a command there relies on:
the lease and the state it has read are still those on disk when it acts on them. It keeps
that of itself whatever it does (`OwnFresh`), and the others write neither file meanwhile
(`KeepsApart`, `OthersFresh`). Without the turns that is what fails (finding `lease_race`),
and both properties with it.

Client session. For any prompts, intents, plans, answers, endpoints, devices and bound on
checks, from `ChecksAssumption` (`MaxChecks` is a natural number), `ServiceInfosAssumption`
(an endpoint's safety claims are among those the schema knows) and `NullAssumption` (`Null`
is none of the values it stands for the absence of):

| Theorem | States |
|---|---|
| `SessionProofs!SessionInvariant` | `Spec => []IInv` |
| `SessionTypes`, `SessionOneRequest`, `SessionRequestsCurrent`, `SessionResultsAgree`, `SessionCheckingHasCheck`, `SessionReadyMeansCompatible` | the safety invariants of run `session` |
| `SessionRefinement` | `ClientSession` implements `PlanningSession` |
| `SessionNoticeTruthful`, `SessionReportWithinPolicy`, `SessionProbeReportsRedacted` | its invariants about environment reports |

The argument. `ResultsAgree` is not inductive: that a late plan belongs to the intent on
display depends on the intent not having changed since the request was sent, which is
`RequestsCurrent`; and that on no other operation having started, which is `OneRequest`.
`IInv` of `SessionProofs` is their conjunction with `TypeOK`, `CheckingHasCheck` and
`ReadyMeansCompatible`; the last rests on a lemma about `evaluateServiceCompatibility`. The
refinement uses the same invariant, one lemma for each handler. The environment panel needs one
fact about the session, `ReportInv`: the report on display is none, the mock report, or the
report of a safe probe on some device. What remains is about the operators that make,
merge and redact a report, one lemma for each, for any device and any finding.

Planning and review. For any calls, alias database, answers of the service, results of an
injected resolver, lifetimes and bounds, from

- `JobsAssumption`: a call is of one of the two kinds and made at least once, and the
  requirements of a metadata call and the providers it allows are sequences;
- `AliasAssumption`, `ResolvedAssumption`: the alias database and the candidates an injected
  resolver gives are sequences (both are arrays in the code), and the source, project and
  version of such a candidate are among `Names`;
- `AnswersAssumption`: an answer with versions holds a sequence of them, and their names are
  among `Names`;
- `NamesAssumption`: `Names` lists each name in use once. It stands for the order of strings
  (`localeCompare` in the code), and its form is what makes that order strict and total;
- `TimesAssumption`: `Lifetime` and `MaxTime` are natural numbers:

| Theorem | States |
|---|---|
| `PlanningProofs!AnalysesAreProven` | `Spec => []CompatibleIsProven` |
| `NetworkIsAdmitted` | `Spec => []NetworkTruthful` |
| `ExecutionIsAuthorised` | `Spec => []ExecutionAuthorised` |
| `PlansOwnUp` | `Spec => []PlanOwnsUp` |
| `NoQueryIsLost`, `NothingIsLost` | `Spec => []QueriesKept`, `Spec => []NothingLost` |
| `JournalIsEvident` | `Spec => []JournalEvident` |
| `PlanningTypes` | `Spec => []TypeOK` |
| `CycleProofs!CyclesAreReported` | `Spec => []CyclesReported` |
| `CyclesFound` | the depth-first search is right about every graph whose nodes can be sorted |
| `CandidatesInvariant` | `Spec => []CandidatesInv`: candidates are identified by names in use |

The argument. `AnalysesAreProven` is about `analyzeCompatibility`, not about the pipeline:
each thing a candidate fails to declare leaves an issue that concerns it, with a severity or
a code that `deriveCompatibilityStatus` never lets pass (`MetadataProven`,
`DependenciesProven`, `AnalysisProves`, for any severity the caller gives to what is
unknown); `AnalysisInv` says that the analysis on hand is the one of these candidates for
the plan's target. `NetworkInv` carries, from the start of a call to its end, why a request
could be made, so that the diagnostics computed at the end from the arguments alone agree
with what happened. `ReviewInv` adds that the confirmation is of what was shown, that a
request is made of a plan together with its analysis, whatever becomes of the plan
afterwards, and that a confirmation which let a request through is consumed.

`ResultsInv` follows the loop over the queries: the results so far and the queries still to
do make up the input, in order, and each result is of its query and owns up to its candidate
(an unstable version has its warning, an alpha only by preference; `BestVersion`,
`ResolvedOwned`). `PlanInv` follows the plan: the diagnostics are those of these results
(`Diagnosed`), and what they hold is in the plan with the risk that goes with it, when it is
made (`PlanPlanned`) and after the analysis is brought in (`PlanApplied`).

`CoverInv` follows the loop of a metadata call: a requirement is still to do, or a match or
an issue names it; between two providers none is left to do. The merge at its end drops
matches, and the proof is that it drops none without keeping its equal: "better, or first
among equals" orders the matches of one candidate strictly (`BetterOrders`), a finite set so
ordered has a least member (`OneIsKept`), and sorting loses none of the rest
(`OrderedMembers`, `SortedMatches`). It is there that the order of names has to be strict,
and each match has to be of a requirement of the call.

`JournalInv` says that a journal's events are numbered in order, each continuing the one
before. `JournalEvident` is then about `validateTransactionJournal` alone, which sorts what
it is given: sorting a numbered journal gives the journal back (`SortedByNumber`), and with a
gap, an event twice or an altered one that another follows, two neighbours do not fit
(`NoneMissing`, `NoneTwice`, `NoneReplaced`, `AlterationTells`).

Sorting is proved about without induction over sequences. A member's rank is the number of
members below it, `RankReached` shows that a strict order on a finite set takes each rank
once (the least counterexample is found with the library's `WFMin`, a theorem about sets),
and the model's `Ordered` picks by rank, as `Chosen` does to keep the members of a sequence
that pass a test. `Chosen` and `FirstOfEachKey` say without a fold what the code's `filter`
and its maps of first occurrences compute.

While it was being proved, `PlanOwnsUp` turned out to say less than it meant: a conjunct
without parentheses read as "there is a result such that, if it has no candidate, ...". It
now says "if some result has no candidate, the risk is not low"; the run and the proof are
of that.

`CyclesAreReported` is about a recursive program, and is proved without a theorem about
recursion. `visit` is modelled as the step of a machine: the nodes of the calls under way, the
targets each of their loops has left, the cycles and the visited nodes (`Searches`). The
search is a recursive function over these states, and what it returns is found in four stages.

1. There is such a function. `LoopExists` makes it from the orbits of the step (`OrbitExists`),
   by induction over numbers with a set in the place of the predicate (`Induction`).
2. The search ends. A call uses up an unseen node, a return shortens the path, and what else a
   loop does shortens its list of targets (`StepShrinks`); so a set of states that only lead to
   each other is empty (`SearchEnds`), which is the induction rule the rest uses: the states
   from which the result would be wrong are such a set.
3. What is found is right. `SoundInv`: each node on the path is a target of the one before and
   what its loop has left are targets of it, so that a target on the path closes a cycle.
   `CompleteInv`, as long as nothing is found: what was visited leads nowhere else, and any part
   of it has a node none of that part leads to (`Founded`); and what a node on the path wants is
   visited, ahead of its loop, or the next node on the path. When the search is over all nodes
   are visited, and a graph with the second property has no cycle (`FoundedIsAcyclic`). That a
   visited node is not followed again is sound because of it.
4. The graph is that of the candidates. A candidate's node has the targets it needs when no
   two candidates share an identity (`GraphNeeds`); closed sets of nodes are closed sets of
   candidates (`SameCycles`); no other part of the analysis makes an issue of this code
   (`CycleIssues`). Sorting needs identities made of `Names`, which is `CandidatesInv`, from the
   answers through the pipeline to the analysis.

What led to it changed the model in three places. `CyclesReported` took two records of one
identity for two resources: a dependency candidate that stands for a candidate under another
slug made it false, and `Needs` now compares identities, as the graph does. The search was a
recursive function over paths with a fold in it; as a machine it follows the code's `visit`
more closely. And a rule of none of the other types makes a `SIDE_MISMATCH`, as in the code,
where it was left open what it makes.

Only model-checked. Liveness (`RecoveryCompletes`, `StaleLeaseRecovered`,
`OrphansReached`, `TimeoutReachesWork`, `PauseReachesWork`),
which TLAPS cannot do under fairness. The lease and the rollback of commands or applications
that get in each other's way are the findings above, not gaps of the proofs.

## 5. What is not modelled

- Power loss that undoes a rename or reorders directory writes: a crash keeps completed
  file operations. The executor does not synchronise directories, and its
  release review says so.
- Files changed by anything but the programs themselves: symbolic links, tampering,
  manual repair.
- The form of the contract's texts (identifiers, digests, versions, dates) and the ordering
  of its audit events; `executor.ts`, whose functions are disabled stubs.
- The list of actions an install preview shows (`installActions.ts`): a display of the plan
  that nothing executes. That it is of the plan on display is in `ResultsAgree`.
- The text work of alias matching and of the server's intent parser, and what the clients
  compute for display alone (titles, summaries, memory estimates).
- The server's handlers, the schemas and the repository checks are stateless
  transformations of text with nothing for a model checker to explore.

## 6. Plan

Done: the executor with its abstract protocol, invariant and proofs; the autonomy runtime;
the client sessions with their abstract session, invariant and proofs; planning, analysis
and the execution contract.

1. Proofs about the abstract specifications alone (what `TransactionProtocol` promises of its
   states), to carry over along the refinements.
2. Composition of `ExecutionReview` with `ControlledWorkspace`, once the code connects them.
3. Two slots for the recovery runs of the autonomy runtime, if their state space can be
   brought down.
