# orpc-agent: a TLA+ model of its governance

`orpc-agent` turns oRPC procedures into *capabilities* an AI agent may call, and
puts a governed pipeline in front of them: exposure, input validation, policies,
human approval, audit, retries and cancellation. This directory holds TLA+ modules
of that governance, the TLC runs that check them on small instances, and proofs
that TLAPS checks for every instance. Paths below are relative to `src/packages/`
unless they start with `src/`.

## 1. The system

| Part | Code | State it keeps | Operations |
| --- | --- | --- | --- |
| In-memory approval coordinator | `core/src/approvals/in-memory.ts` | a Map of approval records | create, get, decide, markConsumed, list |
| Postgres approval coordinator | `postgres/src/approvals.ts` | one table | the same, each one or two SQL statements |
| Governed pipeline | `core/src/runtime/pipeline.ts`, `signals.ts` | one frame per execution, nothing shared but the coordinator | invoke, resume (stages 2 to 15) |
| Policy evaluation | `core/src/runtime/policies.ts`, `core/src/policy/` | none | a batch of policies raced with timers, precedence |
| Audit emitter, Postgres audit sink | `core/src/runtime/audit.ts`, `postgres/src/audit.ts` | pending writes; a buffer | emit, emitAwaited, drain; enqueue, flush |
| Capability gateway and journal | `core/src/server/`, `core/src/client/`, `postgres/src/invocations.ts` | the invocation journal | describe, invoke, getInvocation, getApproval, resumeApproval |
| Discovery | `core/src/runtime/describe.ts` | a work queue | describe under one time budget |
| MCP adapter | `mcp/src/index.ts` | session identities, tool names | list tools, call tool, resume tool |
| AI SDK adapter | `ai-sdk/src/index.ts` | none | translate envelopes |
| Registry, metadata, governance | `core/src/registry.ts`, `meta-validate.ts`, `governance.ts` | built once, immutable | build, filter |
| Error model | `core/src/errors.ts`, `normalize-error.ts` | none | normalise, serialise |
| CLI: commands and loading | `cli/src/cli.ts`, `load.ts`, `child.ts`, `discover.ts`, `ui/Init.tsx` | package.json's config, snapshot files, a child process | init, inspect, snapshot, check; load an application |
| CLI: drift gate | `cli/src/snapshot.ts`, `diff.ts` | none | take a snapshot, compare two, render |
| OpenTelemetry, testing | `opentelemetry/`, `testing/` | none of their own | observe, fake |

How they interact. A caller (an adapter, the gateway, application code) calls
`runtime.invoke`. When a policy or the capability's metadata demands an approval the
pipeline creates a record in the coordinator and returns an `approval-required`
envelope; nothing stays running. An approver calls `decide` at some other time from
some other process. A later `runtime.resume` reads the record, checks it against the
current deployment, consumes it and only then runs the procedure. The coordinator is
the only state two executions share, and it may be shared by processes that run
different deployments. The MCP adapter asks the application once per session who is
calling and passes every tool call on to `invoke` or `resume` as that actor. The CLI never
runs the governed application: it imports it in a child process, reads what it exports and
compares that with a file.

What is hard. Every `await` is a place where the world moves on: two resumptions of
one approval, a verdict racing the expiry, a record read long before it is used, a
deployment between request and decision, a reply lost after its statement landed, a
handler that settles after its attempt was given up, an abort between two attempts, an
identity that arrives when its connection is gone, a child process that dies without a word.
`PROJECT.json` lists these as hazards, each at the line where it bites.

What makes each part correct. A coordinator opens, decides and consumes each approval
at most once and in that order. The pipeline never reaches a gated handler without
that approval, never twice under one, never with another value than the approved one,
and tells its caller the truth about what may have happened. The journal admits an
invocation once and answers every repetition alike. The MCP adapter serves every request as
the principal who sent it and tells nobody what is somebody else's. The gate's verdict is
about the application and never about a tool that failed to read it.

## 2. The modules

`ApprovalRecords` holds the record and the pure steps on one record (`Pending`,
`Aged`, `Decided`, `Consumed` and the two guards `Decidable` and `Consumable`); the
state machines below share it. Operators whose comment begins with "Mutated" are
plausible bugs of the definition that follows them; no specification uses them.

`ApprovalLifecycle` is the abstract specification of a coordinator: per approval a
phase, who decided it, and the one execution it was spent on.

`InMemoryCoordinator` has one action per method. No method awaits between reading and
writing, so each is atomic, but time goes on within a call: `decide` compares the window
with one reading of `now()` (54) and stamps `decidedAt` with another one (61), which the
parameter `later` of `Decide` stands for, and `list` reads the time for each record
(`read`). `decide` that throws still writes the expiry it noticed (`DecideRefused`);
`markConsumed` looks at no clock; `list` settles every record. `granted` and `answered`
record what callers were told; the code keeps neither.

`PgCoordinator` has several callers over one table. A call is cut into sending
(`now()` is read here), landing (the conditional `update`), and answering (`mapRow`
computes the lazy expiry here, from the row returned before). It is reached through
`runtime.approvals` (`Start` is a caller's call of it), whose `decide` emits
`capability.approved` or `.rejected` when the reply arrives (`AnswerDecide`, `trail`). A caller may die at any
point (`Drop`), before or after its statement landed. The "was not found" branches are
left out: an id is learnt from a created record and no row is deleted.

`Pipeline` runs any number of `invoke` and `resume` executions over one coordinator.
An execution is cut at the awaits behind which something it read can change: policies,
inline handler, coordinator, strict audit write, handler call, back-off. `pc[e]` is
that await; the other variables are the fields of the code's frame, named after them
(`raw` is `inputForCall`, `copy` the record `resume` read, `approval` is
`frame.approval`, `attempts` both the attempt counter and, once positive,
`frame.effectStarted`). Each execution carries the metadata of the deployment it runs
in. `call[e][k]` is the k-th call into oRPC: sent, refused by middleware, running,
ended; the runtime's view of it ends with the attempt, its own life does not.

| Code (`pipeline.ts`) | Actions |
| --- | --- |
| `invokePipeline` 225-358 | `Invoke`, `InvokeRefused`, `InvocationPolicies` |
| `approvalGate` 556-726 | `EnterGate` (part of the policy steps), `InlineApproves`, `InlineFails`, `InlineDefers`, `CreateApproval` |
| `resumePipeline` 364-550 | `Resume`, `LoadRecord`, `LoadFails`, `CheckFails`, `ResolutionFails`, `Readmit`, `ResumePolicies`, `Consume`, `ConsumeFails` |
| `executeGoverned` 732-958 | `ExecutionPolicies`, `EmitStarted`, `BeginAttempt`, `HandlerStarts`, `CallSettles`, `AttemptTimesOut`, `NoticeAbort`, `EndBackoff`, `AbandonedCallEnds` |
| finalizers 154-207 | `Finish`, `Fail` |
| exceptions of injected functions | `SeamThrows` |
| approvers, readers, the store, time | `Decide`, `Settle`, `StoreDrifts`, `Tick` |

Abstractions. A hash is the value it was computed from. A policy batch is one of its
five outcomes. A schema is a function from values to values or None. Audit is reduced to
whether `capability.started` is durable. Reasons, types, spans, ids and wording are
left out. The surface part of the resume binding guard is merged with its actor part.
The `cancelled` status of a record, which no coordinator of the repository writes, is
left out with the branch that reports it.

`Gateway` is the gateway a remote host calls, over one invocation journal and the
approvals of `ApprovalLifecycle`, which both coordinators implement. A request is one
call of `invoke`, `resumeApproval` or `getInvocation` in some process with its own
deployment, cut at the awaits on journal, coordinator and runtime. The runtime is taken
at its word (`HonestEffectStatus` and `ResumedEffectOwnsApproval` of `Pipeline`): an
execution is its handler's run and a truthful envelope. `InvocationPromise` is the
abstract specification: an invocation is admitted once, takes effect at most once, and
settles truthfully and for good, unless an approval lets it go on.

| Code | Actions of `Gateway` |
| --- | --- |
| `server/index.ts` 50-127, `invoke` | `Refuse` (preflight), `Accept`, `Claim`, `RuntimeSuspends`, `RuntimeFails`, `RuntimeCalls`, `RuntimeAnswers`, `Settle` |
| 129-134, `getInvocation` | `Accept`, `Read`, `Unauthorized` |
| 136-166, `resumeApproval` | `Accept`, `Read`, `DecideResume`, `ClaimResume`, then as `invoke` |
| 61-84, `run`; `client/index.ts` 67-86 | `Deadline`, `Interrupted`, the lost answers of `Reply` |
| 177-190, `portableResult` | `Portable`, `Conclude` |
| `journal.ts`, `postgres/src/invocations.ts` | `Claimable`, `SameQuestion`, `Owns`, `WithOutcome`, `Waiting` |
| approvers, handlers, operators | `Approver`, `HandlerEnds`, `OperatorSettles` |

A request that dies (`Interrupted`) leaves its handler running. An operator settles an
orphaned claim only after making sure that its execution is over: the code leaves that
check to people, the model takes them at their word.

`AuditDelivery` follows audit events through request emitters into one Postgres sink
that may buffer them. `Emit` is `emit` or `emitAwaited` with the sink it calls, `Flush`
the part of `flushBuffer` before its await, `InsertEnds` everything that follows when
an insert settles, `Drain`, `Join` and `DrainTimesOut` the two sides of `drain`'s race.
Inserts may land and still fail, or never settle. One emitter has one sink.

`Discovery` is `describe` with the policy batches of `evaluatePolicies`. It is called once
(`Call`) and counts its budget from then. Lanes share the
next index, the stop flag and one budget; an action is what a lane does between two
awaits: `Take` (head of the loop), `Ask`, `Answer`, `CutOff`, `AskNothing` (the batch),
`Conclude` (back in the worker), `Settle` (`Promise.allSettled`). Time is counted in
fractions of a millisecond because the code compares `performance.now()` with a timer
that counts whole ones. The code records "error" both for a policy that failed or overran
its batch and for one that was given up because the whole budget was over; in `stances` the
latter is `late` (`GivenUp`), so that properties can tell them apart.

`PolicyScopes` says where a policy applies (`core/src/policy/scope.ts`). `CapabilityDiff`
is the drift gate of the CLI over a sequence of changes: a governance, the snapshot
recorded of it, `diffSnapshots` as the set of changes it reports, and two ways a change
of the application is merged. `Merge` leaves the snapshot alone and needs `check` to let
it pass; `MergeAndRecord` rewrites the snapshot in the same change, which `check` always
lets pass, and a human looks at what widens (`diff.ts:11`, "the set a reviewer must look
at"). `looked` records the file at the last such look; the code keeps no such thing.

| Code (`cli/src/`) | Operators of `CapabilityDiff` |
| --- | --- |
| `snapshot.ts` 19-152; `core/src/governance.ts` 69-97 | `Snapshot`, `Entry`, `RuntimeEntry` |
| `diff.ts` 306-477, `diffEntry` | `DiffExpose`, `DiffControls`, `DiffRetry`, `DiffOwnPolicies`, `DiffRest` |
| `diff.ts` 86-304, `diffRuntime` | `DiffPolicies`, `DiffPolicy`, `DiffSurfaces`, `DiffCandidates`, `DiffSelector` |
| `diff.ts` 23-74, `diffSnapshots` | `DiffAdded`, `DiffKept`, `DiffExcluded`, `Diff` |
| `cli.ts` 308-371, `snapshot` and `check` | `Passes`, `Merge`, `MergeAndRecord` |

A message is left out, a change is its kind, subject and field; description, input
schema, tool names and time-out, which are all neutral, are one `text`. A snapshot of
version 1 knows no runtime policies, one of version 2 not where they apply.

`ErrorModel` says what a failure looks like from outside: the codes and their defaults
(`ErrorOf`), what becomes of a thrown value (`Normalized`), and what a model client is told
(`Serialized`). `McpSession` is the MCP adapter over it. A request (`request[q]`) arrives
at the open connection, waits for the promise of an identity, is served, and is answered or
refused. `identities` is the code's Map from session keys to promises; a promise is named
by the request that made it, so `identities[s]` is a request, and `promise[q].connection`
is the closure its `createContext` was called in. One `Server` serves one transport at a
time, so connections come one after the other, each of one principal; that is the
transport's part, like the verification of tokens. An execution of the runtime is one step,
as `Pipeline` describes it from outside, and one approval is followed.

| Code (`mcp/src/index.ts`) | Operators and actions of `McpSession` |
| --- | --- |
| 95-122, startup | `IsServer`, `Starts` |
| 132-167, `identityFor` | `ArriveExpired`, `AskIdentity`, `AskInVain`, `ShareIdentity`; `Resolves`, `Rejects` (the promise); `Identified`, `Unidentified` (its callers go on) |
| 169-179, 258-270, `onclose` and `connect` | `Close`, `Connect` |
| 181-211, list | `ListTools`, `Listed` |
| 213-256, call | `Resolve`, `CallUnknown`, `CallThrows`, `CallCompletes`, `CallSuspends`, `ResumeNothing`, `ResumeFails`, `ResumeExecutes` |
| `core/src/runtime/pipeline.ts` 371-461, binding guard and status | `ResumeError`, `StatusError` |
| approvers, time | `ApprovalChanges`, `Tick` |

`options.filter` can only shorten a list, and `ListTools` takes any part of what is exposed.

`CliLoader` is `loadSnapshot`: the parent's call (`load`) and the child it waits for
(`child`). The child runs the application's own code, so an import ends as the module's
exports say (`ImportEnds`, with `Selected` the export that is read and `Result` what the
child writes), throws (`ImportFails`), exits with any code without writing (`ChildDies`), or
does none of this. The parent settles by the close event (`ChildCloses`, where `Retries` and
`Verdict` are the second try), the error event (`SpawnFails`) or the timer (`TimesOut`),
whichever comes first. A module is what its exports are, in their order; whether its types
can be erased decides if it needs a loader. `CliCommands` extends it by the commands over
one repository: module, config and snapshot files, which a person edits between commands.

| Code (`cli/src/`) | Actions of `CliCommands` |
| --- | --- |
| `cli.ts` 235-281, `main` | `Run`, `Refuse`, `LoadApplication`, `CannotLoad` |
| `cli.ts` 292-371 | `Inspect`, `WriteSnapshot`, `NoBaseline`, `Check` |
| `cli.ts` 379-423, `runInit` | `RefuseInit`, `Probe` |
| `ui/Init.tsx` 35-217, `discover.ts` 48-56 | `Probe`, `Review`, `ConfirmConfig`, `ConfirmBaseline`, `Decline` |
| the person at the editor | `EditModule`, `EditConfig` |

`shown` is what a wizard had reported when it wrote its config, until somebody edits
something; the code keeps no such thing. Options that only change the output, and the
script that `init` adds to package.json, are left out.

`MCPipeline`, `MCGateway`, `MCRuntime`, `MCDiscovery`, `MCMcpSession`,
`MCCliCommands` and `MCCapabilityDiff` give the small instances: capability versions and
schemas, the questions each request may be, whose event is whose, how many policies each
capability has, servers and tokens, modules and command lines, the governances. `MCRuntime` puts
`InMemoryCoordinator`, `AuditDelivery` and `Discovery` into one run. The three share no
state and no property speaks of two of them, so a behaviour of all is an interleaving of
behaviours of each, and it is enough that each moves while the others are at rest.

`InMemoryCoordinatorProofs`, `PgCoordinatorProofs`, `PipelineProofs`, `GatewayProofs`,
`McpSessionProofs`, `CapabilityDiffProofs`, `CliProofs` and `RuntimeProofs` hold the proofs.
`RuntimeProofs` extends both `AuditDelivery` and `Discovery`, two parts of the runtime that
share nothing.

How they compose: `InMemoryCoordinator`, `PgCoordinator` and `Pipeline` each refine
`ApprovalLifecycle`; `Gateway` instantiates it and refines `InvocationPromise`;
`CapabilityDiff` extends `PolicyScopes`; `CliLoader` instantiates `CapabilityDiff` as `Gate`,
so that a check compares the snapshots and differences of the drift gate; `McpSession`
extends `ErrorModel`.

## 3. The runs

| Run | Question | Instance |
| --- | --- | --- |
| `runtime` | does the in-memory coordinator keep its promises whatever calls race? Is nothing lost or doubled on the way to the audit table, and does a drain cover what it should? Does `describe` always end, and is what a catalog lacks accounted for? | 2 approvals, 2 executions, 1 actor, window 1, clock 0..2; 3 events of 2 emitters, 2 drains, buffer size 2; 3 capabilities with 1, 0 and 2 policies, 2 lanes, budget of 4 ticks, 2 ticks a millisecond |
| `pg` | does the table, with calls cut into statements and dying callers, and does the audit trail of decisions agree with it? | 1 approval, 3 callers, 2 executions, clock 0..2 |
| `approvals` | is a resumed effect approved, single and audited, and is the hashed value handed over unchanged? | 1 invocation, 2 resumptions, 2 actors, 2 values, 3 deployments (one schema converts, one takes less), strict audit |
| `reparse` | does the hashed value execute? Not with a schema that converts again | 1 invocation, 1 resumption, the converting deployment |
| `retries` | are effects bounded, aborts final, late results dropped and envelopes honest, and does every execution end? | 1 invocation, 1 resumption, inline approval, 3 attempts, 3 actors (two sharing an id), 3 values, throwing seams |
| `gateway` | does the gateway keep its promise to hosts that repeat, resume and look up? | 1 invocation id, 3 requests, 2 inputs, 2 contracts, 1 approver |
| `rejects` | does `invoke` always answer with an envelope? No | as `retries`, without resumption |
| `short_catalog` | does discovery fail when its budget is over? Not in the last millisecond | 1 capability with 1 policy, 1 lane, budget of 3 ticks |
| `mcp` | is every MCP request served as its own principal, under one identity, blind to others' approvals? | 3 requests, 2 connections of 2 principals under one session key, 3 servers, tokens that expire at 1, clock 0..1 |
| `cli` | is a verdict of `check` earned, and is `init` right, where no export was configured before, about what `check` will see? | 2 entries, 6 states of one module, 3 installations, 9 command lines, 2 configs, 2 snapshot files |
| `diff` | can anything open, or a runtime policy stop guarding, unseen over many merged changes? | 2 procedures, some thirty governances, 2 policies, files of version 1 to 3, `--fail-on widening` |
| `diff_twins` | and if two policies have one name? A policy can go | 7 governances |

What the passing runs show. `SingleGrant`, `EffectIsApproved`,
`ResumedEffectOwnsApproval` and `ApprovedInputIsHandedOver` together say that human approval
means something: one effect, of the procedure called with the approved value, for the
requester, by another identity. What the handler gets of that value is oRPC's parsing of
it, which section 4 is about. `HonestEffectStatus` and `AttemptsAreBounded` bound what a
retrying caller or runtime can cause, and `LateResultsAreDropped` says that a result is that
of the last attempt and of nobody's abort. `KeepsPromise`, `AnswersAgree` and `AnswersFitTheQuestion` carry
that over the network. `LapseIsFinal` says that a closed window stays closed although nothing
watches it: the expiry is written by whoever looks next. `KeepsLifecycle` shows that three detailed modules implement one
abstract coordinator, the fact `Gateway` builds on. `WrittenOnce` and `DrainCovers` are
what strict audit and request shutdown rely on. `CatalogIsAccounted` is what an agent relies
on when a capability is absent: a policy said no or failed, or was given up when less than
a millisecond of the budget was left, which `short_catalog` is about. `NothingOpens` and `GuardsStay` say what the gate is worth
to a team that never passes a widening: however many changes are merged, no capability is
more open than when a human last looked, and, once the file records where policies apply, no
runtime policy has stopped guarding. `ServedAsItself` and `ForeignIsUnknown` are what makes it safe to
hand a runtime to MCP clients. `VerdictIsEarned` ties the gate to the application: exit code
0 or 1 always is the difference between a file and an export that was read.

Bounds. Approvals do not interact, so one (pipeline) or two (`list` touches all) are
enough; two competitors suffice for a compare-and-set, and a third caller lets another
one die meanwhile; clock 0..2 with window 1 has a time before, at and after the end of
the window, which is where the code's comparisons differ; three attempts allow a retry
after a retry. `MaxClock`, `MaxAttempts` and `Window` are the only bounds of these
modules and stand in the guards. Invocation ids do not interact either: one id with a
first call and two later requests has every pair of them racing. `AuditDelivery` is
finite by itself: an event is emitted once and a drain is called once; three events fill
a buffer of two and leave one. In `Discovery` the clock ends at `Budget + MaxBlock +
Millisecond - 1`, by when every timer has fired; `MaxBlock` is how long a policy may hold the
event loop, and two ticks a millisecond are enough to have a time between two
milliseconds. `CapabilityDiff` takes its governances from a finite set in which each is an
edit or two from others; the gate only compares pairs, so a longer history of merges adds
no comparison that some pair of the set does not have. In `mcp` the two connections share a
key, which is where identities could be confused (with two keys they never meet); three requests
let one keep an identity that two others find, one of them on the next connection. `cli` has
a module for every branch of the choice of an export and a host for every branch of the
choice of a loader; a command keeps nothing but files, so two entries and two snapshot files
show what one command leaves for the next.

Deadlock is checked in the `diff` runs, where another change can always come, and not in
the others: an instance stops when its executions or requests are done and its clock has
run out, and a wizard may wait for its user for ever. `approvals` uses symmetry, exchanging the two resumptions and the
two approvers, which Pipeline only compares; its refinement is a safety property. The
other runs use none.

Fairness. In `Pipeline`, `FairSpec` is weak fairness of each execution's own steps
(`Proceed`): the event loop resumes an async function whose await has settled, and
everything awaited settles, since policies and handler calls carry timers. Coordinator,
strict sink and inline handler have no timer in the code and are taken to answer.
Nothing is assumed of handlers, callers, approvers or time. In `Gateway` only the
ceiling of a request is fair: it is a timer of the process, and nothing else is assumed
to go on. In `CliCommands` a command goes on by itself and the timer of a load fires; child and
person may do nothing for ever. `McpSession` assumes none. In `AuditDelivery` only the flush timer is; the database may never answer. In
`Discovery` lanes and time go on once it is called, and a policy may never answer.

Each property of a passing run has a mutant: a named plausible bug under which TLC
finds it violated.

## 4. Where the code and its documentation differ

* `return executeGoverned(frame)` is not awaited inside the `try`, so exceptions of
  stages 9 to 15 reject the promise (`rejects`): "The envelope-never-throws property".
* Runtime policies are compared by name, which nothing makes unique: removing the first of
  two with one name is a neutral change of order (`diff_twins`): "Removing an entry ... is
  **widening**".
* The stored value is parsed again on resumption, twice: by `resume` itself (`pipeline.ts:489`),
  which drops the result, and by the procedure call, which is handed the stored value
  (`:533`, `:839`). With a schema that converts what it has converted before (a transform),
  another value executes than the one hashed (`reparse`): "the same value that will
  execute (SI-6)", `src/docs/concepts/approvals.md:109`, and "the stored input is what
  executes", `:39`. What does hold, for such schemas too, is that the hashed value is what
  is handed over (`ApprovedInputIsHandedOver`).
* A timer counts whole milliseconds, the discovery budget does not: a policy cut off at the
  end of the budget counts as failed, and if the timer fires early, which it may by less than a
  millisecond, the check after the batch still finds time left and the catalog comes out short
  (`short_catalog`): "discovery fails loudly instead of returning short",
  `src/docs/reference/runtime.md:148`, and the comment at `describe.ts:77`.

One more that no run shows: `invoke` judges a request by the current contract
before it looks into the journal, so a repetition of a settled call fails after a deployment
("a settled identical call returns its recorded result", `src/docs/guides/distributed.md`);
`AnswersAgree` excludes answers of mismatch and not-found.

Remarks that contradict no document literally. The expiry is checked before the awaited
validation and policies, not when the approval is consumed, so an approval can be spent
after its window. `expired` as the Postgres coordinator answers it is a reading, not a
final answer, which is why `StoredAnswersStand` is weaker than `FinalAnswersStand`. The audit
event of a decision is lost with its reply (`create.ts:258`): what the trail says is true,
but a verdict need not be in it ("each transition attributable and audited",
`src/docs/concepts/approvals.md:5`, holds while replies arrive). A drain
that has timed out still takes the failures, so the next one resolves over them
(`audit.ts:57`); `DrainCovers` says what a drain does promise. The
`decidedAt` of an in-memory record may lie past its `expiresAt`, because `decide` reads the
time twice (`in-memory.ts:54`, `:61`); the Postgres coordinator reads it once. A snapshot records
`approval.expiresInMs`, `retry.backoffMs` and whether there is a `retry.retryOn`, but
`diffEntry` compares none of them, so a longer decision window is no drift; policies of a
capability's own are recorded by name, so a narrower scope or fewer phases of one are none
either.

Of the MCP adapter: "one identity per session, resolved once" (`index.ts:132`) holds up to
setbacks, which `ResolvedOnce` counts: a rejection deletes by key (`index.ts:163`), so one
that comes after the connection has closed removes the identity of the next connection under
`__single_session__`, and `createContext` is asked again although that connection had no
failure of its own. No request is served as another principal by it (`ServedAsItself`).

Of the CLI: `init` passes neither `--export` nor `--import` to its load and keeps an `export`
that is already configured, so the `check` that follows may read another export than the one
it has shown; `CheckSeesWhatInitSaw` therefore excludes a configured export. For the same
reason it cannot set up a module that exports two registries, and its offer of a governed export
(`Init.tsx:123-162`) is never reached. `init --snapshot foo` writes the first snapshot to
`foo` but no `snapshot` to the config. A runtime of a core that carries no governance
ends with exit code 12, although `snapshot.ts:46` says that it reads as unknown: it has no
`inspect`. A second try that times out replaces the first diagnosis (`load.ts:93`,
`reported: true` at 156), and an application that exits with code 10 by itself is tried again.

## 5. The proofs

From the named assumptions on constants only (disjoint invocations and resumptions,
one id per gate, bounds that are naturals, None and NoRecord distinct from data):

* `InMemoryCoordinatorProofs`: `CoordinatorTypeOK`, `SingleGrant`, `FinalAnswersStand`,
  `LapseIsFinal`, and that the coordinator implements `ApprovalLifecycle`. The
  invariant `IInv` adds to the types that a record is coherent: a consumer exists exactly
  when it is consumed, a verdict has an approver, and every final
  answer given is the record's status. `SingleGrant` alone is not inductive: it needs
  that an approved record has no consumer yet and has been granted to nobody. `LapseIsFinal`
  is an action property: whatever the step, who finds a closed window settles it first.
* `PgCoordinatorProofs`: `TypeOK`, `SingleGrant`, `VerdictsAreTimely`, `StoredAnswersStand` and
  the refinement. Between two steps of a call others change the row, so the invariant ties
  what is on its way to the row it came from (`Valid`: a reply that grants names the row's
  consumer, a verdict the row's approver, a final status read is the row's), and every
  statement that lands leaves a row that supersedes the one before (`Supersedes`). One lemma
  (`ReplacementPreserves`) carries all calls in progress through such a step.
* `PipelineProofs`: every safety property of the two pipeline runs. The invariant says
  for each execution what its stage implies (`Staged`: a gated execution past the gate
  has its approval, an unfinished one has no envelope, nothing is sent before the audit
  write) and what ties a resumption to its record (`Bound`: the copy it holds is an
  earlier form of the record it targets). The argument is one lemma per action, with the
  records' progress (`Progress`: a record only ages, is decided, is consumed, and never
  loses its request) carrying a resumption through the others' steps.
  `NoLateAttempt` and `LateResultsAreDropped` follow from `Staged` and from what a step does
  to an execution that has completed: nothing any more, and completing is the one step that
  finds it unaborted and the call of its last attempt ended. For `KeepsLifecycle` one lemma
  (`NextChanges`) says what any step may do to a record. `ApprovedInputIsHandedOver` holds
  for any schemas: the second invariant (`Provenance`) says that a resumption runs the hash
  of the record it targets.
* `GatewayProofs`: `TypeOK`, `AnswersAgree`, `AnswersFitTheQuestion`,
  `ApprovedContractExecutes`, and that the gateway implements `InvocationPromise`. None of them
  is inductive: that clients agree rests on the journal, and that the journal is right rests
  on who may write it. The invariant therefore ties every request to the record of its
  invocation (`Tied`): who is past the claim, or whose handler runs, holds the record
  (`Owner`); a run that has taken effect keeps it, pending under its token or settled as
  completed (`Effective`); what was told stands in the record (`Answered`); what a resumption
  read earlier can only have been overtaken in one way (`Reader`). A step of one request
  advances one record, from nobody who still needs it (`Advances`), and one lemma
  (`OthersStayTied`) carries all other requests through it. `Owner` is also where the model's
  operator matters: it settles only claims whose execution is over.
* `RuntimeProofs`, of `AuditDelivery`: `TypeOK`, `WrittenOnce`, `DrainCovers`. The invariant
  places every event: a pending promise is in the buffer or in exactly one write under way, a
  resolved one in the table. Of `Discovery`: `DescribeTypeOK`, and `CatalogIsAccounted`, which
  says nothing before the end. `CatalogInv` says what the lanes do meanwhile: one that is at work is alone with its
  capability, about which no more policies have spoken than there are (`Lonely`); what is
  still to be taken is untouched; what the lanes left behind is exact unless one of them
  threw (`LeftExact`); and a lane returns before the last capability only if one threw
  (`Ends`), in which case no catalog is the answer. `DescribeTypeOK` needs a count besides:
  `next` passes the candidates once for each lane that has returned. That nobody is given up as
  `late` before the last millisecond (`LateInv`) is about rounding: a lane's timer is due no
  earlier than its batch ends, less what `Delay` cuts off, which is less than a millisecond
  (`DelayBound`).
* `McpSessionProofs`: `TypeOK`, `ServedAsItself`, `ForeignIsUnknown`, `ListedIsReached` and
  `ResolvedOnce`. The invariant adds that a kept identity was asked for by the connection
  that is open (`Kept`), and that a waiting request waits for a promise of its own connection
  (`Waits`): without them a step of `Identified` could give a request somebody else's actor. `Kept` is where
  `Close` matters. A reply of an error is none of data or a list because of what an error
  is, and what a record says of itself is only told to its requester. `ResolvedOnce` counts, and
  rests on a second invariant, `Thrift`: the requests that came are finitely many, and while
  a session's open connection has no identity kept, strictly fewer were asked for than its
  connections and setbacks allow. A setback that is counted stays counted, so each new
  question has its own. `Requests` itself need not be finite.
* `CapabilityDiffProofs`: `TypeOK`, `NothingOpens` for any governances, either mode and any
  version of the first file, and `GuardsStay` if no two runtime policies of a governance
  have one name (`DistinctNames`), the condition `diff_twins` shows to be needed. A
  difference without a widening keeps one governance as closed as the other
  (`SilentDiffIsClosed`) and its policies in place (`SilentDiffKeepsGuards`); both
  relations are transitive, so they hold along the chain from what was looked at over what
  is recorded to what is used, which is the invariant. The assumptions on constants say
  that governances are well formed and that `Undefined` is no value.
* `CliProofs`: `OwnDiagnosis`, `VerdictIsEarned` and `CheckSeesWhatInitSaw`, for any modules,
  hosts, command lines and configs that are well formed (`CliConstants`: a module exports a
  sequence of values over governances; `Undefined` is no path). The invariant follows a
  snapshot from the child's file to the parent's answer and to what the wizard showed: at
  each place it is that of the export which would be read now (`Current`), because nothing is
  edited while a command runs (`Course`), and a load was asked for what the command at work
  wants (`Requested`). Two facts about operators carry it: among finitely many exports there
  is a richest one, so an unnamed selection finds it (`SelectedIsEarned`); and a snapshot does not differ from itself (`NoDrift`), without which
  a first check after `init` could fail.

Every invariant and every action property of the passing runs is stated by a theorem. Only
model-checked are the temporal properties `EveryExecutionEnds`, `RequestsAreAnswered`,
`BufferedIsSent`, `DescribeEnds` and `LoadEnds`: liveness under fairness and ENABLED are out
of the prover's reach. The four `violation` runs show what the code does not keep, each on one
instance, which is all that a counterexample needs.

## 6. The plan

Built so far, most important first: the approvals and both coordinators, the pipeline,
the gateway, audit delivery, discovery, the drift gate, the MCP adapter with the error model,
the CLI's loader and commands. Next:

1. `Rules`: policy composition (`core/src/policy/define.ts`) and the rest of registry and
   metadata validation as operators, each checked against a reference definition over bounded
   inputs.
2. Proofs of what `Rules` will define.

Each run asks a question of its own; a new module's run will take the place of one whose
question another run can ask as well.

## 7. Not modelled, and why

* The AI SDK and OpenTelemetry adapters translate envelopes and hold no state governance
  depends on (what the AI SDK adapter tells of an error is the code that `Serialized`
  models); the testing package holds doubles; the CLI's renderers are layout.
* JSON Schema conversion (`core/src/schema/`) is a format; Discovery keeps that it may
  throw.
* Canonical JSON and redaction: a hash stands for the value it is made from, redaction is
  a step that may throw.
* The warnings at startup (`core/src/runtime/create.ts`), the
  retention query of the audit table, and the wording of refusals.
