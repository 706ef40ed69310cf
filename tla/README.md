# Rounds: TLA+ models of the remediation, alerting and chat core

Rounds watches metrics, fires alerts, lets agents investigate them and executes
remediation plans that a person has approved. This directory models the parts of
it that decide *whether a command reaches a cluster*, *whether an alert reaches
anybody* and *what a chat session does with a message*, checks them with TLC on
small instances, and proves the main results with TLAPS for every value of the
constants. All paths below are relative to `src/packages/` unless they begin with
`docs/` or `README.md`.

| file | what it is |
|---|---|
| `PlanExecution.tla` | one remediation plan: executor, approval store, routes, sweeper, crashes |
| `PlanLifecycle.tla` | the abstract plan an operator sees; `PlanExecution` implements it |
| `PlanExecution_proofs.tla`, `PlanDecisions_proofs.tla` | theorems about `PlanExecution`: types, sign-off, refusal and the life cycle; decisions, stalls, repetition and order |
| `MCPlanExecution.tla`, `Plan*.cfg` | its TLC instances |
| `AlertEvaluation.tla` | one alert rule: evaluator, timer, store, users, crashes |
| `AlertEvaluation_proofs.tla` | theorems about `AlertEvaluation` |
| `MCAlertEvaluation.tla`, `Alert*.cfg` | its TLC instances |
| `PlanVerification.tla`, `PlanVerification_proofs.tla`, `MCPlanVerification.tla`, `PlanVerify.cfg` | `PlanExecution` composed with the verifier, the linked rule and restarts, and its theorems |
| `LeaderElection.tla`, `LeaderElection_proofs.tla`, `MCLeaderElection.tla`, `LeaderElection.cfg` | the lease of the alert evaluators, its theorems, its instance |
| `AutoInvestigation.tla`, `AutoInvestigation_proofs.tla`, `MCAutoInvestigation.tla`, `AutoInvestigation.cfg` | the investigations of one alert rule, started by events or by hand, and its theorems |
| `ChatQueue.tla`, `ChatQueue_proofs.tla`, `MCChatQueue.tla`, `ChatQueue.cfg` | one chat session: run registry, message queue and its pump, and its theorems |
| `SessionStream.tla`, `SessionStream_proofs.tla`, `MCSessionStream.tla`, `SessionStream.cfg` | one chat session: event log, live stream, browser tab, and its theorems |
| `PROJECT.json` | components, runs, mutants, source map, findings, hazards, theorems |

Run `tlc -config PlanAuto.cfg MCPlanExecution` or `tlapm PlanExecution_proofs.tla`
in this directory.

## 1. Inventory

The gateway is a Node process (or several replicas of it) over one database:
SQLite through a synchronous driver by default, Postgres in production
(`README.md:102`). Components call each other in process, share database rows,
and exchange events over a bus (in memory, or Redis streams).

**Plan executor** (`api-gateway/src/services/plan-executor-service.ts`, routes in
`routes/plans.ts`, wiring in `app/plans-boot.ts`).
State: the plan row (status, autoEdit), its step rows, the approval rows.
Operations: `approve`, `reject`, `cancel`, `retryStep`, `onStepApproved`,
`onStepRejected`; internally `runNext`, `executeStep`, `haltPlan`.
It is called by the HTTP routes, resumed by the approval store's `onResolved`
hook, and calls the execution adapter. Hard: every operation is a check followed
by later writes with awaits in between; several handlers may drive one plan; a
crash leaves a command whose effect nobody knows. Correct when no command is sent
without a decision that pays for it, no unresolved command is repeated, refused
plans never run, a stopped plan starts nothing, steps run in order, and an applied
plan is really done.

**Plan repository and approval store** (`data-layer/src/repository/{sqlite,postgres}/
remediation-plan.ts, approval.ts`, the event wrapper, `routes/approval.ts`).
State: the rows above. `updatePlan`/`updateStep` read a row and write every column
back; the approval store's `approve`/`reject` check that a row is pending,
`override` checks nothing. Hard: lost updates on Postgres. Correct when each
resolution wakes the executor at most once per decision.

**Plan verification** (`services/plan-verification-service.ts`). After `applied`
it waits for the linked alert rule to be evaluated again, within a deadline; a
recovery pass after a restart and a periodic sweep pick up plans left behind.
Hard: deadline against the last evaluation, retry against an old verdict,
recovery beside live routes. Correct when each applied run ends with a verdict,
and `passed` comes from an evaluation that is fresh for that run.

**Alert evaluator** (`services/alert-evaluator-service.ts`, `app/alerts-boot.ts`).
State: a timer per enabled rule, the rules being evaluated, leadership.
Operations: `refreshSchedule`, `tickRule`, `decideTransition`, `tickLeader`,
`start`, `stop`. It reads and transitions rule rows, queries metrics through
adapters, publishes `alert.fired`. Hard: the decision uses a copy of the rule read
before the metric query; users change the rule meanwhile; overlapping refreshes.
Correct when a rule fires only after its window, every firing is announced once,
and rule and timers eventually follow the metric and the user.

**Alert rule repository and routes** (`data-layer/.../alert-rule.ts`,
`routes/alert-rules.ts`, the agent's `alert_rule_write` tool). `update`,
`transition`, `delete`, disable, enable, silences, policies, investigation marks.

**Leader lock** (`services/leader-lock.ts`). A lease row with `tryAcquire`,
`heartbeat`, `release`. Hard: clocks, a leader that is paused past its lease, an
evaluation that outlives the leadership it began under. Correct when at most one
replica evaluates at a time and somebody always comes to.

**Auto-investigation consumer** (`services/auto-investigation-consumer.ts`, the
manual route in `routes/alert-rules.ts`). State: on the rule's row the start
marker, the linked investigation and the failure mark; the investigation's own
row. Operations: `shouldRun`, `onAlertFired`, the run timeout, `finalize`, the
startup sweep and the periodic one. Hard: check-then-act, a run that outlives its
timeout, whole-row writes of the evaluator beside it, a crash that leaves a
marker. Correct when events are deduplicated, every marker is eventually
cleared, and a verdict stays.

**Notification consumer** (`services/notification-consumer.ts`). Last-sent state
per group and contact point. Hard: it decides before and records after the send.

**Event bus** (`common/src/events/memory.ts`, `server-utils/src/events/redis.ts`).
Fan-out in memory; a Redis consumer group that reads new messages only, so that
unacknowledged ones are never read again.

**Chat message queue and run registry** (`routes/chat.ts`,
`services/agent-run-registry.ts`, `chat-message-queue.ts`). State: at most one run
per session in memory, queue rows in the database, the set of sessions being
pumped. A POST runs its message or queues it; the pump runs queued ones after
each run; users edit, delete, cancel. Hard: an aborted agent that has not
unwound, claims without a run, wake-ups of the pump. Correct when one agent works
in a session at a time, the queue is run in order and once, an accepted edit
counts, and no message is forgotten.

**Session event stream** (`routes/chat.ts`, `services/chat-service.ts`,
`services/session-event-bus.ts`, `chat-session-event.ts`, `web/src/hooks/useChat.ts`).
State: numbered events in the database, subscribers in memory, what a tab has
seen. Hard: replay, buffer and live tail meet while events arrive, connections
break, and two writers number and publish separately. Correct when a tab skips
nothing and everything reaches it.

**Agent loop, LLM gateway, authentication, access control, adapters, dashboards,
web and CLI**: listed in `PROJECT.json` with the reason each is not modelled.

`PROJECT.json` lists the hazards, each at its line, with the properties that
cover it or the reason none does yet.

## 2. Plan

Done, in this order: `PlanExecution` with `PlanLifecycle`; `AlertEvaluation`;
`PlanVerification`, composed with the executor; `LeaderElection`;
`AutoInvestigation`; `ChatQueue`; `SessionStream`. Each has its theorems: every
safety property that a passing run checks is also proved (section 10).

Left, in the order in which it matters:

1. Theorems: `NoSilentStall` on Postgres without a fault.
2. `Notifications`: `decideDispatch` against the group and repeat intervals, with
   duplicate delivery and a failing send.
3. `PlanVerification` on Postgres, where `updatePlan` writes whole rows back.
4. `AutoInvestigation` with two replicas.

A run exists for each distinct question. A violation run stands where the code
disagrees with its own documentation and no passing property shows the exception;
section 12 lists the other disagreements with the property that excepts them.

## 3. PlanExecution

### State and actions

| variable | code |
|---|---|
| `plan`, `step`, `approvals` | the rows of `remediation_plan`, `remediation_plan_step`, `approvals` (row 1 gates the plan, later ones a step) |
| `shape` | per step: `continueOnError`, and whether its params are invalid |
| `pc`, `loc` | one handler execution: next statement and local variables |
| `loop` | on SQLite, the handler that has the event loop |
| `unresolved`, `starts`, `grants`, `signedOff` | history: what was sent, and the decisions that allow it |
| `budget` | operations and faults left (the two bounds) |

One action is one database statement, or the call or return of the execution
adapter, so handlers interleave exactly where the code awaits. `approve()` is
`ApproveRead; ApproveMark; ApproveClose; ApproveStart`, then `runNext()` is
`RunNextStops` or `RunNextContinues` and so on; the map in `PROJECT.json` gives the
lines. With `Backend = "sqlite"` the driver (better-sqlite3) is synchronous:
everything a handler does between two real waits happens in one go, because the
promises it awaits are already resolved and nothing else gets a turn of the loop.
`loop` models that: a handler releases it only at the adapter call and when it
returns. With `"postgres"` every statement is a yield point, several replicas may
serve the plan, and `updatePlan`'s write-back may carry an old `auto_edit`.

Points a reader of the code should know:

- `routes/plans.ts` always passes `autoEdit = true`, so the gated mode is reached
  only by callers of `approve()` that pass `false`; a plan of one step is always
  auto-edited. Both modes are modelled because the service implements both.
- `ApproveClose` treats the store's check-then-write on row 1 as one step.
- The comment at `plan-executor-service.ts:228` speaks of closing the approval row
  in the same transaction; there is no transaction, and a failure is logged and
  ignored. The model does what the code does.
- Statuses the types allow and the modelled code never writes (plan `draft`,
  `completed`, `failed`; step `approved`; approval `expired`) are left out.
- Command text, output, error wording, identities, timestamps, audit rows and team
  scoping are abstracted. The adapter is external: it ends in success, in
  `{success: false}` or with an exception; `adapterFor()` may throw before that.
- A crash loses all handlers on SQLite, any subset of them on Postgres.
- `CommandEnds` is the adapter's return together with the `updateStep` that records
  it. `StatementFails` at that point is that write throwing: it is outside the
  executor's `try`, so the step stays `executing` and its command is unresolved.

### Abstract specification

`PlanLifecycle` has the plan's status and the set of steps that ever ran. Its
edges are the state machine in the header of `plan-executor-service.ts`, plus the
edges the executor really has beyond it: expiry, a retry that reopens a halted
plan, and a command that fails late and halts a plan already shown as cancelled
or applied. The mapping is `status <- plan.status`,
`ran <- {s : starts[s] > 0}`.

### Runs

| run | instance | shows |
|---|---|---|
| `plan_auto` | SQLite, 3 steps, 2 handlers, 4 operations of approve/reject/cancel/retry, 1 fault | every command is paid for by a decision (`StartsGranted`), an unresolved one is never repeated, refusals are permanent, a stopped plan starts nothing but retries, steps run in order until a retry, applied means done until a retry, and the life cycle is implemented |
| `plan_gated` | SQLite, 2 gated steps, 5 operations, 1 fault, resolutions and overrides of gates in any order | every run of a step is paid for, and a waiting plan always has a gate somebody can resolve |
| `plan_postgres` | Postgres, 2 steps, 3 operations, 1 fault | nothing runs before a sign-off; with no fault no plan stalls |
| `plan_reject_race` | Postgres, 1 step | violation: a rejected plan is revived |

Bounds. Two handlers are what every check-then-act race needs. Three steps give a
first, a middle and a last one, so that a failing step has something to skip and a
reopened plan something to order. Four or five operations cover approve, cancel,
retry and a second retry; one fault puts a crash or a failing statement between
any two statements. Every combination of `continueOnError` and invalid params is
an initial state. Handlers are interchangeable, hence the symmetry set
`Permutations(Request)`. Deadlock is not checked, because a decided plan with no
handler at work rests. Liveness (`EventuallySettles`) is checked in the composed
run `plan_verify` (section 5). Under faults a plan may stay `executing` for ever:
no recovery exists for it, so the property excepts them.

## 4. AlertEvaluation

### State and actions

| variable | code |
|---|---|
| `backend` | the deployment's store, chosen once |
| `rule`, `deleted` | the row of `alert_rules`: state, `pendingSince`, `fireCount`, `forDurationSec` |
| `writes` | Postgres: user updates that have read the row and not yet written it |
| `tick` | the `tickRule` call in flight: the copy read before the query, the decision, the row to write |
| `armed`, `pulls` | the rule's timer; `refreshSchedule` calls between their read and their effect |
| `breach` | whether the metric satisfies the condition |
| `announced`, `held` | history: firings announced, age of the unbroken run of true samples |
| `budget` | bounds on user operations, metric changes, missed samples, restarts |

A tick is `TickBegin`, then the query: `TickNoSample`, or a sample. On SQLite what
follows the sample (stamp, decision, transition) is one turn of the loop,
`TickSample`, then `Publish`. On Postgres it is `TickSamplePg`, `StampRead`,
`StampWrite`, `TransitionRead`, `TransitionMerge`, `TransitionWrite`, `Publish`,
and an update writes back the whole row it read. Users disable, enable, edit and
delete between any two of those.

Time is relative: a timestamp is its age in clock ticks, saturated at `MaxAge`,
the longest window, since only comparisons with a window are ever made of it.

Points a reader of the code should know:

- One evaluator: `docs/operations/auto-remediation.md:232` describes the
  single-process version in which only one process evaluates. Leadership among
  replicas belongs to `LeaderElection`.
- `update()`'s statement and its read-back are one step, and the history insert of
  `transition()` is merged with the read of the `update()` that follows it: the
  insert touches nothing else here.
- On SQLite the stamp of `lastEvaluatedAt` changes nothing the model sees.
- `PUT /alert-rules/:id` takes the body as it comes. It is modelled as the edit
  form and the agent's tool use it: it changes the condition.
- A rejected publish and a crash before it both lose the event: there is no retry,
  and a firing rule is not announced again. `announced` counts such a firing as
  announced, so `FiringsAnnouncedOnce` says that nothing is announced twice or
  without a firing, and that each firing gets its one attempt.
- The rule and the evaluator read one clock. `evaluator.stop()` is not called on
  shutdown, so a shutdown is a crash.
- Left out: silences, policies, the preview, the predicate's arithmetic (`breach`
  stands for its result), and the columns of investigations.

### Runs

| run | instance | shows |
|---|---|---|
| `alert_rule` | both stores, windows 0 and 2, 2 user operations, 2 metric changes, 1 missed sample, 1 restart | pending rows always have a `pendingSince` however stale the writes; on SQLite firings and announcements agree and a rule fires only after an unbroken window |
| `alert_live` | both stores, window 1, 2 user operations, 2 metric changes, 1 restart, fair | the rule and its timer come to follow the metric and the user |
| `alert_disable_race` | SQLite | violation: a rule disabled during its query leaves `disabled` |

Bounds. A window of one tick already separates immediate, too early and in time; the
lengths 0 and 2 let an edit lengthen or shorten a running window. The metric starts
either way, so with two changes a window is broken and begun again, and a resolved
rule fires once more.
Two user operations give disable-then-enable and edit-then-delete around one
suspended tick, and two concurrent stale writes on Postgres; a missed
sample and a restart fall between any two steps.

Fairness: weak fairness of the refresh, of the tick, of a pending user write and of
time. `setInterval` keeps firing, a periodic refresh is the safety net for lost
change events, queries and statements answer or fail. Misses are bounded, and absent from `alert_live`: a metric
source that never answers again resolves nothing, and the code promises nothing
then. Users and the metric have no fairness; the liveness properties only speak of
behaviours in which they settle.

## 5. PlanVerification

Extends `PlanExecution` (SQLite) and runs it beside the verifier.

| variable | code |
|---|---|
| `ver` | `verification_status`, and the ticks since `verification_started_at` (`NotYet`: null) |
| `rule` | the linked rule as the service reads it: none, missing, disabled, clear (normal or resolved), alerting (pending or firing), and whether it was last evaluated before the verification began, since, or now |
| `outcome` | a handler that has written `applied` and not yet called `onExecutionOutcome()` |
| `down` | the process has died and not come back |
| `stranded`, `evaluated` | history: a run never handed to the verifier; the rule evaluated since the last run ended |

`Executor` is every step of `PlanExecution`; `Apply` splits off the one that writes
`applied`. `Report` is `onExecutionOutcome()`, `Sweep` the timer, `Die` and `Boot` a
crash and `start()` with `recoverInterrupted()`, `BootFails` a start whose recovery
throws (what killed the process is still there, so it is part of the same fault),
`Evaluate` and `ChangeRule` the evaluator and the users of the rule.

Points a reader of the code should know:

- The hook drops the outcome of a rejected gate (`app/plans-boot.ts:194`): a plan
  that a tolerated rejection of its last step completes stays `applied`,
  `not_started` until the process restarts. So does one whose verification
  statement fails or whose recovery at the start throws. All are `stranded`.
- A crash between a rerun's `applied` and its verification leaves the first run's
  verdict, since recovery looks only for `not_started`. `PassedIsFresh` excepts it.
- Disabling and enabling a rule makes it `normal`; with an evaluation after the
  start, that is `passed`.
- An evaluation whose query was sampled before `applied` and stamped after it
  counts as fresh.
- The sweep reads only the verification columns: a plan that was retried and
  failed again may still get a verdict. `PassedIsFresh` speaks of applied plans.

Run `plan_verify`: 2 steps, 2 handlers, 2 operations of approve/cancel/retry, 1
fault, a deadline of one tick. `VerificationSettles`: wherever the process dies, an
applied plan gets a verdict, unless a later failure halts it again or its run is
stranded. `PassedIsFresh`: applied and passed means the rule was evaluated since
the last run ended. `EventuallySettles`: without a fault a signed-off plan ends.
Two operations give approve and one rerun or cancel; one tick separates before and
at the deadline. `MCPlanVerification` takes plans whose steps have valid params (a
step that is not sent ends like one that fails). Deadlock is checked.

Fairness: handlers go on (Node runs ready continuations, the database answers or
fails, execution adapters time out after 60 s), the sweep's timer fires, a dead
process is restarted, time passes. Users, faults, and the rule's evaluation have
none: if the evaluator never comes back the verdict is `inconclusive`.

## 6. LeaderElection

Several processes with `ALERT_EVALUATOR_HA` on one SQLite database. (The lock's
statements call `json_extract`, which Postgres does not have: there the first
`tickLeader()` fails at boot.)

| variable | code |
|---|---|
| `holder`, `left` | the lock's row: `leaderId`, and `expiresAt` from now (-1: past) |
| `up`, `isLeader`, `pc`, `beat` | a process: what it does, its `isLeader`, where `tickLeader()` is, ticks since the last one |
| `fresh` | the rule's state as an evaluation in flight read it |
| `rule` | the rule's state, and how often its present firing was announced |
| `breach`, `budget`, `paused`, `abandoned` | the metric, the bounds, and history: was anybody paused, or stopped in mid-evaluation |

`tryAcquire()` and `heartbeat()` are two statements, `TickLeader` and `ReadBack`.
`Tick` is the clock: a process that is not paused finishes its statement and its
due timer within a tick. A paused one does not, and that is where the lease's
guarantee ends: `OneLeader` excepts every behaviour in which a process was ever
paused, however briefly, and `SplitBrainHeals` says what remains.
A rule's timer is taken to run while its process leads. The timer's callback itself
checks only that the process runs, and a debounced `refreshSchedule()` may set
timers after leadership was lost; both need a pause first.
A crashed leader's row names `Gone`, an id nobody has, since ids are random.
The heartbeat is at least a second whatever the ttl (`alert-evaluator-service.ts:337`);
`Beat <= Ttl` is assumed, as with the default of 30 s.

Run `leader_election`: 2 processes, lease 2, heartbeat 1, 3 metric changes, 2
pauses, stops or crashes. `OneLeader`, `FiringToldOnce`, `SplitBrainHeals`,
`LeadershipRecovers`. Lease 2 leaves one heartbeat to be missed before the
expiry; two upsets are a pause and a crash of its successor; three changes let
the rule fire, resolve and fire again. `stop()` does not wait for an evaluation in
flight, which may announce a firing a second time: `FiringToldOnce` excepts it.

Fairness: timers fire, statements return, time passes, pauses end and a process
that is down is started again.

## 7. AutoInvestigation

| variable | code |
|---|---|
| `rule` | the row's investigation columns: linked investigation, start marker (as an age), failed |
| `row`, `rowAge` | the investigation row of each run's session, and the age of its `updatedAt` |
| `kind`, `home`, `agent`, `age` | each run: event or click, its process, its agent, its timer |
| `pc`, `loc` | each handler's and each process's sweep's next statement and locals |
| `other` | Postgres: the row as another writer (evaluator, user) read it |
| `loop`, `budget` | SQLite's event loop; upsets left and whether something has failed |

An event: `Fire`, `CheckRow`, `FailStale`, `Identify`, then like a click
(`Click`): `MarkRead`, `MarkWrite` and the agent, which saves its row
(`AgentSave`) and report (`AgentReport`), ends, or hangs. When the report cannot be
saved the error becomes an observation, the investigation is still open and
`onBeforeTerminate` asks the agent to call `investigation_complete` again
(`AgentRetry`). The handler goes on when
the agent returned or the timer fired, and looks for the row, forces its status,
links it or marks the rule failed. Each process sweeps at start and once a tick.
Users may delete the rule (`DeleteRule`) or an investigation (`DeleteRow`), whose
link the rule keeps: `shouldRun` takes it as none, and updates of the row do nothing.

Points a reader of the code should know:

- A timed-out agent is not aborted: it may still be at work when the next event
  starts another, and may still save a report, which nobody links and which holds
  no event back. `EventsAreDeduplicated` counts the cooldown from the reports the
  code knows of (`Counts`): of agents that returned before their timer (`InTime`)
  and of the row the rule links. The rule's indicator and a late row may disagree.
- An agent that tries its report again sets `completed` whatever the status is, so
  a timeout's or a sweep's `failed` can become `completed`. `VerdictIsFinal` allows
  that change to the row's own agent after a fault, and no other (`KeepsVerdict`).
- `isStaleAutoAlertInvestigation()` passes over manual sessions: a manual run's row
  whose agent failed to set its status stays in progress for ever.
  `InvestigatingEnds` excepts it.
- Check and marker are separate statements: on Postgres, or with two replicas, two
  events both start an agent. `EventsAreDeduplicated` is stated for one process on
  SQLite, where nothing comes between.
- The startup sweep clears every marker, another replica's live run's included.

Run `auto_investigation`: 1 process, both stores, 2 events or clicks, cooldown 1,
timeout 1, stale after 2, and 1 upset (crash, failing statement, deletion, other
write) on Postgres, 2 on SQLite: there it takes two failing statements to leave a
running row linked, which is what `FailStale` is for.
Two runs are what deduplication and overwriting need; the three limits are
distinct outcomes at these lengths (within, at and past the cooldown, the timeout
before staleness). 1.2 million states. Deadlock is checked: the clock never stops.

Fairness: something of what goes on by itself goes on (`Proceed`: statements return,
timers fire, the sweep's interval runs, the clock advances), and a dead process is
restarted. One weak fairness for all of it is enough, because the clock waits for
the handlers and sweeps that are due. Agents have none: an agent may hang, or never
come back to its report.

## 8. ChatQueue

| variable | code |
|---|---|
| `queue` | the session's rows of `chat_message_queue`, in position order |
| `run`, `active` | the run registry: every run, and `activeBySession` |
| `pumping` | membership in `pumpingSessions` |
| `pc`, `loc`, `loop` | tasks (requests and the pump), their locals, SQLite's event loop |
| `budget` | messages, edits, visits and faults left |

`Post*` and `ServeEnds` are `handleChatStream` on an existing session, `Pump*`,
`Relist` and `Rewake` are `pumpSessionQueue`; a task that finds work for the pump
becomes it. A cancel marks a run complete while its agent still works: the index
is released only when the agent's promise has settled.

Points a reader of the code should know:

- On Postgres a message enqueued just after the run it saw active has ended waits
  for the next visit of the session (`chat.ts:256`), and a row claimed just before
  a POST starts its run stays `running` (`chat.ts:141`).
- A failing `markRunning()` leaves a registered run that nobody completes
  (`chat.ts:146`), and a crash leaves rows `running`: nothing picks them up.
- For these reasons `QueuedMessageSettles` is stated for SQLite without faults.

Run `chat_queue`: both stores, 3 tasks, 3 messages, 1 edit or deletion, 2 visits
(history reads, cancels), 1 fault. `AgentHoldsSession`, `QueueRunsInOrderOnce`,
`EditsAreHonoured`, `NoOvertaking`, `QueuedMessageSettles`. Three messages are one
that runs and two whose order shows; three tasks are a run, a pump and a request.
Deadlock is not checked: a session with an empty queue rests.

Fairness: `WF_vars(Work(p))`: statements return and agents end (bounded loops,
timeouts of tools and model calls).

## 9. SessionStream

| variable | code |
|---|---|
| `up` | the server process runs |
| `log`, `queue` | seqs in `chat_session_events`, and those of events about the message queue |
| `backlog`, `emitted`, `nav` | the run's `persistChain`, events of the turn, its `syntheticSeq` |
| `pending` | per writer, the seq appended and not yet published |
| `tab` | both ends of a tab's stream: `handoffBuffer`, the rows of the replay, `maxEmittedSeq`, the wire; `maxSeqRef`, events shown, events passed during a POST, the seq the page was loaded with, whether a POST is under way, failed attempts |
| `published`, `late`, `lossy` | history: seqs the bus has carried or that were persisted before the last restart, seqs something numbered above them overtook, whether an append of the run failed |
| `budget` | events, unpersisted events, POSTs and faults left |

The run's events go through `persistChain` one by one (`Emit`, `ChainAppend`,
`ChainFails`); `publishSessionEvent` of a handler appends and publishes beside it
(`HandlerAppend`, `PublishAppended`). A tab loads its page, opens the stream, which
subscribes, queries and replays, and receives events; it drops a number at or below
`maxSeqRef`.

Points a reader of the code should know:

- While a POST of the tab is under way (`useChat.ts:964-978`) the tab shows of its
  subscription only events about the queue and of a queued message's run; for every
  other event it moves `maxSeqRef` and shows nothing, expecting the event on the
  POST's own stream. A tab that tails a run of somebody else and posts meanwhile
  therefore passes that run's events for good. `TabSkipsNothing` and
  `EventReachesTab` except these events (`passed`), never those about the queue.
  Whether a run's events are taken for a queued message's
  (`backgroundQueueRunActiveRef`) is left open.
- A number is overtaken when something numbered above it is published first. On
  Postgres a handler's event overtakes the run's between append and publication, and
  a navigate event, numbered from 0 within the turn, overtakes the turn's events that
  still wait in `persistChain`. On SQLite neither happens, until an append fails:
  then the turn has sent more events than it has seqs, and a navigate number may lie
  above the seqs to come. The tab takes an overtaken event for a repeat. `late`
  collects these seqs and both properties except them; on SQLite `TabSkipsNothing`
  excepts them only after such a failure (`InOrder`).
- `subscribeStream` counts failed attempts, gives up after `MAX_RECONNECTS` in a
  row and starts anew with any data. A `fetch` that is rejected, as when the server
  is down, is not caught there: `useChat` warns and the tab has no subscription
  until its page is loaded again or a POST names the session (`Reject`,
  `PostAnswer`).
- A replay whose query fails sends an error and leaves the connection open with
  `liveMode` false: the stream buffers for ever (`QueryFails`, state `stuck`).

Run `chat_stream`: both stores, 1 tab, 1 handler beside the run, 2 events, 2
navigate events, 1 POST, 2 faults (lost connections, failed statements, rejected
fetches, a crash), 1 reconnect. Tabs do not interact, so one is enough. Two events
are what overtaking needs, and let one be loaded or replayed and one live; two
navigate events reach the number 1, the first that can hide a seq; two faults are a
failed append and a lost connection, or two lost connections, the second of which
the tab gives up at. 137,000 states. Deadlock is not checked: a session without new
events rests.

Fairness: appends and queries return, the network carries what is written to an
open connection, and a tab that has not given up tries to connect, which may be
rejected. Nothing forces a server to restart or a tab that gave up to come back:
`EventReachesTab` excepts tabs left without a live stream.

## 10. What is proved

For all values of the constants that satisfy `ConstantsAssumption` (the sets and
bounds have their types; `None` is none of the other values; windows lie in
`0 .. MaxAge`; a heartbeat is no longer than the lease).

| theorem | statement | inductive invariant |
|---|---|---|
| `PlanExecution_proofs!TypeCorrect` | `Spec => []TypeOK` | `TypeInv`: the type invariant in four parts (rows, control, locals, history), so that an action's proof touches only the part it changes |
| `SignedOff` | `Spec => []SignedOffBeforeRun`, both backends | `SignOffInv`: until somebody has signed off, the rows are untouched and handlers are only at labels that decide the plan. The property alone is not inductive: a handler standing at `exec`, or a gate for a step, would break it one step later |
| `RefusalPermanent` | on SQLite, `Spec => RefusalIsPermanent` | `LoopInv`: a handler between two waits holds the loop (`Exclusive`), so what it checked still holds at each label (`Guarded`), and a plan that has not gone live is as created (`Undecided`) |
| `Refinement` | on SQLite, `Spec => ImplementsLifecycle` | the same invariant; each step satisfies `LifeStep`, which maps to a step of `PlanLifecycle` or a stutter |
| `PlanDecisions_proofs!EveryStartGranted` | on SQLite, both modes, `Spec => []StartsGranted` | `GrantInv`: per label, a handler that is about to run a step holds a decision for it that nothing has spent, and under a sign-off of the whole plan so does every step that has not run |
| `NeverStalls` | on SQLite, both modes, `Spec => []NoSilentStall` | `StallInv`: a waiting plan has a handler at a label from which it goes on with the plan, or a pending gate of a pending step; a handler that asks for an approval asks for a pending step. "Some handler is at work" is not inductive: it may be one that is about to return |
| `NeverRepeated`, `StoppedStays` | on SQLite, auto-edited plans, `Spec => UnresolvedNeverRepeated`, `Spec => StoppedPlanStartsNothing` | `WholeInv`: an unresolved command's step is `executing`, the step a handler runs was pending when it took it, and no step has a gate |
| `RunsInOrder`, `AppliedMeansDone` | the same, `Spec => InOrderUntilRetry`, `Spec => []AppliedMeansDoneUntilRetry` | `OrderInv`: until a retry one handler moves the plan on, the steps before its own have ended and those after it wait; an applied plan has no such handler |
| `PlanVerification_proofs!VTypeCorrect` | `VSpec => []VTypeOK` | itself |
| `PassedFresh` | auto-edited plans, `VSpec => []PassedIsFresh` | the executor's invariants carry over, since a step of the composition is an executor's step, a stutter of its variables or a late failure (`LateFault`); `FreshInv` adds that no verdict exists before the first run ends, that a deadline's start is set with `waiting`, and that `passed`, or a wait about to become it, has an evaluation since the run |
| `AlertEvaluation_proofs!TypeCorrect` | `Spec => []TypeOK` | `TypeInv`: adds, per `pc`, which of the tick's fields hold a row |
| `PendingDated` | `Spec => []PendingHasSince`, both stores | `SinceInv`: the same of every row some step may still write |
| `AnnouncedOnce` | `Spec => []FiringsAnnouncedOnce` | `TurnInv`: on SQLite the tick rests only at its query or its event, no stale write exists, and a pending or firing rule is the one the tick has read |
| `WindowHeld` | `Spec => FiresAfterWindow` | `WindowInv`: the run of true samples is at least as old as the `since` of the pending rule, and of the copy a query is out for |
| `LeaderElection_proofs!TypeCorrect` | `Spec => []TypeOK` | `IInv`, below |
| `AtMostOneLeader` | `Spec => []OneLeader`, any set of processes, any `Beat <= Ttl` | `IInv`: as long as nobody was paused, a leader is the row's holder (`LeaderHolds`), and a holder runs, leads or is reading its claim back, and has at least `Ttl - beat` of its lease left (`HolderIsAlive`). `OneLeader` alone is not inductive: a leader whose row another may take would break it at the next claim |
| `OneAnnouncement` | `Spec => []FiringToldOnce` | adds that an evaluation in flight belongs to the leader and has read the rule's present state (`EvaluationIsFresh`), and that announcements count a firing that is on (`ToldMatchesState`) |
| `AutoInvestigation_proofs!TypeCorrect` | `Spec => []TypeOK`, both stores | `TypeInv`: adds `LinkOK`, that every copy of the row that somebody may still write back names a saved investigation only |
| `VerdictStays` | one process, `Spec => VerdictIsFinal` | `TurnInv`: on SQLite a handler or sweep between two waits has the loop, an agent reports in the turn in which it saves (`AgentRow`) unless it tries again, which takes a fault (`RetryFaulted`), and what is about to be relabelled is running (`Relabels`). The `failed` that the row's own agent turns into `completed` after a failed save is excepted |
| `Deduplicated` | one process, `Spec => EventsAreDeduplicated` | `DedupInv`: a handler at work is alone and is marked on the rule with the age of its own timer, which fires before the marker is stale (`FlightsMarked`), a recent report of an agent that returned in time is the one the rule links (`RecentLinked`), and nobody past the check sees either (`StartsAlone`). Reports saved after the timer and not linked are outside the statement |
| `ChatQueue_proofs!TypeCorrect` | `Spec => []TypeOK`, both stores | `TypeInv`: adds, per label, which place in the queue and among the runs a task knows |
| `OneAgent` | `Spec => []AgentHoldsSession`, both stores | `SessionInv`: one pump, one task that owns a run, and that run holds the session until its agent has ended |
| `InOrderOnce`, `EditsHonoured` | `Spec => []QueueRunsInOrderOnce`, `Spec => []EditsAreHonoured`, both stores | `QueueInv`: every run is of a row before all queued ones, and a claimed row is past every row that ran, has the text that was claimed, and is neither queued nor deleted |
| `NeverOvertakes` | `Spec => NoOvertaking`, both stores | `QueueInv`: a POST that found nothing queued has nothing queued ahead of it |
| `SessionStream_proofs!TypeCorrect` | `Spec => []TypeOK`, both stores | itself |
| `NeverSkips` | `Spec => []TabSkipsNothing`, both stores | `LogInv`: each seq is published (or persisted before the last restart) or with one writer; `SerialInv`: on SQLite one event at a time is between append and publication, and while no append failed the turn's own numbers stay below the seqs that are out; `StreamInv`: per tab, what the server has written and the tab has not seen is on the wire, what the replay is still to write is in the rows or the buffer, and every number between page and `maxSeqRef` was shown, passed during a POST or overtaken |

The hypotheses are what the code has. "On SQLite" is the synchronous driver:
`RefusalIsPermanent` is false on Postgres (`plan_reject_race`), and Postgres loses
updates that no document promises to keep. "Auto-edited plans" is
`AutoEdits \subseteq {TRUE}`: `routes/plans.ts` passes `autoEdit = true` always; in
the gated mode, where a gate may be resolved or overridden at any time and a plan's
status does not stop it, the four properties stated for whole plans are false on the
instance of `plan_gated`. "One process" is `OneProcess`, what the comment on the dedup
property says and what the model's single event loop stands for.

The proofs share a layout. A predicate per handler says what a label with its
locals may count on; a lemma per kind of step says what that step leaves of it; on
SQLite all others are at labels that count on nothing, because the handler that
moves has the loop. The invariants were model-checked before they were proved.
`WriteAll`, the replay's loop in `SessionStream`, is a recursive function; what it
writes is proved from the well-foundedness of the naturals, as the library's
induction rules cannot be instantiated.

Only model-checked: liveness (`EventuallySettles`, `VerificationSettles`,
`RuleFollowsMetric`, `TimerFollowsRule`, `SplitBrainHeals`, `LeadershipRecovers`,
`InvestigatingEnds`, `QueuedMessageSettles`, `EventReachesTab`; the prover has no
liveness under fairness), and `NoSilentStall` on Postgres (`plan_postgres`).

## 11. Mutants

For each checked property `PROJECT.json` names a wrong version of one definition,
marked `mutant` in the module and placed before the definition it stands in for: a
dropped guard, a forgotten state, a missing call. With it TLC finds the property
violated, which shows that the property depends on the code.

## 12. Where code and documentation disagree

With a run that ends in the violation:

1. `plan_reject_race`. `approve()` checks the status and writes later without
   checking again. On Postgres a reject that commits in between is overwritten and
   the plan runs, although a rejection is "Permanent" (`plan-executor-service.ts:247`).
2. `alert_disable_race`. A rule disabled while its metric query is out is moved out
   of `disabled` by the transition, although the fresh copy is read so that updates
   "aren't stomped" (`alert-evaluator-service.ts:495`).

Behaviours of the models that a comment denies, and the property that states the
exception or stops short of it:

3. Approving a gate after the plan was cancelled runs its step, although "the next
   pending step is not run" (`plan-executor-service.ts:268`). `StartsGranted` counts
   the gate's approval as the decision that pays for it.
4. A tolerated step fails, a later one halts the plan, the tolerated one is
   retried: the plan becomes `applied` with the halting step still failed (`:9`,
   `:10`). `AppliedMeansDoneUntilRetry` ends at the first retry.
5. `pendingSince` survives an edit, so a rule may fire without its condition having
   held for `forDurationSec` (`common/src/models/alert.ts:12`). `FiresAfterWindow`
   counts samples of either condition.
6. "CRITICAL ordering invariant: the persist-then-publish operations for a single
   session MUST execute in seq order" (`chat-service.ts:447`) holds within a run's
   `persistChain`; `publishSessionEvent` (`routes/chat.ts:64`) is outside it.
   `TabSkipsNothing` excepts what is overtaken on Postgres.
7. The dedup check is called "correct across api-gateway restarts and across
   replicas" (`auto-investigation-consumer.ts:9`); two replicas that handle two
   events at once both start an agent. `EventsAreDeduplicated` speaks of one process.
8. An event whose append fails is said to reach live subscribers as an "explicit
   `event_gap` placeholder at that seq" (`chat-service.ts:464`); the service publishes
   no such event. `ChainFails` drops the event; it has no seq, so no property speaks of it.
9. A tab ignores its subscription during a POST because "mirrored events from the
   request stream would double-render" (`useChat.ts:970`); events of another run are
   not mirrored there and are lost to the tab. `TabSkipsNothing` excepts `passed`.

## 13. Not modelled

Left of the plan: notifications, verification on Postgres, auto-investigation
with two replicas (section 2). The bus appears only as an event that arrives or is
lost. Not planned: the agent loop (driven by a language model's answers), provider
and cluster I/O, permission evaluation (pure, over stored grants), CRUD of
dashboards and folders, the web interface beyond the stream's subscription, and
the CLI. These are most of the repository's lines - presentation, tool schemas and
handlers for a language model, query builders, bundled knowledge, adapters - and
hold no protocol a model checker could say something about, so the map covers a
small share of the code and most of what is concurrent in it. Plan creation is
`PlanExecution`'s initial state: its three writes (plan, approval row, link) and a
crash between them are a listed hazard without a property.
