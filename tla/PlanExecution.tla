--------------------------- MODULE PlanExecution ---------------------------
(***************************************************************************)
(* One remediation plan of N steps, driven by PlanExecutorService: the     *)
(* HTTP routes (approve, reject, cancel, retry), the approval store whose  *)
(* onResolved hook resumes a paused plan, the expiry sweeper, and crashes. *)
(*                                                                         *)
(* Every handler is a request process.  One action of a request is one     *)
(* database statement or the call / return of the execution adapter, so    *)
(* requests interleave exactly where the code awaits.  With Backend =      *)
(* "sqlite" the driver is synchronous: a handler keeps the event loop from *)
(* one real I/O wait (the adapter) to the next, which `loop` records.      *)
(* With "postgres" every statement is a real await and a yield point.      *)
(*                                                                         *)
(* Abstracted: command text, output, errors, timestamps, identities and    *)
(* audit rows.  Step ordinals are 1..N here and 0..N-1 in the code.        *)
(***************************************************************************)
EXTENDS Integers, Sequences, FiniteSets

CONSTANTS
  Request,    \* handler executions that may be in flight at once
  None,       \* not a request: the event loop is free
  N,          \* number of steps of the plan
  Backend,    \* "sqlite" or "postgres"
  Ops,        \* the operations clients use in this instance
  AutoEdits,  \* values of approve()'s autoEdit argument
  MaxOps,     \* bound: client operations accepted in a behaviour
  MaxFaults   \* bound: crashes and failing statements in a behaviour

AllOps == {"approve", "reject", "cancel", "retry", "approveStep", "rejectStep",
           "override"}

ASSUME ConstantsAssumption ==
  /\ None \notin Request
  /\ N \in Nat \ {0}
  /\ Backend \in {"sqlite", "postgres"}
  /\ Ops \subseteq AllOps
  /\ AutoEdits \subseteq BOOLEAN
  /\ MaxOps \in Nat
  /\ MaxFaults \in Nat

VARIABLES
  plan,       \* the remediation_plan row: status and auto_edit
  step,       \* the remediation_plan_step rows: their status
  shape,      \* which steps are continueOnError, which have invalid params
  approvals,  \* approval rows: row 1 gates the plan, later rows gate a step
  pc,         \* where every handler is
  loc,        \* the local variables of every handler
  loop,       \* the handler that holds the event loop (sqlite), or None
  unresolved, \* steps with a command sent and not known to have ended
  starts,     \* starts[s]: commands of s ever sent to the adapter
  grants,     \* grants[s]: human decisions that allow one run of s each
  signedOff,  \* some approve() has written its decision
  budget      \* operations and faults left

vars == <<plan, step, shape, approvals, pc, loc, loop, unresolved, starts, grants,
          signedOff, budget>>
history == <<unresolved, starts, grants, signedOff>>

Step == 1..N
PlanStatus == {"pending_approval", "approved", "executing", "applied",
               "execution_failed", "cancelled", "rejected", "expired"}
StepStatus == {"pending", "executing", "done", "failed", "skipped"}
ApprovalStatus == {"pending", "approved", "rejected"}
PlanRow == [status : PlanStatus, autoEdit : BOOLEAN]
ApprovalRow == [step : 0..N, status : ApprovalStatus]
Shape == [coe : SUBSET Step, malformed : SUBSET Step]
Label == {"idle", "approveMark", "approveClose", "approveStart", "rejectMark",
          "cancelMark", "retryReset", "retryUnskip", "verdictWrite", "refuse",
          "next", "markApplied", "submit", "link", "linkWrite", "exec",
          "invalid", "dispatch", "await", "halt", "skip"}

\* A handler's locals: its operation, the step and the approval row it is
\* about, the steps a loop has still to write, approve()'s effective autoEdit
\* or whether retryStep() reopens the plan, and a status read earlier.
Local == [op : AllOps \cup {"none"}, at : 0..N, id : Nat, todo : SUBSET Step,
          flag : BOOLEAN, seen : StepStatus]
Call(op, s, id, todo, flag) ==
  [op |-> op, at |-> s, id |-> id, todo |-> todo, flag |-> flag,
   seen |-> "pending"]
NoCall == Call("none", 0, 0, {}, FALSE)

\* s is the first step, in ordinal order, of the set S.
IsLast(s, S) == s \in S /\ \A t \in S : s >= t   \* mutant of IsFirst
IsFirst(s, S) == s \in S /\ \A t \in S : s =< t

PendingOrFailed == {s \in Step : step[s] \in {"pending", "failed"}}   \* mutant
Pending == {s \in Step : step[s] = "pending"}
Later(s, status) == {t \in Step : t > s /\ step[t] = status}

TypeOK ==
  /\ plan \in PlanRow
  /\ step \in [Step -> StepStatus]
  /\ shape \in Shape
  /\ approvals \in Seq(ApprovalRow)
  /\ pc \in [Request -> Label]
  /\ loc \in [Request -> Local]
  /\ loop \in Request \cup {None}
  /\ unresolved \in SUBSET Step
  /\ starts \in [Step -> Nat]
  /\ grants \in [Step -> Nat]
  /\ signedOff \in BOOLEAN
  /\ budget \in [ops : Nat, faults : Nat]

\* A plan as the remediation_plan_create tool leaves it.
Init ==
  /\ plan = [status |-> "pending_approval", autoEdit |-> FALSE]
  /\ step = [s \in Step |-> "pending"]
  /\ shape \in Shape
  /\ approvals = <<[step |-> 0, status |-> "pending"]>>
  /\ pc = [p \in Request |-> "idle"]
  /\ loc = [p \in Request |-> NoCall]
  /\ loop = None
  /\ unresolved = {}
  /\ starts = [s \in Step |-> 0]
  /\ grants = [s \in Step |-> 0]
  /\ signedOff = FALSE
  /\ budget = [ops |-> MaxOps, faults |-> MaxFaults]

-----------------------------------------------------------------------------
(* The event loop and the handlers' control.                               *)

\* p may run: nobody else is between two waits (sqlite), or always (postgres).
Turn(p) == loop \in {None, p}

\* p goes on to a label; it gives up the loop when it waits or has returned.
Go(p, label) ==
  /\ pc' = [pc EXCEPT ![p] = label]
  /\ loop' = IF Backend = "sqlite" /\ label \notin {"idle", "await"}
             THEN p ELSE None

At(p, label) == pc[p] = label /\ Turn(p)
Return(p) == Go(p, "idle") /\ loc' = [loc EXCEPT ![p] = NoCall]

\* A client's operation reaches a free handler.
Accept(p, call, label) ==
  /\ At(p, "idle")
  /\ call.op \in Ops
  /\ budget.ops > 0
  /\ budget' = [budget EXCEPT !.ops = @ - 1]
  /\ loc' = [loc EXCEPT ![p] = call]
  /\ Go(p, label)

SetStatus(status) == plan' = [plan EXCEPT !.status = status]

\* updatePlan() reads the row and writes all of it back, so on postgres the
\* auto_edit it writes may be the old one, read before a concurrent approve.
SetStatusOver(status, old) ==
  \E auto \in {plan.autoEdit} \cup (IF Backend = "postgres" THEN {old} ELSE {}) :
    plan' = [status |-> status, autoEdit |-> auto]

SetStep(s, status) == step' = [step EXCEPT ![s] = status]
Bump(counter, S) ==
  [s \in Step |-> IF s \in S THEN counter[s] + 1 ELSE counter[s]]

-----------------------------------------------------------------------------
(* The conditions the service checks before it acts, and where a handler   *)
(* goes from there.  A definition marked `mutant' is a wrong version of    *)
(* the one below it, which the properties must be able to tell apart.      *)

\* approve() and reject() are for plans nobody has decided.
DecidableOrExpired == plan.status \in {"pending_approval", "expired"}   \* mutant
Decidable == plan.status = "pending_approval"

CancellableUnlessDone == plan.status \notin {"cancelled", "rejected"}   \* mutant
Cancellable == plan.status \in {"approved", "executing"}

RetryableUnfinished(s) == step[s] \in {"failed", "executing"}   \* mutant
RetryableAlways(s) == TRUE   \* mutant
Retryable(s) == step[s] = "failed"

\* runNext() does nothing for these plans.
StoppedByFailure == plan.status = "execution_failed"   \* mutant
Stopped == plan.status \in {"execution_failed", "cancelled"}

\* The next step runs at once, or asks for its approval first.
StartUngated == "exec"   \* mutant
StartNext == IF plan.autoEdit THEN "exec" ELSE "submit"

\* A failed step halts the plan unless it is continueOnError.
FailedGoesOn(s) == "next"   \* mutant
FailedForgotten(s) == IF s \in shape.coe THEN "idle" ELSE "halt"   \* mutant
AfterFailure(s) == IF s \in shape.coe THEN "next" ELSE "halt"

HaltStatusLegacy == "failed"   \* mutant
HaltStatus == "execution_failed"

-----------------------------------------------------------------------------
(* approve(): check, write approved, close the plan's approval row, write  *)
(* executing, run.                                                         *)

ApproveRead(p) ==
  /\ Decidable
  /\ \E auto \in AutoEdits :
       Accept(p, Call("approve", 0, 0, {}, auto \/ N = 1), "approveMark")
  /\ UNCHANGED <<plan, step, shape, approvals, history>>

ApproveMark(p) ==
  /\ At(p, "approveMark")
  /\ plan' = [status |-> "approved", autoEdit |-> loc[p].flag]
  /\ signedOff' = TRUE
  /\ grants' = IF loc[p].flag THEN Bump(grants, Step) ELSE grants
  /\ Go(p, "approveClose")
  /\ UNCHANGED <<step, shape, approvals, loc, unresolved, starts, budget>>

\* A failure to close the row is logged and ignored.
ApproveClose(p) ==
  /\ At(p, "approveClose")
  /\ \/ approvals' = [approvals EXCEPT ![1].status =
                        IF @ = "pending" THEN "approved" ELSE @]
     \/ budget.faults > 0 /\ approvals' = approvals
  /\ Go(p, "approveStart")
  /\ UNCHANGED <<plan, step, shape, loc, history, budget>>

ApproveStartOnly(p) ==   \* mutant: runNext() is not called
  /\ At(p, "approveStart")
  /\ SetStatusOver("executing", loc[p].flag)
  /\ Return(p)
  /\ UNCHANGED <<step, shape, approvals, history, budget>>
ApproveStart(p) ==
  /\ At(p, "approveStart")
  /\ SetStatusOver("executing", loc[p].flag)
  /\ Go(p, "next")
  /\ UNCHANGED <<step, shape, approvals, loc, history, budget>>

(* reject() and cancel(): check, then write.                               *)

RejectRead(p) ==
  /\ Decidable
  /\ Accept(p, Call("reject", 0, 0, {}, FALSE), "rejectMark")
  /\ UNCHANGED <<plan, step, shape, approvals, history>>

RejectMark(p) ==
  /\ At(p, "rejectMark")
  /\ SetStatusOver("rejected", FALSE)
  /\ Return(p)
  /\ UNCHANGED <<step, shape, approvals, history, budget>>

CancelRead(p) ==
  /\ Cancellable
  /\ Accept(p, Call("cancel", 0, 0, {}, FALSE), "cancelMark")
  /\ UNCHANGED <<plan, step, shape, approvals, history>>

CancelMark(p) ==
  /\ At(p, "cancelMark")
  /\ SetStatus("cancelled")
  /\ Return(p)
  /\ UNCHANGED <<step, shape, approvals, history, budget>>

(* retryStep(): check the step failed, reset it; if the plan had failed,   *)
(* make the skipped steps pending again one by one and reopen the plan;    *)
(* then run the step.                                                      *)

RetryRead(p) ==
  /\ \E s \in Step, reopen \in BOOLEAN :
       /\ Retryable(s)
       /\ reopen <=> plan.status = "execution_failed"
       /\ Accept(p, Call("retry", s, 0,
                         {t \in Later(s, "skipped") : reopen}, reopen),
                 "retryReset")
       /\ grants' = Bump(grants, {s})
  /\ UNCHANGED <<plan, step, shape, approvals, unresolved, starts, signedOff>>

RetryReset(p) ==
  /\ At(p, "retryReset")
  /\ SetStep(loc[p].at, "pending")
  /\ Go(p, IF loc[p].flag THEN "retryUnskip" ELSE "exec")
  /\ UNCHANGED <<plan, shape, approvals, loc, history, budget>>

RetryUnskip(p) ==
  /\ At(p, "retryUnskip")
  /\ \E t \in Step :
       /\ IsFirst(t, loc[p].todo)
       /\ SetStep(t, "pending")
       /\ loc' = [loc EXCEPT ![p].todo = @ \ {t}]
  /\ Go(p, "retryUnskip")
  /\ UNCHANGED <<plan, shape, approvals, history, budget>>

RetryReopen(p) ==
  /\ At(p, "retryUnskip")
  /\ loc[p].todo = {}
  /\ SetStatus("executing")
  /\ Go(p, "exec")
  /\ UNCHANGED <<step, shape, approvals, loc, history, budget>>

-----------------------------------------------------------------------------
(* The approval store and the hook that resumes the executor.              *)

\* approve() and reject() of the store first check that the row is pending;
\* override() checks nothing.
VerdictRead(p) ==
  /\ \E id \in 1..Len(approvals), op \in {"approveStep", "rejectStep", "override"} :
       /\ op # "override" => approvals[id].status = "pending"
       /\ Accept(p, Call(op, approvals[id].step, id, {}, FALSE), "verdictWrite")
  /\ UNCHANGED <<plan, step, shape, approvals, history>>

\* resolve() writes the row; the wrapper notifies; the hook skips rows that
\* gate no step and otherwise runs or refuses the step the row names.
VerdictWrite(p) ==
  /\ At(p, "verdictWrite")
  /\ LET refused == loc[p].op = "rejectStep" IN
       /\ approvals' = [approvals EXCEPT ![loc[p].id].status =
                          IF refused THEN "rejected" ELSE "approved"]
       /\ grants' = IF refused THEN grants ELSE Bump(grants, {loc[p].at})
       /\ \/ loc[p].at = 0 /\ Return(p)
          \/ /\ loc[p].at # 0
             /\ Go(p, IF refused THEN "refuse" ELSE "exec")
             /\ UNCHANGED loc
  /\ UNCHANGED <<plan, step, shape, unresolved, starts, signedOff, budget>>

StepFails(p) ==
  /\ SetStep(loc[p].at, "failed")
  /\ Go(p, AfterFailure(loc[p].at))

Refuse(p) ==
  /\ At(p, "refuse")
  /\ StepFails(p)
  /\ UNCHANGED <<plan, shape, approvals, loc, history, budget>>

-----------------------------------------------------------------------------
(* runNext(): stop, finish, run the first pending step, or ask for it.     *)

RunNextStops(p) ==
  /\ At(p, "next")
  /\ Stopped
  /\ Return(p)
  /\ UNCHANGED <<plan, step, shape, approvals, history, budget>>

RunNextContinues(p) ==
  /\ At(p, "next")
  /\ ~Stopped
  /\ \/ Pending = {} /\ Go(p, "markApplied") /\ UNCHANGED loc
     \/ \E s \in Step :
          /\ IsFirst(s, Pending)
          /\ loc' = [loc EXCEPT ![p].at = s]
          /\ Go(p, StartNext)
  /\ UNCHANGED <<plan, step, shape, approvals, history, budget>>

MarkApplied(p) ==
  /\ At(p, "markApplied")
  /\ SetStatus("applied")
  /\ Return(p)
  /\ UNCHANGED <<step, shape, approvals, history, budget>>

Submit(p) ==
  /\ At(p, "submit")
  /\ approvals' = Append(approvals, [step |-> loc[p].at, status |-> "pending"])
  /\ Go(p, "link")
  /\ UNCHANGED <<plan, step, shape, loc, history, budget>>

\* updateStep({approvalRequestId}) reads the row and writes all of it back,
\* the status it read included.
Link(p) ==
  /\ At(p, "link")
  /\ loc' = [loc EXCEPT ![p].seen = step[loc[p].at]]
  /\ Go(p, "linkWrite")
  /\ UNCHANGED <<plan, step, shape, approvals, history, budget>>

LinkWrite(p) ==
  /\ At(p, "linkWrite")
  /\ SetStep(loc[p].at, loc[p].seen)
  /\ Return(p)
  /\ UNCHANGED <<plan, shape, approvals, history, budget>>

-----------------------------------------------------------------------------
(* executeStep() and haltPlan().                                           *)

Execute(p) ==
  /\ At(p, "exec")
  /\ SetStep(loc[p].at, "executing")
  /\ Go(p, IF loc[p].at \in shape.malformed THEN "invalid" ELSE "dispatch")
  /\ UNCHANGED <<plan, shape, approvals, loc, history, budget>>

\* Invalid params, or adapterFor() throws: no command is sent.
NotSent(p) ==
  /\ At(p, "invalid") \/ At(p, "dispatch")
  /\ StepFails(p)
  /\ UNCHANGED <<plan, shape, approvals, loc, history, budget>>

Dispatch(p) ==
  /\ At(p, "dispatch")
  /\ unresolved' = unresolved \cup {loc[p].at}
  /\ starts' = Bump(starts, {loc[p].at})
  /\ Go(p, "await")
  /\ UNCHANGED <<plan, step, shape, approvals, loc, grants, signedOff, budget>>

\* The adapter returns success, or {success: false}, or throws, and its step is
\* updated: nothing reads the row between the two that could tell them apart.
CommandEnds(p) ==
  /\ At(p, "await")
  /\ unresolved' = unresolved \ {loc[p].at}
  /\ \/ SetStep(loc[p].at, "done") /\ Go(p, "next")
     \/ StepFails(p)
  /\ UNCHANGED <<plan, shape, approvals, loc, starts, grants, signedOff, budget>>

HaltRead(p) ==
  /\ At(p, "halt")
  /\ loc' = [loc EXCEPT ![p].todo = Later(loc[p].at, "pending")]
  /\ Go(p, "skip")
  /\ UNCHANGED <<plan, step, shape, approvals, history, budget>>

HaltSkip(p) ==
  /\ At(p, "skip")
  /\ \E t \in Step :
       /\ IsFirst(t, loc[p].todo)
       /\ SetStep(t, "skipped")
       /\ loc' = [loc EXCEPT ![p].todo = @ \ {t}]
  /\ Go(p, "skip")
  /\ UNCHANGED <<plan, shape, approvals, history, budget>>

\* onStepRejected() returns here; every other caller goes on to runNext().
HaltMark(p) ==
  /\ At(p, "skip")
  /\ loc[p].todo = {}
  /\ SetStatus(HaltStatus)
  /\ \/ loc[p].op = "rejectStep" /\ Return(p)
     \/ loc[p].op # "rejectStep" /\ Go(p, "next") /\ UNCHANGED loc
  /\ UNCHANGED <<step, shape, approvals, history, budget>>

-----------------------------------------------------------------------------
(* The expiry sweeper (one conditional UPDATE), failing statements, crash. *)

Expire ==
  /\ loop = None
  /\ plan.status = "pending_approval"
  /\ SetStatus("expired")
  /\ UNCHANGED <<step, shape, approvals, pc, loc, loop, history, budget>>

\* A statement throws and the error ends the handler, the one that stores how a
\* command ended included: its step stays "executing".  (Closing the plan's approval
\* row and talking to the adapter are in try blocks of their own.)
StatementFails(p) ==
  /\ pc[p] \notin {"idle", "approveClose", "dispatch"}
  /\ Turn(p)
  /\ budget.faults > 0
  /\ budget' = [budget EXCEPT !.faults = @ - 1]
  /\ Return(p)
  /\ UNCHANGED <<plan, step, shape, approvals, history>>

\* The process dies with its handlers.  Postgres lets several replicas serve
\* the plan, so only the handlers of the dead one are lost.
Crash ==
  /\ budget.faults > 0
  /\ budget' = [budget EXCEPT !.faults = @ - 1]
  /\ \E S \in SUBSET Request :
       /\ Backend = "sqlite" => S = Request
       /\ \E p \in S : pc[p] # "idle"
       /\ pc' = [p \in Request |-> IF p \in S THEN "idle" ELSE pc[p]]
       /\ loc' = [p \in Request |-> IF p \in S THEN NoCall ELSE loc[p]]
  /\ loop' = None
  /\ UNCHANGED <<plan, step, shape, approvals, history>>

-----------------------------------------------------------------------------
\* What a handler does once it has been accepted, faults aside.
Work(p) ==
  \/ ApproveMark(p) \/ ApproveClose(p) \/ ApproveStart(p)
  \/ RejectMark(p) \/ CancelMark(p)
  \/ RetryReset(p) \/ RetryUnskip(p) \/ RetryReopen(p)
  \/ VerdictWrite(p) \/ Refuse(p)
  \/ RunNextStops(p) \/ RunNextContinues(p) \/ MarkApplied(p)
  \/ Submit(p) \/ Link(p) \/ LinkWrite(p)
  \/ Execute(p) \/ NotSent(p) \/ Dispatch(p) \/ CommandEnds(p)
  \/ HaltRead(p) \/ HaltSkip(p) \/ HaltMark(p)

Arrive(p) ==
  \/ ApproveRead(p) \/ RejectRead(p) \/ CancelRead(p) \/ RetryRead(p)
  \/ VerdictRead(p)

Next ==
  \/ \E p \in Request : Arrive(p) \/ Work(p) \/ StatementFails(p)
  \/ Expire
  \/ Crash

Spec == Init /\ [][Next]_vars

-----------------------------------------------------------------------------
(* Properties.                                                             *)

\* This step hands the command of p's step to the adapter.
SendsCommand(p) == pc[p] = "dispatch" /\ pc'[p] = "await"

\* No step's command is sent, and no step is executing or done, before some
\* approve() has written a person's decision (approve, plan-executor-service).
SignedOffBeforeRun ==
  (\E s \in Step : starts[s] > 0 \/ step[s] \in {"executing", "done"}) => signedOff

\* Every command sent to the cluster is paid for by a decision of its own: the
\* plan's sign-off under autoEdit, one approval or override of the step's gate,
\* or one retry.  No race, crash or re-entry of runNext runs a step for free.
StartsGranted == \A s \in Step : starts[s] <= grants[s]

\* While a command of a step is unresolved - in flight, or lost in a crash, so
\* that nobody knows what it did - that step's command is not sent again.
UnresolvedNeverRepeated ==
  [][\A p \in Request : SendsCommand(p) => loc[p].at \notin unresolved]_vars

\* "Permanent - once rejected, plan does not resume" (reject), and the same of
\* a plan that expired: its status never changes and no command of it runs.
Refused == {"rejected", "expired"}
RefusalIsPermanent ==
  [][plan.status \in Refused => plan'.status = plan.status /\ starts' = starts]_vars

\* The first half of it, as the comment on reject() words it.
RejectionIsPermanent ==
  [][plan.status = "rejected" => plan'.status = plan.status /\ starts' = starts]_vars

\* A cancel or a halt that lands while a step's command runs stops runNext():
\* once the plan is cancelled, failed, rejected or expired, only a retry sends
\* another command.
StoppedPlanStartsNothing ==
  [][\A p \in Request :
       SendsCommand(p) /\ loc[p].op # "retry"
         => plan.status \in {"executing", "applied"}]_vars

Retried == \E s \in Step : grants[s] > 1
Settled(s) == step[s] = "done" \/ (step[s] = "failed" /\ s \in shape.coe)

\* "run every step in order after plan approval": until somebody retries, a
\* command is sent only when every earlier step is done or failed tolerably.
InOrderUntilRetry ==
  [][\A p \in Request :
       SendsCommand(p) /\ ~Retried
         => \A t \in Step : t < loc[p].at => Settled(t)]_vars

\* "executing --all steps done--> applied": as long as nobody retries, a plan
\* shown as applied has no step pending, running, skipped or failed for good.
AppliedMeansDoneUntilRetry ==
  plan.status = "applied" /\ ~Retried => \A s \in Step : Settled(s)

\* With no fault, a plan that is approved or executing while no handler works
\* on it has a pending approval somebody can resolve to move it on.
NoSilentStall ==
  \/ budget.faults < MaxFaults
  \/ \E p \in Request : pc[p] # "idle"
  \/ plan.status \notin {"approved", "executing"}
  \/ \E id \in 2..Len(approvals) :
       approvals[id].status = "pending" /\ step[approvals[id].step] = "pending"

\* The executor implements the plan's life cycle (the state machine in the
\* header of plan-executor-service.ts).
Lifecycle == INSTANCE PlanLifecycle
               WITH status <- plan.status, ran <- {s \in Step : starts[s] > 0}
ImplementsLifecycle == Lifecycle!LifecycleSpec

\* Without a fault a signed-off plan ends as applied, failed or cancelled,
\* whatever its commands do and whoever cancels it or retries a step meanwhile
\* (runNext).  A crash or a failing statement may leave it executing for ever.
EventuallySettles ==
  plan.status \in {"approved", "executing"} ~>
    \/ plan.status \in {"applied", "execution_failed", "cancelled"}
    \/ budget.faults < MaxFaults
=============================================================================
