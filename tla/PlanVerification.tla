-------------------------- MODULE PlanVerification --------------------------
(***************************************************************************)
(* PlanVerificationService beside the executor: once a plan is applied,    *)
(* the linked alert rule must be evaluated again, before a deadline, for   *)
(* the verdict.  The executor, its callers, its crashes and its failing    *)
(* statements are PlanExecution's, on the synchronous store; this module   *)
(* adds the verification columns of the plan row, the rule as the service  *)
(* reads it, the sweep, and the recovery pass of a restart.                *)
(*                                                                         *)
(* Between the executor's write of `applied' and the verifier's write the  *)
(* handler keeps the event loop (nothing there waits), so only a crash or  *)
(* a failing statement comes between the two: `outcome' holds the handler  *)
(* that has yet to report its outcome.                                     *)
(*                                                                         *)
(* Timestamps are kept as what isFreshForPlan() and the deadline read off  *)
(* them: the ticks since the verification started, up to Wait, and whether *)
(* the rule was last evaluated before that start, since, or right now.     *)
(***************************************************************************)
EXTENDS PlanExecution

CONSTANT Wait   \* ticks from the start of a verification to its deadline

ASSUME WaitAssumption == Wait \in Nat \ {0} /\ Backend = "sqlite"

VARIABLES
  ver,        \* the plan row's verificationStatus and verificationStartedAt
  rule,       \* the linked rule: its state, and when it was last evaluated
  outcome,    \* the handler whose onExecutionOutcome() has not run, or None
  down,       \* the process has died and not come back
  stranded,   \* history: an applied run was never handed to the verifier
  evaluated   \* history: the rule was evaluated since the last run ended

verification == <<ver, rule, outcome, down, stranded, evaluated>>
allVars == <<vars, verification>>

VerStatus == {"not_started", "skipped", "waiting", "passed", "failed", "inconclusive"}
RuleState == {"unlinked", "missing", "disabled", "clear", "alerting"}
NotYet == Wait + 1   \* verificationStartedAt is null

VTypeOK ==
  /\ ver \in [status : VerStatus, since : 0..NotYet]
  /\ rule \in [state : RuleState, eval : {"old", "since", "now"}]
  /\ outcome \in Request \cup {None}
  /\ down \in BOOLEAN /\ stranded \in BOOLEAN /\ evaluated \in BOOLEAN

VInit ==
  /\ Init
  /\ ver = [status |-> "not_started", since |-> NotYet]
  /\ rule \in [state : {"unlinked", "clear", "alerting"}, eval : {"old"}]
  /\ outcome = None
  /\ down = FALSE /\ stranded = FALSE /\ evaluated = FALSE

\* The process is up and no handler has the loop.
Free == ~down /\ outcome = None /\ loop = None

-----------------------------------------------------------------------------
(* What the service decides, from the columns v and the rule r it reads.   *)

FreshAlways(v, r) == v.since # NotYet   \* mutant
Fresh(v, r) == v.since # NotYet /\ r.eval # "old"   \* isFreshForPlan()
Due(v) == v.since >= Wait
Unusable(r) == r.state \in {"missing", "disabled"}

\* beginVerification(): the columns it writes.  A missing or disabled rule
\* leaves the old start where it is.
Begun(v, r) ==
  CASE r.state = "unlinked" -> [status |-> "skipped", since |-> NotYet]
    [] Unusable(r) -> [v EXCEPT !.status = "inconclusive"]
    [] OTHER -> [status |-> "waiting", since |-> 0]

\* checkWaitingPlan(): the status it leaves.
VerdictUnknown(v, r) == IF Due(v) THEN "unknown" ELSE "waiting"   \* mutant
Verdict(v, r) ==
  CASE r.state = "unlinked" -> "skipped"
    [] Unusable(r) -> "inconclusive"
    [] r.state = "clear" /\ Fresh(v, r) -> "passed"
    [] r.state = "alerting" /\ Fresh(v, r) /\ Due(v) -> "failed"
    [] OTHER -> IF Due(v) THEN "inconclusive" ELSE "waiting"
Swept(v, r) == IF v.status = "waiting" THEN [v EXCEPT !.status = Verdict(v, r)] ELSE v

\* A new start makes an earlier evaluation old, unless it has the same stamp.
Restamped(v, r) ==
  [r EXCEPT !.eval = IF v.since = 0 /\ @ = "since" THEN "old" ELSE @]

-----------------------------------------------------------------------------
(* The executor's steps.                                                   *)

\* The plan is applied.  approve(), retry and an approved gate hand their
\* outcome to the verifier; the hook drops the outcome of a rejected one.
Apply(p) ==
  /\ MarkApplied(p)
  /\ LET reported == loc[p].op # "rejectStep" IN
       /\ outcome' = IF reported THEN p ELSE None
       /\ stranded' = (stranded \/ ~reported)
  /\ evaluated' = (rule.eval = "now")
  /\ UNCHANGED <<ver, rule, down>>

Executor ==
  /\ ~down /\ outcome = None
  /\ \/ /\ \/ \E p \in Request :
                Arrive(p) \/ (Work(p) /\ pc[p] # "markApplied") \/ StatementFails(p)
           \/ Expire
        /\ UNCHANGED verification
     \/ \E p \in Request : Apply(p)

\* onExecutionOutcome() of a completed run.
Report ==
  /\ ~down /\ outcome # None
  /\ ver' = Begun(ver, rule)
  /\ rule' = Restamped(ver', rule)
  /\ outcome' = None
  /\ UNCHANGED <<vars, down, stranded, evaluated>>

Fault ==
  /\ budget.faults > 0
  /\ budget' = [budget EXCEPT !.faults = @ - 1]
  /\ UNCHANGED <<plan, step, shape, approvals, history>>

\* Its statement fails: the route answers with an error, the process lives on.
ReportFails ==
  /\ ~down /\ outcome # None
  /\ Fault
  /\ outcome' = None
  /\ stranded' = TRUE
  /\ UNCHANGED <<pc, loc, loop, ver, rule, down, evaluated>>

-----------------------------------------------------------------------------
(* The service's timer, a crash, and the start that follows it.            *)

Sweep ==
  /\ Free
  /\ ver' = Swept(ver, rule)
  /\ UNCHANGED <<vars, rule, outcome, down, stranded, evaluated>>

\* The process dies with all its handlers, one about to report included.
Die ==
  /\ ~down
  /\ \/ Crash
     \/ /\ outcome # None
        /\ Fault
        /\ pc' = [p \in Request |-> "idle"]
        /\ loc' = [p \in Request |-> NoCall]
        /\ loop' = None
  /\ outcome' = None
  /\ down' = TRUE
  /\ UNCHANGED <<ver, rule, stranded, evaluated>>

\* The plans recoverInterrupted() looks for.
InterruptedNever == FALSE   \* mutant
Interrupted == plan.status = "applied" /\ ver.status = "not_started"

\* start(): recoverInterrupted() begins an interrupted verification, then
\* sweeps once.  If it throws, the error is logged and the timer starts.
Boot ==
  /\ down
  /\ down' = FALSE
  /\ LET begun == IF Interrupted THEN Begun(ver, rule) ELSE ver
         seen == IF Interrupted THEN Restamped(begun, rule) ELSE rule
     IN ver' = Swept(begun, seen) /\ rule' = seen
  /\ stranded' = (stranded /\ ~Interrupted)
  /\ UNCHANGED <<vars, outcome, evaluated>>

\* What killed the process may still be there (a database that is away), so
\* this takes no fault of its own.
BootFails ==
  /\ down
  /\ down' = FALSE
  /\ stranded' = (stranded \/ Interrupted)
  /\ UNCHANGED <<vars, ver, rule, outcome, evaluated>>

-----------------------------------------------------------------------------
(* The linked rule and the clock.  AlertEvaluation has the rule's own life. *)

\* A tick of the rule ends: lastEvaluatedAt and the state are written.  A tick
\* that was out when the rule was disabled may move it out of `disabled'.
Evaluate ==
  /\ Free
  /\ rule.state \in {"clear", "alerting", "disabled"}
  /\ \E state \in {"clear", "alerting"} \cup {rule.state} :
       rule' = [state |-> state, eval |-> "now"]
  /\ evaluated' = TRUE
  /\ UNCHANGED <<vars, ver, outcome, down, stranded>>

\* A user disables, enables or deletes the rule.  Enabling makes it normal.
ChangeRule ==
  /\ Free
  /\ rule.state \notin {"unlinked", "missing"}
  /\ \E state \in {"disabled", "missing"}
                  \cup {s \in {"clear"} : rule.state = "disabled"} :
       rule' = [rule EXCEPT !.state = state]
  /\ UNCHANGED <<vars, ver, outcome, down, stranded, evaluated>>

TimePasses ==
  /\ outcome = None /\ loop = None
  /\ ver' = [ver EXCEPT !.since = IF @ < Wait THEN @ + 1 ELSE @]
  /\ rule' = [rule EXCEPT !.eval = IF @ # "now" THEN @
                                   ELSE IF ver.since = NotYet THEN "old" ELSE "since"]
  /\ UNCHANGED <<vars, outcome, down, stranded, evaluated>>

VNext ==
  \/ Executor \/ Report \/ ReportFails
  \/ Sweep \/ Die \/ Boot \/ BootFails
  \/ Evaluate \/ ChangeRule \/ TimePasses

VSpec == VInit /\ [][VNext]_allVars

\* The runtime runs ready handlers and adapters time out (60 s), so an accepted
\* handler goes on; a dead process is restarted, the timer keeps firing and time
\* passes.  The evaluator need not ever come back.
VFairness ==
  /\ \A p \in Request : WF_allVars(Executor /\ Work(p))
  /\ WF_allVars(Report) /\ WF_allVars(Boot) /\ WF_allVars(Sweep)
  /\ WF_allVars(TimePasses)

VFairSpec == VSpec /\ VFairness

-----------------------------------------------------------------------------
(* Properties.                                                             *)

\* "Those plans hang forever. Resume them here" (recoverInterrupted): wherever
\* the process dies, an applied plan gets a verdict.  The two ways out are the
\* ones the code has: a later failure halts the plan again, or the run was never
\* handed to the verifier although the process lived on.
VerificationSettles ==
  plan.status = "applied" ~>
    \/ ver.status \notin {"not_started", "waiting"}
    \/ plan.status # "applied"
    \/ stranded

\* A plan shown as applied and verified has had its rule evaluated since its
\* last run ended, whatever reruns, sweeps and rule changes came in between
\* (isFreshForPlan).  A crash between a rerun's `applied' and its verification
\* leaves the verdict of the first run standing, so either nobody has retried
\* or no fault has happened.
PassedIsFresh ==
  \/ ver.status # "passed" \/ plan.status # "applied" \/ outcome # None
  \/ evaluated
  \/ Retried /\ budget.faults < MaxFaults
=============================================================================
