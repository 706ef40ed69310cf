----------------------- MODULE PlanVerification_proofs -----------------------
(***************************************************************************)
(* Proofs about PlanVerification: its columns are well typed, and a plan   *)
(* shown as verified has had its rule evaluated since its last run ended.  *)
(* The executor beside the verifier keeps the invariants PlanDecisions_    *)
(* proofs established for it alone.                                        *)
(***************************************************************************)
EXTENDS PlanVerification, PlanDecisions_proofs

-----------------------------------------------------------------------------
(* Typing.                                                                 *)

\* The columns beginVerification() and checkWaitingPlan() write.
LEMMA BegunType ==
  ASSUME NEW v \in [status : VerStatus, since : 0..NotYet], NEW r
  PROVE  Begun(v, r) \in [status : VerStatus, since : 0..NotYet]
BY WaitAssumption DEF Begun, Unusable, NotYet, VerStatus

LEMMA SweptType ==
  ASSUME NEW v \in [status : VerStatus, since : 0..NotYet], NEW r
  PROVE  /\ Swept(v, r) \in [status : VerStatus, since : 0..NotYet]
         /\ Swept(v, r).since = v.since
         /\ v.status # "waiting" => Swept(v, r) = v
         /\ Swept(v, r).status = "waiting" => v.status = "waiting"
         /\ v.status = "waiting" /\ Swept(v, r).status = "passed" => Fresh(v, r)
<1>1. Verdict(v, r) \in VerStatus /\ (Verdict(v, r) = "passed" => Fresh(v, r))
  BY DEF Verdict, VerStatus
<1> QED
  BY <1>1 DEF Swept

LEMMA RestampedType ==
  ASSUME NEW v, NEW r \in [state : RuleState, eval : {"old", "since", "now"}]
  PROVE  /\ Restamped(v, r) \in [state : RuleState, eval : {"old", "since", "now"}]
         /\ Restamped(v, r).eval = "now" <=> r.eval = "now"
         /\ v.since = 0 /\ Restamped(v, r).eval # "old" => r.eval = "now"
BY DEF Restamped

\* Every reachable value of the verification columns, the rule and the process is
\* one the code can write, whatever the executor does.
LEMMA VTyped == VTypeOK /\ [VNext]_allVars => VTypeOK'
<1> SUFFICES ASSUME VTypeOK, [VNext]_allVars PROVE VTypeOK'
  OBVIOUS
<1> USE DEF VTypeOK
<1>1. CASE UNCHANGED allVars
  BY <1>1, Zenon DEF allVars, verification
<1>2. CASE Executor
  <2>1. CASE UNCHANGED verification
    BY <2>1, Zenon DEF verification
  <2>2. ASSUME NEW p \in Request, Apply(p) PROVE VTypeOK'
    <3>1. ver' = ver /\ rule' = rule /\ down' = down
      BY <2>2 DEF Apply
    <3>2. outcome' \in Request \cup {None}
      BY <2>2 DEF Apply
    <3>3. stranded' \in BOOLEAN /\ evaluated' \in BOOLEAN
      BY <2>2, Zenon DEF Apply
    <3> QED
      BY <3>1, <3>2, <3>3, Zenon
  <2> QED
    BY <1>2, <2>1, <2>2 DEF Executor
<1>3. CASE Report
  <2>1. ver' \in [status : VerStatus, since : 0..NotYet]
    BY <1>3, BegunType DEF Report
  <2>2. rule' \in [state : RuleState, eval : {"old", "since", "now"}]
    BY <1>3, RestampedType DEF Report
  <2> QED
    BY <1>3, <2>1, <2>2, Zenon DEF Report
<1>4. CASE ReportFails
  BY <1>4, Zenon DEF ReportFails
<1>5. CASE Sweep
  <2>1. ver' \in [status : VerStatus, since : 0..NotYet]
    BY <1>5, SweptType DEF Sweep
  <2> QED
    BY <1>5, <2>1, Zenon DEF Sweep
<1>6. CASE Die
  BY <1>6, Zenon DEF Die
<1>7. CASE Boot
  <2> DEFINE begun == IF Interrupted THEN Begun(ver, rule) ELSE ver
             seen == IF Interrupted THEN Restamped(begun, rule) ELSE rule
  <2>1. begun \in [status : VerStatus, since : 0..NotYet]
    BY BegunType
  <2>2. seen \in [state : RuleState, eval : {"old", "since", "now"}]
    BY RestampedType
  <2>3. ver' = Swept(begun, seen) /\ rule' = seen
    BY <1>7 DEF Boot
  <2> HIDE DEF begun, seen
  <2>4. ver' \in [status : VerStatus, since : 0..NotYet]
    BY <2>1, <2>3, SweptType
  <2> QED
    BY <1>7, <2>2, <2>3, <2>4, Zenon DEF Boot
<1>8. CASE BootFails
  BY <1>8, Zenon DEF BootFails
<1>9. CASE Evaluate
  <2>1. rule' \in [state : RuleState, eval : {"old", "since", "now"}]
    BY <1>9 DEF Evaluate, RuleState
  <2> QED
    BY <1>9, <2>1, Zenon DEF Evaluate
<1>10. CASE ChangeRule
  <2>1. rule' \in [state : RuleState, eval : {"old", "since", "now"}]
    BY <1>10 DEF ChangeRule, RuleState
  <2> QED
    BY <1>10, <2>1, Zenon DEF ChangeRule
<1>11. CASE TimePasses
  <2>1. ver' \in [status : VerStatus, since : 0..NotYet]
    BY <1>11, WaitAssumption DEF TimePasses, NotYet
  <2>2. rule' \in [state : RuleState, eval : {"old", "since", "now"}]
    BY <1>11 DEF TimePasses
  <2> QED
    BY <1>11, <2>1, <2>2, Zenon DEF TimePasses
<1> QED
  BY <1>1, <1>2, <1>3, <1>4, <1>5, <1>6, <1>7, <1>8, <1>9, <1>10, <1>11 DEF VNext

LEMMA VInitTyped == VInit => VTypeOK
<1> SUFFICES ASSUME VInit PROVE VTypeOK
  OBVIOUS
<1>1. ver \in [status : VerStatus, since : 0..NotYet]
  BY WaitAssumption DEF VInit, VerStatus, NotYet
<1>2. rule \in [state : RuleState, eval : {"old", "since", "now"}]
  BY DEF VInit, RuleState
<1> QED
  BY <1>1, <1>2, Zenon DEF VInit, VTypeOK

\* The service writes only statuses the plan row knows and a start that is null or
\* at most a deadline ago, wherever it is interrupted.
THEOREM VTypeCorrect == VSpec => []VTypeOK
BY VInitTyped, VTyped, PTL DEF VSpec

-----------------------------------------------------------------------------
(* The executor beside the verifier.                                       *)

\* A step of VNext is an executor step, leaves the executor alone, or is a fault of
\* the handler that is about to report: its statement fails, or the process dies.
LateFault ==
  /\ Fault
  /\ \/ UNCHANGED <<pc, loc, loop>>
     \/ /\ pc' = [p \in Request |-> "idle"]
        /\ loc' = [p \in Request |-> NoCall]
        /\ loop' = None

LEMMA ExecutorSteps == [VNext]_allVars => [Next]_vars \/ LateFault
<1>1. ASSUME Executor PROVE Next
  BY <1>1 DEF Executor, Apply, Next, Work
<1>2. ASSUME Die PROVE Next \/ LateFault
  BY <1>2 DEF Die, Next, LateFault
<1>3. ASSUME ReportFails PROVE LateFault
  BY <1>3 DEF ReportFails, LateFault
<1>4. ASSUME Report \/ Sweep \/ Boot \/ BootFails \/ Evaluate \/ ChangeRule \/ TimePasses
      PROVE  UNCHANGED vars
  BY <1>4 DEF Report, Sweep, Boot, BootFails, Evaluate, ChangeRule, TimePasses
<1> QED
  BY <1>1, <1>2, <1>3, <1>4 DEF VNext, allVars

\* Such a fault leaves the executor in a state it could be in.
LEMMA LateFaultKeeps ==
  ASSUME SignOffAlways, OrderInv, LateFault
  PROVE  (SignOffAlways /\ OrderInv)'
<1>1. UNCHANGED <<plan, step, shape, approvals, unresolved, starts, grants, signedOff>>
  BY DEF LateFault, Fault, history
<1>2. \A p \in Request : \/ pc'[p] = pc[p] /\ loc'[p] = loc[p]
                         \/ pc'[p] = "idle"
  BY DEF LateFault
<1>3. TypeInv'
  <2>1. RowsOK'
    BY <1>1, RowsKept DEF SignOffAlways, TypeInv
  <2>2. budget' \in [ops : Nat, faults : Nat]
    BY DEF LateFault, Fault, SignOffAlways, TypeInv, HistoryOK
  <2>3. HistoryOK'
    BY <1>1, <2>2, Zenon DEF SignOffAlways, TypeInv, HistoryOK
  <2>4. ControlOK' /\ LocalsOK'
    <3>1. CASE UNCHANGED <<pc, loc, loop>>
      BY <3>1 DEF SignOffAlways, TypeInv, ControlOK, LocalsOK
    <3>2. CASE /\ pc' = [p \in Request |-> "idle"]
               /\ loc' = [p \in Request |-> NoCall]
               /\ loop' = None
      BY <3>2, NoCallType DEF ControlOK, LocalsOK, Label, StepLabel
    <3> QED
      BY <3>1, <3>2 DEF LateFault
  <2> QED
    BY <2>1, <2>3, <2>4 DEF TypeInv
<1>4. LoopInv'
  <2>1. Exclusive'
    BY DEF LateFault, SignOffAlways, LoopInv, Exclusive
  <2>2. Guarded'
    BY <1>1, <1>2 DEF SignOffAlways, LoopInv, Guarded, Fits, Working
  <2> QED
    BY <1>1, <2>1, <2>2 DEF SignOffAlways, LoopInv, Undecided
<1>5. WholeInv'
  BY <1>1, <1>2, UnboundIsWhole DEF Unbound, SignOffAlways, WholeInv, UnresolvedExecuting,
     NoStepGates, SignedOffWhole
<1>6. OrderInv'
  <2>1. CASE Retried
    BY <1>1, <2>1 DEF OrderInv, Retried
  <2>2. CASE Orderly
    BY <1>1, <1>2, <2>2 DEF OrderInv, Orderly, OneRunner, AppliedIsOver, InOrder, Runner
  <2> QED
    BY <2>1, <2>2 DEF OrderInv
<1> QED
  BY <1>3, <1>4, <1>5, <1>6 DEF SignOffAlways

LEMMA ExecutorKept ==
  ASSUME AutoEdits \subseteq {TRUE}, SignOffAlways, OrderInv, [VNext]_allVars
  PROVE  (SignOffAlways /\ OrderInv)'
BY WaitAssumption, ExecutorSteps, LateFaultKeeps, SignOffAlwaysInductive, OrderInductive

\* A retry is never forgotten and a fault never taken back.
LEMMA FaultsStay ==
  ASSUME SignOffAlways, [VNext]_allVars
  PROVE  /\ Retried => Retried'
         /\ budget.faults \in Nat /\ budget'.faults \in Nat
         /\ budget'.faults <= budget.faults
<1>1. grants' = grants => (Retried => Retried')
  BY DEF Retried
<1>2. [Next]_vars => (Retried => Retried')
  BY GrantsGrow DEF Retried, SignOffAlways
<1>3. budget \in [ops : Nat, faults : Nat]
  BY DEF SignOffAlways, TypeInv, HistoryOK
<1>4. \/ budget' = budget
      \/ budget.ops > 0 /\ budget' = [budget EXCEPT !.ops = @ - 1]
      \/ budget.faults > 0 /\ budget' = [budget EXCEPT !.faults = @ - 1]
  <2> SUFFICES ASSUME Next
               PROVE  \/ budget' = budget
                      \/ budget.ops > 0 /\ budget' = [budget EXCEPT !.ops = @ - 1]
                      \/ budget.faults > 0 /\ budget' = [budget EXCEPT !.faults = @ - 1]
    BY ExecutorSteps DEF LateFault, Fault, vars
  <2>1. ASSUME NEW p \in Request, Arrive(p)
        PROVE  budget.ops > 0 /\ budget' = [budget EXCEPT !.ops = @ - 1]
    BY <2>1, Zenon DEF Arrive, ApproveRead, RejectRead, CancelRead, RetryRead, VerdictRead, Accept
  <2>2. ASSUME NEW p \in Request, Work(p) PROVE budget' = budget
    <3>1. CASE \/ ApproveMark(p) \/ ApproveClose(p) \/ ApproveStart(p) \/ RejectMark(p)
               \/ CancelMark(p) \/ RetryReset(p) \/ RetryUnskip(p) \/ RetryReopen(p)
               \/ VerdictWrite(p) \/ Refuse(p) \/ RunNextStops(p) \/ RunNextContinues(p)
      BY <3>1, Zenon DEF ApproveMark, ApproveClose, ApproveStart, RejectMark, CancelMark,
         RetryReset, RetryUnskip, RetryReopen, VerdictWrite, Refuse, RunNextStops,
         RunNextContinues
    <3>2. CASE \/ MarkApplied(p) \/ Submit(p) \/ Link(p) \/ LinkWrite(p) \/ Execute(p)
               \/ NotSent(p) \/ Dispatch(p) \/ CommandEnds(p) \/ HaltRead(p) \/ HaltSkip(p)
               \/ HaltMark(p)
      BY <3>2, Zenon DEF MarkApplied, Submit, Link, LinkWrite, Execute, NotSent, Dispatch,
         CommandEnds, HaltRead, HaltSkip, HaltMark
    <3> QED
      BY <2>2, <3>1, <3>2 DEF Work
  <2>3. ASSUME Expire PROVE budget' = budget
    BY <2>3 DEF Expire
  <2>4. ASSUME Crash \/ \E p \in Request : StatementFails(p)
        PROVE  budget.faults > 0 /\ budget' = [budget EXCEPT !.faults = @ - 1]
    BY <2>4 DEF Crash, StatementFails
  <2> QED
    BY <2>1, <2>2, <2>3, <2>4 DEF Next
<1>5. budget.faults \in Nat /\ budget'.faults \in Nat /\ budget'.faults <= budget.faults
  BY <1>3, <1>4
<1> QED
  BY <1>1, <1>2, <1>5, ExecutorSteps DEF LateFault, Fault, history

-----------------------------------------------------------------------------
(* Whose run ends.  Under the sign-off of whole plans no step has a gate,  *)
(* so the verdict a handler brings never resumes the plan: the run that    *)
(* ends is one whose outcome the verifier is told of.                      *)

NoRefusal == \A p \in Request : loc[p].op = "rejectStep" => pc[p] \in {"idle", "verdictWrite"}

\* A handler moves with its operation, or with a new one.
LEMMA RefusalMove ==
  ASSUME TypeInv, NoRefusal, NEW p \in Request, NEW l, Go(p, l),
         NEW c, loc' = [loc EXCEPT ![p] = c],
         c.op = "rejectStep" => l \in {"idle", "verdictWrite"}
  PROVE  NoRefusal'
<1>1. pc'[p] = l /\ \A q \in Request \ {p} : pc'[q] = pc[q]
  BY Moved
<1>2. loc'[p] = c /\ \A q \in Request \ {p} : loc'[q] = loc[q]
  BY Relocated
<1> QED
  BY <1>1, <1>2 DEF NoRefusal

LEMMA RefusalWorks ==
  ASSUME SignOffAlways, NoRefusal, NEW p \in Request, Work(p)
  PROVE  NoRefusal'
<1> USE DEF SignOffAlways
<1>0. NoCall.op # "rejectStep" /\ loc \in [Request -> Local]
  BY DEF NoCall, Call, TypeInv, LocalsOK
<1>1. ASSUME Return(p) PROVE NoRefusal'
  BY <1>0, <1>1, RefusalMove DEF Return
<1>2. ASSUME NEW l, Go(p, l), loc' = loc, pc[p] \notin {"idle", "verdictWrite"} PROVE NoRefusal'
  <2>1. loc' = [loc EXCEPT ![p] = loc[p]]
    BY <1>0, <1>2
  <2> QED
    BY <1>2, <2>1, RefusalMove DEF NoRefusal
<1>3. ASSUME NEW l, Go(p, l), pc[p] \notin {"idle", "verdictWrite"},
             NEW v, \/ loc' = [loc EXCEPT ![p].todo = v]
                    \/ loc' = [loc EXCEPT ![p].at = v]
                    \/ loc' = [loc EXCEPT ![p].seen = v]
      PROVE  NoRefusal'
  <2>0. ASSUME NEW q \in Request
        PROVE  loc[q] = [op |-> loc[q].op, at |-> loc[q].at, id |-> loc[q].id,
                         todo |-> loc[q].todo, flag |-> loc[q].flag, seen |-> loc[q].seen]
    BY <1>0, Zenon DEF Local
  <2>1. \A q \in Request : loc'[q].op = loc[q].op
    <3>1. CASE loc' = [loc EXCEPT ![p].todo = v]
      BY <1>0, <2>0, <3>1
    <3>2. CASE loc' = [loc EXCEPT ![p].at = v]
      BY <1>0, <2>0, <3>2
    <3>3. CASE loc' = [loc EXCEPT ![p].seen = v]
      BY <1>0, <2>0, <3>3
    <3> QED
      BY <1>3, <3>1, <3>2, <3>3
  <2> QED
    BY <1>3, <2>1, Moved DEF NoRefusal
<1>4. CASE \/ ApproveMark(p) \/ ApproveClose(p) \/ ApproveStart(p) \/ RejectMark(p)
           \/ CancelMark(p) \/ RetryReset(p) \/ RetryReopen(p)
  BY <1>1, <1>2, <1>4 DEF ApproveMark, ApproveClose, ApproveStart, RejectMark, CancelMark,
     RetryReset, RetryReopen, At
<1>5. CASE RetryUnskip(p)
  BY <1>3, <1>5 DEF RetryUnskip, At
<1>6. CASE VerdictWrite(p)
  <2>1. loc[p].at = 0
    BY <1>6 DEF VerdictWrite, At, WholeInv, Whole
  <2> QED
    BY <1>1, <1>6, <2>1 DEF VerdictWrite
<1>7. CASE Refuse(p) \/ NotSent(p) \/ Dispatch(p) \/ CommandEnds(p) \/ Execute(p)
  BY <1>2, <1>7 DEF Refuse, NotSent, Dispatch, CommandEnds, Execute, StepFails, At
<1>8. CASE RunNextStops(p) \/ MarkApplied(p) \/ LinkWrite(p)
  BY <1>1, <1>8 DEF RunNextStops, MarkApplied, LinkWrite
<1>9. CASE RunNextContinues(p)
  BY <1>2, <1>3, <1>9 DEF RunNextContinues, At
<1>10. CASE Submit(p) \/ HaltMark(p)
  BY <1>1, <1>2, <1>10 DEF Submit, HaltMark, At
<1>11. CASE Link(p)
  BY <1>3, <1>11 DEF Link, At
<1>12. CASE HaltRead(p)
  BY <1>3, <1>12 DEF HaltRead, At
<1>13. CASE HaltSkip(p)
  BY <1>3, <1>13 DEF HaltSkip, At
<1> QED
  BY <1>4, <1>5, <1>6, <1>7, <1>8, <1>9, <1>10, <1>11, <1>12, <1>13 DEF Work

LEMMA RefusalInductive ==
  ASSUME SignOffAlways, NoRefusal, [VNext]_allVars
  PROVE  NoRefusal'
<1>1. CASE UNCHANGED vars \/ LateFault \/ Crash
  BY <1>1, WaitAssumption DEF vars, LateFault, Crash, NoRefusal
<1>2. ASSUME NEW p \in Request, Arrive(p) PROVE NoRefusal'
  <2>1. ASSUME NEW op, NEW s, NEW id, NEW todo, NEW flag, NEW l,
               Accept(p, Call(op, s, id, todo, flag), l),
               op = "rejectStep" => l = "verdictWrite"
        PROVE  NoRefusal'
    <3>1. Call(op, s, id, todo, flag).op = op
      BY DEF Call
    <3> QED
      BY <2>1, <3>1, RefusalMove DEF Accept, SignOffAlways
  <2>2. CASE ApproveRead(p)
    BY <2>1, <2>2 DEF ApproveRead
  <2>3. CASE RejectRead(p) \/ CancelRead(p)
    <3>1. \E op \in {"reject", "cancel"}, l \in Label :
            Accept(p, Call(op, 0, 0, {}, FALSE), l)
      BY <2>3, Zenon DEF RejectRead, CancelRead, Label
    <3> QED
      BY <2>1, <3>1
  <2>4. CASE RetryRead(p)
    BY <2>1, <2>4 DEF RetryRead
  <2>5. CASE VerdictRead(p)
    BY <2>1, <2>5 DEF VerdictRead
  <2> QED
    BY <1>2, <2>2, <2>3, <2>4, <2>5 DEF Arrive
<1>3. ASSUME NEW p \in Request, StatementFails(p) PROVE NoRefusal'
  <2>1. NoCall.op # "rejectStep"
    BY DEF NoCall, Call
  <2> QED
    BY <1>3, <2>1, RefusalMove DEF StatementFails, Return, SignOffAlways
<1>4. CASE Expire
  BY <1>4 DEF Expire, NoRefusal
<1> QED
  BY <1>1, <1>2, <1>3, <1>4, RefusalWorks, ExecutorSteps DEF Next

-----------------------------------------------------------------------------
(* The verdict.                                                            *)

\* Until a retry an applied plan stays applied.
LEMMA AppliedStays ==
  ASSUME SignOffAlways, OrderInv, [VNext]_allVars, ~Retried, plan.status = "applied"
  PROVE  plan'.status = "applied"
<1>1. Orderly
  BY DEF OrderInv
<1>2. \A p \in Request : /\ pc[p] \notin Runner \cup {"retryReset", "retryUnskip", "refuse",
                                                      "submit", "link", "linkWrite"}
                         /\ pc[p] \notin {"approveMark", "rejectMark", "cancelMark"}
  BY <1>1 DEF Orderly, AppliedIsOver, InOrder, SignOffAlways, WholeInv, Whole, LoopInv,
     Guarded, Fits
<1>3. ASSUME NEW p \in Request, Work(p) PROVE plan' = plan
  BY <1>2, <1>3 DEF Work, Runner, ApproveMark, ApproveClose, ApproveStart, RejectMark,
     CancelMark, RetryReset, RetryUnskip, RetryReopen, VerdictWrite, Refuse, RunNextStops,
     RunNextContinues, MarkApplied, Submit, Link, LinkWrite, Execute, NotSent, Dispatch,
     CommandEnds, HaltRead, HaltSkip, HaltMark, At
<1>4. ASSUME NEW p \in Request, Arrive(p) \/ StatementFails(p) PROVE plan' = plan
  BY <1>4 DEF Arrive, ApproveRead, RejectRead, CancelRead, RetryRead, VerdictRead, StatementFails
<1>5. ~Expire
  BY DEF Expire
<1> QED
  BY <1>3, <1>4, <1>5, ExecutorSteps DEF Next, Crash, LateFault, Fault, vars

\* What the verification columns say at any time.
Reporting == outcome # None => plan.status = "applied" /\ ~down
FirstRun ==
  ~Retried /\ (plan.status # "applied" \/ outcome # None) => ver.status = "not_started"
Stamps ==
  /\ rule.eval = "now" => evaluated
  /\ ver.status = "not_started" => ver.since = NotYet
Excused == Retried /\ budget.faults < MaxFaults
VerdictsFresh ==
  outcome = None /\ (ver.status = "passed" \/ (ver.status = "waiting" /\ Fresh(ver, rule)))
    => evaluated \/ Excused

FreshInv ==
  /\ budget.faults <= MaxFaults
  /\ Reporting /\ FirstRun /\ Stamps /\ VerdictsFresh

LEMMA FreshInit == VInit => FreshInv /\ NoRefusal
BY ConstantsAssumption DEF VInit, Init, FreshInv, Reporting, FirstRun, Stamps, VerdictsFresh,
   NoRefusal, NoCall, Call

\* beginVerification() leaves no verdict of an earlier run, and a start it writes
\* makes every evaluation but one at that very instant an old one.
LEMMA BegunFresh ==
  ASSUME VTypeOK, Stamps, NEW v, NEW r, v = Begun(ver, rule), r = Restamped(v, rule)
  PROVE  /\ v.status \in {"skipped", "inconclusive", "waiting"}
         /\ v.status = "waiting" /\ Fresh(v, r) => evaluated
         /\ r.eval = "now" => evaluated
<1>1. /\ v.status \in {"skipped", "inconclusive", "waiting"}
      /\ v.status = "waiting" => v.since = 0
  BY DEF Begun, VTypeOK
<1>2. /\ v.since = 0 /\ r.eval # "old" => rule.eval = "now"
      /\ r.eval = "now" <=> rule.eval = "now"
  BY RestampedType DEF VTypeOK
<1> QED
  BY <1>1, <1>2 DEF Stamps, Fresh

\* A step of the executor that ends no run.
LEMMA FreshQuiet ==
  ASSUME SignOffAlways, OrderInv, FreshInv, [VNext]_allVars, UNCHANGED verification,
         outcome = None \/ plan' = plan
  PROVE  FreshInv'
<1>1. /\ Retried => Retried'
      /\ budget.faults \in Nat /\ budget'.faults \in Nat /\ budget'.faults <= budget.faults
  BY FaultsStay
<1>2. ~Retried /\ plan.status = "applied" => plan'.status = "applied"
  BY AppliedStays
<1>3. budget'.faults <= MaxFaults /\ (Excused => Excused')
  BY <1>1, ConstantsAssumption DEF FreshInv, Excused
<1>4. Reporting' /\ FirstRun' /\ Stamps'
  BY <1>1, <1>2 DEF FreshInv, verification, Reporting, FirstRun, Stamps
<1>5. VerdictsFresh'
  BY <1>3 DEF FreshInv, verification, VerdictsFresh, Fresh
<1> QED
  BY <1>3, <1>4, <1>5 DEF FreshInv

\* The run ends: the verifier has yet to be told.
LEMMA FreshApply ==
  ASSUME SignOffAlways, OrderInv, NoRefusal, FreshInv, [VNext]_allVars,
         outcome = None, ~down, NEW p \in Request, Apply(p)
  PROVE  FreshInv'
<1>1. /\ Retried => Retried'
      /\ budget.faults \in Nat /\ budget'.faults \in Nat /\ budget'.faults <= budget.faults
  BY FaultsStay
<1>2. budget'.faults <= MaxFaults
  BY <1>1, ConstantsAssumption DEF FreshInv
<1>3. pc[p] = "markApplied" /\ SetStatus("applied")
  BY DEF Apply, MarkApplied, At
<1>4. plan'.status = "applied"
  BY <1>3, SetStatusType DEF SignOffAlways, TypeInv, RowsOK, PlanStatus
<1>5. outcome' = p /\ p # None
  BY <1>3, ConstantsAssumption DEF NoRefusal, Apply
<1>6. ~Retried => plan.status # "applied"
  BY <1>3 DEF OrderInv, Orderly, AppliedIsOver, Runner
<1>7. Reporting'
  BY <1>4 DEF Apply, Reporting
<1>8. FirstRun'
  BY <1>1, <1>6 DEF Apply, FreshInv, FirstRun
<1>9. Stamps'
  BY DEF Apply, FreshInv, Stamps
<1>10. VerdictsFresh'
  BY <1>5 DEF VerdictsFresh
<1> QED
  BY <1>2, <1>7, <1>8, <1>9, <1>10 DEF FreshInv

\* A fault while the verifier has yet to be told: the old verdict stays, which is
\* the excuse the property makes.
LEMMA FreshLost ==
  ASSUME SignOffAlways, VTypeOK, FreshInv, [VNext]_allVars, Fault, outcome # None,
         outcome' = None, UNCHANGED <<ver, rule, evaluated>>
  PROVE  FreshInv'
<1>1. /\ budget.faults \in Nat /\ budget'.faults \in Nat
      /\ budget'.faults < budget.faults
  BY DEF Fault, SignOffAlways, TypeInv, HistoryOK
<1>2. budget'.faults < MaxFaults
  BY <1>1, ConstantsAssumption DEF FreshInv
<1>3. plan' = plan /\ (Retried <=> Retried')
  BY DEF Fault, history, Retried
<1>4. Reporting' /\ Stamps'
  BY DEF FreshInv, Reporting, Stamps
<1>5. FirstRun'
  BY <1>3 DEF FreshInv, Reporting, FirstRun
<1>6. VerdictsFresh'
  BY <1>2, <1>3 DEF FreshInv, FirstRun, VerdictsFresh, Excused
<1> QED
  BY <1>1, <1>2, <1>4, <1>5, <1>6, ConstantsAssumption DEF FreshInv

\* The service and the rule move, the executor does not.
LEMMA FreshService ==
  ASSUME VTypeOK, FreshInv, UNCHANGED vars,
         Report \/ Sweep \/ Boot \/ BootFails \/ Evaluate \/ ChangeRule \/ TimePasses
  PROVE  FreshInv'
<1>1. budget' = budget /\ plan' = plan /\ (Retried <=> Retried') /\ (Excused <=> Excused')
  BY DEF vars, Retried, Excused
<1> USE DEF FreshInv
<1>2. CASE Report
  <2>1. plan.status = "applied"
    BY <1>2 DEF Report, Reporting
  <2>2. /\ ver'.status \in {"skipped", "inconclusive", "waiting"}
        /\ ver'.status = "waiting" /\ Fresh(ver', rule') => evaluated
        /\ rule'.eval = "now" => evaluated
    BY <1>2, BegunFresh DEF Report
  <2> QED
    BY <1>1, <1>2, <2>1, <2>2 DEF Report, Reporting, FirstRun, Stamps, VerdictsFresh
<1>3. CASE Sweep
  <2>1. /\ ver'.since = ver.since
        /\ ver.status # "waiting" => ver' = ver
        /\ ver'.status = "waiting" => ver.status = "waiting"
        /\ ver.status = "waiting" /\ ver'.status = "passed" => Fresh(ver, rule)
        /\ ver'.status # "not_started" \/ ver' = ver
    BY <1>3, SweptType DEF Sweep, VTypeOK, Swept, Verdict
  <2>2. UNCHANGED <<rule, outcome, down, evaluated>>
    BY <1>3 DEF Sweep
  <2>3. Reporting' /\ FirstRun' /\ Stamps'
    BY <1>1, <2>1, <2>2 DEF Reporting, FirstRun, Stamps
  <2>4. VerdictsFresh'
    BY <1>1, <2>1, <2>2 DEF VerdictsFresh, Fresh
  <2> QED
    BY <1>1, <2>3, <2>4
<1>4. CASE Boot
  <2> DEFINE begun == IF Interrupted THEN Begun(ver, rule) ELSE ver
             seen == IF Interrupted THEN Restamped(begun, rule) ELSE rule
  <2>0. outcome = None /\ UNCHANGED <<outcome, evaluated>> /\ ~down'
    BY <1>4 DEF Boot, Reporting
  <2>1. ver' = Swept(begun, seen) /\ rule' = seen
    BY <1>4 DEF Boot
  <2>2. begun \in [status : VerStatus, since : 0..NotYet]
    BY BegunType DEF VTypeOK
  <2>3. /\ seen.eval = "now" => evaluated
        /\ begun.status = "waiting" /\ Fresh(begun, seen) => evaluated \/ Excused
        /\ begun.status = "passed" => evaluated \/ Excused
        /\ begun.status = "not_started" => begun.since = NotYet
        /\ ~Retried /\ plan.status # "applied" => begun.status = "not_started"
    <3>1. CASE Interrupted
      BY <3>1, BegunFresh DEF Interrupted
    <3>2. CASE ~Interrupted
      BY <2>0, <3>2 DEF Stamps, FirstRun, VerdictsFresh
    <3> QED
      BY <3>1, <3>2
  <2> HIDE DEF begun, seen
  <2>4. /\ ver'.since = begun.since
        /\ begun.status # "waiting" => ver' = begun
        /\ ver'.status = "waiting" => begun.status = "waiting"
        /\ begun.status = "waiting" /\ ver'.status = "passed" => Fresh(begun, seen)
        /\ ver'.status # "not_started" \/ ver' = begun
    BY <2>1, <2>2, SweptType DEF Swept, Verdict
  <2>5. Reporting' /\ FirstRun' /\ Stamps'
    BY <1>1, <2>0, <2>1, <2>3, <2>4 DEF Reporting, FirstRun, Stamps
  <2>6. VerdictsFresh'
    BY <1>1, <2>0, <2>1, <2>3, <2>4 DEF VerdictsFresh, Fresh
  <2> QED
    BY <1>1, <2>5, <2>6
<1>5. CASE BootFails
  BY <1>1, <1>5 DEF BootFails, Reporting, FirstRun, Stamps, VerdictsFresh, Fresh
<1>6. CASE Evaluate
  BY <1>1, <1>6 DEF Evaluate, Reporting, FirstRun, Stamps, VerdictsFresh
<1>7. CASE ChangeRule
  <2>1. rule'.eval = rule.eval
    BY <1>7 DEF ChangeRule, VTypeOK
  <2> QED
    BY <1>1, <1>7, <2>1 DEF ChangeRule, Reporting, FirstRun, Stamps, VerdictsFresh, Fresh
<1>8. CASE TimePasses
  <2>1. /\ ver'.status = ver.status
        /\ ver'.since = NotYet <=> ver.since = NotYet
    BY <1>8, WaitAssumption DEF TimePasses, VTypeOK, NotYet
  <2>2. rule'.eval # "now" /\ (rule'.eval # "old" => rule.eval # "old")
    BY <1>8 DEF TimePasses, VTypeOK
  <2> QED
    BY <1>1, <1>8, <2>1, <2>2 DEF TimePasses, Reporting, FirstRun, Stamps, VerdictsFresh, Fresh
<1> QED
  BY <1>2, <1>3, <1>4, <1>5, <1>6, <1>7, <1>8

LEMMA FreshInductive ==
  ASSUME SignOffAlways, OrderInv, NoRefusal, VTypeOK, FreshInv, [VNext]_allVars
  PROVE  FreshInv'
<1>1. CASE UNCHANGED allVars
  BY <1>1, FreshQuiet DEF allVars, vars
<1>2. CASE Executor
  BY <1>2, FreshQuiet, FreshApply DEF Executor
<1>3. CASE ReportFails
  BY <1>3, FreshLost DEF ReportFails
<1>4. CASE Die
  <2>1. CASE outcome # None
    <3>1. Fault
      BY <1>4 DEF Die, Crash, Fault
    <3> QED
      BY <1>4, <2>1, <3>1, FreshLost DEF Die
  <2>2. CASE outcome = None
    <3>1. UNCHANGED <<plan, grants, ver, rule, evaluated, outcome>> /\ down'
      BY <1>4, <2>2 DEF Die, Crash, Fault, history
    <3>2. budget.faults \in Nat /\ budget'.faults \in Nat /\ budget'.faults <= budget.faults
      BY FaultsStay
    <3>3. budget'.faults <= MaxFaults /\ (Excused => Excused')
      BY <3>1, <3>2, ConstantsAssumption DEF FreshInv, Excused, Retried
    <3> QED
      BY <2>2, <3>1, <3>3 DEF FreshInv, Reporting, FirstRun, Stamps, VerdictsFresh, Fresh, Retried
  <2> QED
    BY <2>1, <2>2
<1>5. CASE Report \/ Sweep \/ Boot \/ BootFails \/ Evaluate \/ ChangeRule \/ TimePasses
  <2>1. UNCHANGED vars
    BY <1>5 DEF Report, Sweep, Boot, BootFails, Evaluate, ChangeRule, TimePasses
  <2> QED
    BY <1>5, <2>1, FreshService
<1> QED
  BY <1>1, <1>2, <1>3, <1>4, <1>5 DEF VNext

\* isFreshForPlan() and recoverInterrupted() do their work for any number of steps,
\* handlers, retries, faults and any deadline: a plan shown as applied and passed
\* has had its rule evaluated since its last run ended, unless a fault cut a rerun
\* off from its verification.  (For plans signed off as a whole.)
THEOREM PassedFresh ==
  ASSUME AutoEdits \subseteq {TRUE} PROVE VSpec => []PassedIsFresh
<1> DEFINE Inv == SignOffAlways /\ OrderInv /\ NoRefusal /\ VTypeOK /\ FreshInv
<1>1. VInit => Inv
  BY WaitAssumption, SignOffAlwaysInductive, OrderInit, FreshInit, VInitTyped
     DEF VInit, OrderInv
<1>2. Inv /\ [VNext]_allVars => Inv'
  BY ExecutorKept, RefusalInductive, VTyped, FreshInductive
<1>3. Inv => PassedIsFresh
  BY DEF FreshInv, VerdictsFresh, Excused, PassedIsFresh
<1> QED
  BY <1>1, <1>2, <1>3, PTL DEF VSpec
=============================================================================
