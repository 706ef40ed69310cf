------------------------ MODULE PlanDecisions_proofs ------------------------
(***************************************************************************)
(* What a decision about a plan allows the executor to do, on the          *)
(* synchronous store, for every number of steps, handlers, operations and  *)
(* faults: commands are paid for (StartsGranted), a waiting plan can be    *)
(* moved on (NoSilentStall), and under the sign-off of the whole plan, the *)
(* only one routes/plans.ts asks for, commands are not repeated, not sent  *)
(* for a stopped plan, and sent in order.                                  *)
(***************************************************************************)
EXTENDS PlanExecution_proofs

-----------------------------------------------------------------------------
(* Part 1.  Every command is paid for.                                     *)

Unspent(s, sent, granted) == sent[s] < granted[s]

\* What a handler with locals c at label l may count on: it holds an unspent
\* decision for the step it is about to run, and where the whole plan was signed
\* off (auto) so does every step it is about to skip or to make pending again.
Paid(l, c, auto, rows, sent, granted) ==
  /\ l \in {"retryReset", "retryUnskip", "exec", "invalid", "dispatch"} =>
       Unspent(c.at, sent, granted)
  /\ l \in {"retryReset", "retryUnskip", "skip"} /\ auto =>
       \A t \in c.todo : Unspent(t, sent, granted)
  /\ l \in {"submit", "link", "linkWrite"} => ~auto
  /\ l \in {"invalid", "dispatch"} => rows[c.at] = "executing"

\* Under the sign-off of the whole plan a step that has not run has its decision.
RowsPaid(auto, rows, sent, granted) ==
  auto => \A s \in Step : rows[s] \in {"pending", "skipped"} => Unspent(s, sent, granted)

HandlersPaid == \A p \in Request : Paid(pc[p], loc[p], plan.autoEdit, step, starts, grants)

GrantInv == StartsGranted /\ RowsPaid(plan.autoEdit, step, starts, grants) /\ HandlersPaid


LEMMA GrantInit == Init => GrantInv
BY DEF Init, GrantInv, StartsGranted, RowsPaid, HandlersPaid, Paid

\* Bump adds one for the steps of S.
LEMMA Bumped ==
  ASSUME NEW k \in [Step -> Nat], NEW S, NEW s \in Step
  PROVE  /\ Bump(k, S)[s] >= k[s]
         /\ s \in S => Bump(k, S)[s] = k[s] + 1
         /\ s \notin S => Bump(k, S)[s] = k[s]
BY DEF Bump

\* A status write leaves auto_edit alone: the synchronous store reads the row
\* and writes it back with nothing in between.
LEMMA AutoEditKept ==
  ASSUME TypeInv, NEW v,
         SetStatus(v) \/ (Backend = "sqlite" /\ \E old : SetStatusOver(v, old))
  PROVE  plan'.autoEdit = plan.autoEdit
<1>1. CASE SetStatus(v)
  BY <1>1 DEF SetStatus, TypeInv, RowsOK, PlanRow
<1>2. ASSUME Backend = "sqlite", NEW old, SetStatusOver(v, old)
      PROVE  plan'.autoEdit = plan.autoEdit
  <2>1. plan' = [status |-> v, autoEdit |-> plan.autoEdit]
    BY <1>2, Zenon DEF SetStatusOver
  <2> QED
    BY <2>1, Zenon
<1> QED
  BY <1>1, <1>2

\* One handler moves; the others are idle or wait for the adapter, where they
\* count on nothing.
LEMMA GrantMove ==
  ASSUME TypeInv, Exclusive, NEW p \in Request, Turn(p), NEW l, Go(p, l),
         NEW c, loc' = [loc EXCEPT ![p] = c],
         Paid(l, c, plan'.autoEdit, step', starts', grants'),
         StartsGranted', RowsPaid(plan'.autoEdit, step', starts', grants')
  PROVE  GrantInv'
<1>1. pc'[p] = l /\ \A q \in Request \ {p} : pc'[q] = pc[q]
  BY Moved
<1>2. loc'[p] = c
  BY Relocated
<1>3. \A q \in Request \ {p} : pc[q] \in {"idle", "await"}
  BY Alone
<1>4. ASSUME NEW q \in Request
      PROVE  Paid(pc'[q], loc'[q], plan'.autoEdit, step', starts', grants')
  <2>1. CASE q = p
    BY <2>1, <1>1, <1>2
  <2>2. CASE q # p
    BY <2>2, <1>1, <1>3 DEF Paid
  <2> QED
    BY <2>1, <2>2
<1> QED
  BY <1>4 DEF GrantInv, HandlersPaid

\* ... and sends nothing, decides nothing and writes no step.
LEMMA GrantGo ==
  ASSUME TypeInv, Exclusive, GrantInv, NEW p \in Request, Turn(p), NEW l, Go(p, l),
         NEW c, loc' = [loc EXCEPT ![p] = c],
         UNCHANGED <<step, starts, grants>>, plan'.autoEdit = plan.autoEdit,
         Paid(l, c, plan.autoEdit, step, starts, grants)
  PROVE  GrantInv'
BY GrantMove DEF GrantInv, StartsGranted

\* Labels that count on nothing.
NeedsNoGrant == {"idle", "approveMark", "approveClose", "approveStart", "rejectMark", "cancelMark",
                 "verdictWrite", "refuse", "next", "markApplied", "await", "halt"}

LEMMA NoGrantNeeded ==
  ASSUME NEW l \in NeedsNoGrant, NEW c, NEW auto, NEW rows, NEW sent, NEW granted
  PROVE  Paid(l, c, auto, rows, sent, granted)
BY DEF NeedsNoGrant, Paid

\* ... and writes the status v of the step s.
LEMMA GrantWrite ==
  ASSUME TypeInv, Exclusive, GrantInv, NEW p \in Request, Turn(p), NEW l, Go(p, l),
         NEW c, loc' = [loc EXCEPT ![p] = c],
         NEW s \in Step, NEW v \in StepStatus, SetStep(s, v),
         UNCHANGED <<plan, starts, grants>>,
         v \in {"pending", "skipped"} /\ plan.autoEdit => Unspent(s, starts, grants),
         Paid(l, c, plan.autoEdit, step', starts, grants)
  PROVE  GrantInv'
<1>1. step'[s] = v /\ \A t \in Step \ {s} : step'[t] = step[t]
  BY SetStepType DEF TypeInv, RowsOK
<1>2. RowsPaid(plan.autoEdit, step', starts, grants)
  BY <1>1 DEF GrantInv, RowsPaid
<1> QED
  BY <1>2, GrantMove DEF GrantInv, StartsGranted

\* A request arrives.  Only a retry decides something.
LEMMA GrantArrive ==
  ASSUME TypeInv, Exclusive, GrantInv, NEW p \in Request, Arrive(p)
  PROVE  GrantInv'
<1>1. ASSUME NEW c, NEW l \in NeedsNoGrant, Accept(p, c, l), UNCHANGED <<plan, step, starts, grants>>
      PROVE  GrantInv'
  BY <1>1, NoGrantNeeded, GrantGo DEF Accept, At
<1>2. CASE ApproveRead(p)
  <2>1. PICK c : Accept(p, c, "approveMark")
    BY <1>2, Zenon DEF ApproveRead
  <2> QED
    BY <1>1, <1>2, <2>1 DEF ApproveRead, history, NeedsNoGrant
<1>3. CASE RejectRead(p)
  BY <1>1, <1>3 DEF RejectRead, history, NeedsNoGrant
<1>4. CASE CancelRead(p)
  BY <1>1, <1>4 DEF CancelRead, history, NeedsNoGrant
<1>5. CASE VerdictRead(p)
  <2>1. PICK c : Accept(p, c, "verdictWrite")
    BY <1>5, Zenon DEF VerdictRead
  <2> QED
    BY <1>1, <1>5, <2>1 DEF VerdictRead, history, NeedsNoGrant
<1>6. CASE RetryRead(p)
  <2>1. PICK s \in Step, reopen \in BOOLEAN :
          /\ Accept(p, Call("retry", s, 0, {t \in Later(s, "skipped") : reopen}, reopen),
                    "retryReset")
          /\ grants' = Bump(grants, {s})
    BY <1>6, Zenon DEF RetryRead
  <2> DEFINE c == Call("retry", s, 0, {t \in Later(s, "skipped") : reopen}, reopen)
  <2>2. /\ c.at = s
        /\ \A t \in c.todo : t \in Step /\ step[t] = "skipped"
    BY DEF Call, Later
  <2>3. Turn(p) /\ Go(p, "retryReset") /\ loc' = [loc EXCEPT ![p] = c]
    BY <2>1 DEF Accept, At
  <2> HIDE DEF c
  <2>4. UNCHANGED <<plan, step, starts>>
    BY <1>6 DEF RetryRead
  <2>5. /\ \A t \in Step : grants'[t] >= grants[t] /\ grants[t] \in Nat /\ starts[t] \in Nat
        /\ grants'[s] = grants[s] + 1 /\ \A t \in Step : grants'[t] \in Nat
    BY <2>1, Bumped, BumpType DEF TypeInv, HistoryOK
  <2>6. StartsGranted' /\ RowsPaid(plan.autoEdit, step, starts, grants')
    BY <2>4, <2>5 DEF GrantInv, StartsGranted, RowsPaid, Unspent
  <2>7. Paid("retryReset", c, plan.autoEdit, step, starts, grants')
    <3>1. Unspent(s, starts, grants')
      BY <2>5 DEF GrantInv, StartsGranted, Unspent
    <3>2. plan.autoEdit => \A t \in c.todo : Unspent(t, starts, grants')
      BY <2>2, <2>6 DEF RowsPaid
    <3> QED
      BY <2>2, <3>1, <3>2 DEF Paid
  <2> QED
    BY <2>3, <2>4, <2>6, <2>7, GrantMove
<1> QED
  BY <1>2, <1>3, <1>4, <1>5, <1>6 DEF Arrive

\* The writes of the decisions, of runNext() and of haltPlan() that write no step.
LEMMA GrantControl ==
  ASSUME Backend = "sqlite", TypeInv, Exclusive, GrantInv, NEW p \in Request,
         \/ ApproveClose(p) \/ ApproveStart(p) \/ RejectMark(p) \/ CancelMark(p)
         \/ RetryReopen(p) \/ RunNextStops(p) \/ RunNextContinues(p) \/ MarkApplied(p)
         \/ Submit(p) \/ Link(p) \/ HaltRead(p) \/ HaltMark(p)
  PROVE  GrantInv'
<1>a. loc' = loc => loc' = [loc EXCEPT ![p] = loc[p]]
  BY DEF TypeInv, LocalsOK
<1>b. Paid(pc[p], loc[p], plan.autoEdit, step, starts, grants)
  BY DEF GrantInv, HandlersPaid
<1>c. UNCHANGED <<step, starts, grants>>
  <2>1. CASE ApproveClose(p) \/ ApproveStart(p) \/ RejectMark(p) \/ CancelMark(p)
             \/ RetryReopen(p) \/ RunNextStops(p)
    BY <2>1 DEF ApproveClose, ApproveStart, RejectMark, CancelMark, RetryReopen, RunNextStops,
       history
  <2>2. CASE RunNextContinues(p) \/ MarkApplied(p) \/ Submit(p) \/ Link(p) \/ HaltRead(p)
             \/ HaltMark(p)
    BY <2>2 DEF RunNextContinues, MarkApplied, Submit, Link, HaltRead, HaltMark, history
  <2> QED
    BY <2>1, <2>2
<1>d. plan'.autoEdit = plan.autoEdit
  <2>1. CASE ApproveClose(p) \/ RunNextStops(p) \/ RunNextContinues(p) \/ Submit(p) \/ Link(p)
             \/ HaltRead(p)
    BY <2>1 DEF ApproveClose, RunNextStops, RunNextContinues, Submit, Link, HaltRead
  <2>2. CASE CancelMark(p) \/ RetryReopen(p) \/ MarkApplied(p) \/ HaltMark(p)
    <3>1. \E v : SetStatus(v)
      BY <2>2 DEF CancelMark, RetryReopen, MarkApplied, HaltMark
    <3> QED
      BY <3>1, AutoEditKept
  <2>3. CASE ApproveStart(p) \/ RejectMark(p)
    <3>1. \E v : \E old : SetStatusOver(v, old)
      BY <2>3 DEF ApproveStart, RejectMark
    <3> QED
      BY <3>1, AutoEditKept
  <2> QED
    BY <2>1, <2>2, <2>3
<1>e. ASSUME NEW l \in NeedsNoGrant, Turn(p), Go(p, l), NEW c, loc' = [loc EXCEPT ![p] = c]
      PROVE  GrantInv'
  BY <1>c, <1>d, <1>e, NoGrantNeeded, GrantGo
<1>f. ASSUME Turn(p), Return(p) PROVE GrantInv'
  BY <1>e, <1>f DEF Return, NeedsNoGrant
<1>1. CASE ApproveClose(p)
  BY <1>1, <1>a, <1>e DEF ApproveClose, At, NeedsNoGrant
<1>2. CASE ApproveStart(p)
  BY <1>2, <1>a, <1>e DEF ApproveStart, At, NeedsNoGrant
<1>3. CASE RejectMark(p) \/ CancelMark(p) \/ RunNextStops(p) \/ MarkApplied(p)
  BY <1>3, <1>f DEF RejectMark, CancelMark, RunNextStops, MarkApplied, At
<1>4. CASE RetryReopen(p)
  <2>1. Turn(p) /\ Go(p, "exec") /\ loc' = loc /\ pc[p] = "retryUnskip"
    BY <1>4 DEF RetryReopen, At
  <2>2. Paid("exec", loc[p], plan.autoEdit, step, starts, grants)
    BY <2>1, <1>b DEF Paid
  <2> QED
    BY <1>a, <1>c, <1>d, <2>1, <2>2, GrantGo
<1>5. CASE RunNextContinues(p)
  <2>1. Turn(p)
    BY <1>5 DEF RunNextContinues, At
  <2>2. CASE Go(p, "markApplied") /\ loc' = loc
    BY <2>1, <2>2, <1>a, <1>e DEF NeedsNoGrant
  <2>3. ASSUME NEW s \in Step, IsFirst(s, Pending), loc' = [loc EXCEPT ![p].at = s],
               Go(p, StartNext)
        PROVE  GrantInv'
    <3> DEFINE c == [loc[p] EXCEPT !.at = s]
    <3>1. loc' = [loc EXCEPT ![p] = c]
      BY <2>3 DEF TypeInv, LocalsOK
    <3>2. c.at = s
      BY DEF TypeInv, LocalsOK, Local
    <3> HIDE DEF c
    <3>3. step[s] = "pending"
      BY <2>3 DEF IsFirst, Pending
    <3>4. CASE plan.autoEdit
      <4>1. Unspent(s, starts, grants) /\ Go(p, "exec")
        BY <2>3, <3>3, <3>4 DEF GrantInv, RowsPaid, StartNext
      <4>2. Paid("exec", c, plan.autoEdit, step, starts, grants)
        BY <3>2, <4>1 DEF Paid
      <4> QED
        BY <1>c, <1>d, <2>1, <3>1, <4>1, <4>2, GrantGo
    <3>5. CASE ~plan.autoEdit
      <4>1. Go(p, "submit") /\ Paid("submit", c, plan.autoEdit, step, starts, grants)
        BY <2>3, <3>5 DEF StartNext, Paid
      <4> QED
        BY <1>c, <1>d, <2>1, <3>1, <4>1, GrantGo
    <3> QED
      BY <3>4, <3>5
  <2> QED
    BY <1>5, <2>2, <2>3 DEF RunNextContinues
<1>6. CASE Submit(p)
  <2>1. Turn(p) /\ Go(p, "link") /\ loc' = loc /\ pc[p] = "submit"
    BY <1>6 DEF Submit, At
  <2>2. Paid("link", loc[p], plan.autoEdit, step, starts, grants)
    BY <2>1, <1>b DEF Paid
  <2> QED
    BY <1>a, <1>c, <1>d, <2>1, <2>2, GrantGo
<1>7. CASE Link(p)
  <2>1. Turn(p) /\ Go(p, "linkWrite") /\ pc[p] = "link"
    BY <1>7 DEF Link, At
  <2>2. PICK c : loc' = [loc EXCEPT ![p] = c]
    BY <1>7, Zenon DEF Link
  <2>3. Paid("linkWrite", c, plan.autoEdit, step, starts, grants)
    BY <2>1, <1>b DEF Paid
  <2> QED
    BY <1>c, <1>d, <2>1, <2>2, <2>3, GrantGo
<1>8. CASE HaltRead(p)
  <2> DEFINE c == [loc[p] EXCEPT !.todo = Later(loc[p].at, "pending")]
  <2>1. Turn(p) /\ Go(p, "skip") /\ loc' = [loc EXCEPT ![p] = c]
    BY <1>8 DEF HaltRead, At, TypeInv, LocalsOK
  <2>2. \A t \in c.todo : t \in Step /\ step[t] = "pending"
    BY DEF TypeInv, LocalsOK, Local, Later
  <2> HIDE DEF c
  <2>3. Paid("skip", c, plan.autoEdit, step, starts, grants)
    BY <2>2 DEF Paid, GrantInv, RowsPaid
  <2> QED
    BY <1>c, <1>d, <2>1, <2>3, GrantGo
<1>9. CASE HaltMark(p)
  BY <1>9, <1>a, <1>e, <1>f DEF HaltMark, At, NeedsNoGrant
<1> QED
  BY <1>1, <1>2, <1>3, <1>4, <1>5, <1>6, <1>7, <1>8, <1>9


\* approve()'s first write and a verdict on a gate: the decisions of people.
LEMMA GrantDecide ==
  ASSUME TypeInv, Exclusive, GrantInv, NEW p \in Request, ApproveMark(p) \/ VerdictWrite(p)
  PROVE  GrantInv'
<1>a. loc' = loc => loc' = [loc EXCEPT ![p] = loc[p]]
  BY DEF TypeInv, LocalsOK
<1>b. \A s \in Step : starts[s] \in Nat /\ grants[s] \in Nat /\ starts[s] <= grants[s]
  BY DEF TypeInv, HistoryOK, GrantInv, StartsGranted
<1>1. CASE ApproveMark(p)
  <2>1. /\ Turn(p) /\ Go(p, "approveClose") /\ loc' = loc /\ UNCHANGED <<step, starts>>
        /\ grants' = IF loc[p].flag THEN Bump(grants, Step) ELSE grants
    BY <1>1, Zenon DEF ApproveMark, At
  <2>2. plan'.autoEdit = loc[p].flag
    BY <1>1, Zenon DEF ApproveMark
  <2>3. CASE loc[p].flag
    <3>1. grants' = Bump(grants, Step)
      BY <2>1, <2>3, Zenon
    <3>2. \A s \in Step : grants'[s] = grants[s] + 1
      BY <3>1, Bumped DEF TypeInv, HistoryOK
    <3>3. StartsGranted' /\ RowsPaid(plan'.autoEdit, step', starts', grants')
      BY <1>b, <2>1, <3>2 DEF StartsGranted, RowsPaid, Unspent
    <3> QED
      BY <1>a, <2>1, <3>3, NoGrantNeeded, GrantMove DEF NeedsNoGrant
  <2>4. CASE ~loc[p].flag
    <3>1. grants' = grants /\ ~plan'.autoEdit
      BY <2>1, <2>2, <2>4, Zenon
    <3>2. StartsGranted' /\ RowsPaid(plan'.autoEdit, step', starts', grants')
      BY <2>1, <3>1 DEF GrantInv, StartsGranted, RowsPaid
    <3> QED
      BY <1>a, <2>1, <3>2, NoGrantNeeded, GrantMove DEF NeedsNoGrant
  <2> QED
    BY <2>3, <2>4
<1>2. CASE VerdictWrite(p)
  <2>1. Turn(p) /\ UNCHANGED <<plan, step, starts>>
    BY <1>2 DEF VerdictWrite, At
  <2>2. grants' = grants \/ grants' = Bump(grants, {loc[p].at})
    BY <1>2, Zenon DEF VerdictWrite
  <2>3. \A s \in Step : grants'[s] >= grants[s] /\ grants'[s] \in Nat
    BY <2>2, Bumped, BumpType DEF TypeInv, HistoryOK
  <2>4. StartsGranted' /\ RowsPaid(plan'.autoEdit, step', starts', grants')
    BY <1>b, <2>1, <2>3 DEF GrantInv, StartsGranted, RowsPaid, Unspent
  <2>5. CASE Return(p)
    BY <2>1, <2>4, <2>5, NoGrantNeeded, GrantMove DEF NeedsNoGrant, Return
  <2>6. CASE loc' = loc /\ Go(p, "refuse")
    BY <1>a, <2>1, <2>4, <2>6, NoGrantNeeded, GrantMove DEF NeedsNoGrant
  <2>7. CASE loc[p].at # 0 /\ loc' = loc /\ loc[p].op # "rejectStep" /\ Go(p, "exec")
    <3>1. loc[p].at \in Step
      BY <2>7, LocalFields, ConstantsAssumption DEF TypeInv, LocalsOK, Step
    <3>2. grants' = Bump(grants, {loc[p].at})
      BY <1>2, <2>7, Zenon DEF VerdictWrite
    <3>3. Unspent(loc[p].at, starts', grants')
      <4>1. grants \in [Step -> Nat] /\ loc[p].at \in {loc[p].at}
        BY DEF TypeInv, HistoryOK
      <4>2. grants'[loc[p].at] = grants[loc[p].at] + 1
        BY <3>1, <3>2, <4>1, Bumped
      <4> QED
        BY <1>b, <2>1, <3>1, <4>2 DEF Unspent
    <3>4. Paid("exec", loc[p], plan'.autoEdit, step', starts', grants')
      BY <3>3 DEF Paid
    <3> QED
      BY <1>a, <2>1, <2>4, <2>7, <3>4, GrantMove
  <2> QED
    BY <1>2, <2>5, <2>6, <2>7, Zenon DEF VerdictWrite
<1> QED
  BY <1>1, <1>2

\* The writes of steps: retryStep(), a refused gate, executeStep() up to the
\* command and from its end on, haltPlan().
LEMMA GrantSteps ==
  ASSUME TypeInv, Exclusive, GrantInv, NEW p \in Request,
         \/ RetryReset(p) \/ RetryUnskip(p) \/ Refuse(p) \/ LinkWrite(p) \/ Execute(p)
         \/ NotSent(p) \/ CommandEnds(p) \/ HaltSkip(p)
  PROVE  GrantInv'
<1>a. loc' = loc => loc' = [loc EXCEPT ![p] = loc[p]]
  BY DEF TypeInv, LocalsOK
<1>b. Paid(pc[p], loc[p], plan.autoEdit, step, starts, grants)
  BY DEF GrantInv, HandlersPaid
<1>c. UNCHANGED <<plan, starts, grants>>
  BY DEF RetryReset, RetryUnskip, Refuse, LinkWrite, Execute, NotSent, CommandEnds, HaltSkip,
     history
<1>d. loc[p] \in Local /\ loc[p].todo \in SUBSET Step /\ loc[p].seen \in StepStatus
  BY LocalFields DEF TypeInv, LocalsOK
<1>e. ASSUME Turn(p), StepFails(p), loc' = loc, loc[p].at \in Step
      PROVE  GrantInv'
  <2>1. PICK l \in NeedsNoGrant : Go(p, l)
    BY <1>e DEF StepFails, AfterFailure, NeedsNoGrant
  <2>2. SetStep(loc[p].at, "failed") /\ "failed" \in StepStatus
    BY <1>e DEF StepFails, StepStatus
  <2> QED
    BY <1>a, <1>c, <1>e, <2>1, <2>2, NoGrantNeeded, GrantWrite
<1>1. CASE RetryReset(p)
  <2>1. /\ pc[p] = "retryReset" /\ Turn(p) /\ loc' = loc /\ SetStep(loc[p].at, "pending")
        /\ Go(p, IF loc[p].flag THEN "retryUnskip" ELSE "exec")
    BY <1>1, Zenon DEF RetryReset, At
  <2>2. PICK l \in {"retryUnskip", "exec"} : Go(p, l)
    BY <2>1, Zenon
  <2>3. loc[p].at \in Step /\ "pending" \in StepStatus
    BY <2>1 DEF TypeInv, LocalsOK, StepLabel, StepStatus
  <2>4. Unspent(loc[p].at, starts, grants) /\ Paid(l, loc[p], plan.autoEdit, step', starts, grants)
    BY <1>b, <2>1 DEF Paid
  <2> QED
    BY <1>a, <1>c, <2>1, <2>2, <2>3, <2>4, GrantWrite
<1>2. CASE RetryUnskip(p)
  <2>1. pc[p] = "retryUnskip" /\ Turn(p) /\ Go(p, "retryUnskip")
    BY <1>2 DEF RetryUnskip, At
  <2>2. PICK t \in Step : t \in loc[p].todo /\ SetStep(t, "pending")
                          /\ loc' = [loc EXCEPT ![p].todo = @ \ {t}]
    BY <1>2, Zenon DEF RetryUnskip, IsFirst
  <2> DEFINE c == [loc[p] EXCEPT !.todo = @ \ {t}]
  <2>3. loc' = [loc EXCEPT ![p] = c] /\ c.at = loc[p].at /\ c.todo = loc[p].todo \ {t}
    BY <1>d, <2>2 DEF TypeInv, LocalsOK, Local
  <2> HIDE DEF c
  <2>4. plan.autoEdit => Unspent(t, starts, grants)
    BY <1>b, <2>1, <2>2 DEF Paid
  <2>5. Paid("retryUnskip", c, plan.autoEdit, step', starts, grants)
    BY <1>b, <2>1, <2>3 DEF Paid
  <2>6. "pending" \in StepStatus
    BY DEF StepStatus
  <2> QED
    BY <1>c, <2>1, <2>2, <2>3, <2>4, <2>5, <2>6, GrantWrite
<1>3. CASE Refuse(p)
  <2>1. loc[p].at \in Step
    BY <1>3 DEF Refuse, At, TypeInv, LocalsOK, StepLabel
  <2> QED
    BY <1>3, <1>e, <2>1 DEF Refuse, At
<1>4. CASE LinkWrite(p)
  <2>1. pc[p] = "linkWrite" /\ Turn(p) /\ Return(p) /\ SetStep(loc[p].at, loc[p].seen)
    BY <1>4 DEF LinkWrite, At
  <2>2. loc[p].at \in Step
    BY <2>1 DEF TypeInv, LocalsOK, StepLabel
  <2>3. ~plan.autoEdit
    BY <1>b, <2>1 DEF Paid
  <2> QED
    BY <1>c, <1>d, <2>1, <2>2, <2>3, NoGrantNeeded, GrantWrite DEF Return, NeedsNoGrant
<1>5. CASE Execute(p)
  <2>1. pc[p] = "exec" /\ Turn(p) /\ loc' = loc /\ SetStep(loc[p].at, "executing")
    BY <1>5 DEF Execute, At
  <2>2. PICK l \in {"invalid", "dispatch"} : Go(p, l)
    BY <1>5, Zenon DEF Execute
  <2>3. loc[p].at \in Step /\ "executing" \in StepStatus
    BY <2>1 DEF TypeInv, LocalsOK, StepLabel, StepStatus
  <2>4. step'[loc[p].at] = "executing"
    BY <2>1, <2>3, SetStepType DEF TypeInv, RowsOK
  <2>5. Paid(l, loc[p], plan.autoEdit, step', starts, grants)
    BY <1>b, <2>1, <2>4 DEF Paid
  <2> QED
    BY <1>a, <1>c, <2>1, <2>2, <2>3, <2>5, GrantWrite
<1>6. CASE NotSent(p)
  <2>1. loc[p].at \in Step
    BY <1>6 DEF NotSent, At, TypeInv, LocalsOK, StepLabel
  <2> QED
    BY <1>6, <1>e, <2>1 DEF NotSent, At
<1>7. CASE CommandEnds(p)
  <2>1. loc[p].at \in Step /\ Turn(p) /\ loc' = loc
    BY <1>7 DEF CommandEnds, At, TypeInv, LocalsOK, StepLabel
  <2>2. CASE StepFails(p)
    BY <1>e, <2>1, <2>2
  <2>3. CASE SetStep(loc[p].at, "done") /\ Go(p, "next")
    BY <1>a, <1>c, <2>1, <2>3, NoGrantNeeded, GrantWrite DEF StepStatus, NeedsNoGrant
  <2> QED
    BY <1>7, <2>2, <2>3 DEF CommandEnds
<1>8. CASE HaltSkip(p)
  <2>1. pc[p] = "skip" /\ Turn(p) /\ Go(p, "skip")
    BY <1>8 DEF HaltSkip, At
  <2>2. PICK t \in Step : t \in loc[p].todo /\ SetStep(t, "skipped")
                          /\ loc' = [loc EXCEPT ![p].todo = @ \ {t}]
    BY <1>8, Zenon DEF HaltSkip, IsFirst
  <2> DEFINE c == [loc[p] EXCEPT !.todo = @ \ {t}]
  <2>3. loc' = [loc EXCEPT ![p] = c] /\ c.todo = loc[p].todo \ {t}
    BY <1>d, <2>2 DEF TypeInv, LocalsOK, Local
  <2> HIDE DEF c
  <2>4. plan.autoEdit => Unspent(t, starts, grants)
    BY <1>b, <2>1, <2>2 DEF Paid
  <2>5. Paid("skip", c, plan.autoEdit, step', starts, grants)
    BY <1>b, <2>1, <2>3 DEF Paid
  <2>6. "skipped" \in StepStatus
    BY DEF StepStatus
  <2> QED
    BY <1>c, <2>1, <2>2, <2>3, <2>4, <2>5, <2>6, GrantWrite
<1> QED
  BY <1>1, <1>2, <1>3, <1>4, <1>5, <1>6, <1>7, <1>8

\* The command is sent: the handler spends the decision it holds, and the step
\* it runs is not one that waits for another run.
LEMMA GrantDispatch ==
  ASSUME TypeInv, Exclusive, GrantInv, NEW p \in Request, Dispatch(p)
  PROVE  GrantInv'
<1>1. /\ pc[p] = "dispatch" /\ Turn(p) /\ Go(p, "await") /\ loc' = loc
      /\ UNCHANGED <<plan, step, grants>> /\ starts' = Bump(starts, {loc[p].at})
  BY DEF Dispatch, At
<1>2. loc' = [loc EXCEPT ![p] = loc[p]]
  BY <1>1 DEF TypeInv, LocalsOK
<1>3. Unspent(loc[p].at, starts, grants) /\ step[loc[p].at] = "executing"
  BY <1>1 DEF GrantInv, HandlersPaid, Paid
<1>4. loc[p].at \in Step
  BY <1>1 DEF TypeInv, LocalsOK, StepLabel
<1>5. \A s \in Step : /\ starts[s] \in Nat /\ grants[s] \in Nat
                      /\ s = loc[p].at => starts'[s] = starts[s] + 1
                      /\ s # loc[p].at => starts'[s] = starts[s]
  BY <1>1, Bumped DEF TypeInv, HistoryOK
<1>6. StartsGranted'
  BY <1>1, <1>3, <1>5 DEF GrantInv, StartsGranted, Unspent
<1>7. RowsPaid(plan'.autoEdit, step', starts', grants')
  BY <1>1, <1>3, <1>5 DEF GrantInv, RowsPaid, Unspent
<1>8. Paid("await", loc[p], plan'.autoEdit, step', starts', grants')
  BY NoGrantNeeded DEF NeedsNoGrant
<1> QED
  BY <1>1, <1>2, <1>6, <1>7, <1>8, GrantMove

LEMMA GrantInductive ==
  ASSUME Backend = "sqlite", TypeInv, Exclusive, GrantInv, [Next]_vars
  PROVE  GrantInv'
<1>1. CASE UNCHANGED vars
  BY <1>1 DEF vars, GrantInv, StartsGranted, HandlersPaid
<1>2. ASSUME NEW p \in Request, Work(p) PROVE GrantInv'
  BY <1>2, GrantControl, GrantDecide, GrantSteps, GrantDispatch DEF Work
<1>3. ASSUME NEW p \in Request, StatementFails(p) PROVE GrantInv'
  BY <1>3, NoGrantNeeded, GrantGo DEF StatementFails, Return, NeedsNoGrant, history
<1>4. CASE Expire
  <2>1. plan'.autoEdit = plan.autoEdit
    BY <1>4, AutoEditKept DEF Expire
  <2> QED
    BY <1>4, <2>1 DEF Expire, history, GrantInv, StartsGranted, HandlersPaid
<1>5. CASE Crash
  <2>1. UNCHANGED <<plan, step, starts, grants>> /\ \A q \in Request : pc'[q] = "idle"
    BY <1>5 DEF Crash, history
  <2> QED
    BY <2>1, NoGrantNeeded DEF NeedsNoGrant, GrantInv, StartsGranted, HandlersPaid
<1> QED
  BY <1>1, <1>2, <1>3, <1>4, <1>5, GrantArrive DEF Next

\* On the synchronous store, in both modes and whatever crashes, fails or races:
\* a command is sent only against a decision of its own that nothing has spent.
THEOREM EveryStartGranted ==
  ASSUME Backend = "sqlite" PROVE Spec => []StartsGranted
<1>1. Init => TypeInv /\ LoopInv /\ GrantInv
  BY InitTyped, LoopInit, GrantInit
<1>2. TypeInv /\ LoopInv /\ GrantInv /\ [Next]_vars => (TypeInv /\ LoopInv /\ GrantInv)'
  BY TypeInvInductive, LoopInductive, GrantInductive DEF LoopInv
<1>3. GrantInv => StartsGranted
  BY DEF GrantInv
<1> QED
  BY <1>1, <1>2, <1>3, PTL DEF Spec

-----------------------------------------------------------------------------
(* Part 2.  A waiting plan can be moved on.                                *)

\* Labels at which a handler will go on with the plan.
Driving == {"approveClose", "approveStart", "refuse", "next", "markApplied", "submit", "link",
            "linkWrite", "exec", "invalid", "dispatch", "await", "halt", "skip"}

\* Approval row id gates step s, is pending, and so is the step.
Gate(id, s, rows, asked) ==
  asked[id].step = s /\ asked[id].status = "pending" /\ rows[s] = "pending"

\* A handler that asks for a step's approval asks for a pending step, and once it
\* has submitted the row there is a gate; a verdict is on the row it was read from.
Asks(l, c, rows, asked) ==
  /\ l \in {"submit", "link", "linkWrite"} => rows[c.at] = "pending"
  /\ l \in {"link", "linkWrite"} => \E id \in 2..Len(asked) : Gate(id, c.at, rows, asked)
  /\ l = "linkWrite" => c.seen = "pending"
  /\ l = "verdictWrite" => c.id \in 1..Len(asked) /\ asked[c.id].step = c.at

\* Every row but the first, the plan's own, gates a step.
GatesOK ==
  /\ Len(approvals) >= 1
  /\ \A id \in 2..Len(approvals) : approvals[id].step \in Step

Waiting == plan.status \in {"approved", "executing"}
Gated == \E id \in 2..Len(approvals), s \in Step : Gate(id, s, step, approvals)

Driven ==
  budget.faults < MaxFaults \/ ~Waiting \/ Gated \/ \E p \in Request : pc[p] \in Driving

StallInv ==
  /\ budget.faults <= MaxFaults
  /\ GatesOK
  /\ \A p \in Request : Asks(pc[p], loc[p], step, approvals)
  /\ Driven

LEMMA StallInit == Init => StallInv
BY ConstantsAssumption DEF Init, StallInv, GatesOK, Asks, Driven, Waiting

\* One handler moves, and it goes on with the plan, or the plan no longer waits,
\* or there is a gate, or the handler was not the one that moved the plan on.
LEMMA StallMove ==
  ASSUME TypeInv, Exclusive, StallInv, NEW p \in Request, Turn(p), NEW l, Go(p, l),
         NEW c, loc' = [loc EXCEPT ![p] = c],
         budget'.faults = budget.faults, GatesOK',
         Asks(l, c, step', approvals'),
         \/ l \in Driving
         \/ ~Waiting'
         \/ Gated'
         \/ pc[p] \notin Driving /\ (Waiting' => Waiting) /\ (Gated => Gated')
  PROVE  StallInv'
<1>1. pc'[p] = l /\ \A q \in Request \ {p} : pc'[q] = pc[q]
  BY Moved
<1>2. loc'[p] = c
  BY Relocated
<1>3. \A q \in Request \ {p} : pc[q] \in {"idle", "await"}
  BY Alone
<1>4. ASSUME NEW q \in Request PROVE Asks(pc'[q], loc'[q], step', approvals')
  <2>1. CASE q = p
    BY <2>1, <1>1, <1>2
  <2>2. CASE q # p
    BY <2>2, <1>1, <1>3 DEF Asks
  <2> QED
    BY <2>1, <2>2
<1>5. Driven'
  <2>1. CASE l \in Driving
    BY <2>1, <1>1 DEF Driven
  <2>2. CASE ~Waiting' \/ Gated'
    BY <2>2 DEF Driven
  <2>3. CASE pc[p] \notin Driving /\ (Waiting' => Waiting) /\ (Gated => Gated')
    BY <2>3, <1>1 DEF StallInv, Driven
  <2> QED
    BY <2>1, <2>2, <2>3
<1> QED
  BY <1>4, <1>5 DEF StallInv

\* ... and leaves the approval rows alone.
LEMMA StallGo ==
  ASSUME TypeInv, Exclusive, StallInv, NEW p \in Request, Turn(p), NEW l, Go(p, l),
         NEW c, loc' = [loc EXCEPT ![p] = c],
         budget'.faults = budget.faults, approvals' = approvals,
         Asks(l, c, step', approvals),
         \/ l \in Driving
         \/ ~Waiting'
         \/ Gated'
         \/ pc[p] \notin Driving /\ (Waiting' => Waiting) /\ (Gated => Gated')
  PROVE  StallInv'
<1>1. GatesOK'
  BY DEF StallInv, GatesOK
<1> QED
  BY <1>1, StallMove

\* Labels at which a handler asks for nothing.
Quiet == Label \ {"submit", "link", "linkWrite", "verdictWrite"}

LEMMA QuietAsks ==
  ASSUME NEW l \in Quiet, NEW c, NEW rows, NEW asked
  PROVE  Asks(l, c, rows, asked)
BY DEF Quiet, Asks

\* A request arrives: the plan and its gates are as they were.
LEMMA StallArrive ==
  ASSUME TypeInv, Exclusive, StallInv, NEW p \in Request, Arrive(p)
  PROVE  StallInv'
<1>1. UNCHANGED <<plan, step, approvals>> /\ pc[p] = "idle" /\ Turn(p)
      /\ budget'.faults = budget.faults
  <2>1. UNCHANGED <<plan, step, approvals>> /\ \E c, l : Accept(p, c, l)
    BY Zenon DEF Arrive, ApproveRead, RejectRead, CancelRead, RetryRead, VerdictRead
  <2> QED
    BY <2>1 DEF Accept, At, TypeInv, HistoryOK
<1>2. pc[p] \notin Driving /\ (Waiting' => Waiting) /\ (Gated => Gated')
  BY <1>1 DEF Driving, Waiting, Gated
<1>3. ASSUME NEW c, NEW l, Accept(p, c, l), Asks(l, c, step, approvals) PROVE StallInv'
  <2>1. Go(p, l) /\ loc' = [loc EXCEPT ![p] = c]
    BY <1>3 DEF Accept
  <2> QED
    BY <1>1, <1>2, <1>3, <2>1, StallGo
<1>4. ASSUME NEW c, NEW l \in Quiet, Accept(p, c, l) PROVE StallInv'
  BY <1>3, <1>4, QuietAsks
<1>5. {"approveMark", "rejectMark", "cancelMark", "retryReset"} \subseteq Quiet
  BY DEF Quiet, Label
<1>6. CASE ApproveRead(p) \/ RejectRead(p) \/ CancelRead(p) \/ RetryRead(p)
  <2>1. \E c : \E l \in {"approveMark", "rejectMark", "cancelMark", "retryReset"} :
          Accept(p, c, l)
    BY <1>6, Zenon DEF ApproveRead, RejectRead, CancelRead, RetryRead
  <2> QED
    BY <1>4, <1>5, <2>1
<1>7. CASE VerdictRead(p)
  <2>1. PICK id \in 1..Len(approvals), op \in {"approveStep", "rejectStep", "override"} :
          Accept(p, Call(op, approvals[id].step, id, {}, FALSE), "verdictWrite")
    BY <1>7, Zenon DEF VerdictRead
  <2> DEFINE c == Call(op, approvals[id].step, id, {}, FALSE)
  <2>2. c.id = id /\ c.at = approvals[id].step
    BY DEF Call
  <2>3. Asks("verdictWrite", c, step, approvals)
    BY <2>2 DEF Asks
  <2> QED
    BY <1>3, <2>1, <2>3
<1> QED
  BY <1>6, <1>7 DEF Arrive

\* A handler that goes on with the plan, or ends its waiting, and whose rows of
\* the approval store stay: most of what approve(), runNext(), executeStep() and
\* haltPlan() do.
LEMMA StallDrives ==
  ASSUME TypeInv, Exclusive, StallInv, NEW p \in Request,
         \/ ApproveMark(p) \/ ApproveStart(p) \/ RejectMark(p) \/ CancelMark(p)
         \/ RetryReopen(p) \/ Refuse(p) \/ RunNextStops(p) \/ MarkApplied(p)
         \/ Execute(p) \/ NotSent(p) \/ Dispatch(p) \/ CommandEnds(p)
         \/ HaltRead(p) \/ HaltSkip(p) \/ HaltMark(p)
  PROVE  StallInv'
<1>a. loc' = loc => loc' = [loc EXCEPT ![p] = loc[p]]
  BY DEF TypeInv, LocalsOK
<1>b. Turn(p) /\ approvals' = approvals /\ budget' = budget
  <2>1. CASE ApproveMark(p) \/ ApproveStart(p) \/ RejectMark(p) \/ CancelMark(p)
             \/ RetryReopen(p) \/ Refuse(p) \/ RunNextStops(p) \/ MarkApplied(p)
    BY <2>1 DEF ApproveMark, ApproveStart, RejectMark, CancelMark, RetryReopen, Refuse,
       RunNextStops, MarkApplied, At
  <2>2. CASE Execute(p) \/ NotSent(p) \/ Dispatch(p) \/ CommandEnds(p)
             \/ HaltRead(p) \/ HaltSkip(p) \/ HaltMark(p)
    BY <2>2 DEF Execute, NotSent, Dispatch, CommandEnds, HaltRead, HaltSkip, HaltMark, At
  <2> QED
    BY <2>1, <2>2
<1>c. ASSUME NEW l \in Quiet \cap Driving, Go(p, l), NEW c, loc' = [loc EXCEPT ![p] = c]
      PROVE  StallInv'
  BY <1>b, <1>c, QuietAsks, StallGo
<1>d. ASSUME Return(p), ~Waiting' PROVE StallInv'
  <2>1. "idle" \in Quiet
    BY DEF Quiet, Label
  <2> QED
    BY <1>b, <1>d, <2>1, QuietAsks, StallGo DEF Return
<1>e. {"approveClose", "next", "exec", "invalid", "dispatch", "await", "halt", "skip"}
        \subseteq Quiet \cap Driving
  BY DEF Quiet, Driving, Label
<1>f. StepFails(p) => \E l \in {"next", "halt"} : Go(p, l)
  BY DEF StepFails, AfterFailure
<1>1. CASE ApproveMark(p)
  BY <1>1, <1>a, <1>c, <1>e DEF ApproveMark
<1>2. CASE ApproveStart(p)
  BY <1>2, <1>a, <1>c, <1>e DEF ApproveStart
<1>3. CASE RejectMark(p)
  <2>1. plan'.status = "rejected"
    BY <1>3, SetStatusOverType DEF RejectMark, TypeInv, RowsOK, PlanStatus
  <2> QED
    BY <1>3, <1>d, <2>1 DEF RejectMark, Waiting
<1>4. CASE CancelMark(p) \/ MarkApplied(p)
  <2>1. plan'.status \in {"cancelled", "applied"}
    BY <1>4, SetStatusType DEF CancelMark, MarkApplied, TypeInv, RowsOK, PlanStatus
  <2> QED
    BY <1>4, <1>d, <2>1 DEF CancelMark, MarkApplied, Waiting
<1>5. CASE RetryReopen(p)
  BY <1>5, <1>a, <1>c, <1>e DEF RetryReopen
<1>6. CASE Refuse(p)
  BY <1>6, <1>a, <1>c, <1>e, <1>f DEF Refuse
<1>7. CASE RunNextStops(p)
  <2>1. ~Waiting'
    BY <1>7 DEF RunNextStops, Stopped, Waiting
  <2> QED
    BY <1>7, <1>d, <2>1 DEF RunNextStops
<1>8. CASE Execute(p)
  BY <1>8, <1>a, <1>c, <1>e DEF Execute
<1>9. CASE NotSent(p)
  BY <1>9, <1>a, <1>c, <1>e, <1>f DEF NotSent
<1>10. CASE Dispatch(p)
  BY <1>10, <1>a, <1>c, <1>e DEF Dispatch
<1>11. CASE CommandEnds(p)
  BY <1>11, <1>a, <1>c, <1>e, <1>f DEF CommandEnds
<1>12. CASE HaltRead(p)
  <2>1. PICK c : loc' = [loc EXCEPT ![p] = c]
    BY <1>12, Zenon DEF HaltRead
  <2> QED
    BY <1>12, <1>c, <1>e, <2>1 DEF HaltRead
<1>13. CASE HaltSkip(p)
  <2>1. PICK c : loc' = [loc EXCEPT ![p] = c]
    BY <1>13, Zenon DEF HaltSkip
  <2> QED
    BY <1>13, <1>c, <1>e, <2>1 DEF HaltSkip
<1>14. CASE HaltMark(p)
  <2>1. ~Waiting'
    BY <1>14, SetStatusType DEF HaltMark, HaltStatus, TypeInv, RowsOK, PlanStatus, Waiting
  <2> QED
    BY <1>14, <1>a, <1>c, <1>d, <1>e, <2>1 DEF HaltMark
<1> QED
  BY <1>1, <1>2, <1>3, <1>4, <1>5, <1>6, <1>7, <1>8, <1>9, <1>10, <1>11, <1>12, <1>13, <1>14

\* retryStep() makes steps pending and so opens gates rather than closing them.
LEMMA StallRetry ==
  ASSUME TypeInv, Exclusive, StallInv, NEW p \in Request, RetryReset(p) \/ RetryUnskip(p)
  PROVE  StallInv'
<1>1. /\ Turn(p) /\ UNCHANGED <<plan, approvals, budget>>
      /\ pc[p] \in {"retryReset", "retryUnskip"}
      /\ \E l \in {"retryUnskip", "exec"} : Go(p, l)
      /\ \E c : loc' = [loc EXCEPT ![p] = c]
  <2>1. loc' = loc => loc' = [loc EXCEPT ![p] = loc[p]]
    BY DEF TypeInv, LocalsOK
  <2> QED
    BY <2>1, Zenon DEF RetryReset, RetryUnskip, At
<1>2. PICK s \in Step : SetStep(s, "pending")
  <2>1. RetryReset(p) => loc[p].at \in Step
    BY DEF RetryReset, At, TypeInv, LocalsOK, StepLabel
  <2> QED
    BY <2>1, Zenon DEF RetryReset, RetryUnskip
<1>3. \A t \in Step : step[t] = "pending" => step'[t] = "pending"
  BY <1>2, SetStepType DEF TypeInv, RowsOK, StepStatus
<1>4. pc[p] \notin Driving /\ (Waiting' => Waiting) /\ (Gated => Gated')
  BY <1>1, <1>3 DEF Driving, Waiting, Gated, Gate
<1>5. {"retryUnskip", "exec"} \subseteq Quiet
  BY DEF Quiet, Label
<1> QED
  BY <1>1, <1>4, <1>5, QuietAsks, StallGo

\* The writes of approval rows: closing the plan's own row, a verdict.  A verdict
\* on a step's gate makes its handler go on with the plan.
LEMMA StallVerdict ==
  ASSUME TypeInv, Exclusive, StallInv, NEW p \in Request, ApproveClose(p) \/ VerdictWrite(p)
  PROVE  StallInv'
<1>a. loc' = loc => loc' = [loc EXCEPT ![p] = loc[p]]
  BY DEF TypeInv, LocalsOK
<1>b. Turn(p) /\ budget' = budget /\ UNCHANGED <<plan, step>>
  BY DEF ApproveClose, VerdictWrite, At
<1>c. approvals \in Seq(ApprovalRow)
  BY DEF TypeInv, RowsOK
<1>d. ASSUME NEW i, NEW v, approvals' = [approvals EXCEPT ![i].status = v] PROVE GatesOK'
  BY <1>c, <1>d, GateKept DEF StallInv, GatesOK
<1>e. {"approveStart", "refuse", "exec", "idle"} \subseteq Quiet
      /\ {"approveStart", "refuse", "exec"} \subseteq Driving
  BY DEF Quiet, Driving, Label
<1>1. CASE ApproveClose(p)
  <2>1. GatesOK'
    <3>1. CASE approvals' = approvals
      BY <3>1 DEF StallInv, GatesOK
    <3>2. CASE approvals' = [approvals EXCEPT ![1].status =
                               IF @ = "pending" THEN "approved" ELSE @]
      BY <3>2, <1>d
    <3> QED
      BY <1>1, <3>1, <3>2 DEF ApproveClose
  <2> QED
    BY <1>1, <1>a, <1>b, <1>e, <2>1, QuietAsks, StallMove DEF ApproveClose
<1>2. CASE VerdictWrite(p)
  <2>1. PICK v : approvals' = [approvals EXCEPT ![loc[p].id].status = v]
    BY <1>2, Zenon DEF VerdictWrite
  <2>2. GatesOK'
    BY <1>d, <2>1
  <2>3. CASE loc[p].at # 0
    <3>1. PICK l \in {"refuse", "exec"} : Go(p, l)
      BY <1>2, <2>3, Zenon DEF VerdictWrite
    <3>2. loc' = loc
      BY <1>2, <2>3 DEF VerdictWrite
    <3> QED
      BY <1>a, <1>b, <1>e, <2>2, <3>1, <3>2, QuietAsks, StallMove
  <2>4. CASE loc[p].at = 0
    <3>1. Return(p) /\ pc[p] = "verdictWrite"
      BY <1>2, <2>4 DEF VerdictWrite, At
    <3>2. loc[p].id \in 1..Len(approvals) /\ approvals[loc[p].id].step = 0
      BY <2>4, <3>1 DEF StallInv, Asks
    <3>3. loc[p].id = 1
      BY <3>2, <1>c DEF StallInv, GatesOK, Step
    <3>4. Len(approvals') = Len(approvals) /\ \A id \in 2..Len(approvals) : approvals'[id] = approvals[id]
      BY <1>c, <2>1, <3>3, GateKept
    <3>5. pc[p] \notin Driving /\ (Waiting' => Waiting) /\ (Gated => Gated')
      BY <1>b, <3>1, <3>4 DEF Driving, Waiting, Gated, Gate
    <3> QED
      BY <1>b, <1>e, <2>2, <3>1, <3>5, QuietAsks, StallMove DEF Return
  <2> QED
    BY <2>3, <2>4
<1> QED
  BY <1>1, <1>2

\* runNext() finds the next step, and asks for its approval: when the handler
\* returns, the row it has submitted gates the pending step.
LEMMA StallAsk ==
  ASSUME TypeInv, Exclusive, StallInv, NEW p \in Request,
         RunNextContinues(p) \/ Submit(p) \/ Link(p) \/ LinkWrite(p)
  PROVE  StallInv'
<1>a. loc' = loc => loc' = [loc EXCEPT ![p] = loc[p]]
  BY DEF TypeInv, LocalsOK
<1>b. Turn(p) /\ budget' = budget
  BY DEF RunNextContinues, Submit, Link, LinkWrite, At
<1>c. Asks(pc[p], loc[p], step, approvals)
  BY DEF StallInv
<1>d. loc[p] \in Local /\ (pc[p] \in StepLabel => loc[p].at \in Step)
  BY DEF TypeInv, LocalsOK
<1>e. {"markApplied", "exec", "idle"} \subseteq Quiet
      /\ {"markApplied", "exec", "submit", "link", "linkWrite"} \subseteq Driving
  BY DEF Quiet, Driving, Label
<1>1. CASE RunNextContinues(p)
  <2>1. UNCHANGED <<step, approvals>>
    BY <1>1 DEF RunNextContinues
  <2>2. CASE Go(p, "markApplied") /\ loc' = loc
    BY <1>a, <1>b, <1>e, <2>1, <2>2, QuietAsks, StallGo
  <2>3. ASSUME NEW s \in Step, IsFirst(s, Pending), loc' = [loc EXCEPT ![p].at = s],
               Go(p, StartNext)
        PROVE  StallInv'
    <3> DEFINE c == [loc[p] EXCEPT !.at = s]
    <3>1. loc' = [loc EXCEPT ![p] = c]
      BY <2>3 DEF TypeInv, LocalsOK
    <3>2. c.at = s
      BY <1>d DEF Local
    <3> HIDE DEF c
    <3>3. step[s] = "pending"
      BY <2>3 DEF IsFirst, Pending
    <3>4. PICK l \in {"exec", "submit"} : Go(p, l)
      BY <2>3 DEF StartNext
    <3>5. Asks(l, c, step, approvals)
      BY <3>2, <3>3 DEF Asks
    <3> QED
      BY <1>b, <1>e, <2>1, <3>1, <3>4, <3>5, StallGo
  <2> QED
    BY <1>1, <2>2, <2>3 DEF RunNextContinues
<1>2. CASE Submit(p)
  <2>1. /\ pc[p] = "submit" /\ Go(p, "link") /\ loc' = loc /\ step' = step
        /\ approvals' = Append(approvals, [step |-> loc[p].at, status |-> "pending"])
    BY <1>2 DEF Submit, At
  <2>2. loc[p].at \in Step /\ step[loc[p].at] = "pending"
    BY <1>c, <1>d, <2>1 DEF StepLabel, Asks
  <2> DEFINE row == [step |-> loc[p].at, status |-> "pending"]
  <2>3. row.step = loc[p].at /\ row.status = "pending"
    OBVIOUS
  <2>4. approvals \in Seq(ApprovalRow) /\ Len(approvals) \in Nat /\ Len(approvals) >= 1
    BY DEF TypeInv, RowsOK, StallInv, GatesOK
  <2>5. /\ Len(approvals') = Len(approvals) + 1
        /\ approvals'[Len(approvals) + 1] = row
        /\ \A id \in 1..Len(approvals) : approvals'[id] = approvals[id]
    BY <2>1, <2>4
  <2> HIDE DEF row
  <2>6. GatesOK'
    BY <2>2, <2>3, <2>4, <2>5 DEF StallInv, GatesOK
  <2>7. Gate(Len(approvals) + 1, loc[p].at, step', approvals')
    BY <2>1, <2>2, <2>3, <2>5 DEF Gate
  <2>8. Len(approvals) + 1 \in 2..Len(approvals')
    BY <2>4, <2>5
  <2>9. Asks("link", loc[p], step', approvals')
    BY <2>1, <2>2, <2>7, <2>8 DEF Asks
  <2> QED
    BY <1>a, <1>b, <1>e, <2>1, <2>6, <2>9, StallMove
<1>3. CASE Link(p)
  <2> DEFINE c == [loc[p] EXCEPT !.seen = step[loc[p].at]]
  <2>1. /\ pc[p] = "link" /\ Go(p, "linkWrite") /\ UNCHANGED <<step, approvals>>
        /\ loc' = [loc EXCEPT ![p] = c]
    BY <1>3 DEF Link, At, TypeInv, LocalsOK
  <2>2. c.at = loc[p].at /\ c.seen = step[loc[p].at]
    BY <1>d DEF Local
  <2> HIDE DEF c
  <2>3. Asks("linkWrite", c, step, approvals)
    BY <1>c, <2>1, <2>2 DEF Asks
  <2> QED
    BY <1>b, <1>e, <2>1, <2>3, StallGo
<1>4. CASE LinkWrite(p)
  <2>1. /\ pc[p] = "linkWrite" /\ Return(p) /\ approvals' = approvals
        /\ SetStep(loc[p].at, loc[p].seen)
    BY <1>4 DEF LinkWrite, At
  <2>2. loc[p].at \in Step /\ loc[p].seen = "pending"
    BY <1>c, <1>d, <2>1 DEF StepLabel, Asks
  <2>3. step'[loc[p].at] = "pending"
    BY <2>1, <2>2, SetStepType DEF TypeInv, RowsOK, StepStatus
  <2>4. PICK id \in 2..Len(approvals) : Gate(id, loc[p].at, step, approvals)
    BY <1>c, <2>1 DEF Asks
  <2>5. Gated'
    BY <2>1, <2>2, <2>3, <2>4 DEF Gated, Gate
  <2> QED
    BY <1>b, <1>e, <2>1, <2>5, QuietAsks, StallGo DEF Return
<1> QED
  BY <1>1, <1>2, <1>3, <1>4

LEMMA StallInductive ==
  ASSUME Backend = "sqlite", TypeInv, Exclusive, StallInv, [Next]_vars
  PROVE  StallInv'
<1>a. budget \in [ops : Nat, faults : Nat] /\ MaxFaults \in Nat
  BY ConstantsAssumption DEF TypeInv, HistoryOK
<1>1. CASE UNCHANGED vars
  BY <1>1 DEF vars, StallInv, GatesOK, Driven, Waiting, Gated
<1>2. ASSUME NEW p \in Request, Work(p) PROVE StallInv'
  BY <1>2, StallDrives, StallRetry, StallVerdict, StallAsk DEF Work
<1>3. ASSUME budget.faults > 0, budget' = [budget EXCEPT !.faults = @ - 1],
             approvals' = approvals,
             \A q \in Request : (pc'[q] = pc[q] /\ pc[q] \in {"idle", "await"}) \/ pc'[q] = "idle"
      PROVE  StallInv'
  <2>1. budget'.faults < MaxFaults /\ budget'.faults \in Int
    BY <1>3, <1>a DEF StallInv
  <2>2. GatesOK'
    BY <1>3 DEF StallInv, GatesOK
  <2>3. \A q \in Request : Asks(pc'[q], loc'[q], step', approvals')
    BY <1>3 DEF Asks
  <2> QED
    BY <1>a, <2>1, <2>2, <2>3 DEF StallInv, Driven
<1>4. ASSUME NEW p \in Request, StatementFails(p) PROVE StallInv'
  <2>1. Turn(p) /\ Go(p, "idle")
    BY <1>4 DEF StatementFails, Return
  <2>2. \A q \in Request : (pc'[q] = pc[q] /\ pc[q] \in {"idle", "await"}) \/ pc'[q] = "idle"
    BY <2>1, Moved, Alone
  <2> QED
    BY <1>3, <1>4, <2>2 DEF StatementFails
<1>5. CASE Expire
  <2>1. plan'.status = "expired"
    BY <1>5, SetStatusType DEF Expire, TypeInv, RowsOK, PlanStatus
  <2> QED
    BY <1>5, <2>1 DEF Expire, StallInv, GatesOK, Driven, Waiting
<1>6. CASE Crash
  BY <1>3, <1>6 DEF Crash
<1> QED
  BY <1>1, <1>2, <1>4, <1>5, <1>6, StallArrive DEF Next

\* On the synchronous store, in both modes: as long as nothing has failed, a plan
\* that is approved or executing is worked on by some handler, or waits for the
\* approval of a pending step.  No race of verdicts, retries, cancels and runNext()
\* leaves it where nobody can move it on.
THEOREM NeverStalls ==
  ASSUME Backend = "sqlite" PROVE Spec => []NoSilentStall
<1>1. Init => TypeInv /\ LoopInv /\ StallInv
  BY InitTyped, LoopInit, StallInit
<1>2. TypeInv /\ LoopInv /\ StallInv /\ [Next]_vars => (TypeInv /\ LoopInv /\ StallInv)'
  BY TypeInvInductive, LoopInductive, StallInductive DEF LoopInv
<1>3. StallInv => NoSilentStall
  <2>1. \A p \in Request : pc[p] \in Driving => pc[p] # "idle"
    BY DEF Driving
  <2> QED
    BY <2>1 DEF StallInv, Driven, Waiting, Gated, Gate, NoSilentStall
<1> QED
  BY <1>1, <1>2, <1>3, PTL DEF Spec

-----------------------------------------------------------------------------
(* Part 3.  The sign-off of the whole plan.                                *)

\* What a handler may count on when approve() is only called for whole plans: it
\* asks for no step's approval, it resets and skips the steps it has read as failed,
\* skipped or pending, and the step it runs has no command that may still run.
Whole(l, c, status, rows, unres) ==
  /\ l \notin {"submit", "link", "linkWrite", "refuse"}
  /\ l = "approveMark" => c.flag
  /\ l = "verdictWrite" => c.at = 0
  /\ l = "retryReset" => rows[c.at] = "failed"
  /\ l = "retryUnskip" => rows[c.at] = "pending" /\ c.at \notin c.todo
  /\ l \in {"retryReset", "retryUnskip"} =>
       c.op = "retry" /\ \A t \in c.todo : rows[t] = "skipped"
  /\ l = "skip" => \A t \in c.todo : rows[t] = "pending"
  /\ l = "exec" => rows[c.at] = "pending"
  /\ l \in {"invalid", "dispatch"} => rows[c.at] = "executing" /\ c.at \notin unres
  /\ l \in {"exec", "invalid", "dispatch"} /\ c.op # "retry" => status \in {"executing", "applied"}

UnresolvedExecuting == \A s \in unresolved : step[s] = "executing"
NoStepGates == \A id \in 1..Len(approvals) : approvals[id].step = 0
SignedOffWhole ==
  plan.status \in Live \cup {"approved"} => plan.autoEdit /\ \A s \in Step : grants[s] >= 1

WholeInv ==
  /\ \A p \in Request : Whole(pc[p], loc[p], plan.status, step, unresolved)
  /\ UnresolvedExecuting /\ NoStepGates /\ SignedOffWhole

LEMMA WholeInit == Init => WholeInv
BY DEF Init, WholeInv, Whole, UnresolvedExecuting, NoStepGates, SignedOffWhole, Live

\* Labels at which a handler counts on nothing.
Unbound == {"idle", "approveClose", "approveStart", "rejectMark", "cancelMark", "next",
            "markApplied", "await", "halt"}

LEMMA UnboundIsWhole ==
  ASSUME NEW l \in Unbound, NEW c, NEW status, NEW rows, NEW unres
  PROVE  Whole(l, c, status, rows, unres)
BY DEF Unbound, Whole

\* One handler moves; the others are idle or wait for the adapter.
LEMMA WholeMove ==
  ASSUME TypeInv, Exclusive, NEW p \in Request, Turn(p), NEW l, Go(p, l),
         NEW c, loc' = [loc EXCEPT ![p] = c],
         Whole(l, c, plan'.status, step', unresolved'),
         UnresolvedExecuting', NoStepGates', SignedOffWhole'
  PROVE  WholeInv'
<1>1. pc'[p] = l /\ \A q \in Request \ {p} : pc'[q] = pc[q]
  BY Moved
<1>2. loc'[p] = c
  BY Relocated
<1>3. \A q \in Request \ {p} : pc[q] \in Unbound
  BY Alone DEF Unbound
<1>4. ASSUME NEW q \in Request
      PROVE  Whole(pc'[q], loc'[q], plan'.status, step', unresolved')
  <2>1. CASE q = p
    BY <2>1, <1>1, <1>2
  <2>2. CASE q # p
    BY <2>2, <1>1, <1>3, UnboundIsWhole
  <2> QED
    BY <2>1, <2>2
<1> QED
  BY <1>4 DEF WholeInv

\* No step takes a decision back.
LEMMA GrantsGrow ==
  ASSUME TypeInv, [Next]_vars
  PROVE  \A s \in Step : grants[s] \in Nat /\ grants'[s] \in Nat /\ grants'[s] >= grants[s]
<1>1. grants' = grants \/ \E S : grants' = Bump(grants, S)
  <2>1. CASE UNCHANGED vars \/ Expire \/ Crash \/ \E p \in Request : StatementFails(p)
    BY <2>1 DEF vars, Expire, Crash, StatementFails, history
  <2>2. ASSUME NEW p \in Request, Arrive(p)
        PROVE  grants' = grants \/ \E S : grants' = Bump(grants, S)
    BY <2>2, Zenon DEF Arrive, ApproveRead, RejectRead, CancelRead, RetryRead, VerdictRead, history
  <2>3. ASSUME NEW p \in Request, Work(p)
        PROVE  grants' = grants \/ \E S : grants' = Bump(grants, S)
    <3>1. CASE ApproveMark(p)
      BY <3>1, Zenon DEF ApproveMark
    <3>2. CASE VerdictWrite(p)
      BY <3>2, Zenon DEF VerdictWrite
    <3>3. CASE \/ ApproveClose(p) \/ ApproveStart(p) \/ RejectMark(p) \/ CancelMark(p)
               \/ RetryReset(p) \/ RetryUnskip(p) \/ RetryReopen(p) \/ Refuse(p)
               \/ RunNextStops(p) \/ RunNextContinues(p) \/ MarkApplied(p)
      BY <3>3 DEF ApproveClose, ApproveStart, RejectMark, CancelMark, RetryReset, RetryUnskip,
         RetryReopen, Refuse, RunNextStops, RunNextContinues, MarkApplied, history
    <3>4. CASE \/ Submit(p) \/ Link(p) \/ LinkWrite(p) \/ Execute(p) \/ NotSent(p)
               \/ Dispatch(p) \/ CommandEnds(p) \/ HaltRead(p) \/ HaltSkip(p) \/ HaltMark(p)
      BY <3>4 DEF Submit, Link, LinkWrite, Execute, NotSent, Dispatch, CommandEnds, HaltRead,
         HaltSkip, HaltMark, history
    <3> QED
      BY <2>3, <3>1, <3>2, <3>3, <3>4 DEF Work
  <2> QED
    BY <2>1, <2>2, <2>3 DEF Next
<1>2. grants \in [Step -> Nat]
  BY DEF TypeInv, HistoryOK
<1> QED
  BY <1>1, <1>2, Bumped, BumpType

LEMMA SignedOffWholeKept ==
  ASSUME TypeInv, [Next]_vars, SignedOffWhole, plan'.autoEdit = plan.autoEdit,
         plan'.status \in Live \cup {"approved"} => plan.status \in Live \cup {"approved"}
  PROVE  SignedOffWhole'
BY GrantsGrow DEF SignedOffWhole

\* A handler moves and writes neither a step nor the approval rows.
LEMMA WholeGo ==
  ASSUME TypeInv, Exclusive, WholeInv, [Next]_vars, NEW p \in Request, Turn(p), NEW l, Go(p, l),
         NEW c, loc' = [loc EXCEPT ![p] = c],
         Whole(l, c, plan'.status, step, unresolved),
         UNCHANGED <<step, approvals, unresolved>>, plan'.autoEdit = plan.autoEdit,
         plan'.status \in Live \cup {"approved"} => plan.status \in Live \cup {"approved"}
  PROVE  WholeInv'
<1>1. UnresolvedExecuting' /\ NoStepGates'
  BY DEF WholeInv, UnresolvedExecuting, NoStepGates
<1>2. SignedOffWhole'
  BY SignedOffWholeKept DEF WholeInv
<1> QED
  BY <1>1, <1>2, WholeMove

\* A handler moves and writes the status v of the step s, which has no command
\* that may still run or is now executing.
LEMMA WholeWrite ==
  ASSUME TypeInv, Exclusive, WholeInv, [Next]_vars, NEW p \in Request, Turn(p), NEW l, Go(p, l),
         NEW c, loc' = [loc EXCEPT ![p] = c],
         NEW s \in Step, NEW v \in StepStatus, SetStep(s, v), UNCHANGED <<plan, approvals>>,
         unresolved' \subseteq unresolved, s \notin unresolved' \/ v = "executing",
         Whole(l, c, plan.status, step', unresolved')
  PROVE  WholeInv'
<1>1. step'[s] = v /\ \A t \in Step \ {s} : step'[t] = step[t]
  BY SetStepType DEF TypeInv, RowsOK
<1>2. UnresolvedExecuting'
  BY <1>1 DEF WholeInv, UnresolvedExecuting, TypeInv, HistoryOK
<1>3. NoStepGates' /\ SignedOffWhole'
  BY SignedOffWholeKept DEF WholeInv, NoStepGates
<1> QED
  BY <1>2, <1>3, WholeMove

\* A request arrives.
LEMMA WholeArrive ==
  ASSUME AutoEdits \subseteq {TRUE}, TypeInv, Exclusive, WholeInv, [Next]_vars,
         NEW p \in Request, Arrive(p)
  PROVE  WholeInv'
<1>1. ASSUME NEW c, NEW l, Accept(p, c, l), UNCHANGED <<plan, step, approvals, unresolved>>,
             Whole(l, c, plan.status, step, unresolved)
      PROVE  WholeInv'
  <2>1. Turn(p) /\ Go(p, l) /\ loc' = [loc EXCEPT ![p] = c]
    BY <1>1 DEF Accept, At
  <2> QED
    BY <1>1, <2>1, WholeGo
<1>2. UNCHANGED <<plan, step, approvals, unresolved>>
  BY Zenon DEF Arrive, ApproveRead, RejectRead, CancelRead, RetryRead, VerdictRead, history
<1>3. CASE ApproveRead(p)
  <2>1. PICK auto \in AutoEdits :
          Accept(p, Call("approve", 0, 0, {}, auto \/ N = 1), "approveMark")
    BY <1>3, Zenon DEF ApproveRead
  <2> DEFINE c == Call("approve", 0, 0, {}, auto \/ N = 1)
  <2>2. c.flag = (auto \/ N = 1)
    BY Zenon DEF Call
  <2>3. c.flag
    BY <2>2, Zenon
  <2> HIDE DEF c
  <2>4. Whole("approveMark", c, plan.status, step, unresolved)
    BY <2>3 DEF Whole
  <2> QED
    BY <1>1, <1>2, <2>1, <2>4 DEF c
<1>4. CASE RejectRead(p) \/ CancelRead(p)
  <2>1. \E c : \E l \in {"rejectMark", "cancelMark"} : Accept(p, c, l)
    BY <1>4, Zenon DEF RejectRead, CancelRead
  <2> QED
    BY <1>1, <1>2, <2>1, UnboundIsWhole DEF Unbound
<1>5. CASE RetryRead(p)
  <2>1. PICK s \in Step, reopen \in BOOLEAN :
          /\ step[s] = "failed"
          /\ Accept(p, Call("retry", s, 0, {t \in Later(s, "skipped") : reopen}, reopen),
                    "retryReset")
    BY <1>5, Zenon DEF RetryRead, Retryable
  <2> DEFINE c == Call("retry", s, 0, {t \in Later(s, "skipped") : reopen}, reopen)
  <2>2. c.at = s /\ c.op = "retry" /\ \A t \in c.todo : step[t] = "skipped"
    BY DEF Call, Later
  <2> HIDE DEF c
  <2>3. Whole("retryReset", c, plan.status, step, unresolved)
    BY <2>1, <2>2 DEF Whole
  <2> QED
    BY <1>1, <1>2, <2>1, <2>3 DEF c
<1>6. CASE VerdictRead(p)
  <2>1. PICK id \in 1..Len(approvals), op \in {"approveStep", "rejectStep", "override"} :
          Accept(p, Call(op, approvals[id].step, id, {}, FALSE), "verdictWrite")
    BY <1>6, Zenon DEF VerdictRead
  <2> DEFINE c == Call(op, approvals[id].step, id, {}, FALSE)
  <2>2. c.at = approvals[id].step
    BY DEF Call
  <2>3. Whole("verdictWrite", c, plan.status, step, unresolved)
    BY <2>2 DEF Whole, WholeInv, NoStepGates
  <2> QED
    BY <1>1, <1>2, <2>1, <2>3
<1> QED
  BY <1>3, <1>4, <1>5, <1>6 DEF Arrive

\* The actions that write the plan, or nothing but the handler's locals.
LEMMA WholeControl ==
  ASSUME Backend = "sqlite", TypeInv, LoopInv, WholeInv, [Next]_vars, NEW p \in Request,
         \/ ApproveStart(p) \/ RejectMark(p) \/ CancelMark(p) \/ RetryReopen(p)
         \/ RunNextStops(p) \/ RunNextContinues(p) \/ MarkApplied(p) \/ HaltRead(p) \/ HaltMark(p)
  PROVE  WholeInv'
<1> USE DEF LoopInv
<1>a. loc' = loc => loc' = [loc EXCEPT ![p] = loc[p]]
  BY DEF TypeInv, LocalsOK
<1>b. Whole(pc[p], loc[p], plan.status, step, unresolved) /\ Fits(pc[p], loc[p], plan.status)
  BY DEF WholeInv, Guarded
<1>c. Turn(p) /\ UNCHANGED <<step, approvals, unresolved>>
  BY DEF ApproveStart, RejectMark, CancelMark, RetryReopen, RunNextStops, RunNextContinues,
     MarkApplied, HaltRead, HaltMark, At, history
<1>d. plan'.autoEdit = plan.autoEdit
  <2>1. CASE RunNextStops(p) \/ RunNextContinues(p) \/ HaltRead(p)
    BY <2>1 DEF RunNextStops, RunNextContinues, HaltRead
  <2>2. CASE CancelMark(p) \/ RetryReopen(p) \/ MarkApplied(p) \/ HaltMark(p)
    <3>1. \E v : SetStatus(v)
      BY <2>2 DEF CancelMark, RetryReopen, MarkApplied, HaltMark
    <3> QED
      BY <3>1, AutoEditKept
  <2>3. CASE ApproveStart(p) \/ RejectMark(p)
    <3>1. \E v : \E old : SetStatusOver(v, old)
      BY <2>3 DEF ApproveStart, RejectMark
    <3> QED
      BY <3>1, AutoEditKept
  <2> QED
    BY <2>1, <2>2, <2>3
<1>e. plan'.status \in Live \cup {"approved"} => plan.status \in Live \cup {"approved"}
  <2>1. CASE RunNextStops(p) \/ RunNextContinues(p) \/ HaltRead(p)
    BY <2>1 DEF RunNextStops, RunNextContinues, HaltRead
  <2>2. CASE CancelMark(p) \/ RetryReopen(p) \/ MarkApplied(p) \/ HaltMark(p) \/ ApproveStart(p)
    <3>1. pc[p] \in {"cancelMark", "retryUnskip", "markApplied", "skip", "approveStart"}
      BY <2>2 DEF CancelMark, RetryReopen, MarkApplied, HaltMark, ApproveStart, At
    <3> QED
      BY <1>b, <3>1 DEF Fits, Working, Live
  <2>3. CASE RejectMark(p)
    <3>1. plan'.status = "rejected"
      BY <2>3, SetStatusOverType DEF RejectMark, TypeInv, RowsOK, PlanStatus
    <3> QED
      BY <3>1 DEF Live
  <2> QED
    BY <2>1, <2>2, <2>3
<1>f. ASSUME NEW l \in Unbound, Go(p, l), NEW c, loc' = [loc EXCEPT ![p] = c]
      PROVE  WholeInv'
  BY <1>c, <1>d, <1>e, <1>f, UnboundIsWhole, WholeGo
<1>g. Return(p) => WholeInv'
  BY <1>f DEF Return, Unbound
<1>1. CASE ApproveStart(p)
  BY <1>1, <1>a, <1>f DEF ApproveStart, Unbound
<1>2. CASE RejectMark(p) \/ CancelMark(p) \/ RunNextStops(p) \/ MarkApplied(p)
  BY <1>2, <1>g DEF RejectMark, CancelMark, RunNextStops, MarkApplied
<1>3. CASE RetryReopen(p)
  <2>1. pc[p] = "retryUnskip" /\ Go(p, "exec") /\ loc' = loc
    BY <1>3 DEF RetryReopen, At
  <2>2. Whole("exec", loc[p], plan'.status, step, unresolved)
    BY <1>b, <2>1 DEF Whole
  <2> QED
    BY <1>a, <1>c, <1>d, <1>e, <2>1, <2>2, WholeGo
<1>4. CASE RunNextContinues(p)
  <2>1. CASE Go(p, "markApplied") /\ loc' = loc
    BY <1>a, <1>f, <2>1 DEF Unbound
  <2>2. ASSUME NEW s \in Step, IsFirst(s, Pending), loc' = [loc EXCEPT ![p].at = s],
               Go(p, StartNext)
        PROVE  WholeInv'
    <3> DEFINE c == [loc[p] EXCEPT !.at = s]
    <3>1. loc' = [loc EXCEPT ![p] = c]
      BY <2>2 DEF TypeInv, LocalsOK
    <3>2. c.at = s
      BY DEF TypeInv, LocalsOK, Local
    <3> HIDE DEF c
    <3>3. step[s] = "pending"
      BY <2>2 DEF IsFirst, Pending
    <3>4. plan.status \in {"executing", "applied"} /\ plan' = plan
      BY <1>4, <1>b DEF RunNextContinues, At, Fits, Working, Stopped, Live
    <3>5. Go(p, "exec")
      BY <2>2, <3>4 DEF WholeInv, SignedOffWhole, Live, StartNext
    <3>6. Whole("exec", c, plan'.status, step, unresolved)
      BY <3>2, <3>3, <3>4 DEF Whole
    <3> QED
      BY <1>c, <1>d, <1>e, <3>1, <3>5, <3>6, WholeGo
  <2> QED
    BY <1>4, <2>1, <2>2 DEF RunNextContinues
<1>5. CASE HaltRead(p)
  <2> DEFINE c == [loc[p] EXCEPT !.todo = Later(loc[p].at, "pending")]
  <2>1. Go(p, "skip") /\ loc' = [loc EXCEPT ![p] = c]
    BY <1>5 DEF HaltRead, TypeInv, LocalsOK
  <2>2. \A t \in c.todo : step[t] = "pending"
    BY DEF TypeInv, LocalsOK, Local, Later
  <2> HIDE DEF c
  <2>3. Whole("skip", c, plan'.status, step, unresolved)
    BY <2>2 DEF Whole
  <2> QED
    BY <1>c, <1>d, <1>e, <2>1, <2>3, WholeGo
<1>6. CASE HaltMark(p)
  BY <1>6, <1>a, <1>f, <1>g DEF HaltMark, Unbound
<1> QED
  BY <1>1, <1>2, <1>3, <1>4, <1>5, <1>6

\* approve()'s sign-off, and the writes of approval rows, none of which gates a step.
LEMMA WholeDecide ==
  ASSUME TypeInv, Exclusive, WholeInv, [Next]_vars, NEW p \in Request,
         ApproveMark(p) \/ ApproveClose(p) \/ VerdictWrite(p)
  PROVE  WholeInv'
<1>a. loc' = [loc EXCEPT ![p] = loc[p]] \/ loc' # loc
  BY DEF TypeInv, LocalsOK
<1>b. Whole(pc[p], loc[p], plan.status, step, unresolved)
  BY DEF WholeInv
<1>c. Turn(p) /\ UNCHANGED <<step, unresolved>>
  BY DEF ApproveMark, ApproveClose, VerdictWrite, At, history
<1>d. UnresolvedExecuting'
  BY <1>c DEF WholeInv, UnresolvedExecuting
<1>e. ASSUME NEW i, NEW v, approvals' = [approvals EXCEPT ![i].status = v] PROVE NoStepGates'
  BY <1>e, GateKept DEF WholeInv, NoStepGates, TypeInv, RowsOK
<1>1. CASE ApproveMark(p)
  <2>1. /\ pc[p] = "approveMark" /\ Go(p, "approveClose") /\ loc' = loc /\ approvals' = approvals
        /\ grants' = IF loc[p].flag THEN Bump(grants, Step) ELSE grants
    BY <1>1, Zenon DEF ApproveMark, At
  <2>2. plan'.autoEdit = loc[p].flag
    BY <1>1, Zenon DEF ApproveMark
  <2>3. loc[p].flag
    BY <1>b, <2>1 DEF Whole
  <2>4. grants' = Bump(grants, Step)
    BY <2>1, <2>3, Zenon
  <2>5. \A s \in Step : grants'[s] >= 1
    BY <2>4, Bumped DEF TypeInv, HistoryOK
  <2>6. plan'.autoEdit
    BY <2>2, <2>3, Zenon
  <2>7. SignedOffWhole' /\ NoStepGates'
    BY <2>1, <2>5, <2>6 DEF SignedOffWhole, WholeInv, NoStepGates
  <2> QED
    BY <1>a, <1>c, <1>d, <2>1, <2>7, UnboundIsWhole, WholeMove DEF Unbound
<1>2. CASE ApproveClose(p)
  <2>1. NoStepGates'
    <3>1. CASE approvals' = approvals
      BY <3>1 DEF WholeInv, NoStepGates
    <3>2. CASE approvals' = [approvals EXCEPT ![1].status =
                               IF @ = "pending" THEN "approved" ELSE @]
      BY <3>2, <1>e
    <3> QED
      BY <1>2, <3>1, <3>2 DEF ApproveClose
  <2>2. SignedOffWhole'
    BY <1>2, SignedOffWholeKept DEF WholeInv, ApproveClose
  <2> QED
    BY <1>2, <1>a, <1>c, <1>d, <2>1, <2>2, UnboundIsWhole, WholeMove DEF Unbound, ApproveClose
<1>3. CASE VerdictWrite(p)
  <2>1. \E v : approvals' = [approvals EXCEPT ![loc[p].id].status = v]
    BY <1>3, Zenon DEF VerdictWrite
  <2>2. NoStepGates'
    BY <1>e, <2>1
  <2>3. SignedOffWhole'
    BY <1>3, SignedOffWholeKept DEF WholeInv, VerdictWrite
  <2>4. Return(p)
    BY <1>3, <1>b DEF VerdictWrite, At, Whole
  <2> QED
    BY <1>c, <1>d, <2>2, <2>3, <2>4, UnboundIsWhole, WholeMove DEF Unbound, Return
<1> QED
  BY <1>1, <1>2, <1>3

\* The writes of steps.
LEMMA WholeSteps ==
  ASSUME TypeInv, Exclusive, WholeInv, [Next]_vars, NEW p \in Request,
         \/ RetryReset(p) \/ RetryUnskip(p) \/ Execute(p) \/ NotSent(p) \/ CommandEnds(p)
         \/ HaltSkip(p)
  PROVE  WholeInv'
<1>a. loc' = loc => loc' = [loc EXCEPT ![p] = loc[p]]
  BY DEF TypeInv, LocalsOK
<1>b. Whole(pc[p], loc[p], plan.status, step, unresolved)
  BY DEF WholeInv
<1>c. Turn(p) /\ UNCHANGED <<plan, approvals>>
  BY DEF RetryReset, RetryUnskip, Execute, NotSent, CommandEnds, HaltSkip, At
<1>d. /\ loc[p] \in Local /\ loc[p].todo \in SUBSET Step
      /\ pc[p] \in StepLabel => loc[p].at \in Step
  BY LocalFields DEF TypeInv, LocalsOK
<1>e. \A s \in Step : step[s] # "executing" => s \notin unresolved
  BY DEF WholeInv, UnresolvedExecuting
<1>f. {"pending", "executing", "done", "failed", "skipped"} \subseteq StepStatus
  BY DEF StepStatus
<1>g. ASSUME StepFails(p), loc' = loc, loc[p].at \in Step, unresolved' \subseteq unresolved,
             loc[p].at \notin unresolved'
      PROVE  WholeInv'
  <2>1. PICK l \in Unbound : Go(p, l)
    BY <1>g DEF StepFails, AfterFailure, Unbound
  <2>2. SetStep(loc[p].at, "failed")
    BY <1>g DEF StepFails
  <2> QED
    BY <1>a, <1>c, <1>f, <1>g, <2>1, <2>2, UnboundIsWhole, WholeWrite
<1>1. CASE RetryReset(p)
  <2>1. /\ pc[p] = "retryReset" /\ loc' = loc /\ SetStep(loc[p].at, "pending")
        /\ Go(p, IF loc[p].flag THEN "retryUnskip" ELSE "exec") /\ unresolved' = unresolved
    BY <1>1, Zenon DEF RetryReset, At, history
  <2>2. PICK l \in {"retryUnskip", "exec"} : Go(p, l)
    BY <2>1, Zenon
  <2>3. loc[p].at \in Step
    BY <1>d, <2>1 DEF StepLabel
  <2>4. step'[loc[p].at] = "pending" /\ \A t \in Step \ {loc[p].at} : step'[t] = step[t]
    BY <1>f, <2>1, <2>3, SetStepType DEF TypeInv, RowsOK
  <2>5. /\ step[loc[p].at] = "failed" /\ loc[p].op = "retry"
        /\ \A t \in loc[p].todo : step[t] = "skipped"
    BY <1>b, <2>1 DEF Whole
  <2>6. loc[p].at \notin loc[p].todo /\ \A t \in loc[p].todo : step'[t] = "skipped"
    BY <1>d, <2>4, <2>5
  <2>7. Whole(l, loc[p], plan.status, step', unresolved')
    BY <2>4, <2>5, <2>6 DEF Whole
  <2> QED
    BY <1>a, <1>c, <1>e, <1>f, <2>1, <2>2, <2>3, <2>5, <2>7, WholeWrite
<1>2. CASE RetryUnskip(p)
  <2>1. pc[p] = "retryUnskip" /\ Go(p, "retryUnskip") /\ unresolved' = unresolved
    BY <1>2 DEF RetryUnskip, At, history
  <2>2. PICK t \in Step : t \in loc[p].todo /\ SetStep(t, "pending")
                          /\ loc' = [loc EXCEPT ![p].todo = @ \ {t}]
    BY <1>2, Zenon DEF RetryUnskip, IsFirst
  <2> DEFINE c == [loc[p] EXCEPT !.todo = @ \ {t}]
  <2>3. /\ loc' = [loc EXCEPT ![p] = c] /\ c.at = loc[p].at /\ c.op = loc[p].op
        /\ c.todo = loc[p].todo \ {t}
    BY <1>d, <2>2 DEF TypeInv, LocalsOK, Local
  <2> HIDE DEF c
  <2>4. step'[t] = "pending" /\ \A u \in Step \ {t} : step'[u] = step[u]
    BY <1>f, <2>2, SetStepType DEF TypeInv, RowsOK
  <2>5. /\ step[loc[p].at] = "pending" /\ loc[p].at \notin loc[p].todo /\ loc[p].op = "retry"
        /\ \A u \in loc[p].todo : step[u] = "skipped"
    BY <1>b, <2>1 DEF Whole
  <2>6. loc[p].at \in Step
    BY <1>d, <2>1 DEF StepLabel
  <2>7. Whole("retryUnskip", c, plan.status, step', unresolved')
    BY <1>d, <2>2, <2>3, <2>4, <2>5, <2>6 DEF Whole
  <2> QED
    BY <1>c, <1>e, <1>f, <2>1, <2>2, <2>3, <2>5, <2>7, WholeWrite
<1>3. CASE Execute(p)
  <2>1. /\ pc[p] = "exec" /\ loc' = loc /\ SetStep(loc[p].at, "executing")
        /\ unresolved' = unresolved
    BY <1>3 DEF Execute, At, history
  <2>2. PICK l \in {"invalid", "dispatch"} : Go(p, l)
    BY <1>3, Zenon DEF Execute
  <2>3. loc[p].at \in Step
    BY <1>d, <2>1 DEF StepLabel
  <2>4. step'[loc[p].at] = "executing"
    BY <1>f, <2>1, <2>3, SetStepType DEF TypeInv, RowsOK
  <2>5. loc[p].at \notin unresolved
    BY <1>b, <1>e, <2>1, <2>3 DEF Whole
  <2>6. Whole(l, loc[p], plan.status, step', unresolved')
    BY <1>b, <2>1, <2>4, <2>5 DEF Whole
  <2> QED
    BY <1>a, <1>c, <1>f, <2>1, <2>2, <2>3, <2>6, WholeWrite
<1>4. CASE NotSent(p)
  <2>1. pc[p] \in {"invalid", "dispatch"} /\ StepFails(p) /\ loc' = loc /\ unresolved' = unresolved
    BY <1>4 DEF NotSent, At, history
  <2>2. loc[p].at \in Step
    BY <1>d, <2>1 DEF StepLabel
  <2>3. loc[p].at \notin unresolved
    BY <1>b, <2>1 DEF Whole
  <2> QED
    BY <1>g, <2>1, <2>2, <2>3
<1>5. CASE CommandEnds(p)
  <2>1. pc[p] = "await" /\ loc' = loc /\ unresolved' = unresolved \ {loc[p].at}
    BY <1>5 DEF CommandEnds, At
  <2>2. loc[p].at \in Step
    BY <1>d, <2>1 DEF StepLabel
  <2>3. CASE StepFails(p)
    BY <1>g, <2>1, <2>2, <2>3
  <2>4. CASE SetStep(loc[p].at, "done") /\ Go(p, "next")
    <3>1. Whole("next", loc[p], plan.status, step', unresolved')
      BY UnboundIsWhole DEF Unbound
    <3> QED
      BY <1>a, <1>c, <1>f, <2>1, <2>2, <2>4, <3>1, WholeWrite
  <2> QED
    BY <1>5, <2>3, <2>4 DEF CommandEnds
<1>6. CASE HaltSkip(p)
  <2>1. pc[p] = "skip" /\ Go(p, "skip") /\ unresolved' = unresolved
    BY <1>6 DEF HaltSkip, At, history
  <2>2. PICK t \in Step : t \in loc[p].todo /\ SetStep(t, "skipped")
                          /\ loc' = [loc EXCEPT ![p].todo = @ \ {t}]
    BY <1>6, Zenon DEF HaltSkip, IsFirst
  <2> DEFINE c == [loc[p] EXCEPT !.todo = @ \ {t}]
  <2>3. loc' = [loc EXCEPT ![p] = c] /\ c.todo = loc[p].todo \ {t}
    BY <1>d, <2>2 DEF TypeInv, LocalsOK, Local
  <2> HIDE DEF c
  <2>4. \A u \in Step \ {t} : step'[u] = step[u]
    BY <1>f, <2>2, SetStepType DEF TypeInv, RowsOK
  <2>5. \A u \in loc[p].todo : step[u] = "pending"
    BY <1>b, <2>1 DEF Whole
  <2>6. Whole("skip", c, plan.status, step', unresolved')
    BY <1>d, <2>3, <2>4, <2>5 DEF Whole
  <2> QED
    BY <1>c, <1>e, <1>f, <2>1, <2>2, <2>3, <2>5, <2>6, WholeWrite
<1> QED
  BY <1>1, <1>2, <1>3, <1>4, <1>5, <1>6

\* A command is sent: its step is executing and becomes unresolved.
LEMMA WholeDispatch ==
  ASSUME TypeInv, Exclusive, WholeInv, [Next]_vars, NEW p \in Request, Dispatch(p)
  PROVE  WholeInv'
<1>1. /\ pc[p] = "dispatch" /\ Turn(p) /\ Go(p, "await") /\ loc' = loc
      /\ UNCHANGED <<plan, step, approvals>> /\ unresolved' = unresolved \cup {loc[p].at}
  BY DEF Dispatch, At
<1>2. loc' = [loc EXCEPT ![p] = loc[p]]
  BY <1>1 DEF TypeInv, LocalsOK
<1>3. step[loc[p].at] = "executing"
  BY <1>1 DEF WholeInv, Whole
<1>4. UnresolvedExecuting' /\ NoStepGates' /\ SignedOffWhole'
  BY <1>1, <1>3, SignedOffWholeKept DEF WholeInv, UnresolvedExecuting, NoStepGates
<1> QED
  BY <1>1, <1>2, <1>4, UnboundIsWhole, WholeMove DEF Unbound

LEMMA WholeInductive ==
  ASSUME Backend = "sqlite", AutoEdits \subseteq {TRUE}, TypeInv, LoopInv, WholeInv, [Next]_vars
  PROVE  WholeInv'
<1> USE DEF LoopInv
<1>1. CASE UNCHANGED vars
  BY <1>1 DEF vars, WholeInv, UnresolvedExecuting, NoStepGates, SignedOffWhole
<1>2. ASSUME NEW p \in Request, Work(p) PROVE WholeInv'
  <2>1. ~Refuse(p) /\ ~Submit(p) /\ ~Link(p) /\ ~LinkWrite(p)
    BY DEF WholeInv, Whole, Refuse, Submit, Link, LinkWrite, At
  <2> QED
    BY <1>2, <2>1, WholeControl, WholeDecide, WholeSteps, WholeDispatch DEF Work
<1>3. ASSUME NEW p \in Request, StatementFails(p) PROVE WholeInv'
  BY <1>3, UnboundIsWhole, WholeGo DEF StatementFails, Return, Unbound, history
<1>4. CASE Expire
  <2>1. plan'.status = "expired" /\ plan'.autoEdit = plan.autoEdit
    BY <1>4, SetStatusType, AutoEditKept DEF Expire, TypeInv, RowsOK, PlanStatus
  <2>2. \A p \in Request : pc[p] \in Unbound
    BY <1>4, ConstantsAssumption DEF Expire, Exclusive, Unbound
  <2> QED
    BY <1>4, <2>1, <2>2, UnboundIsWhole DEF Expire, WholeInv, history, UnresolvedExecuting,
       NoStepGates, SignedOffWhole, Live
<1>5. CASE Crash
  <2>1. UNCHANGED <<plan, step, approvals, unresolved, grants>> /\ \A q \in Request : pc'[q] = "idle"
    BY <1>5 DEF Crash, history
  <2> QED
    BY <2>1, UnboundIsWhole DEF Unbound, WholeInv, UnresolvedExecuting, NoStepGates, SignedOffWhole
<1> QED
  BY <1>1, <1>2, <1>3, <1>4, <1>5, WholeArrive DEF Next

\* The reachable states of a plan that is only signed off as a whole.
SignOffAlways == TypeInv /\ LoopInv /\ WholeInv

LEMMA SignOffAlwaysInductive ==
  ASSUME Backend = "sqlite", AutoEdits \subseteq {TRUE}
  PROVE  /\ Init => SignOffAlways
         /\ SignOffAlways /\ [Next]_vars => SignOffAlways'
BY InitTyped, LoopInit, WholeInit, TypeInvInductive, LoopInductive, WholeInductive
   DEF SignOffAlways

\* Under the sign-off of the whole plan, on the synchronous store, whatever fails
\* or crashes: executeStep() never sends the command of a step again while an
\* earlier one may still run.
THEOREM NeverRepeated ==
  ASSUME Backend = "sqlite", AutoEdits \subseteq {TRUE} PROVE Spec => UnresolvedNeverRepeated
<1>1. SignOffAlways => \A p \in Request : SendsCommand(p) => loc[p].at \notin unresolved
  BY DEF SignOffAlways, WholeInv, Whole, SendsCommand
<1> QED
  BY <1>1, SignOffAlwaysInductive, PTL DEF Spec, UnresolvedNeverRepeated

\* ... and a cancel, a failure, a rejection or an expiry stops runNext(): only a
\* retry sends a command of such a plan.
THEOREM StoppedStays ==
  ASSUME Backend = "sqlite", AutoEdits \subseteq {TRUE} PROVE Spec => StoppedPlanStartsNothing
<1>1. SignOffAlways => \A p \in Request :
        SendsCommand(p) /\ loc[p].op # "retry" => plan.status \in {"executing", "applied"}
  BY DEF SignOffAlways, WholeInv, Whole, SendsCommand
<1> QED
  BY <1>1, SignOffAlwaysInductive, PTL DEF Spec, StoppedPlanStartsNothing

-----------------------------------------------------------------------------
(* Part 4.  Until a retry, the steps run in order.                         *)

\* The labels of a handler that moves the plan on, ...
Runner == {"approveClose", "approveStart", "next", "markApplied", "exec", "invalid", "dispatch",
           "await", "halt", "skip"}

\* ... and what the steps look like to it: those before its own have ended, those
\* after it have ended or wait.  Only haltPlan() leaves others.
Ended(s, rows, coe) == rows[s] = "done" \/ (rows[s] = "failed" /\ s \in coe)
Clean(s, rows, coe) == rows[s] = "pending" \/ Ended(s, rows, coe)
InOrder(l, c, status, rows, coe) ==
  /\ l \notin {"retryReset", "retryUnskip"}
  /\ l = "next" =>
       status \in {"execution_failed", "cancelled"} \/ \A s \in Step : Clean(s, rows, coe)
  /\ l = "markApplied" => \A s \in Step : Ended(s, rows, coe)
  /\ l \in {"exec", "invalid", "dispatch", "await"} =>
       \A t \in Step \ {c.at} : Clean(t, rows, coe) /\ (t < c.at => Ended(t, rows, coe))

OneRunner == \A p, q \in Request : pc[p] \in Runner /\ pc[q] \in Runner => p = q
AppliedIsOver ==
  plan.status = "applied" =>
    (\A s \in Step : Ended(s, step, shape.coe)) /\ \A p \in Request : pc[p] \notin Runner
Orderly ==
  /\ \A p \in Request : InOrder(pc[p], loc[p], plan.status, step, shape.coe)
  /\ OneRunner
  /\ AppliedIsOver

OrderInv == Retried \/ Orderly

LEMMA OrderInit == Init => Orderly
BY DEF Init, Orderly, InOrder, OneRunner, AppliedIsOver, Runner

\* The only runner moves, or a handler becomes the only runner.
LEMMA OrderRun ==
  ASSUME TypeInv, Exclusive, Orderly, NEW p \in Request, Turn(p), NEW l, Go(p, l),
         NEW c, loc' = [loc EXCEPT ![p] = c], shape' = shape,
         \A q \in Request \ {p} : pc[q] \notin Runner,
         InOrder(l, c, plan'.status, step', shape.coe),
         plan'.status = "applied" =>
           l \notin Runner /\ \A s \in Step : Ended(s, step', shape.coe)
  PROVE  Orderly'
<1>1. pc'[p] = l /\ \A q \in Request \ {p} : pc'[q] = pc[q]
  BY Moved
<1>2. loc'[p] = c
  BY Relocated
<1>3. \A q \in Request \ {p} : pc[q] = "idle"
  BY Alone DEF Runner
<1>4. ASSUME NEW q \in Request
      PROVE  InOrder(pc'[q], loc'[q], plan'.status, step', shape'.coe)
  <2>1. CASE q = p
    BY <2>1, <1>1, <1>2
  <2>2. CASE q # p
    BY <2>2, <1>1, <1>3 DEF InOrder
  <2> QED
    BY <2>1, <2>2
<1>5. OneRunner' /\ AppliedIsOver'
  BY <1>1, <1>3 DEF OneRunner, AppliedIsOver, Runner
<1> QED
  BY <1>4, <1>5 DEF Orderly

\* A runner is alone, and the plan is not applied yet.
LEMMA RunnerAlone ==
  ASSUME Orderly, NEW p \in Request, pc[p] \in Runner
  PROVE  plan.status # "applied" /\ \A q \in Request \ {p} : pc[q] \notin Runner
BY DEF Orderly, OneRunner, AppliedIsOver

\* Another handler moves and writes no step.
LEMMA OrderAside ==
  ASSUME TypeInv, Exclusive, Orderly, NEW p \in Request, Turn(p), NEW l, Go(p, l),
         NEW c, loc' = [loc EXCEPT ![p] = c], UNCHANGED <<step, shape>>,
         l \notin Runner \cup {"retryReset", "retryUnskip"},
         plan'.status = "applied" => plan.status = "applied"
  PROVE  Orderly'
<1>1. pc'[p] = l /\ \A q \in Request \ {p} : pc'[q] = pc[q]
  BY Moved
<1>2. \A q \in Request \ {p} : pc[q] \in {"idle", "await"} /\ loc'[q] = loc[q]
  BY Alone, Relocated
<1>3. ASSUME NEW q \in Request
      PROVE  InOrder(pc'[q], loc'[q], plan'.status, step', shape'.coe)
  <2>1. CASE q = p
    BY <2>1, <1>1 DEF InOrder, Runner
  <2>2. CASE q # p
    BY <2>2, <1>1, <1>2 DEF Orderly, InOrder
  <2> QED
    BY <2>1, <2>2
<1>4. OneRunner' /\ AppliedIsOver'
  BY <1>1 DEF Orderly, OneRunner, AppliedIsOver
<1> QED
  BY <1>3, <1>4 DEF Orderly

\* A retry is one more decision about a step that already had one.
LEMMA RetryRetries ==
  ASSUME TypeInv, LoopInv, WholeInv, NEW p \in Request, RetryRead(p)
  PROVE  Retried'
<1>1. PICK s \in Step : step[s] = "failed" /\ grants' = Bump(grants, {s})
  BY Zenon DEF RetryRead, Retryable
<1>2. plan.status \in Live
  BY <1>1 DEF LoopInv, Undecided
<1>3. grants[s] >= 1
  BY <1>2 DEF WholeInv, SignedOffWhole
<1>4. grants \in [Step -> Nat] /\ s \in {s}
  BY DEF TypeInv, HistoryOK
<1>5. grants'[s] = grants[s] + 1 /\ grants[s] \in Nat
  BY <1>1, <1>4, Bumped
<1> QED
  BY <1>3, <1>5 DEF Retried

\* What a handler does when it is not, or no longer, a runner.
LEMMA OrderOthers ==
  ASSUME SignOffAlways, Orderly, NEW p \in Request,
         \/ ApproveRead(p) \/ RejectRead(p) \/ CancelRead(p) \/ VerdictRead(p)
         \/ RejectMark(p) \/ CancelMark(p) \/ VerdictWrite(p) \/ RunNextStops(p)
         \/ StatementFails(p)
  PROVE  Orderly'
<1> USE DEF SignOffAlways, LoopInv
<1>a. Turn(p) /\ UNCHANGED <<step, shape>>
  BY DEF ApproveRead, RejectRead, CancelRead, VerdictRead, RejectMark, CancelMark, VerdictWrite,
     RunNextStops, StatementFails, Accept, At
<1>b. ASSUME NEW l \in {"idle", "approveMark", "rejectMark", "cancelMark", "verdictWrite"},
             Go(p, l), NEW c, loc' = [loc EXCEPT ![p] = c],
             plan' = plan \/ plan'.status # "applied"
      PROVE  Orderly'
  BY <1>a, <1>b, OrderAside DEF Runner
<1>1. CASE ApproveRead(p) \/ RejectRead(p) \/ CancelRead(p) \/ VerdictRead(p)
  <2>1. /\ \E c : \E l \in {"approveMark", "rejectMark", "cancelMark", "verdictWrite"} :
             Accept(p, c, l)
        /\ plan' = plan
    BY <1>1, Zenon DEF ApproveRead, RejectRead, CancelRead, VerdictRead
  <2> QED
    BY <1>b, <2>1 DEF Accept
<1>2. CASE RejectMark(p) \/ CancelMark(p)
  <2>1. plan'.status \in {"rejected", "cancelled"}
    BY <1>2, SetStatusType, SetStatusOverType
       DEF RejectMark, CancelMark, TypeInv, RowsOK, PlanStatus
  <2> QED
    BY <1>2, <1>b, <2>1 DEF RejectMark, CancelMark, Return
<1>3. CASE VerdictWrite(p)
  <2>1. Return(p) /\ plan' = plan
    BY <1>3 DEF VerdictWrite, At, WholeInv, Whole
  <2> QED
    BY <1>b, <2>1 DEF Return
<1>4. CASE RunNextStops(p) \/ StatementFails(p)
  BY <1>4, <1>b DEF RunNextStops, StatementFails, Return
<1> QED
  BY <1>1, <1>2, <1>3, <1>4

\* The runner's own steps.
LEMMA OrderRunner ==
  ASSUME SignOffAlways, Orderly, NEW p \in Request,
         \/ ApproveMark(p) \/ ApproveClose(p) \/ ApproveStart(p) \/ RunNextContinues(p)
         \/ MarkApplied(p) \/ Execute(p) \/ NotSent(p) \/ Dispatch(p) \/ CommandEnds(p)
         \/ HaltRead(p) \/ HaltSkip(p) \/ HaltMark(p)
  PROVE  Orderly'
<1> USE DEF SignOffAlways, LoopInv
<1> DEFINE coe == shape.coe
<1>a. loc' = loc => loc' = [loc EXCEPT ![p] = loc[p]]
  BY DEF TypeInv, LocalsOK
<1>b. Fits(pc[p], loc[p], plan.status) /\ InOrder(pc[p], loc[p], plan.status, step, shape.coe)
  BY DEF Guarded, Orderly
<1>c. Turn(p) /\ shape' = shape
  <2>1. CASE ApproveMark(p) \/ ApproveClose(p) \/ ApproveStart(p) \/ RunNextContinues(p)
             \/ MarkApplied(p) \/ Execute(p)
    BY <2>1 DEF ApproveMark, ApproveClose, ApproveStart, RunNextContinues, MarkApplied, Execute, At
  <2>2. CASE NotSent(p) \/ Dispatch(p) \/ CommandEnds(p) \/ HaltRead(p) \/ HaltSkip(p) \/ HaltMark(p)
    BY <2>2 DEF NotSent, Dispatch, CommandEnds, HaltRead, HaltSkip, HaltMark, At
  <2> QED
    BY <2>1, <2>2
<1>d. pc[p] \in StepLabel => loc[p].at \in Step
  BY DEF TypeInv, LocalsOK
<1>e. ASSUME pc[p] \in Runner, NEW l, Go(p, l), NEW c, loc' = [loc EXCEPT ![p] = c],
             plan'.status = plan.status \/ plan'.status # "applied",
             InOrder(l, c, plan'.status, step', shape.coe)
      PROVE  Orderly'
  BY <1>c, <1>e, RunnerAlone, OrderRun
<1>f. ASSUME pc[p] \in {"exec", "invalid", "dispatch", "await"}, NEW v \in StepStatus,
             SetStep(loc[p].at, v)
      PROVE  /\ loc[p].at \in Step /\ step'[loc[p].at] = v
             /\ \A t \in Step \ {loc[p].at} :
                  Clean(t, step', coe) /\ (t < loc[p].at => Ended(t, step', coe))
  <2>1. loc[p].at \in Step
    BY <1>d, <1>f DEF StepLabel
  <2>2. step'[loc[p].at] = v /\ \A t \in Step \ {loc[p].at} : step'[t] = step[t]
    BY <1>f, <2>1, SetStepType DEF TypeInv, RowsOK
  <2> QED
    BY <1>b, <1>f, <2>1, <2>2 DEF InOrder, Clean, Ended
<1>g. {"executing", "done", "failed"} \subseteq StepStatus
  BY DEF StepStatus
<1>h. ASSUME pc[p] \in {"invalid", "dispatch", "await"}, StepFails(p), loc' = loc, plan' = plan
      PROVE  Orderly'
  <2>1. SetStep(loc[p].at, "failed") /\ pc[p] \in Runner
    BY <1>h DEF StepFails, Runner
  <2>2. CASE loc[p].at \in coe
    <3>1. \A s \in Step : Clean(s, step', coe)
      BY <1>f, <1>g, <1>h, <2>1, <2>2 DEF Clean, Ended
    <3>2. InOrder("next", loc[p], plan'.status, step', coe) /\ Go(p, "next")
      BY <1>h, <2>2, <3>1 DEF InOrder, StepFails, AfterFailure
    <3> QED
      BY <1>a, <1>e, <1>h, <2>1, <3>2
  <2>3. CASE loc[p].at \notin coe
    <3>1. InOrder("halt", loc[p], plan'.status, step', coe) /\ Go(p, "halt")
      BY <1>h, <2>3 DEF InOrder, StepFails, AfterFailure
    <3> QED
      BY <1>a, <1>e, <1>h, <2>1, <3>1
  <2> QED
    BY <2>2, <2>3
<1>1. CASE ApproveMark(p)
  <2>1. pc[p] = "approveMark" /\ Go(p, "approveClose") /\ loc' = loc
    BY <1>1 DEF ApproveMark, At
  <2>2. plan'.status = "approved"
    BY <1>1, Zenon DEF ApproveMark
  <2>3. plan.status \notin Live
    BY <1>b, <2>1 DEF Fits, Live
  <2>4. \A q \in Request \ {p} : pc[q] \notin Runner
    <3>1. \A q \in Request \ {p} : pc[q] \in {"idle", "await"} /\ Fits(pc[q], loc[q], plan.status)
      BY <1>c, Alone DEF Guarded
    <3> QED
      BY <2>3, <3>1 DEF Fits, Working, Runner
  <2>5. InOrder("approveClose", loc[p], plan'.status, step', coe)
    BY DEF InOrder
  <2> QED
    BY <1>a, <1>c, <2>1, <2>2, <2>4, <2>5, OrderRun
<1>2. CASE ApproveClose(p)
  <2>1. pc[p] \in Runner /\ Go(p, "approveStart") /\ loc' = loc /\ plan' = plan
    BY <1>2 DEF ApproveClose, At, Runner
  <2>2. InOrder("approveStart", loc[p], plan'.status, step', coe)
    BY DEF InOrder
  <2> QED
    BY <1>a, <1>e, <2>1, <2>2
<1>3. CASE ApproveStart(p)
  <2>1. pc[p] = "approveStart" /\ Go(p, "next") /\ loc' = loc /\ step' = step
    BY <1>3 DEF ApproveStart, At
  <2>2. plan'.status = "executing"
    <3>1. loc[p].flag \in BOOLEAN
      BY LocalFields, Zenon DEF TypeInv, LocalsOK
    <3> QED
      BY <1>3, <3>1, SetStatusOverType DEF ApproveStart, TypeInv, RowsOK, PlanStatus
  <2>3. \A s \in Step : Clean(s, step, coe)
    BY <1>b, <2>1 DEF Fits, Undecided, Live, Clean
  <2>4. InOrder("next", loc[p], plan'.status, step', coe)
    BY <2>1, <2>3 DEF InOrder
  <2> QED
    BY <1>a, <1>e, <2>1, <2>2, <2>4 DEF Runner
<1>4. CASE RunNextContinues(p)
  <2>1. pc[p] = "next" /\ UNCHANGED <<plan, step>> /\ ~Stopped
    BY <1>4 DEF RunNextContinues, At
  <2>2. \A s \in Step : Clean(s, step, coe)
    BY <1>b, <2>1 DEF InOrder, Stopped
  <2>3. CASE Pending = {} /\ Go(p, "markApplied") /\ loc' = loc
    <3>1. InOrder("markApplied", loc[p], plan'.status, step', coe)
      BY <2>1, <2>2, <2>3 DEF InOrder, Clean, Pending
    <3> QED
      BY <1>a, <1>e, <2>1, <2>3, <3>1 DEF Runner
  <2>4. ASSUME NEW s \in Step, IsFirst(s, Pending), loc' = [loc EXCEPT ![p].at = s],
               Go(p, StartNext)
        PROVE  Orderly'
    <3> DEFINE c == [loc[p] EXCEPT !.at = s]
    <3>1. loc' = [loc EXCEPT ![p] = c]
      BY <2>4 DEF TypeInv, LocalsOK
    <3>2. c.at = s
      BY DEF TypeInv, LocalsOK, Local
    <3> HIDE DEF c
    <3>3. \A t \in Step : t < s => step[t] # "pending"
      BY <2>4 DEF IsFirst, Pending, Step
    <3>4. PICK l \in {"exec", "submit"} : Go(p, l)
      BY <2>4 DEF StartNext
    <3>5. InOrder(l, c, plan'.status, step', coe)
      BY <2>1, <2>2, <3>2, <3>3 DEF InOrder, Clean
    <3> QED
      BY <1>e, <2>1, <3>1, <3>4, <3>5 DEF Runner
  <2> QED
    BY <1>4, <2>3, <2>4 DEF RunNextContinues
<1>5. CASE MarkApplied(p)
  <2>1. pc[p] = "markApplied" /\ Return(p) /\ step' = step
    BY <1>5 DEF MarkApplied, At
  <2>2. \A s \in Step : Ended(s, step', coe)
    BY <1>b, <2>1 DEF InOrder
  <2>3. InOrder("idle", NoCall, plan'.status, step', coe)
    BY DEF InOrder
  <2>4. \A q \in Request \ {p} : pc[q] \notin Runner
    BY <2>1, RunnerAlone DEF Runner
  <2> QED
    BY <1>c, <2>1, <2>2, <2>3, <2>4, OrderRun DEF Return, Runner
<1>6. CASE Execute(p)
  <2>1. pc[p] = "exec" /\ loc' = loc /\ SetStep(loc[p].at, "executing") /\ plan' = plan
    BY <1>6 DEF Execute, At
  <2>2. PICK l \in {"invalid", "dispatch"} : Go(p, l)
    BY <1>6, Zenon DEF Execute
  <2>3. InOrder(l, loc[p], plan'.status, step', coe)
    BY <1>f, <1>g, <2>1 DEF InOrder
  <2> QED
    BY <1>a, <1>e, <2>1, <2>2, <2>3 DEF Runner
<1>7. CASE NotSent(p)
  BY <1>7, <1>h DEF NotSent, At
<1>8. CASE Dispatch(p)
  <2>1. pc[p] = "dispatch" /\ loc' = loc /\ Go(p, "await") /\ UNCHANGED <<plan, step>>
    BY <1>8 DEF Dispatch, At
  <2>2. InOrder("await", loc[p], plan'.status, step', coe)
    BY <1>b, <2>1 DEF InOrder
  <2> QED
    BY <1>a, <1>e, <2>1, <2>2 DEF Runner
<1>9. CASE CommandEnds(p)
  <2>1. pc[p] = "await" /\ loc' = loc /\ plan' = plan
    BY <1>9 DEF CommandEnds, At
  <2>2. CASE StepFails(p)
    BY <1>h, <2>1, <2>2
  <2>3. CASE SetStep(loc[p].at, "done") /\ Go(p, "next")
    <3>1. \A s \in Step : Clean(s, step', coe)
      BY <1>f, <1>g, <2>1, <2>3 DEF Clean, Ended
    <3>2. InOrder("next", loc[p], plan'.status, step', coe)
      BY <3>1 DEF InOrder
    <3> QED
      BY <1>a, <1>e, <2>1, <2>3, <3>2 DEF Runner
  <2> QED
    BY <1>9, <2>2, <2>3 DEF CommandEnds
<1>10. CASE HaltRead(p) \/ HaltSkip(p)
  <2>1. pc[p] \in Runner /\ Go(p, "skip") /\ plan' = plan /\ \E c : loc' = [loc EXCEPT ![p] = c]
    BY <1>10, Zenon DEF HaltRead, HaltSkip, At, Runner
  <2>2. \A c : InOrder("skip", c, plan'.status, step', coe)
    BY DEF InOrder
  <2> QED
    BY <1>e, <2>1, <2>2
<1>11. CASE HaltMark(p)
  <2>1. pc[p] \in Runner /\ plan'.status = "execution_failed"
    BY <1>11, SetStatusType DEF HaltMark, HaltStatus, At, Runner, TypeInv, RowsOK, PlanStatus
  <2>2. \A c : InOrder("next", c, plan'.status, step', coe) /\ InOrder("idle", c, plan'.status, step', coe)
    BY <2>1 DEF InOrder
  <2> QED
    BY <1>11, <1>a, <1>e, <2>1, <2>2 DEF HaltMark, Return
<1> QED
  BY <1>1, <1>2, <1>3, <1>4, <1>5, <1>6, <1>7, <1>8, <1>9, <1>10, <1>11

LEMMA OrderInductive ==
  ASSUME Backend = "sqlite", SignOffAlways, OrderInv, [Next]_vars
  PROVE  OrderInv'
<1> USE DEF SignOffAlways
<1>a. Retried => Retried'
  BY GrantsGrow DEF Retried
<1>b. SUFFICES ASSUME Orderly, ~Retried' PROVE Orderly'
  BY <1>a DEF OrderInv
<1>1. CASE UNCHANGED vars
  BY <1>1, <1>b DEF vars, Orderly, OneRunner, AppliedIsOver
<1>2. ASSUME NEW p \in Request, Arrive(p) \/ Work(p) \/ StatementFails(p) PROVE Orderly'
  <2>1. ~RetryRead(p)
    BY <1>b, RetryRetries
  <2>2. ~RetryReset(p) /\ ~RetryUnskip(p) /\ ~RetryReopen(p)
    BY <1>b DEF Orderly, InOrder, RetryReset, RetryUnskip, RetryReopen, At
  <2>3. ~Refuse(p) /\ ~Submit(p) /\ ~Link(p) /\ ~LinkWrite(p)
    BY DEF WholeInv, Whole, Refuse, Submit, Link, LinkWrite, At
  <2> QED
    BY <1>2, <1>b, <2>1, <2>2, <2>3, OrderOthers, OrderRunner DEF Arrive, Work
<1>3. CASE Expire
  <2>1. plan'.status = "expired"
    BY <1>3, SetStatusType DEF Expire, TypeInv, RowsOK, PlanStatus
  <2>2. \A p \in Request : pc[p] \in {"idle", "await"}
    BY <1>3, ConstantsAssumption DEF Expire, LoopInv, Exclusive
  <2> QED
    BY <1>3, <1>b, <2>1, <2>2 DEF Expire, Orderly, OneRunner, AppliedIsOver, InOrder
<1>4. CASE Crash
  <2>1. UNCHANGED <<plan, step, shape>> /\ \A q \in Request : pc'[q] = "idle"
    BY <1>4 DEF Crash
  <2> QED
    BY <1>b, <2>1 DEF Orderly, OneRunner, AppliedIsOver, InOrder, Runner
<1> QED
  BY <1>1, <1>2, <1>3, <1>4 DEF Next

\* "run every step in order after plan approval", on the synchronous store and for
\* the sign-off of whole plans: until somebody retries, executeStep() sends a command
\* only when every earlier step is done or has failed tolerably, whatever crashes.
THEOREM RunsInOrder ==
  ASSUME Backend = "sqlite", AutoEdits \subseteq {TRUE} PROVE Spec => InOrderUntilRetry
<1>1. Init => SignOffAlways /\ OrderInv
  BY SignOffAlwaysInductive, OrderInit DEF OrderInv
<1>2. SignOffAlways /\ OrderInv /\ [Next]_vars => (SignOffAlways /\ OrderInv)'
  BY SignOffAlwaysInductive, OrderInductive
<1>3. SignOffAlways /\ OrderInv => \A p \in Request :
        SendsCommand(p) /\ ~Retried => \A t \in Step : t < loc[p].at => Settled(t)
  <2> SUFFICES ASSUME SignOffAlways, Orderly, NEW p \in Request, pc[p] = "dispatch",
                      NEW t \in Step, t < loc[p].at
               PROVE  Settled(t)
    BY DEF OrderInv, SendsCommand
  <2>1. loc[p].at \in Step
    BY DEF SignOffAlways, TypeInv, LocalsOK, StepLabel
  <2>2. t # loc[p].at
    BY <2>1 DEF Step
  <2> QED
    BY <2>2 DEF Orderly, InOrder, Ended, Settled
<1> QED
  BY <1>1, <1>2, <1>3, PTL DEF Spec, InOrderUntilRetry

\* ... and a plan shown as applied, which nobody has retried a step of, has no step
\* left pending, running, skipped or failed for good (runNext).
THEOREM AppliedMeansDone ==
  ASSUME Backend = "sqlite", AutoEdits \subseteq {TRUE}
  PROVE  Spec => []AppliedMeansDoneUntilRetry
<1>1. Init => SignOffAlways /\ OrderInv
  BY SignOffAlwaysInductive, OrderInit DEF OrderInv
<1>2. SignOffAlways /\ OrderInv /\ [Next]_vars => (SignOffAlways /\ OrderInv)'
  BY SignOffAlwaysInductive, OrderInductive
<1>3. OrderInv => AppliedMeansDoneUntilRetry
  BY DEF OrderInv, Orderly, AppliedIsOver, Ended, Settled, AppliedMeansDoneUntilRetry
<1> QED
  BY <1>1, <1>2, <1>3, PTL DEF Spec
=============================================================================
