------------------------ MODULE PlanExecution_proofs ------------------------
(***************************************************************************)
(* Proofs about PlanExecution, for every number of steps, of handlers, of  *)
(* operations and of faults.                                               *)
(***************************************************************************)
EXTENDS PlanExecution, SequenceTheorems, TLAPS

(* Typing, in four parts.  A handler at a step label holds a step in `at`. *)

StepLabel == {"retryReset", "retryUnskip", "refuse", "submit", "link", "linkWrite",
              "exec", "invalid", "dispatch", "await", "halt", "skip"}

RowsOK ==
  /\ plan \in PlanRow
  /\ step \in [Step -> StepStatus]
  /\ shape \in Shape
  /\ approvals \in Seq(ApprovalRow)
ControlOK ==
  /\ pc \in [Request -> Label]
  /\ loop \in Request \cup {None}
LocalsOK ==
  /\ loc \in [Request -> Local]
  /\ \A p \in Request : pc[p] \in StepLabel => loc[p].at \in Step
HistoryOK ==
  /\ unresolved \in SUBSET Step
  /\ starts \in [Step -> Nat]
  /\ grants \in [Step -> Nat]
  /\ signedOff \in BOOLEAN
  /\ budget \in [ops : Nat, faults : Nat]
TypeInv == RowsOK /\ ControlOK /\ LocalsOK /\ HistoryOK

(* What the building blocks of the actions do to well-typed values.        *)

\* SetStatus writes the status and nothing else.
LEMMA SetStatusType ==
  ASSUME plan \in PlanRow, NEW s \in PlanStatus, SetStatus(s)
  PROVE  plan' \in PlanRow /\ plan'.status = s
BY DEF SetStatus, PlanRow

LEMMA SetStatusOverType ==
  ASSUME plan \in PlanRow, NEW s \in PlanStatus, NEW old \in BOOLEAN, SetStatusOver(s, old)
  PROVE  plan' \in PlanRow /\ plan'.status = s
<1>1. plan.autoEdit \in BOOLEAN
  BY Zenon DEF PlanRow
<1>2. PICK auto \in BOOLEAN : plan' = [status |-> s, autoEdit |-> auto]
  BY <1>1, Zenon DEF SetStatusOver
<1> QED
  BY <1>2, Zenon DEF PlanRow

\* SetStep writes one row.
LEMMA SetStepType ==
  ASSUME step \in [Step -> StepStatus], NEW s \in Step, NEW v \in StepStatus,
         SetStep(s, v)
  PROVE  /\ step' \in [Step -> StepStatus]
         /\ step'[s] = v
         /\ \A t \in Step \ {s} : step'[t] = step[t]
BY DEF SetStep

\* Bump counts up, for the steps of S only.
LEMMA BumpType ==
  ASSUME NEW c \in [Step -> Nat], NEW S
  PROVE  Bump(c, S) \in [Step -> Nat]
BY DEF Bump, Step

\* The components of a handler's locals.
LEMMA LocalFields ==
  ASSUME NEW r \in Local
  PROVE  /\ r.op \in AllOps \cup {"none"}
         /\ r.at \in 0..N
         /\ r.id \in Nat
         /\ r.todo \in SUBSET Step
         /\ r.flag \in BOOLEAN
         /\ r.seen \in StepStatus
<1>1. r.flag \in BOOLEAN
  BY Zenon DEF Local
<1> QED
  BY <1>1 DEF Local

\* Call builds locals.
LEMMA CallType ==
  ASSUME NEW op \in AllOps \cup {"none"}, NEW s \in 0..N, NEW id \in Nat,
         NEW T \in SUBSET Step, NEW b \in BOOLEAN
  PROVE  Call(op, s, id, T, b) \in Local /\ Call(op, s, id, T, b).at = s
<1>1. "pending" \in StepStatus
  BY DEF StepStatus
<1>2. Call(op, s, id, T, b) \in Local
  BY <1>1, Zenon DEF Call, Local
<1> QED
  BY <1>2 DEF Call

LEMMA NoCallType == NoCall \in Local
<1>1. 0 \in 0..N /\ 0 \in Nat /\ {} \in SUBSET Step
  BY ConstantsAssumption
<1> QED
  BY <1>1, CallType, Zenon DEF NoCall

\* The control of a handler that goes on with new locals c.
LEMMA GoWith ==
  ASSUME ControlOK, LocalsOK, NEW p \in Request, NEW l \in Label, Go(p, l),
         NEW c \in Local, loc' = [loc EXCEPT ![p] = c],
         l \in StepLabel => c.at \in Step
  PROVE  ControlOK' /\ LocalsOK'
<1>1. ControlOK'
  BY DEF ControlOK, Go
<1>2. pc'[p] = l /\ \A q \in Request \ {p} : pc'[q] = pc[q]
  BY DEF ControlOK, Go
<1>3. loc' \in [Request -> Local]
  BY DEF LocalsOK
<1>4. loc'[p] = c /\ \A q \in Request \ {p} : loc'[q] = loc[q]
  BY DEF LocalsOK
<1>5. ASSUME NEW q \in Request, pc'[q] \in StepLabel
      PROVE  loc'[q].at \in Step
  <2>1. CASE q = p
    BY <2>1, <1>2, <1>4, <1>5
  <2>2. CASE q # p
    BY <2>2, <1>2, <1>4, <1>5 DEF LocalsOK
  <2> QED
    BY <2>1, <2>2
<1> QED
  BY <1>1, <1>3, <1>5 DEF LocalsOK

\* ... and of one that goes on with the locals it has.
LEMMA GoOn ==
  ASSUME ControlOK, LocalsOK, NEW p \in Request, NEW l \in Label, Go(p, l),
         loc' = loc, l \in StepLabel => loc[p].at \in Step
  PROVE  ControlOK' /\ LocalsOK'
<1>1. loc[p] \in Local /\ loc' = [loc EXCEPT ![p] = loc[p]]
  BY DEF LocalsOK
<1> QED
  BY <1>1, GoWith

LEMMA ReturnType ==
  ASSUME ControlOK, LocalsOK, NEW p \in Request, Return(p)
  PROVE  ControlOK' /\ LocalsOK'
<1>1. "idle" \in Label /\ "idle" \notin StepLabel
  BY DEF Label, StepLabel
<1> QED
  BY <1>1, NoCallType, GoWith DEF Return

LEMMA AcceptType ==
  ASSUME TypeInv, NEW p \in Request, NEW l \in Label, NEW c \in Local,
         Accept(p, c, l), l \in StepLabel => c.at \in Step
  PROVE  ControlOK' /\ LocalsOK' /\ budget' \in [ops : Nat, faults : Nat]
<1>1. ControlOK' /\ LocalsOK'
  BY GoWith DEF Accept, TypeInv
<1>2. budget' \in [ops : Nat, faults : Nat]
  BY DEF Accept, TypeInv, HistoryOK
<1> QED
  BY <1>1, <1>2

\* A failing step ends in a typed row.
LEMMA StepFailsType ==
  ASSUME TypeInv, NEW p \in Request, StepFails(p), loc' = loc, loc[p].at \in Step
  PROVE  step' \in [Step -> StepStatus] /\ ControlOK' /\ LocalsOK'
<1>1. step' \in [Step -> StepStatus]
  BY SetStepType DEF TypeInv, RowsOK, StepFails, StepStatus
<1>2. "next" \in Label /\ "halt" \in Label
  BY DEF Label
<1> QED
  BY <1>1, <1>2, GoOn DEF TypeInv, StepFails, AfterFailure

\* Setting the status of an approval row keeps the table typed.
LEMMA VerdictType ==
  ASSUME approvals \in Seq(ApprovalRow), NEW i \in Nat, NEW v \in ApprovalStatus
  PROVE  [approvals EXCEPT ![i].status = v] \in Seq(ApprovalRow)
<1> DEFINE new == [approvals EXCEPT ![i].status = v]
<1>1. Len(approvals) \in Nat /\ DOMAIN approvals = 1 .. Len(approvals)
  OBVIOUS
<1>2. \A j \in 1 .. Len(approvals) : approvals[j] \in ApprovalRow
  OBVIOUS
<1>3. \A r \in ApprovalRow : [r EXCEPT !.status = v] \in ApprovalRow
  BY DEF ApprovalRow
<1>4. new = [j \in 1 .. Len(approvals) |->
               IF j = i THEN [approvals[j] EXCEPT !.status = v] ELSE approvals[j]]
  BY <1>1
<1>5. \A j \in 1 .. Len(approvals) : new[j] \in ApprovalRow
  BY <1>2, <1>3, <1>4
<1> HIDE DEF new
<1>6. new \in [1 .. Len(approvals) -> ApprovalRow]
  BY <1>4, <1>5
<1> QED
  BY <1>1, <1>6, SeqDef DEF new

-----------------------------------------------------------------------------
(* TypeInv is inductive.                                                   *)

LEMMA InitTyped == Init => TypeInv
<1> SUFFICES ASSUME Init PROVE TypeInv
  OBVIOUS
<1>1. RowsOK
  <2>1. plan \in PlanRow
    BY DEF Init, PlanRow, PlanStatus
  <2>2. step \in [Step -> StepStatus]
    BY DEF Init, StepStatus
  <2>3. shape \in Shape
    BY DEF Init
  <2>4. approvals \in Seq(ApprovalRow)
    BY ConstantsAssumption DEF Init, ApprovalRow, ApprovalStatus
  <2> QED
    BY <2>1, <2>2, <2>3, <2>4 DEF RowsOK
<1>2. ControlOK
  BY DEF Init, ControlOK, Label
<1>3. LocalsOK
  <2>1. loc \in [Request -> Local]
    BY NoCallType DEF Init
  <2>2. \A p \in Request : pc[p] \notin StepLabel
    BY DEF Init, StepLabel
  <2> QED
    BY <2>1, <2>2 DEF LocalsOK
<1>4. HistoryOK
  <2>1. starts \in [Step -> Nat] /\ grants \in [Step -> Nat]
    BY DEF Init
  <2>2. budget \in [ops : Nat, faults : Nat]
    BY ConstantsAssumption DEF Init
  <2>3. signedOff \in BOOLEAN /\ unresolved \in SUBSET Step
    BY DEF Init
  <2> QED
    BY <2>1, <2>2, <2>3, Zenon DEF HistoryOK
<1> QED
  BY <1>1, <1>2, <1>3, <1>4 DEF TypeInv

\* The tables, or the ghosts, that an action leaves alone stay typed.
LEMMA RowsKept ==
  ASSUME RowsOK, UNCHANGED <<plan, step, shape, approvals>>
  PROVE  RowsOK'
BY DEF RowsOK

LEMMA HistoryKept ==
  ASSUME HistoryOK, UNCHANGED <<history, budget>>
  PROVE  HistoryOK'
BY Zenon DEF HistoryOK, history

\* Operations that reach a handler.
LEMMA ArriveTyped ==
  ASSUME TypeInv, NEW p \in Request, Arrive(p)
  PROVE  TypeInv'
<1> USE DEF TypeInv
<1>a. 0 \in 0..N /\ 0 \in Nat /\ {} \in SUBSET Step /\ FALSE \in BOOLEAN
  BY ConstantsAssumption
<1>b. AllOps \subseteq AllOps \cup {"none"}
  OBVIOUS
<1>c. {"approveMark", "rejectMark", "cancelMark", "verdictWrite"} \subseteq Label \ StepLabel
  BY DEF Label, StepLabel
<1>1. CASE ApproveRead(p)
  <2>1. PICK b \in BOOLEAN : Accept(p, Call("approve", 0, 0, {}, b), "approveMark")
    <3>1. PICK auto \in AutoEdits :
            Accept(p, Call("approve", 0, 0, {}, auto \/ N = 1), "approveMark")
      BY <1>1, Zenon DEF ApproveRead
    <3>2. (auto \/ N = 1) \in BOOLEAN
      BY Zenon
    <3> QED
      BY <3>1, <3>2, Zenon
  <2>2. Call("approve", 0, 0, {}, b) \in Local
    BY <1>a, CallType DEF AllOps
  <2>3. ControlOK' /\ LocalsOK' /\ budget' \in [ops : Nat, faults : Nat]
    BY <2>1, <2>2, <1>c, AcceptType
  <2>4. RowsOK'
    BY <1>1, RowsKept DEF ApproveRead
  <2>5. HistoryOK'
    BY <1>1, <2>3, Zenon DEF ApproveRead, HistoryOK, history
  <2> QED
    BY <2>3, <2>4, <2>5
<1>2. CASE RejectRead(p)
  <2>1. Call("reject", 0, 0, {}, FALSE) \in Local
    BY <1>a, CallType DEF AllOps
  <2>2. ControlOK' /\ LocalsOK' /\ budget' \in [ops : Nat, faults : Nat]
    BY <1>2, <2>1, <1>c, AcceptType DEF RejectRead
  <2>3. RowsOK'
    BY <1>2, RowsKept DEF RejectRead
  <2>4. HistoryOK'
    BY <1>2, <2>2, Zenon DEF RejectRead, HistoryOK, history
  <2> QED
    BY <2>2, <2>3, <2>4
<1>3. CASE CancelRead(p)
  <2>1. Call("cancel", 0, 0, {}, FALSE) \in Local
    BY <1>a, CallType DEF AllOps
  <2>2. ControlOK' /\ LocalsOK' /\ budget' \in [ops : Nat, faults : Nat]
    BY <1>3, <2>1, <1>c, AcceptType DEF CancelRead
  <2>3. RowsOK'
    BY <1>3, RowsKept DEF CancelRead
  <2>4. HistoryOK'
    BY <1>3, <2>2, Zenon DEF CancelRead, HistoryOK, history
  <2> QED
    BY <2>2, <2>3, <2>4
<1>4. CASE RetryRead(p)
  <2> DEFINE todo(s, reopen) == {t \in Later(s, "skipped") : reopen}
  <2>1. PICK s \in Step, reopen \in BOOLEAN :
          /\ Accept(p, Call("retry", s, 0, todo(s, reopen), reopen), "retryReset")
          /\ grants' = Bump(grants, {s})
    BY <1>4, Zenon DEF RetryRead
  <2>2. todo(s, reopen) \in SUBSET Step
    BY DEF Later
  <2> HIDE DEF todo
  <2>3. /\ Call("retry", s, 0, todo(s, reopen), reopen) \in Local
        /\ Call("retry", s, 0, todo(s, reopen), reopen).at = s
    <3>1. s \in 0..N /\ "retry" \in AllOps \cup {"none"}
      BY ConstantsAssumption DEF Step, AllOps
    <3> QED
      BY <2>2, <3>1, <1>a, CallType
  <2>4. ControlOK' /\ LocalsOK' /\ budget' \in [ops : Nat, faults : Nat]
    <3>1. "retryReset" \in Label
      BY DEF Label
    <3> QED
      BY <2>1, <2>3, <3>1, AcceptType
  <2>5. RowsOK'
    BY <1>4, RowsKept DEF RetryRead
  <2>6. grants' \in [Step -> Nat]
    BY <2>1, BumpType DEF HistoryOK
  <2>7. HistoryOK'
    BY <1>4, <2>4, <2>6, Zenon DEF RetryRead, HistoryOK
  <2> QED
    BY <2>4, <2>5, <2>7
<1>5. CASE VerdictRead(p)
  <2>1. PICK id \in 1..Len(approvals), op \in {"approveStep", "rejectStep", "override"} :
          Accept(p, Call(op, approvals[id].step, id, {}, FALSE), "verdictWrite")
    BY <1>5, Zenon DEF VerdictRead
  <2>2. id \in Nat /\ approvals[id] \in ApprovalRow
    BY DEF RowsOK
  <2>3. approvals[id].step \in 0..N
    BY <2>2 DEF ApprovalRow
  <2>4. Call(op, approvals[id].step, id, {}, FALSE) \in Local
    <3>1. op \in AllOps \cup {"none"}
      BY DEF AllOps
    <3> QED
      BY <2>2, <2>3, <3>1, <1>a, CallType
  <2>5. ControlOK' /\ LocalsOK' /\ budget' \in [ops : Nat, faults : Nat]
    BY <2>1, <2>4, <1>c, AcceptType
  <2>6. RowsOK'
    BY <1>5, RowsKept DEF VerdictRead
  <2>7. HistoryOK'
    BY <1>5, <2>5, Zenon DEF VerdictRead, HistoryOK, history
  <2> QED
    BY <2>5, <2>6, <2>7
<1> QED
  BY <1>1, <1>2, <1>3, <1>4, <1>5 DEF Arrive

\* The writes of approve(), reject(), cancel() and retryStep().
LEMMA DecisionTyped ==
  ASSUME TypeInv, NEW p \in Request,
         \/ ApproveMark(p) \/ ApproveClose(p) \/ ApproveStart(p)
         \/ RejectMark(p) \/ CancelMark(p)
         \/ RetryReset(p) \/ RetryUnskip(p) \/ RetryReopen(p)
  PROVE  TypeInv'
<1> USE DEF TypeInv
<1>a. loc[p] \in Local /\ (pc[p] \in StepLabel => loc[p].at \in Step)
  BY DEF LocalsOK
<1>b. "retryReset" \in StepLabel /\ "retryUnskip" \in StepLabel
  BY DEF StepLabel
<1>c. {"approveClose", "approveStart", "next"} \subseteq Label \ StepLabel
  BY DEF Label, StepLabel
<1>d. {"exec", "retryUnskip"} \subseteq Label
  BY DEF Label
<1>1. CASE ApproveMark(p)
  <2>1. plan' \in PlanRow
    <3>1. loc[p].flag \in BOOLEAN
      BY <1>a, LocalFields, Zenon
    <3>2. "approved" \in PlanStatus
      BY DEF PlanStatus
    <3> QED
      BY <1>1, <3>1, <3>2, Zenon DEF ApproveMark, PlanRow
  <2>2. RowsOK'
    BY <1>1, <2>1 DEF ApproveMark, RowsOK
  <2>3. ControlOK' /\ LocalsOK'
    BY <1>1, <1>c, GoOn DEF ApproveMark
  <2>4. grants' \in [Step -> Nat]
    BY <1>1, BumpType, Zenon DEF ApproveMark, HistoryOK
  <2>5. HistoryOK'
    BY <1>1, <2>4, Zenon DEF ApproveMark, HistoryOK
  <2> QED
    BY <2>2, <2>3, <2>5
<1>2. CASE ApproveClose(p)
  <2>1. approvals' \in Seq(ApprovalRow)
    <3>1. CASE approvals' = approvals
      BY <3>1 DEF RowsOK
    <3>2. CASE approvals' = [approvals EXCEPT ![1].status =
                              IF @ = "pending" THEN "approved" ELSE @]
      <4> DEFINE v == IF approvals[1].status = "pending" THEN "approved"
                      ELSE approvals[1].status
      <4>1. CASE Len(approvals) >= 1
        <5>1. approvals[1] \in ApprovalRow
          BY <4>1 DEF RowsOK
        <5>2. v \in ApprovalStatus
          BY <5>1 DEF ApprovalRow, ApprovalStatus
        <5>3. approvals' = [approvals EXCEPT ![1].status = v]
          BY <3>2
        <5> QED
          BY <5>2, <5>3, VerdictType DEF RowsOK
      <4>2. CASE ~(Len(approvals) >= 1)
        <5>1. approvals = << >>
          BY <4>2, EmptySeq DEF RowsOK
        <5>2. approvals' = approvals
          BY <3>2, <5>1
        <5> QED
          BY <5>2 DEF RowsOK
      <4> QED
        BY <4>1, <4>2
    <3> QED
      BY <1>2, <3>1, <3>2, Zenon DEF ApproveClose
  <2>2. RowsOK'
    BY <1>2, <2>1 DEF ApproveClose, RowsOK
  <2>3. ControlOK' /\ LocalsOK'
    BY <1>2, <1>c, GoOn DEF ApproveClose
  <2>4. HistoryOK'
    BY <1>2, HistoryKept DEF ApproveClose
  <2> QED
    BY <2>2, <2>3, <2>4
<1>3. CASE ApproveStart(p)
  <2>1. RowsOK'
    <3>1. loc[p].flag \in BOOLEAN
      BY <1>a, LocalFields, Zenon
    <3>2. plan' \in PlanRow
      BY <1>3, <3>1, SetStatusOverType DEF ApproveStart, RowsOK, PlanStatus
    <3> QED
      BY <1>3, <3>2 DEF ApproveStart, RowsOK
  <2>2. ControlOK' /\ LocalsOK'
    BY <1>3, <1>c, GoOn DEF ApproveStart
  <2>3. HistoryOK'
    BY <1>3, HistoryKept DEF ApproveStart
  <2> QED
    BY <2>1, <2>2, <2>3
<1>4. CASE RejectMark(p)
  <2>1. RowsOK'
    BY <1>4, SetStatusOverType DEF RejectMark, RowsOK, PlanStatus
  <2>2. ControlOK' /\ LocalsOK' /\ HistoryOK'
    BY <1>4, ReturnType, HistoryKept DEF RejectMark
  <2> QED
    BY <2>1, <2>2
<1>5. CASE CancelMark(p)
  <2>1. RowsOK'
    BY <1>5, SetStatusType DEF CancelMark, RowsOK, PlanStatus
  <2>2. ControlOK' /\ LocalsOK' /\ HistoryOK'
    BY <1>5, ReturnType, HistoryKept DEF CancelMark
  <2> QED
    BY <2>1, <2>2
<1>6. CASE RetryReset(p)
  <2>1. loc[p].at \in Step
    BY <1>6, <1>a, <1>b DEF RetryReset, At
  <2>2. RowsOK'
    BY <1>6, <2>1, SetStepType DEF RetryReset, RowsOK, StepStatus
  <2>3. ControlOK' /\ LocalsOK'
    BY <1>6, <2>1, <1>d, GoOn DEF RetryReset
  <2>4. HistoryOK'
    BY <1>6, HistoryKept DEF RetryReset
  <2> QED
    BY <2>2, <2>3, <2>4
<1>7. CASE RetryUnskip(p)
  <2>1. PICK t \in Step : /\ SetStep(t, "pending")
                          /\ loc' = [loc EXCEPT ![p].todo = @ \ {t}]
    BY <1>7 DEF RetryUnskip
  <2>2. RowsOK'
    BY <1>7, <2>1, SetStepType DEF RetryUnskip, RowsOK, StepStatus
  <2>3. ControlOK' /\ LocalsOK'
    <3> DEFINE c == [loc[p] EXCEPT !.todo = @ \ {t}]
    <3>1. loc[p].at \in Step
      BY <1>7, <1>a, <1>b DEF RetryUnskip, At
    <3>2. c \in Local /\ c.at = loc[p].at
      BY <1>a DEF Local
    <3>3. loc' = [loc EXCEPT ![p] = c]
      BY <2>1
    <3> HIDE DEF c
    <3> QED
      BY <1>7, <3>1, <3>2, <3>3, <1>d, GoWith DEF RetryUnskip
  <2>4. HistoryOK'
    BY <1>7, HistoryKept DEF RetryUnskip
  <2> QED
    BY <2>2, <2>3, <2>4
<1>8. CASE RetryReopen(p)
  <2>1. loc[p].at \in Step
    BY <1>8, <1>a, <1>b DEF RetryReopen, At
  <2>2. RowsOK'
    BY <1>8, SetStatusType DEF RetryReopen, RowsOK, PlanStatus
  <2>3. ControlOK' /\ LocalsOK'
    BY <1>8, <2>1, <1>d, GoOn DEF RetryReopen
  <2>4. HistoryOK'
    BY <1>8, HistoryKept DEF RetryReopen
  <2> QED
    BY <2>2, <2>3, <2>4
<1> QED
  BY <1>1, <1>2, <1>3, <1>4, <1>5, <1>6, <1>7, <1>8

\* The approval hook and runNext().
LEMMA RunNextTyped ==
  ASSUME TypeInv, NEW p \in Request,
         \/ VerdictWrite(p) \/ Refuse(p)
         \/ RunNextStops(p) \/ RunNextContinues(p) \/ MarkApplied(p)
         \/ Submit(p) \/ Link(p) \/ LinkWrite(p)
  PROVE  TypeInv'
<1> USE DEF TypeInv
<1>a. loc[p] \in Local /\ (pc[p] \in StepLabel => loc[p].at \in Step)
  BY DEF LocalsOK
<1>b. {"refuse", "submit", "link", "linkWrite"} \subseteq StepLabel
  BY DEF StepLabel
<1>c. {"refuse", "exec", "submit", "link", "linkWrite"} \subseteq Label
  BY DEF Label
<1>1. CASE VerdictWrite(p)
  <2>1. RowsOK'
    <3>1. PICK v \in ApprovalStatus : approvals' = [approvals EXCEPT ![loc[p].id].status = v]
      BY <1>1, Zenon DEF VerdictWrite, ApprovalStatus
    <3>2. approvals' \in Seq(ApprovalRow)
      BY <1>a, <3>1, LocalFields, VerdictType DEF RowsOK
    <3> QED
      BY <1>1, <3>2 DEF VerdictWrite, RowsOK
  <2>2. ControlOK' /\ LocalsOK'
    <3>1. CASE Return(p)
      BY <3>1, ReturnType
    <3>2. CASE /\ loc[p].at # 0
               /\ Go(p, IF loc[p].op = "rejectStep" THEN "refuse" ELSE "exec")
               /\ loc' = loc
      <4>1. loc[p].at \in Step
        BY <3>2, <1>a, LocalFields, ConstantsAssumption DEF Step
      <4> QED
        BY <3>2, <4>1, <1>c, GoOn
    <3> QED
      BY <1>1, <3>1, <3>2 DEF VerdictWrite
  <2>3. grants' \in [Step -> Nat]
    BY <1>1, BumpType DEF VerdictWrite, HistoryOK
  <2>4. HistoryOK'
    BY <1>1, <2>3, Zenon DEF VerdictWrite, HistoryOK
  <2> QED
    BY <2>1, <2>2, <2>4
<1>2. CASE Refuse(p)
  <2>1. loc[p].at \in Step
    BY <1>2, <1>a, <1>b DEF Refuse, At
  <2>2. step' \in [Step -> StepStatus] /\ ControlOK' /\ LocalsOK'
    BY <1>2, <2>1, StepFailsType DEF Refuse
  <2>3. RowsOK' /\ HistoryOK'
    BY <1>2, <2>2, HistoryKept DEF Refuse, RowsOK
  <2> QED
    BY <2>2, <2>3
<1>3. CASE RunNextStops(p)
  BY <1>3, ReturnType, RowsKept, HistoryKept DEF RunNextStops
<1>4. CASE RunNextContinues(p)
  <2>1. RowsOK' /\ HistoryOK'
    BY <1>4, RowsKept, HistoryKept DEF RunNextContinues
  <2>2. ControlOK' /\ LocalsOK'
    <3>1. CASE Go(p, "markApplied") /\ loc' = loc
      <4>1. "markApplied" \in Label \ StepLabel
        BY DEF Label, StepLabel
      <4> QED
        BY <3>1, <4>1, GoOn
    <3>2. ASSUME NEW s \in Step, NEW l \in {"exec", "submit"},
                 loc' = [loc EXCEPT ![p].at = s], Go(p, l)
          PROVE  ControlOK' /\ LocalsOK'
      <4> DEFINE c == [loc[p] EXCEPT !.at = s]
      <4>1. s \in 0..N
        BY ConstantsAssumption DEF Step
      <4>2. c \in Local /\ c.at = s
        BY <1>a, <4>1 DEF Local
      <4>3. loc' = [loc EXCEPT ![p] = c]
        BY <3>2
      <4> HIDE DEF c
      <4> QED
        BY <3>2, <4>2, <4>3, <1>c, GoWith
    <3>3. ASSUME ~(Go(p, "markApplied") /\ loc' = loc)
          PROVE  \E s \in Step : \E l \in {"exec", "submit"} :
                   loc' = [loc EXCEPT ![p].at = s] /\ Go(p, l)
      BY <1>4, <3>3, Zenon DEF RunNextContinues, StartNext
    <3> QED
      BY <3>1, <3>2, <3>3, Zenon
  <2> QED
    BY <2>1, <2>2
<1>5. CASE MarkApplied(p)
  <2>1. RowsOK'
    BY <1>5, SetStatusType DEF MarkApplied, RowsOK, PlanStatus
  <2>2. ControlOK' /\ LocalsOK' /\ HistoryOK'
    BY <1>5, ReturnType, HistoryKept DEF MarkApplied
  <2> QED
    BY <2>1, <2>2
<1>6. CASE Submit(p)
  <2>1. loc[p].at \in Step
    BY <1>6, <1>a, <1>b DEF Submit, At
  <2>2. [step |-> loc[p].at, status |-> "pending"] \in ApprovalRow
    BY <2>1, ConstantsAssumption DEF Step, ApprovalRow, ApprovalStatus
  <2>3. RowsOK'
    BY <1>6, <2>2, AppendProperties DEF Submit, RowsOK
  <2>4. ControlOK' /\ LocalsOK' /\ HistoryOK'
    BY <1>6, <2>1, <1>c, GoOn, HistoryKept DEF Submit
  <2> QED
    BY <2>3, <2>4
<1>7. CASE Link(p)
  <2> DEFINE c == [loc[p] EXCEPT !.seen = step[loc[p].at]]
  <2>1. loc[p].at \in Step
    BY <1>7, <1>a, <1>b DEF Link, At
  <2>2. c \in Local /\ c.at = loc[p].at
    <3>1. step[loc[p].at] \in StepStatus
      BY <2>1 DEF RowsOK
    <3> QED
      BY <1>a, <3>1 DEF Local
  <2>3. loc' = [loc EXCEPT ![p] = c]
    BY <1>7 DEF Link
  <2> HIDE DEF c
  <2>4. ControlOK' /\ LocalsOK'
    BY <1>7, <2>1, <2>2, <2>3, <1>c, GoWith DEF Link
  <2>5. RowsOK' /\ HistoryOK'
    BY <1>7, RowsKept, HistoryKept DEF Link
  <2> QED
    BY <2>4, <2>5
<1>8. CASE LinkWrite(p)
  <2>1. loc[p].at \in Step /\ loc[p].seen \in StepStatus
    BY <1>8, <1>a, <1>b, LocalFields DEF LinkWrite, At
  <2>2. RowsOK'
    BY <1>8, <2>1, SetStepType DEF LinkWrite, RowsOK
  <2>3. ControlOK' /\ LocalsOK' /\ HistoryOK'
    BY <1>8, ReturnType, HistoryKept DEF LinkWrite
  <2> QED
    BY <2>2, <2>3
<1> QED
  BY <1>1, <1>2, <1>3, <1>4, <1>5, <1>6, <1>7, <1>8

\* executeStep() and haltPlan().
LEMMA ExecuteTyped ==
  ASSUME TypeInv, NEW p \in Request,
         \/ Execute(p) \/ NotSent(p) \/ Dispatch(p) \/ CommandEnds(p)
         \/ HaltRead(p) \/ HaltSkip(p) \/ HaltMark(p)
  PROVE  TypeInv'
<1> USE DEF TypeInv
<1>a. loc[p] \in Local /\ (pc[p] \in StepLabel => loc[p].at \in Step)
  BY DEF LocalsOK
<1>b. {"exec", "invalid", "dispatch", "await", "halt", "skip"} \subseteq StepLabel
  BY DEF StepLabel
<1>c. {"invalid", "dispatch", "await", "skip", "next"} \subseteq Label
  BY DEF Label
<1>d. "next" \notin StepLabel
  BY DEF StepLabel
<1>1. CASE Execute(p)
  <2>1. loc[p].at \in Step
    BY <1>1, <1>a, <1>b DEF Execute, At
  <2>2. RowsOK'
    BY <1>1, <2>1, SetStepType DEF Execute, RowsOK, StepStatus
  <2>3. ControlOK' /\ LocalsOK' /\ HistoryOK'
    BY <1>1, <2>1, <1>c, GoOn, HistoryKept DEF Execute
  <2> QED
    BY <2>2, <2>3
<1>2. CASE NotSent(p)
  <2>1. loc[p].at \in Step
    BY <1>2, <1>a, <1>b DEF NotSent, At
  <2>2. step' \in [Step -> StepStatus] /\ ControlOK' /\ LocalsOK'
    BY <1>2, <2>1, StepFailsType DEF NotSent
  <2>3. RowsOK' /\ HistoryOK'
    BY <1>2, <2>2, HistoryKept DEF NotSent, RowsOK
  <2> QED
    BY <2>2, <2>3
<1>3. CASE Dispatch(p)
  <2>1. loc[p].at \in Step
    BY <1>3, <1>a, <1>b DEF Dispatch, At
  <2>2. RowsOK' /\ ControlOK' /\ LocalsOK'
    BY <1>3, <2>1, <1>c, GoOn, RowsKept DEF Dispatch
  <2>3. unresolved' \in SUBSET Step /\ starts' \in [Step -> Nat]
    BY <1>3, <2>1, BumpType DEF Dispatch, HistoryOK
  <2>4. HistoryOK'
    BY <1>3, <2>3, Zenon DEF Dispatch, HistoryOK
  <2> QED
    BY <2>2, <2>4
<1>4. CASE CommandEnds(p)
  <2>1. loc[p].at \in Step
    BY <1>4, <1>a, <1>b DEF CommandEnds, At
  <2>2. step' \in [Step -> StepStatus] /\ ControlOK' /\ LocalsOK'
    <3>1. CASE StepFails(p)
      BY <1>4, <2>1, <3>1, StepFailsType DEF CommandEnds
    <3>2. CASE SetStep(loc[p].at, "done") /\ Go(p, "next")
      BY <1>4, <2>1, <3>2, <1>c, <1>d, SetStepType, GoOn
        DEF CommandEnds, RowsOK, StepStatus
    <3> QED
      BY <1>4, <3>1, <3>2 DEF CommandEnds
  <2>3. RowsOK'
    BY <1>4, <2>2 DEF CommandEnds, RowsOK
  <2>4. unresolved' \in SUBSET Step
    BY <1>4 DEF CommandEnds, HistoryOK
  <2>5. HistoryOK'
    BY <1>4, <2>4, Zenon DEF CommandEnds, HistoryOK
  <2> QED
    BY <2>2, <2>3, <2>5
<1>5. CASE HaltRead(p)
  <2> DEFINE c == [loc[p] EXCEPT !.todo = Later(loc[p].at, "pending")]
  <2>1. loc[p].at \in Step
    BY <1>5, <1>a, <1>b DEF HaltRead, At
  <2>2. c \in Local /\ c.at = loc[p].at
    BY <1>a DEF Local, Later
  <2>3. loc' = [loc EXCEPT ![p] = c]
    BY <1>5 DEF HaltRead
  <2> HIDE DEF c
  <2>4. ControlOK' /\ LocalsOK'
    BY <1>5, <2>1, <2>2, <2>3, <1>c, GoWith DEF HaltRead
  <2>5. RowsOK' /\ HistoryOK'
    BY <1>5, RowsKept, HistoryKept DEF HaltRead
  <2> QED
    BY <2>4, <2>5
<1>6. CASE HaltSkip(p)
  <2>1. PICK t \in Step : /\ SetStep(t, "skipped")
                          /\ loc' = [loc EXCEPT ![p].todo = @ \ {t}]
    BY <1>6 DEF HaltSkip
  <2>2. RowsOK' /\ HistoryOK'
    BY <1>6, <2>1, SetStepType, HistoryKept DEF HaltSkip, RowsOK, StepStatus
  <2> DEFINE c == [loc[p] EXCEPT !.todo = @ \ {t}]
  <2>3. loc[p].at \in Step
    BY <1>6, <1>a, <1>b DEF HaltSkip, At
  <2>4. c \in Local /\ c.at = loc[p].at
    BY <1>a DEF Local
  <2>5. loc' = [loc EXCEPT ![p] = c]
    BY <2>1
  <2> HIDE DEF c
  <2>6. ControlOK' /\ LocalsOK'
    BY <1>6, <2>3, <2>4, <2>5, <1>c, GoWith DEF HaltSkip
  <2> QED
    BY <2>2, <2>6
<1>7. CASE HaltMark(p)
  <2>1. RowsOK' /\ HistoryOK'
    BY <1>7, SetStatusType, HistoryKept DEF HaltMark, HaltStatus, RowsOK, PlanStatus
  <2>2. ControlOK' /\ LocalsOK'
    BY <1>7, <1>c, <1>d, ReturnType, GoOn DEF HaltMark
  <2> QED
    BY <2>1, <2>2
<1> QED
  BY <1>1, <1>2, <1>3, <1>4, <1>5, <1>6, <1>7

\* The sweeper, failing statements and crashes.
LEMMA FaultTyped ==
  ASSUME TypeInv,
         Expire \/ Crash \/ \E p \in Request : StatementFails(p)
  PROVE  TypeInv'
<1> USE DEF TypeInv
<1>1. CASE Expire
  <2>1. RowsOK'
    BY <1>1, SetStatusType DEF Expire, RowsOK, PlanStatus
  <2>2. ControlOK' /\ LocalsOK'
    BY <1>1 DEF Expire, ControlOK, LocalsOK
  <2>3. HistoryOK'
    BY <1>1, HistoryKept DEF Expire
  <2> QED
    BY <2>1, <2>2, <2>3
<1>2. CASE Crash
  <2>1. RowsOK'
    BY <1>2, RowsKept DEF Crash
  <2>2. budget' \in [ops : Nat, faults : Nat]
    BY <1>2 DEF Crash, HistoryOK
  <2>3. HistoryOK'
    BY <1>2, <2>2, Zenon DEF Crash, HistoryOK, history
  <2>4. PICK S \in SUBSET Request :
          /\ pc' = [p \in Request |-> IF p \in S THEN "idle" ELSE pc[p]]
          /\ loc' = [p \in Request |-> IF p \in S THEN NoCall ELSE loc[p]]
    BY <1>2, Zenon DEF Crash
  <2>5. ControlOK'
    BY <1>2, <2>4 DEF Crash, ControlOK, Label
  <2>6. loc' \in [Request -> Local]
    BY <2>4, NoCallType DEF LocalsOK
  <2>7. \A p \in Request : pc'[p] \in StepLabel => loc'[p].at \in Step
    BY <2>4 DEF LocalsOK, StepLabel
  <2> QED
    BY <2>1, <2>3, <2>5, <2>6, <2>7 DEF LocalsOK
<1>3. ASSUME NEW p \in Request, StatementFails(p)
      PROVE  TypeInv'
  <2>1. RowsOK' /\ ControlOK' /\ LocalsOK'
    BY <1>3, RowsKept, ReturnType DEF StatementFails
  <2>2. budget' \in [ops : Nat, faults : Nat]
    BY <1>3 DEF StatementFails, HistoryOK
  <2>3. HistoryOK'
    BY <1>3, <2>2, Zenon DEF StatementFails, HistoryOK, history
  <2> QED
    BY <2>1, <2>3
<1> QED
  BY <1>1, <1>2, <1>3

\* A step that changes nothing.
LEMMA StutterTyped == TypeInv /\ UNCHANGED vars => TypeInv'
<1> SUFFICES ASSUME TypeInv, UNCHANGED vars PROVE TypeInv'
  OBVIOUS
<1>1. RowsOK' /\ ControlOK' /\ LocalsOK'
  BY DEF TypeInv, vars, RowsOK, ControlOK, LocalsOK
<1>2. HistoryOK'
  BY HistoryKept DEF TypeInv, vars, history
<1> QED
  BY <1>1, <1>2 DEF TypeInv

LEMMA TypeInvInductive == TypeInv /\ [Next]_vars => TypeInv'
<1> SUFFICES ASSUME TypeInv, [Next]_vars PROVE TypeInv'
  OBVIOUS
<1>1. CASE UNCHANGED vars
  BY <1>1, StutterTyped
<1>2. ASSUME NEW p \in Request, Arrive(p) \/ Work(p) \/ StatementFails(p)
      PROVE  TypeInv'
  BY <1>2, ArriveTyped, DecisionTyped, RunNextTyped, ExecuteTyped, FaultTyped DEF Work
<1>3. CASE Expire \/ Crash
  BY <1>3, FaultTyped
<1> QED
  BY <1>1, <1>2, <1>3 DEF Next

\* Every reachable state of the executor is well typed: no interleaving or
\* fault writes an unknown status or leaves a handler without its step.
THEOREM TypeCorrect == Spec => []TypeOK
<1>1. TypeInv => TypeOK
  BY DEF TypeInv, TypeOK, RowsOK, ControlOK, LocalsOK, HistoryOK
<1>2. Spec => []TypeInv
  BY InitTyped, TypeInvInductive, PTL DEF Spec
<1> QED
  BY <1>1, <1>2, PTL

-----------------------------------------------------------------------------
(* Nothing runs before sign-off, on either backend.  Until some approve()  *)
(* has written its decision, no handler gets past the checks that keep the *)
(* plan closed: every row is as it was created, and whoever is at work is  *)
(* approving, rejecting or resolving the plan's own approval row.          *)

PreSignOff(p) ==
  \/ pc[p] \in {"idle", "approveMark", "rejectMark"}
  \/ pc[p] = "verdictWrite" /\ loc[p].at = 0
Untouched ==
  /\ plan.status \in {"pending_approval", "rejected", "expired"}
  /\ \A s \in Step : step[s] = "pending" /\ starts[s] = 0
  /\ \A id \in 1..Len(approvals) : approvals[id].step = 0
SignOffInv == signedOff \/ (Untouched /\ \A p \in Request : PreSignOff(p))

LEMMA SignOffInit == Init => SignOffInv
<1> SUFFICES ASSUME Init PROVE Untouched /\ \A p \in Request : PreSignOff(p)
  BY DEF SignOffInv
<1> QED
  BY DEF Init, Untouched, PreSignOff

\* A handler at one of the first labels is the only one that can move.
LEMMA EarlyMoves ==
  ASSUME TypeInv, Untouched, NEW p \in Request, PreSignOff(p), Work(p)
  PROVE  ApproveMark(p) \/ RejectMark(p) \/ (VerdictWrite(p) /\ loc[p].at = 0)
<1>1. pc[p] \in {"idle", "approveMark", "rejectMark", "verdictWrite"}
  BY DEF PreSignOff
<1>2. ~ApproveClose(p) /\ ~ApproveStart(p) /\ ~CancelMark(p)
  BY <1>1 DEF ApproveClose, ApproveStart, CancelMark, At
<1>3. ~RetryReset(p) /\ ~RetryUnskip(p) /\ ~RetryReopen(p) /\ ~Refuse(p)
  BY <1>1 DEF RetryReset, RetryUnskip, RetryReopen, Refuse, At
<1>4. ~RunNextStops(p) /\ ~RunNextContinues(p) /\ ~MarkApplied(p)
  BY <1>1 DEF RunNextStops, RunNextContinues, MarkApplied, At
<1>5. ~Submit(p) /\ ~Link(p) /\ ~LinkWrite(p) /\ ~Execute(p) /\ ~NotSent(p)
  BY <1>1 DEF Submit, Link, LinkWrite, Execute, NotSent, At
<1>6. ~Dispatch(p) /\ ~CommandEnds(p) /\ ~HaltRead(p) /\ ~HaltSkip(p) /\ ~HaltMark(p)
  BY <1>1 DEF Dispatch, CommandEnds, HaltRead, HaltSkip, HaltMark, At
<1>7. VerdictWrite(p) => loc[p].at = 0
  BY DEF VerdictWrite, At, PreSignOff
<1> QED
  BY <1>2, <1>3, <1>4, <1>5, <1>6, <1>7 DEF Work

\* What Go, Return and Accept do to the handlers.
LEMMA Moved ==
  ASSUME TypeInv, NEW p \in Request, NEW l, Go(p, l)
  PROVE  pc'[p] = l /\ \A q \in Request \ {p} : pc'[q] = pc[q]
BY DEF TypeInv, ControlOK, Go

LEMMA Relocated ==
  ASSUME TypeInv, NEW p \in Request, NEW c, loc' = [loc EXCEPT ![p] = c]
  PROVE  loc'[p] = c /\ \A q \in Request \ {p} : loc'[q] = loc[q]
BY DEF TypeInv, LocalsOK

LEMMA EarlyLocal ==
  ASSUME TypeInv, NEW p \in Request, NEW l, Go(p, l), NEW c,
         loc' = [loc EXCEPT ![p] = c],
         \A q \in Request : PreSignOff(q),
         \/ l \in {"idle", "approveMark", "rejectMark"}
         \/ l = "verdictWrite" /\ c.at = 0
  PROVE  \A q \in Request : PreSignOff(q)'
<1>1. pc'[p] = l /\ \A q \in Request \ {p} : pc'[q] = pc[q]
  BY Moved
<1>2. loc'[p] = c /\ \A q \in Request \ {p} : loc'[q] = loc[q]
  BY Relocated
<1>3. ASSUME NEW q \in Request PROVE PreSignOff(q)'
  <2>1. CASE q = p
    BY <2>1, <1>1, <1>2 DEF PreSignOff
  <2>2. CASE q # p
    BY <2>2, <1>1, <1>2 DEF PreSignOff
  <2> QED
    BY <2>1, <2>2
<1> QED
  BY <1>3

\* Status writes on approval rows leave the step they gate alone.
LEMMA GateKept ==
  ASSUME approvals \in Seq(ApprovalRow), NEW i, NEW v,
         approvals' = [approvals EXCEPT ![i].status = v]
  PROVE  /\ Len(approvals') = Len(approvals)
         /\ \A j \in 1..Len(approvals) : approvals'[j].step = approvals[j].step
<1>1. Len(approvals) \in Nat /\ DOMAIN approvals = 1..Len(approvals)
  OBVIOUS
<1>2. \A j \in 1..Len(approvals) : approvals[j] \in ApprovalRow
  OBVIOUS
<1>3. \A r \in ApprovalRow : [r EXCEPT !.status = v].step = r.step
  BY DEF ApprovalRow
<1>4. approvals' = [j \in 1..Len(approvals) |->
               IF j = i THEN [approvals[j] EXCEPT !.status = v] ELSE approvals[j]]
  BY <1>1
<1>5. Len(approvals') = Len(approvals)
  BY <1>1, <1>4
<1> QED
  BY <1>2, <1>3, <1>4, <1>5

\* No action takes a sign-off back.
LEMMA SignOffStays ==
  ASSUME Next, signedOff
  PROVE  signedOff'
<1>1. ASSUME NEW p \in Request, Arrive(p) PROVE signedOff'
  BY <1>1, Zenon DEF Arrive, ApproveRead, RejectRead, CancelRead, RetryRead, VerdictRead,
     history
<1>2. ASSUME NEW p \in Request, Work(p) PROVE signedOff'
  <2>1. CASE ApproveMark(p) \/ ApproveClose(p) \/ ApproveStart(p) \/ RejectMark(p)
             \/ CancelMark(p) \/ RetryReset(p) \/ RetryUnskip(p) \/ RetryReopen(p)
    BY <2>1, Zenon DEF ApproveMark, ApproveClose, ApproveStart, RejectMark, CancelMark,
       RetryReset, RetryUnskip, RetryReopen, history
  <2>2. CASE VerdictWrite(p) \/ Refuse(p) \/ RunNextStops(p) \/ RunNextContinues(p)
             \/ MarkApplied(p) \/ Submit(p) \/ Link(p) \/ LinkWrite(p)
    BY <2>2, Zenon DEF VerdictWrite, Refuse, RunNextStops, RunNextContinues, MarkApplied,
       Submit, Link, LinkWrite, history
  <2>3. CASE Execute(p) \/ NotSent(p) \/ Dispatch(p) \/ CommandEnds(p)
             \/ HaltRead(p) \/ HaltSkip(p) \/ HaltMark(p)
    BY <2>3, Zenon DEF Execute, NotSent, Dispatch, CommandEnds, HaltRead, HaltSkip,
       HaltMark, history
  <2> QED
    BY <1>2, <2>1, <2>2, <2>3, Zenon DEF Work
<1>3. ASSUME NEW p \in Request, StatementFails(p) PROVE signedOff'
  BY <1>3, Zenon DEF StatementFails, history
<1>4. CASE Expire \/ Crash
  BY <1>4, Zenon DEF Expire, Crash, history
<1> QED
  BY <1>1, <1>2, <1>3, <1>4, Zenon DEF Next

\* A step of a plan that nobody has signed off either signs it off or leaves
\* every row as it was created.
LEMMA SignOffStep ==
  ASSUME TypeInv, Untouched, \A p \in Request : PreSignOff(p), Next, ~signedOff'
  PROVE  Untouched' /\ \A p \in Request : PreSignOff(p)'
<1> USE DEF TypeInv
<1>a. ASSUME UNCHANGED <<plan, step, approvals, starts>> PROVE Untouched'
  BY <1>a DEF Untouched
<1>b. ASSUME plan'.status \in {"pending_approval", "rejected", "expired"},
             UNCHANGED <<step, approvals, starts>>
      PROVE  Untouched'
  BY <1>b DEF Untouched
<1>c. ASSUME NEW p \in Request, Return(p) PROVE \A q \in Request : PreSignOff(q)'
  BY <1>c, EarlyLocal DEF Return
<1>1. ASSUME NEW p \in Request, Arrive(p)
      PROVE  Untouched' /\ \A q \in Request : PreSignOff(q)'
  <2>1. Untouched'
    BY <1>1, <1>a DEF Arrive, ApproveRead, RejectRead, CancelRead, RetryRead, VerdictRead,
       history
  <2>2. CASE ApproveRead(p)
    <3>1. PICK c : loc' = [loc EXCEPT ![p] = c] /\ Go(p, "approveMark")
      BY <2>2, Zenon DEF ApproveRead, Accept
    <3> QED
      BY <2>1, <3>1, EarlyLocal
  <2>3. CASE RejectRead(p)
    <3>1. PICK c : loc' = [loc EXCEPT ![p] = c] /\ Go(p, "rejectMark")
      BY <2>3, Zenon DEF RejectRead, Accept
    <3> QED
      BY <2>1, <3>1, EarlyLocal
  <2>4. CASE CancelRead(p)
    BY <2>4 DEF CancelRead, Cancellable, Untouched
  <2>5. CASE RetryRead(p)
    <3>1. PICK s \in Step : step[s] = "failed"
      BY <2>5, Zenon DEF RetryRead, Retryable
    <3> QED
      BY <3>1 DEF Untouched
  <2>6. CASE VerdictRead(p)
    <3>1. PICK id \in 1..Len(approvals), op \in {"approveStep", "rejectStep", "override"} :
            Accept(p, Call(op, approvals[id].step, id, {}, FALSE), "verdictWrite")
      BY <2>6, Zenon DEF VerdictRead
    <3>2. Call(op, approvals[id].step, id, {}, FALSE).at = 0
      BY DEF Untouched, Call
    <3>3. PICK c : loc' = [loc EXCEPT ![p] = c] /\ Go(p, "verdictWrite") /\ c.at = 0
      BY <3>1, <3>2, Zenon DEF Accept
    <3> QED
      BY <2>1, <3>3, EarlyLocal
  <2> QED
    BY <1>1, <2>1, <2>2, <2>3, <2>4, <2>5, <2>6 DEF Arrive
<1>2. ASSUME NEW p \in Request, Work(p)
      PROVE  Untouched' /\ \A q \in Request : PreSignOff(q)'
  <2>1. CASE ApproveMark(p)
    BY <2>1, Zenon DEF ApproveMark
  <2>2. CASE RejectMark(p)
    <3>1. plan'.status = "rejected"
      BY <2>2, SetStatusOverType DEF RejectMark, RowsOK, PlanStatus
    <3> QED
      BY <2>2, <3>1, <1>b, <1>c DEF RejectMark, history
  <2>3. CASE VerdictWrite(p) /\ loc[p].at = 0
    <3>1. PICK v : approvals' = [approvals EXCEPT ![loc[p].id].status = v]
      BY <2>3, Zenon DEF VerdictWrite
    <3>2. \A id \in 1..Len(approvals') : approvals'[id].step = 0
      BY <3>1, GateKept DEF RowsOK, Untouched
    <3>3. Untouched'
      BY <2>3, <3>2 DEF Untouched, VerdictWrite
    <3> QED
      BY <2>3, <3>3, <1>c DEF VerdictWrite
  <2> QED
    BY <1>2, <2>1, <2>2, <2>3, EarlyMoves
<1>3. ASSUME NEW p \in Request, StatementFails(p)
      PROVE  Untouched' /\ \A q \in Request : PreSignOff(q)'
  BY <1>3, <1>a, <1>c DEF StatementFails, history
<1>4. CASE Expire
  <2>1. plan'.status = "expired"
    BY <1>4, SetStatusType DEF Expire, RowsOK, PlanStatus
  <2> QED
    BY <1>4, <2>1, <1>b DEF Expire, history, PreSignOff
<1>5. CASE Crash
  <2>1. PICK S \in SUBSET Request :
          /\ pc' = [p \in Request |-> IF p \in S THEN "idle" ELSE pc[p]]
          /\ loc' = [p \in Request |-> IF p \in S THEN NoCall ELSE loc[p]]
    BY <1>5, Zenon DEF Crash
  <2>2. \A q \in Request : PreSignOff(q)'
    BY <2>1 DEF PreSignOff
  <2> QED
    BY <1>5, <2>2, <1>a DEF Crash, history
<1> QED
  BY <1>1, <1>2, <1>3, <1>4, <1>5 DEF Next

LEMMA SignOffInductive == TypeInv /\ SignOffInv /\ [Next]_vars => SignOffInv'
<1> SUFFICES ASSUME TypeInv, SignOffInv, [Next]_vars PROVE SignOffInv'
  OBVIOUS
<1>1. CASE UNCHANGED vars
  BY <1>1, Zenon DEF SignOffInv, Untouched, PreSignOff, vars
<1>2. CASE Next /\ signedOff
  BY <1>2, SignOffStays, Zenon DEF SignOffInv
<1>3. CASE Next /\ ~signedOff
  BY <1>3, SignOffStep, Zenon DEF SignOffInv
<1> QED
  BY <1>1, <1>2, <1>3, Zenon

\* Whatever the interleaving, the backend and the faults, no command is sent
\* and no step is executing or done before approve() has written a decision.
THEOREM SignedOff == Spec => []SignedOffBeforeRun
<1>1. TypeInv /\ SignOffInv => SignedOffBeforeRun
  <2> SUFFICES ASSUME TypeInv, Untouched,
                      NEW s \in Step, starts[s] > 0 \/ step[s] \in {"executing", "done"}
               PROVE  FALSE
    BY Zenon DEF SignOffInv, SignedOffBeforeRun
  <2> QED
    BY DEF Untouched
<1>2. Init => TypeInv /\ SignOffInv
  BY InitTyped, SignOffInit
<1>3. TypeInv /\ SignOffInv /\ [Next]_vars => (TypeInv /\ SignOffInv)'
  BY TypeInvInductive, SignOffInductive
<1> QED
  BY <1>1, <1>2, <1>3, PTL DEF Spec

-----------------------------------------------------------------------------
(* The synchronous backend.                                                *)

Live == {"executing", "applied", "execution_failed", "cancelled"}
Working == {"refuse", "next", "submit", "link", "linkWrite", "exec", "invalid", "dispatch",
            "await", "halt", "skip"}

\* The statuses a handler with locals c may find the plan in at a label.
Fits(l, c, status) ==
  /\ l \in {"approveMark", "rejectMark"} => status = "pending_approval"
  /\ l \in {"approveClose", "approveStart"} => status = "approved"
  /\ l = "cancelMark" => status \in {"approved", "executing"}
  /\ l = "markApplied" => status \in {"executing", "applied"}
  /\ l = "retryUnskip" => status = "execution_failed"
  /\ l = "retryReset" => status \in Live /\ (c.flag => status = "execution_failed")
  /\ l = "verdictWrite" => c.at = 0 \/ status \in Live
  /\ l \in Working => status \in Live

Exclusive == \A p \in Request : pc[p] \notin {"idle", "await"} => loop = p
Guarded == \A p \in Request : Fits(pc[p], loc[p], plan.status)
Undecided ==
  plan.status \notin Live =>
    /\ \A s \in Step : step[s] = "pending"
    /\ \A id \in 1..Len(approvals) : approvals[id].step = 0
LoopInv == Exclusive /\ Guarded /\ Undecided

\* What one step may do to the plan as an operator sees it.
LifeStep ==
  \/ plan'.status = plan.status /\ starts' = starts
  \/ <<plan.status, plan'.status>> \in Lifecycle!Edges /\ starts' = starts
  \/ /\ plan.status \in Live /\ plan'.status = plan.status
     /\ \E s \in Step : starts' = Bump(starts, {s})

LEMMA LoopInit == Init => LoopInv
BY DEF Init, LoopInv, Exclusive, Guarded, Fits, Undecided, Working

\* While p has its turn, everyone else is idle or waits for the adapter.
LEMMA Alone ==
  ASSUME Exclusive, NEW p \in Request, Turn(p), NEW q \in Request \ {p}
  PROVE  pc[q] \in {"idle", "await"}
BY ConstantsAssumption DEF Exclusive, Turn

\* One handler moves to a label that fits, and Live plans stay Live.
LEMMA LoopMove ==
  ASSUME Backend = "sqlite", TypeInv, LoopInv, NEW p \in Request, Turn(p),
         NEW l, Go(p, l), NEW c, loc' = [loc EXCEPT ![p] = c],
         Fits(l, c, plan'.status),
         plan.status \in Live => plan'.status \in Live
  PROVE  Exclusive' /\ Guarded'
<1>1. pc'[p] = l /\ \A q \in Request \ {p} : pc'[q] = pc[q]
  BY Moved
<1>2. loc'[p] = c /\ \A q \in Request \ {p} : loc'[q] = loc[q]
  BY Relocated
<1>3. \A q \in Request \ {p} : pc[q] \in {"idle", "await"}
  BY Alone DEF LoopInv
<1>4. Exclusive'
  BY <1>1, <1>3 DEF Exclusive, Go
<1>5. ASSUME NEW q \in Request PROVE Fits(pc[q], loc[q], plan.status)'
  <2>1. CASE q = p
    BY <2>1, <1>1, <1>2
  <2>2. CASE q # p
    <3>1. pc'[q] = pc[q] /\ pc[q] \in {"idle", "await"}
      BY <2>2, <1>1, <1>3
    <3>2. pc[q] = "await" => plan.status \in Live
      BY DEF LoopInv, Guarded, Fits, Working
    <3> QED
      BY <3>1, <3>2 DEF Fits, Working
  <2> QED
    BY <2>1, <2>2
<1> QED
  BY <1>4, <1>5 DEF Guarded

\* The same for a handler that keeps its locals.
LEMMA LoopGoOn ==
  ASSUME Backend = "sqlite", TypeInv, LoopInv, NEW p \in Request, Turn(p),
         NEW l, Go(p, l), loc' = loc, Fits(l, loc[p], plan'.status),
         plan.status \in Live => plan'.status \in Live
  PROVE  Exclusive' /\ Guarded'
<1>1. loc' = [loc EXCEPT ![p] = loc[p]]
  BY DEF TypeInv, LocalsOK
<1> QED
  BY <1>1, LoopMove

LEMMA LoopReturn ==
  ASSUME Backend = "sqlite", TypeInv, LoopInv, NEW p \in Request, Turn(p), Return(p),
         plan.status \in Live => plan'.status \in Live
  PROVE  Exclusive' /\ Guarded'
<1>1. Fits("idle", NoCall, plan'.status)
  BY DEF Fits, Working
<1> QED
  BY <1>1, LoopMove DEF Return

\* Undecided survives a step into Live, and one that leaves the rows alone.
LEMMA UndecidedLive == ASSUME plan'.status \in Live PROVE Undecided'
BY DEF Undecided

LEMMA UndecidedKept ==
  ASSUME Undecided, UNCHANGED <<step, approvals>>, plan.status \in Live => plan'.status \in Live
  PROVE  Undecided'
BY DEF Undecided

\* A handler at a working label with a Live plan: the plan stays Live.
LEMMA WorkLive ==
  ASSUME LoopInv, NEW p \in Request, pc[p] \in Working
  PROVE  plan.status \in Live
BY DEF LoopInv, Guarded, Fits

LEMMA LoopArrive ==
  ASSUME Backend = "sqlite", TypeInv, LoopInv, NEW p \in Request, Arrive(p)
  PROVE  LoopInv' /\ LifeStep
<1> USE DEF TypeInv
<1>1. UNCHANGED <<plan, step, approvals, starts>>
  BY DEF Arrive, ApproveRead, RejectRead, CancelRead, RetryRead, VerdictRead, history
<1>2. LifeStep /\ Undecided'
  BY <1>1, UndecidedKept DEF LifeStep, LoopInv
<1>3. ASSUME NEW c, NEW l, Accept(p, c, l), Fits(l, c, plan.status)
      PROVE  LoopInv'
  <2>1. Turn(p) /\ Go(p, l) /\ loc' = [loc EXCEPT ![p] = c]
    BY <1>3 DEF Accept, At
  <2>2. Exclusive' /\ Guarded'
    BY <2>1, <1>1, <1>3, LoopMove
  <2> QED
    BY <2>2, <1>2 DEF LoopInv
<1>4. CASE ApproveRead(p)
  <2>1. PICK c : Accept(p, c, "approveMark")
    BY <1>4, Zenon DEF ApproveRead
  <2>2. Fits("approveMark", c, plan.status)
    BY <1>4 DEF ApproveRead, Decidable, Fits, Working
  <2> QED
    BY <2>1, <2>2, <1>2, <1>3
<1>5. CASE RejectRead(p)
  <2>1. PICK c : Accept(p, c, "rejectMark")
    BY <1>5, Zenon DEF RejectRead
  <2>2. Fits("rejectMark", c, plan.status)
    BY <1>5 DEF RejectRead, Decidable, Fits, Working
  <2> QED
    BY <2>1, <2>2, <1>2, <1>3
<1>6. CASE CancelRead(p)
  <2>1. PICK c : Accept(p, c, "cancelMark")
    BY <1>6, Zenon DEF CancelRead
  <2>2. Fits("cancelMark", c, plan.status)
    BY <1>6 DEF CancelRead, Cancellable, Fits, Working
  <2> QED
    BY <2>1, <2>2, <1>2, <1>3
<1>7. CASE RetryRead(p)
  <2>1. PICK s \in Step, reopen \in BOOLEAN :
          /\ step[s] = "failed"
          /\ reopen <=> plan.status = "execution_failed"
          /\ Accept(p, Call("retry", s, 0, {t \in Later(s, "skipped") : reopen}, reopen),
                    "retryReset")
    BY <1>7, Zenon DEF RetryRead, Retryable
  <2>2. PICK c : Accept(p, c, "retryReset") /\ c.flag = reopen
    <3>1. Call("retry", s, 0, {t \in Later(s, "skipped") : reopen}, reopen).flag = reopen
      BY Zenon DEF Call
    <3> QED
      BY <2>1, <3>1, Zenon
  <2>3. plan.status \in Live
    BY <2>1 DEF LoopInv, Undecided
  <2>4. c.flag => plan.status = "execution_failed"
    BY <2>1, <2>2, Zenon
  <2>5. Fits("retryReset", c, plan.status)
    BY <2>3, <2>4 DEF Fits, Working
  <2> QED
    BY <2>2, <2>5, <1>2, <1>3
<1>8. CASE VerdictRead(p)
  <2>1. PICK id \in 1..Len(approvals), op \in {"approveStep", "rejectStep", "override"} :
          Accept(p, Call(op, approvals[id].step, id, {}, FALSE), "verdictWrite")
    BY <1>8, Zenon DEF VerdictRead
  <2>2. PICK c : Accept(p, c, "verdictWrite") /\ c.at = approvals[id].step
    <3>1. Call(op, approvals[id].step, id, {}, FALSE).at = approvals[id].step
      BY DEF Call
    <3> QED
      BY <2>1, <3>1, Zenon
  <2>3. c.at = 0 \/ plan.status \in Live
    BY <2>2 DEF LoopInv, Undecided
  <2>4. Fits("verdictWrite", c, plan.status)
    BY <2>3 DEF Fits, Working
  <2> QED
    BY <2>2, <2>4, <1>2, <1>3
<1> QED
  BY <1>4, <1>5, <1>6, <1>7, <1>8 DEF Arrive

\* A handler at a working label whose step sends nothing: the plan stays Live,
\* keeps its status or is halted, and the handler goes on to a label that asks
\* for no more than that.
LEMMA LoopWork ==
  ASSUME Backend = "sqlite", TypeInv, LoopInv, NEW p \in Request, Turn(p),
         plan.status \in Live, starts' = starts,
         plan'.status \in {plan.status, "execution_failed"},
         NEW l \in Working \cup {"idle"}, Go(p, l), NEW c, loc' = [loc EXCEPT ![p] = c]
  PROVE  LoopInv' /\ LifeStep
<1>1. plan'.status \in Live
  BY DEF Live
<1>2. Fits(l, c, plan'.status)
  BY <1>1 DEF Fits, Working
<1>3. Exclusive' /\ Guarded' /\ Undecided'
  BY <1>1, <1>2, LoopMove, UndecidedLive
<1>4. LifeStep
  BY DEF LifeStep, Live, Lifecycle!Edges
<1> QED
  BY <1>3, <1>4 DEF LoopInv

\* The writes of approve(), reject() and cancel().
LEMMA LoopDecision ==
  ASSUME Backend = "sqlite", TypeInv, LoopInv, NEW p \in Request,
         \/ ApproveMark(p) \/ ApproveClose(p) \/ ApproveStart(p)
         \/ RejectMark(p) \/ CancelMark(p) \/ MarkApplied(p)
  PROVE  LoopInv' /\ LifeStep
<1> USE DEF TypeInv
<1>a. Fits(pc[p], loc[p], plan.status)
  BY DEF LoopInv, Guarded
<1>1. CASE ApproveMark(p)
  <2>1. plan.status = "pending_approval" /\ Turn(p)
    BY <1>1, <1>a DEF ApproveMark, At, Fits
  <2>2. plan'.status = "approved"
    BY <1>1, Zenon DEF ApproveMark
  <2>3. Go(p, "approveClose") /\ loc' = loc /\ starts' = starts /\ UNCHANGED <<step, approvals>>
    BY <1>1, Zenon DEF ApproveMark
  <2>4. Fits("approveClose", loc[p], plan'.status)
    BY <2>2 DEF Fits, Working
  <2>5. Exclusive' /\ Guarded'
    BY <2>1, <2>3, <2>4, LoopGoOn DEF Live
  <2>6. Undecided'
    BY <2>1, <2>3, UndecidedKept DEF LoopInv, Live
  <2>7. LifeStep
    BY <2>1, <2>2, <2>3 DEF LifeStep, Lifecycle!Edges
  <2> QED
    BY <2>5, <2>6, <2>7 DEF LoopInv
<1>2. CASE ApproveClose(p)
  <2>1. plan.status = "approved" /\ Turn(p)
    BY <1>2, <1>a DEF ApproveClose, At, Fits
  <2>2. Go(p, "approveStart") /\ loc' = loc /\ UNCHANGED <<plan, step, starts>>
    BY <1>2 DEF ApproveClose, history
  <2>3. Fits("approveStart", loc[p], plan'.status)
    BY <2>1, <2>2 DEF Fits, Working
  <2>4. Exclusive' /\ Guarded'
    BY <2>1, <2>2, <2>3, LoopGoOn
  <2>5. Undecided'
    <3>1. CASE approvals' = approvals
      BY <2>2, <3>1, UndecidedKept DEF LoopInv
    <3>2. CASE approvals' # approvals
      <4>1. PICK v : approvals' = [approvals EXCEPT ![1].status = v]
        BY <1>2, <3>2, Zenon DEF ApproveClose
      <4>2. /\ Len(approvals') = Len(approvals)
            /\ \A j \in 1..Len(approvals) : approvals'[j].step = approvals[j].step
        BY <4>1, GateKept DEF RowsOK
      <4> QED
        BY <2>2, <4>2 DEF LoopInv, Undecided
    <3> QED
      BY <3>1, <3>2
  <2>6. LifeStep
    BY <2>2 DEF LifeStep
  <2> QED
    BY <2>4, <2>5, <2>6 DEF LoopInv
<1>3. CASE ApproveStart(p)
  <2>1. plan.status = "approved" /\ Turn(p)
    BY <1>3, <1>a DEF ApproveStart, At, Fits
  <2>2. plan'.status = "executing"
    <3>1. loc[p].flag \in BOOLEAN
      BY LocalFields, Zenon DEF LocalsOK
    <3> QED
      BY <1>3, <3>1, SetStatusOverType DEF ApproveStart, RowsOK, PlanStatus
  <2>3. Go(p, "next") /\ loc' = loc /\ starts' = starts
    BY <1>3 DEF ApproveStart, history
  <2>4. Fits("next", loc[p], plan'.status)
    BY <2>2 DEF Fits, Working, Live
  <2>5. Exclusive' /\ Guarded' /\ Undecided'
    BY <2>1, <2>2, <2>3, <2>4, LoopGoOn, UndecidedLive DEF Live
  <2>6. LifeStep
    BY <2>1, <2>2, <2>3 DEF LifeStep, Lifecycle!Edges
  <2> QED
    BY <2>5, <2>6 DEF LoopInv
<1>4. CASE RejectMark(p)
  <2>1. plan.status = "pending_approval" /\ Turn(p)
    BY <1>4, <1>a DEF RejectMark, At, Fits
  <2>2. plan'.status = "rejected"
    BY <1>4, SetStatusOverType DEF RejectMark, RowsOK, PlanStatus
  <2>3. Return(p) /\ UNCHANGED <<step, approvals, starts>>
    BY <1>4 DEF RejectMark, history
  <2>4. Exclusive' /\ Guarded' /\ Undecided'
    BY <2>1, <2>3, LoopReturn, UndecidedKept DEF LoopInv, Live
  <2>5. LifeStep
    BY <2>1, <2>2, <2>3 DEF LifeStep, Lifecycle!Edges
  <2> QED
    BY <2>4, <2>5 DEF LoopInv
<1>5. CASE CancelMark(p)
  <2>1. plan.status \in {"approved", "executing"} /\ Turn(p)
    BY <1>5, <1>a DEF CancelMark, At, Fits
  <2>2. plan'.status = "cancelled"
    BY <1>5, SetStatusType DEF CancelMark, RowsOK, PlanStatus
  <2>3. Return(p) /\ starts' = starts
    BY <1>5 DEF CancelMark, history
  <2>4. Exclusive' /\ Guarded' /\ Undecided'
    BY <2>1, <2>2, <2>3, LoopReturn, UndecidedLive DEF Live
  <2>5. LifeStep
    BY <2>1, <2>2, <2>3 DEF LifeStep, Lifecycle!Edges
  <2> QED
    BY <2>4, <2>5 DEF LoopInv
<1>6. CASE MarkApplied(p)
  <2>1. plan.status \in {"executing", "applied"} /\ Turn(p)
    BY <1>6, <1>a DEF MarkApplied, At, Fits
  <2>2. plan'.status = "applied"
    BY <1>6, SetStatusType DEF MarkApplied, RowsOK, PlanStatus
  <2>3. Return(p) /\ starts' = starts
    BY <1>6 DEF MarkApplied, history
  <2>4. Exclusive' /\ Guarded' /\ Undecided'
    BY <2>1, <2>2, <2>3, LoopReturn, UndecidedLive DEF Live
  <2>5. LifeStep
    BY <2>1, <2>2, <2>3 DEF LifeStep, Lifecycle!Edges
  <2> QED
    BY <2>4, <2>5 DEF LoopInv
<1> QED
  BY <1>1, <1>2, <1>3, <1>4, <1>5, <1>6

\* retryStep() and the approval hook.
LEMMA LoopResume ==
  ASSUME Backend = "sqlite", TypeInv, LoopInv, NEW p \in Request,
         RetryReset(p) \/ RetryUnskip(p) \/ RetryReopen(p) \/ VerdictWrite(p)
  PROVE  LoopInv' /\ LifeStep
<1> USE DEF TypeInv
<1>a. Fits(pc[p], loc[p], plan.status)
  BY DEF LoopInv, Guarded
<1>b. loc' = loc => loc' = [loc EXCEPT ![p] = loc[p]]
  BY DEF LocalsOK
<1>1. CASE RetryReset(p)
  <2>1. /\ Turn(p) /\ loc' = loc /\ UNCHANGED <<plan, starts>>
        /\ Go(p, IF loc[p].flag THEN "retryUnskip" ELSE "exec")
    BY <1>1, Zenon DEF RetryReset, At, history
  <2>2. /\ plan.status \in Live
        /\ loc[p].flag => plan.status = "execution_failed"
    BY <1>1, <1>a, Zenon DEF RetryReset, At, Fits
  <2>3. CASE loc[p].flag
    <3>1. Go(p, "retryUnskip")
      BY <2>1, <2>3, Zenon
    <3>2. Fits("retryUnskip", loc[p], plan'.status)
      BY <2>1, <2>2, <2>3 DEF Fits, Working
    <3>3. Exclusive' /\ Guarded' /\ Undecided'
      BY <2>1, <2>2, <3>1, <3>2, LoopGoOn, UndecidedLive
    <3> QED
      BY <2>1, <3>3 DEF LifeStep, LoopInv
  <2>4. CASE ~loc[p].flag
    <3>1. Go(p, "exec") /\ loc' = [loc EXCEPT ![p] = loc[p]]
      BY <2>1, <2>4, <1>b, Zenon
    <3> QED
      BY <2>1, <2>2, <3>1, LoopWork DEF Working
  <2> QED
    BY <2>3, <2>4
<1>2. CASE RetryUnskip(p)
  <2>1. Turn(p) /\ Go(p, "retryUnskip") /\ UNCHANGED <<plan, starts>>
    BY <1>2 DEF RetryUnskip, At, history
  <2>2. plan.status = "execution_failed"
    BY <1>2, <1>a DEF RetryUnskip, At, Fits
  <2>3. PICK c : loc' = [loc EXCEPT ![p] = c]
    BY <1>2, Zenon DEF RetryUnskip
  <2>4. Fits("retryUnskip", c, plan'.status)
    BY <2>1, <2>2 DEF Fits, Working
  <2>5. Exclusive' /\ Guarded' /\ Undecided'
    BY <2>1, <2>2, <2>3, <2>4, LoopMove, UndecidedLive DEF Live
  <2> QED
    BY <2>1, <2>5 DEF LifeStep, LoopInv
<1>3. CASE RetryReopen(p)
  <2>1. Turn(p) /\ Go(p, "exec") /\ loc' = loc /\ starts' = starts
    BY <1>3 DEF RetryReopen, At, history
  <2>2. plan.status = "execution_failed"
    BY <1>3, <1>a DEF RetryReopen, At, Fits
  <2>3. plan'.status = "executing"
    BY <1>3, SetStatusType DEF RetryReopen, RowsOK, PlanStatus
  <2>4. Fits("exec", loc[p], plan'.status)
    BY <2>3 DEF Fits, Working, Live
  <2>5. Exclusive' /\ Guarded' /\ Undecided'
    BY <2>1, <2>3, <2>4, LoopGoOn, UndecidedLive DEF Live
  <2>6. LifeStep
    BY <2>1, <2>2, <2>3 DEF LifeStep, Lifecycle!Edges
  <2> QED
    BY <2>5, <2>6 DEF LoopInv
<1>4. CASE VerdictWrite(p)
  <2>1. Turn(p) /\ UNCHANGED <<plan, step, starts>>
    BY <1>4 DEF VerdictWrite, At
  <2>2. loc[p].at = 0 \/ plan.status \in Live
    BY <1>4, <1>a DEF VerdictWrite, At, Fits
  <2>3. CASE Return(p)
    <3>1. PICK v : approvals' = [approvals EXCEPT ![loc[p].id].status = v]
      BY <1>4, Zenon DEF VerdictWrite
    <3>2. /\ Len(approvals') = Len(approvals)
          /\ \A j \in 1..Len(approvals) : approvals'[j].step = approvals[j].step
      BY <3>1, GateKept DEF RowsOK
    <3>3. Undecided'
      BY <2>1, <3>2 DEF LoopInv, Undecided
    <3>4. Exclusive' /\ Guarded'
      BY <2>1, <2>3, LoopReturn
    <3> QED
      BY <2>1, <3>3, <3>4 DEF LifeStep, LoopInv
  <2>4. CASE /\ loc[p].at # 0 /\ loc' = loc
             /\ Go(p, IF loc[p].op = "rejectStep" THEN "refuse" ELSE "exec")
    <3>1. PICK l \in {"refuse", "exec"} : Go(p, l)
      BY <2>4
    <3>2. loc' = [loc EXCEPT ![p] = loc[p]]
      BY <2>4, <1>b
    <3> QED
      BY <2>1, <2>2, <2>4, <3>1, <3>2, LoopWork DEF Working
  <2> QED
    BY <1>4, <2>3, <2>4 DEF VerdictWrite
<1> QED
  BY <1>1, <1>2, <1>3, <1>4

\* runNext(), executeStep() and haltPlan(), at their working labels.
LEMMA LoopExecute ==
  ASSUME Backend = "sqlite", TypeInv, LoopInv, NEW p \in Request,
         \/ Refuse(p) \/ RunNextStops(p) \/ RunNextContinues(p)
         \/ Submit(p) \/ Link(p) \/ LinkWrite(p)
         \/ Execute(p) \/ NotSent(p) \/ Dispatch(p) \/ CommandEnds(p)
         \/ HaltRead(p) \/ HaltSkip(p) \/ HaltMark(p)
  PROVE  LoopInv' /\ LifeStep
<1> USE DEF TypeInv
<1>a. loc' = loc => loc' = [loc EXCEPT ![p] = loc[p]]
  BY DEF LocalsOK
<1>b. {"next", "submit", "link", "linkWrite", "exec", "invalid", "dispatch", "await", "halt",
       "skip"} \subseteq Working
  BY DEF Working
<1>c. Turn(p) /\ plan.status \in Live
  <2>1. CASE Refuse(p) \/ RunNextStops(p) \/ RunNextContinues(p) \/ Submit(p) \/ Link(p)
             \/ LinkWrite(p)
    <3>1. Turn(p) /\ pc[p] \in Working
      BY <2>1 DEF Refuse, RunNextStops, RunNextContinues, Submit, Link, LinkWrite, At,
         Working
    <3> QED
      BY <3>1, WorkLive
  <2>2. CASE Execute(p) \/ NotSent(p) \/ Dispatch(p) \/ CommandEnds(p)
             \/ HaltRead(p) \/ HaltSkip(p) \/ HaltMark(p)
    <3>1. Turn(p) /\ pc[p] \in Working
      BY <2>2 DEF Execute, NotSent, Dispatch, CommandEnds, HaltRead, HaltSkip, HaltMark, At,
         Working
    <3> QED
      BY <3>1, WorkLive
  <2> QED
    BY <2>1, <2>2
<1>d. ASSUME NEW l \in Working, Go(p, l), loc' = loc, UNCHANGED <<plan, starts>>
      PROVE  LoopInv' /\ LifeStep
  BY <1>a, <1>c, <1>d, LoopWork
<1>e. ASSUME Return(p), plan'.status \in {plan.status, "execution_failed"}, starts' = starts
      PROVE  LoopInv' /\ LifeStep
  BY <1>c, <1>e, LoopWork DEF Return
<1>f. ASSUME StepFails(p), loc' = loc, UNCHANGED <<plan, starts>>
      PROVE  LoopInv' /\ LifeStep
  BY <1>b, <1>d, <1>f DEF StepFails, AfterFailure
<1>1. CASE Refuse(p)
  BY <1>1, <1>f DEF Refuse, history
<1>2. CASE RunNextStops(p)
  BY <1>2, <1>e DEF RunNextStops, history
<1>3. CASE RunNextContinues(p)
  <2>1. UNCHANGED <<plan, starts>> /\ plan.status \in {"executing", "applied"}
    BY <1>3, <1>c DEF RunNextContinues, Stopped, history, Live
  <2>2. CASE Go(p, "markApplied") /\ loc' = loc
    <3>1. Fits("markApplied", loc[p], plan'.status)
      BY <2>1 DEF Fits, Working
    <3>2. Exclusive' /\ Guarded' /\ Undecided'
      BY <2>1, <2>2, <3>1, <1>c, LoopGoOn, UndecidedLive
    <3> QED
      BY <2>1, <3>2 DEF LifeStep, LoopInv
  <2>3. ASSUME ~(Go(p, "markApplied") /\ loc' = loc)
        PROVE  LoopInv' /\ LifeStep
    <3>1. \E s \in Step : \E l \in {"exec", "submit"} :
            loc' = [loc EXCEPT ![p].at = s] /\ Go(p, l)
      BY <1>3, <2>3, Zenon DEF RunNextContinues, StartNext
    <3>2. PICK l \in {"exec", "submit"} : Go(p, l) /\ \E c : loc' = [loc EXCEPT ![p] = c]
      BY <3>1, Zenon
    <3>3. l \in Working
      BY <1>b
    <3> QED
      BY <2>1, <3>2, <3>3, <1>c, LoopWork
  <2> QED
    BY <2>2, <2>3
<1>4. CASE Submit(p)
  BY <1>4, <1>b, <1>d DEF Submit, history
<1>5. CASE Link(p)
  <2>1. \E c : loc' = [loc EXCEPT ![p] = c]
    BY <1>5, Zenon DEF Link
  <2> QED
    BY <1>5, <2>1, <1>b, <1>c, LoopWork DEF Link, history
<1>6. CASE LinkWrite(p)
  BY <1>6, <1>e DEF LinkWrite, history
<1>7. CASE Execute(p)
  BY <1>7, <1>b, <1>d DEF Execute, history
<1>8. CASE NotSent(p)
  BY <1>8, <1>f DEF NotSent, history
<1>9. CASE Dispatch(p)
  <2>1. Go(p, "await") /\ loc' = loc /\ plan' = plan /\ starts' = Bump(starts, {loc[p].at})
    BY <1>9 DEF Dispatch
  <2>2. loc[p].at \in Step
    BY <1>9 DEF Dispatch, At, LocalsOK, StepLabel
  <2>3. Fits("await", loc[p], plan'.status)
    BY <2>1, <1>c DEF Fits, Working
  <2>4. Exclusive' /\ Guarded' /\ Undecided'
    BY <2>1, <2>3, <1>c, LoopGoOn, UndecidedLive
  <2> QED
    BY <2>1, <2>2, <2>4, <1>c DEF LifeStep, LoopInv
<1>10. CASE CommandEnds(p)
  BY <1>10, <1>b, <1>d, <1>f DEF CommandEnds
<1>11. CASE HaltRead(p)
  <2>1. \E c : loc' = [loc EXCEPT ![p] = c]
    BY <1>11, Zenon DEF HaltRead
  <2> QED
    BY <1>11, <2>1, <1>b, <1>c, LoopWork DEF HaltRead, history
<1>12. CASE HaltSkip(p)
  <2>1. \E c : loc' = [loc EXCEPT ![p] = c]
    BY <1>12, Zenon DEF HaltSkip
  <2> QED
    BY <1>12, <2>1, <1>b, <1>c, LoopWork DEF HaltSkip, history
<1>13. CASE HaltMark(p)
  <2>1. plan'.status = "execution_failed" /\ starts' = starts
    BY <1>13, SetStatusType DEF HaltMark, HaltStatus, RowsOK, PlanStatus, history
  <2>2. CASE Return(p)
    BY <2>1, <2>2, <1>e
  <2>3. CASE Go(p, "next") /\ loc' = loc
    BY <2>1, <2>3, <1>a, <1>b, <1>c, LoopWork
  <2> QED
    BY <1>13, <2>2, <2>3 DEF HaltMark
<1> QED
  BY <1>1, <1>2, <1>3, <1>4, <1>5, <1>6, <1>7, <1>8, <1>9, <1>10, <1>11, <1>12, <1>13

\* The sweeper waits for the loop; faults change no row.
LEMMA LoopFault ==
  ASSUME Backend = "sqlite", TypeInv, LoopInv,
         Expire \/ Crash \/ \E p \in Request : StatementFails(p)
  PROVE  LoopInv' /\ LifeStep
<1> USE DEF TypeInv
<1>1. CASE Expire
  <2>1. plan.status = "pending_approval" /\ plan'.status = "expired"
    BY <1>1, SetStatusType DEF Expire, RowsOK, PlanStatus
  <2>2. UNCHANGED <<pc, loc, loop, step, approvals, starts>> /\ loop = None
    BY <1>1 DEF Expire, history
  <2>3. \A q \in Request : pc[q] \in {"idle", "await"}
    BY <2>2, ConstantsAssumption DEF LoopInv, Exclusive
  <2>4. \A q \in Request : pc[q] = "idle"
    BY <2>1, <2>3 DEF LoopInv, Guarded, Fits, Working, Live
  <2>5. Exclusive' /\ Guarded'
    BY <2>2, <2>4 DEF Exclusive, Guarded, Fits, Working
  <2>6. Undecided'
    BY <2>1, <2>2, UndecidedKept DEF LoopInv, Live
  <2>7. LifeStep
    BY <2>1, <2>2 DEF LifeStep, Lifecycle!Edges
  <2> QED
    BY <2>5, <2>6, <2>7 DEF LoopInv
<1>2. CASE Crash
  <2>1. UNCHANGED <<plan, step, approvals, starts>>
    BY <1>2 DEF Crash, history
  <2>2. \A q \in Request : pc'[q] = "idle"
    BY <1>2 DEF Crash
  <2>3. Exclusive' /\ Guarded'
    BY <2>2 DEF Exclusive, Guarded, Fits, Working
  <2>4. Undecided' /\ LifeStep
    BY <2>1, UndecidedKept DEF LoopInv, LifeStep
  <2> QED
    BY <2>3, <2>4 DEF LoopInv
<1>3. ASSUME NEW p \in Request, StatementFails(p)
      PROVE  LoopInv' /\ LifeStep
  <2>1. Turn(p) /\ Return(p) /\ UNCHANGED <<plan, step, approvals, starts>>
    BY <1>3 DEF StatementFails, history
  <2>2. Exclusive' /\ Guarded' /\ Undecided'
    BY <2>1, LoopReturn, UndecidedKept DEF LoopInv
  <2> QED
    BY <2>1, <2>2 DEF LoopInv, LifeStep
<1> QED
  BY <1>1, <1>2, <1>3

LEMMA LoopInductive ==
  ASSUME Backend = "sqlite", TypeInv, LoopInv, [Next]_vars
  PROVE  LoopInv' /\ LifeStep
<1>1. CASE UNCHANGED vars
  BY <1>1 DEF vars, LoopInv, Exclusive, Guarded, Undecided, LifeStep
<1>2. ASSUME NEW p \in Request, Arrive(p) \/ Work(p) \/ StatementFails(p)
      PROVE  LoopInv' /\ LifeStep
  BY <1>2, LoopArrive, LoopDecision, LoopResume, LoopExecute, LoopFault DEF Work
<1>3. CASE Expire \/ Crash
  BY <1>3, LoopFault
<1> QED
  BY <1>1, <1>2, <1>3 DEF Next

\* With a synchronous driver the checks of approve(), reject() and the sweeper
\* cannot go stale before the write that follows them: a plan that was rejected
\* or has expired stays so and never sends a command.
THEOREM RefusalPermanent ==
  ASSUME Backend = "sqlite" PROVE Spec => RefusalIsPermanent
<1>1. Init => TypeInv /\ LoopInv
  BY InitTyped, LoopInit
<1>2. TypeInv /\ LoopInv /\ [Next]_vars => (TypeInv /\ LoopInv)' /\ LifeStep
  BY TypeInvInductive, LoopInductive
<1>3. LifeStep => (plan.status \in Refused => plan'.status = plan.status /\ starts' = starts)
  BY DEF LifeStep, Live, Refused, Lifecycle!Edges
<1> QED
  BY <1>1, <1>2, <1>3, PTL DEF Spec, RefusalIsPermanent

\* ... and every step of the executor is a step of the life cycle in the header
\* of plan-executor-service.ts, or invisible to an operator.
THEOREM Refinement ==
  ASSUME Backend = "sqlite" PROVE Spec => ImplementsLifecycle
<1>1. Init => TypeInv /\ LoopInv
  BY InitTyped, LoopInit
<1>2. TypeInv /\ LoopInv /\ [Next]_vars => (TypeInv /\ LoopInv)' /\ LifeStep
  BY TypeInvInductive, LoopInductive
<1>3. Init => Lifecycle!LifecycleInit
  BY DEF Init, Lifecycle!LifecycleInit
<1>4. TypeInv /\ LifeStep => [Lifecycle!LifecycleNext]_(Lifecycle!lifecycleVars)
  <2> SUFFICES ASSUME TypeInv, LifeStep
               PROVE  [Lifecycle!LifecycleNext]_(Lifecycle!lifecycleVars)
    OBVIOUS
  <2> DEFINE ran == {s \in Step : starts[s] > 0}
  <2>1. CASE plan'.status = plan.status /\ starts' = starts
    BY <2>1 DEF Lifecycle!lifecycleVars
  <2>2. CASE <<plan.status, plan'.status>> \in Lifecycle!Edges /\ starts' = starts
    BY <2>2 DEF Lifecycle!LifecycleNext, Lifecycle!Move
  <2>3. ASSUME plan.status \in Live, plan'.status = plan.status,
               NEW s \in Step, starts' = Bump(starts, {s})
        PROVE  Lifecycle!Run
    <3>1. ran' = ran \cup {s}
      BY <2>3 DEF Bump, TypeInv, HistoryOK
    <3> QED
      BY <2>3, <3>1 DEF Lifecycle!Run, Lifecycle!Live, Live, Step
  <2> QED
    BY <2>1, <2>2, <2>3 DEF LifeStep, Lifecycle!LifecycleNext
<1> QED
  BY <1>1, <1>2, <1>3, <1>4, PTL DEF Spec, ImplementsLifecycle, Lifecycle!LifecycleSpec

=============================================================================
