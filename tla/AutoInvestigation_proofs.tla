---------------------- MODULE AutoInvestigation_proofs ----------------------
(***************************************************************************)
(* Proofs about AutoInvestigation: types and links on both stores; and for *)
(* one process on sqlite that a verdict is final and that events are       *)
(* deduplicated.                                                           *)
(***************************************************************************)
EXTENDS AutoInvestigation, TLAPS

Actor == Run \cup Replica

-----------------------------------------------------------------------------
(* Types and links.                                                        *)

\* A row of the rule links only an investigation that was saved.
Linkable(r) == r.inv # 0 => row[r.inv] # "none"

StoreOK ==
  /\ backend \in Backends
  /\ rule \in RuleRow
  /\ row \in [Run -> RowStatus]
  /\ rowAge \in [Run -> Age]
  /\ other \in RuleRow \cup {None}
RunsOK ==
  /\ kind \in [Run -> {"auto", "manual"}]
  /\ home \in [Run -> Replica \cup {None}]
  /\ agent \in [Run -> AgentStatus]
  /\ age \in [Run -> Age]
ControlOK ==
  /\ pc \in [Actor -> RunLabel \cup SweepLabel]
  /\ \A t \in Run : pc[t] \in RunLabel
  /\ \A r \in Replica : pc[r] \in SweepLabel
  /\ loop \in Actor \cup {None}
LocalOK == loc \in [Actor -> Local]
BudgetOK == budget \in [upsets : Nat, faulted : BOOLEAN]
LinkOK ==
  /\ Linkable(rule)
  /\ \A p \in Actor : Linkable(loc[p].seen)
  /\ other # None => Linkable(other)
  /\ \A t \in Run : pc[t] \in {"force", "link", "linkWrite"} => row[t] # "none"

Types == StoreOK /\ RunsOK /\ ControlOK /\ LocalOK /\ BudgetOK
TypeInv == Types /\ LinkOK

LEMMA Constants ==
  /\ 0 \in Age /\ MaxAge \in Nat /\ 0 \in 0..MaxRuns /\ Run \subseteq 0..MaxRuns
  /\ None \notin Actor /\ Run \cap Replica = {}
  /\ NoRow \in RuleRow /\ NoRow.inv = 0 /\ NoLocal \in Local /\ NoLocal.seen = NoRow
<1>1. /\ 0 \in Age /\ MaxAge \in Nat /\ 0 \in 0..MaxRuns /\ Run \subseteq 0..MaxRuns
      /\ None \notin Actor /\ Run \cap Replica = {}
  BY ConstantsAssumption DEF Age, MaxAge, Run, Actor
<1>2. NoRow \in RuleRow /\ NoRow.inv = 0
  BY <1>1 DEF NoRow, RuleRow
<1>3. NoLocal \in Local /\ NoLocal.seen = NoRow
  BY <1>2 DEF NoLocal, Local
<1> QED
  BY <1>1, <1>2, <1>3

LEMMA RowEdits ==
  ASSUME NEW r \in RuleRow
  PROVE  /\ Started(r) \in RuleRow /\ Started(r).inv = 0
         /\ Unmarked(r) \in RuleRow /\ Unmarked(r).inv = r.inv
         /\ \A t \in Run : LinkedTo(r, t) \in RuleRow /\ LinkedTo(r, t).inv = t
BY Constants DEF RuleRow, Started, Unmarked, LinkedTo

LEMMA GoControl ==
  ASSUME ControlOK, NEW p \in Actor, NEW label,
         p \in Run => label \in RunLabel, p \in Replica => label \in SweepLabel,
         Go(p, label)
  PROVE  ControlOK' /\ pc'[p] = label /\ \A q \in Actor \ {p} : pc'[q] = pc[q]
<1>1. pc' = [pc EXCEPT ![p] = label]
  BY DEF Go
<1>2. pc'[p] = label /\ \A q \in Actor \ {p} : pc'[q] = pc[q]
  BY <1>1 DEF ControlOK
<1>3. label \in RunLabel \cup SweepLabel
  BY DEF Actor
<1>4. pc' \in [Actor -> RunLabel \cup SweepLabel]
  BY <1>1, <1>3 DEF ControlOK
<1>5. \A t \in Run : pc'[t] \in RunLabel
  BY <1>2 DEF ControlOK, Actor
<1>6. \A r \in Replica : pc'[r] \in SweepLabel
  BY <1>2 DEF ControlOK, Actor
<1>7. loop' \in Actor \cup {None}
  BY DEF Go
<1> QED
  BY <1>2, <1>4, <1>5, <1>6, <1>7 DEF ControlOK

LEMMA LocalMoves ==
  ASSUME LocalOK, rule \in RuleRow, NEW p \in Actor
  PROVE  /\ See(p) => LocalOK' /\ \A q \in Actor : loc'[q].seen \in {loc[q].seen, rule}
         /\ Forget(p) => LocalOK' /\ \A q \in Actor : loc'[q].seen \in {loc[q].seen, NoRow}
BY Constants DEF LocalOK, Local, See, Forget

LEMMA StatusMove ==
  ASSUME StoreOK, NEW t \in 0..MaxRuns, NEW status \in RowStatus \ {"none"}, SetStatus(t, status)
  PROVE  /\ row' \in [Run -> RowStatus] /\ rowAge' \in [Run -> Age]
         /\ \A u \in Run : row[u] # "none" => row'[u] # "none"
BY Constants DEF StoreOK, SetStatus

LEMMA UpsetMove ==
  ASSUME BudgetOK, NEW fault \in BOOLEAN, Upset(fault)
  PROVE  BudgetOK'
<1>1. budget.upsets - 1 \in Nat
  BY DEF BudgetOK, Upset
<1>2. (budget.faulted \/ fault) \in BOOLEAN
  OBVIOUS
<1> QED
  BY <1>1, <1>2, Zenon DEF BudgetOK, Upset

LEMMA UpsetFaults ==
  ASSUME NEW fault \in BOOLEAN, Upset(fault), fault \/ Faulted
  PROVE  Faulted'
<1>1. budget' = [upsets |-> budget.upsets - 1, faulted |-> budget.faulted \/ fault]
  BY DEF Upset
<1>2. budget'.faulted = (budget.faulted \/ fault)
  BY <1>1, Zenon
<1> QED
  BY <1>2, Zenon DEF Faulted

LEMMA LinkMove ==
  ASSUME TypeInv, StoreOK',
         \A t \in Run : row[t] # "none" => row'[t] # "none",
         rule'.inv \in {0, rule.inv} \/ row[rule'.inv] # "none",
         \A p \in Actor : loc'[p].seen \in {loc[p].seen, rule, NoRow},
         other' \in {other, rule, None},
         \A t \in Run : pc'[t] \in {"force", "link", "linkWrite"} =>
                          pc[t] \in {"force", "link", "linkWrite"} \/ row[t] # "none"
  PROVE  LinkOK'
<1>1. ASSUME NEW r \in RuleRow PROVE r.inv \in Run \cup {0}
  BY ConstantsAssumption DEF RuleRow, Run
<1>2. ASSUME NEW r \in RuleRow, Linkable(r) PROVE r.inv # 0 => row'[r.inv] # "none"
  BY <1>1, <1>2 DEF Linkable
<1>3. Linkable(rule)'
  BY <1>1, <1>2 DEF TypeInv, Types, StoreOK, LinkOK, Linkable
<1>4. ASSUME NEW p \in Actor PROVE Linkable(loc[p].seen)'
  <2>1. loc[p].seen \in RuleRow /\ rule \in RuleRow /\ NoRow.inv = 0
    BY Constants DEF TypeInv, Types, LocalOK, Local, StoreOK
  <2> QED
    BY <1>2, <2>1 DEF TypeInv, LinkOK, Linkable
<1>5. other' # None => Linkable(other)'
  <2>1. rule \in RuleRow /\ other \in RuleRow \cup {None}
    BY DEF TypeInv, Types, StoreOK
  <2> QED
    BY <1>2, <2>1 DEF TypeInv, LinkOK, Linkable
<1>6. \A t \in Run : pc'[t] \in {"force", "link", "linkWrite"} => row'[t] # "none"
  BY DEF TypeInv, LinkOK
<1> QED
  BY <1>3, <1>4, <1>5, <1>6 DEF LinkOK

\* A step of a handler or a sweep: where it goes, and what it may write.
LEMMA GoMove ==
  ASSUME TypeInv, NEW p \in Actor, NEW label,
         p \in Run => label \in RunLabel, p \in Replica => label \in SweepLabel,
         Go(p, label), StoreOK', RunsOK', LocalOK', BudgetOK',
         \A t \in Run : row[t] # "none" => row'[t] # "none",
         rule'.inv \in {0, rule.inv} \/ row[rule'.inv] # "none",
         \A q \in Actor : loc'[q].seen \in {loc[q].seen, rule, NoRow},
         other' \in {other, rule, None},
         p \in Run /\ label \in {"force", "link", "linkWrite"} =>
           pc[p] \in {"force", "link", "linkWrite"} \/ row[p] # "none"
  PROVE  TypeInv'
<1>1. ControlOK' /\ pc'[p] = label /\ \A q \in Actor \ {p} : pc'[q] = pc[q]
  BY GoControl DEF TypeInv, Types
<1>2. \A t \in Run : pc'[t] \in {"force", "link", "linkWrite"} =>
                       pc[t] \in {"force", "link", "linkWrite"} \/ row[t] # "none"
  BY <1>1 DEF Actor
<1>3. LinkOK'
  BY <1>2, LinkMove
<1> QED
  BY <1>1, <1>3 DEF TypeInv, Types

\* ... that writes no row of an investigation and starts nothing.
LEMMA GoQuiet ==
  ASSUME TypeInv, NEW p \in Actor, NEW label,
         p \in Run => label \in RunLabel, p \in Replica => label \in SweepLabel,
         Go(p, label), UNCHANGED <<backend, other>>, UNCHANGED_RUNS,
         rule' \in RuleRow, rule'.inv \in {0, rule.inv} \/ row[rule'.inv] # "none",
         LocalOK', \A q \in Actor : loc'[q].seen \in {loc[q].seen, rule, NoRow},
         BudgetOK',
         p \in Run /\ label \in {"force", "link", "linkWrite"} =>
           pc[p] \in {"force", "link", "linkWrite"} \/ row[p] # "none"
  PROVE  TypeInv'
<1>1. StoreOK' /\ RunsOK'
  BY DEF TypeInv, Types, StoreOK, RunsOK, UNCHANGED_RUNS
<1>2. /\ \A t \in Run : row[t] # "none" => row'[t] # "none"
      /\ other' \in {other, rule, None}
  BY DEF UNCHANGED_RUNS
<1> QED
  BY <1>1, <1>2, GoMove

\* The parts of the invariant a step leaves alone.
LEMMA Kept ==
  ASSUME TypeInv
  PROVE  /\ rule \in RuleRow
         /\ UNCHANGED rule => rule' \in RuleRow /\ rule'.inv = rule.inv
         /\ UNCHANGED budget => BudgetOK'
         /\ UNCHANGED loc => LocalOK' /\ \A q \in Actor : loc'[q].seen = loc[q].seen
         /\ UNCHANGED <<backend, rule, row, rowAge, other>> => StoreOK'
         /\ UNCHANGED <<kind, home, agent, age>> => RunsOK'
         /\ UNCHANGED <<pc, loop>> => ControlOK'
BY DEF TypeInv, Types, StoreOK, RunsOK, ControlOK, LocalOK, BudgetOK

LEMMA StartTypes ==
  ASSUME TypeInv, NEW t \in Run, NEW r \in Replica, Fire(t, r) \/ Click(t, r)
  PROVE  TypeInv'
<1>1. PICK k \in {"auto", "manual"} : Begin(t, k, r)
  BY DEF Fire, Click
<1>2. \E label \in {"identity", "checkRow", "mark", "done"} : Go(t, label)
  BY DEF Fire, Click, VerdictOnRule
<1>3. PICK label \in {"identity", "checkRow", "mark", "done"} : Go(t, label)
  BY <1>2
<1>4. /\ t \in Actor /\ t \notin Replica /\ label \in RunLabel
      /\ label \notin {"force", "link", "linkWrite"}
  BY Constants DEF Actor, RunLabel
<1>5. StoreOK' /\ RunsOK' /\ BudgetOK'
  BY <1>1, Kept DEF Begin, TypeInv, Types, RunsOK
<1>6. LocalOK' /\ \A q \in Actor : loc'[q].seen \in {loc[q].seen, rule}
  <2>1. See(t) \/ UNCHANGED loc
    BY DEF Fire, Click
  <2> QED
    BY <1>4, <2>1, Kept, LocalMoves DEF TypeInv, Types
<1>7. UNCHANGED <<rule, row, other>>
  BY <1>1 DEF Begin
<1> QED
  BY <1>3, <1>4, <1>5, <1>6, <1>7, GoMove

\* The steps of a handler that only go on, and remember or forget the row.
LEMMA HandlerTypes ==
  ASSUME TypeInv, NEW t \in Run,
         CheckRow(t) \/ Identify(t) \/ MarkRead(t) \/ Lookup(t) \/ FinishRead(t) \/ Throw(t)
  PROVE  TypeInv'
<1>1. t \in Actor /\ t \notin Replica
  BY Constants DEF Actor
<1>2. UNCHANGED <<backend, other, rule>> /\ UNCHANGED_RUNS
  BY DEF CheckRow, Identify, MarkRead, Lookup, FinishRead, Throw
<1>3. LocalOK' /\ \A q \in Actor : loc'[q].seen \in {loc[q].seen, rule, NoRow}
  <2>1. See(t) \/ Forget(t) \/ UNCHANGED loc
    BY DEF CheckRow, Identify, MarkRead, Lookup, FinishRead, Throw
  <2> QED
    BY <1>1, <2>1, Kept, LocalMoves DEF TypeInv, Types
<1>4. BudgetOK'
  <2>1. UNCHANGED budget \/ Upset(TRUE)
    BY DEF CheckRow, Identify, MarkRead, Lookup, FinishRead, Throw
  <2> QED
    BY <2>1, Kept, UpsetMove DEF TypeInv, Types
<1>5. \E label \in RunLabel :
        /\ Go(t, label)
        /\ label \in {"force", "link", "linkWrite"} =>
             pc[t] \in {"force", "link", "linkWrite"} \/ row[t] # "none"
  <2>1. CASE CheckRow(t)
    BY <2>1 DEF CheckRow, VerdictOnRow, RunLabel
  <2>2. CASE Identify(t)
    BY <2>2 DEF Identify, RunLabel
  <2>3. CASE MarkRead(t)
    BY <2>3 DEF MarkRead, RunLabel
  <2>4. CASE Lookup(t)
    BY <2>4 DEF Lookup, LookupVerdict, Exists, RunLabel
  <2>5. CASE FinishRead(t)
    BY <2>5 DEF FinishRead, At, RunLabel
  <2>6. CASE Throw(t)
    <3>1. /\ AfterThrow(t) \in {"identity", "link", "clear", "done"}
          /\ AfterThrow(t) = "link" => pc[t] = "force"
      BY DEF AfterThrow
    <3>2. AfterThrow(t) \in RunLabel
      BY <3>1 DEF RunLabel
    <3> QED
      BY <2>6, <3>1, <3>2 DEF Throw
  <2> QED
    BY <2>1, <2>2, <2>3, <2>4, <2>5, <2>6
<1>6. PICK label \in RunLabel :
        /\ Go(t, label)
        /\ label \in {"force", "link", "linkWrite"} =>
             pc[t] \in {"force", "link", "linkWrite"} \/ row[t] # "none"
  BY <1>5
<1> QED
  BY <1>1, <1>2, <1>3, <1>4, <1>6, Kept, GoQuiet

LEMMA WriteTypes ==
  ASSUME TypeInv, NEW t \in Run, LinkWrite(t) \/ ClearWrite(t)
  PROVE  TypeInv'
<1>1. t \in Actor /\ t \notin Replica /\ "done" \in RunLabel
  BY Constants DEF Actor, RunLabel
<1>2. loc[t].seen \in RuleRow /\ Linkable(loc[t].seen)
  BY <1>1 DEF TypeInv, Types, LocalOK, Local, LinkOK
<1>3. rule' \in RuleRow /\ (rule'.inv \in {0, rule.inv} \/ row[rule'.inv] # "none")
  <2>2. LinkWrite(t) => row[t] # "none"
    BY DEF LinkWrite, At, TypeInv, LinkOK
  <2>3. LinkWrite(t) => rule' \in {rule, LinkedTo(loc[t].seen, t)}
    BY DEF LinkWrite, Write
  <2>4. ClearWrite(t) => rule' \in {rule, Unmarked(loc[t].seen)}
    BY DEF ClearWrite, Write
  <2>5. CASE LinkWrite(t)
    BY <1>2, <2>2, <2>3, <2>5, Kept, RowEdits
  <2>6. CASE ClearWrite(t)
    BY <1>2, <2>4, <2>6, Kept, RowEdits DEF Linkable
  <2> QED
    BY <2>5, <2>6
<1>4. LocalOK' /\ \A q \in Actor : loc'[q].seen \in {loc[q].seen, rule, NoRow}
  <2>1. Forget(t)
    BY DEF LinkWrite, ClearWrite
  <2> QED
    BY <1>1, <2>1, LocalMoves, Kept DEF TypeInv, Types
<1>5. Go(t, "done") /\ UNCHANGED <<backend, other, budget>> /\ UNCHANGED_RUNS
  BY DEF LinkWrite, ClearWrite
<1> QED
  BY <1>1, <1>3, <1>4, <1>5, Kept, GoQuiet

LEMMA StatusTypes ==
  ASSUME TypeInv, NEW t \in Run, FailStale(t) \/ ForceStatus(t)
  PROVE  TypeInv'
<1>1. t \in Actor /\ t \notin Replica
  BY Constants DEF Actor
<1>2. loc[t].seen.inv \in 0..MaxRuns /\ t \in 0..MaxRuns
  BY <1>1, Constants DEF TypeInv, Types, LocalOK, Local, RuleRow
<1>3. \E u \in 0..MaxRuns, status \in RowStatus \ {"none"} : SetStatus(u, status)
  BY <1>2 DEF FailStale, ForceStatus, RowStatus
<1>4. PICK u \in 0..MaxRuns, status \in RowStatus \ {"none"} : SetStatus(u, status)
  BY <1>3
<1>5. UNCHANGED <<backend, rule, kind, home, agent, age, other, budget>>
  BY DEF FailStale, ForceStatus
<1>6. StoreOK' /\ RunsOK' /\ \A v \in Run : row[v] # "none" => row'[v] # "none"
  <2>1. /\ row' \in [Run -> RowStatus] /\ rowAge' \in [Run -> Age]
        /\ \A v \in Run : row[v] # "none" => row'[v] # "none"
    BY <1>4, StatusMove DEF TypeInv, Types
  <2> QED
    BY <1>5, <2>1, Kept DEF TypeInv, Types, StoreOK
<1>7. LocalOK' /\ \A q \in Actor : loc'[q].seen \in {loc[q].seen, rule, NoRow}
  <2>1. Forget(t) \/ UNCHANGED loc
    BY DEF FailStale, ForceStatus
  <2> QED
    BY <1>1, <2>1, LocalMoves, Kept DEF TypeInv, Types
<1>8. PICK label \in {"identity", "link"} : Go(t, label) /\ (label = "link" => pc[t] = "force")
  BY DEF FailStale, ForceStatus, At
<1>9. label \in RunLabel
  BY DEF RunLabel
<1> QED
  BY <1>1, <1>5, <1>6, <1>7, <1>8, <1>9, Kept, GoMove

LEMMA SpawnTypes ==
  ASSUME TypeInv, NEW t \in Run, MarkWrite(t) \/ MarkThrow(t)
  PROVE  TypeInv'
<1>1. t \in Actor /\ t \notin Replica /\ "agent" \in RunLabel /\ "work" \in AgentStatus
  BY Constants DEF Actor, RunLabel, AgentStatus
<1>2. Spawn(t)
  BY DEF MarkWrite, MarkThrow
<1>3. rule' \in RuleRow /\ rule'.inv \in {0, rule.inv}
  <2>1. loc[t].seen \in RuleRow
    BY <1>1 DEF TypeInv, Types, LocalOK, Local
  <2>2. rule' \in {rule, Started(loc[t].seen)}
    BY DEF MarkWrite, MarkThrow, Write
  <2> QED
    BY <2>1, <2>2, Kept, RowEdits
<1>4. RunsOK'
  BY <1>1, <1>2, Constants DEF Spawn, TypeInv, Types, RunsOK
<1>5. StoreOK' /\ UNCHANGED <<row, other>>
  BY <1>2, <1>3 DEF Spawn, TypeInv, Types, StoreOK
<1>6. LocalOK' /\ \A q \in Actor : loc'[q].seen \in {loc[q].seen, rule, NoRow}
  BY <1>1, <1>2, LocalMoves, Kept DEF Spawn, TypeInv, Types
<1>7. BudgetOK'
  BY Kept, UpsetMove DEF MarkWrite, MarkThrow, TypeInv, Types
<1>8. Go(t, "agent")
  BY <1>2 DEF Spawn
<1> QED
  BY <1>1, <1>3, <1>4, <1>5, <1>6, <1>7, <1>8, GoMove

LEMMA ResumeTypes ==
  ASSUME TypeInv, NEW t \in Run, AgentReturned(t) \/ TimedOut(t)
  PROVE  TypeInv'
<1>1. t \in Actor /\ t \notin Replica /\ "lookup" \in RunLabel /\ "clear" \in RunLabel
  BY Constants DEF Actor, RunLabel
<1>2. PICK ok \in BOOLEAN : Resume(t, ok)
  BY DEF AgentReturned, TimedOut
<1>3. PICK label \in {"lookup", "clear"} : Go(t, label)
  BY <1>2 DEF Resume, AfterRace
<1>4. RunsOK'
  <2>1. "none" \in AgentStatus
    BY DEF AgentStatus
  <2> QED
    BY <1>2, <2>1, Constants DEF Resume, TypeInv, Types, RunsOK
<1>5. LocalOK' /\ \A q \in Actor : loc'[q].seen = loc[q].seen
  BY <1>1, <1>2 DEF Resume, TypeInv, Types, LocalOK, Local
<1>6. UNCHANGED <<backend, rule, row, rowAge, other, budget>>
  BY <1>2 DEF Resume
<1> QED
  BY <1>1, <1>3, <1>4, <1>5, <1>6, Kept, GoMove

LEMMA AgentTypes ==
  ASSUME TypeInv, NEW t \in Run, Agent(t)
  PROVE  TypeInv'
<1>1. t \in Actor /\ t \in 0..MaxRuns
  BY Constants DEF Actor
<1>2. UNCHANGED <<backend, rule, kind, home, age, pc, loc, other>>
  BY DEF Agent, AgentSave, AgentReport, AgentRetry, AgentEnd
<1>3. RunsOK'
  <2>1. PICK a \in AgentStatus : agent' = [agent EXCEPT ![t] = a]
    BY DEF Agent, AgentSave, AgentReport, AgentRetry, AgentEnd, AgentStatus
  <2> QED
    BY <1>2, <2>1 DEF TypeInv, Types, RunsOK
<1>4. ControlOK'
  BY <1>1, <1>2 DEF Agent, AgentSave, AgentReport, AgentRetry, AgentEnd, TypeInv, Types, ControlOK
<1>5. StoreOK' /\ \A v \in Run : row[v] # "none" => row'[v] # "none"
  <2>1. CASE UNCHANGED <<row, rowAge>>
    BY <1>2, <2>1, Kept
  <2>2. CASE \E status \in RowStatus \ {"none"} : SetStatus(t, status)
    <3>1. /\ row' \in [Run -> RowStatus] /\ rowAge' \in [Run -> Age]
          /\ \A v \in Run : row[v] # "none" => row'[v] # "none"
      BY <1>1, <2>2, StatusMove DEF TypeInv, Types
    <3> QED
      BY <1>2, <3>1 DEF TypeInv, Types, StoreOK
  <2> QED
    BY <2>1, <2>2 DEF Agent, AgentSave, AgentReport, AgentRetry, AgentEnd, RowStatus
<1>6. BudgetOK'
  <2>1. UNCHANGED budget \/ Upset(TRUE)
    BY DEF Agent, AgentSave, AgentReport, AgentRetry, AgentEnd
  <2> QED
    BY <2>1, Kept, UpsetMove DEF TypeInv, Types
<1>7. LocalOK'
  BY <1>2, Kept
<1>8. LinkOK'
  BY <1>2, <1>5, LinkMove
<1> QED
  BY <1>3, <1>4, <1>5, <1>6, <1>7, <1>8 DEF TypeInv, Types

LEMMA DeleteTypes ==
  ASSUME TypeInv, NEW t \in Run, DeleteRow(t)
  PROVE  TypeInv'
<1>1. /\ row' = [row EXCEPT ![t] = "deleted"] /\ rowAge' = [rowAge EXCEPT ![t] = 0]
      /\ UNCHANGED <<backend, rule, kind, home, agent, age, pc, loc, other, loop>> /\ Upset(FALSE)
  BY DEF DeleteRow
<1>2. StoreOK' /\ \A v \in Run : row[v] # "none" => row'[v] # "none"
  <2>1. "deleted" \in RowStatus
    BY DEF RowStatus
  <2> QED
    BY <1>1, <2>1, Constants DEF TypeInv, Types, StoreOK
<1>3. BudgetOK'
  BY <1>1, UpsetMove DEF TypeInv, Types
<1>4. LinkOK'
  BY <1>1, <1>2, LinkMove
<1> QED
  BY <1>1, <1>2, <1>3, <1>4, Kept DEF TypeInv, Types

\* What a sweep's step on the rows does to its locals.
LEMMA FailMove ==
  ASSUME LocalOK, NEW r \in Replica, NEW todo \in SUBSET Run, GoFail(r, todo)
  PROVE  /\ LocalOK' /\ \A q \in Actor : loc'[q].seen = loc[q].seen
         /\ \A q \in Actor \ {r} : loc'[q] = loc[q]
         /\ loc'[r].todo = todo /\ loc'[r].flag = (loc[r].flag /\ todo # {})
<1>1. r \in Actor
  BY DEF Actor
<1>2. loc' = [loc EXCEPT ![r] = [@ EXCEPT !.todo = todo, !.flag = loc[r].flag /\ todo # {}]]
  BY <1>1 DEF GoFail, LocalOK, Local
<1>3. (loc[r].flag /\ todo # {}) \in BOOLEAN
  OBVIOUS
<1> QED
  BY <1>1, <1>2, <1>3 DEF LocalOK, Local

LEMMA SweepTypes ==
  ASSUME TypeInv, NEW r \in Replica, Sweep(r) \/ SweepThrow(r) \/ Restart(r)
  PROVE  TypeInv'
<1>1. r \in Actor /\ r \notin Run
  BY Constants DEF Actor
<1>2. loc[r].seen \in RuleRow /\ Linkable(loc[r].seen) /\ loc[r].todo \in SUBSET Run
  BY <1>1 DEF TypeInv, Types, LocalOK, Local, LinkOK
<1>3. /\ AfterRules(r) \in SweepLabel /\ AfterRows(r) \in SweepLabel
      /\ {"unmark", "unmarkWrite", "fail", "swept", "rules"} \subseteq SweepLabel
  BY DEF AfterRules, AfterRows, SweepLabel
<1>4. CASE FailRow(r)
  <2>1. PICK t \in loc[r].todo : SetStatus(t, "failed") /\ GoFail(r, loc[r].todo \ {t})
    BY <1>4 DEF FailRow
  <2>2. UNCHANGED <<backend, rule, kind, home, agent, age, other, budget>>
    BY <1>4 DEF FailRow
  <2>3. PICK label \in SweepLabel : Go(r, label)
    BY <1>3, <2>1 DEF GoFail
  <2>4. t \in 0..MaxRuns /\ "failed" \in RowStatus \ {"none"}
    BY <1>2, Constants DEF RowStatus
  <2>5. /\ row' \in [Run -> RowStatus] /\ rowAge' \in [Run -> Age]
        /\ \A v \in Run : row[v] # "none" => row'[v] # "none"
    BY <2>1, <2>4, StatusMove DEF TypeInv, Types
  <2>6. StoreOK' /\ RunsOK'
    BY <2>2, <2>5, Kept DEF TypeInv, Types, StoreOK
  <2>7. LocalOK' /\ \A q \in Actor : loc'[q].seen = loc[q].seen
    BY <1>2, <2>1, FailMove DEF TypeInv, Types
  <2> QED
    BY <1>1, <2>2, <2>3, <2>5, <2>6, <2>7, Kept, GoMove
<1>5. CASE ~FailRow(r)
  <2>1. UNCHANGED <<backend, other>> /\ UNCHANGED_RUNS
    BY <1>5 DEF Sweep, SweepRules, UnmarkWrite, SweepRows, SweepThrow, Restart
  <2>2. PICK label \in SweepLabel : Go(r, label)
    <3>1. {t \in Run : StaleRow(t)} \in SUBSET Run
      OBVIOUS
    <3>2. \E label \in SweepLabel : Go(r, label)
      BY <1>3, <1>5 DEF Sweep, SweepRules, UnmarkWrite, SweepRows, SweepThrow, Restart, GoFail
    <3> QED
      BY <3>2
  <2>3. rule' \in RuleRow /\ (rule'.inv \in {0, rule.inv} \/ row[rule'.inv] # "none")
    <3>1. rule' \in {rule, Unmarked(loc[r].seen)}
      BY <1>5 DEF Sweep, SweepRules, UnmarkWrite, SweepRows, SweepThrow, Restart, Write
    <3> QED
      BY <1>2, <3>1, Kept, RowEdits DEF Linkable
  <2>4. BudgetOK'
    <3>1. UNCHANGED budget \/ Upset(TRUE)
      BY <1>5 DEF Sweep, SweepRules, UnmarkWrite, SweepRows, SweepThrow, Restart
    <3> QED
      BY <3>1, Kept, UpsetMove DEF TypeInv, Types
  <2>5. LocalOK' /\ \A q \in Actor : loc'[q].seen \in {loc[q].seen, rule, NoRow}
    <3>1. \/ UNCHANGED loc \/ See(r) \/ Forget(r)
          \/ \E todo \in SUBSET Run : GoFail(r, todo)
          \/ loc' = [loc EXCEPT ![r] = NoLocal]
          \/ loc' = [loc EXCEPT ![r].flag = TRUE]
      <4>1. CASE Sweep(r)
        BY <1>5, <4>1 DEF Sweep, SweepRules, UnmarkWrite, SweepRows
      <4>2. CASE SweepThrow(r)
        BY <1>2, <4>2 DEF SweepThrow
      <4> QED
        BY <4>1, <4>2 DEF Restart
    <3>2. CASE UNCHANGED loc \/ See(r) \/ Forget(r)
      BY <1>1, <3>2, LocalMoves, Kept DEF TypeInv, Types
    <3>3. CASE \E todo \in SUBSET Run : GoFail(r, todo)
      BY <3>3, FailMove DEF TypeInv, Types
    <3>4. CASE loc' = [loc EXCEPT ![r] = NoLocal]
      BY <1>1, <3>4, Constants DEF TypeInv, Types, LocalOK
    <3>5. CASE loc' = [loc EXCEPT ![r].flag = TRUE]
      BY <1>1, <3>5 DEF TypeInv, Types, LocalOK, Local
    <3> QED
      BY <3>1, <3>2, <3>3, <3>4, <3>5
  <2> QED
    BY <1>1, <2>1, <2>2, <2>3, <2>4, <2>5, GoQuiet
<1> QED
  BY <1>4, <1>5

LEMMA OtherTypes ==
  ASSUME TypeInv, OtherRead \/ OtherWrite \/ DeleteRule
  PROVE  TypeInv'
<1>1. UNCHANGED <<backend, pc, loc, loop>> /\ UNCHANGED_RUNS
  BY DEF OtherRead, OtherWrite, DeleteRule
<1>2. rule' \in RuleRow /\ (rule'.inv \in {0, rule.inv} \/ row[rule'.inv] # "none")
  <2>1. [NoRow EXCEPT !.exists = FALSE] \in RuleRow /\ [NoRow EXCEPT !.exists = FALSE].inv = 0
    BY Constants DEF RuleRow
  <2>2. other # None => other \in RuleRow /\ Linkable(other)
    BY DEF TypeInv, Types, StoreOK, LinkOK
  <2> QED
    BY <2>1, <2>2, Kept DEF OtherRead, OtherWrite, DeleteRule, Write, Linkable
<1>3. other' \in {other, rule, None} /\ other' \in RuleRow \cup {None}
  BY DEF OtherRead, OtherWrite, DeleteRule, TypeInv, Types, StoreOK
<1>4. BudgetOK'
  BY Kept, UpsetMove DEF OtherRead, OtherWrite, DeleteRule, TypeInv, Types
<1>5. StoreOK' /\ RunsOK' /\ ControlOK' /\ LocalOK'
  BY <1>1, <1>2, <1>3, Kept DEF UNCHANGED_RUNS, TypeInv, Types, StoreOK
<1>6. LinkOK'
  BY <1>1, <1>2, <1>3, <1>5, LinkMove DEF UNCHANGED_RUNS
<1> QED
  BY <1>4, <1>5, <1>6 DEF TypeInv, Types

LEMMA CrashTypes ==
  ASSUME TypeInv, NEW r \in Replica, Crash(r)
  PROVE  TypeInv'
<1>1. /\ r \notin Run /\ Run \subseteq Actor /\ Replica \subseteq Actor /\ Lost(r) \subseteq Run
      /\ Run \cap Replica = {}
      /\ "done" \in RunLabel /\ "down" \in SweepLabel /\ "none" \in AgentStatus
  BY Constants DEF Actor, Lost, RunLabel, SweepLabel, AgentStatus
<1>2. ControlOK'
  <2>1. DOMAIN pc = Actor
    BY DEF TypeInv, Types, ControlOK
  <2>2. pc' = [p \in Actor |-> IF p = r THEN "down" ELSE IF p \in Lost(r) THEN "done" ELSE pc[p]]
    BY <2>1 DEF Crash
  <2>3. \A t \in Run : pc'[t] \in RunLabel
    BY <1>1, <2>2 DEF TypeInv, Types, ControlOK
  <2>4. \A s \in Replica : pc'[s] \in SweepLabel
    BY <1>1, <2>2 DEF TypeInv, Types, ControlOK
  <2> QED
    BY <2>2, <2>3, <2>4 DEF Crash, ControlOK, Actor
<1>3. LocalOK' /\ \A q \in Actor : loc'[q].seen \in {loc[q].seen, NoRow}
  BY Constants DEF Crash, TypeInv, Types, LocalOK
<1>4. RunsOK'
  BY <1>1, Constants DEF Crash, TypeInv, Types, RunsOK
<1>5. StoreOK' /\ UNCHANGED <<rule, row, other>>
  BY Kept DEF Crash
<1>6. BudgetOK'
  BY UpsetMove DEF Crash, TypeInv, Types
<1>7. \A t \in Run : pc'[t] \in {"force", "link", "linkWrite"} => pc[t] = pc'[t]
  BY <1>1 DEF Crash, TypeInv, Types, ControlOK
<1>8. LinkOK'
  BY <1>3, <1>5, <1>7, LinkMove
<1> QED
  BY <1>2, <1>3, <1>4, <1>5, <1>6, <1>8 DEF TypeInv, Types

LEMMA OlderInRange ==
  ASSUME NEW a \in Age, NEW limit \in 0..Stale
  PROVE  Older(a, limit) \in Age /\ Older(a, limit) >= a
BY ConstantsAssumption DEF Older, Age, MaxAge

LEMMA TickTypes ==
  ASSUME TypeInv, Tick
  PROVE  TypeInv'
<1>1. /\ Stale \in 0..Stale /\ Cooldown \in 0..Stale
      /\ Run \subseteq Actor /\ Replica \subseteq Actor /\ Run \cap Replica = {}
      /\ "up" \in SweepLabel /\ "swept" \notin RunLabel
  BY ConstantsAssumption DEF Actor, SweepLabel, RunLabel
<1>2. rule' \in RuleRow /\ rule'.inv = rule.inv
  <2>1. rule.marker # None => Older(rule.marker, Stale) \in Age
    BY <1>1, OlderInRange, Kept DEF RuleRow
  <2> QED
    BY <2>1, Kept DEF Tick, RuleRow
<1>3. rowAge' \in [Run -> Age]
  <2>1. \A t \in Run : Older(rowAge[t], Limit(t)) \in Age
    BY <1>1, OlderInRange DEF Limit, TypeInv, Types, StoreOK
  <2> QED
    BY <2>1, Constants DEF Tick
<1>4. age' \in [Run -> Age]
  <2>1. \A t \in Run : pc[t] = "agent" => age[t] + 1 \in Age
    BY ConstantsAssumption DEF Tick, Quiet, TypeInv, Types, RunsOK, Age, MaxAge
  <2> QED
    BY <2>1, Constants DEF Tick
<1>5. StoreOK' /\ RunsOK'
  BY <1>2, <1>3, <1>4 DEF Tick, TypeInv, Types, StoreOK, RunsOK
<1>6. ControlOK'
  <2>1. pc' = [p \in Actor |-> IF pc[p] = "swept" THEN "up" ELSE pc[p]]
    BY DEF Tick, TypeInv, Types, ControlOK
  <2> QED
    BY <1>1, <2>1 DEF Tick, TypeInv, Types, ControlOK
<1>7. LocalOK' /\ BudgetOK' /\ UNCHANGED <<loc, row, other>>
  BY Kept DEF Tick
<1>8. \A t \in Run : pc'[t] \in {"force", "link", "linkWrite"} => pc[t] = pc'[t]
  BY <1>1 DEF Tick, TypeInv, Types, ControlOK
<1>9. LinkOK'
  BY <1>2, <1>5, <1>7, <1>8, LinkMove
<1> QED
  BY <1>5, <1>6, <1>7, <1>9 DEF TypeInv, Types

LEMMA TypeInit ==
  ASSUME Init
  PROVE  TypeInv
<1>1. /\ Run \subseteq Actor /\ Replica \subseteq Actor /\ Run \cap Replica = {}
      /\ "idle" \in RunLabel /\ "up" \in SweepLabel /\ "none" \in AgentStatus /\ "none" \in RowStatus
  BY Constants DEF Actor, RunLabel, SweepLabel, AgentStatus, RowStatus
<1>2. StoreOK /\ RunsOK /\ LocalOK
  BY <1>1, Constants DEF Init, StoreOK, RunsOK, LocalOK, Actor
<1>3. ControlOK
  BY <1>1 DEF Init, ControlOK, Actor
<1>4. BudgetOK
  <2>1. MaxUpsets[backend] \in Nat /\ FALSE \in BOOLEAN
    BY ConstantsAssumption DEF Init
  <2> QED
    BY <2>1, Zenon DEF Init, BudgetOK
<1>5. LinkOK
  BY Constants DEF Init, LinkOK, Linkable, Actor
<1> QED
  BY <1>2, <1>3, <1>4, <1>5 DEF TypeInv, Types

LEMMA TypeStep ==
  ASSUME TypeInv, [Next]_vars
  PROVE  TypeInv'
<1>1. CASE UNCHANGED vars
  BY <1>1 DEF vars, TypeInv, Types, StoreOK, RunsOK, ControlOK, LocalOK, BudgetOK, LinkOK, Linkable
<1>2. ASSUME NEW t \in Run, Handle(t) PROVE TypeInv'
  BY <1>2, HandlerTypes, WriteTypes, StatusTypes, SpawnTypes, ResumeTypes DEF Handle
<1>3. ASSUME NEW t \in Run, Agent(t) \/ MarkThrow(t) \/ Throw(t) \/ DeleteRow(t) PROVE TypeInv'
  BY <1>3, AgentTypes, SpawnTypes, HandlerTypes, DeleteTypes
<1>4. ASSUME NEW t \in Run, NEW r \in Replica, Fire(t, r) \/ Click(t, r) PROVE TypeInv'
  BY <1>4, StartTypes
<1>5. ASSUME NEW r \in Replica, Sweep(r) \/ SweepThrow(r) \/ Crash(r) \/ Restart(r) PROVE TypeInv'
  BY <1>5, SweepTypes, CrashTypes
<1>6. CASE OtherRead \/ OtherWrite \/ DeleteRule \/ Tick
  BY <1>6, OtherTypes, TickTypes
<1> QED
  BY <1>1, <1>2, <1>3, <1>4, <1>5, <1>6 DEF Next

\* On both stores every variable keeps its type, and whatever investigation the
\* rule's row names has been saved: also after crashes, failing statements and
\* writes of an old copy of the row (alertRules.update()).
THEOREM TypeCorrect == Spec => []TypeOK
<1>1. TypeInv => TypeOK
  BY DEF TypeInv, Types, StoreOK, RunsOK, ControlOK, LocalOK, BudgetOK, LinkOK, Linkable, TypeOK, Actor
<1> QED
  BY <1>1, TypeInit, TypeStep, PTL DEF Spec

-----------------------------------------------------------------------------
(* One process on sqlite.                                                  *)

OneProcess == \A r, s \in Replica : r = s

\* The labels of a handler that has no agent yet.
Early == {"idle", "checkRow", "failStale", "identity", "mark", "markWrite"}

\* A handler or sweep between two waits has the event loop.
Exclusive == \A p \in Actor : pc[p] \notin Waiting => loop = p

Housed(t) ==
  /\ pc[t] # "idle" => home[t] \in Replica
  /\ pc[t] = "idle" => kind[t] = "auto"

\* An agent's row: none before it saves, running until it reports unless a report
\* could not be saved, and it reports in the turn in which it saves or tries again.
AgentRow(t) ==
  /\ pc[t] \in Early => agent[t] = "none" /\ row[t] = "none" /\ ~loc[t].flag
  /\ agent[t] = "work" => row[t] = "none"
  /\ agent[t] = "saved" =>
       loop = t /\ pc[t] \in {"agent", "done"} /\ (row[t] = "running" \/ Faulted)
  /\ loc[t].flag => agent[t] = "none"

\* What a handler or a sweep is about to relabel is running.
Relabels ==
  /\ \A t \in Run : pc[t] = "failStale" => row[loc[t].seen.inv] = "running"
  /\ \A t \in Run : pc[t] = "force" => row[t] = "running"
  /\ \A r \in Replica : pc[r] = "fail" => \A t \in loc[r].todo : row[t] = "running"

SqliteInv == other = None /\ Exclusive /\ (\A t \in Run : AgentRow(t)) /\ Relabels

\* An agent tries again only after a fault, on either store.
RetryFaulted == \A t \in Run : agent[t] = "retry" => Faulted

TurnInv ==
  /\ \A t \in Run : Housed(t)
  /\ RetryFaulted
  /\ backend = "sqlite" => SqliteInv

LEMMA HousedStep ==
  ASSUME TypeInv, \A t \in Run : Housed(t), [Next]_vars
  PROVE  backend' = backend /\ \A t \in Run : Housed(t)'
<1>1. CASE UNCHANGED vars
  BY <1>1 DEF vars, Housed
<1>2. ASSUME NEW t \in Run, NEW r \in Replica, Fire(t, r) \/ Click(t, r)
      PROVE  backend' = backend /\ \A u \in Run : Housed(u)'
  <2>1. PICK k \in {"auto", "manual"} : Begin(t, k, r)
    BY <1>2 DEF Fire, Click
  <2>2. PICK label \in {"identity", "checkRow", "mark", "done"} : Go(t, label)
    BY <1>2 DEF Fire, Click, VerdictOnRule
  <2>3. pc'[t] # "idle" /\ \A u \in Run \ {t} : pc'[u] = pc[u]
    BY <2>2 DEF Go, TypeInv, Types, ControlOK, Actor
  <2>4. home'[t] = r /\ \A u \in Run \ {t} : home'[u] = home[u] /\ kind'[u] = kind[u]
    BY <2>1 DEF Begin, TypeInv, Types, RunsOK
  <2> QED
    BY <2>1, <2>3, <2>4 DEF Housed, Begin
<1>3. ASSUME UNCHANGED <<backend, kind, home>>,
             \A t \in Run : pc'[t] = pc[t] \/ (pc[t] # "idle" /\ pc'[t] # "idle")
      PROVE  backend' = backend /\ \A t \in Run : Housed(t)'
  BY <1>3 DEF Housed
<1>4. ASSUME NEW p \in Actor, NEW label, Go(p, label), label # "idle", p \in Run => pc[p] # "idle"
      PROVE  \A t \in Run : pc'[t] = pc[t] \/ (pc[t] # "idle" /\ pc'[t] # "idle")
  BY <1>4 DEF Go, TypeInv, Types, ControlOK, Actor
<1>5. ASSUME NEW t \in Run, Handle(t) \/ MarkThrow(t) \/ Throw(t)
      PROVE  backend' = backend /\ \A u \in Run : Housed(u)'
  <2>1. UNCHANGED <<backend, kind, home>>
    BY <1>5 DEF Handle, CheckRow, FailStale, Identify, MarkRead, MarkWrite, AgentReturned, TimedOut,
                Lookup, ForceStatus, FinishRead, LinkWrite, ClearWrite, MarkThrow, Throw, Spawn, Resume,
                UNCHANGED_RUNS
  <2>2. pc[t] # "idle"
    BY <1>5 DEF Handle, CheckRow, FailStale, Identify, MarkRead, MarkWrite, AgentReturned, TimedOut,
                Lookup, ForceStatus, FinishRead, LinkWrite, ClearWrite, MarkThrow, Throw, At, Waiting
  <2>3. \E label : label # "idle" /\ Go(t, label)
    <3>1. /\ \A u : VerdictOnRow(u) # "idle"
          /\ LookupVerdict(t) # "idle" /\ AfterThrow(t) # "idle"
          /\ \A ok \in BOOLEAN : AfterRace(t, ok) # "idle"
      BY DEF VerdictOnRow, LookupVerdict, AfterThrow, AfterRace
    <3>2. CASE MarkThrow(t) \/ Throw(t)
      BY <3>1, <3>2 DEF MarkThrow, Throw, Spawn
    <3>3. CASE Handle(t)
      BY <3>1, <3>3
         DEF Handle, CheckRow, FailStale, Identify, MarkRead, MarkWrite, AgentReturned, TimedOut,
             Lookup, ForceStatus, FinishRead, LinkWrite, ClearWrite, Spawn, Resume
    <3> QED
      BY <1>5, <3>2, <3>3
  <2> QED
    BY <1>3, <1>4, <2>1, <2>2, <2>3 DEF Actor
<1>6. ASSUME NEW r \in Replica, Sweep(r) \/ SweepThrow(r) \/ Restart(r)
      PROVE  backend' = backend /\ \A u \in Run : Housed(u)'
  <2>1. UNCHANGED <<backend, kind, home>>
    BY <1>6 DEF Sweep, SweepRules, UnmarkWrite, SweepRows, FailRow, SweepThrow, Restart, UNCHANGED_RUNS
  <2>2. \E label : label # "idle" /\ Go(r, label)
    BY <1>6 DEF Sweep, SweepRules, UnmarkWrite, SweepRows, FailRow, SweepThrow, Restart, GoFail,
                AfterRules, AfterRows
  <2> QED
    BY <1>3, <1>4, <2>1, <2>2, Constants DEF Actor
<1>7. ASSUME NEW r \in Replica, Crash(r)
      PROVE  backend' = backend /\ \A u \in Run : Housed(u)'
  <2>1. \A u \in Run : pc'[u] = IF u \in Lost(r) THEN "done" ELSE pc[u]
    BY <1>7, Constants DEF Crash, TypeInv, Types, ControlOK, Actor
  <2>2. \A u \in Lost(r) : home[u] = r
    BY DEF Lost
  <2> QED
    BY <1>7, <2>1, <2>2 DEF Crash, Housed
<1>8. ASSUME NEW t \in Run, Agent(t) \/ DeleteRow(t)
      PROVE  backend' = backend /\ \A u \in Run : Housed(u)'
  BY <1>3, <1>8 DEF Agent, AgentSave, AgentReport, AgentRetry, AgentEnd, DeleteRow
<1>9. CASE OtherRead \/ OtherWrite \/ DeleteRule
  BY <1>3, <1>9 DEF OtherRead, OtherWrite, DeleteRule, UNCHANGED_RUNS
<1>10. CASE Tick
  <2>1. \A u \in Run : pc'[u] = pc[u] \/ (pc[u] # "idle" /\ pc'[u] # "idle")
    BY <1>10 DEF Tick, TypeInv, Types, ControlOK, Actor
  <2> QED
    BY <1>3, <1>10, <2>1 DEF Tick
<1> QED
  BY <1>1, <1>2, <1>5, <1>6, <1>7, <1>8, <1>9, <1>10 DEF Next

\* A fault is not forgotten.
LEMMA FaultsStay ==
  ASSUME TypeInv, [Next]_vars, Faulted
  PROVE  Faulted'
<1>1. UNCHANGED budget \/ Upset(TRUE) \/ Upset(FALSE)
  BY DEF Next, vars, Handle, CheckRow, FailStale, Identify, MarkRead, MarkWrite, AgentReturned,
         TimedOut, Resume, Lookup, ForceStatus, FinishRead, LinkWrite, ClearWrite, Agent, AgentSave,
         AgentReport, AgentRetry, AgentEnd, MarkThrow, Throw, Fire, Click, Begin, Sweep, SweepRules,
         UnmarkWrite, SweepRows, FailRow, SweepThrow, Crash, Restart, OtherRead, OtherWrite,
         DeleteRule, DeleteRow, Tick
<1> QED
  BY <1>1, UpsetFaults DEF Faulted

LEMMA RetryStep ==
  ASSUME TypeInv, RetryFaulted, [Next]_vars
  PROVE  RetryFaulted'
<1>1. SUFFICES ASSUME NEW t \in Run, agent'[t] = "retry", agent[t] # "retry" PROVE Faulted'
  BY FaultsStay DEF RetryFaulted
<1>2. ASSUME NEW u \in Run, Agent(u) PROVE Faulted'
  <2>1. u = t
    BY <1>1, <1>2 DEF Agent, AgentSave, AgentReport, AgentRetry, AgentEnd, TypeInv, Types, RunsOK
  <2>2. AgentReport(t) /\ agent'[t] # "reported"
    BY <1>1, <1>2, <2>1 DEF Agent, AgentSave, AgentRetry, AgentEnd, TypeInv, Types, RunsOK
  <2>3. Upset(TRUE)
    BY <2>2 DEF AgentReport, TypeInv, Types, RunsOK
  <2> QED
    BY <2>3, UpsetFaults
<1>3. ASSUME NEW u \in Run, MarkWrite(u) \/ MarkThrow(u) PROVE FALSE
  BY <1>1, <1>3 DEF MarkWrite, MarkThrow, Spawn, TypeInv, Types, RunsOK
<1>4. ASSUME NEW u \in Run, AgentReturned(u) \/ TimedOut(u) PROVE FALSE
  BY <1>1, <1>4 DEF AgentReturned, TimedOut, Resume, TypeInv, Types, RunsOK
<1>5. ASSUME NEW r \in Replica, Crash(r) PROVE FALSE
  BY <1>1, <1>5 DEF Crash
<1> QED
  BY <1>1, <1>2, <1>3, <1>4, <1>5
     DEF Next, vars, Handle, CheckRow, FailStale, Identify, MarkRead, Lookup, ForceStatus, FinishRead,
         LinkWrite, ClearWrite, Throw, Fire, Click, Begin, Sweep, SweepRules, UnmarkWrite, SweepRows,
         FailRow, SweepThrow, Restart, OtherRead, OtherWrite, DeleteRule, DeleteRow, Tick, UNCHANGED_RUNS

\* Who takes a step has the loop, or nobody has it; so nobody else is in a turn.
LEMMA Solo ==
  ASSUME TypeInv, SqliteInv, backend = "sqlite", NEW p \in Actor, NEW label,
         loop \in {None, p}, Go(p, label),
         p \in Run => agent[p] # "saved" \/ pc[p] \notin {"agent", "done"}
  PROVE  /\ Exclusive' /\ pc'[p] = label
         /\ \A q \in Actor \ {p} : pc[q] \in Waiting /\ pc'[q] = pc[q]
         /\ \A t \in Run : agent[t] # "saved"
<1>1. pc'[p] = label /\ \A q \in Actor \ {p} : pc'[q] = pc[q]
  BY DEF Go, TypeInv, Types, ControlOK
<1>2. \A q \in Actor \ {p} : pc[q] \in Waiting
  BY Constants DEF SqliteInv, Exclusive
<1>3. Exclusive'
  BY <1>1, <1>2 DEF Exclusive, Go
<1>4. \A t \in Run : agent[t] # "saved"
  BY Constants DEF SqliteInv, AgentRow, Actor
<1> QED
  BY <1>1, <1>2, <1>3, <1>4

LEMMA SoloMove ==
  ASSUME TypeInv, SqliteInv, backend = "sqlite", NEW p \in Actor, NEW label,
         loop \in {None, p}, Go(p, label), other' = other,
         p \in Run => agent[p] # "saved" \/ pc[p] \notin {"agent", "done"},
         \A t \in Run :
           /\ agent'[t] # "saved"
           /\ pc'[t] \in Early => agent'[t] = "none" /\ row'[t] = "none" /\ ~loc'[t].flag
           /\ agent'[t] = "work" => row'[t] = "none"
           /\ loc'[t].flag => agent'[t] = "none",
         label = "failStale" => row'[loc'[p].seen.inv] = "running",
         label = "force" => row'[p] = "running",
         label = "fail" => \A t \in loc'[p].todo : row'[t] = "running"
  PROVE  SqliteInv'
<1>1. /\ Exclusive' /\ pc'[p] = label
      /\ \A q \in Actor \ {p} : pc[q] \in Waiting /\ pc'[q] = pc[q]
  BY Solo
<1>2. Relabels'
  <2>1. \A q \in Actor : pc'[q] \in {"failStale", "force", "fail"} => q = p
    BY <1>1 DEF Waiting
  <2> QED
    BY <1>1, <2>1 DEF Relabels, Actor
<1>3. \A t \in Run : AgentRow(t)'
  BY DEF AgentRow
<1>4. other' = None
  BY DEF SqliteInv
<1> QED
  BY <1>1, <1>2, <1>3, <1>4 DEF SqliteInv

\* A step that touches no row and no agent.
LEMMA SoloQuiet ==
  ASSUME TypeInv, SqliteInv, backend = "sqlite", NEW p \in Actor, NEW label,
         loop \in {None, p}, Go(p, label), UNCHANGED <<row, agent, other>>,
         p \in Run => pc[p] \notin {"agent", "done"} /\ (label \in Early => pc[p] \in Early),
         \A t \in Run : loc'[t].flag = loc[t].flag,
         label = "failStale" => row[loc'[p].seen.inv] = "running",
         label = "force" => row[p] = "running",
         label = "fail" => \A t \in loc'[p].todo : row[t] = "running"
  PROVE  SqliteInv'
<1>1. /\ pc'[p] = label /\ \A q \in Actor \ {p} : pc'[q] = pc[q]
      /\ \A t \in Run : agent[t] # "saved"
  BY Solo
<1>2. \A t \in Run : pc'[t] \in Early => pc[t] \in Early
  BY <1>1 DEF Actor
<1>3. \A t \in Run :
        /\ agent'[t] # "saved"
        /\ pc'[t] \in Early => agent'[t] = "none" /\ row'[t] = "none" /\ ~loc'[t].flag
        /\ agent'[t] = "work" => row'[t] = "none"
        /\ loc'[t].flag => agent'[t] = "none"
  BY <1>1, <1>2 DEF SqliteInv, AgentRow
<1> QED
  BY <1>3, SoloMove

LEMMA FlagsKept ==
  ASSUME TypeInv, NEW p \in Actor, See(p) \/ Forget(p) \/ UNCHANGED loc
  PROVE  \A q \in Actor : loc'[q].flag = loc[q].flag /\ loc'[q].todo = loc[q].todo
BY DEF See, Forget, TypeInv, Types, LocalOK, Local

LEMMA StartSolo ==
  ASSUME TypeInv, SqliteInv, backend = "sqlite", NEW t \in Run, NEW r \in Replica,
         Fire(t, r) \/ Click(t, r)
  PROVE  SqliteInv'
<1>1. t \in Actor /\ Run \subseteq Actor
  BY DEF Actor
<1>2. pc[t] = "idle" /\ loop = None /\ UNCHANGED <<row, agent, other>>
  BY DEF Fire, Click, Begin, IsNext
<1>3. PICK label \in {"identity", "checkRow", "mark", "done"} : Go(t, label)
  BY DEF Fire, Click, VerdictOnRule
<1>4. \A u \in Run : loc'[u].flag = loc[u].flag
  BY <1>1, FlagsKept DEF Fire, Click
<1>5. "idle" \in Early
  BY DEF Early
<1> QED
  BY <1>1, <1>2, <1>3, <1>4, <1>5, SoloQuiet

LEMMA HandlerSolo ==
  ASSUME TypeInv, SqliteInv, backend = "sqlite", NEW t \in Run,
         \/ CheckRow(t) \/ Identify(t) \/ MarkRead(t) \/ Lookup(t) \/ FinishRead(t) \/ Throw(t)
         \/ LinkWrite(t) \/ ClearWrite(t)
  PROVE  SqliteInv'
<1>1. t \in Actor /\ Run \subseteq Actor
  BY DEF Actor
<1>2. UNCHANGED <<row, agent, other>> /\ loop \in {None, t} /\ pc[t] \notin {"agent", "done"}
  BY DEF CheckRow, Identify, MarkRead, Lookup, FinishRead, Throw, LinkWrite, ClearWrite, At, Waiting,
         UNCHANGED_RUNS
<1>3. \A u \in Run : loc'[u].flag = loc[u].flag
  <2>1. See(t) \/ Forget(t) \/ UNCHANGED loc
    BY DEF CheckRow, Identify, MarkRead, Lookup, FinishRead, Throw, LinkWrite, ClearWrite
  <2> QED
    BY <1>1, <2>1, FlagsKept
<1>4. \E label : /\ Go(t, label)
                 /\ label \in Early => pc[t] \in Early
                 /\ label = "failStale" => row[loc'[t].seen.inv] = "running"
                 /\ label = "force" => row[t] = "running"
                 /\ label # "fail"
  <2>1. CASE CheckRow(t)
    BY <2>1 DEF CheckRow, VerdictOnRow, Early, At
  <2>2. CASE Identify(t)
    BY <2>2 DEF Identify, Early, At
  <2>3. CASE MarkRead(t)
    BY <2>3 DEF MarkRead, Early, At
  <2>4. CASE Lookup(t)
    BY <2>4 DEF Lookup, LookupVerdict, Early
  <2>5. CASE FinishRead(t)
    BY <2>5 DEF FinishRead, Early
  <2>6. CASE Throw(t)
    <3>1. /\ AfterThrow(t) \in {"identity", "link", "clear", "done"}
          /\ AfterThrow(t) = "identity" => pc[t] = "failStale"
      BY DEF AfterThrow
    <3> QED
      BY <2>6, <3>1 DEF Throw, Early
  <2>7. CASE LinkWrite(t) \/ ClearWrite(t)
    BY <2>7 DEF LinkWrite, ClearWrite, Early
  <2> QED
    BY <2>1, <2>2, <2>3, <2>4, <2>5, <2>6, <2>7
<1> QED
  BY <1>1, <1>2, <1>3, <1>4, SoloQuiet

\* FailStale and ForceStatus relabel a row that is running.
LEMMA StatusSolo ==
  ASSUME TypeInv, SqliteInv, backend = "sqlite", NEW t \in Run, FailStale(t) \/ ForceStatus(t)
  PROVE  SqliteInv' /\ \A u \in Run : row[u] # "running" => row'[u] = row[u]
<1>1. t \in Actor /\ Run \subseteq Actor
  BY DEF Actor
<1>2. UNCHANGED <<agent, other>> /\ loop \in {None, t} /\ pc[t] \in {"failStale", "force"}
  BY DEF FailStale, ForceStatus, At
<1>3. PICK u \in 0..MaxRuns, status \in {"failed", "completed"} :
        SetStatus(u, status) /\ row[u] = "running"
  <2>1. loc[t].seen.inv \in 0..MaxRuns /\ t \in 0..MaxRuns
    BY <1>1, Constants DEF TypeInv, Types, LocalOK, Local, RuleRow
  <2> QED
    BY <2>1 DEF FailStale, ForceStatus, At, SqliteInv, Relabels
<1>4. \A v \in Run : row[v] # "running" => row'[v] = row[v]
  BY <1>3 DEF SetStatus, TypeInv, Types, StoreOK
<1>5. PICK label \in {"identity", "link"} : Go(t, label) /\ (label = "identity" => pc[t] = "failStale")
  BY DEF FailStale, ForceStatus, At
<1>6. \A v \in Run : loc'[v].flag = loc[v].flag
  <2>1. Forget(t) \/ UNCHANGED loc
    BY DEF FailStale, ForceStatus
  <2> QED
    BY <1>1, <2>1, FlagsKept
<1>7. /\ pc'[t] = label /\ \A q \in Actor \ {t} : pc'[q] = pc[q]
      /\ \A v \in Run : agent[v] # "saved"
  BY <1>1, <1>2, <1>5, Solo
<1>8. \A v \in Run : pc'[v] \in Early => pc[v] \in Early
  BY <1>1, <1>5, <1>7 DEF Early
<1>9. \A v \in Run :
        /\ agent'[v] # "saved"
        /\ pc'[v] \in Early => agent'[v] = "none" /\ row'[v] = "none" /\ ~loc'[v].flag
        /\ agent'[v] = "work" => row'[v] = "none"
        /\ loc'[v].flag => agent'[v] = "none"
  BY <1>2, <1>4, <1>6, <1>7, <1>8 DEF SqliteInv, AgentRow
<1> QED
  BY <1>1, <1>2, <1>4, <1>5, <1>9, SoloMove

LEMMA SpawnSolo ==
  ASSUME TypeInv, SqliteInv, backend = "sqlite", NEW t \in Run, MarkWrite(t) \/ MarkThrow(t)
  PROVE  SqliteInv' /\ row' = row
<1>1. t \in Actor /\ Run \subseteq Actor
  BY DEF Actor
<1>2. Spawn(t) /\ loop \in {None, t} /\ pc[t] \in {"mark", "markWrite"}
  BY DEF MarkWrite, MarkThrow, At
<1>3. UNCHANGED <<row, other>> /\ Go(t, "agent") /\ Forget(t)
  BY <1>2 DEF Spawn
<1>4. pc[t] \in Early /\ pc[t] \notin {"agent", "done"}
  BY <1>2 DEF Early
<1>5. row[t] = "none" /\ ~loc[t].flag
  BY <1>4 DEF SqliteInv, AgentRow
<1>6. \A v \in Run : loc'[v].flag = loc[v].flag
  BY <1>1, <1>3, FlagsKept
<1>7. agent'[t] = "work" /\ \A v \in Run \ {t} : agent'[v] = agent[v]
  BY <1>2 DEF Spawn, TypeInv, Types, RunsOK
<1>8. /\ pc'[t] = "agent" /\ \A q \in Actor \ {t} : pc'[q] = pc[q]
      /\ \A v \in Run : agent[v] # "saved"
  BY <1>1, <1>2, <1>3, <1>4, Solo
<1>9. ASSUME NEW v \in Run
      PROVE  /\ agent'[v] # "saved"
             /\ pc'[v] \in Early => agent'[v] = "none" /\ row'[v] = "none" /\ ~loc'[v].flag
             /\ agent'[v] = "work" => row'[v] = "none"
             /\ loc'[v].flag => agent'[v] = "none"
  <2>1. CASE v = t
    BY <1>3, <1>5, <1>6, <1>7, <1>8, <2>1 DEF Early
  <2>2. CASE v # t
    BY <1>1, <1>3, <1>6, <1>7, <1>8, <2>2 DEF SqliteInv, AgentRow
  <2> QED
    BY <2>1, <2>2
<1> QED
  BY <1>1, <1>2, <1>3, <1>4, <1>9, SoloMove

LEMMA ResumeSolo ==
  ASSUME TypeInv, SqliteInv, backend = "sqlite", NEW t \in Run, AgentReturned(t) \/ TimedOut(t)
  PROVE  SqliteInv' /\ row' = row
<1>1. t \in Actor /\ Run \subseteq Actor
  BY DEF Actor
<1>2. PICK ok \in BOOLEAN : Resume(t, ok) /\ (ok => agent[t] = "ok")
  BY DEF AgentReturned, TimedOut
<1>3. loop \in {None, t} /\ pc[t] = "agent" /\ agent[t] # "saved"
  BY DEF AgentReturned, TimedOut, At
<1>4. UNCHANGED <<row, other>>
  BY <1>2 DEF Resume
<1>5. PICK label \in {"lookup", "clear"} : Go(t, label)
  BY <1>2 DEF Resume, AfterRace
<1>6. loc'[t].flag = ok /\ \A v \in Run \ {t} : loc'[v].flag = loc[v].flag
  BY <1>1, <1>2 DEF Resume, TypeInv, Types, LocalOK, Local
<1>7. /\ agent'[t] = IF agent[t] \in {"ok", "error"} THEN "none" ELSE agent[t]
      /\ \A v \in Run \ {t} : agent'[v] = agent[v]
  BY <1>2 DEF Resume, TypeInv, Types, RunsOK
<1>8. /\ pc'[t] = label /\ \A q \in Actor \ {t} : pc'[q] = pc[q]
      /\ \A v \in Run : agent[v] # "saved"
  BY <1>1, <1>3, <1>5, Solo
<1>9. ASSUME NEW v \in Run
      PROVE  /\ agent'[v] # "saved"
             /\ pc'[v] \in Early => agent'[v] = "none" /\ row'[v] = "none" /\ ~loc'[v].flag
             /\ agent'[v] = "work" => row'[v] = "none"
             /\ loc'[v].flag => agent'[v] = "none"
  <2>1. CASE v = t
    BY <1>2, <1>4, <1>5, <1>6, <1>7, <1>8, <2>1 DEF Early, SqliteInv, AgentRow
  <2>2. CASE v # t
    BY <1>1, <1>4, <1>6, <1>7, <1>8, <2>2 DEF SqliteInv, AgentRow
  <2> QED
    BY <2>1, <2>2
<1> QED
  BY <1>1, <1>3, <1>4, <1>5, <1>9, SoloMove

\* The agent saves and reports in one turn.
LEMMA AgentSolo ==
  ASSUME TypeInv, SqliteInv, RetryFaulted, backend = "sqlite", NEW t \in Run, Agent(t)
  PROVE  SqliteInv' /\ \A u \in Run : KeepsVerdict(u)
<1>1. t \in Actor /\ Run \subseteq Actor /\ Replica \subseteq Actor /\ t # None
  BY Constants DEF Actor
<1>2. UNCHANGED <<pc, loc, other>> /\ loop \in {None, t}
  BY DEF Agent, AgentSave, AgentReport, AgentRetry, AgentEnd
<1>3. /\ \A q \in Actor \ {t} : pc[q] \in Waiting
      /\ \A u \in Run \ {t} : agent[u] # "saved"
  BY <1>1, <1>2, Constants DEF SqliteInv, Exclusive, AgentRow
<1>4. pc[t] \in {"agent", "done"} \/ (AgentEnd(t) /\ loop = None)
  <2>1. CASE AgentSave(t) \/ AgentRetry(t)
    <3>1. pc[t] \in Waiting /\ pc[t] \notin Early
      BY <1>1, <2>1, Constants DEF AgentSave, AgentRetry, SqliteInv, Exclusive, AgentRow
    <3> QED
      BY <3>1 DEF Waiting, Early, TypeInv, Types, ControlOK, RunLabel
  <2>2. CASE AgentReport(t)
    BY <2>2 DEF AgentReport, SqliteInv, AgentRow
  <2>3. CASE AgentEnd(t)
    BY <2>3 DEF AgentEnd
  <2> QED
    BY <2>1, <2>2, <2>3 DEF Agent
<1>5. \A q \in Actor : pc[q] \in Waiting
  BY <1>1, <1>3, <1>4, Constants DEF Waiting, SqliteInv, Exclusive
<1>6. Exclusive' /\ other' = None
  BY <1>2, <1>5 DEF Exclusive, SqliteInv
<1>7. Relabels'
  BY <1>1, <1>2, <1>5 DEF Relabels, Waiting
<1>8. /\ \A u \in Run \ {t} : agent'[u] = agent[u] /\ row'[u] = row[u]
      /\ KeepsVerdict(t)
      /\ AgentRow(t)'
  <2>1. CASE AgentSave(t)
    <3>1. agent[t] = "work" /\ row[t] = "none" /\ ~loc[t].flag
      BY <2>1 DEF AgentSave, SqliteInv, AgentRow
    <3>2. /\ agent'[t] = "saved" /\ \A u \in Run \ {t} : agent'[u] = agent[u]
          /\ row'[t] = "running" /\ \A u \in Run \ {t} : row'[u] = row[u]
          /\ loop' = t
      BY <2>1, <3>1 DEF AgentSave, SetStatus, TypeInv, Types, RunsOK, StoreOK
    <3> QED
      BY <1>2, <1>4, <2>1, <3>1, <3>2 DEF AgentRow, AgentEnd, AgentSave, Early, KeepsVerdict
  <2>2. CASE AgentReport(t)
    <3>1. agent[t] = "saved" /\ ~loc[t].flag /\ pc[t] \in {"agent", "done"} /\ (row[t] = "running" \/ Faulted)
      BY <2>2 DEF AgentReport, SqliteInv, AgentRow
    <3>2. /\ agent'[t] \in {"reported", "retry"} /\ \A u \in Run \ {t} : agent'[u] = agent[u]
          /\ \A u \in Run \ {t} : row'[u] = row[u]
          /\ row'[t] = row[t] \/ (row'[t] \in {"completed", "deleted"} /\ agent'[t] = "reported")
      BY <2>2 DEF AgentReport, SetStatus, TypeInv, Types, RunsOK, StoreOK
    <3>3. KeepsVerdict(t)
      BY <3>1, <3>2 DEF KeepsVerdict
    <3> QED
      BY <1>2, <3>1, <3>2, <3>3 DEF AgentRow, Early
  <2>4. CASE AgentRetry(t)
    <3>1. Faulted /\ ~loc[t].flag
      BY <2>4 DEF AgentRetry, RetryFaulted, SqliteInv, AgentRow
    <3>2. /\ agent'[t] = "saved" /\ \A u \in Run \ {t} : agent'[u] = agent[u]
          /\ row' = row /\ loop' = t /\ Faulted'
      BY <2>4, <3>1 DEF AgentRetry, TypeInv, Types, RunsOK, Faulted
    <3>3. pc[t] \in {"agent", "done"}
      BY <1>4, <2>4 DEF AgentRetry, AgentEnd, TypeInv, Types, RunsOK
    <3> QED
      BY <1>2, <3>1, <3>2, <3>3 DEF AgentRow, Early, KeepsVerdict
  <2>3. CASE AgentEnd(t)
    <3>1. agent[t] # "none" /\ ~loc[t].flag /\ pc[t] \notin Early
      BY <2>3 DEF AgentEnd, SqliteInv, AgentRow
    <3>2. /\ agent'[t] \in {"ok", "error", "none"} /\ \A u \in Run \ {t} : agent'[u] = agent[u]
          /\ row' = row
      BY <2>3 DEF AgentEnd, TypeInv, Types, RunsOK
    <3> QED
      BY <1>2, <3>1, <3>2 DEF AgentRow, KeepsVerdict
  <2> QED
    BY <2>1, <2>2, <2>3, <2>4 DEF Agent
<1>9. \A u \in Run : AgentRow(u)'
  BY <1>2, <1>3, <1>8 DEF SqliteInv, AgentRow
<1>10. \A u \in Run : KeepsVerdict(u)
  BY <1>8 DEF KeepsVerdict
<1> QED
  BY <1>6, <1>7, <1>9, <1>10 DEF SqliteInv

LEMMA SweepSolo ==
  ASSUME TypeInv, SqliteInv, backend = "sqlite", NEW r \in Replica,
         Sweep(r) \/ SweepThrow(r) \/ Restart(r)
  PROVE  SqliteInv' /\ \A u \in Run : row[u] # "running" => row'[u] = row[u]
<1>1. r \in Actor /\ r \notin Run /\ Run \subseteq Actor
  BY Constants DEF Actor
<1>2. /\ UNCHANGED <<agent, other>> /\ loop \in {None, r}
      /\ AfterRules(r) \notin {"failStale", "force", "fail"}
      /\ AfterRows(r) \notin {"failStale", "force", "fail"}
  BY DEF Sweep, SweepRules, UnmarkWrite, SweepRows, FailRow, SweepThrow, Restart, At, UNCHANGED_RUNS,
         AfterRules, AfterRows
<1>3. CASE FailRow(r)
  <2>1. PICK t \in loc[r].todo : SetStatus(t, "failed") /\ GoFail(r, loc[r].todo \ {t})
    BY <1>3 DEF FailRow
  <2>2. loc[r].todo \in SUBSET Run /\ \A u \in loc[r].todo : row[u] = "running"
    BY <1>1, <1>3 DEF FailRow, At, SqliteInv, Relabels, TypeInv, Types, LocalOK, Local
  <2>3. \A u \in Run \ {t} : row'[u] = row[u]
    BY <2>1 DEF SetStatus, TypeInv, Types, StoreOK
  <2>4. /\ \A u \in Run : loc'[u] = loc[u]
        /\ loc'[r].todo = loc[r].todo \ {t}
    BY <1>1, <2>1, <2>2, FailMove DEF TypeInv, Types
  <2>5. PICK label : Go(r, label) /\ label \notin {"failStale", "force"}
    BY <1>2, <2>1 DEF GoFail
  <2>6. /\ \A q \in Actor \ {r} : pc'[q] = pc[q]
        /\ \A u \in Run : agent[u] # "saved"
    BY <1>1, <1>2, <2>5, Solo
  <2>7. \A u \in Run :
          /\ agent'[u] # "saved"
          /\ pc'[u] \in Early => agent'[u] = "none" /\ row'[u] = "none" /\ ~loc'[u].flag
          /\ agent'[u] = "work" => row'[u] = "none"
          /\ loc'[u].flag => agent'[u] = "none"
    BY <1>1, <1>2, <2>2, <2>3, <2>4, <2>6 DEF SqliteInv, AgentRow
  <2>8. \A u \in loc'[r].todo : row'[u] = "running"
    BY <2>2, <2>3, <2>4
  <2>9. SqliteInv'
    BY <1>1, <1>2, <2>5, <2>7, <2>8, SoloMove
  <2> QED
    BY <2>2, <2>3, <2>9
<1>4. CASE ~FailRow(r)
  <2>1. row' = row
    BY <1>4 DEF Sweep, SweepRules, UnmarkWrite, SweepRows, SweepThrow, Restart, UNCHANGED_RUNS
  <2>2. CASE \E todo \in SUBSET Run : GoFail(r, todo) /\ \A u \in todo : row[u] = "running"
    <3>1. PICK todo \in SUBSET Run : GoFail(r, todo) /\ \A u \in todo : row[u] = "running"
      BY <2>2
    <3>2. loc'[r].todo = todo /\ \A u \in Run : loc'[u] = loc[u]
      BY <1>1, <3>1, FailMove DEF TypeInv, Types
    <3>3. PICK label : Go(r, label) /\ label \notin {"failStale", "force"}
      BY <1>2, <3>1 DEF GoFail
    <3> QED
      BY <1>1, <1>2, <2>1, <3>1, <3>2, <3>3, SoloQuiet
  <2>3. CASE /\ \E label : Go(r, label) /\ label \notin {"failStale", "force", "fail"}
             /\ \/ See(r) \/ Forget(r) \/ UNCHANGED loc
                \/ loc' = [loc EXCEPT ![r] = NoLocal] \/ loc' = [loc EXCEPT ![r].flag = TRUE]
    <3>1. \A u \in Run : loc'[u].flag = loc[u].flag
      <4>1. CASE See(r) \/ Forget(r) \/ UNCHANGED loc
        BY <1>1, <4>1, FlagsKept
      <4>2. CASE loc' = [loc EXCEPT ![r] = NoLocal] \/ loc' = [loc EXCEPT ![r].flag = TRUE]
        BY <1>1, <4>2 DEF TypeInv, Types, LocalOK
      <4> QED
        BY <2>3, <4>1, <4>2
    <3> QED
      BY <1>1, <1>2, <2>1, <2>3, <3>1, SoloQuiet
  <2>4. CASE SweepRules(r) \/ UnmarkWrite(r) \/ Restart(r)
    <3>1. CASE SweepRules(r)
      BY <1>2, <2>3, <3>1 DEF SweepRules
    <3>2. CASE UnmarkWrite(r)
      BY <1>2, <2>3, <3>2 DEF UnmarkWrite
    <3>3. CASE Restart(r)
      BY <1>2, <2>3, <3>3 DEF Restart
    <3> QED
      BY <2>4, <3>1, <3>2, <3>3
  <2>5. CASE SweepRows(r)
    <3>1. \A u \in {t \in Run : StaleRow(t)} : row[u] = "running"
      BY DEF StaleRow
    <3> QED
      BY <2>2, <2>5, <3>1 DEF SweepRows
  <2>6. CASE SweepThrow(r)
    <3>1. CASE pc[r] = "fail"
      <4>1. loc[r].todo \in SUBSET Run /\ \A u \in loc[r].todo : row[u] = "running"
        BY <1>1, <3>1 DEF SqliteInv, Relabels, TypeInv, Types, LocalOK, Local
      <4>2. PICK t \in loc[r].todo : GoFail(r, loc[r].todo \ {t})
        BY <2>6, <3>1 DEF SweepThrow
      <4> QED
        BY <2>2, <4>1, <4>2
    <3>2. CASE pc[r] # "fail"
      BY <1>2, <2>3, <2>6, <3>2 DEF SweepThrow
    <3> QED
      BY <3>1, <3>2
  <2> QED
    BY <1>4, <2>1, <2>4, <2>5, <2>6 DEF Sweep
<1> QED
  BY <1>3, <1>4

LEMMA CrashSolo ==
  ASSUME OneProcess, TypeInv, SqliteInv, \A t \in Run : Housed(t), NEW r \in Replica, Crash(r)
  PROVE  SqliteInv' /\ row' = row
<1>1. /\ Run \subseteq Actor /\ Replica \subseteq Actor /\ Run \cap Replica = {}
      /\ Lost(r) \subseteq Run /\ DOMAIN pc = Actor /\ DOMAIN loc = Actor
  BY Constants DEF Actor, Lost, TypeInv, Types, ControlOK, LocalOK
<1>2. \A t \in Run \ Lost(r) : pc[t] = "idle"
  BY DEF Housed, OneProcess, Lost
<1>3. /\ \A t \in Lost(r) : pc'[t] = "done" /\ agent'[t] = "none" /\ ~loc'[t].flag
      /\ \A t \in Run \ Lost(r) : pc'[t] = "idle" /\ agent'[t] = agent[t] /\ loc'[t] = loc[t]
      /\ \A s \in Replica : pc'[s] = "down"
      /\ UNCHANGED <<row, other>>
  BY <1>1, <1>2 DEF Crash, NoLocal, OneProcess
<1>4. \A q \in Actor : pc'[q] \in {"done", "idle", "down"}
  BY <1>3 DEF Actor
<1>5. Exclusive' /\ Relabels'
  BY <1>1, <1>4 DEF Exclusive, Relabels, Waiting
<1>6. ASSUME NEW t \in Run PROVE AgentRow(t)'
  <2>1. CASE t \in Lost(r)
    BY <1>3, <2>1 DEF AgentRow, Early
  <2>2. CASE t \notin Lost(r)
    <3>1. pc[t] \in Early
      BY <1>2, <2>2 DEF Early
    <3>2. agent[t] = "none" /\ row[t] = "none" /\ ~loc[t].flag
      BY <3>1 DEF SqliteInv, AgentRow
    <3> QED
      BY <1>3, <2>2, <3>2 DEF AgentRow
  <2> QED
    BY <2>1, <2>2
<1> QED
  BY <1>3, <1>5, <1>6 DEF SqliteInv

LEMMA OutsideSolo ==
  ASSUME TypeInv, SqliteInv, backend = "sqlite", OtherRead \/ OtherWrite \/ DeleteRule \/ Tick
  PROVE  SqliteInv' /\ row' = row
<1>1. CASE OtherRead \/ OtherWrite
  BY <1>1 DEF OtherRead, OtherWrite, SqliteInv
<1>2. CASE DeleteRule
  <2>1. \A t \in Run : agent[t] # "saved"
    BY <1>2, Constants DEF DeleteRule, SqliteInv, AgentRow, Actor
  <2> QED
    BY <1>2, <2>1 DEF DeleteRule, UNCHANGED_RUNS, SqliteInv, Exclusive, AgentRow, Relabels
<1>3. CASE Tick
  <2>1. /\ \A q \in Actor : pc[q] \in Waiting \ {"up"}
        /\ \A q \in Actor : pc'[q] = IF pc[q] = "swept" THEN "up" ELSE pc[q]
        /\ \A t \in Run : agent[t] # "saved"
        /\ UNCHANGED <<row, agent, loc, other, loop>>
    BY <1>3 DEF Tick, Quiet, Actor, TypeInv, Types, ControlOK
  <2>2. \A q \in Actor : pc'[q] \in Waiting
    BY <2>1 DEF Waiting
  <2>3. \A t \in Run : pc'[t] = pc[t]
    BY <2>1 DEF TypeInv, Types, ControlOK, RunLabel, Actor
  <2>4. Exclusive' /\ Relabels'
    BY <2>2 DEF Exclusive, Relabels, Waiting, Actor
  <2> QED
    BY <2>1, <2>3, <2>4 DEF SqliteInv, AgentRow
<1> QED
  BY <1>1, <1>2, <1>3

LEMMA DeleteSolo ==
  ASSUME TypeInv, SqliteInv, NEW t \in Run, DeleteRow(t)
  PROVE  SqliteInv' /\ \A u \in Run : KeepsVerdict(u)
<1>1. /\ loop = None /\ Exists(t) /\ UNCHANGED <<agent, pc, loc, other, loop>>
      /\ row'[t] = "deleted" /\ \A u \in Run \ {t} : row'[u] = row[u]
  BY DEF DeleteRow, TypeInv, Types, StoreOK
<1>2. /\ \A q \in Actor : pc[q] \in Waiting
      /\ \A u \in Run : agent[u] # "saved"
      /\ Run \subseteq Actor /\ Replica \subseteq Actor
  BY <1>1, Constants DEF SqliteInv, Exclusive, AgentRow, Actor
<1>3. Exclusive' /\ Relabels'
  BY <1>1, <1>2 DEF Exclusive, Relabels, Waiting
<1>4. \A u \in Run : AgentRow(u)'
  BY <1>1, <1>2 DEF SqliteInv, AgentRow, Exists
<1>5. \A u \in Run : KeepsVerdict(u)
  BY <1>1 DEF KeepsVerdict
<1> QED
  BY <1>1, <1>3, <1>4, <1>5 DEF SqliteInv

\* A row that is left alone, or written only if it is running, keeps its verdict.
LEMMA Untouched ==
  ASSUME NEW u \in Run, row[u] # "running" => row'[u] = row[u]
  PROVE  KeepsVerdict(u)
BY DEF KeepsVerdict

\* Every step on sqlite keeps the invariant and the verdict of what is finished.
LEMMA TurnStep ==
  ASSUME OneProcess, TypeInv, TurnInv, [Next]_vars
  PROVE  /\ TurnInv'
         /\ backend = "sqlite" =>
              \A u \in Run : KeepsVerdict(u)
<1>1. backend' = backend /\ (\A t \in Run : Housed(t)') /\ RetryFaulted'
  BY HousedStep, RetryStep DEF TurnInv
<1>2. SUFFICES ASSUME backend = "sqlite"
               PROVE  /\ SqliteInv'
                      /\ \A u \in Run : KeepsVerdict(u)
  BY <1>1, <1>2 DEF TurnInv
<1>3. SqliteInv /\ RetryFaulted
  BY <1>2 DEF TurnInv
<1> DEFINE Good == /\ SqliteInv'
                   /\ \A u \in Run : KeepsVerdict(u)
<1>4. CASE UNCHANGED vars
  BY <1>3, <1>4, Untouched DEF vars, SqliteInv, Exclusive, AgentRow, Relabels, Faulted
<1>5. ASSUME NEW t \in Run, Handle(t) \/ Agent(t) \/ MarkThrow(t) \/ Throw(t) \/ DeleteRow(t)
      PROVE  Good
  <2>1. CASE CheckRow(t) \/ Identify(t) \/ MarkRead(t) \/ Lookup(t) \/ FinishRead(t) \/ Throw(t)
             \/ LinkWrite(t) \/ ClearWrite(t)
    <3>1. row' = row
      BY <2>1 DEF CheckRow, Identify, MarkRead, Lookup, FinishRead, Throw, LinkWrite, ClearWrite,
                  UNCHANGED_RUNS
    <3> QED
      BY <1>2, <1>3, <2>1, <3>1, HandlerSolo, Untouched
  <2>2. CASE FailStale(t) \/ ForceStatus(t)
    BY <1>2, <1>3, <2>2, StatusSolo, Untouched
  <2>3. CASE MarkWrite(t) \/ MarkThrow(t)
    BY <1>2, <1>3, <2>3, SpawnSolo, Untouched
  <2>4. CASE AgentReturned(t) \/ TimedOut(t)
    BY <1>2, <1>3, <2>4, ResumeSolo, Untouched
  <2>5. CASE Agent(t)
    BY <1>2, <1>3, <2>5, AgentSolo
  <2>6. CASE DeleteRow(t)
    BY <1>3, <2>6, DeleteSolo
  <2> QED
    BY <1>5, <2>1, <2>2, <2>3, <2>4, <2>5, <2>6 DEF Handle
<1>6. ASSUME NEW t \in Run, NEW r \in Replica, Fire(t, r) \/ Click(t, r) PROVE Good
  BY <1>2, <1>3, <1>6, StartSolo, Untouched DEF Fire, Click, Begin
<1>7. ASSUME NEW r \in Replica, Sweep(r) \/ SweepThrow(r) \/ Crash(r) \/ Restart(r) PROVE Good
  <2>1. CASE Crash(r)
    BY <1>3, <2>1, CrashSolo, Untouched DEF TurnInv
  <2> QED
    BY <1>2, <1>3, <1>7, <2>1, SweepSolo, Untouched
<1>8. CASE OtherRead \/ OtherWrite \/ DeleteRule \/ Tick
  BY <1>2, <1>3, <1>8, OutsideSolo, Untouched
<1> QED
  BY <1>4, <1>5, <1>6, <1>7, <1>8 DEF Next

LEMMA TurnInit ==
  ASSUME Init
  PROVE  TurnInv
<1>1. \A p \in Actor : pc[p] \in {"idle", "up"}
  BY DEF Init, Actor
<1>2. Exclusive /\ Relabels
  BY <1>1 DEF Exclusive, Relabels, Waiting, Actor
<1>3. \A t \in Run : pc[t] = "idle" /\ AgentRow(t) /\ Housed(t)
  BY DEF Init, AgentRow, Housed, NoLocal, Actor
<1> QED
  BY <1>2, <1>3 DEF Init, TurnInv, SqliteInv, RetryFaulted

\* In one process on sqlite a finished investigation keeps its verdict, for any
\* number of runs: what finalizeInvestigation(), the dedup check and the sweep are
\* about to relabel is running (Relabels), as they read and write in one turn; an
\* agent reports in the turn in which it saved its row (AgentRow), and only after a
\* failed save of its report (RetryFaulted) may it complete a row that they failed.
THEOREM VerdictStays ==
  ASSUME OneProcess
  PROVE  Spec => VerdictIsFinal
<1> DEFINE Inv == TypeInv /\ TurnInv
           Final == \A t \in Run : backend = "sqlite" => KeepsVerdict(t)
<1>1. Init => Inv
  BY TypeInit, TurnInit
<1>2. Inv /\ [Next]_vars => Inv' /\ Final
  BY TypeStep, TurnStep
<1>3. Spec => []Inv /\ [][Final]_vars
  <2> HIDE DEF Inv, Final
  <2> QED
    BY <1>1, <1>2, PTL DEF Spec
<1> QED
  BY <1>3 DEF VerdictIsFinal

-----------------------------------------------------------------------------
(* Deduplication.                                                          *)

\* The premises of EventsAreDeduplicated.
Calm == backend = "sqlite" /\ ~Manual /\ ~Faulted /\ rule.exists

Recent(u) == Counts(u) /\ rowAge[u] <= Cooldown
NoneInFlight == \A u \in Run : ~InFlight(u)

\* The handlers past the check and the sweep past its list, and the writers.
Starting(t) == pc[t] \in {"identity", "mark", "markWrite"}
Unmarking(r) == pc[r] \in {"unmark", "unmarkWrite"}
Writing(p) == pc[p] \in {"checkRow", "markWrite", "linkWrite", "clearWrite", "unmarkWrite"}

\* A handler at work is alone and is marked on the rule, as long as its timer runs.
Marked(t) ==
  /\ rule.inv = 0 /\ rule.marker # None /\ rule.marker <= Timeout
  /\ pc[t] = "agent" => rule.marker = age[t]
  /\ \A u \in Run \ {t} : ~InFlight(u)

SweepsPlain == \A r \in Replica : pc[r] # "down" /\ ~loc[r].flag
Current == \A p \in Actor : Writing(p) => loc[p].seen = rule
RowsSettled == \A t \in Run : row[t] \in {"none", "completed", "deleted"} \/ agent[t] = "saved"
FlightsMarked == \A t \in Run : InFlight(t) => Marked(t)
StartsAlone == \A t \in Run : Starting(t) => NoneInFlight /\ \A u \in Run : ~Recent(u)
ChecksLink == \A t \in Run : pc[t] # "failStale" /\ (pc[t] = "checkRow" => rule.inv # 0)
UnmarksIdle == \A r \in Replica : Unmarking(r) => rule.inv = 0 /\ NoneInFlight
RecentLinked == \A u \in Run : Recent(u) => rule.inv = u \/ InFlight(u)
ClearsNothing == \A t \in Run : pc[t] \in {"clear", "clearWrite"} /\ InTime(t) => ~Exists(t)

CalmInv ==
  /\ SweepsPlain /\ Current /\ RowsSettled /\ FlightsMarked /\ StartsAlone
  /\ ChecksLink /\ UnmarksIdle /\ RecentLinked /\ ClearsNothing

DedupInv == Calm => CalmInv

FlightLabel == {"agent", "lookup", "force", "link", "linkWrite", "clear", "clearWrite"}
StartLabel == {"identity", "mark", "markWrite"}
UnmarkLabel == {"unmark", "unmarkWrite"}
WriteLabel == {"checkRow", "markWrite", "linkWrite", "clearWrite", "unmarkWrite"}

LEMMA Rests ==
  \A l \in Waiting :
    /\ l \notin StartLabel \cup UnmarkLabel \cup WriteLabel
    /\ l \notin {"checkRow", "failStale", "clear", "clearWrite", "lookup", "force", "link", "linkWrite"}
BY DEF Waiting, StartLabel, UnmarkLabel, WriteLabel

\* A step that changes no row, agent or timer, and neither starts nor ends a flight.
LEMMA CalmMove ==
  ASSUME TypeInv, SqliteInv, CalmInv, backend = "sqlite", NEW p \in Actor, NEW label,
         loop \in {None, p}, Go(p, label), UNCHANGED <<rule, row, rowAge, agent, age>>,
         p \in Run => pc[p] \notin {"agent", "done"},
         \A q \in Actor : loc'[q].flag = loc[q].flag,
         label \notin {"down", "agent", "failStale"},
         label \in WriteLabel => loc'[p].seen = rule,
         p \in Run => (label \in FlightLabel <=> InFlight(p)),
         label \in StartLabel => NoneInFlight /\ \A u \in Run : ~Recent(u),
         label = "checkRow" => rule.inv # 0,
         label \in UnmarkLabel => rule.inv = 0 /\ NoneInFlight,
         p \in Run /\ label \in {"clear", "clearWrite"} /\ InTime(p) => ~Exists(p)
  PROVE  CalmInv'
<1>1. /\ pc'[p] = label
      /\ \A q \in Actor \ {p} : pc[q] \in Waiting /\ pc'[q] = pc[q]
  BY Solo
<1>2. Run \subseteq Actor /\ Replica \subseteq Actor
  BY DEF Actor
<1>3. /\ \A u \in Run : InFlight(u)' <=> InFlight(u)
      /\ \A u \in Run : Recent(u)' <=> Recent(u)
  BY <1>1, <1>2 DEF InFlight, FlightLabel, Recent, Counts, Exists, InTime
<1>4. NoneInFlight' <=> NoneInFlight
  BY <1>3 DEF NoneInFlight
<1>5. SweepsPlain' /\ RowsSettled'
  BY <1>1, <1>2 DEF CalmInv, SweepsPlain, RowsSettled
<1>6. Current'
  BY <1>1, Rests DEF Current, Writing, WriteLabel
<1>7. FlightsMarked'
  <2>1. \A t \in Run : pc'[t] = "agent" => pc[t] = "agent"
    BY <1>1, <1>2
  <2> QED
    BY <1>3, <2>1 DEF CalmInv, FlightsMarked, Marked
<1>8. StartsAlone' /\ ChecksLink' /\ UnmarksIdle'
  BY <1>1, <1>2, <1>3, <1>4, Rests
     DEF StartsAlone, ChecksLink, UnmarksIdle, Starting, Unmarking, StartLabel, UnmarkLabel
<1>9. RecentLinked'
  BY <1>3 DEF CalmInv, RecentLinked
<1>10. ClearsNothing'
  BY <1>1, <1>2, Rests DEF ClearsNothing, InTime, Exists
<1> QED
  BY <1>5, <1>6, <1>7, <1>8, <1>9, <1>10 DEF CalmInv

\* Past the check no report is recent and nobody is at work.
LEMMA NoLinkNoMark ==
  ASSUME TypeInv, CalmInv, rule.inv = 0, rule.marker = None \/ rule.marker > Stale
  PROVE  NoneInFlight /\ \A u \in Run : ~Recent(u)
<1>1. Timeout \in Nat /\ Stale \in Nat /\ Timeout < Stale /\ 0 \notin Run
  BY ConstantsAssumption DEF Run
<1>2. rule.marker # None => rule.marker \in Int
  BY ConstantsAssumption DEF TypeInv, Types, StoreOK, RuleRow, Age, MaxAge
<1>3. NoneInFlight
  BY <1>1, <1>2 DEF NoneInFlight, CalmInv, FlightsMarked, Marked
<1> QED
  BY <1>1, <1>3 DEF NoneInFlight, CalmInv, RecentLinked

LEMMA FireCalm ==
  ASSUME TypeInv, SqliteInv, CalmInv, Calm, NEW t \in Run, NEW r \in Replica, Fire(t, r)
  PROVE  CalmInv'
<1>1. t \in Actor /\ rule.exists /\ backend = "sqlite"
  BY DEF Actor, Calm
<1>2. /\ pc[t] = "idle" /\ loop = None /\ UNCHANGED <<rule, row, rowAge, agent, age>>
      /\ Go(t, VerdictOnRule)
  BY DEF Fire, Begin, IsNext
<1>3. \A q \in Actor : loc'[q].flag = loc[q].flag
  BY <1>1, FlagsKept DEF Fire
<1>4. /\ VerdictOnRule \in {"checkRow", "done", "identity"}
      /\ VerdictOnRule = "checkRow" => rule.inv # 0
      /\ VerdictOnRule = "identity" => rule.inv = 0 /\ (rule.marker = None \/ ~(rule.marker <= Stale))
  BY <1>1 DEF VerdictOnRule
<1>5. VerdictOnRule = "identity" => NoneInFlight /\ \A u \in Run : ~Recent(u)
  <2>1. rule.marker # None => rule.marker \in Int /\ Stale \in Int
    BY ConstantsAssumption DEF TypeInv, Types, StoreOK, RuleRow, Age, MaxAge
  <2> QED
    BY <1>4, <2>1, NoLinkNoMark
<1>6. VerdictOnRule = "checkRow" => loc'[t].seen = rule
  BY <1>1 DEF Fire, See, TypeInv, Types, LocalOK, Local
<1>7. ~InFlight(t)
  BY <1>2 DEF InFlight
<1> HIDE DEF VerdictOnRule
<1> QED
  BY <1>1, <1>2, <1>3, <1>4, <1>5, <1>6, <1>7, CalmMove
     DEF WriteLabel, FlightLabel, StartLabel, UnmarkLabel

LEMMA CheckCalm ==
  ASSUME TypeInv, SqliteInv, CalmInv, Calm, NEW t \in Run, CheckRow(t)
  PROVE  CalmInv'
<1>1. t \in Actor /\ Run \subseteq Actor /\ backend = "sqlite"
  BY DEF Actor, Calm
<1> DEFINE u == loc[t].seen.inv
           verdict == VerdictOnRow(u)
<1>2. /\ pc[t] = "checkRow" /\ loop \in {None, t} /\ Go(t, verdict)
      /\ UNCHANGED <<rule, row, rowAge, agent, age>>
      /\ Forget(t) \/ UNCHANGED loc
  BY DEF CheckRow, At, UNCHANGED_RUNS
<1>3. u = rule.inv /\ rule.inv \in Run /\ row[u] # "none"
  <2>1. loc[t].seen = rule /\ rule.inv # 0
    BY <1>1, <1>2 DEF CalmInv, Current, Writing, ChecksLink
  <2>2. rule.inv \in 0..MaxRuns /\ row[rule.inv] # "none"
    BY <2>1 DEF TypeInv, Types, StoreOK, RuleRow, LinkOK, Linkable
  <2> QED
    BY <2>1, <2>2, ConstantsAssumption DEF Run
<1>4. \A v \in Run : agent[v] # "saved"
  BY <1>1, <1>2, Solo
<1>5. row[u] \in {"completed", "deleted"}
  BY <1>3, <1>4 DEF CalmInv, RowsSettled
<1>6. verdict \in {"identity", "done"} /\ (verdict = "identity" => rowAge[u] > Cooldown \/ ~Exists(u))
  BY <1>5 DEF VerdictOnRow, Exists
<1>7. verdict = "identity" => NoneInFlight /\ \A v \in Run : ~Recent(v)
  <2>1. rule.inv # 0
    BY <1>3, ConstantsAssumption DEF Run
  <2>2. NoneInFlight
    BY <2>1 DEF NoneInFlight, CalmInv, FlightsMarked, Marked
  <2>3. \A v \in Run : Recent(v) => v = u
    BY <1>3, <2>2 DEF NoneInFlight, CalmInv, RecentLinked
  <2>4. rowAge[u] > Cooldown \/ ~Exists(u) => ~Recent(u)
    BY <1>3, ConstantsAssumption DEF Recent, Counts, TypeInv, Types, StoreOK, Age, MaxAge
  <2> QED
    BY <1>6, <2>2, <2>3, <2>4
<1>8. \A q \in Actor : loc'[q].flag = loc[q].flag
  BY <1>1, <1>2, FlagsKept
<1>9. ~InFlight(t)
  BY <1>2 DEF InFlight
<1> HIDE DEF verdict, u
<1> QED
  BY <1>1, <1>2, <1>6, <1>7, <1>8, <1>9, CalmMove
     DEF WriteLabel, FlightLabel, StartLabel, UnmarkLabel

LEMMA HandlerCalm ==
  ASSUME TypeInv, SqliteInv, CalmInv, Calm, NEW t \in Run,
         Identify(t) \/ MarkRead(t) \/ Lookup(t) \/ FinishRead(t)
  PROVE  CalmInv'
<1>1. t \in Actor /\ Run \subseteq Actor /\ backend = "sqlite" /\ kind[t] = "auto"
  BY DEF Actor, Calm, Manual, TypeInv, Types, RunsOK
<1>2. /\ loop \in {None, t} /\ UNCHANGED <<rule, row, rowAge, agent, age>>
      /\ pc[t] \in {"identity", "mark", "lookup", "link", "clear"}
      /\ See(t) \/ UNCHANGED loc
  BY DEF Identify, MarkRead, Lookup, FinishRead, At, UNCHANGED_RUNS
<1>3. \A q \in Actor : loc'[q].flag = loc[q].flag
  BY <1>1, <1>2, FlagsKept
<1>4. See(t) => loc'[t].seen = rule
  BY <1>1 DEF See, TypeInv, Types, LocalOK, Local
<1>5. CASE Identify(t) \/ MarkRead(t)
  <2>1. PICK label \in {"mark", "done", "markWrite"} :
          Go(t, label) /\ (label = "markWrite" => See(t))
    BY <1>5 DEF Identify, MarkRead
  <2>2. NoneInFlight /\ \A u \in Run : ~Recent(u)
    BY <1>5 DEF Identify, MarkRead, At, CalmInv, StartsAlone, Starting
  <2>3. ~InFlight(t)
    BY <2>2 DEF NoneInFlight
  <2> QED
    BY <1>1, <1>2, <1>3, <1>4, <2>1, <2>2, <2>3, CalmMove
       DEF WriteLabel, FlightLabel, StartLabel, UnmarkLabel
<1>6. CASE Lookup(t)
  <2>1. row[t] \in {"none", "completed", "deleted"}
    <3>1. Go(t, LookupVerdict(t))
      BY <1>6 DEF Lookup
    <3>2. agent[t] # "saved"
      BY <1>1, <1>2, <3>1, Solo
    <3> QED
      BY <3>2 DEF CalmInv, RowsSettled
  <2>2. PICK label \in {"clear", "link"} : Go(t, label) /\ (label = "clear" => ~Exists(t))
    BY <1>6, <2>1 DEF Lookup, LookupVerdict, Exists
  <2>3. InFlight(t)
    BY <1>6 DEF Lookup, At, InFlight
  <2> QED
    BY <1>1, <1>2, <1>3, <2>2, <2>3, CalmMove DEF WriteLabel, FlightLabel, StartLabel, UnmarkLabel
<1>7. CASE FinishRead(t)
  <2>1. PICK label \in {"linkWrite", "clearWrite"} :
          Go(t, label) /\ See(t) /\ (label = "clearWrite" => pc[t] = "clear")
    BY <1>7 DEF FinishRead, At
  <2>2. label = "clearWrite" /\ InTime(t) => ~Exists(t)
    BY <2>1 DEF CalmInv, ClearsNothing
  <2>3. InFlight(t)
    BY <1>7 DEF FinishRead, At, InFlight
  <2> QED
    BY <1>1, <1>2, <1>3, <1>4, <2>1, <2>2, <2>3, CalmMove
       DEF WriteLabel, FlightLabel, StartLabel, UnmarkLabel
<1> QED
  BY <1>5, <1>6, <1>7

LEMMA SweepCalm ==
  ASSUME TypeInv, SqliteInv, CalmInv, Calm, NEW r \in Replica, SweepRules(r) \/ SweepRows(r)
  PROVE  CalmInv'
<1>1. r \in Actor /\ r \notin Run /\ backend = "sqlite" /\ ~loc[r].flag
  BY Constants DEF Actor, Calm, CalmInv, SweepsPlain
<1>2. loop \in {None, r} /\ UNCHANGED <<rule, row, rowAge, agent, age>>
  BY DEF SweepRules, SweepRows, At, UNCHANGED_RUNS
<1>3. CASE SweepRules(r)
  <2>1. See(r) \/ UNCHANGED loc
    BY <1>3 DEF SweepRules
  <2>2. \A q \in Actor : loc'[q].flag = loc[q].flag
    BY <1>1, <2>1, FlagsKept
  <2>3. See(r) => loc'[r].seen = rule
    BY <1>1 DEF See, TypeInv, Types, LocalOK, Local
  <2>4. PICK label \in {"unmark", "unmarkWrite", "swept"} :
          /\ Go(r, label)
          /\ label = "unmark" => NeedsUnmark(r)
          /\ label = "unmarkWrite" => pc[r] = "unmark" /\ See(r)
    BY <1>1, <1>3 DEF SweepRules, AfterRules, At
  <2>5. label \in UnmarkLabel => rule.inv = 0 /\ NoneInFlight
    <3>1. NeedsUnmark(r) => rule.inv = 0 /\ rule.marker > Stale
      BY <1>1 DEF NeedsUnmark
    <3>2. NeedsUnmark(r) => rule.inv = 0 /\ NoneInFlight
      BY <3>1, NoLinkNoMark
    <3>3. pc[r] = "unmark" => rule.inv = 0 /\ NoneInFlight
      BY DEF CalmInv, UnmarksIdle, Unmarking
    <3> QED
      BY <2>4, <3>2, <3>3 DEF UnmarkLabel
  <2> QED
    BY <1>1, <1>2, <2>2, <2>3, <2>4, <2>5, CalmMove DEF WriteLabel, StartLabel, UnmarkLabel
<1>4. CASE SweepRows(r)
  <2>1. PICK todo \in SUBSET Run : GoFail(r, todo)
    <3>1. {t \in Run : StaleRow(t)} \in SUBSET Run
      OBVIOUS
    <3> QED
      BY <1>4, <3>1 DEF SweepRows
  <2>2. \A q \in Actor : loc'[q].flag = loc[q].flag
    <3>1. /\ \A q \in Actor \ {r} : loc'[q] = loc[q]
          /\ loc'[r].flag = (loc[r].flag /\ todo # {})
      BY <2>1, FailMove DEF TypeInv, Types
    <3>2. loc[r].flag = FALSE
      BY <1>1 DEF TypeInv, Types, LocalOK, Local
    <3> QED
      BY <3>1, <3>2
  <2>3. PICK label \in {"fail", "rules"} : Go(r, label)
    BY <1>1, <2>1 DEF GoFail, AfterRows
  <2> QED
    BY <1>1, <1>2, <2>2, <2>3, CalmMove DEF WriteLabel, StartLabel, UnmarkLabel
<1> QED
  BY <1>3, <1>4

\* A step after which nobody is past a check or about to write.
LEMMA CalmRest ==
  ASSUME \A q \in Actor : pc'[q] \in Waiting \cup {"lookup"},
         SweepsPlain', RowsSettled', FlightsMarked', RecentLinked'
  PROVE  CalmInv'
<1>1. Run \subseteq Actor /\ Replica \subseteq Actor
  BY DEF Actor
<1>2. Current' /\ StartsAlone' /\ ChecksLink' /\ UnmarksIdle' /\ ClearsNothing'
  BY <1>1 DEF Waiting, Current, Writing, StartsAlone, Starting, ChecksLink, UnmarksIdle, Unmarking,
              ClearsNothing
<1> QED
  BY <1>2 DEF CalmInv

LEMMA MarkCalm ==
  ASSUME TypeInv, SqliteInv, CalmInv, Calm, NEW t \in Run, MarkWrite(t)
  PROVE  CalmInv'
<1>1. t \in Actor /\ Run \subseteq Actor /\ Replica \subseteq Actor /\ t \notin Replica
  BY Constants DEF Actor
<1>2. backend = "sqlite" /\ pc[t] = "markWrite" /\ loop \in {None, t} /\ Go(t, "agent")
  BY DEF MarkWrite, At, Spawn, Calm
<1>3. /\ pc'[t] = "agent" /\ \A q \in Actor \ {t} : pc[q] \in Waiting /\ pc'[q] = pc[q]
      /\ \A u \in Run : agent[u] # "saved"
  BY <1>1, <1>2, Solo
<1>4. loc[t].seen = rule /\ rule.exists /\ rule \in RuleRow
  BY <1>1, <1>2, Kept DEF CalmInv, Current, Writing, Calm
<1>5. rule'.inv = 0 /\ rule'.marker = 0
  BY <1>4 DEF MarkWrite, Write, Started, RuleRow
<1>6. NoneInFlight /\ \A u \in Run : ~Recent(u)
  BY <1>2 DEF CalmInv, StartsAlone, Starting
<1>7. row[t] = "none"
  BY <1>2 DEF SqliteInv, AgentRow, Early
<1>8. \A q \in Actor : loc'[q].flag = loc[q].flag
  BY <1>1, FlagsKept DEF MarkWrite, Spawn
<1>9. /\ UNCHANGED <<row, rowAge>> /\ age'[t] = 0
      /\ \A u \in Run \ {t} : agent'[u] = agent[u]
  BY DEF MarkWrite, Spawn, TypeInv, Types, RunsOK
<1>10. \A u \in Run : InFlight(u)' => u = t
  BY <1>1, <1>3, <1>6 DEF NoneInFlight, InFlight
<1>11. \A u \in Run : ~Recent(u)'
  <2>1. 0 \notin Run
    BY ConstantsAssumption DEF Run
  <2> QED
    BY <1>1, <1>5, <1>6, <1>8, <1>9, <2>1 DEF Recent, Counts, Exists, InTime
<1>12. FlightsMarked'
  <2>1. 0 # None /\ 0 <= Timeout
    BY ConstantsAssumption DEF MaxAge
  <2> QED
    BY <1>5, <1>9, <1>10, <2>1 DEF FlightsMarked, Marked
<1>13. SweepsPlain' /\ RowsSettled'
  BY <1>1, <1>3, <1>7, <1>8, <1>9 DEF CalmInv, SweepsPlain, RowsSettled
<1>14. RecentLinked'
  BY <1>11 DEF RecentLinked
<1>15. \A q \in Actor : pc'[q] \in Waiting \cup {"lookup"}
  BY <1>3 DEF Waiting
<1> QED
  BY <1>12, <1>13, <1>14, <1>15, CalmRest

LEMMA ResumeCalm ==
  ASSUME TypeInv, SqliteInv, CalmInv, Calm, NEW t \in Run, AgentReturned(t) \/ TimedOut(t)
  PROVE  CalmInv'
<1>1. t \in Actor /\ Run \subseteq Actor /\ Replica \subseteq Actor /\ t \notin Replica
  BY Constants DEF Actor
<1>2. PICK ok \in BOOLEAN : Resume(t, ok)
  BY DEF AgentReturned, TimedOut
<1>3. backend = "sqlite" /\ pc[t] = "agent" /\ loop \in {None, t} /\ agent[t] # "saved"
  BY DEF AgentReturned, TimedOut, At, Calm
<1>4. Go(t, "lookup")
  <2>1. kind[t] # "manual"
    BY DEF Calm, Manual
  <2> QED
    BY <1>2, <2>1 DEF Resume, AfterRace
<1>5. /\ pc'[t] = "lookup" /\ \A q \in Actor \ {t} : pc[q] \in Waiting /\ pc'[q] = pc[q]
      /\ \A u \in Run : agent[u] # "saved"
  BY <1>1, <1>3, <1>4, Solo
<1>6. \A q \in Actor \ {t} : loc'[q] = loc[q]
  BY <1>2 DEF Resume, TypeInv, Types, LocalOK
<1>7. /\ UNCHANGED <<rule, row, rowAge>>
      /\ \A u \in Run \ {t} : age'[u] = age[u] /\ agent'[u] = agent[u]
  BY <1>2 DEF Resume, TypeInv, Types, RunsOK
<1>8. \A u \in Run : InFlight(u)' <=> InFlight(u)
  BY <1>1, <1>3, <1>5 DEF InFlight
<1>9. \A u \in Run \ {t} : Recent(u)' <=> Recent(u)
  BY <1>1, <1>6, <1>7 DEF Recent, Counts, Exists, InTime
<1>10. SweepsPlain' /\ RowsSettled'
  BY <1>1, <1>5, <1>6, <1>7 DEF CalmInv, SweepsPlain, RowsSettled
<1>11. FlightsMarked'
  BY <1>1, <1>5, <1>7, <1>8 DEF CalmInv, FlightsMarked, Marked
<1>12. RecentLinked'
  <2>1. InFlight(t)'
    BY <1>5 DEF InFlight
  <2> QED
    BY <1>7, <1>8, <1>9, <2>1 DEF CalmInv, RecentLinked
<1>13. \A q \in Actor : pc'[q] \in Waiting \cup {"lookup"}
  BY <1>5
<1> QED
  BY <1>10, <1>11, <1>12, <1>13, CalmRest

\* An agent saves, reports or ends: its handler has not been told, so that its row
\* is not one of the reports the cooldown counts from.
LEMMA AgentCalm ==
  ASSUME TypeInv, SqliteInv, CalmInv, Calm, NEW t \in Run, Agent(t), ~Faulted'
  PROVE  CalmInv'
<1>1. t \in Actor /\ Run \subseteq Actor /\ Replica \subseteq Actor /\ t # None /\ backend = "sqlite"
  BY Constants DEF Actor, Calm
<1>2. UNCHANGED <<rule, age, pc, loc>> /\ loop \in {None, t} /\ agent[t] # "none"
  BY DEF Agent, AgentSave, AgentReport, AgentRetry, AgentEnd
<1>3. \A q \in Actor : pc[q] \in Waiting
  <2>1. AgentReport(t) => pc[t] \in Waiting
    BY DEF AgentReport, SqliteInv, AgentRow, Waiting
  <2>2. ~AgentReport(t) => loop = None
    BY DEF Agent, AgentSave, AgentRetry, AgentEnd
  <2> QED
    BY <1>1, <1>2, <2>1, <2>2, Constants DEF SqliteInv, Exclusive
<1>4. ~loc[t].flag
  BY <1>2 DEF SqliteInv, AgentRow
<1>5. /\ \A u \in Run \ {t} : row'[u] = row[u] /\ rowAge'[u] = rowAge[u] /\ agent'[u] = agent[u]
      /\ row'[t] \in {"none", "completed", "deleted"} \/ agent'[t] = "saved"
  <2>1. CASE AgentSave(t) \/ AgentRetry(t)
    BY <2>1 DEF AgentSave, AgentRetry, SetStatus, TypeInv, Types, RunsOK, StoreOK
  <2>2. CASE AgentReport(t)
    <3>1. ~Upset(TRUE)
      BY UpsetFaults
    <3> QED
      BY <2>2, <3>1 DEF AgentReport, SetStatus, TypeInv, Types, RunsOK, StoreOK
  <2>3. CASE AgentEnd(t)
    <3>1. row[t] \in {"none", "completed", "deleted"}
      BY <2>3 DEF AgentEnd, CalmInv, RowsSettled
    <3> QED
      BY <2>3, <3>1 DEF AgentEnd, TypeInv, Types, RunsOK
  <2> QED
    BY <2>1, <2>2, <2>3 DEF Agent
<1>6. \A u \in Run : /\ InFlight(u)' <=> InFlight(u)
                     /\ Recent(u)' => Recent(u) \/ rule'.inv = u
  BY <1>2, <1>4, <1>5 DEF InFlight, Recent, Counts, Exists, InTime
<1>7. SweepsPlain' /\ RowsSettled'
  BY <1>2, <1>5 DEF CalmInv, SweepsPlain, RowsSettled
<1>8. FlightsMarked' /\ RecentLinked'
  BY <1>2, <1>6 DEF CalmInv, FlightsMarked, Marked, RecentLinked
<1>9. \A q \in Actor : pc'[q] \in Waiting \cup {"lookup"}
  BY <1>2, <1>3
<1> QED
  BY <1>7, <1>8, <1>9, CalmRest

\* A handler that links its report or clears the marker was alone at work.
LEMMA WriteCalm ==
  ASSUME TypeInv, SqliteInv, CalmInv, Calm, NEW t \in Run, LinkWrite(t) \/ ClearWrite(t)
  PROVE  CalmInv'
<1>1. t \in Actor /\ Run \subseteq Actor /\ Replica \subseteq Actor /\ 0 \notin Run
  BY ConstantsAssumption DEF Actor, Run
<1>2. /\ backend = "sqlite" /\ pc[t] \in {"linkWrite", "clearWrite"} /\ loop \in {None, t}
      /\ Go(t, "done") /\ UNCHANGED <<row, rowAge, agent, age>>
  BY DEF LinkWrite, ClearWrite, At, Calm, UNCHANGED_RUNS
<1>3. /\ pc'[t] = "done" /\ \A q \in Actor \ {t} : pc[q] \in Waiting /\ pc'[q] = pc[q]
  BY <1>1, <1>2, Solo
<1>4. \A q \in Actor : loc'[q].flag = loc[q].flag
  BY <1>1, FlagsKept DEF LinkWrite, ClearWrite
<1>5. InFlight(t)
  BY <1>2 DEF InFlight
<1>6. rule.inv = 0 /\ \A u \in Run \ {t} : ~InFlight(u)
  BY <1>5 DEF CalmInv, FlightsMarked, Marked
<1>7. \A u \in Run : Recent(u) => u = t /\ pc[t] # "clearWrite"
  BY <1>1, <1>6 DEF CalmInv, RecentLinked, ClearsNothing, Recent, Counts, Exists, InTime
<1>8. pc[t] = "linkWrite" => rule'.inv = t
  BY <1>1, Kept DEF LinkWrite, ClearWrite, At, Write, LinkedTo, CalmInv, Current, Writing, Calm, RuleRow
<1>9. \A u \in Run : ~InFlight(u)'
  BY <1>1, <1>3, <1>6 DEF InFlight
<1>10. \A u \in Run : Recent(u)' => Recent(u) \/ rule'.inv = u
  BY <1>1, <1>2, <1>4 DEF Recent, Counts, Exists, InTime
<1>11. SweepsPlain' /\ RowsSettled'
  BY <1>1, <1>2, <1>3, <1>4 DEF CalmInv, SweepsPlain, RowsSettled
<1>12. FlightsMarked' /\ RecentLinked'
  BY <1>2, <1>7, <1>8, <1>9, <1>10 DEF FlightsMarked, RecentLinked
<1>13. \A q \in Actor : pc'[q] \in Waiting \cup {"lookup"}
  BY <1>3 DEF Waiting
<1> QED
  BY <1>11, <1>12, <1>13, CalmRest

LEMMA UnmarkCalm ==
  ASSUME TypeInv, SqliteInv, CalmInv, Calm, NEW r \in Replica, UnmarkWrite(r)
  PROVE  CalmInv'
<1>1. r \in Actor /\ r \notin Run /\ Run \subseteq Actor /\ Replica \subseteq Actor /\ 0 \notin Run
  BY Constants, ConstantsAssumption DEF Actor, Run
<1>2. /\ backend = "sqlite" /\ pc[r] = "unmarkWrite" /\ loop \in {None, r}
      /\ UNCHANGED <<row, rowAge, agent, age>>
  BY DEF UnmarkWrite, At, Calm, UNCHANGED_RUNS
<1>3. Go(r, "swept")
  BY DEF UnmarkWrite, AfterRules, CalmInv, SweepsPlain
<1>4. pc'[r] = "swept" /\ \A q \in Actor \ {r} : pc[q] \in Waiting /\ pc'[q] = pc[q]
  BY <1>1, <1>2, <1>3, Solo
<1>5. \A q \in Actor : loc'[q].flag = loc[q].flag
  BY <1>1, FlagsKept DEF UnmarkWrite
<1>6. rule.inv = 0 /\ NoneInFlight
  BY <1>2 DEF CalmInv, UnmarksIdle, Unmarking
<1>7. \A u \in Run : ~InFlight(u)' /\ (Recent(u)' => rule'.inv = u)
  <2>1. \A u \in Run : ~InFlight(u) /\ ~Recent(u)
    BY <1>1, <1>6 DEF NoneInFlight, CalmInv, RecentLinked
  <2> QED
    BY <1>1, <1>2, <1>4, <1>5, <2>1 DEF InFlight, Recent, Counts, Exists, InTime
<1>8. SweepsPlain' /\ RowsSettled'
  BY <1>1, <1>2, <1>4, <1>5 DEF CalmInv, SweepsPlain, RowsSettled
<1>9. FlightsMarked' /\ RecentLinked'
  BY <1>7 DEF FlightsMarked, RecentLinked
<1>10. \A q \in Actor : pc'[q] \in Waiting \cup {"lookup"}
  BY <1>4 DEF Waiting
<1> QED
  BY <1>8, <1>9, <1>10, CalmRest

\* The clock: the marker ages with the timer of the run it stands for, which fires
\* before the marker is stale.
LEMMA TickCalm ==
  ASSUME TypeInv, SqliteInv, CalmInv, Calm, Tick
  PROVE  CalmInv'
<1>1. Run \subseteq Actor /\ Replica \subseteq Actor
  BY DEF Actor
<1>2. /\ \A q \in Actor : pc[q] \in Waiting \ {"up"}
      /\ \A q \in Actor : pc'[q] = IF pc[q] = "swept" THEN "up" ELSE pc[q]
      /\ UNCHANGED <<row, agent, loc>>
  BY DEF Tick, Quiet, Actor, TypeInv, Types, ControlOK
<1>3. \A q \in Actor : pc'[q] \in Waiting \cup {"lookup"}
  BY <1>2 DEF Waiting
<1>4. \A t \in Run : pc'[t] = pc[t]
  BY <1>1, <1>2 DEF TypeInv, Types, ControlOK, RunLabel
<1>5. \A u \in Run : InFlight(u)' <=> InFlight(u)
  BY <1>4 DEF InFlight
<1>6. \A u \in Run : InFlight(u) => pc[u] = "agent"
  BY <1>1, <1>2, Rests DEF InFlight
<1>7. SweepsPlain' /\ RowsSettled'
  BY <1>1, <1>2 DEF CalmInv, SweepsPlain, RowsSettled
<1>8. rule'.inv = rule.inv
  BY Kept DEF Tick, RuleRow
<1>9. ASSUME NEW t \in Run, InFlight(t) PROVE Marked(t)'
  <2>1. /\ rule.inv = 0 /\ rule.marker # None /\ rule.marker <= Timeout /\ rule.marker = age[t]
        /\ \A u \in Run \ {t} : ~InFlight(u)
    BY <1>6, <1>9 DEF CalmInv, FlightsMarked, Marked
  <2>2. age[t] \in Nat /\ age[t] < Timeout /\ Timeout < Stale /\ Stale \in Nat /\ Timeout \in Nat
    BY <1>6, <1>9, ConstantsAssumption DEF Tick, Quiet, TypeInv, Types, RunsOK, Age, MaxAge
  <2>3. age'[t] = age[t] + 1
    BY <1>6, <1>9 DEF Tick
  <2>4. rule'.marker = rule.marker + 1
    <3>1. rule'.marker = Older(rule.marker, Stale)
      BY <2>1, Kept DEF Tick, RuleRow
    <3> QED
      BY <2>1, <2>2, <3>1 DEF Older
  <2>5. rule'.marker # None
    <3>1. rule'.marker \in 0..MaxAge
      BY <2>1, <2>2, <2>4 DEF MaxAge
    <3> QED
      BY <3>1, ConstantsAssumption
  <2> QED
    BY <1>5, <1>8, <2>1, <2>2, <2>3, <2>4, <2>5 DEF Marked
<1>10. FlightsMarked'
  BY <1>5, <1>9 DEF FlightsMarked
<1>11. \A u \in Run : Recent(u)' => Recent(u)
  <2>1. \A u \in Run : rowAge[u] \in Age /\ Limit(u) \in 0..Stale
    BY ConstantsAssumption DEF TypeInv, Types, StoreOK, Limit
  <2>2. \A u \in Run : Exists(u) => rowAge'[u] >= rowAge[u] /\ rowAge'[u] \in Age
    BY <2>1, OlderInRange DEF Tick
  <2>3. \A u \in Run : Counts(u)' => Counts(u)
    BY <1>2, <1>8 DEF Counts, Exists, InTime
  <2> QED
    BY <2>1, <2>2, <2>3, ConstantsAssumption DEF Recent, Counts, Age, MaxAge
<1>12. RecentLinked'
  BY <1>5, <1>8, <1>11 DEF CalmInv, RecentLinked
<1> QED
  BY <1>3, <1>7, <1>10, <1>12, CalmRest

\* A deletion leaves one report less for the cooldown to count from.
LEMMA DeleteCalm ==
  ASSUME TypeInv, SqliteInv, CalmInv, Calm, NEW t \in Run, DeleteRow(t)
  PROVE  CalmInv'
<1>1. /\ loop = None /\ UNCHANGED <<rule, agent, age, pc, loc>>
      /\ row'[t] = "deleted" /\ \A u \in Run \ {t} : row'[u] = row[u] /\ rowAge'[u] = rowAge[u]
  BY DEF DeleteRow, TypeInv, Types, StoreOK
<1>2. \A q \in Actor : pc'[q] \in Waiting \cup {"lookup"}
  BY <1>1, Constants DEF SqliteInv, Exclusive
<1>3. \A u \in Run : /\ InFlight(u)' <=> InFlight(u)
                     /\ Recent(u)' => Recent(u)
  BY <1>1 DEF InFlight, Recent, Counts, Exists, InTime
<1>4. SweepsPlain' /\ RowsSettled'
  BY <1>1 DEF CalmInv, SweepsPlain, RowsSettled
<1>5. FlightsMarked' /\ RecentLinked'
  BY <1>1, <1>3 DEF CalmInv, FlightsMarked, Marked, RecentLinked
<1> QED
  BY <1>2, <1>4, <1>5, CalmRest

\* Nothing undoes a click, a fault or the rule's deletion.
LEMMA CalmBefore ==
  ASSUME TypeInv, TurnInv, [Next]_vars, Calm'
  PROVE  Calm
<1>1. backend = "sqlite"
  BY HousedStep DEF TurnInv, Calm
<1>2. SqliteInv /\ \A t \in Run : Housed(t)
  BY <1>1 DEF TurnInv
<1>3. ~Faulted
  BY FaultsStay DEF Calm
<1>4. ~Manual
  <2>1. \A t \in Run : kind[t] = "manual" => kind'[t] = "manual"
    <3>1. CASE UNCHANGED kind
      BY <3>1
    <3>2. ASSUME NEW t \in Run, NEW r \in Replica, Fire(t, r) \/ Click(t, r)
          PROVE  \A u \in Run : kind[u] = "manual" => kind'[u] = "manual"
      <4>1. PICK k \in {"auto", "manual"} : Begin(t, k, r)
        BY <3>2 DEF Fire, Click
      <4>2. kind[t] = "auto"
        BY <1>2, <4>1 DEF Begin, IsNext, Housed
      <4> QED
        BY <4>1, <4>2 DEF Begin, TypeInv, Types, RunsOK
    <3> QED
      BY <3>1, <3>2
         DEF Next, vars, Handle, CheckRow, FailStale, Identify, MarkRead, MarkWrite, AgentReturned,
             TimedOut, Resume, Spawn, Lookup, ForceStatus, FinishRead, LinkWrite, ClearWrite, Agent,
             AgentSave, AgentReport, AgentRetry, AgentEnd, MarkThrow, Throw, Sweep, SweepRules, UnmarkWrite,
             SweepRows, FailRow, SweepThrow, Crash, Restart, OtherRead, OtherWrite, DeleteRule, DeleteRow, Tick,
             UNCHANGED_RUNS
  <2> QED
    BY <2>1 DEF Calm, Manual
<1>5. rule.exists
  <2>1. rule \in RuleRow
    BY Kept
  <2>2. ~rule.exists => rule'.exists = rule.exists
    <3>1. CASE Tick
      BY <2>1, <3>1 DEF Tick, RuleRow
    <3>2. CASE UNCHANGED rule
      BY <3>2
    <3>3. CASE \E merged : Write(merged)
      BY <3>3 DEF Write
    <3>4. CASE DeleteRule
      BY <3>4 DEF DeleteRule
    <3> QED
      BY <3>1, <3>2, <3>3, <3>4
         DEF Next, vars, Handle, CheckRow, FailStale, Identify, MarkRead, MarkWrite, AgentReturned,
             TimedOut, Resume, Lookup, ForceStatus, FinishRead, LinkWrite, ClearWrite, Agent,
             AgentSave, AgentReport, AgentRetry, AgentEnd, MarkThrow, Throw, Fire, Click, Begin, Sweep, SweepRules,
             UnmarkWrite, SweepRows, FailRow, SweepThrow, Crash, Restart, OtherRead, OtherWrite,
             DeleteRow
  <2> QED
    BY <2>2 DEF Calm
<1> QED
  BY <1>1, <1>3, <1>4, <1>5 DEF Calm

\* While all is calm no row is left running, so nothing is relabelled.
LEMMA NothingRelabelled ==
  ASSUME TypeInv, SqliteInv, CalmInv, Calm
  PROVE  /\ \A t \in Run : ~FailStale(t) /\ ~ForceStatus(t)
         /\ \A r \in Replica : ~FailRow(r) /\ ~Restart(r)
<1>1. ASSUME NEW p \in Actor, loop \in {None, p}, pc[p] \notin Waiting, NEW u \in Run
      PROVE  row[u] # "running"
  <2>1. agent[u] # "saved"
    BY <1>1, Constants DEF SqliteInv, AgentRow, Waiting, Actor
  <2> QED
    BY <2>1 DEF CalmInv, RowsSettled
<1>2. ASSUME NEW t \in Run, FailStale(t) PROVE FALSE
  BY <1>2 DEF FailStale, At, CalmInv, ChecksLink
<1>3. ASSUME NEW t \in Run, ForceStatus(t) PROVE FALSE
  BY <1>1, <1>3 DEF ForceStatus, At, SqliteInv, Relabels, Actor, Waiting
<1>4. ASSUME NEW r \in Replica, FailRow(r) PROVE FALSE
  <2>1. PICK t \in loc[r].todo : TRUE
    BY <1>4 DEF FailRow
  <2>2. t \in Run /\ row[t] = "running"
    BY <1>4, <2>1 DEF FailRow, At, SqliteInv, Relabels, TypeInv, Types, LocalOK, Local, Actor
  <2> QED
    BY <1>1, <1>4, <2>2 DEF FailRow, At, Actor, Waiting
<1>5. \A r \in Replica : ~Restart(r)
  BY DEF Restart, CalmInv, SweepsPlain
<1> QED
  BY <1>2, <1>3, <1>4, <1>5

LEMMA DedupStep ==
  ASSUME TypeInv, TurnInv, DedupInv, [Next]_vars
  PROVE  DedupInv'
<1>1. SUFFICES ASSUME Calm' PROVE CalmInv'
  BY DEF DedupInv
<1>2. Calm /\ CalmInv /\ SqliteInv /\ backend = "sqlite"
  BY <1>1, CalmBefore DEF DedupInv, TurnInv, Calm
<1>3. ~Upset(TRUE) /\ ~Faulted' /\ ~Manual' /\ rule'.exists
  BY <1>1, UpsetFaults DEF Calm
<1>4. CASE UNCHANGED vars
  BY <1>2, <1>4
     DEF vars, CalmInv, SweepsPlain, Current, RowsSettled, FlightsMarked, StartsAlone, ChecksLink,
         UnmarksIdle, RecentLinked, ClearsNothing, Writing, InFlight, Marked, Starting, NoneInFlight,
         Recent, Counts, Exists, InTime, Unmarking
<1>5. ASSUME NEW t \in Run, Handle(t) \/ Agent(t) \/ MarkThrow(t) \/ Throw(t) \/ DeleteRow(t)
      PROVE  CalmInv'
  <2>1. ~MarkThrow(t) /\ ~Throw(t)
    BY <1>3 DEF MarkThrow, Throw
  <2>2. ~FailStale(t) /\ ~ForceStatus(t)
    BY <1>2, NothingRelabelled
  <2> QED
    BY <1>2, <1>3, <1>5, <2>1, <2>2, CheckCalm, HandlerCalm, MarkCalm, ResumeCalm, WriteCalm, AgentCalm,
       DeleteCalm
       DEF Handle
<1>6. ASSUME NEW t \in Run, NEW r \in Replica, Fire(t, r) \/ Click(t, r) PROVE CalmInv'
  <2>1. ~Click(t, r)
    BY <1>3 DEF Click, Begin, Manual, TypeInv, Types, RunsOK
  <2> QED
    BY <1>2, <1>6, <2>1, FireCalm
<1>7. ASSUME NEW r \in Replica, Sweep(r) \/ SweepThrow(r) \/ Crash(r) \/ Restart(r) PROVE CalmInv'
  <2>1. ~SweepThrow(r) /\ ~Crash(r)
    BY <1>3 DEF SweepThrow, Crash
  <2>2. ~FailRow(r) /\ ~Restart(r)
    BY <1>2, NothingRelabelled
  <2> QED
    BY <1>2, <1>7, <2>1, <2>2, SweepCalm, UnmarkCalm DEF Sweep
<1>8. CASE OtherRead \/ OtherWrite \/ DeleteRule \/ Tick
  <2>1. ~OtherRead /\ ~OtherWrite
    BY <1>2 DEF OtherRead, OtherWrite, SqliteInv
  <2>2. ~DeleteRule
    <3>1. DeleteRule => rule' = [NoRow EXCEPT !.exists = FALSE]
      BY DEF DeleteRule
    <3>2. [NoRow EXCEPT !.exists = FALSE].exists = FALSE
      BY DEF NoRow
    <3> QED
      BY <1>3, <3>1, <3>2
  <2> QED
    BY <1>2, <1>8, <2>1, <2>2, TickCalm
<1> QED
  BY <1>4, <1>5, <1>6, <1>7, <1>8 DEF Next

LEMMA DedupInit ==
  ASSUME Init
  PROVE  DedupInv
<1>1. /\ \A t \in Run : pc[t] = "idle" /\ row[t] = "none" /\ ~loc[t].flag
      /\ \A r \in Replica : pc[r] = "up" /\ ~loc[r].flag
  BY Constants DEF Init, NoLocal, Actor
<1> QED
  BY <1>1
     DEF DedupInv, CalmInv, SweepsPlain, Current, RowsSettled, FlightsMarked, StartsAlone, ChecksLink,
         UnmarksIdle, RecentLinked, ClearsNothing, Writing, InFlight, Starting, Recent, Counts, Exists, InTime,
         Unmarking, Actor

\* An agent is started by its own handler, past the check.
LEMMA StartsItsAgent ==
  ASSUME TypeInv, [Next]_vars, NEW t \in Run, agent[t] = "none", agent'[t] = "work"
  PROVE  MarkWrite(t) \/ MarkThrow(t)
<1>1. agent' # agent
  OBVIOUS
<1>2. ASSUME NEW u \in Run, MarkWrite(u) \/ MarkThrow(u) PROVE u = t
  BY <1>2 DEF MarkWrite, MarkThrow, Spawn, TypeInv, Types, RunsOK
<1>3. ASSUME NEW u \in Run, AgentReturned(u) \/ TimedOut(u) PROVE FALSE
  BY <1>3 DEF AgentReturned, TimedOut, Resume, TypeInv, Types, RunsOK
<1>4. ASSUME NEW u \in Run, Agent(u) PROVE FALSE
  BY <1>4 DEF Agent, AgentSave, AgentReport, AgentRetry, AgentEnd, TypeInv, Types, RunsOK
<1>5. ASSUME NEW r \in Replica, Crash(r) PROVE FALSE
  BY <1>5 DEF Crash
<1> QED
  BY <1>1, <1>2, <1>3, <1>4, <1>5
     DEF Next, vars, Handle, CheckRow, FailStale, Identify, MarkRead, Lookup, ForceStatus, FinishRead,
         LinkWrite, ClearWrite, Throw, Fire, Click, Begin, Sweep, SweepRules, UnmarkWrite, SweepRows,
         FailRow, SweepThrow, Restart, OtherRead, OtherWrite, DeleteRule, DeleteRow, Tick, UNCHANGED_RUNS

\* In one process on sqlite shouldRun() deduplicates, for any number of events and
\* any cooldown, timeout and staleness with the timeout below the staleness: while
\* nobody clicks, nothing fails and the rule exists, no event starts an agent beside
\* a handler at work, or within the cooldown of a report the rule links or whose agent
\* returned in time (a timed-out agent's late report is neither).  A handler at work is
\* alone and marked on the rule with the age of its own timer, which fires before
\* the marker counts as stale (FlightsMarked), and a recent report is the one the
\* rule links (RecentLinked): the two things shouldRun() looks at.
THEOREM Deduplicated ==
  ASSUME OneProcess
  PROVE  Spec => EventsAreDeduplicated
<1> DEFINE Inv == TypeInv /\ TurnInv /\ DedupInv
           Dedup == \A t \in Run :
                      (agent[t] = "none" /\ agent'[t] = "work") =>
                        \/ backend = "postgres" \/ Manual \/ Faulted \/ ~rule.exists
                        \/ \A u \in Run \ {t} :
                             ~InFlight(u) /\ (Counts(u) => rowAge[u] > Cooldown)
<1>1. Init => Inv
  BY TypeInit, TurnInit, DedupInit
<1>2. Inv /\ [Next]_vars => Inv'
  BY TypeStep, TurnStep, DedupStep
<1>3. Inv /\ [Next]_vars => Dedup
  <2> SUFFICES ASSUME Inv, [Next]_vars, NEW t \in Run, agent[t] = "none", agent'[t] = "work",
                      backend # "postgres", ~Manual, ~Faulted, rule.exists,
                      NEW u \in Run
               PROVE  ~InFlight(u) /\ (Counts(u) => rowAge[u] > Cooldown)
    OBVIOUS
  <2>1. Starting(t)
    BY StartsItsAgent DEF MarkWrite, MarkThrow, At, Starting
  <2>2. Calm
    BY ConstantsAssumption DEF Calm, TypeInv, Types, StoreOK
  <2>3. ~InFlight(u) /\ ~Recent(u)
    BY <2>1, <2>2 DEF DedupInv, CalmInv, StartsAlone, NoneInFlight
  <2>4. rowAge[u] \in Int /\ Cooldown \in Int
    BY ConstantsAssumption DEF TypeInv, Types, StoreOK, Age, MaxAge
  <2> QED
    BY <2>3, <2>4 DEF Recent
<1>4. Spec => [][Dedup]_vars
  <2> HIDE DEF Inv, Dedup
  <2> QED
    BY <1>1, <1>2, <1>3, PTL DEF Spec
<1> QED
  BY <1>4 DEF EventsAreDeduplicated
=============================================================================
