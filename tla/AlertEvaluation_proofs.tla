----------------------- MODULE AlertEvaluation_proofs -----------------------
(***************************************************************************)
(* Proofs about AlertEvaluation, for every set of window lengths and every *)
(* number of edits, metric changes, missed samples and restarts.           *)
(***************************************************************************)
EXTENDS AlertEvaluation, TLAPS

(* Typing.  Each local of the tick is there exactly at the steps that use  *)
(* it.                                                                     *)

RowSteps == {"stampWrite", "merge", "transWrite"}
NextSteps == {"act", "merge", "transWrite"}

StoreOK ==
  /\ backend \in Backends /\ rule \in Row /\ deleted \in BOOLEAN
  /\ writes \subseteq [op : Nat, row : Row]
TickOK ==
  /\ tick \in [pc : Steps, fresh : Row \union {None},
               next : States \union {None}, row : Row \union {None}]
  /\ IF At("query") THEN tick.fresh \in Row ELSE tick.fresh = None
  /\ IF tick.pc \in RowSteps THEN tick.row \in Row ELSE tick.row = None
  /\ tick.pc \in NextSteps => tick.next \in States
OthersOK ==
  /\ armed \in BOOLEAN /\ pulls \subseteq BOOLEAN /\ breach \in BOOLEAN
  /\ announced \in Nat
  /\ held \in Age
  /\ budget \in [{"edits", "flips", "misses", "crashes"} -> Nat]
TypeInv == StoreOK /\ TickOK /\ OthersOK

LEMMA OlderType ==
  ASSUME NEW a \in Age
  PROVE  /\ Older(a) \in Age
         /\ Older(a) = None <=> a = None
BY ConstantsAssumption DEF Older, Age

LEMMA OlderRowType ==
  ASSUME NEW r \in Row
  PROVE  /\ OlderRow(r) \in Row
         /\ OlderRow(r).state = r.state
         /\ OlderRow(r).fires = r.fires
         /\ OlderRow(r).dur = r.dur
         /\ OlderRow(r).since = None <=> r.since = None
         /\ r # None => OlderRow(r).since = Older(r.since)
<1>1. r.since \in Age
  BY DEF Row
<1> QED
  BY <1>1, OlderType DEF OlderRow, Row

LEMMA PatchedType ==
  ASSUME NEW r \in Row, NEW n \in Nat, NEW next \in States
  PROVE  /\ Patched(r, n, next) \in Row
         /\ Patched(r, n, next).state = next
         /\ Patched(r, n, next).since = IF next = "pending" THEN 0 ELSE None
         /\ Patched(r, n, next).fires = IF next = "firing" THEN n + 1 ELSE r.fires
<1> DEFINE since == IF next = "pending" THEN 0 ELSE None
           fires == IF next = "firing" THEN n + 1 ELSE r.fires
<1>1. since \in Age
  BY ConstantsAssumption DEF Age
<1>2. fires \in Nat
  BY DEF Row
<1>3. Patched(r, n, next) = [state |-> next, since |-> since, fires |-> fires, dur |-> r.dur]
  BY Zenon DEF Patched
<1>4. r.dur \in Fors
  BY DEF Row
<1> HIDE DEF since, fires
<1> QED
  BY <1>1, <1>2, <1>3, <1>4 DEF Row, since, fires

LEMMA DecideType ==
  ASSUME NEW r \in Row, NEW b \in BOOLEAN
  PROVE  decideTransition(r, b) \in States \union {None}
BY DEF decideTransition, DecideOnTrue, DecideOnFalse, Row, States

LEMMA SpendType ==
  ASSUME budget \in [{"edits", "flips", "misses", "crashes"} -> Nat],
         NEW what \in {"edits", "flips", "misses", "crashes"}, Spend(what)
  PROVE  budget' \in [{"edits", "flips", "misses", "crashes"} -> Nat]
BY DEF Spend

\* The tick ends, announces, or goes on with a row to write.
LEMMA IdleOK == ASSUME tick' = Idle PROVE TickOK'
BY DEF Idle, TickOK, At, Steps, RowSteps, NextSteps, Row, States

LEMMA AnnouncesOK ==
  ASSUME NEW next, Announces(next)
  PROVE  /\ TickOK'
         /\ tick'.pc = "publish" <=> next = "firing" /\ ~deleted
         /\ tick'.pc \in {"idle", "publish"}
BY DEF Announces, Idle, TickOK, At, Steps, RowSteps, NextSteps

LEMMA GotoOK ==
  ASSUME TickOK, ~At("query"), NEW pc \in RowSteps, NEW row \in Row, Goto(pc, row),
         pc \in NextSteps => tick.next \in States
  PROVE  TickOK' /\ tick'.pc = pc /\ tick'.row = row /\ tick'.next = tick.next
BY DEF Goto, TickOK, At, Steps, RowSteps, NextSteps

LEMMA TypeInit == Init => TypeInv
<1> SUFFICES ASSUME Init PROVE TypeInv
  OBVIOUS
<1>1. StoreOK
  <2>1. rule \in Row
    BY ConstantsAssumption DEF Init, Row, States, Age
  <2>2. deleted \in BOOLEAN
    BY Zenon DEF Init
  <2> QED
    BY <2>1, <2>2 DEF Init, StoreOK
<1>2. TickOK
  BY DEF Init, Idle, TickOK, At, Steps, RowSteps, NextSteps
<1>3. OthersOK
  <2>1. armed \in BOOLEAN /\ breach \in BOOLEAN
    BY Zenon DEF Init
  <2>2. budget \in [{"edits", "flips", "misses", "crashes"} -> Nat]
    BY ConstantsAssumption DEF Init
  <2> QED
    BY <2>1, <2>2 DEF Init, OthersOK, Age
<1> QED
  BY <1>1, <1>2, <1>3 DEF TypeInv

LEMMA TypeStep == TypeInv /\ [Next]_vars => TypeInv'
<1> SUFFICES ASSUME TypeInv, [Next]_vars PROVE TypeInv'
  OBVIOUS
<1> USE DEF TypeInv
<1>1. CASE RefreshSchedule
  <2>1. armed' \in BOOLEAN
    BY <1>1, Zenon DEF RefreshSchedule, Schedule, Active
  <2> QED
    BY <1>1, <2>1 DEF RefreshSchedule, store, history, StoreOK, TickOK, OthersOK, At
<1>2. CASE RefreshRead
  <2>1. pulls' \subseteq BOOLEAN
    BY <1>2, Zenon DEF RefreshRead, Active, OthersOK
  <2> QED
    BY <1>2, <2>1 DEF RefreshRead, store, history, StoreOK, TickOK, OthersOK, At
<1>3. ASSUME NEW b \in BOOLEAN, RefreshApply(b) PROVE TypeInv'
  <2>1. pulls' \subseteq BOOLEAN /\ armed' \in BOOLEAN
    BY <1>3, Zenon DEF RefreshApply, Schedule, OthersOK
  <2> QED
    BY <1>3, <2>1 DEF RefreshApply, store, history, StoreOK, TickOK, OthersOK, At
<1>4. CASE TickBegin
  <2>1. TickOK'
    BY <1>4 DEF TickBegin, Idle, TickOK, StoreOK, At, Steps, RowSteps, NextSteps
  <2> QED
    BY <1>4, <2>1 DEF TickBegin, store, schedule, history, StoreOK, OthersOK
<1>5. CASE TickNoSample
  <2>1. TickOK'
    BY <1>5, IdleOK DEF TickNoSample
  <2>2. budget' \in [{"edits", "flips", "misses", "crashes"} -> Nat]
    BY <1>5, SpendType DEF TickNoSample, OthersOK
  <2> QED
    BY <1>5, <2>1, <2>2 DEF TickNoSample, store, schedule, history, StoreOK, OthersOK
<1>6. CASE TickSample
  <2> DEFINE next == decideTransition(tick.fresh, breach)
  <2>1. next \in States \union {None}
    BY <1>6, DecideType, Zenon DEF TickSample, TickOK, OthersOK
  <2>2. TickOK'
    BY <1>6, AnnouncesOK DEF TickSample
  <2>3. rule.fires \in Nat
    BY DEF StoreOK, Row
  <2>4. next # None => Patched(rule, rule.fires, next) \in Row
    BY <2>1, <2>3, PatchedType DEF StoreOK
  <2>5. rule' \in Row
    BY <1>6, <2>4 DEF TickSample, StoreOK
  <2>6. held' \in Age
    BY <1>6, ConstantsAssumption DEF TickSample, Run, Age, OthersOK
  <2> QED
    BY <1>6, <2>2, <2>5, <2>6 DEF TickSample, schedule, StoreOK, OthersOK
<1>7. CASE TickSamplePg
  <2> DEFINE next == decideTransition(tick.fresh, breach)
  <2>1. next \in States \union {None}
    BY <1>7, DecideType, Zenon DEF TickSamplePg, TickOK, OthersOK
  <2> HIDE DEF next
  <2>2. tick' = [Idle EXCEPT !.pc = "stamp", !.next = next]
    BY <1>7 DEF TickSamplePg, next
  <2>3. TickOK'
    BY <2>1, <2>2 DEF Idle, TickOK, At, Steps, RowSteps, NextSteps
  <2> QED
    BY <1>7, <2>3 DEF TickSamplePg, store, schedule, history, StoreOK, OthersOK
<1>8. CASE StampRead
  <2>1. TickOK'
    BY <1>8, GotoOK DEF StampRead, StoreOK, At, RowSteps, NextSteps
  <2> QED
    BY <1>8, <2>1 DEF StampRead, store, schedule, history, StoreOK, OthersOK
<1>9. CASE StampWrite
  <2>1. tick.row \in Row
    BY <1>9 DEF StampWrite, At, TickOK, RowSteps
  <2>2. rule' \in Row
    BY <1>9, <2>1 DEF StampWrite, StoreOK
  <2>3. TickOK'
    <3>1. CASE tick.next = None
      BY <1>9, <3>1, IdleOK DEF StampWrite
    <3>2. CASE tick.next # None
      BY <1>9, <3>2 DEF StampWrite, Goto, At, TickOK, Steps, RowSteps, NextSteps
    <3> QED
      BY <3>1, <3>2
  <2> QED
    BY <1>9, <2>2, <2>3 DEF StampWrite, schedule, history, StoreOK, OthersOK
<1>10. CASE TransitionRead
  <2>1. TickOK'
    <3>1. CASE deleted \/ rule.state = tick.next
      BY <1>10, <3>1, AnnouncesOK DEF TransitionRead
    <3>2. CASE ~(deleted \/ rule.state = tick.next)
      <4>1. Goto("merge", rule)
        BY <1>10, <3>2 DEF TransitionRead
      <4> QED
        BY <1>10, <4>1, GotoOK DEF TransitionRead, TickOK, StoreOK, At, RowSteps, NextSteps
    <3> QED
      BY <3>1, <3>2
  <2> QED
    BY <1>10, <2>1 DEF TransitionRead, store, schedule, history, StoreOK, OthersOK
<1>11. CASE TransitionMerge
  <2>1. TickOK'
    <3>1. CASE deleted
      BY <1>11, <3>1, IdleOK DEF TransitionMerge
    <3>2. CASE ~deleted
      <4> DEFINE row == Patched(rule, tick.row.fires, tick.next)
      <4>1. tick.row \in Row /\ tick.next \in States
        BY <1>11 DEF TransitionMerge, At, TickOK, RowSteps, NextSteps
      <4>2. tick.row.fires \in Nat
        BY <4>1 DEF Row
      <4>3. row \in Row
        BY <4>1, <4>2, PatchedType DEF StoreOK
      <4>4. Goto("transWrite", row)
        BY <1>11, <3>2 DEF TransitionMerge
      <4> HIDE DEF row
      <4> QED
        BY <1>11, <4>1, <4>3, <4>4, GotoOK DEF TransitionMerge, At, RowSteps, NextSteps
    <3> QED
      BY <3>1, <3>2
  <2> QED
    BY <1>11, <2>1 DEF TransitionMerge, store, schedule, history, StoreOK, OthersOK
<1>12. CASE TransitionWrite
  <2>1. rule' \in Row
    BY <1>12 DEF TransitionWrite, At, TickOK, RowSteps, StoreOK
  <2>2. TickOK'
    BY <1>12, AnnouncesOK DEF TransitionWrite
  <2> QED
    BY <1>12, <2>1, <2>2 DEF TransitionWrite, schedule, history, StoreOK, OthersOK
<1>13. CASE Publish
  <2>1. TickOK'
    BY <1>13, IdleOK DEF Publish
  <2> QED
    BY <1>13, <2>1 DEF Publish, store, schedule, history, StoreOK, OthersOK
<1>14. CASE Crash
  <2>1. TickOK'
    BY <1>14, IdleOK DEF Crash
  <2>2. budget' \in [{"edits", "flips", "misses", "crashes"} -> Nat]
    BY <1>14, SpendType DEF Crash, OthersOK
  <2>3. announced' \in Nat
    BY <1>14 DEF Crash, OthersOK
  <2>4. armed' \in BOOLEAN /\ pulls' \subseteq BOOLEAN
    BY <1>14, Zenon DEF Crash
  <2> QED
    BY <1>14, <2>1, <2>2, <2>3, <2>4 DEF Crash, store, history, StoreOK, OthersOK
<1>15. ASSUME NEW row \in Row, UserUpdate(row) PROVE TypeInv'
  <2>1. budget' \in [{"edits", "flips", "misses", "crashes"} -> Nat]
    BY <1>15, SpendType DEF UserUpdate, OthersOK
  <2>2. budget.edits \in Nat
    BY DEF OthersOK
  <2>3. rule' \in Row /\ writes' \subseteq [op : Nat, row : Row]
    BY <1>15, <2>2 DEF UserUpdate, StoreOK
  <2> QED
    BY <1>15, <2>1, <2>3 DEF UserUpdate, schedule, history, StoreOK, TickOK, At, OthersOK
<1>16. CASE User
  <2>1. CASE Disable
    <3>1. [rule EXCEPT !.state = "disabled"] \in Row
      BY DEF StoreOK, Row, States
    <3> QED
      BY <1>15, <2>1, <3>1 DEF Disable
  <2>2. CASE Enable
    <3>1. [rule EXCEPT !.state = "normal"] \in Row
      BY DEF StoreOK, Row, States
    <3> QED
      BY <1>15, <2>2, <3>1 DEF Enable
  <2>3. CASE Delete
    <3>1. budget' \in [{"edits", "flips", "misses", "crashes"} -> Nat]
      BY <2>3, SpendType DEF Delete, OthersOK
    <3>2. deleted' \in BOOLEAN
      BY <2>3, Zenon DEF Delete
    <3> QED
      BY <2>3, <3>1, <3>2 DEF Delete, schedule, history, StoreOK, TickOK, At, OthersOK
  <2>4. ASSUME NEW dur \in Fors, EditCondition(dur) PROVE TypeInv'
    <3>1. [rule EXCEPT !.dur = dur] \in Row
      BY DEF StoreOK, Row
    <3> QED
      BY <1>15, <2>4, <3>1 DEF EditCondition
  <2> QED
    BY <1>16, <2>1, <2>2, <2>3, <2>4 DEF User
<1>17. ASSUME NEW w \in writes, UserWrite(w) PROVE TypeInv'
  <2>1. rule' \in Row /\ writes' \subseteq [op : Nat, row : Row]
    BY <1>17 DEF UserWrite, StoreOK
  <2> QED
    BY <1>17, <2>1 DEF UserWrite, schedule, history, StoreOK, TickOK, At, OthersOK
<1>18. CASE MetricFlips
  <2>1. budget' \in [{"edits", "flips", "misses", "crashes"} -> Nat]
    BY <1>18, SpendType DEF MetricFlips, OthersOK
  <2>2. breach' \in BOOLEAN
    BY <1>18, Zenon DEF MetricFlips
  <2> QED
    BY <1>18, <2>1, <2>2 DEF MetricFlips, store, schedule, history, StoreOK, TickOK, At, OthersOK
<1>19. CASE TimePasses
  <2>1. rule' \in Row
    BY <1>19, OlderRowType DEF TimePasses, StoreOK
  <2>2. writes' \subseteq [op : Nat, row : Row]
    <3> SUFFICES ASSUME NEW w \in writes
                 PROVE  [w EXCEPT !.row = OlderRow(@)] \in [op : Nat, row : Row]
      BY <1>19 DEF TimePasses
    <3>1. w.op \in Nat /\ w.row \in Row /\ w = [op |-> w.op, row |-> w.row]
      BY DEF StoreOK
    <3>2. OlderRow(w.row) \in Row
      BY <3>1, OlderRowType
    <3> QED
      BY <3>1, <3>2
  <2>3. held' \in Age
    BY <1>19, OlderType DEF TimePasses, OthersOK
  <2>4. TickOK'
    <3> DEFINE fresh == OlderRow(tick.fresh)
               row == OlderRow(tick.row)
    <3>1. tick' = [tick EXCEPT !.fresh = fresh, !.row = row]
      BY <1>19 DEF TimePasses
    <3>2. OlderRow(None) = None
      BY DEF OlderRow
    <3>3. /\ tick.fresh \in Row => fresh \in Row
          /\ tick.fresh = None => fresh = None
          /\ tick.row \in Row => row \in Row
          /\ tick.row = None => row = None
      BY <3>2, OlderRowType
    <3> HIDE DEF fresh, row
    <3> QED
      BY <3>1, <3>3 DEF TickOK, At
  <2> QED
    BY <1>19, <2>1, <2>2, <2>3, <2>4 DEF TimePasses, schedule, StoreOK, OthersOK
<1>20. CASE UNCHANGED vars
  BY <1>20 DEF vars, store, schedule, history, StoreOK, TickOK, At, OthersOK
<1> QED
  BY <1>1, <1>2, <1>3, <1>4, <1>5, <1>6, <1>7, <1>8, <1>9, <1>10, <1>11, <1>12,
     <1>13, <1>14, <1>16, <1>17, <1>18, <1>19, <1>20 DEF Next, Tick

\* Every reachable state is well typed, for every value of the constants: no age
\* leaves its range, and the tick never works on a row it does not hold.
THEOREM TypeCorrect == Spec => []TypeOK
<1>1. TypeInv => TypeOK
  BY DEF TypeInv, StoreOK, TickOK, OthersOK, TypeOK
<1> QED
  BY <1>1, TypeInit, TypeStep, PTL DEF Spec

-----------------------------------------------------------------------------
(* A pending rule has a `since`.  Inductive over every row a step may      *)
(* still write: the evaluator's, and the ones users have merged.           *)

Dated(r) == r.state = "pending" => r.since # None

SinceInv ==
  /\ Dated(rule)
  /\ \A w \in writes : Dated(w.row)
  /\ At("query") => Dated(tick.fresh)
  /\ tick.pc \in RowSteps => Dated(tick.row)

LEMMA DatedPatched ==
  ASSUME NEW r \in Row, NEW n \in Nat, NEW next \in States
  PROVE  Dated(Patched(r, n, next))
<1>1. 0 # None
  BY ConstantsAssumption
<1>2. /\ Patched(r, n, next).state = next
      /\ Patched(r, n, next).since = IF next = "pending" THEN 0 ELSE None
  BY PatchedType
<1> QED
  BY <1>1, <1>2, Zenon DEF Dated

LEMMA DatedOlder ==
  ASSUME NEW r \in Row, Dated(r) PROVE Dated(OlderRow(r))
BY OlderRowType DEF Dated

LEMMA SinceStep == TypeInv /\ SinceInv /\ [Next]_vars => SinceInv'
<1> SUFFICES ASSUME TypeInv, SinceInv, [Next]_vars PROVE SinceInv'
  OBVIOUS
<1> USE DEF SinceInv
<1>1. CASE RefreshSchedule \/ RefreshRead \/ MetricFlips \/ Delete
  BY <1>1 DEF RefreshSchedule, RefreshRead, MetricFlips, Delete, store, At
<1>2. ASSUME NEW b \in BOOLEAN, RefreshApply(b) PROVE SinceInv'
  BY <1>2 DEF RefreshApply, store, At
<1>3. CASE TickBegin
  <2>1. tick'.pc = "query" /\ tick'.fresh = rule
    BY <1>3 DEF TickBegin, Idle
  <2> QED
    BY <1>3, <2>1 DEF TickBegin, store, At, RowSteps
<1>4. CASE TickNoSample \/ Publish \/ Crash
  <2>1. tick'.pc = "idle"
    BY <1>4 DEF TickNoSample, Publish, Crash, Idle
  <2> QED
    BY <1>4, <2>1 DEF TickNoSample, Publish, Crash, store, At, RowSteps
<1>5. CASE TickSample
  <2> DEFINE next == decideTransition(tick.fresh, breach)
  <2>1. next \in States \union {None}
    BY <1>5, DecideType, Zenon DEF TickSample, TypeInv, TickOK, OthersOK
  <2>2. rule \in Row /\ rule.fires \in Nat
    BY DEF TypeInv, StoreOK, Row
  <2>3. next # None => Dated(Patched(rule, rule.fires, next))
    BY <2>1, <2>2, DatedPatched
  <2>4. Dated(rule)'
    <3>1. Dated(rule')
      BY <1>5, <2>3 DEF TickSample
    <3> QED
      BY <3>1 DEF Dated
  <2>5. tick'.pc \in {"idle", "publish"}
    BY <1>5, AnnouncesOK DEF TickSample
  <2> QED
    BY <1>5, <2>4, <2>5 DEF TickSample, At, RowSteps
<1>6. CASE TickSamplePg
  <2>1. tick'.pc = "stamp"
    BY <1>6 DEF TickSamplePg, Idle
  <2> QED
    BY <1>6, <2>1 DEF TickSamplePg, store, At, RowSteps
<1>7. CASE StampRead
  <2>1. tick'.pc = "stampWrite" /\ tick'.row = rule
    BY <1>7, GotoOK DEF StampRead, TypeInv, StoreOK, At, RowSteps, NextSteps
  <2> QED
    BY <1>7, <2>1 DEF StampRead, store, At, Dated
<1>8. CASE StampWrite
  <2>1. tick'.pc \in {"idle", "act"}
    <3>1. CASE tick.next = None
      BY <1>8, <3>1 DEF StampWrite, Idle
    <3>2. CASE tick.next # None
      BY <1>8, <3>2 DEF StampWrite, Goto, TypeInv, TickOK
    <3> QED
      BY <3>1, <3>2
  <2>2. Dated(rule)'
    BY <1>8 DEF StampWrite, At, RowSteps, Dated
  <2> QED
    BY <1>8, <2>1, <2>2 DEF StampWrite, At, RowSteps
<1>9. CASE TransitionRead
  <2>1. CASE deleted \/ rule.state = tick.next
    <3>1. tick'.pc \in {"idle", "publish"}
      BY <1>9, <2>1, AnnouncesOK DEF TransitionRead
    <3> QED
      BY <1>9, <3>1 DEF TransitionRead, store, At, RowSteps
  <2>2. CASE ~(deleted \/ rule.state = tick.next)
    <3>1. Goto("merge", rule)
      BY <1>9, <2>2 DEF TransitionRead
    <3>2. tick'.pc = "merge" /\ tick'.row = rule
      BY <1>9, <3>1, GotoOK DEF TransitionRead, TypeInv, TickOK, StoreOK, At, RowSteps, NextSteps
    <3> QED
      BY <1>9, <3>2 DEF TransitionRead, store, At, Dated
  <2> QED
    BY <2>1, <2>2
<1>10. CASE TransitionMerge
  <2>1. CASE deleted
    <3>1. tick'.pc = "idle"
      BY <1>10, <2>1 DEF TransitionMerge, Idle
    <3> QED
      BY <1>10, <3>1 DEF TransitionMerge, store, At, RowSteps
  <2>2. CASE ~deleted
    <3> DEFINE row == Patched(rule, tick.row.fires, tick.next)
    <3>1. tick.row \in Row /\ tick.next \in States /\ rule \in Row
      BY <1>10 DEF TransitionMerge, At, TypeInv, StoreOK, TickOK, RowSteps, NextSteps
    <3>2. tick.row.fires \in Nat
      BY <3>1 DEF Row
    <3>3. row \in Row /\ Dated(row)
      BY <3>1, <3>2, PatchedType, DatedPatched
    <3>4. Goto("transWrite", row)
      BY <1>10, <2>2 DEF TransitionMerge
    <3> HIDE DEF row
    <3>5. tick'.pc = "transWrite" /\ tick'.row = row
      BY <1>10, <3>1, <3>3, <3>4, GotoOK DEF TransitionMerge, TypeInv, At, RowSteps, NextSteps
    <3> QED
      BY <1>10, <3>3, <3>5 DEF TransitionMerge, store, At, Dated
  <2> QED
    BY <2>1, <2>2
<1>11. CASE TransitionWrite
  <2>1. Dated(rule)'
    BY <1>11 DEF TransitionWrite, At, RowSteps, Dated
  <2>2. tick'.pc \in {"idle", "publish"}
    BY <1>11, AnnouncesOK DEF TransitionWrite
  <2> QED
    BY <1>11, <2>1, <2>2 DEF TransitionWrite, At, RowSteps
<1>12. ASSUME NEW row \in Row, Dated(row), UserUpdate(row) PROVE SinceInv'
  <2>1. Dated(rule)'
    BY <1>12 DEF UserUpdate, Dated
  <2>2. \A w \in writes' : Dated(w.row)
    BY <1>12 DEF UserUpdate
  <2> QED
    BY <1>12, <2>1, <2>2 DEF UserUpdate, At, Dated
<1>13. CASE Disable \/ Enable
  <2>1. ASSUME NEW s \in {"disabled", "normal"}
        PROVE  [rule EXCEPT !.state = s] \in Row /\ Dated([rule EXCEPT !.state = s])
    BY DEF TypeInv, StoreOK, Row, States, Dated
  <2> QED
    BY <1>12, <1>13, <2>1 DEF Disable, Enable
<1>14. ASSUME NEW dur \in Fors, EditCondition(dur) PROVE SinceInv'
  <2>1. [rule EXCEPT !.dur = dur] \in Row /\ Dated([rule EXCEPT !.dur = dur])
    BY DEF TypeInv, StoreOK, Row, Dated
  <2> QED
    BY <1>12, <1>14, <2>1 DEF EditCondition
<1>15. ASSUME NEW w \in writes, UserWrite(w) PROVE SinceInv'
  BY <1>15 DEF UserWrite, At, Dated
<1>16. CASE TimePasses
  <2>1. Dated(rule)'
    <3>1. Dated(OlderRow(rule))
      BY DatedOlder DEF TypeInv, StoreOK
    <3> QED
      BY <1>16, <3>1 DEF TimePasses, Dated
  <2>2. \A w \in writes' : Dated(w.row)
    <3> SUFFICES ASSUME NEW w \in writes PROVE Dated([w EXCEPT !.row = OlderRow(@)].row)
      BY <1>16 DEF TimePasses
    <3>1. w \in [op : Nat, row : Row]
      BY DEF TypeInv, StoreOK
    <3>2. [w EXCEPT !.row = OlderRow(@)].row = OlderRow(w.row)
      BY <3>1
    <3>3. Dated(OlderRow(w.row))
      BY <3>1, DatedOlder
    <3> QED
      BY <3>2, <3>3
  <2>3. tick'.pc = tick.pc /\ tick'.fresh = OlderRow(tick.fresh) /\ tick'.row = OlderRow(tick.row)
    BY <1>16 DEF TimePasses, TypeInv, TickOK
  <2>4. At("query") => Dated(OlderRow(tick.fresh))
    BY DatedOlder DEF TypeInv, TickOK
  <2>5. tick.pc \in RowSteps => Dated(OlderRow(tick.row))
    BY DatedOlder DEF TypeInv, TickOK
  <2> QED
    BY <2>1, <2>2, <2>3, <2>4, <2>5 DEF At, Dated
<1>17. CASE UNCHANGED vars
  BY <1>17 DEF vars, store, At, Dated
<1> QED
  BY <1>1, <1>2, <1>3, <1>4, <1>5, <1>6, <1>7, <1>8, <1>9, <1>10, <1>11, <1>13,
     <1>14, <1>15, <1>16, <1>17 DEF Next, Tick, User

\* A pending rule always has the time it became pending, on both stores, whatever
\* stale rows users and the evaluator write over each other.
THEOREM PendingDated == Spec => []PendingHasSince
<1>1. Init => SinceInv
  BY DEF Init, SinceInv, Idle, Dated, At, RowSteps
<1>2. TypeInv /\ SinceInv => PendingHasSince
  <2> SUFFICES ASSUME TypeInv, SinceInv,
                      NEW r \in {rule} \union {w.row : w \in writes}
                             \union {x \in {tick.fresh, tick.row} : x # None}
               PROVE  r.state = "pending" => r.since # None
    BY DEF PendingHasSince
  <2>1. CASE r \in {rule} \union {w.row : w \in writes}
    BY <2>1 DEF SinceInv, Dated
  <2>2. CASE r = tick.fresh /\ tick.fresh # None
    BY <2>2 DEF SinceInv, Dated, TypeInv, TickOK
  <2>3. CASE r = tick.row /\ tick.row # None
    BY <2>3 DEF SinceInv, Dated, TypeInv, TickOK
  <2> QED
    BY <2>1, <2>2, <2>3
<1> QED
  BY <1>1, <1>2, TypeInit, TypeStep, SinceStep, PTL DEF Spec

-----------------------------------------------------------------------------
(* sqlite.  A store call is one turn, so the tick rests only while its     *)
(* query or its event is out, and nobody but the tick makes a rule pending *)
(* or firing.                                                              *)

TurnInv ==
  backend = "sqlite" =>
    /\ tick.pc \in {"idle", "query", "publish"}
    /\ writes = {}
    /\ At("query") /\ rule.state \in {"pending", "firing"} => tick.fresh.state = rule.state

LEMMA TurnStep == TypeInv /\ TurnInv /\ [Next]_vars => TurnInv'
<1> SUFFICES ASSUME TypeInv, TurnInv, [Next]_vars, backend' = "sqlite"
             PROVE  /\ tick'.pc \in {"idle", "query", "publish"}
                    /\ writes' = {}
                    /\ tick'.pc = "query" /\ rule'.state \in {"pending", "firing"}
                         => tick'.fresh.state = rule'.state
  BY DEF TurnInv, At
<1>0. backend = "sqlite"
  BY DEF Next, Tick, User, RefreshSchedule, RefreshRead, RefreshApply, TickBegin, TickNoSample,
         TickSample, TickSamplePg, StampRead, StampWrite, TransitionRead, TransitionMerge,
         TransitionWrite, Publish, Crash, Disable, Enable, EditCondition, UserUpdate, UserWrite,
         Delete, MetricFlips, TimePasses, vars, store
<1> USE <1>0 DEF TurnInv, At
<1>1. CASE RefreshSchedule \/ RefreshRead \/ MetricFlips \/ Delete
  BY <1>1 DEF RefreshSchedule, RefreshRead, MetricFlips, Delete, store
<1>2. ASSUME NEW b \in BOOLEAN, RefreshApply(b) PROVE TurnInv'
  BY <1>2 DEF RefreshApply, store
<1>3. CASE TickBegin
  <2>1. tick'.pc = "query" /\ tick'.fresh = rule
    BY <1>3 DEF TickBegin, Idle
  <2> QED
    BY <1>3, <2>1 DEF TickBegin, store
<1>4. CASE TickNoSample \/ Publish \/ Crash
  <2>1. tick'.pc = "idle"
    BY <1>4 DEF TickNoSample, Publish, Crash, Idle
  <2> QED
    BY <1>4, <2>1 DEF TickNoSample, Publish, Crash, store
<1>5. CASE TickSample
  <2>1. tick'.pc \in {"idle", "publish"}
    BY <1>5, AnnouncesOK DEF TickSample
  <2> QED
    BY <1>5, <2>1 DEF TickSample
<1>6. CASE TickSamplePg \/ StampRead \/ StampWrite \/ TransitionRead \/ TransitionMerge \/ TransitionWrite
  BY <1>6 DEF TickSamplePg, StampRead, StampWrite, TransitionRead, TransitionMerge, TransitionWrite
<1>7. CASE Disable \/ Enable
  <2>1. rule'.state \in {"disabled", "normal"}
    BY <1>7 DEF Disable, Enable, UserUpdate, TypeInv, StoreOK, Row
  <2> QED
    BY <1>7, <2>1 DEF Disable, Enable, UserUpdate
<1>8. ASSUME NEW dur \in Fors, EditCondition(dur) PROVE TurnInv'
  <2>1. rule'.state = rule.state
    BY <1>8 DEF EditCondition, UserUpdate, TypeInv, StoreOK, Row
  <2> QED
    BY <1>8, <2>1 DEF EditCondition, UserUpdate
<1>9. ASSUME NEW w \in writes, UserWrite(w) PROVE FALSE
  BY <1>9
<1>10. CASE TimePasses
  <2>1. rule'.state = rule.state
    BY <1>10, OlderRowType DEF TimePasses, TypeInv, StoreOK
  <2>2. tick'.pc = tick.pc /\ tick'.fresh = OlderRow(tick.fresh)
    BY <1>10 DEF TimePasses, TypeInv, TickOK
  <2>3. At("query") => OlderRow(tick.fresh).state = tick.fresh.state
    BY OlderRowType DEF TypeInv, TickOK
  <2>4. writes' = {}
    BY <1>10 DEF TimePasses
  <2> QED
    BY <2>1, <2>2, <2>3, <2>4
<1>11. CASE UNCHANGED vars
  BY <1>11 DEF vars, store
<1> QED
  BY <1>1, <1>2, <1>3, <1>4, <1>5, <1>6, <1>7, <1>8, <1>9, <1>10, <1>11 DEF Next, Tick, User

LEMMA TurnInit == Init => TurnInv
BY DEF Init, TurnInv, Idle, At

\* A true sample moves a rule that is not firing yet; the rule is moved where the
\* snapshot said.
LEMMA SampleFires ==
  ASSUME TypeInv, TurnInv, TickSample
  PROVE  LET next == decideTransition(tick.fresh, breach)
         IN  /\ next \in States \union {None}
             /\ next = "firing" => rule.state # "firing"
<1>1. tick.fresh \in Row /\ breach \in BOOLEAN
  BY DEF TickSample, TypeInv, TickOK, OthersOK, At
<1>2. decideTransition(tick.fresh, breach) \in States \union {None}
  BY <1>1, DecideType
<1>3. decideTransition(tick.fresh, breach) = "firing" => tick.fresh.state # "firing"
  BY <1>1, ConstantsAssumption DEF decideTransition, DecideOnTrue, DecideOnFalse, Row, States
<1> QED
  BY <1>2, <1>3 DEF TickSample, TurnInv, At

LEMMA CountStep ==
  TypeInv /\ TurnInv /\ FiringsAnnouncedOnce /\ [Next]_vars => FiringsAnnouncedOnce'
<1> SUFFICES ASSUME TypeInv, TurnInv, FiringsAnnouncedOnce, [Next]_vars, backend' = "sqlite"
             PROVE  rule'.fires = announced' + (IF tick'.pc = "publish" THEN 1 ELSE 0)
  BY DEF FiringsAnnouncedOnce, Publishing, At
<1>0. backend = "sqlite"
  BY DEF Next, Tick, User, RefreshSchedule, RefreshRead, RefreshApply, TickBegin, TickNoSample,
         TickSample, TickSamplePg, StampRead, StampWrite, TransitionRead, TransitionMerge,
         TransitionWrite, Publish, Crash, Disable, Enable, EditCondition, UserUpdate, UserWrite,
         Delete, MetricFlips, TimePasses, vars, store
<1>00. /\ rule \in Row /\ rule.fires \in Nat /\ announced \in Nat
       /\ rule.fires = announced + (IF tick.pc = "publish" THEN 1 ELSE 0)
  BY <1>0 DEF TypeInv, StoreOK, OthersOK, Row, FiringsAnnouncedOnce, Publishing, At
<1> USE <1>0, <1>00
<1>1. CASE RefreshSchedule \/ RefreshRead \/ MetricFlips \/ Delete
  BY <1>1 DEF RefreshSchedule, RefreshRead, MetricFlips, Delete, store
<1>2. ASSUME NEW b \in BOOLEAN, RefreshApply(b)
      PROVE  rule'.fires = announced' + (IF tick'.pc = "publish" THEN 1 ELSE 0)
  BY <1>2 DEF RefreshApply, store
<1>3. CASE TickBegin
  <2>1. tick'.pc = "query"
    BY <1>3 DEF TickBegin, Idle
  <2> QED
    BY <1>3, <2>1 DEF TickBegin, store, At
<1>4. CASE TickNoSample \/ Publish \/ Crash
  <2>1. tick'.pc = "idle"
    BY <1>4 DEF TickNoSample, Publish, Crash, Idle
  <2> QED
    BY <1>4, <2>1 DEF TickNoSample, Publish, Crash, store, At
<1>5. CASE TickSample
  <2> DEFINE next == decideTransition(tick.fresh, breach)
  <2>1. next \in States \union {None} /\ (next = "firing" => rule.state # "firing")
    BY <1>5, SampleFires
  <2>2. tick'.pc = "publish" <=> next = "firing" /\ ~deleted
    BY <1>5, AnnouncesOK DEF TickSample
  <2>3. rule' = IF next # None /\ ~deleted /\ rule.state # next
                THEN Patched(rule, rule.fires, next) ELSE rule
    BY <1>5, Zenon DEF TickSample
  <2>4. tick.pc = "query" /\ announced' = announced
    BY <1>5 DEF TickSample, At
  <2>5. None # "firing"
    BY ConstantsAssumption DEF States
  <2> HIDE DEF next
  <2>6. CASE next = "firing" /\ ~deleted
    BY <2>1, <2>2, <2>3, <2>4, <2>5, <2>6, PatchedType
  <2>7. CASE ~(next = "firing" /\ ~deleted)
    <3>1. rule'.fires = rule.fires
      <4>1. CASE next # None /\ ~deleted /\ rule.state # next
        BY <2>1, <2>3, <2>7, <4>1, PatchedType
      <4>2. CASE ~(next # None /\ ~deleted /\ rule.state # next)
        BY <2>3, <4>2, Zenon
      <4> QED
        BY <4>1, <4>2
    <3> QED
      BY <2>2, <2>4, <2>7, <3>1
  <2> QED
    BY <2>6, <2>7
<1>6. CASE TickSamplePg \/ StampRead \/ StampWrite \/ TransitionRead \/ TransitionMerge \/ TransitionWrite
  BY <1>6 DEF TickSamplePg, StampRead, StampWrite, TransitionRead, TransitionMerge, TransitionWrite,
              TurnInv, At
<1>7. CASE Disable \/ Enable
  BY <1>7 DEF Disable, Enable, UserUpdate, Row
<1>8. ASSUME NEW dur \in Fors, EditCondition(dur)
      PROVE  rule'.fires = announced' + (IF tick'.pc = "publish" THEN 1 ELSE 0)
  BY <1>8 DEF EditCondition, UserUpdate, Row
<1>9. ASSUME NEW w \in writes, UserWrite(w) PROVE FALSE
  BY <1>9 DEF TurnInv
<1>10. CASE TimePasses
  <2>1. rule'.fires = rule.fires
    BY <1>10, OlderRowType DEF TimePasses
  <2>2. tick'.pc = tick.pc
    BY <1>10 DEF TimePasses, TypeInv, TickOK
  <2> QED
    BY <1>10, <2>1, <2>2 DEF TimePasses
<1>11. CASE UNCHANGED vars
  BY <1>11 DEF vars, store
<1> QED
  BY <1>1, <1>2, <1>3, <1>4, <1>5, <1>6, <1>7, <1>8, <1>9, <1>10, <1>11 DEF Next, Tick, User

\* On sqlite every firing the row counts is announced once, and nothing else is,
\* for any number of edits, deletions, missed samples and restarts.
THEOREM AnnouncedOnce == Spec => []FiringsAnnouncedOnce
<1>1. Init => FiringsAnnouncedOnce
  BY DEF Init, FiringsAnnouncedOnce, Publishing, Idle, At
<1> QED
  BY <1>1, TypeInit, TypeStep, TurnInit, TurnStep, CountStep, PTL DEF Spec

-----------------------------------------------------------------------------
(* The window.  The run of true samples is at least as old as the `since`  *)
(* of a pending rule, and of the pending rule a query is out for.          *)

Covered(r) == r.state = "pending" => held # None /\ held >= r.since

WindowInv ==
  backend = "sqlite" =>
    /\ ~deleted => Covered(rule)
    /\ At("query") => Covered(tick.fresh)

LEMMA AgeInt == ASSUME NEW a \in Age, a # None PROVE a \in 0 .. MaxAge /\ a \in Int
BY ConstantsAssumption DEF Age

\* Two ages keep their order as time passes.
LEMMA OlderOrder ==
  ASSUME NEW a \in Age, NEW b \in Age, a # None, b # None, a >= b
  PROVE  Older(a) # None /\ Older(a) >= Older(b)
<1>1. a \in 0 .. MaxAge /\ b \in 0 .. MaxAge /\ MaxAge \in Nat
  BY AgeInt, ConstantsAssumption
<1>2. Older(a) # None
  BY OlderType
<1>3. Older(a) = (IF a = MaxAge THEN a ELSE a + 1) /\ Older(b) = (IF b = MaxAge THEN b ELSE b + 1)
  BY Zenon DEF Older
<1> QED
  BY <1>1, <1>2, <1>3

LEMMA CoveredOlder ==
  ASSUME NEW r \in Row, Dated(r), Covered(r), held \in Age, held' = Older(held)
  PROVE  OlderRow(r).state = "pending" => held' # None /\ held' >= OlderRow(r).since
<1> SUFFICES ASSUME OlderRow(r).state = "pending"
             PROVE  held' # None /\ held' >= OlderRow(r).since
  OBVIOUS
<1>1. r.state = "pending" /\ r.since \in Age /\ r.since # None
  BY OlderRowType DEF Dated, Row
<1>2. held # None /\ held >= r.since
  BY <1>1 DEF Covered
<1>3. OlderRow(r).since = Older(r.since) \/ r = None
  BY OlderRowType
<1>4. CASE OlderRow(r).since = Older(r.since)
  BY <1>1, <1>2, <1>4, OlderOrder
<1>5. CASE r = None
  <2>1. OlderRow(r) = r
    BY <1>5 DEF OlderRow
  <2>2. Older(held) # None /\ Older(held) >= held
    <3>1. held \in 0 .. MaxAge /\ MaxAge \in Nat
      BY <1>2, AgeInt, ConstantsAssumption
    <3>2. Older(held) = IF held = MaxAge THEN held ELSE held + 1
      BY <1>2, Zenon DEF Older
    <3> QED
      BY <1>2, <3>1, <3>2, OlderType
  <2>3. Older(held) \in Int /\ held \in Int /\ r.since \in Int
    BY <1>1, <1>2, <2>2, OlderType, AgeInt
  <2> QED
    BY <1>2, <2>1, <2>2, <2>3
<1> QED
  BY <1>3, <1>4, <1>5

\* What a sample leaves pending it has just made so, or has read as pending and
\* found true.
LEMMA SampleCovers ==
  ASSUME TypeInv, TurnInv, SinceInv, WindowInv, TickSample, ~deleted,
         rule'.state = "pending"
  PROVE  held' # None /\ held' >= rule'.since
<1> DEFINE next == decideTransition(tick.fresh, breach)
<1>1. /\ tick.fresh \in Row /\ rule \in Row /\ breach \in BOOLEAN
      /\ rule.fires \in Nat /\ held \in Age
  BY DEF TickSample, TypeInv, TickOK, StoreOK, OthersOK, At, Row
<1>2. next \in States \union {None}
  BY <1>1, DecideType
<1>3. rule' = IF next # None /\ ~deleted /\ rule.state # next
              THEN Patched(rule, rule.fires, next) ELSE rule
  BY Zenon DEF TickSample
<1>4. breach => held' # None /\ held' \in Int /\ held' >= 0 /\ (held # None => held' = held)
  BY <1>1, AgeInt, ConstantsAssumption DEF TickSample, Run, Age
<1>5. CASE next # None /\ rule.state # next
  <2>1. rule'.state = next /\ rule'.since = 0
    BY <1>1, <1>2, <1>3, <1>5, PatchedType
  <2>2. breach
    BY <1>1, <1>5, <2>1 DEF decideTransition, DecideOnFalse, Row, States
  <2> QED
    BY <1>4, <2>1, <2>2
<1>6. CASE ~(next # None /\ rule.state # next)
  <2>1. rule' = rule
    BY <1>3, <1>6, Zenon
  <2>2. tick.fresh.state = "pending"
    BY <2>1 DEF TurnInv, TickSample
  <2>3. held # None /\ held >= rule.since
    BY <2>1 DEF WindowInv, Covered, TickSample
  <2>4. breach
    BY <1>1, <1>6, <2>1, <2>2, ConstantsAssumption DEF decideTransition, DecideOnFalse, Row, States
  <2> QED
    BY <1>4, <2>1, <2>3, <2>4
<1> QED
  BY <1>5, <1>6

LEMMA WindowStep ==
  TypeInv /\ TurnInv /\ SinceInv /\ WindowInv /\ [Next]_vars => WindowInv'
<1> SUFFICES ASSUME TypeInv, TurnInv, SinceInv, WindowInv, [Next]_vars, backend' = "sqlite"
             PROVE  /\ ~deleted' /\ rule'.state = "pending" => held' # None /\ held' >= rule'.since
                    /\ tick'.pc = "query" /\ tick'.fresh.state = "pending"
                         => held' # None /\ held' >= tick'.fresh.since
  BY DEF WindowInv, Covered, At
<1>0. backend = "sqlite"
  BY DEF Next, Tick, User, RefreshSchedule, RefreshRead, RefreshApply, TickBegin, TickNoSample,
         TickSample, TickSamplePg, StampRead, StampWrite, TransitionRead, TransitionMerge,
         TransitionWrite, Publish, Crash, Disable, Enable, EditCondition, UserUpdate, UserWrite,
         Delete, MetricFlips, TimePasses, vars, store
<1>00. /\ ~deleted /\ rule.state = "pending" => held # None /\ held >= rule.since
       /\ tick.pc = "query" /\ tick.fresh.state = "pending" => held # None /\ held >= tick.fresh.since
  BY <1>0 DEF WindowInv, Covered, At
<1> USE <1>0, <1>00
<1>1. CASE RefreshSchedule \/ RefreshRead \/ MetricFlips \/ Delete
  BY <1>1 DEF RefreshSchedule, RefreshRead, MetricFlips, Delete, store, history
<1>2. ASSUME NEW b \in BOOLEAN, RefreshApply(b)
      PROVE  UNCHANGED << deleted, rule, tick, held >>
  BY <1>2 DEF RefreshApply, store, history
<1>3. CASE TickBegin
  <2>1. tick'.pc = "query" /\ tick'.fresh = rule
    BY <1>3 DEF TickBegin, Idle
  <2> QED
    BY <1>3, <2>1 DEF TickBegin, Active, store, history
<1>4. CASE TickNoSample \/ Publish \/ Crash
  <2>1. tick'.pc = "idle"
    BY <1>4 DEF TickNoSample, Publish, Crash, Idle
  <2> QED
    BY <1>4, <2>1 DEF TickNoSample, Publish, Crash, store, history
<1>5. CASE TickSample
  <2>1. tick'.pc \in {"idle", "publish"}
    BY <1>5, AnnouncesOK DEF TickSample
  <2> QED
    BY <1>5, <2>1, SampleCovers DEF TickSample
<1>6. CASE TickSamplePg \/ StampRead \/ StampWrite \/ TransitionRead \/ TransitionMerge \/ TransitionWrite
  BY <1>6 DEF TickSamplePg, StampRead, StampWrite, TransitionRead, TransitionMerge, TransitionWrite,
              TurnInv, At
<1>7. CASE Disable \/ Enable
  <2>1. rule'.state \in {"disabled", "normal"}
    BY <1>7 DEF Disable, Enable, UserUpdate, TypeInv, StoreOK, Row
  <2> QED
    BY <1>7, <2>1 DEF Disable, Enable, UserUpdate, history
<1>8. ASSUME NEW dur \in Fors, EditCondition(dur)
      PROVE  UNCHANGED << deleted, rule.state, rule.since, tick, held >>
  BY <1>8 DEF EditCondition, UserUpdate, history, TypeInv, StoreOK, Row
<1>9. ASSUME NEW w \in writes, UserWrite(w) PROVE FALSE
  BY <1>9 DEF TurnInv
<1>10. CASE TimePasses
  <2>1. held \in Age /\ held' = Older(held) /\ rule' = OlderRow(rule) /\ deleted' = deleted
    BY <1>10 DEF TimePasses, TypeInv, OthersOK
  <2>2. tick'.pc = tick.pc /\ tick'.fresh = OlderRow(tick.fresh)
    BY <1>10 DEF TimePasses, TypeInv, TickOK
  <2>3. rule \in Row /\ Dated(rule) /\ (~deleted => Covered(rule))
    BY DEF TypeInv, StoreOK, SinceInv, WindowInv
  <2>4. At("query") => tick.fresh \in Row /\ Dated(tick.fresh) /\ Covered(tick.fresh)
    BY DEF TypeInv, TickOK, SinceInv, WindowInv
  <2> QED
    BY <2>1, <2>2, <2>3, <2>4, CoveredOlder DEF At
<1>11. CASE UNCHANGED vars
  BY <1>11 DEF vars, store, history
<1> QED
  BY <1>1, <1>2, <1>3, <1>4, <1>5, <1>6, <1>7, <1>8, <1>9, <1>10, <1>11 DEF Next, Tick, User

\* A sample makes a rule fire when it is true and the window is empty or over.
LEMMA DecideFires ==
  ASSUME NEW r \in Row, NEW b \in BOOLEAN, decideTransition(r, b) = "firing"
  PROVE  /\ b
         /\ \/ r.dur = 0
            \/ r.state = "pending" /\ r.since # None /\ r.since >= r.dur
<1>1. None # "firing"
  BY ConstantsAssumption DEF States
<1>2. r.state \in States
  BY DEF Row
<1>3. b
  BY <1>1, <1>2 DEF decideTransition, DecideOnFalse, States
<1>4. DecideOnTrue(r) = "firing"
  BY <1>1, <1>3, Zenon DEF decideTransition
<1>5. CASE r.state = "pending"
  <2>1. DecideOnTrue(r) = IF r.since # None /\ r.since >= r.dur THEN "firing" ELSE None
    BY <1>5 DEF DecideOnTrue
  <2> QED
    BY <1>1, <1>3, <1>4, <1>5, <2>1, Zenon
<1>6. CASE r.state # "pending"
  <2>1. r.state # "firing"
    BY <1>1, <1>4 DEF DecideOnTrue
  <2>2. DecideOnTrue(r) = IF r.dur = 0 THEN "firing" ELSE "pending"
    BY <1>6, <2>1 DEF DecideOnTrue
  <2> QED
    BY <1>3, <1>4, <2>2
<1> QED
  BY <1>5, <1>6

\* On sqlite a rule fires only after an unbroken run of true samples at least as
\* long as its window, for any window length and any edits, enabling and
\* disabling, missed samples and restarts in between.
THEOREM WindowHeld == Spec => FiresAfterWindow
<1> DEFINE Held == backend = "sqlite" /\ Fires => held' # None /\ held' >= tick.fresh.dur
<1>1. Init => WindowInv
  BY DEF Init, WindowInv, Covered, Idle, At
<1>2. Init => SinceInv
  BY DEF Init, SinceInv, Idle, Dated, At, RowSteps
<1>3. TypeInv /\ TurnInv /\ SinceInv /\ WindowInv /\ [Next]_vars => [Held]_vars
  <2> SUFFICES ASSUME TypeInv, TurnInv, SinceInv, WindowInv, Next,
                      backend = "sqlite", rule.state # "firing", rule'.state = "firing"
               PROVE  held' # None /\ held' >= tick.fresh.dur
    BY DEF Fires
  <2>1. TickSample
    <3>1. ASSUME NEW w \in writes PROVE FALSE
      BY <3>1 DEF TurnInv
    <3>2. ~(Disable \/ Enable \/ \E dur \in Fors : EditCondition(dur))
      BY DEF Disable, Enable, EditCondition, UserUpdate, TypeInv, StoreOK, Row
    <3>3. ~TimePasses
      BY OlderRowType DEF TimePasses, TypeInv, StoreOK
    <3>4. ~(StampWrite \/ TransitionWrite)
      BY DEF StampWrite, TransitionWrite, TurnInv, At
    <3>5. rule' # rule
      OBVIOUS
    <3> QED
      BY <3>1, <3>2, <3>3, <3>4, <3>5 DEF Next, Tick, User, RefreshSchedule, RefreshRead,
         RefreshApply, TickBegin, TickNoSample, TickSamplePg, StampRead, TransitionRead,
         TransitionMerge, Publish, Crash, Delete, MetricFlips, store
  <2> DEFINE next == decideTransition(tick.fresh, breach)
  <2>2. /\ tick.fresh \in Row /\ rule \in Row /\ breach \in BOOLEAN
        /\ rule.fires \in Nat /\ held \in Age
        /\ tick.fresh.since \in Age /\ tick.fresh.dur \in 0 .. MaxAge
    BY <2>1, ConstantsAssumption DEF TickSample, TypeInv, TickOK, StoreOK, OthersOK, At, Row
  <2>3. next \in States \union {None}
    BY <2>2, DecideType
  <2>4. next = "firing"
    <3>1. rule' = IF next # None /\ ~deleted /\ rule.state # next
                  THEN Patched(rule, rule.fires, next) ELSE rule
      BY <2>1, Zenon DEF TickSample
    <3> QED
      BY <2>2, <2>3, <3>1, PatchedType
  <2>5. /\ breach
        /\ \/ tick.fresh.dur = 0
           \/ /\ tick.fresh.state = "pending"
              /\ tick.fresh.since # None
              /\ tick.fresh.since >= tick.fresh.dur
    BY <2>2, <2>4, DecideFires, Zenon
  <2>6. held' # None /\ held' \in Int /\ held' >= 0 /\ (held # None => held' = held)
    BY <2>1, <2>2, <2>5, AgeInt, ConstantsAssumption DEF TickSample, Run, Age
  <2>7. CASE tick.fresh.dur = 0
    BY <2>6, <2>7
  <2>8. CASE tick.fresh.state = "pending" /\ tick.fresh.since # None
               /\ tick.fresh.since >= tick.fresh.dur
    <3>1. held # None /\ held >= tick.fresh.since
      BY <2>1, <2>8 DEF WindowInv, Covered, TickSample
    <3>2. tick.fresh.since \in Int /\ held \in Int /\ tick.fresh.dur \in Int
      BY <2>2, <2>8, <3>1, AgeInt, ConstantsAssumption
    <3> QED
      BY <2>6, <2>8, <3>1, <3>2
  <2> QED
    BY <2>5, <2>7, <2>8
<1> QED
  BY <1>1, <1>2, <1>3, TypeInit, TypeStep, TurnInit, TurnStep, SinceStep, WindowStep, PTL
     DEF Spec, FiresAfterWindow

=============================================================================
