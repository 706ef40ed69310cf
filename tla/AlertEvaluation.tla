--------------------------- MODULE AlertEvaluation ---------------------------
(***************************************************************************)
(* One alert rule: its row in alert_rules, the evaluator that samples its  *)
(* metric on a timer and moves it through                                  *)
(*    normal -> pending -> firing -> resolved,                             *)
(* and the users (and the agent's alert_rule_write tool) who disable,      *)
(* enable, edit and delete it meanwhile.                                   *)
(*                                                                         *)
(* The evaluator is a single one: the only replica, or the leader.  Its    *)
(* tick suspends at every await.  On sqlite a store call completes within  *)
(* one turn of the event loop, so it is one step; on postgres each of its  *)
(* statements is a step, and an update writes back the WHOLE row it read.  *)
(*                                                                         *)
(* Time is relative: a timestamp is its age, saturated at MaxAge, which is *)
(* the longest forDurationSec (an older one compares alike).               *)
(***************************************************************************)
EXTENDS Integers

CONSTANTS
  Backends,    \* the stores the rule may live in, one per behaviour
  Fors,        \* the values forDurationSec takes, in clock ticks
  MaxAge,      \* the largest of them
  None,        \* an absent timestamp, or no transition
  MaxEdits,    \* bound on user operations
  MaxFlips,    \* bound on changes of the metric
  MaxMisses,   \* bound on queries that give no sample
  MaxCrashes   \* bound on restarts of the evaluator's process

States == {"normal", "pending", "firing", "resolved", "disabled"}

ASSUME ConstantsAssumption ==
  /\ Backends \subseteq {"sqlite", "postgres"}
  /\ MaxAge \in Nat
  /\ Fors \subseteq 0 .. MaxAge
  /\ None \notin Int /\ None \notin States
  /\ {MaxEdits, MaxFlips, MaxMisses, MaxCrashes} \subseteq Nat

VARIABLES
  backend,     \* the store of this deployment; never changes
  rule,        \* the rule's row
  deleted,     \* the row has been deleted
  writes,      \* user updates on postgres that have read the row and not yet written it
  tick,        \* the evaluator's tickRule in flight: pc, fresh, next and the row it will write
  armed,       \* the evaluator holds a timer for the rule
  pulls,       \* refreshSchedule calls on postgres that have read and not yet applied
  breach,      \* the metric satisfies the rule's condition
  announced,   \* history: alert.fired events handed to the bus, or lost with it or a crash
  held,        \* history (sqlite): age of the first of the unbroken run of true samples
  budget       \* what is left of each bound

store == << backend, rule, deleted, writes >>
schedule == << armed, pulls >>
history == << held >>
vars == << store, tick, schedule, breach, announced, history, budget >>

Age == (0 .. MaxAge) \union {None}

\* dur is condition.forDurationSec.
Row == [state : States, since : Age, fires : Nat, dur : Fors]

Steps == {"idle", "query", "stamp", "stampWrite", "act", "merge", "transWrite", "publish"}

Active == ~deleted /\ rule.state # "disabled"

Older(a) == IF a = None \/ a = MaxAge THEN a ELSE a + 1
OlderRow(r) == IF r = None THEN r ELSE [r EXCEPT !.since = Older(@)]

Spend(what) == budget[what] > 0 /\ budget' = [budget EXCEPT ![what] = @ - 1]

-----------------------------------------------------------------------------
(* What one sample does to a rule, and what a transition writes.           *)

DecideOnTrueForgetsResolved(r) ==   \* mutant
  CASE r.state \in {"firing", "resolved"} -> None
    [] r.state = "pending" -> IF r.since # None /\ r.since >= r.dur THEN "firing" ELSE None
    [] OTHER               -> IF r.dur = 0 THEN "firing" ELSE "pending"

DecideOnTrue(r) ==
  CASE r.state = "firing"  -> None
    [] r.state = "pending" -> IF r.since # None /\ r.since >= r.dur THEN "firing" ELSE None
    [] OTHER               -> IF r.dur = 0 THEN "firing" ELSE "pending"

DecideOnFalseKeepsPending(r) == IF r.state = "firing" THEN "resolved" ELSE None   \* mutant

DecideOnFalseInactive(r) ==   \* mutant
  CASE r.state = "firing"  -> "resolved"
    [] r.state = "pending" -> "inactive"
    [] OTHER               -> None

DecideOnFalse(r) ==
  CASE r.state = "firing"  -> "resolved"
    [] r.state = "pending" -> "normal"
    [] OTHER               -> None

decideTransition(r, predicateTrue) ==
  IF r.state = "disabled" THEN None
  ELSE IF predicateTrue THEN DecideOnTrue(r) ELSE DecideOnFalse(r)

PatchedWithoutSince(existing, fireCount, next) ==   \* mutant
  [state |-> next,
   since |-> None,
   fires |-> IF next = "firing" THEN fireCount + 1 ELSE existing.fires,
   dur   |-> existing.dur]

\* transition()'s patch merged by update() into the row update() has read; the
\* fire count is the one transition() had read before.
Patched(existing, fireCount, next) ==
  [state |-> next,
   since |-> IF next = "pending" THEN 0 ELSE None,
   fires |-> IF next = "firing" THEN fireCount + 1 ELSE existing.fires,
   dur   |-> existing.dur]

-----------------------------------------------------------------------------
Idle == [pc |-> "idle", fresh |-> None, next |-> None, row |-> None]

At(pc) == tick.pc = pc
Goto(pc, row) == tick' = [tick EXCEPT !.pc = pc, !.row = row]

AnnouncesAnyway(next) ==   \* mutant
  tick' = IF next = "firing" THEN [Idle EXCEPT !.pc = "publish"] ELSE Idle

\* transition() has returned: the tick announces a firing of a rule that still exists.
Announces(next) ==
  tick' = IF next = "firing" /\ ~deleted THEN [Idle EXCEPT !.pc = "publish"] ELSE Idle

Init ==
  /\ backend \in Backends
  /\ rule \in [state : {"normal"}, since : {None}, fires : {0}, dur : Fors]
  /\ deleted = FALSE /\ writes = {}
  /\ tick = Idle
  /\ armed = FALSE /\ pulls = {}
  /\ breach \in BOOLEAN
  /\ announced = 0
  /\ held = None
  /\ budget = [edits |-> MaxEdits, flips |-> MaxFlips, misses |-> MaxMisses, crashes |-> MaxCrashes]

(***************************************************************************)
(* refreshSchedule: read the rules, then set or drop the rule's timer.     *)
(***************************************************************************)
ScheduleKept(active) == armed' = (armed \/ active)   \* mutant
Schedule(active) == armed' = active

RefreshSchedule ==
  /\ backend = "sqlite"
  /\ Schedule(Active)
  /\ UNCHANGED << store, tick, pulls, breach, announced, history, budget >>

RefreshRead ==
  /\ backend = "postgres"
  /\ pulls' = pulls \union {Active}
  /\ UNCHANGED << store, tick, armed, breach, announced, history, budget >>

RefreshApply(active) ==
  /\ active \in pulls
  /\ pulls' = pulls \ {active}
  /\ Schedule(active)
  /\ UNCHANGED << store, tick, breach, announced, history, budget >>

(***************************************************************************)
(* tickRule.  The timer fires with no tick of the rule in flight; a rule   *)
(* that is disabled or gone by now ends it at once.                        *)
(***************************************************************************)
TickBegin ==
  /\ armed /\ At("idle") /\ Active
  /\ tick' = [Idle EXCEPT !.pc = "query", !.fresh = rule]
  /\ UNCHANGED << store, schedule, breach, announced, history, budget >>

\* No connector, no series, not a number, or the query failed.
TickNoSample ==
  /\ At("query") /\ Spend("misses")
  /\ tick' = Idle
  /\ UNCHANGED << store, schedule, breach, announced, history >>

Run(age) == IF ~breach THEN None ELSE IF age = None THEN 0 ELSE age

\* On sqlite the stamp of lastEvaluatedAt, the decision and the transition
\* follow the sample in the same turn.
TickSample ==
  /\ At("query") /\ backend = "sqlite"
  /\ LET next == decideTransition(tick.fresh, breach)
         moves == next # None /\ ~deleted /\ rule.state # next
     IN /\ rule' = IF moves THEN Patched(rule, rule.fires, next) ELSE rule
        /\ Announces(next)
  /\ held' = Run(held)
  /\ UNCHANGED << backend, deleted, writes, schedule, breach, announced, budget >>

TickSamplePg ==
  /\ At("query") /\ backend = "postgres"
  /\ tick' = [Idle EXCEPT !.pc = "stamp", !.next = decideTransition(tick.fresh, breach)]
  /\ UNCHANGED << store, schedule, breach, announced, history, budget >>

\* update(lastEvaluatedAt) reads the row ...
StampRead ==
  /\ At("stamp")
  /\ Goto("stampWrite", rule)
  /\ UNCHANGED << store, schedule, breach, announced, history, budget >>

\* ... and writes all of it back.
StampWrite ==
  /\ At("stampWrite")
  /\ rule' = IF deleted THEN rule ELSE tick.row
  /\ IF tick.next = None THEN tick' = Idle ELSE Goto("act", None)
  /\ UNCHANGED << backend, deleted, writes, schedule, breach, announced, history, budget >>

\* transition() reads the row; one that is there already is left alone.
TransitionRead ==
  /\ At("act")
  /\ IF deleted \/ rule.state = tick.next THEN Announces(tick.next) ELSE Goto("merge", rule)
  /\ UNCHANGED << store, schedule, breach, announced, history, budget >>

\* It appends the history row, then update() reads the row once more ...
TransitionMerge ==
  /\ At("merge")
  /\ IF deleted THEN tick' = Idle
     ELSE Goto("transWrite", Patched(rule, tick.row.fires, tick.next))
  /\ UNCHANGED << store, schedule, breach, announced, history, budget >>

\* ... writes all of it and reads it back.
TransitionWrite ==
  /\ At("transWrite")
  /\ rule' = IF deleted THEN rule ELSE tick.row
  /\ Announces(tick.next)
  /\ UNCHANGED << backend, deleted, writes, schedule, breach, announced, history, budget >>

\* The bus takes the event, or rejects it and the tick throws: there is no retry.
Publish ==
  /\ At("publish")
  /\ tick' = Idle
  /\ announced' = announced + 1
  /\ UNCHANGED << store, schedule, breach, history, budget >>

\* The process dies with its timers and its tick; a new one starts with none.
Crash ==
  /\ Spend("crashes")
  /\ tick' = Idle /\ armed' = FALSE /\ pulls' = {}
  /\ announced' = IF At("publish") THEN announced + 1 ELSE announced
  /\ UNCHANGED << store, breach, history >>

(***************************************************************************)
(* Users.  PUT and the agent's tool edit the condition; /disable, /enable  *)
(* set the state alone.                                                    *)
(***************************************************************************)
UserUpdate(row) ==
  /\ ~deleted /\ Spend("edits")
  /\ IF backend = "sqlite"
     THEN rule' = row /\ writes' = writes
     ELSE rule' = rule /\ writes' = writes \union {[op |-> budget.edits, row |-> row]}
  /\ UNCHANGED << backend, deleted, tick, schedule, breach, announced, history >>

Disable == UserUpdate([rule EXCEPT !.state = "disabled"])
Enable == UserUpdate([rule EXCEPT !.state = "normal"])
EditCondition(dur) == UserUpdate([rule EXCEPT !.dur = dur])

UserWrite(w) ==
  /\ w \in writes
  /\ writes' = writes \ {w}
  /\ rule' = IF deleted THEN rule ELSE w.row
  /\ UNCHANGED << backend, deleted, tick, schedule, breach, announced, history, budget >>

Delete ==
  /\ ~deleted /\ Spend("edits")
  /\ deleted' = TRUE
  /\ UNCHANGED << backend, rule, writes, tick, schedule, breach, announced, history >>

(***************************************************************************)
(* The world: the metric changes, time passes.                             *)
(***************************************************************************)
MetricFlips ==
  /\ Spend("flips")
  /\ breach' = ~breach
  /\ UNCHANGED << store, tick, schedule, announced, history >>

TimePasses ==
  /\ rule' = OlderRow(rule)
  /\ writes' = {[w EXCEPT !.row = OlderRow(@)] : w \in writes}
  /\ tick' = [tick EXCEPT !.fresh = OlderRow(@), !.row = OlderRow(@)]
  /\ held' = Older(held)
  /\ UNCHANGED << backend, deleted, schedule, breach, announced, budget >>

Tick == \/ TickBegin \/ TickNoSample \/ TickSample \/ TickSamplePg
        \/ StampRead \/ StampWrite
        \/ TransitionRead \/ TransitionMerge \/ TransitionWrite
        \/ Publish

User == \/ Disable \/ Enable \/ Delete
        \/ \E dur \in Fors : EditCondition(dur)

Next ==
  \/ RefreshSchedule \/ RefreshRead \/ \E b \in BOOLEAN : RefreshApply(b)
  \/ Tick \/ Crash
  \/ User \/ \E w \in writes : UserWrite(w)
  \/ MetricFlips \/ TimePasses

Spec == Init /\ [][Next]_vars

-----------------------------------------------------------------------------
\* Every variable has its type: in particular a rule is only ever in a state of
\* the five, whatever decideTransition answers and whoever writes the row.
TypeOK ==
  /\ backend \in Backends
  /\ rule \in Row /\ deleted \in BOOLEAN
  /\ writes \subseteq [op : Nat, row : Row]
  /\ tick \in [pc : Steps, fresh : Row \union {None},
               next : States \union {None}, row : Row \union {None}]
  /\ armed \in BOOLEAN /\ pulls \subseteq BOOLEAN /\ breach \in BOOLEAN
  /\ announced \in Nat
  /\ held \in Age
  /\ budget \in [{"edits", "flips", "misses", "crashes"} -> Nat]

\* A pending rule always has the time it became pending (transition() sets both,
\* every update() writes both): decideTransition leaves a pending rule without
\* one pending for ever.  Rows still to be written count too, whoever merged
\* them and however stale they are.
PendingHasSince ==
  \A r \in {rule} \union {w.row : w \in writes}
              \union {x \in {tick.fresh, tick.row} : x # None} :
    r.state = "pending" => r.since # None

Publishing == IF At("publish") THEN 1 ELSE 0

\* On sqlite every firing the row counts is announced once: handed to the bus,
\* about to be, or lost to a bus error or a crash, and nothing is announced that
\* the row does not count (tickRule's `next === 'firing' && updated`), with the
\* rule edited, disabled or deleted while the query is out.
FiringsAnnouncedOnce ==
  backend = "sqlite" => rule.fires = announced + Publishing

Fires == rule.state # "firing" /\ rule'.state = "firing"

\* On sqlite a rule fires only when every sample of the last forDurationSec, as
\* the tick read it, was true: a false one in between puts the window back to
\* its start, across disabling, enabling and editing the rule.
FiresAfterWindow ==
  [][backend = "sqlite" /\ Fires => held' # None /\ held' >= tick.fresh.dur]_vars

\* The rule follows its metric: once it stays enabled and the metric settles, it
\* comes to fire for good, or to stop firing for good, whatever stale rows users
\* and the evaluator wrote over each other, and whatever a restart lost, before.
RuleFollowsMetric ==
  /\ <>[](Active /\ breach) => <>[](rule.state = "firing")
  /\ <>[](Active /\ ~breach) => <>[](rule.state \in {"normal", "resolved"})

\* The timers follow the rule (refreshSchedule): one that stays enabled has its
\* timer for good, one that stays disabled or is deleted has none.
TimerFollowsRule ==
  /\ <>[]Active => <>[]armed
  /\ <>[]~Active => <>[]~armed

\* tickRule's comment: the fresh copy is fetched so that a concurrent disable is
\* not stomped.  Only a user's own update takes a rule out of "disabled".
DisabledStaysDisabled ==
  [][rule.state = "disabled" /\ rule'.state # "disabled" => UNCHANGED tick]_vars

(***************************************************************************)
(* Fairness.  setInterval fires and Node runs ready continuations; the     *)
(* periodic safety net pulls the rules again; the adapter's query and the  *)
(* database answer or fail.                                                *)
(***************************************************************************)
Fairness ==
  /\ WF_vars(RefreshSchedule)
  /\ WF_vars(RefreshRead)
  /\ \A b \in BOOLEAN : WF_vars(RefreshApply(b))
  /\ WF_vars(Tick)
  /\ WF_vars(\E w \in writes : UserWrite(w))
  /\ WF_vars(TimePasses)

FairSpec == Spec /\ Fairness

=============================================================================
