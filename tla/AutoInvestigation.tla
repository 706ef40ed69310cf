-------------------------- MODULE AutoInvestigation --------------------------
(***************************************************************************)
(* The investigations of one alert rule.  A fired alert, or a user's click *)
(* on Investigate, starts an agent in the background; the rule carries a   *)
(* start marker meanwhile, and afterwards the id of the report's row or    *)
(* the fact that there was none.  A sweep per process repairs what a crash *)
(* or a hung agent left behind.                                            *)
(*                                                                         *)
(* A handler's action is one statement, or what it does between two        *)
(* awaits.  With "postgres" every statement is a yield point; with         *)
(* "sqlite" the driver is synchronous and a handler keeps the event loop   *)
(* (`loop') until it waits for its agent.  A statement, a due timer and a  *)
(* sweep's statements take less than a tick of the clock.                  *)
(*                                                                         *)
(* Abstracted: the question, the report and the agent's work (it saves one *)
(* report or none, and may outlive its handler), who clicked, and the bus  *)
(* (an event reaches a process at any time, or is lost with it).  Times    *)
(* are ages in ticks, from 0 to MaxAge.                                    *)
(***************************************************************************)
EXTENDS Integers, FiniteSets

CONSTANTS
  Replica,     \* the api-gateway processes
  None,        \* no marker, no snapshot, a free event loop
  Backends,    \* the stores considered: "sqlite", "postgres"
  Cooldown,    \* cooldownMs, in ticks
  Timeout,     \* agentRunTimeoutMs and manualInvestigationTimeoutMs
  Stale,       \* staleRunningMs
  MaxRuns,     \* bound: events and clicks
  MaxUpsets    \* bound, by store: crashes, failing statements, other writes of the row

MaxAge == Stale + 1
Run == 1..MaxRuns

ASSUME ConstantsAssumption ==
  /\ Backends \subseteq {"sqlite", "postgres"}
  /\ Cooldown \in Nat /\ Timeout \in Nat /\ Stale \in Nat
  /\ Cooldown < Stale /\ Timeout < Stale
  /\ MaxRuns \in Nat /\ MaxUpsets \in [Backends -> Nat]
  /\ None \notin Replica \cup Run \cup 0..MaxAge
  /\ Replica \cap Run = {}

VARIABLES
  backend,   \* the store of this deployment
  rule,      \* the rule's row: its investigation columns
  row,       \* the investigation row of every run's session
  rowAge,    \* the age of its updatedAt
  kind,      \* who started a run: an event ("auto") or a click ("manual")
  home,      \* the process that handles a run
  agent,     \* the agent of every run
  age,       \* the age of the run's timer
  pc,        \* where every handler and every process's sweep is
  loc,       \* their local variables
  other,     \* the row as another writer of the rule read it, or None
  loop,      \* who holds the event loop (sqlite), or None
  budget     \* upsets left, and whether a statement or a process has failed

vars == <<backend, rule, row, rowAge, kind, home, agent, age, pc, loc, other, loop, budget>>

Age == 0..MaxAge
RuleRow == [exists : BOOLEAN, inv : 0..MaxRuns, marker : Age \cup {None}, failed : BOOLEAN]
NoRow == [exists |-> TRUE, inv |-> 0, marker |-> None, failed |-> FALSE]

\* An agent without a row works; one with a row has yet to save its report, has
\* seen that fail and may try again, or has saved it.
RowStatus == {"none", "running", "completed", "failed", "deleted"}
AgentStatus == {"none", "work", "saved", "retry", "reported", "ok", "error"}
RunLabel == {"idle", "checkRow", "failStale", "identity", "mark", "markWrite", "agent",
             "lookup", "force", "link", "linkWrite", "clear", "clearWrite",
             "done"}
SweepLabel == {"up", "swept", "down", "rules", "unmark", "unmarkWrite", "rows", "fail"}

\* Locals: the rule's row as last read, the rows a sweep has yet to fail, and a
\* flag (a handler's: its agent returned; a sweep's: it is the one at startup).
Local == [seen : RuleRow, todo : SUBSET Run, flag : BOOLEAN]
NoLocal == [seen |-> NoRow, todo |-> {}, flag |-> FALSE]

TypeOK ==
  /\ backend \in Backends
  /\ rule \in RuleRow
  /\ row \in [Run -> RowStatus]
  /\ rowAge \in [Run -> Age]
  /\ kind \in [Run -> {"auto", "manual"}]
  /\ home \in [Run -> Replica \cup {None}]
  /\ agent \in [Run -> AgentStatus]
  /\ age \in [Run -> Age]
  /\ \A t \in Run : pc[t] \in RunLabel
  /\ \A r \in Replica : pc[r] \in SweepLabel
  /\ loc \in [Run \cup Replica -> Local]
  /\ other \in RuleRow \cup {None}
  /\ loop \in Run \cup Replica \cup {None}
  /\ budget \in [upsets : Nat, faulted : BOOLEAN]
  /\ rule.inv # 0 => row[rule.inv] # "none"

Init ==
  /\ backend \in Backends
  /\ rule = NoRow
  /\ row = [t \in Run |-> "none"]
  /\ rowAge = [t \in Run |-> 0]
  /\ kind = [t \in Run |-> "auto"]
  /\ home = [t \in Run |-> None]
  /\ agent = [t \in Run |-> "none"]
  /\ age = [t \in Run |-> 0]
  /\ pc = [p \in Run \cup Replica |-> IF p \in Run THEN "idle" ELSE "up"]
  /\ loc = [p \in Run \cup Replica |-> NoLocal]
  /\ other = None
  /\ loop = None
  /\ budget = [upsets |-> MaxUpsets[backend], faulted |-> FALSE]

-----------------------------------------------------------------------------
(* The event loop and the stores.                                          *)

Waiting == {"idle", "agent", "done", "up", "swept", "down"}
At(p, label) == pc[p] = label /\ loop \in {None, p}
Go(p, label) ==
  /\ pc' = [pc EXCEPT ![p] = label]
  /\ loop' = IF backend = "sqlite" /\ label \notin Waiting THEN p ELSE None

Upset(fault) ==
  /\ budget.upsets > 0
  /\ budget' = [upsets |-> budget.upsets - 1, faulted |-> budget.faulted \/ fault]
See(p) == loc' = [loc EXCEPT ![p].seen = rule]
Forget(p) == loc' = [loc EXCEPT ![p].seen = NoRow]

\* alertRules.update(): every column is written, the ones the patch does not
\* name as they were read; a row deleted meanwhile is not written.
Write(merged) == rule' = IF rule.exists THEN merged ELSE rule
Started(r) == [r EXCEPT !.inv = 0, !.marker = 0, !.failed = FALSE]
Unmarked(r) == [r EXCEPT !.marker = None, !.failed = TRUE]
LinkedTo(r, t) == [r EXCEPT !.inv = t, !.marker = None, !.failed = FALSE]

\* investigations.updateStatus(), which refreshes updatedAt of a row that exists.
Exists(t) == row[t] \notin {"none", "deleted"}
SetStatus(t, status) ==
  /\ row' = [row EXCEPT ![t] = IF @ = "deleted" THEN @ ELSE status]
  /\ rowAge' = [rowAge EXCEPT ![t] = 0]

\* isStaleAutoAlertInvestigation(): only rows of auto-alert sessions.
StaleRow(t) == kind[t] = "auto" /\ row[t] = "running" /\ rowAge[t] > Stale

UNCHANGED_RUNS == UNCHANGED <<row, rowAge, kind, home, agent, age>>

-----------------------------------------------------------------------------
(* onAlertFired(): the dedup check.                                        *)

\* Runs start in order, so the next one is the first that is idle.
IsNext(t) == pc[t] = "idle" /\ \A u \in Run : pc[u] = "idle" => t <= u

\* The next run is handled by process r, which reads the rule first.
Begin(t, k, r) ==
  /\ IsNext(t) /\ loop = None
  /\ pc[r] # "down"
  /\ kind' = [kind EXCEPT ![t] = k]
  /\ home' = [home EXCEPT ![t] = r]
  /\ UNCHANGED <<backend, rule, row, rowAge, agent, age, other, budget>>

\* Where shouldRun() goes once it has read the rule: "done" is a dedup.
VerdictOnRule ==
  CASE ~rule.exists -> "identity"
    [] rule.exists /\ rule.inv # 0 -> "checkRow"
    [] rule.exists /\ rule.inv = 0 ->
         IF rule.marker # None /\ rule.marker <= Stale THEN "done" ELSE "identity"

Fire(t, r) ==
  /\ Begin(t, "auto", r)
  /\ Go(t, VerdictOnRule)
  /\ IF VerdictOnRule = "checkRow" THEN See(t) ELSE UNCHANGED loc

\* ... and once it has read the linked investigation u.
VerdictOnRowNoCooldown(u) ==   \* mutant
  IF row[u] = "running" THEN IF StaleRow(u) THEN "failStale" ELSE "done" ELSE "identity"
VerdictOnRow(u) ==
  CASE ~Exists(u) -> "identity"
    [] row[u] = "running" -> IF StaleRow(u) THEN "failStale" ELSE "done"
    [] OTHER -> IF rowAge[u] > Cooldown THEN "identity" ELSE "done"

CheckRow(t) ==
  /\ At(t, "checkRow")
  /\ LET verdict == VerdictOnRow(loc[t].seen.inv)
     IN Go(t, verdict) /\ IF verdict = "failStale" THEN UNCHANGED loc ELSE Forget(t)
  /\ UNCHANGED <<backend, rule, other, budget>> /\ UNCHANGED_RUNS

FailStale(t) ==
  /\ At(t, "failStale")
  /\ SetStatus(loc[t].seen.inv, "failed")
  /\ Go(t, "identity")
  /\ Forget(t)
  /\ UNCHANGED <<backend, rule, kind, home, agent, age, other, budget>>

\* resolveSaIdentity(): without a service account nothing is investigated.
Identify(t) ==
  /\ At(t, "identity")
  /\ \E label \in {"mark", "done"} : Go(t, label)
  /\ UNCHANGED <<backend, rule, loc, other, budget>> /\ UNCHANGED_RUNS

(* POST /:id/investigate, with or without force.                           *)

Click(t, r) ==
  /\ Begin(t, "manual", r)
  /\ \E force \in BOOLEAN :
       Go(t, IF rule.exists /\ (rule.inv = 0 \/ force) THEN "mark" ELSE "done")
  /\ UNCHANGED loc

(* Both: the start marker, the agent, and its timer.                       *)

MarkRead(t) ==
  /\ At(t, "mark")
  /\ See(t)
  /\ Go(t, "markWrite")
  /\ UNCHANGED <<backend, rule, other, budget>> /\ UNCHANGED_RUNS

\* The agent is spawned, and its timer set.
Spawn(t) ==
  /\ agent' = [agent EXCEPT ![t] = "work"]
  /\ age' = [age EXCEPT ![t] = 0]
  /\ Go(t, "agent")
  /\ Forget(t)
  /\ UNCHANGED <<backend, row, rowAge, kind, home, other>>

MarkWrite(t) ==
  /\ At(t, "markWrite")
  /\ Write(Started(loc[t].seen))
  /\ Spawn(t)
  /\ UNCHANGED budget

\* A consumer that cannot set the marker goes on without it.
MarkThrow(t) ==
  /\ pc[t] \in {"mark", "markWrite"} /\ loop \in {None, t}
  /\ kind[t] = "auto"
  /\ Upset(TRUE)
  /\ Spawn(t)
  /\ UNCHANGED rule

\* The race of agent and timer is over; ok says that the agent returned.
AfterRace(t, ok) == IF kind[t] = "manual" /\ ~ok THEN "clear" ELSE "lookup"

Resume(t, ok) ==
  /\ loc' = [loc EXCEPT ![t].flag = ok]
  /\ Go(t, AfterRace(t, ok))
  /\ age' = [age EXCEPT ![t] = 0]
  /\ agent' = [agent EXCEPT ![t] = IF @ \in {"ok", "error"} THEN "none" ELSE @]
  /\ UNCHANGED <<backend, rule, row, rowAge, kind, home, other, budget>>

AgentReturned(t) ==
  /\ At(t, "agent")
  /\ agent[t] \in {"ok", "error"}
  /\ Resume(t, agent[t] = "ok")

TimedOut(t) ==
  /\ At(t, "agent")
  /\ agent[t] \notin {"ok", "error", "saved"} \/ backend = "postgres"
  /\ age[t] >= Timeout
  /\ Resume(t, FALSE)

-----------------------------------------------------------------------------
(* The agent's investigation_complete: the row, the report, the status.    *)
(* Nobody hears of the end of an agent whose handler has timed out.        *)

AgentSave(t) ==
  /\ agent[t] = "work" /\ loop = None
  /\ agent' = [agent EXCEPT ![t] = "saved"]
  /\ SetStatus(t, "running")
  /\ loop' = IF backend = "sqlite" THEN t ELSE None
  /\ UNCHANGED <<backend, rule, kind, home, age, pc, loc, other, budget>>

\* The report is saved and the status set, whatever it was.  A status that cannot
\* be set is passed over; a report that cannot be saved fails the tool, and the
\* agent, whose investigation is still open, is asked to complete it again.
AgentReport(t) ==
  /\ agent[t] = "saved" /\ loop \in {None, t}
  /\ \/ /\ SetStatus(t, "completed") /\ UNCHANGED budget
        /\ agent' = [agent EXCEPT ![t] = "reported"]
     \/ /\ Upset(TRUE) /\ UNCHANGED <<row, rowAge>>
        /\ \E next \in {"reported", "retry"} : agent' = [agent EXCEPT ![t] = next]
  /\ loop' = None
  /\ UNCHANGED <<backend, rule, kind, home, age, pc, loc, other>>

\* It calls investigation_complete again, which finds its row.
AgentRetry(t) ==
  /\ agent[t] = "retry" /\ loop = None
  /\ Exists(t)
  /\ agent' = [agent EXCEPT ![t] = "saved"]
  /\ loop' = IF backend = "sqlite" THEN t ELSE None
  /\ UNCHANGED <<backend, rule, row, rowAge, kind, home, age, pc, loc, other, budget>>

AgentEnd(t) ==
  /\ agent[t] \in {"work", "retry", "reported"} /\ loop = None
  /\ \E end \in {"ok", "error"} :
       agent' = [agent EXCEPT ![t] = IF pc[t] = "agent" THEN end ELSE "none"]
  /\ UNCHANGED <<backend, rule, row, rowAge, kind, home, age, pc, loc, other, loop, budget>>

-----------------------------------------------------------------------------
(* finalizeInvestigation(), and what the route does instead.               *)

\* The row of the session decides; a manual run links it whatever its status.
LookupVerdictBlind(t) ==   \* mutant: `terminal' is not looked at
  IF ~Exists(t) THEN "clear" ELSE IF kind[t] = "auto" THEN "force" ELSE "link"
LookupVerdictNoRow(t) ==   \* mutant: the missing row is linked
  IF row[t] = "running" /\ kind[t] = "auto" THEN "force" ELSE "link"
LookupVerdict(t) ==
  CASE ~Exists(t) -> "clear"
    [] row[t] = "running" /\ kind[t] = "auto" -> "force"
    [] OTHER -> "link"

Lookup(t) ==
  /\ At(t, "lookup")
  /\ Go(t, LookupVerdict(t))
  /\ UNCHANGED <<backend, rule, loc, other, budget>> /\ UNCHANGED_RUNS

ForceStatus(t) ==
  /\ At(t, "force")
  /\ SetStatus(t, IF loc[t].flag THEN "completed" ELSE "failed")
  /\ Go(t, "link")
  /\ UNCHANGED <<backend, rule, kind, home, agent, age, loc, other, budget>>

FinishRead(t) ==
  /\ \/ At(t, "link") /\ Go(t, "linkWrite")
     \/ At(t, "clear") /\ Go(t, "clearWrite")
  /\ See(t)
  /\ UNCHANGED <<backend, rule, other, budget>> /\ UNCHANGED_RUNS

LinkWrite(t) ==
  /\ At(t, "linkWrite")
  /\ Write(LinkedTo(loc[t].seen, t))
  /\ Go(t, "done")
  /\ Forget(t)
  /\ UNCHANGED <<backend, other, budget>> /\ UNCHANGED_RUNS

ClearWrite(t) ==
  /\ At(t, "clearWrite")
  /\ Write(Unmarked(loc[t].seen))
  /\ Go(t, "done")
  /\ Forget(t)
  /\ UNCHANGED <<backend, other, budget>> /\ UNCHANGED_RUNS

\* Where a handler goes when its statement throws.
AfterThrow(t) ==
  LET auto == [failStale |-> "identity", force |-> "link"]
      manual == [lookup |-> "clear", link |-> "clear", linkWrite |-> "clear"]
      caught == IF kind[t] = "auto" THEN auto ELSE manual
  IN IF pc[t] \in DOMAIN caught THEN caught[pc[t]] ELSE "done"

Throw(t) ==
  /\ pc[t] \notin Waiting /\ loop \in {None, t}
  /\ ~(kind[t] = "auto" /\ pc[t] \in {"mark", "markWrite"})
  /\ Upset(TRUE)
  /\ Go(t, AfterThrow(t))
  /\ Forget(t)
  /\ UNCHANGED <<backend, rule, other>> /\ UNCHANGED_RUNS

-----------------------------------------------------------------------------
(* The sweep of a process: at startup the marker, then stale rows; on its  *)
(* timer, once a tick, stale rows, then a stale marker.                    *)

AfterRules(r) == IF loc[r].flag THEN "rows" ELSE "swept"
AfterRows(r) == IF loc[r].flag THEN "up" ELSE "rules"

\* A marker is interrupted at startup, and otherwise stale.
NeedsUnmarkAtBoot(r) ==   \* mutant: no marker is ever stale
  rule.exists /\ rule.inv = 0 /\ rule.marker # None /\ loc[r].flag
NeedsUnmark(r) ==
  /\ rule.exists /\ rule.inv = 0 /\ rule.marker # None
  /\ loc[r].flag \/ rule.marker > Stale

SweepRules(r) ==
  /\ \/ At(r, "rules") /\ Go(r, IF NeedsUnmark(r) THEN "unmark" ELSE AfterRules(r)) /\ UNCHANGED loc
     \/ At(r, "unmark") /\ Go(r, "unmarkWrite") /\ See(r)
  /\ UNCHANGED <<backend, rule, other, budget>> /\ UNCHANGED_RUNS

UnmarkWrite(r) ==
  /\ At(r, "unmarkWrite")
  /\ Write(Unmarked(loc[r].seen))
  /\ Go(r, AfterRules(r))
  /\ Forget(r)
  /\ UNCHANGED <<backend, other, budget>> /\ UNCHANGED_RUNS

\* To the first of the rows still to fail, or on.
GoFail(r, todo) ==
  /\ Go(r, IF todo = {} THEN AfterRows(r) ELSE "fail")
  /\ loc' = [loc EXCEPT ![r].todo = todo, ![r].flag = @ /\ todo # {}]

SweepRows(r) ==
  /\ At(r, "up") \/ At(r, "rows")
  /\ GoFail(r, {t \in Run : StaleRow(t)})
  /\ UNCHANGED <<backend, rule, other, budget>> /\ UNCHANGED_RUNS

FailRow(r) ==
  /\ At(r, "fail")
  /\ \E t \in loc[r].todo : SetStatus(t, "failed") /\ GoFail(r, loc[r].todo \ {t})
  /\ UNCHANGED <<backend, rule, kind, home, agent, age, other, budget>>

\* A failing list ends the sweep, a failing update is passed over.
SweepThrow(r) ==
  /\ loop \in {None, r}
  /\ \/ pc[r] = "fail" /\ \E t \in loc[r].todo : GoFail(r, loc[r].todo \ {t})
     \/ pc[r] \in {"unmark", "unmarkWrite"} /\ Go(r, AfterRules(r)) /\ Forget(r)
     \/ pc[r] \in {"up", "rows", "rules"} /\ Go(r, "swept") /\ loc' = [loc EXCEPT ![r] = NoLocal]
  /\ Upset(TRUE)
  /\ UNCHANGED <<backend, rule, other>> /\ UNCHANGED_RUNS

-----------------------------------------------------------------------------
(* Other writers of the rule's row, crashes and the clock.                 *)

\* The evaluator or a user updates other columns of the row, and with them
\* writes the investigation columns as it read them.
OtherRead ==
  /\ backend = "postgres" /\ other = None /\ rule.exists
  /\ Upset(FALSE)
  /\ other' = rule
  /\ UNCHANGED <<backend, rule, pc, loc, loop>> /\ UNCHANGED_RUNS

OtherWrite ==
  /\ other # None
  /\ Write(other)
  /\ other' = None
  /\ UNCHANGED <<backend, pc, loc, loop, budget>> /\ UNCHANGED_RUNS

DeleteRule ==
  /\ loop = None /\ rule.exists
  /\ Upset(FALSE)
  /\ rule' = [NoRow EXCEPT !.exists = FALSE]
  /\ UNCHANGED <<backend, pc, loc, other, loop>> /\ UNCHANGED_RUNS

\* DELETE /investigations/:id; the rule keeps its link.
DeleteRow(t) ==
  /\ loop = None /\ Exists(t)
  /\ Upset(FALSE)
  /\ row' = [row EXCEPT ![t] = "deleted"]
  /\ rowAge' = [rowAge EXCEPT ![t] = 0]
  /\ UNCHANGED <<backend, rule, kind, home, agent, age, pc, loc, other, loop>>

Lost(r) == {t \in Run : home[t] = r}

Crash(r) ==
  /\ pc[r] # "down"
  /\ Upset(TRUE)
  /\ pc' = [p \in DOMAIN pc |-> IF p = r THEN "down" ELSE IF p \in Lost(r) THEN "done" ELSE pc[p]]
  /\ agent' = [t \in Run |-> IF t \in Lost(r) THEN "none" ELSE agent[t]]
  /\ loc' = [p \in DOMAIN loc |-> IF p \in Lost(r) \cup {r} THEN NoLocal ELSE loc[p]]
  /\ age' = [t \in Run |-> IF t \in Lost(r) THEN 0 ELSE age[t]]
  /\ loop' = None
  /\ UNCHANGED <<backend, rule, row, rowAge, kind, home, other>>

\* start(): subscribe, and sweep without waiting for it.
Restart(r) ==
  /\ pc[r] = "down" /\ loop = None
  /\ Go(r, "rules")
  /\ loc' = [loc EXCEPT ![r].flag = TRUE]
  /\ UNCHANGED <<backend, rule, other, budget>> /\ UNCHANGED_RUNS

\* Statements in flight, due timers and the sweep come before the next tick.
Quiet ==
  /\ loop = None /\ other = None
  /\ \A p \in Run \cup Replica : pc[p] \in Waiting \ {"up"}
  /\ \A t \in Run :
       /\ agent[t] # "saved"
       /\ pc[t] = "agent" => age[t] < Timeout /\ agent[t] \notin {"ok", "error"}

\* No reader tells ages beyond a limit apart; a finished row's is the cooldown.
Older(a, limit) == IF a <= limit THEN a + 1 ELSE a
Limit(t) == IF row[t] = "running" THEN Stale ELSE Cooldown

Tick ==
  /\ Quiet
  /\ rule' = [rule EXCEPT !.marker = IF @ = None THEN None ELSE Older(@, Stale)]
  /\ rowAge' = [t \in Run |-> IF ~Exists(t) THEN 0 ELSE Older(rowAge[t], Limit(t))]
  /\ age' = [t \in Run |-> IF pc[t] = "agent" THEN age[t] + 1 ELSE 0]
  /\ pc' = [p \in DOMAIN pc |-> IF pc[p] = "swept" THEN "up" ELSE pc[p]]
  /\ UNCHANGED <<backend, row, kind, home, agent, loc, other, loop, budget>>

-----------------------------------------------------------------------------
Handle(t) ==
  \/ CheckRow(t) \/ FailStale(t) \/ Identify(t) \/ MarkRead(t) \/ MarkWrite(t)
  \/ AgentReturned(t) \/ TimedOut(t)
  \/ Lookup(t) \/ ForceStatus(t) \/ FinishRead(t) \/ LinkWrite(t) \/ ClearWrite(t)

Agent(t) == AgentSave(t) \/ AgentReport(t) \/ AgentRetry(t) \/ AgentEnd(t)

Sweep(r) == SweepRules(r) \/ UnmarkWrite(r) \/ SweepRows(r) \/ FailRow(r)

Next ==
  \/ \E t \in Run : Handle(t) \/ Agent(t) \/ MarkThrow(t) \/ Throw(t) \/ DeleteRow(t)
  \/ \E t \in Run, r \in Replica : Fire(t, r) \/ Click(t, r)
  \/ \E r \in Replica : Sweep(r) \/ SweepThrow(r) \/ Crash(r) \/ Restart(r)
  \/ OtherRead \/ OtherWrite \/ DeleteRule \/ Tick

Spec == Init /\ [][Next]_vars

\* What goes on by itself: statements return, timers fire, the clock advances.
Proceed ==
  \/ \E t \in Run : Handle(t) \/ AgentReport(t)
  \/ \E r \in Replica : Sweep(r)
  \/ OtherWrite \/ Tick

\* A process that stopped is started again; an agent may hang.
FairSpec == Spec /\ WF_vars(Proceed) /\ \A r \in Replica : WF_vars(Restart(r))

-----------------------------------------------------------------------------
Faulted == budget.faulted
Manual == \E t \in Run : kind[t] = "manual"

\* The handler of run t has been started and has not let go of the rule.
InFlight(t) ==
  pc[t] \in {"agent", "lookup", "force", "link", "linkWrite", "clear", "clearWrite"}

\* What the Alerts page shows for the rule (classifyInvestigation()).
Indicator ==
  CASE ~rule.exists -> "idle"
    [] rule.exists /\ rule.inv # 0 ->
         CASE row[rule.inv] = "running" -> "in_progress"
           [] row[rule.inv] \in {"completed", "failed"} -> row[rule.inv]
           [] OTHER -> "idle"
    [] rule.exists /\ rule.inv = 0 ->
         IF rule.marker # None THEN "in_progress" ELSE IF rule.failed THEN "failed" ELSE "idle"

\* The alert does not show "Investigating..." for ever: finalization, the timer,
\* the sweep and the startup sweep see to it, whatever crashed, hung or failed.
\* (The status of a manual run's row, once its agent failed to set it, is
\* nobody's business: isStaleAutoAlertInvestigation() passes it over.)
InvestigatingEnds ==
  Indicator = "in_progress" ~>
    \/ Indicator # "in_progress"
    \/ rule.inv # 0 /\ kind[rule.inv] = "manual"

\* The agent of run u returned before its timer: its handler knows of its report.
InTime(u) == loc[u].flag

\* A report the cooldown counts from.
Counts(u) == Exists(u) /\ (InTime(u) \/ rule.inv = u)

\* In one process on sqlite the persistent check of shouldRun() deduplicates:
\* while the rule exists, nobody clicked and no statement failed, no event starts
\* an agent while another handler is at work, nor within the cooldown after the
\* report of an agent that returned in time, nor after any report the rule links.
\* (Not more: shouldRun() reads the marker and the linked row only.  An agent that
\* outlives its timer may still be at work when the next event starts another, and
\* the report it saves late, which nobody links, holds no event back.)
EventsAreDeduplicated ==
  [][ \A t \in Run :
        (agent[t] = "none" /\ agent'[t] = "work") =>
          \/ backend = "postgres" \/ Manual \/ Faulted \/ ~rule.exists
          \/ \A u \in Run \ {t} :
               ~InFlight(u) /\ (Counts(u) => rowAge[u] > Cooldown) ]_vars

\* Run t's row keeps the verdict it has until it is deleted, save for one thing: an
\* agent that could not save its report, and was asked to complete again, may turn
\* the "failed" of its timed-out handler, or of the sweep, into "completed".
KeepsVerdict(t) ==
  /\ row[t] = "completed" => row'[t] \in {"completed", "deleted"}
  /\ row[t] = "failed" =>
       \/ row'[t] \in {"failed", "deleted"}
       \/ Faulted /\ agent[t] = "saved" /\ agent'[t] = "reported" /\ row'[t] = "completed"

\* On sqlite a finished investigation keeps its verdict: no sweep, dedup check or
\* timeout relabels a row, and nobody but its own agent, after a failed save of the
\* report, changes what finalizeInvestigation() or the sweep decided.
VerdictIsFinal == [][ \A t \in Run : backend = "sqlite" => KeepsVerdict(t) ]_vars
=============================================================================
