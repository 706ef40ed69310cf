--------------------------- MODULE LeaderElection ---------------------------
(***************************************************************************)
(* The alert evaluators of several api-gateway processes that share one    *)
(* sqlite database, with ALERT_EVALUATOR_HA set: a lease in the row        *)
(* `alert_evaluator.leader' of _runtime_settings says who evaluates.       *)
(*                                                                         *)
(* The driver is synchronous, so a process does not interleave with itself *)
(* between the two statements of tryAcquire() or heartbeat(), but          *)
(* processes interleave with each other there, and a tick of a rule waits  *)
(* for its metric query.  A process may be paused (a blocked event loop, a *)
(* suspended machine, a database that refuses its heartbeats), stopped, or *)
(* crash.  A process that is not paused takes less than a tick of the      *)
(* clock for a statement and for a due timer.                              *)
(*                                                                         *)
(* Abstracted: one rule with forDurationSec = 0 (AlertEvaluation has the   *)
(* windows, edits and schedule), its state "normal" standing for resolved  *)
(* too.  The lease is kept as the time left; -1 is any time past expiry.   *)
(***************************************************************************)
EXTENDS Integers

CONSTANTS
  Replica,     \* the processes
  None,        \* no row: nobody holds the lease
  Gone,        \* the leaderId of a process that crashed: nobody has it any more
  Ttl,         \* ttlMs, in ticks
  Beat,        \* leaderHeartbeatMs, in ticks
  MaxFlips,    \* bound: changes of the metric
  MaxUpsets    \* bound: pauses, stops and crashes

ASSUME ConstantsAssumption ==
  /\ None \notin Replica /\ Gone \notin Replica /\ None # Gone
  /\ Ttl \in Nat /\ Beat \in Nat \ {0} /\ Beat <= Ttl
  /\ MaxFlips \in Nat /\ MaxUpsets \in Nat

VARIABLES
  holder,      \* the leaderId in the lock's row
  left,        \* its expiresAt, from now
  up,          \* what every process does
  isLeader,    \* every evaluator's isLeader; its rule timers are armed with it
  pc,          \* where every evaluator's tickLeader() is
  beat,        \* ticks since its last tickLeader()
  fresh,       \* the rule's state as an evaluation in flight read it
  rule,        \* the rule's state, and the announcements since it began to fire
  breach,      \* the metric breaches the rule's threshold
  budget,      \* flips and upsets left
  paused,      \* some process has been paused
  abandoned    \* an evaluator was stopped with an evaluation in flight

lease == <<holder, left>>
env == <<breach, budget>>
history == <<paused, abandoned>>
vars == <<lease, up, isLeader, pc, beat, fresh, rule, env, history>>

RuleState == {"normal", "firing"}

TypeOK ==
  /\ holder \in Replica \cup {None, Gone}
  /\ left \in -1..Ttl
  /\ up \in [Replica -> {"run", "paused", "stopped", "down"}]
  /\ isLeader \in [Replica -> BOOLEAN]
  /\ pc \in [Replica -> {"idle", "beatRead", "claimRead"}]
  /\ beat \in [Replica -> 0..Beat]
  /\ fresh \in [Replica -> RuleState \cup {"none"}]
  /\ rule \in [state : RuleState, told : Nat]
  /\ breach \in BOOLEAN
  /\ budget \in [flips : Nat, upsets : Nat]
  /\ paused \in BOOLEAN /\ abandoned \in BOOLEAN

\* start() makes an eager attempt: a new evaluator's timer is due.
Init ==
  /\ holder = None /\ left = 0
  /\ up = [r \in Replica |-> "run"]
  /\ isLeader = [r \in Replica |-> FALSE]
  /\ pc = [r \in Replica |-> "idle"]
  /\ beat = [r \in Replica |-> Beat]
  /\ fresh = [r \in Replica |-> "none"]
  /\ rule = [state |-> "normal", told |-> 0]
  /\ breach \in BOOLEAN
  /\ budget = [flips |-> MaxFlips, upsets |-> MaxUpsets]
  /\ paused = FALSE /\ abandoned = FALSE

-----------------------------------------------------------------------------
(* The statements of LeaderLock.                                           *)

TakeLate(r) == holder' = r /\ left' = Ttl + 1   \* mutant: expires a tick late
Take(r) == holder' = r /\ left' = Ttl

\* tryAcquire(): INSERT, or UPDATE of a row whose expiresAt is in the past.
ClaimableAlways == TRUE   \* mutant: an unexpired lease is stomped on
ClaimableNever == holder = None   \* mutant: an expired lease is not taken over
Claimable == holder = None \/ left < 0

Claim(r) == IF Claimable THEN Take(r) ELSE UNCHANGED lease

\* heartbeat(): UPDATE of the row that carries our leaderId.
RenewBlind(r) == Take(r)   \* mutant: whoever holds the lease
Renew(r) == IF holder = r THEN Take(r) ELSE UNCHANGED lease

\* release(): DELETE of the row that carries our leaderId.
Release(r) == IF holder = r THEN holder' = None /\ left' = 0 ELSE UNCHANGED lease

-----------------------------------------------------------------------------
(* tickLeader().                                                           *)

TickLeader(r) ==
  /\ up[r] = "run" /\ pc[r] = "idle" /\ beat[r] = Beat
  /\ beat' = [beat EXCEPT ![r] = 0]
  /\ \/ isLeader[r] /\ Renew(r) /\ pc' = [pc EXCEPT ![r] = "beatRead"]
     \/ ~isLeader[r] /\ Claim(r) /\ pc' = [pc EXCEPT ![r] = "claimRead"]
  /\ UNCHANGED <<up, isLeader, fresh, rule, env, history>>

\* The row is read back; who is not its holder has lost, or has not won.
ReadBack(r) ==
  /\ up[r] = "run" /\ pc[r] # "idle"
  /\ isLeader' = [isLeader EXCEPT ![r] = (holder = r)]
  /\ pc' = [pc EXCEPT ![r] = "idle"]
  /\ UNCHANGED <<lease, up, beat, fresh, rule, env, history>>

-----------------------------------------------------------------------------
(* tickRule() of the rule's timer.                                         *)

\* At most one evaluation of the rule is in flight in a process.  The rule has a
\* timer while its process leads.  (The timer itself asks only whether the process
\* runs, and a debounced refreshSchedule() may set it after leadership was lost;
\* leadership is lost only after a pause, which the properties of rule except.)
EvaluateStart(r) ==
  /\ up[r] = "run" /\ pc[r] = "idle" /\ isLeader[r] /\ fresh[r] = "none"
  /\ fresh' = [fresh EXCEPT ![r] = rule.state]
  /\ UNCHANGED <<lease, up, isLeader, pc, beat, rule, env, history>>

\* decideTransition() on the state read before the query.
DecideForgetsState(s) == IF breach THEN "firing" ELSE "normal"   \* mutant
Decide(s) ==
  CASE s = "normal" /\ breach -> "firing"
    [] s = "firing" /\ ~breach -> "normal"
    [] OTHER -> "none"

\* transition() to firing is announced even if the rule fires already.
Transitioned(next) ==
  CASE next = "firing" ->
         [state |-> "firing", told |-> IF rule.state = "firing" THEN rule.told + 1 ELSE 1]
    [] next = "normal" -> [state |-> "normal", told |-> 0]
    [] OTHER -> rule

\* The sample arrives; the evaluator does not ask again whether it leads or runs.
EvaluateEnd(r) ==
  /\ up[r] \in {"run", "stopped"} /\ pc[r] = "idle" /\ fresh[r] # "none"
  /\ rule' = Transitioned(Decide(fresh[r]))
  /\ fresh' = [fresh EXCEPT ![r] = "none"]
  /\ UNCHANGED <<lease, up, isLeader, pc, beat, env, history>>

-----------------------------------------------------------------------------
(* stop(), crashes, pauses, and the world.                                 *)

Upset == budget.upsets > 0 /\ budget' = [budget EXCEPT !.upsets = @ - 1]

Stop(r) ==
  /\ up[r] = "run" /\ pc[r] = "idle"
  /\ Upset
  /\ IF isLeader[r] THEN Release(r) ELSE UNCHANGED lease
  /\ up' = [up EXCEPT ![r] = "stopped"]
  /\ isLeader' = [isLeader EXCEPT ![r] = FALSE]
  /\ abandoned' = (abandoned \/ fresh[r] # "none")
  /\ UNCHANGED <<pc, beat, fresh, rule, breach, paused>>

\* The process is gone with what it kept in memory, its leaderId included.
Die(r) ==
  /\ up' = [up EXCEPT ![r] = "down"]
  /\ isLeader' = [isLeader EXCEPT ![r] = FALSE]
  /\ pc' = [pc EXCEPT ![r] = "idle"]
  /\ fresh' = [fresh EXCEPT ![r] = "none"]
  /\ holder' = IF holder = r THEN Gone ELSE holder
  /\ UNCHANGED <<left, beat, rule, breach, history>>

Crash(r) == up[r] \in {"run", "paused"} /\ Upset /\ Die(r)
Exit(r) == up[r] = "stopped" /\ Die(r) /\ UNCHANGED budget

Start(r) ==
  /\ up[r] = "down"
  /\ up' = [up EXCEPT ![r] = "run"]
  /\ beat' = [beat EXCEPT ![r] = Beat]
  /\ UNCHANGED <<lease, isLeader, pc, fresh, rule, env, history>>

Pause(r) ==
  /\ up[r] = "run"
  /\ Upset
  /\ up' = [up EXCEPT ![r] = "paused"]
  /\ paused' = TRUE
  /\ UNCHANGED <<lease, isLeader, pc, beat, fresh, rule, breach, abandoned>>

Resume(r) ==
  /\ up[r] = "paused"
  /\ up' = [up EXCEPT ![r] = "run"]
  /\ UNCHANGED <<lease, isLeader, pc, beat, fresh, rule, env, history>>

Flip ==
  /\ budget.flips > 0
  /\ budget' = [budget EXCEPT !.flips = @ - 1]
  /\ breach' = ~breach
  /\ UNCHANGED <<lease, up, isLeader, pc, beat, fresh, rule, history>>

\* The clock; a process that runs is done with its statements and due timers.
Tick ==
  /\ \A r \in Replica : up[r] = "run" => pc[r] = "idle" /\ beat[r] < Beat
  /\ left' = IF holder # None /\ left >= 0 THEN left - 1 ELSE left
  /\ beat' = [r \in Replica |-> IF beat[r] < Beat THEN beat[r] + 1 ELSE beat[r]]
  /\ UNCHANGED <<holder, up, isLeader, pc, fresh, rule, env, history>>

Next ==
  \/ \E r \in Replica :
       \/ TickLeader(r) \/ ReadBack(r) \/ EvaluateStart(r) \/ EvaluateEnd(r)
       \/ Stop(r) \/ Crash(r) \/ Exit(r) \/ Start(r) \/ Pause(r) \/ Resume(r)
  \/ Flip \/ Tick

Spec == Init /\ [][Next]_vars

\* Timers fire, statements return, the clock advances, pauses end, and a process
\* that is down is started again.
FairSpec ==
  /\ Spec
  /\ \A r \in Replica :
       /\ WF_vars(TickLeader(r)) /\ WF_vars(ReadBack(r))
       /\ WF_vars(Exit(r)) /\ WF_vars(Start(r)) /\ WF_vars(Resume(r))
  /\ WF_vars(Tick)

-----------------------------------------------------------------------------
\* While no process has ever been paused, two evaluators never lead at once, across
\* crashes, stops, takeovers and the expiry of the lease.  (After a pause nothing
\* tells a leader that its lease ran out before its next heartbeat does.)
OneLeader ==
  paused \/ \A r, s \in Replica : (isLeader[r] /\ isLeader[s]) => r = s

\* Then one firing of the rule is announced once, however leadership moves, unless
\* an evaluator was stopped with an evaluation in flight: its tick goes on.
FiringToldOnce == paused \/ abandoned \/ rule.told <= 1

\* A pause may leave two leaders; the one that lost the lease steps down at its
\* next heartbeat, which does not overwrite the other's row.
SplitBrain == \E r, s \in Replica : r # s /\ isLeader[r] /\ isLeader[s]
SplitBrainHeals == SplitBrain ~> ~SplitBrain

\* As long as a process runs, somebody comes to lead: the lease of a crashed or
\* paused leader runs out and is taken over.
LeadershipRecovers ==
  (\E r \in Replica : up[r] = "run") ~>
    \/ \E r \in Replica : up[r] = "run" /\ isLeader[r]
    \/ \A r \in Replica : up[r] # "run"
=============================================================================
