----------------------- MODULE LeaderElection_proofs -----------------------
(***************************************************************************)
(* What holds of LeaderElection for every set of processes, every lease    *)
(* and every heartbeat interval that is no longer than the lease.          *)
(***************************************************************************)
EXTENDS LeaderElection, TLAPS

\* Who holds the row runs, and leads or is about to find out; its lease has run
\* for no longer than the time since its last tickLeader().
HolderIsAlive ==
  \A r \in Replica :
    holder = r =>
      /\ up[r] = "run"
      /\ isLeader[r] \/ pc[r] = "claimRead"
      /\ left >= Ttl - beat[r]

LeaderHolds == \A r \in Replica : isLeader[r] => holder = r

\* An evaluation in flight is a leader's, and has read the rule's state.
EvaluationIsFresh ==
  \A r \in Replica : fresh[r] # "none" => isLeader[r] /\ fresh[r] = rule.state

ToldMatchesState == rule.told = IF rule.state = "firing" THEN 1 ELSE 0

LeaseInv == TypeOK /\ (paused \/ (HolderIsAlive /\ LeaderHolds))

IInv == LeaseInv /\ (paused \/ abandoned \/ (EvaluationIsFresh /\ ToldMatchesState))

-----------------------------------------------------------------------------
\* Every variable keeps its type: the row holds one leaderId or none, the lease
\* never outlasts ttlMs.
LEMMA TypeStep == TypeOK /\ [Next]_vars => TypeOK'
<1> SUFFICES ASSUME TypeOK, [Next]_vars PROVE TypeOK'
  OBVIOUS
<1> USE ConstantsAssumption
<1>1. ASSUME NEW r \in Replica, TickLeader(r) PROVE TypeOK'
  BY <1>1 DEF TickLeader, TypeOK, Renew, Claim, Claimable, Take, lease, env, history
<1>2. ASSUME NEW r \in Replica, ReadBack(r) PROVE TypeOK'
  BY <1>2 DEF ReadBack, TypeOK, lease, env, history
<1>3. ASSUME NEW r \in Replica, EvaluateStart(r) PROVE TypeOK'
  BY <1>3 DEF EvaluateStart, TypeOK, lease, env, history
<1>4. ASSUME NEW r \in Replica, EvaluateEnd(r) PROVE TypeOK'
  <2>1. rule' \in [state : RuleState, told : Nat]
    BY <1>4 DEF EvaluateEnd, Transitioned, TypeOK, RuleState
  <2> QED BY <1>4, <2>1 DEF EvaluateEnd, TypeOK, lease, env, history
<1>5. ASSUME NEW r \in Replica, Stop(r) PROVE TypeOK'
  BY <1>5 DEF Stop, Upset, Release, TypeOK, lease
<1>6. ASSUME NEW r \in Replica, Crash(r) PROVE TypeOK'
  BY <1>6 DEF Crash, Die, Upset, TypeOK, history
<1>7. ASSUME NEW r \in Replica, Exit(r) PROVE TypeOK'
  BY <1>7 DEF Exit, Die, TypeOK, history
<1>8. ASSUME NEW r \in Replica, Start(r) PROVE TypeOK'
  BY <1>8 DEF Start, TypeOK, lease, env, history
<1>9. ASSUME NEW r \in Replica, Pause(r) PROVE TypeOK'
  BY <1>9 DEF Pause, Upset, TypeOK, lease
<1>10. ASSUME NEW r \in Replica, Resume(r) PROVE TypeOK'
  BY <1>10 DEF Resume, TypeOK, lease, env, history
<1>11. CASE Flip
  BY <1>11 DEF Flip, TypeOK, lease, history
<1>12. CASE Tick
  BY <1>12 DEF Tick, TypeOK, env, history
<1>13. CASE UNCHANGED vars
  BY <1>13 DEF vars, TypeOK, lease, env, history
<1> QED
  BY <1>1, <1>2, <1>3, <1>4, <1>5, <1>6, <1>7, <1>8, <1>9, <1>10, <1>11, <1>12, <1>13 DEF Next

LEMMA InitInv == Init => IInv
<1> SUFFICES ASSUME Init PROVE IInv
  OBVIOUS
<1> USE ConstantsAssumption
<1>1. /\ up \in [Replica -> {"run", "paused", "stopped", "down"}]
      /\ pc \in [Replica -> {"idle", "beatRead", "claimRead"}]
      /\ beat \in [Replica -> 0..Beat]
      /\ fresh \in [Replica -> RuleState \cup {"none"}]
  BY DEF Init
<1>2. isLeader \in [Replica -> BOOLEAN] /\ breach \in BOOLEAN
  BY DEF Init
<1>3. /\ rule \in [state : RuleState, told : Nat]
      /\ budget \in [flips : Nat, upsets : Nat]
      /\ left \in -1..Ttl
  BY DEF Init, RuleState
<1>4. TypeOK
  BY <1>1, <1>2, <1>3 DEF Init, TypeOK
<1>5. HolderIsAlive /\ LeaderHolds
  BY DEF Init, HolderIsAlive, LeaderHolds
<1>6. EvaluationIsFresh /\ ToldMatchesState
  BY DEF Init, EvaluationIsFresh, ToldMatchesState
<1> QED BY <1>4, <1>5, <1>6 DEF IInv, LeaseInv

\* Nobody can take the lease of a leader that is not late.
LEMMA LeaderIsSafe ==
  ASSUME LeaseInv, ~paused, NEW s \in Replica, isLeader[s]
  PROVE  holder = s /\ left >= 0 /\ ~Claimable
  BY ConstantsAssumption DEF LeaseInv, HolderIsAlive, LeaderHolds, TypeOK, Claimable

\* The lease, step by step: claims, renewals, releases and the clock keep the
\* row, isLeader and the age of the lease in agreement.
LEMMA LeaseStep == LeaseInv /\ [Next]_vars => LeaseInv'
<1> SUFFICES ASSUME LeaseInv, [Next]_vars PROVE LeaseInv'
  OBVIOUS
<1> USE ConstantsAssumption
<1>t. TypeOK /\ TypeOK'
  BY TypeStep DEF LeaseInv
<1>p. CASE paused'
  BY <1>p, <1>t DEF LeaseInv
<1>q. CASE ~paused'
  <2>a. ~paused
    BY <1>q, <1>t
    DEF Next, TickLeader, ReadBack, EvaluateStart, EvaluateEnd, Stop, Crash, Exit, Die, Start,
        Pause, Resume, Flip, Tick, vars, history, TypeOK
  <2>b. HolderIsAlive /\ LeaderHolds
    BY <2>a DEF LeaseInv
  <2> SUFFICES HolderIsAlive' /\ LeaderHolds'
    BY <1>t DEF LeaseInv
  <2>1. ASSUME NEW r \in Replica, TickLeader(r) PROVE HolderIsAlive' /\ LeaderHolds'
    <3>1. CASE isLeader[r]
      <4>1. holder = r /\ holder' = r /\ left' = Ttl
        BY <2>1, <2>b, <3>1 DEF TickLeader, Renew, Take, LeaderHolds
      <4> QED
        BY <2>1, <2>b, <3>1, <4>1, <1>t
        DEF TickLeader, HolderIsAlive, LeaderHolds, TypeOK
    <3>2. CASE ~isLeader[r] /\ Claimable
      <4>1. \A s \in Replica : ~isLeader[s]
        BY LeaderIsSafe, <3>2, <2>a
      <4>2. holder' = r /\ left' = Ttl
        BY <2>1, <3>2 DEF TickLeader, Claim, Take
      <4> QED
        BY <2>1, <4>1, <4>2, <1>t DEF TickLeader, HolderIsAlive, LeaderHolds, TypeOK
    <3>3. CASE ~isLeader[r] /\ ~Claimable
      <4>1. holder' = holder /\ left' = left /\ holder # r
        BY <2>1, <2>b, <3>3 DEF TickLeader, Claim, lease, HolderIsAlive
      <4> QED
        BY <2>1, <2>b, <3>3, <4>1, <1>t DEF TickLeader, HolderIsAlive, LeaderHolds, TypeOK
    <3> QED BY <3>1, <3>2, <3>3
  <2>2. ASSUME NEW r \in Replica, ReadBack(r) PROVE HolderIsAlive' /\ LeaderHolds'
    <3>1. holder' = holder /\ left' = left
      BY <2>2 DEF ReadBack, lease
    <3>2. HolderIsAlive'
      <4> SUFFICES ASSUME NEW q \in Replica, holder' = q
                   PROVE  /\ up'[q] = "run" /\ (isLeader'[q] \/ pc'[q] = "claimRead")
                          /\ left' >= Ttl - beat'[q]
        BY DEF HolderIsAlive
      <4>1. /\ up[q] = "run" /\ (isLeader[q] \/ pc[q] = "claimRead")
            /\ left >= Ttl - beat[q]
        BY <2>b, <3>1 DEF HolderIsAlive
      <4>2. up' = up /\ beat' = beat
        BY <2>2 DEF ReadBack
      <4>3. isLeader'[q] \/ pc'[q] = "claimRead"
        BY <2>2, <3>1, <4>1, <1>t DEF ReadBack, TypeOK
      <4> QED
        BY <3>1, <4>1, <4>2, <4>3
    <3>3. LeaderHolds'
      BY <2>2, <2>b, <3>1, <1>t DEF ReadBack, HolderIsAlive, LeaderHolds, TypeOK
    <3> QED BY <3>2, <3>3
  <2>3. ASSUME NEW r \in Replica, EvaluateStart(r) \/ EvaluateEnd(r)
        PROVE  HolderIsAlive' /\ LeaderHolds'
    BY <2>3, <2>b DEF EvaluateStart, EvaluateEnd, lease, HolderIsAlive, LeaderHolds
  <2>5. ASSUME NEW r \in Replica, Stop(r) PROVE HolderIsAlive' /\ LeaderHolds'
    <3>1. CASE isLeader[r]
      <4>1. holder = r /\ holder' = None
        BY <2>5, <2>b, <3>1 DEF Stop, Release, LeaderHolds
      <4> QED
        BY <2>5, <2>b, <4>1, <1>t DEF Stop, HolderIsAlive, LeaderHolds, TypeOK
    <3>2. CASE ~isLeader[r]
      <4>1. holder' = holder /\ left' = left /\ holder # r
        BY <2>5, <2>b, <3>2 DEF Stop, lease, HolderIsAlive
      <4> QED
        BY <2>5, <2>b, <4>1, <1>t DEF Stop, HolderIsAlive, LeaderHolds, TypeOK
    <3> QED BY <3>1, <3>2
  <2>6. ASSUME NEW r \in Replica, Die(r) PROVE HolderIsAlive' /\ LeaderHolds'
    BY <2>6, <2>b, <1>t DEF Die, HolderIsAlive, LeaderHolds, TypeOK
  <2>8. ASSUME NEW r \in Replica, Start(r) \/ Resume(r) PROVE HolderIsAlive' /\ LeaderHolds'
    BY <2>8, <2>b, <1>t DEF Start, Resume, lease, HolderIsAlive, LeaderHolds, TypeOK
  <2>9. ASSUME NEW r \in Replica, Pause(r) PROVE FALSE
    BY <2>9, <1>q DEF Pause
  <2>11. CASE Flip \/ UNCHANGED vars
    BY <2>11, <2>b DEF Flip, vars, lease, HolderIsAlive, LeaderHolds
  <2>12. CASE Tick
    BY <2>12, <2>b, <1>t DEF Tick, HolderIsAlive, LeaderHolds, TypeOK
  <2> QED
    BY <2>1, <2>2, <2>3, <2>5, <2>6, <2>8, <2>9, <2>11, <2>12 DEF Next, Crash, Exit
<1> QED BY <1>p, <1>q

\* The evaluations, step by step: while nobody is late or stopped with one in
\* flight, the only evaluation is the leader's and nobody else moves the rule.
LEMMA EvaluationStep == IInv /\ [Next]_vars => IInv'
<1> SUFFICES ASSUME IInv, [Next]_vars PROVE IInv'
  OBVIOUS
<1>t. LeaseInv /\ LeaseInv' /\ TypeOK /\ TypeOK'
  BY LeaseStep DEF IInv, LeaseInv
<1>p. CASE paused' \/ abandoned'
  BY <1>p, <1>t DEF IInv
<1>q. CASE ~paused' /\ ~abandoned'
  <2>a. ~paused /\ ~abandoned
    BY <1>q, <1>t
    DEF Next, TickLeader, ReadBack, EvaluateStart, EvaluateEnd, Stop, Crash, Exit, Die, Start,
        Pause, Resume, Flip, Tick, vars, history, TypeOK
  <2>b. EvaluationIsFresh /\ ToldMatchesState /\ LeaderHolds
    BY <2>a DEF IInv, LeaseInv
  <2> SUFFICES EvaluationIsFresh' /\ ToldMatchesState'
    BY <1>t DEF IInv
  <2>1. ASSUME NEW r \in Replica, TickLeader(r) \/ Start(r) \/ Resume(r)
        PROVE  EvaluationIsFresh' /\ ToldMatchesState'
    BY <2>1, <2>b DEF TickLeader, Start, Resume, EvaluationIsFresh, ToldMatchesState
  <2>2. ASSUME NEW r \in Replica, ReadBack(r)
        PROVE  EvaluationIsFresh' /\ ToldMatchesState'
    BY <2>2, <2>b, <1>t
    DEF ReadBack, LeaderHolds, EvaluationIsFresh, ToldMatchesState, TypeOK
  <2>3. ASSUME NEW r \in Replica, EvaluateStart(r)
        PROVE  EvaluationIsFresh' /\ ToldMatchesState'
    BY <2>3, <2>b, <1>t DEF EvaluateStart, EvaluationIsFresh, ToldMatchesState, TypeOK
  <2>4. ASSUME NEW r \in Replica, EvaluateEnd(r)
        PROVE  EvaluationIsFresh' /\ ToldMatchesState'
    <3>1. isLeader[r] /\ fresh[r] = rule.state
      BY <2>4, <2>b DEF EvaluateEnd, EvaluationIsFresh
    <3>2. \A s \in Replica : s # r => fresh[s] = "none"
      BY <3>1, <2>b DEF EvaluationIsFresh, LeaderHolds
    <3>3. EvaluationIsFresh'
      BY <2>4, <3>2, <1>t DEF EvaluateEnd, EvaluationIsFresh, TypeOK
    <3>4. ToldMatchesState'
      BY <2>4, <2>b, <3>1, <1>t
      DEF EvaluateEnd, Transitioned, Decide, ToldMatchesState, TypeOK, RuleState
    <3> QED BY <3>3, <3>4
  <2>5. ASSUME NEW r \in Replica, Stop(r)
        PROVE  EvaluationIsFresh' /\ ToldMatchesState'
    <3>1. fresh[r] = "none" /\ fresh' = fresh /\ rule' = rule
      BY <2>5, <1>q DEF Stop
    <3> QED
      BY <2>5, <2>b, <3>1, <1>t DEF Stop, EvaluationIsFresh, ToldMatchesState, TypeOK
  <2>6. ASSUME NEW r \in Replica, Die(r)
        PROVE  EvaluationIsFresh' /\ ToldMatchesState'
    BY <2>6, <2>b, <1>t DEF Die, EvaluationIsFresh, ToldMatchesState, TypeOK
  <2>7. ASSUME NEW r \in Replica, Pause(r) PROVE FALSE
    BY <2>7, <1>q DEF Pause
  <2>8. CASE Flip \/ Tick \/ UNCHANGED vars
    BY <2>8, <2>b DEF Flip, Tick, vars, EvaluationIsFresh, ToldMatchesState
  <2> QED
    BY <2>1, <2>2, <2>3, <2>4, <2>5, <2>6, <2>7, <2>8 DEF Next, Crash, Exit
<1> QED BY <1>p, <1>q

-----------------------------------------------------------------------------
\* tickLeader() and LeaderLock keep this: while nobody is paused, who is leader
\* holds the row with a lease that outlasts the next heartbeat, and an evaluation
\* in flight is the leader's own, of the state the rule still has.
THEOREM Invariance == Spec => []IInv
  BY InitInv, EvaluationStep, PTL DEF Spec

\* The lock's row, the lease and the evaluators' variables keep their types.
THEOREM TypeCorrect == Spec => []TypeOK
<1>1. IInv => TypeOK
  BY DEF IInv, LeaseInv
<1> QED BY <1>1, Invariance, PTL

\* Mutual exclusion of the evaluators, for every number of processes and every
\* lease that is no shorter than the heartbeat interval, while nobody is paused.
THEOREM AtMostOneLeader == Spec => []OneLeader
<1>1. IInv => OneLeader
  BY DEF IInv, LeaseInv, LeaderHolds, OneLeader
<1> QED BY <1>1, Invariance, PTL

\* And what it is for: "otherwise a rule fires twice - once per replica".
THEOREM OneAnnouncement == Spec => []FiringToldOnce
<1>1. IInv => FiringToldOnce
  BY DEF IInv, LeaseInv, ToldMatchesState, FiringToldOnce, TypeOK
<1> QED BY <1>1, Invariance, PTL
=============================================================================
