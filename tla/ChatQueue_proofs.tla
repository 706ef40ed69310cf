-------------------------- MODULE ChatQueue_proofs --------------------------
(***************************************************************************)
(* Proofs about ChatQueue, for both stores and every number of tasks,      *)
(* messages, edits, visits and faults.                                     *)
(***************************************************************************)
EXTENDS ChatQueue, SequenceTheorems, TLAPS

(* Typing.  A task of the pump that has claimed a row knows its place in   *)
(* the queue, one that has a run knows its place among the runs.           *)

Claimed == {"start", "mark", "agent", "settle", "release"}
Owning == {"serve", "mark", "agent", "settle", "release"}
Pump == {"claim", "start", "mark", "agent", "settle", "release", "finish"}

Placed(l, c, rows, runs) ==
  /\ l \in Claimed => c.item \in 1..rows
  /\ l \in Owning => c.run \in 1..runs
  /\ l \in {"list", "decide"} => c.ahead <= rows

StoreOK ==
  /\ backend \in Backends
  /\ queue \in Seq(Row)
  /\ run \in Seq(Run)
  /\ active \in 0..Len(run)
  /\ pumping \in BOOLEAN
  /\ budget \in [posts : Nat, edits : Nat, visits : Nat, faults : Nat]
TasksOK ==
  /\ pc \in [Task -> Label]
  /\ loc \in [Task -> Local]
  /\ loop \in Task \cup {None}
PlacesOK ==
  /\ \A p \in Task : Placed(pc[p], loc[p], Len(queue), Len(run))
  /\ \A r \in 1..Len(run) : run[r].item \in 0..Len(queue)
TypeInv == StoreOK /\ TasksOK /\ PlacesOK

-----------------------------------------------------------------------------
(* The session: one pump, one owner of the run that holds the registry.    *)

Owns(l, c, runs, act) ==
  /\ l \in Owning => c.run = act
  /\ l \in {"settle", "release"} => ~runs[c.run].live

OnePump ==
  /\ \A p \in Task : pc[p] \in Pump => pumping
  /\ \A p, q \in Task : pc[p] \in Pump /\ pc[q] \in Pump => p = q
OneOwner == \A p, q \in Task : pc[p] \in Owning /\ pc[q] \in Owning => p = q

SessionInv ==
  /\ OnePump /\ OneOwner
  /\ \A p \in Task : Owns(pc[p], loc[p], run, active)
  /\ AgentHoldsSession

-----------------------------------------------------------------------------
(* The queue.                                                              *)

\* What a task may count on: a claimed row is neither queued nor deleted; until
\* its run is registered its text is the one claimed, every run so far is of an
\* earlier row and every queued row is a later one; and a POST that found nothing
\* queued has nothing queued ahead of it.
Sees(l, c, rows, runs) ==
  /\ l \in Claimed => rows[c.item].status \notin {"queued", "deleted"}
  /\ l = "start" =>
       /\ rows[c.item].text = c.text
       /\ \A r \in 1..Len(runs) : runs[r].item < c.item
       /\ \A i \in 1..Len(rows) : rows[i].status = "queued" => c.item < i
  /\ l = "decide" /\ ~c.flag => \A i \in 1..c.ahead : rows[i].status # "queued"

\* Every run is of a row before all queued ones.
RunsBeforeQueued ==
  \A r \in 1..Len(run), i \in 1..Len(queue) : queue[i].status = "queued" => run[r].item < i

QueueInv ==
  /\ \A p \in Task : Sees(pc[p], loc[p], queue, run)
  /\ RunsBeforeQueued
  /\ QueueRunsInOrderOnce
  /\ EditsAreHonoured

ChatInv == TypeInv /\ SessionInv /\ QueueInv

LEMMA ChatInit == Init => ChatInv
<1> SUFFICES ASSUME Init PROVE ChatInv
  OBVIOUS
<1>1. queue \in Seq(Row) /\ run \in Seq(Run) /\ Len(queue) = 0 /\ Len(run) = 0
  BY DEF Init
<1>2. StoreOK
  <2>1. budget \in [posts : Nat, edits : Nat, visits : Nat, faults : Nat]
    BY ConstantsAssumption DEF Init
  <2>2. active \in 0..Len(run) /\ backend \in Backends /\ pumping = FALSE
    BY <1>1 DEF Init
  <2> QED
    BY <1>1, <2>1, <2>2, Zenon DEF StoreOK
<1>3. TasksOK
  <2>1. NoLocal \in Local
    BY Zenon DEF NoLocal, Local
  <2> QED
    BY <2>1 DEF Init, TasksOK, Label
<1>4. \A p \in Task : pc[p] = "idle"
  BY DEF Init
<1>5. PlacesOK
  BY <1>1, <1>4 DEF PlacesOK, Placed, Claimed, Owning
<1>6. SessionInv
  BY <1>1, <1>4 DEF SessionInv, OnePump, OneOwner, Owns, AgentHoldsSession, Pump, Owning
<1>7. QueueInv
  BY <1>1, <1>4 DEF QueueInv, Sees, RunsBeforeQueued, QueueRunsInOrderOnce, EditsAreHonoured, Claimed
<1> QED
  BY <1>2, <1>3, <1>5, <1>6, <1>7 DEF ChatInv, TypeInv

-----------------------------------------------------------------------------
(* What the statements and the building blocks of the actions do.          *)

LEMMA RowFields ==
  ASSUME NEW r \in Row
  PROVE  /\ r.status \in RowStatus /\ r.text \in Nat
         /\ \A v \in RowStatus : /\ [r EXCEPT !.status = v] \in Row
                                 /\ [r EXCEPT !.status = v].status = v
                                 /\ [r EXCEPT !.status = v].text = r.text
         /\ [r EXCEPT !.text = @ + 1] \in Row
         /\ [r EXCEPT !.text = @ + 1].status = r.status
BY DEF Row

\* Rows only move forward: one that is not queued keeps its text and is never
\* queued again, nor deleted, and rows are added at the end.
Advances(rows, new) ==
  /\ Len(new) >= Len(rows)
  /\ \A i \in 1..Len(rows) :
       rows[i].status # "queued" =>
         /\ new[i].status # "queued" /\ new[i].text = rows[i].text
         /\ rows[i].status # "deleted" => new[i].status # "deleted"

LEMMA AdvancesNot ==
  ASSUME queue \in Seq(Row), queue' = queue
  PROVE  queue' \in Seq(Row) /\ Len(queue') = Len(queue) /\ Advances(queue, queue')
BY DEF Advances

LEMMA Enqueued ==
  ASSUME queue \in Seq(Row), Enqueue
  PROVE  /\ queue' \in Seq(Row) /\ Len(queue') = Len(queue) + 1
         /\ Advances(queue, queue')
<1> DEFINE new == [status |-> "queued", text |-> 0]
<1>1. new \in Row
  BY DEF Row, RowStatus
<1> HIDE DEF new
<1>2. /\ queue' \in Seq(Row) /\ Len(queue') = Len(queue) + 1
      /\ \A i \in 1..Len(queue) : queue'[i] = queue[i]
  BY <1>1, AppendProperties DEF Enqueue, new
<1>3. Len(queue) \in Nat
  BY LenProperties
<1> QED
  BY <1>2, <1>3 DEF Advances

\* A row gets another status.
LEMMA RowSet ==
  ASSUME queue \in Seq(Row), NEW i \in 1..Len(queue), NEW v \in RowStatus, SetRow(i, v)
  PROVE  /\ queue' \in Seq(Row) /\ Len(queue') = Len(queue)
         /\ queue'[i].status = v /\ queue'[i].text = queue[i].text
         /\ \A j \in 1..Len(queue) \ {i} : queue'[j] = queue[j]
<1> DEFINE new == [queue[i] EXCEPT !.status = v]
<1>1. queue[i] \in Row
  BY LenProperties
<1>2. new \in Row /\ new.status = v /\ new.text = queue[i].text
  BY <1>1, RowFields
<1>3. queue' = [queue EXCEPT ![i] = new]
  BY DEF SetRow
<1> HIDE DEF new
<1>4. queue' \in Seq(Row) /\ Len(queue') = Len(queue)
      /\ \A j \in 1..Len(queue) : queue'[j] = IF j = i THEN new ELSE queue[j]
  BY <1>2, <1>3, ExceptSeq
<1> QED
  BY <1>2, <1>4

LEMMA RowSetAdvances ==
  ASSUME queue \in Seq(Row), NEW i \in 1..Len(queue), NEW v \in RowStatus, SetRow(i, v),
         v # "queued", v = "deleted" => queue[i].status = "queued"
  PROVE  Advances(queue, queue')
<1>1. /\ Len(queue') = Len(queue) /\ queue'[i].status = v /\ queue'[i].text = queue[i].text
      /\ \A j \in 1..Len(queue) \ {i} : queue'[j] = queue[j]
  BY RowSet
<1>2. Len(queue) \in Nat
  BY LenProperties
<1> QED
  BY <1>1, <1>2 DEF Advances

\* A queued row gets another text.
LEMMA RowEdited ==
  ASSUME queue \in Seq(Row), NEW i \in 1..Len(queue), Editable(i),
         queue' = [queue EXCEPT ![i].text = @ + 1]
  PROVE  queue' \in Seq(Row) /\ Len(queue') = Len(queue) /\ Advances(queue, queue')
<1> DEFINE new == [queue[i] EXCEPT !.text = @ + 1]
<1>1. queue[i] \in Row /\ Len(queue) \in Nat
  BY LenProperties
<1>2. new \in Row /\ new.status = queue[i].status
  BY <1>1, RowFields
<1>3. queue' = [queue EXCEPT ![i] = new]
  OBVIOUS
<1> HIDE DEF new
<1>4. queue' \in Seq(Row) /\ Len(queue') = Len(queue)
      /\ \A j \in 1..Len(queue) : queue'[j] = IF j = i THEN new ELSE queue[j]
  BY <1>2, <1>3, ExceptSeq
<1> QED
  BY <1>1, <1>4 DEF Advances, Editable

LEMMA RunFields ==
  ASSUME NEW r \in Run
  PROVE  /\ r.item \in Nat /\ r.text \in Nat /\ r.live \in BOOLEAN
         /\ r.status \in {"running", "ended"}
<1>1. r.live \in BOOLEAN
  BY Zenon DEF Run
<1> QED
  BY <1>1 DEF Run

\* The run r is changed, but not what it is about: the others stay as they are.
Updated(r, new) ==
  /\ new \in Run /\ new.item = run[r].item /\ new.text = run[r].text
  /\ run' = [run EXCEPT ![r] = new]

RunsKept(runs, new) ==
  /\ Len(new) = Len(runs)
  /\ \A r \in 1..Len(runs) : new[r].item = runs[r].item /\ new[r].text = runs[r].text

LEMMA RunUpdated ==
  ASSUME run \in Seq(Run), NEW r \in 1..Len(run), NEW new, Updated(r, new)
  PROVE  /\ run' \in Seq(Run) /\ RunsKept(run, run')
         /\ run'[r] = new /\ \A s \in 1..Len(run) \ {r} : run'[s] = run[s]
<1>1. run' \in Seq(Run) /\ Len(run') = Len(run)
      /\ \A j \in 1..Len(run) : run'[j] = IF j = r THEN new ELSE run[j]
  BY ExceptSeq DEF Updated
<1> QED
  BY <1>1 DEF Updated, RunsKept

\* The updates the actions make.
LEMMA RunUpdates ==
  ASSUME run \in Seq(Run), NEW r \in 1..Len(run), NEW b \in BOOLEAN
  PROVE  /\ run' = [run EXCEPT ![r].live = b] =>
              \E new : Updated(r, new) /\ new.live = b
         /\ run' = [run EXCEPT ![r].status = "ended"] =>
              \E new : Updated(r, new) /\ new.live = run[r].live
         /\ run' = [run EXCEPT ![r].live = b, ![r].status = "ended"] =>
              \E new : Updated(r, new) /\ new.live = b
<1>1. run[r] \in Run /\ "ended" \in {"running", "ended"}
  BY LenProperties
<1>2. run' = [run EXCEPT ![r].live = b] => \E new : Updated(r, new) /\ new.live = b
  <2> DEFINE new == [run[r] EXCEPT !.live = b]
  <2>1. new \in Run /\ new.item = run[r].item /\ new.text = run[r].text /\ new.live = b
    BY <1>1, Zenon DEF Run
  <2>2. [run EXCEPT ![r].live = b] = [run EXCEPT ![r] = new]
    BY Zenon
  <2> QED
    BY <2>1, <2>2, Zenon DEF Updated
<1>3. run' = [run EXCEPT ![r].status = "ended"] =>
        \E new : Updated(r, new) /\ new.live = run[r].live
  <2> DEFINE new == [run[r] EXCEPT !.status = "ended"]
  <2>1. new \in Run /\ new.item = run[r].item /\ new.text = run[r].text /\ new.live = run[r].live
    BY <1>1, Zenon DEF Run
  <2>2. [run EXCEPT ![r].status = "ended"] = [run EXCEPT ![r] = new]
    BY Zenon
  <2> QED
    BY <2>1, <2>2, Zenon DEF Updated
<1>4. run' = [run EXCEPT ![r].live = b, ![r].status = "ended"] =>
        \E new : Updated(r, new) /\ new.live = b
  <2> DEFINE mid == [run[r] EXCEPT !.live = b]
             new == [mid EXCEPT !.status = "ended"]
  <2>1. mid \in Run /\ mid.item = run[r].item /\ mid.text = run[r].text /\ mid.live = b
    BY <1>1, Zenon DEF Run
  <2> HIDE DEF mid
  <2>2. new \in Run /\ new.item = mid.item /\ new.text = mid.text /\ new.live = mid.live
    BY <1>1, <2>1, Zenon DEF Run
  <2>3. [run EXCEPT ![r].live = b, ![r].status = "ended"] = [run EXCEPT ![r] = new]
    BY <1>1, LenProperties DEF mid
  <2> QED
    BY <2>1, <2>2, <2>3, Zenon DEF Updated
<1> QED
  BY <1>2, <1>3, <1>4, Zenon

LEMMA LocalFields ==
  ASSUME NEW c \in Local
  PROVE  /\ c.item \in Nat /\ c.text \in Nat /\ c.run \in Nat /\ c.ahead \in Nat
         /\ c.flag \in BOOLEAN
<1>1. c.flag \in BOOLEAN
  BY Zenon DEF Local
<1> QED
  BY <1>1 DEF Local

LEMMA NoLocalType == NoLocal \in Local
BY Zenon DEF NoLocal, Local

\* The parts of a task's locals that the actions change.
LEMMA LocalUpdates ==
  ASSUME NEW c \in Local, NEW n \in Nat, NEW m \in Nat, NEW b \in BOOLEAN
  PROVE  /\ [c EXCEPT !.run = n] \in Local
         /\ [c EXCEPT !.ahead = n] \in Local
         /\ [c EXCEPT !.flag = b] \in Local
         /\ [c EXCEPT !.item = n, !.text = m] \in Local
<1>1. [c EXCEPT !.run = n] \in Local
  BY Zenon DEF Local
<1>2. [c EXCEPT !.ahead = n] \in Local
  BY Zenon DEF Local
<1>3. [c EXCEPT !.flag = b] \in Local
  BY Zenon DEF Local
<1>4. [c EXCEPT !.item = n, !.text = m] \in Local
  <2>1. [c EXCEPT !.item = n] \in Local
    BY Zenon DEF Local
  <2>2. [[c EXCEPT !.item = n] EXCEPT !.text = m] \in Local
    BY <2>1, Zenon DEF Local
  <2> QED
    BY <2>2
<1> QED
  BY <1>1, <1>2, <1>3, <1>4

LEMMA Moved ==
  ASSUME TasksOK, NEW p \in Task, NEW l \in Label, Go(p, l), NEW c \in Local,
         loc' = [loc EXCEPT ![p] = c]
  PROVE  /\ TasksOK'
         /\ pc'[p] = l /\ loc'[p] = c
         /\ \A q \in Task \ {p} : pc'[q] = pc[q] /\ loc'[q] = loc[q]
BY DEF TasksOK, Go

-----------------------------------------------------------------------------
(* Every invariant survives the move of one task, given what that task     *)
(* counts on afterwards.                                                   *)

\* How a step of p, which goes to l, may change pumpingSessions.
PumpStep(p, l) ==
  \/ pumping' = pumping /\ (l \in Pump => pc[p] \in Pump)
  \/ ~pumping /\ pumping' = TRUE
  \/ pc[p] \in Pump /\ l \notin Pump

\* ... and the runs: p owns the one it changes, or none changes.
RunStep(p, l) ==
  \/ UNCHANGED <<run, active>> /\ (l \in Owning => pc[p] \in Owning)
  \/ RunsKept(run, run') /\ \A q \in Task \ {p} : pc[q] \notin Owning

LEMMA PlacesMove ==
  ASSUME TypeInv, TasksOK',
         \A q \in Task : \/ pc'[q] = pc[q] /\ loc'[q] = loc[q]
                         \/ Placed(pc'[q], loc'[q], Len(queue'), Len(run')),
         StoreOK', Len(queue') >= Len(queue), Len(run') >= Len(run),
         \A r \in 1..Len(run') : run'[r].item \in 0..Len(queue')
  PROVE  TypeInv'
<1>1. /\ Len(queue) \in Nat /\ Len(queue') \in Nat /\ Len(run) \in Nat /\ Len(run') \in Nat
  BY LenProperties DEF TypeInv, StoreOK
<1>2. ASSUME NEW q \in Task PROVE Placed(pc'[q], loc'[q], Len(queue'), Len(run'))
  <2>1. CASE pc'[q] = pc[q] /\ loc'[q] = loc[q]
    <3>1. loc[q].ahead \in Nat
      BY LocalFields DEF TypeInv, TasksOK
    <3>2. Placed(pc[q], loc[q], Len(queue), Len(run))
      BY DEF TypeInv, PlacesOK
    <3> QED
      BY <1>1, <2>1, <3>1, <3>2 DEF Placed
  <2> QED
    BY <1>2, <2>1
<1> QED
  BY <1>2 DEF TypeInv, PlacesOK

\* The session.
LEMMA SessionMove ==
  ASSUME TypeInv, SessionInv, NEW p \in Task,
         \A q \in Task \ {p} : pc'[q] = pc[q] /\ loc'[q] = loc[q],
         PumpStep(p, pc'[p]),
         \/ \A q \in Task \ {p} : pc[q] \notin Owning
         \/ UNCHANGED <<run, active>> /\ (pc'[p] \in Owning => pc[p] \in Owning),
         Owns(pc'[p], loc'[p], run', active'),
         AgentHoldsSession'
  PROVE  SessionInv'
<1>1. OnePump'
  BY DEF SessionInv, OnePump, PumpStep
<1>2. OneOwner'
  BY DEF SessionInv, OneOwner
<1>3. ASSUME NEW q \in Task PROVE Owns(pc'[q], loc'[q], run', active')
  <2>1. CASE q # p
    <3>1. CASE pc[q] \in Owning
      BY <2>1, <3>1 DEF SessionInv
    <3>2. CASE pc[q] \notin Owning
      BY <2>1, <3>2 DEF Owns, Owning
    <3> QED
      BY <3>1, <3>2
  <2> QED
    BY <2>1
<1> QED
  BY <1>1, <1>2, <1>3 DEF SessionInv

\* The queue: rows move forward and the runs stay what they are about.
LEMMA QueueKept ==
  ASSUME TypeInv, QueueInv, TypeInv', Advances(queue, queue'), RunsKept(run, run'),
         \A q \in Task : \/ pc'[q] = pc[q] /\ loc'[q] = loc[q]
                         \/ Sees(pc'[q], loc'[q], queue', run')
  PROVE  QueueInv'
<1>a. /\ Len(queue) \in Nat /\ Len(queue') \in Nat /\ Len(run) \in Nat
      /\ Len(queue') >= Len(queue) /\ Len(run') = Len(run)
  BY LenProperties DEF TypeInv, StoreOK, Advances, RunsKept
<1>b. \A r \in 1..Len(run) : /\ run'[r].item = run[r].item /\ run'[r].text = run[r].text
                             /\ run[r].item \in 0..Len(queue)
  BY DEF RunsKept, TypeInv, PlacesOK
<1>1. ASSUME NEW q \in Task PROVE Sees(pc'[q], loc'[q], queue', run')
  <2>1. CASE pc'[q] = pc[q] /\ loc'[q] = loc[q]
    <3>1. Sees(pc[q], loc[q], queue, run) /\ Placed(pc[q], loc[q], Len(queue), Len(run))
      BY DEF QueueInv, TypeInv, PlacesOK
    <3>2. loc[q].ahead \in Nat /\ loc[q].item \in Nat
      BY LocalFields DEF TypeInv, TasksOK
    <3>3. pc[q] \in Claimed => queue'[loc[q].item].status \notin {"queued", "deleted"}
      BY <3>1 DEF Sees, Placed, Advances
    <3>4. pc[q] = "start" =>
            /\ queue'[loc[q].item].text = loc[q].text
            /\ \A r \in 1..Len(run') : run'[r].item < loc[q].item
      BY <1>a, <1>b, <3>1 DEF Sees, Placed, Advances, Claimed
    <3>5. pc[q] = "start" =>
            \A i \in 1..Len(queue') : queue'[i].status = "queued" => loc[q].item < i
      BY <1>a, <3>1, <3>2 DEF Sees, Placed, Advances, Claimed
    <3>6. pc[q] = "decide" /\ ~loc[q].flag =>
            \A i \in 1..loc[q].ahead : queue'[i].status # "queued"
      BY <1>a, <3>1, <3>2 DEF Sees, Placed, Advances
    <3> QED
      BY <2>1, <3>3, <3>4, <3>5, <3>6 DEF Sees
  <2> QED
    BY <1>1, <2>1
<1>2. RunsBeforeQueued'
  <2> SUFFICES ASSUME NEW r \in 1..Len(run), NEW i \in 1..Len(queue'),
                      queue'[i].status = "queued"
               PROVE  run[r].item < i
    BY <1>a, <1>b DEF RunsBeforeQueued
  <2>1. CASE i \in 1..Len(queue)
    BY <2>1 DEF Advances, QueueInv, RunsBeforeQueued
  <2>2. CASE i \notin 1..Len(queue)
    BY <1>a, <1>b, <2>2
  <2> QED
    BY <2>1, <2>2
<1>3. QueueRunsInOrderOnce'
  BY <1>a, <1>b DEF QueueInv, QueueRunsInOrderOnce
<1>4. EditsAreHonoured'
  <2> SUFFICES ASSUME NEW r \in 1..Len(run), run[r].item # 0
               PROVE  /\ queue'[run[r].item].text = run[r].text
                      /\ queue'[run[r].item].status \notin {"queued", "deleted"}
    BY <1>a, <1>b DEF EditsAreHonoured
  <2>1. run[r].item \in 1..Len(queue)
    BY <1>a, <1>b
  <2> QED
    BY <2>1 DEF QueueInv, EditsAreHonoured, Advances
<1> QED
  BY <1>1, <1>2, <1>3, <1>4 DEF QueueInv

\* One task moves, and no run is added.
LEMMA ChatMove ==
  ASSUME ChatInv, NEW p \in Task, NEW l \in Label, Go(p, l), NEW c \in Local,
         loc' = [loc EXCEPT ![p] = c],
         StoreOK', PumpStep(p, l), RunStep(p, l), Advances(queue, queue'),
         Placed(l, c, Len(queue'), Len(run')), Owns(l, c, run', active'),
         Sees(l, c, queue', run'), AgentHoldsSession'
  PROVE  ChatInv'
<1>1. /\ TasksOK' /\ pc'[p] = l /\ loc'[p] = c
      /\ \A q \in Task \ {p} : pc'[q] = pc[q] /\ loc'[q] = loc[q]
  BY Moved DEF ChatInv, TypeInv
<1>2. RunsKept(run, run')
  BY DEF RunStep, RunsKept
<1>3. Len(queue') >= Len(queue) /\ Len(run') = Len(run) /\ Len(queue) \in Nat /\ Len(queue') \in Nat
      /\ Len(run) \in Nat
  BY <1>2, LenProperties DEF Advances, RunsKept, ChatInv, TypeInv, StoreOK
<1>4. \A r \in 1..Len(run') : run'[r].item \in 0..Len(queue')
  BY <1>2, <1>3 DEF RunsKept, ChatInv, TypeInv, PlacesOK
<1>5. TypeInv'
  BY <1>1, <1>3, <1>4, PlacesMove DEF ChatInv
<1>6. SessionInv'
  BY <1>1, SessionMove DEF ChatInv, RunStep
<1>7. QueueInv'
  BY <1>1, <1>2, <1>5, QueueKept DEF ChatInv
<1> QED
  BY <1>5, <1>6, <1>7 DEF ChatInv

\* ... and it is none that owns a run, has claimed a row or has decided anything.
Plain == {"idle", "enqueue", "enqueueCold", "wake", "relist", "rewake", "claim", "finish"}

LEMMA PlainCounts ==
  ASSUME NEW l \in Plain, NEW c, NEW rows, NEW runs, NEW n, NEW m, NEW act
  PROVE  /\ Placed(l, c, n, m) /\ Owns(l, c, runs, act) /\ Sees(l, c, rows, runs)
         /\ l \in Label /\ l \notin Owning
BY DEF Plain, Placed, Owns, Sees, Label, Owning, Claimed

\* What a visit, a post, an edit or a fault costs.
LEMMA Spent ==
  ASSUME budget \in [posts : Nat, edits : Nat, visits : Nat, faults : Nat],
         Spend("posts") \/ Spend("edits") \/ Spend("visits") \/ Spend("faults")
  PROVE  budget' \in [posts : Nat, edits : Nat, visits : Nat, faults : Nat]
BY DEF Spend

LEMMA BecomesPump ==
  ASSUME pumping \in BOOLEAN, NEW p \in Task, NEW act, BecomePump(p, act)
  PROVE  /\ \E l \in {"idle", "claim"} : Go(p, l) /\ PumpStep(p, l)
         /\ loc' = [loc EXCEPT ![p] = NoLocal]
         /\ pumping' \in BOOLEAN
<1>1. CASE pumping \/ act # 0
  <2>1. Return(p) /\ pumping' = pumping
    BY <1>1, Zenon DEF BecomePump
  <2> QED
    BY <2>1, Zenon DEF Return, PumpStep, Pump
<1>2. CASE ~(pumping \/ act # 0)
  <2>1. Go(p, "claim") /\ pumping' = TRUE /\ loc' = [loc EXCEPT ![p] = NoLocal]
    BY <1>2, Zenon DEF BecomePump
  <2> QED
    BY <1>2, <2>1, Zenon DEF PumpStep
<1> QED
  BY <1>1, <1>2

\* A task moves to a plain label and touches no run.
LEMMA ChatPlain ==
  ASSUME ChatInv, NEW p \in Task, NEW l \in Plain, Go(p, l), NEW c \in Local,
         loc' = [loc EXCEPT ![p] = c], PumpStep(p, l),
         UNCHANGED <<backend, run, active>>, pumping' \in BOOLEAN,
         budget' \in [posts : Nat, edits : Nat, visits : Nat, faults : Nat],
         queue' \in Seq(Row), Advances(queue, queue')
  PROVE  ChatInv'
<1>1. StoreOK'
  <2>1. backend' \in Backends /\ run' \in Seq(Run) /\ active' \in 0..Len(run')
    BY DEF ChatInv, TypeInv, StoreOK
  <2> QED
    BY <2>1, Zenon DEF StoreOK
<1>2. /\ Placed(l, c, Len(queue'), Len(run')) /\ Owns(l, c, run', active')
      /\ Sees(l, c, queue', run') /\ l \in Label /\ l \notin Owning
  BY PlainCounts
<1>3. RunStep(p, l) /\ AgentHoldsSession'
  BY <1>2 DEF RunStep, ChatInv, SessionInv, AgentHoldsSession
<1> QED
  BY <1>1, <1>2, <1>3, ChatMove

\* A task moves, and nothing but its locals changes.
LEMMA ChatReads ==
  ASSUME ChatInv, NEW p \in Task, NEW l \in Label, Go(p, l), NEW c \in Local,
         loc' = [loc EXCEPT ![p] = c], l \in Pump => pc[p] \in Pump,
         l \in Owning => pc[p] \in Owning,
         UNCHANGED <<backend, queue, run, active, pumping>>,
         budget' \in [posts : Nat, edits : Nat, visits : Nat, faults : Nat],
         Placed(l, c, Len(queue), Len(run)), Owns(l, c, run, active), Sees(l, c, queue, run)
  PROVE  ChatInv'
<1>1. StoreOK'
  <2>1. /\ backend' \in Backends /\ run' \in Seq(Run) /\ active' \in 0..Len(run')
        /\ queue' \in Seq(Row)
    BY DEF ChatInv, TypeInv, StoreOK
  <2>2. pumping' \in BOOLEAN
    BY Zenon DEF ChatInv, TypeInv, StoreOK
  <2> QED
    BY <2>1, <2>2, Zenon DEF StoreOK
<1>2. RunStep(p, l) /\ PumpStep(p, l) /\ AgentHoldsSession'
  BY DEF RunStep, PumpStep, ChatInv, SessionInv, AgentHoldsSession
<1>3. Advances(queue, queue')
  BY AdvancesNot DEF ChatInv, TypeInv, StoreOK
<1> QED
  BY <1>1, <1>2, <1>3, ChatMove

-----------------------------------------------------------------------------
(* The routes.                                                             *)

LEMMA ChatArrive ==
  ASSUME ChatInv, NEW p \in Task, Arrive(p)
  PROVE  ChatInv'
<1>a. /\ loc[p] \in Local /\ queue \in Seq(Row) /\ Len(queue) \in Nat /\ pc[p] = "idle"
      /\ pumping \in BOOLEAN
  <2>1. pumping \in BOOLEAN
    BY Zenon DEF ChatInv, TypeInv, StoreOK
  <2> QED
    BY <2>1, LenProperties
       DEF ChatInv, TypeInv, TasksOK, StoreOK, Arrive, PostArrive, ReadHistory, CancelNothing, At
<1>b. budget' \in [posts : Nat, edits : Nat, visits : Nat, faults : Nat]
  BY Spent DEF ChatInv, TypeInv, StoreOK, Arrive, PostArrive, ReadHistory, CancelNothing
<1>c. UNCHANGED <<backend, queue, run, active>>
  BY DEF Arrive, PostArrive, ReadHistory, CancelNothing
<1>d. queue' \in Seq(Row) /\ Advances(queue, queue')
  BY <1>a, <1>c, AdvancesNot
<1>1. CASE PostArrive(p)
  <2> DEFINE c == [loc[p] EXCEPT !.ahead = Len(queue)]
  <2>1. c \in Local /\ loc' = [loc EXCEPT ![p] = c]
    BY <1>1, <1>a, LocalUpdates DEF PostArrive, ChatInv, TypeInv, TasksOK
  <2>2. c.ahead = Len(queue)
    BY <1>a DEF Local
  <2> HIDE DEF c
  <2>3. PICK l \in {"enqueue", "list"} : Go(p, l)
    BY <1>1 DEF PostArrive
  <2>4. Placed(l, c, Len(queue), Len(run)) /\ Owns(l, c, run, active) /\ Sees(l, c, queue, run)
    BY <1>a, <2>2 DEF Placed, Owns, Sees, Claimed, Owning
  <2>5. l \in Label \ (Pump \cup Owning) /\ pumping' = pumping
    BY <1>1 DEF Label, Pump, Owning, PostArrive
  <2> QED
    BY <1>b, <1>c, <2>1, <2>3, <2>4, <2>5, ChatReads
<1>2. CASE ReadHistory(p)
  <2>1. Go(p, "relist") /\ loc' = [loc EXCEPT ![p] = loc[p]] /\ pumping' = pumping
    BY <1>2 DEF ReadHistory, ChatInv, TypeInv, TasksOK
  <2>2. "relist" \in Plain /\ PumpStep(p, "relist")
    BY <2>1 DEF Plain, PumpStep, Pump
  <2> QED
    BY <1>a, <1>b, <1>c, <1>d, <2>1, <2>2, ChatPlain
<1>3. CASE CancelNothing(p)
  <2>1. BecomePump(p, active)
    BY <1>3 DEF CancelNothing
  <2>2. {"idle", "claim"} \subseteq Plain
    BY DEF Plain
  <2> QED
    BY <1>a, <1>b, <1>c, <1>d, <2>1, <2>2, BecomesPump, NoLocalType, ChatPlain
<1> QED
  BY <1>1, <1>2, <1>3 DEF Arrive

\* A run is registered: for the message of a POST, or for the row the pump claimed.
LEMMA ChatStart ==
  ASSUME ChatInv, NEW p \in Task, active = 0, NEW item, NEW text \in Nat, NEW live \in BOOLEAN,
         Start(p, item, text, live), NEW l, Go(p, l),
         UNCHANGED <<backend, queue, pumping, budget>>,
         \/ pc[p] = "decide" /\ l = "serve" /\ item = 0
         \/ pc[p] = "start" /\ l = "mark" /\ item = loc[p].item /\ text = loc[p].text
  PROVE  ChatInv'
<1> DEFINE new == [item |-> item, text |-> text, status |-> "running", live |-> live]
           n == Len(run) + 1
           c == [loc[p] EXCEPT !.run = n]
<1>a. run \in Seq(Run) /\ Len(run) \in Nat /\ queue \in Seq(Row) /\ Len(queue) \in Nat
  BY LenProperties DEF ChatInv, TypeInv, StoreOK
<1>b. /\ loc[p] \in Local /\ TasksOK /\ Placed(pc[p], loc[p], Len(queue), Len(run))
      /\ Sees(pc[p], loc[p], queue, run)
  BY DEF ChatInv, TypeInv, TasksOK, PlacesOK, QueueInv
<1>c. item \in 0..Len(queue)
  BY <1>a, <1>b DEF Placed, Claimed
<1>d. pc[p] = "start" => item \in 1..Len(queue)
  BY <1>b DEF Placed, Claimed
<1>1. new \in Run /\ new.item = item /\ new.text = text
  <2>1. item \in Nat /\ "running" \in {"running", "ended"}
    BY <1>a, <1>c
  <2> QED
    BY <2>1, Zenon DEF Run
<1>2. c \in Local /\ loc' = [loc EXCEPT ![p] = c] /\ n \in Nat
  <2>1. n \in Nat
    BY <1>a
  <2>2. loc' = [loc EXCEPT ![p] = c]
    BY Zenon DEF Start
  <2> HIDE DEF n
  <2> QED
    BY <1>b, <2>1, <2>2, LocalUpdates, Zenon
<1>3. c.run = n /\ c.item = loc[p].item /\ c.text = loc[p].text
  BY <1>b DEF Local
<1>4. run' = Append(run, new) /\ active' = n
  BY DEF Start
<1> HIDE DEF new, c
<1>5. /\ run' \in Seq(Run) /\ Len(run') = n /\ run'[n] = new
      /\ \A r \in 1..Len(run) : run'[r] = run[r]
  BY <1>1, <1>4, <1>a, AppendProperties
<1>6. l \in Label
  BY DEF Label
<1>7. /\ TasksOK' /\ pc'[p] = l /\ loc'[p] = c
      /\ \A q \in Task \ {p} : pc'[q] = pc[q] /\ loc'[q] = loc[q]
  BY <1>2, <1>6, <1>b, Moved
<1>8. \A q \in Task : pc[q] \notin Owning
  BY <1>a DEF ChatInv, SessionInv, Owns, TypeInv, PlacesOK, Placed
<1>9. TypeInv'
  <2>1. StoreOK'
    <3>1. /\ backend' \in Backends /\ active' \in 0..Len(run') /\ queue' \in Seq(Row)
          /\ budget' \in [posts : Nat, edits : Nat, visits : Nat, faults : Nat]
      BY <1>a, <1>4, <1>5 DEF ChatInv, TypeInv, StoreOK
    <3>2. pumping' \in BOOLEAN
      BY Zenon DEF ChatInv, TypeInv, StoreOK
    <3> QED
      BY <1>5, <3>1, <3>2, Zenon DEF StoreOK
  <2>2. \A r \in 1..Len(run') : run'[r].item \in 0..Len(queue')
    BY <1>1, <1>5, <1>a, <1>c DEF ChatInv, TypeInv, PlacesOK
  <2>3. Placed(l, c, Len(queue'), Len(run'))
    BY <1>3, <1>5, <1>a, <1>d DEF Placed, Claimed, Owning
  <2> QED
    BY <1>5, <1>7, <1>a, <2>1, <2>2, <2>3, PlacesMove DEF ChatInv
<1>10. SessionInv'
  <2>1. PumpStep(p, l)
    BY DEF PumpStep, Pump
  <2>2. Owns(l, c, run', active')
    BY <1>3, <1>4 DEF Owns
  <2>3. \A r \in 1..Len(run) : ~run[r].live
    BY <1>a DEF ChatInv, SessionInv, AgentHoldsSession
  <2>4. AgentHoldsSession'
    <3> SUFFICES ASSUME NEW r \in 1..Len(run'), run'[r].live PROVE active' = r
      BY DEF AgentHoldsSession
    <3> QED
      BY <1>4, <1>5, <1>a, <2>3
  <2> QED
    BY <1>7, <1>8, <2>1, <2>2, <2>4, SessionMove DEF ChatInv
<1>11. QueueInv'
  <2>1. ASSUME NEW q \in Task PROVE Sees(pc'[q], loc'[q], queue', run')
    <3>1. CASE q = p
      BY <1>3, <1>7, <1>b, <3>1 DEF Sees, Claimed
    <3>2. CASE q # p
      <4>1. /\ pc'[q] = pc[q] /\ loc'[q] = loc[q] /\ Sees(pc[q], loc[q], queue, run)
            /\ Placed(pc[q], loc[q], Len(queue), Len(run))
        BY <1>7, <3>2 DEF ChatInv, QueueInv, TypeInv, PlacesOK
      <4>2. pc[q] = "start" => pc[p] # "start"
        BY <3>2 DEF ChatInv, SessionInv, OnePump, Pump
      <4>3. pc[q] = "start" => \A r \in 1..Len(run') : run'[r].item < loc[q].item
        BY <1>1, <1>5, <1>a, <4>1, <4>2 DEF Sees, Placed, Claimed
      <4> QED
        BY <4>1, <4>3 DEF Sees
    <3> QED
      BY <3>1, <3>2
  <2>2. RunsBeforeQueued'
    <3> SUFFICES ASSUME NEW r \in 1..Len(run'), NEW i \in 1..Len(queue), queue[i].status = "queued"
                 PROVE  run'[r].item < i
      BY DEF RunsBeforeQueued
    <3>1. CASE r \in 1..Len(run)
      BY <1>5, <3>1 DEF ChatInv, QueueInv, RunsBeforeQueued
    <3>2. CASE r = n
      BY <1>1, <1>5, <1>a, <1>b, <3>2 DEF Sees
    <3> QED
      BY <1>5, <1>a, <3>1, <3>2
  <2>3. QueueRunsInOrderOnce'
    <3> SUFFICES ASSUME NEW r \in 1..Len(run'), NEW s \in 1..Len(run'), r < s,
                        run'[r].item # 0, run'[s].item # 0
                 PROVE  run'[r].item < run'[s].item
      BY DEF QueueRunsInOrderOnce
    <3>1. r \in 1..Len(run)
      BY <1>5, <1>a
    <3>2. CASE s \in 1..Len(run)
      BY <1>5, <3>1, <3>2 DEF ChatInv, QueueInv, QueueRunsInOrderOnce
    <3>3. CASE s = n
      BY <1>1, <1>5, <1>b, <3>1, <3>3 DEF Sees
    <3> QED
      BY <1>5, <1>a, <3>2, <3>3
  <2>4. EditsAreHonoured'
    <3> SUFFICES ASSUME NEW r \in 1..Len(run'), run'[r].item # 0
                 PROVE  /\ queue[run'[r].item].text = run'[r].text
                        /\ queue[run'[r].item].status \notin {"queued", "deleted"}
      BY DEF EditsAreHonoured
    <3>1. CASE r \in 1..Len(run)
      BY <1>5, <3>1 DEF ChatInv, QueueInv, EditsAreHonoured
    <3>2. CASE r = n
      BY <1>1, <1>5, <1>b, <3>2 DEF Sees, Claimed
    <3> QED
      BY <1>5, <1>a, <3>1, <3>2
  <2> QED
    BY <2>1, <2>2, <2>3, <2>4 DEF QueueInv
<1> QED
  BY <1>9, <1>10, <1>11 DEF ChatInv

\* handleChatStream(), and the look at the queue that may call the pump.
LEMMA ChatPost ==
  ASSUME ChatInv, NEW p \in Task,
         \/ PostEnqueue(p) \/ PostList(p) \/ PostDecide(p) \/ PostEnqueueCold(p) \/ PostWake(p)
         \/ Relist(p) \/ Rewake(p)
  PROVE  ChatInv'
<1>a. /\ loc[p] \in Local /\ queue \in Seq(Row) /\ Len(queue) \in Nat
      /\ Placed(pc[p], loc[p], Len(queue), Len(run))
  BY LenProperties DEF ChatInv, TypeInv, TasksOK, StoreOK, PlacesOK
<1>b. loc' = loc => loc' = [loc EXCEPT ![p] = loc[p]]
  BY DEF ChatInv, TypeInv, TasksOK
<1>c. pumping \in BOOLEAN
  BY Zenon DEF ChatInv, TypeInv, StoreOK
<1>d. budget' \in [posts : Nat, edits : Nat, visits : Nat, faults : Nat]
  BY DEF ChatInv, TypeInv, StoreOK, PostEnqueue, PostList, PostDecide, PostEnqueueCold, PostWake,
     Relist, Rewake
<1>e. queue' = queue => queue' \in Seq(Row) /\ Advances(queue, queue')
  BY <1>a, AdvancesNot
<1>f. {"idle", "wake", "enqueueCold", "rewake", "claim"} \subseteq Plain
  BY DEF Plain
<1>g. ASSUME BecomePump(p, active), UNCHANGED <<backend, queue, run, active>> PROVE ChatInv'
  BY <1>c, <1>d, <1>e, <1>f, <1>g, BecomesPump, NoLocalType, ChatPlain
<1>h. ASSUME Return(p), UNCHANGED <<backend, run, active, pumping>>, queue' \in Seq(Row),
             Advances(queue, queue')
      PROVE  ChatInv'
  <2>1. PumpStep(p, "idle")
    BY <1>h DEF PumpStep, Pump
  <2> QED
    BY <1>c, <1>d, <1>f, <1>h, <2>1, NoLocalType, ChatPlain DEF Return
<1>1. CASE PostEnqueue(p)
  BY <1>1, <1>a, <1>h, Enqueued DEF PostEnqueue
<1>2. CASE PostList(p)
  <2> DEFINE b == Rows("queued") # {}
             c == [loc[p] EXCEPT !.flag = b]
  <2>1. b \in BOOLEAN
    BY Zenon
  <2>2. /\ pc[p] = "list" /\ Go(p, "decide") /\ loc' = [loc EXCEPT ![p] = c]
        /\ UNCHANGED <<backend, queue, run, active, pumping>>
    BY <1>2, Zenon DEF PostList, At
  <2>3. ~b => \A i \in 1..Len(queue) : queue[i].status # "queued"
    BY DEF Rows
  <2> HIDE DEF b
  <2>4. c \in Local /\ c.flag = b /\ c.ahead = loc[p].ahead
    <3>1. c \in Local
      BY <1>a, <2>1, LocalUpdates, Zenon
    <3> QED
      BY <1>a, <3>1, Zenon DEF Local
  <2> HIDE DEF c
  <2>5. loc[p].ahead <= Len(queue) /\ loc[p].ahead \in Nat
    BY <1>a, <2>2, LocalFields DEF Placed
  <2>6. ~c.flag => ~b
    BY <2>4, Zenon
  <2>7. Placed("decide", c, Len(queue), Len(run)) /\ Owns("decide", c, run, active)
        /\ Sees("decide", c, queue, run)
    BY <1>a, <2>3, <2>4, <2>5, <2>6 DEF Placed, Owns, Sees, Claimed, Owning
  <2>8. "decide" \in Label \ (Pump \cup Owning)
    BY DEF Label, Pump, Owning
  <2> QED
    BY <1>d, <2>2, <2>4, <2>7, <2>8, ChatReads
<1>3. CASE PostDecide(p)
  <2>1. pc[p] = "decide" /\ UNCHANGED <<backend, queue, pumping, budget>>
    BY <1>3 DEF PostDecide, At
  <2>2. CASE Go(p, "enqueueCold") /\ UNCHANGED <<run, active, loc>>
    <3>1. PumpStep(p, "enqueueCold")
      BY <2>1 DEF PumpStep, Pump
    <3> QED
      BY <1>a, <1>b, <1>c, <1>d, <1>e, <1>f, <2>1, <2>2, <3>1, ChatPlain
  <2>3. CASE Return(p) /\ UNCHANGED <<run, active>>
    BY <1>e, <1>h, <2>1, <2>3
  <2>4. CASE ~Occupied /\ Start(p, 0, 0, TRUE) /\ Go(p, "serve")
    BY <2>1, <2>4, ChatStart DEF Occupied
  <2> QED
    BY <1>3, <2>2, <2>3, <2>4 DEF PostDecide
<1>4. CASE PostEnqueueCold(p)
  <2>1. Enqueue /\ Go(p, "wake") /\ UNCHANGED <<backend, run, active, pumping, loc>>
    BY <1>4 DEF PostEnqueueCold
  <2>2. PumpStep(p, "wake") /\ queue' \in Seq(Row) /\ Advances(queue, queue')
    BY <1>a, <2>1, Enqueued DEF PumpStep, Pump
  <2> QED
    BY <1>a, <1>b, <1>c, <1>d, <1>f, <2>1, <2>2, ChatPlain
<1>5. CASE PostWake(p)
  BY <1>5, <1>g DEF PostWake
<1>6. CASE Relist(p)
  <2> DEFINE b == Rows("queued") # {}
             c == [loc[p] EXCEPT !.flag = b]
  <2>1. b \in BOOLEAN
    BY Zenon
  <2>2. /\ Go(p, "rewake") /\ loc' = [loc EXCEPT ![p] = c]
        /\ UNCHANGED <<backend, queue, run, active, pumping>>
    BY <1>6, Zenon DEF Relist, At
  <2> HIDE DEF b
  <2>3. c \in Local
    BY <1>a, <2>1, LocalUpdates, Zenon
  <2>4. PumpStep(p, "rewake")
    BY <2>2 DEF PumpStep, Pump
  <2> QED
    BY <1>c, <1>d, <1>e, <1>f, <2>2, <2>3, <2>4, ChatPlain
<1>7. CASE Rewake(p)
  <2>1. UNCHANGED <<backend, queue, run, active>>
    BY <1>7 DEF Rewake
  <2> QED
    BY <1>7, <1>e, <1>g, <1>h, <2>1 DEF Rewake
<1> QED
  BY <1>1, <1>2, <1>3, <1>4, <1>5, <1>6, <1>7

-----------------------------------------------------------------------------
(* The pump, and the end of a run.                                         *)

\* The pump claims the first queued row, or finds none.
LEMMA ChatClaim ==
  ASSUME ChatInv, NEW p \in Task, PumpClaim(p)
  PROVE  ChatInv'
<1>1. pc[p] = "claim" /\ UNCHANGED <<backend, run, active, pumping, budget>>
  BY DEF PumpClaim, At
<1>a. /\ loc[p] \in Local /\ queue \in Seq(Row) /\ run \in Seq(Run) /\ Len(queue) \in Nat
      /\ active \in 0..Len(run) /\ Len(run) \in Nat
      /\ budget' \in [posts : Nat, edits : Nat, visits : Nat, faults : Nat]
  BY <1>1, LenProperties DEF ChatInv, TypeInv, TasksOK, StoreOK
<1>b. loc' = loc => loc' = [loc EXCEPT ![p] = loc[p]]
  BY DEF ChatInv, TypeInv, TasksOK
<1>c. pumping' \in BOOLEAN
  BY <1>1, Zenon DEF ChatInv, TypeInv, StoreOK
<1>d. \A l \in {"finish", "start"} : PumpStep(p, l) /\ l \in Label /\ l \notin Owning
  BY <1>1 DEF PumpStep, Pump, Label, Owning
<1>2. CASE Go(p, "finish") /\ UNCHANGED <<queue, loc>>
  <2>1. queue' \in Seq(Row) /\ Advances(queue, queue') /\ "finish" \in Plain
    BY <1>2, <1>a, AdvancesNot DEF Plain
  <2> QED
    BY <1>1, <1>2, <1>a, <1>b, <1>c, <1>d, <2>1, ChatPlain
<1>3. ASSUME NEW i \in 1..Len(queue), IsNextQueued(i), SetRow(i, "running"),
             loc' = [loc EXCEPT ![p].item = i, ![p].text = queue[i].text], Go(p, "start")
      PROVE  ChatInv'
  <2> DEFINE c == [loc[p] EXCEPT !.item = i, !.text = queue[i].text]
  <2>1. queue[i].text \in Nat /\ i \in Nat
    <3>1. queue[i] \in Row
      BY <1>a, LenProperties
    <3>2. queue[i].text \in Nat
      BY <3>1, RowFields
    <3> QED
      BY <1>a, <3>2
  <2>2. c \in Local
    BY <1>a, <2>1, LocalUpdates
  <2>3. c.item = i /\ c.text = queue[i].text
    BY <1>a DEF Local
  <2>4. loc' = [loc EXCEPT ![p] = c]
    BY <1>3 DEF ChatInv, TypeInv, TasksOK
  <2> HIDE DEF c
  <2>5. "running" \in RowStatus
    BY DEF RowStatus
  <2>6. /\ queue' \in Seq(Row) /\ Len(queue') = Len(queue) /\ queue'[i].status = "running"
        /\ queue'[i].text = queue[i].text
        /\ \A j \in 1..Len(queue) \ {i} : queue'[j] = queue[j]
        /\ Advances(queue, queue')
    BY <1>3, <1>a, <2>5, RowSet, RowSetAdvances
  <2>7. StoreOK'
    <3>1. backend' \in Backends /\ run' \in Seq(Run) /\ active' \in 0..Len(run')
      BY <1>1, <1>a DEF ChatInv, TypeInv, StoreOK
    <3> QED
      BY <1>a, <1>c, <2>6, <3>1, Zenon DEF StoreOK
  <2>8. queue[i].status = "queued" /\ \A j \in 1..Len(queue) : queue[j].status = "queued" => i <= j
    BY <1>3 DEF IsNextQueued, Rows
  <2>9. Sees("start", c, queue', run')
    <3>1. \A r \in 1..Len(run') : run'[r].item < i
      BY <1>1, <2>8 DEF ChatInv, QueueInv, RunsBeforeQueued
    <3>2. \A j \in 1..Len(queue') : queue'[j].status = "queued" => i < j
      BY <2>6, <2>8
    <3> QED
      BY <2>3, <2>6, <3>1, <3>2 DEF Sees
  <2>10. Placed("start", c, Len(queue'), Len(run')) /\ Owns("start", c, run', active')
    BY <2>3, <2>6 DEF Placed, Owns, Owning
  <2>11. RunStep(p, "start") /\ AgentHoldsSession'
    BY <1>1, <1>d DEF RunStep, ChatInv, SessionInv, AgentHoldsSession
  <2> QED
    BY <1>3, <1>d, <2>2, <2>4, <2>6, <2>7, <2>9, <2>10, <2>11, ChatMove
<1> QED
  BY <1>2, <1>3 DEF PumpClaim

\* The owner of the run moves on: it changes its run, its row, or gives the
\* session back.
LEMMA ChatOwner ==
  ASSUME ChatInv, NEW p \in Task, pc[p] \in Owning, NEW l \in Label, Go(p, l),
         NEW c \in Local, loc' = [loc EXCEPT ![p] = c], PumpStep(p, l),
         backend' = backend, pumping' \in BOOLEAN,
         budget' \in [posts : Nat, edits : Nat, visits : Nat, faults : Nat],
         queue' \in Seq(Row), Advances(queue, queue'),
         run' = run \/ \E new : Updated(loc[p].run, new),
         active' \in {0, active},
         Placed(l, c, Len(queue'), Len(run)), Owns(l, c, run', active'), Sees(l, c, queue', run'),
         run'[loc[p].run].live => active' = active
  PROVE  ChatInv'
<1>a. run \in Seq(Run) /\ loc[p].run \in 1..Len(run) /\ loc[p].run = active /\ Len(run) \in Nat
  BY LenProperties DEF ChatInv, TypeInv, StoreOK, PlacesOK, Placed, SessionInv, Owns
<1>1. /\ run' \in Seq(Run) /\ RunsKept(run, run')
      /\ \A s \in 1..Len(run) \ {loc[p].run} : run'[s] = run[s]
  <2>1. CASE run' = run
    BY <1>a, <2>1 DEF RunsKept
  <2>2. CASE \E new : Updated(loc[p].run, new)
    BY <1>a, <2>2, RunUpdated
  <2> QED
    BY <2>1, <2>2
<1>2. Len(run') = Len(run)
  BY <1>1 DEF RunsKept
<1>3. StoreOK'
  <2>1. backend' \in Backends /\ active' \in 0..Len(run')
    BY <1>2, <1>a DEF ChatInv, TypeInv, StoreOK
  <2> QED
    BY <1>1, <2>1, Zenon DEF StoreOK
<1>4. RunStep(p, l)
  BY <1>1 DEF RunStep, ChatInv, SessionInv, OneOwner
<1>5. AgentHoldsSession'
  <2> SUFFICES ASSUME NEW r \in 1..Len(run), run'[r].live PROVE active' = r
    BY <1>2 DEF AgentHoldsSession
  <2>1. CASE r = loc[p].run
    BY <1>a, <2>1
  <2>2. CASE r # loc[p].run
    BY <1>1, <1>a, <2>2 DEF ChatInv, SessionInv, AgentHoldsSession
  <2> QED
    BY <2>1, <2>2
<1> QED
  BY <1>2, <1>3, <1>4, <1>5, ChatMove

LEMMA ChatPump ==
  ASSUME ChatInv, NEW p \in Task,
         \/ PumpStart(p) \/ PumpMark(p) \/ PumpAgentEnds(p) \/ PumpSettle(p) \/ PumpRelease(p)
         \/ PumpFinish(p) \/ ServeEnds(p)
  PROVE  ChatInv'
<1>a. /\ loc[p] \in Local /\ queue \in Seq(Row) /\ run \in Seq(Run) /\ Len(queue) \in Nat
      /\ Placed(pc[p], loc[p], Len(queue), Len(run)) /\ Owns(pc[p], loc[p], run, active)
      /\ Sees(pc[p], loc[p], queue, run)
  BY LenProperties DEF ChatInv, TypeInv, TasksOK, StoreOK, PlacesOK, SessionInv, QueueInv
<1>b. loc' = loc => loc' = [loc EXCEPT ![p] = loc[p]]
  BY DEF ChatInv, TypeInv, TasksOK
<1>c. pumping \in BOOLEAN
  BY Zenon DEF ChatInv, TypeInv, StoreOK
<1>d. budget' = budget /\ backend' = backend
      /\ budget' \in [posts : Nat, edits : Nat, visits : Nat, faults : Nat]
  BY DEF ChatInv, TypeInv, StoreOK, PumpStart, PumpMark, PumpAgentEnds, PumpSettle, PumpRelease,
     PumpFinish, ServeEnds
<1>e. queue' = queue => queue' \in Seq(Row) /\ Len(queue') = Len(queue) /\ Advances(queue, queue')
  BY <1>a, AdvancesNot
<1>f. pc[p] \in Claimed => loc[p].item \in 1..Len(queue)
  BY <1>a DEF Placed
<1>g. pc[p] \in Owning => loc[p].run \in 1..Len(run) /\ loc[p].run = active
  BY <1>a DEF Placed, Owns
<1>h. {"idle", "claim", "finish", "relist"} \subseteq Plain
  BY DEF Plain
<1>1. CASE PumpStart(p)
  <2>1. pc[p] = "start" /\ queue' = queue
    BY <1>1 DEF PumpStart, At
  <2>2. CASE pumping' = FALSE /\ Return(p) /\ UNCHANGED <<run, active>>
    <3>1. PumpStep(p, "idle") /\ pumping' \in BOOLEAN
      BY <2>1, <2>2, Zenon DEF PumpStep, Pump
    <3> QED
      BY <1>d, <1>e, <1>h, <2>1, <2>2, <3>1, NoLocalType, ChatPlain DEF Return
  <2>3. CASE ~Occupied /\ Start(p, loc[p].item, loc[p].text, FALSE) /\ Go(p, "mark")
             /\ pumping' = pumping
    <3>1. loc[p].text \in Nat
      BY <1>a, LocalFields
    <3> QED
      BY <1>d, <2>1, <2>3, <3>1, ChatStart DEF Occupied
  <2> QED
    BY <1>1, <2>2, <2>3 DEF PumpStart
<1>2. CASE PumpMark(p)
  <2>1. /\ pc[p] = "mark" /\ SetRow(loc[p].item, "running")
        /\ run' = [run EXCEPT ![loc[p].run].live = TRUE]
        /\ Go(p, "agent") /\ UNCHANGED <<active, pumping, loc>>
    BY <1>2 DEF PumpMark, At
  <2>2. "agent" \in Label /\ "mark" \in Owning \cap Claimed /\ "running" \in RowStatus
    BY DEF Label, Owning, Claimed, RowStatus
  <2>3. /\ queue' \in Seq(Row) /\ Len(queue') = Len(queue) /\ Advances(queue, queue')
        /\ queue'[loc[p].item].status = "running"
    BY <1>a, <1>f, <2>1, <2>2, RowSet, RowSetAdvances
  <2>4. \E new : Updated(loc[p].run, new)
    BY <1>a, <1>g, <2>1, <2>2, RunUpdates
  <2>5. PumpStep(p, "agent")
    BY <2>1 DEF PumpStep, Pump
  <2>6. Placed("agent", loc[p], Len(queue'), Len(run)) /\ Owns("agent", loc[p], run', active')
        /\ Sees("agent", loc[p], queue', run')
    BY <1>f, <1>g, <2>1, <2>2, <2>3 DEF Placed, Owns, Sees
  <2> QED
    BY <1>a, <1>b, <1>c, <1>d, <2>1, <2>2, <2>3, <2>4, <2>5, <2>6, ChatOwner
<1>3. CASE PumpAgentEnds(p)
  <2>1. /\ pc[p] = "agent" /\ run' = [run EXCEPT ![loc[p].run].live = FALSE]
        /\ Go(p, "settle") /\ UNCHANGED <<queue, active, pumping>>
    BY <1>3 DEF PumpAgentEnds, At
  <2>2. PICK ok \in BOOLEAN : loc' = [loc EXCEPT ![p].flag = ok]
    BY <1>3, Zenon DEF PumpAgentEnds
  <2> DEFINE c == [loc[p] EXCEPT !.flag = ok]
  <2>3. c \in Local /\ loc' = [loc EXCEPT ![p] = c]
    BY <1>a, <2>2, LocalUpdates, Zenon
  <2>4. c.run = loc[p].run /\ c.item = loc[p].item
    BY <1>a DEF Local
  <2> HIDE DEF c
  <2>5. "settle" \in Label /\ "agent" \in Owning \cap Claimed
    BY DEF Label, Owning, Claimed
  <2>6. PICK new : Updated(loc[p].run, new) /\ new.live = FALSE
    <3>1. loc[p].run \in 1..Len(run) /\ FALSE \in BOOLEAN
      BY <1>g, <2>1, <2>5
    <3> QED
      BY <1>a, <2>1, <3>1, RunUpdates, Zenon
  <2>7. run'[loc[p].run] = new
    BY <1>a, <1>g, <2>1, <2>5, <2>6, RunUpdated
  <2>8. ~run'[loc[p].run].live
    BY <2>6, <2>7, Zenon
  <2>9. PumpStep(p, "settle")
    BY <2>1 DEF PumpStep, Pump
  <2>10. Placed("settle", c, Len(queue'), Len(run)) /\ Owns("settle", c, run', active')
        /\ Sees("settle", c, queue', run')
    BY <1>a, <1>f, <1>g, <2>1, <2>4, <2>5, <2>8 DEF Placed, Owns, Sees
  <2> QED
    BY <1>c, <1>d, <1>e, <2>1, <2>3, <2>5, <2>6, <2>8, <2>9, <2>10, ChatOwner
<1>4. CASE PumpSettle(p)
  <2>1. /\ pc[p] = "settle" /\ SetRow(loc[p].item, Outcome(loc[p].flag))
        /\ Go(p, "release") /\ UNCHANGED <<run, active, pumping, loc>>
    BY <1>4 DEF PumpSettle, At
  <2>2. "release" \in Label /\ "settle" \in Owning \cap Claimed
    BY DEF Label, Owning, Claimed
  <2>3. PICK v \in {"succeeded", "failed"} : SetRow(loc[p].item, v)
    BY <2>1, Zenon DEF Outcome
  <2>4. v \in RowStatus
    BY DEF RowStatus
  <2>5. /\ queue' \in Seq(Row) /\ Len(queue') = Len(queue) /\ Advances(queue, queue')
        /\ queue'[loc[p].item].status = v
    BY <1>a, <1>f, <2>1, <2>2, <2>3, <2>4, RowSet, RowSetAdvances
  <2>6. PumpStep(p, "release")
    BY <2>1 DEF PumpStep, Pump
  <2>7. Placed("release", loc[p], Len(queue'), Len(run)) /\ Owns("release", loc[p], run', active')
        /\ Sees("release", loc[p], queue', run')
    BY <1>a, <1>f, <1>g, <2>1, <2>2, <2>5 DEF Placed, Owns, Sees
  <2> QED
    BY <1>a, <1>b, <1>c, <1>d, <2>1, <2>2, <2>5, <2>6, <2>7, ChatOwner
<1>5. CASE PumpRelease(p)
  <2>1. /\ pc[p] = "release" /\ run' = [run EXCEPT ![loc[p].run].status = "ended"]
        /\ active' = Freed(loc[p].run) /\ loc' = [loc EXCEPT ![p] = NoLocal]
        /\ Go(p, "claim") /\ UNCHANGED <<queue, pumping>>
    BY <1>5 DEF PumpRelease, At
  <2>2. "release" \in Owning \cap Claimed
    BY DEF Owning, Claimed
  <2>3. PICK new : Updated(loc[p].run, new) /\ new.live = run[loc[p].run].live
    <3>1. loc[p].run \in 1..Len(run) /\ FALSE \in BOOLEAN
      BY <1>g, <2>1, <2>2
    <3> QED
      BY <1>a, <2>1, <3>1, RunUpdates, Zenon
  <2>4. run'[loc[p].run] = new
    BY <1>a, <1>g, <2>1, <2>2, <2>3, RunUpdated
  <2>5. ~run[loc[p].run].live
    BY <1>a, <2>1 DEF Owns
  <2>6. ~run'[loc[p].run].live
    BY <2>3, <2>4, <2>5, Zenon
  <2>7. active' = 0 /\ PumpStep(p, "claim")
    BY <1>g, <2>1, <2>2 DEF Freed, PumpStep, Pump
  <2> QED
    BY <1>c, <1>d, <1>e, <1>h, <2>1, <2>2, <2>3, <2>6, <2>7, NoLocalType, PlainCounts, ChatOwner
<1>6. CASE PumpFinish(p)
  <2>1. /\ pc[p] = "finish" /\ pumping' = FALSE /\ loc' = [loc EXCEPT ![p] = NoLocal]
        /\ UNCHANGED <<queue, run, active>>
    BY <1>6 DEF PumpFinish, At
  <2>2. PICK l \in {"idle", "relist"} : Go(p, l)
    BY <1>6 DEF PumpFinish
  <2>3. PumpStep(p, l) /\ pumping' \in BOOLEAN
    BY <2>1, Zenon DEF PumpStep, Pump
  <2> QED
    BY <1>d, <1>e, <1>h, <2>1, <2>2, <2>3, NoLocalType, ChatPlain
<1>7. CASE ServeEnds(p)
  <2>1. /\ pc[p] = "serve" /\ active' = Freed(loc[p].run) /\ queue' = queue
        /\ run' = [run EXCEPT ![loc[p].run].live = FALSE, ![loc[p].run].status = "ended"]
        /\ BecomePump(p, active')
    BY <1>7 DEF ServeEnds, At
  <2>2. "serve" \in Owning
    BY DEF Owning
  <2>3. PICK new : Updated(loc[p].run, new) /\ new.live = FALSE
    <3>1. loc[p].run \in 1..Len(run) /\ FALSE \in BOOLEAN
      BY <1>g, <2>1, <2>2
    <3> QED
      BY <1>a, <2>1, <3>1, RunUpdates, Zenon
  <2>4. run'[loc[p].run] = new
    BY <1>a, <1>g, <2>1, <2>2, <2>3, RunUpdated
  <2>5. ~run'[loc[p].run].live
    BY <2>3, <2>4, Zenon
  <2>6. active' = 0
    BY <1>g, <2>1, <2>2 DEF Freed
  <2>7. PICK l \in {"idle", "claim"} : Go(p, l) /\ PumpStep(p, l)
    BY <1>c, <2>1, BecomesPump
  <2>8. loc' = [loc EXCEPT ![p] = NoLocal] /\ pumping' \in BOOLEAN
    BY <1>c, <2>1, BecomesPump
  <2> QED
    BY <1>d, <1>e, <1>h, <2>1, <2>2, <2>3, <2>5, <2>6, <2>7, <2>8, NoLocalType, PlainCounts,
       ChatOwner
<1> QED
  BY <1>1, <1>2, <1>3, <1>4, <1>5, <1>6, <1>7

-----------------------------------------------------------------------------
(* Faults, edits, deletions and cancels.                                   *)

LEMMA ChatFails ==
  ASSUME ChatInv, NEW p \in Task, StatementFails(p)
  PROVE  ChatInv'
<1>a. /\ loc[p] \in Local /\ queue \in Seq(Row) /\ run \in Seq(Run) /\ Len(queue) \in Nat
      /\ Placed(pc[p], loc[p], Len(queue), Len(run)) /\ Owns(pc[p], loc[p], run, active)
      /\ Sees(pc[p], loc[p], queue, run)
  BY LenProperties DEF ChatInv, TypeInv, TasksOK, StoreOK, PlacesOK, SessionInv, QueueInv
<1>b. loc' = loc => loc' = [loc EXCEPT ![p] = loc[p]]
  BY DEF ChatInv, TypeInv, TasksOK
<1>c. pumping \in BOOLEAN
  BY Zenon DEF ChatInv, TypeInv, StoreOK
<1>d. UNCHANGED <<backend, queue>>
      /\ budget' \in [posts : Nat, edits : Nat, visits : Nat, faults : Nat]
  BY Spent DEF ChatInv, TypeInv, StoreOK, StatementFails
<1>e. queue' \in Seq(Row) /\ Len(queue') = Len(queue) /\ Advances(queue, queue')
  BY <1>a, <1>d, AdvancesNot
<1>h. {"idle", "finish"} \subseteq Plain
  BY DEF Plain
<1>1. CASE Return(p) /\ UNCHANGED <<run, active, pumping>>
  <2>1. PumpStep(p, "idle")
    BY <1>1 DEF PumpStep, Pump
  <2> QED
    BY <1>1, <1>c, <1>d, <1>e, <1>h, <2>1, NoLocalType, ChatPlain DEF Return
<1>2. CASE pc[p] = "claim" /\ Go(p, "finish") /\ UNCHANGED <<run, active, pumping, loc>>
  <2>1. PumpStep(p, "finish")
    BY <1>2 DEF PumpStep, Pump
  <2> QED
    BY <1>2, <1>a, <1>b, <1>c, <1>d, <1>e, <1>h, <2>1, ChatPlain
<1>3. CASE pc[p] = "mark" /\ pumping' = FALSE /\ Return(p) /\ UNCHANGED <<run, active>>
  <2>1. PumpStep(p, "idle") /\ pumping' \in BOOLEAN
    BY <1>3, Zenon DEF PumpStep, Pump
  <2> QED
    BY <1>3, <1>d, <1>e, <1>h, <2>1, NoLocalType, ChatPlain DEF Return
<1>4. CASE /\ pc[p] = "settle" /\ loc' = [loc EXCEPT ![p].flag = FALSE] /\ Go(p, "settle")
           /\ UNCHANGED <<run, active, pumping>>
  <2> DEFINE c == [loc[p] EXCEPT !.flag = FALSE]
  <2>1. FALSE \in BOOLEAN /\ "settle" \in Label
    BY DEF Label
  <2>2. c \in Local /\ loc' = [loc EXCEPT ![p] = c]
    BY <1>4, <1>a, <2>1, LocalUpdates, Zenon
  <2>3. c.run = loc[p].run /\ c.item = loc[p].item
    BY <1>a DEF Local
  <2> HIDE DEF c
  <2>4. /\ Placed("settle", c, Len(queue), Len(run)) /\ Owns("settle", c, run, active)
        /\ Sees("settle", c, queue, run)
    BY <1>4, <1>a, <2>3 DEF Placed, Owns, Sees
  <2> QED
    BY <1>4, <1>d, <2>1, <2>2, <2>4, ChatReads
<1>5. CASE /\ pc[p] = "settle" /\ run' = [run EXCEPT ![loc[p].run].status = "ended"]
           /\ active' = Freed(loc[p].run) /\ Go(p, "finish") /\ UNCHANGED <<pumping, loc>>
  <2>1. pc[p] \in Owning /\ pc[p] \in Pump
    BY <1>5 DEF Owning, Pump
  <2>2. loc[p].run \in 1..Len(run) /\ loc[p].run = active /\ FALSE \in BOOLEAN
    BY <1>a, <2>1 DEF Placed, Owns
  <2>3. PICK new : Updated(loc[p].run, new) /\ new.live = run[loc[p].run].live
    BY <1>5, <1>a, <2>2, RunUpdates, Zenon
  <2>4. run'[loc[p].run] = new
    BY <1>a, <2>2, <2>3, RunUpdated
  <2>5. ~run[loc[p].run].live
    BY <1>5, <1>a DEF Owns
  <2>6. ~run'[loc[p].run].live
    BY <2>3, <2>4, <2>5, Zenon
  <2>7. active' = 0 /\ PumpStep(p, "finish")
    BY <1>5, <2>1, <2>2 DEF Freed, PumpStep
  <2> QED
    BY <1>5, <1>a, <1>b, <1>c, <1>d, <1>e, <1>h, <2>1, <2>3, <2>6, <2>7, PlainCounts, ChatOwner
<1> QED
  BY <1>1, <1>2, <1>3, <1>4, <1>5 DEF StatementFails

\* No task moves: rows move forward, and no agent starts or stops.
LEMMA ChatStays ==
  ASSUME ChatInv, UNCHANGED <<backend, active, pumping, pc, loc, loop>>,
         budget' \in [posts : Nat, edits : Nat, visits : Nat, faults : Nat],
         queue' \in Seq(Row), Advances(queue, queue'),
         run' \in Seq(Run), RunsKept(run, run'),
         \A r \in 1..Len(run) : run'[r].live = run[r].live
  PROVE  ChatInv'
<1>1. /\ Len(queue') >= Len(queue) /\ Len(run') = Len(run) /\ Len(run) \in Nat
      /\ Len(queue) \in Nat /\ Len(queue') \in Nat
  BY LenProperties DEF Advances, RunsKept, ChatInv, TypeInv, StoreOK
<1>2. StoreOK'
  <2>1. pumping' \in BOOLEAN
    BY Zenon DEF ChatInv, TypeInv, StoreOK
  <2>2. backend' \in Backends /\ active' \in 0..Len(run')
    BY <1>1 DEF ChatInv, TypeInv, StoreOK
  <2> QED
    BY <2>1, <2>2, Zenon DEF StoreOK
<1>3. TasksOK'
  BY DEF ChatInv, TypeInv, TasksOK
<1>4. \A r \in 1..Len(run') : run'[r].item \in 0..Len(queue')
  BY <1>1 DEF RunsKept, ChatInv, TypeInv, PlacesOK
<1>5. TypeInv'
  BY <1>1, <1>2, <1>3, <1>4, PlacesMove DEF ChatInv
<1>6. AgentHoldsSession'
  BY <1>1 DEF AgentHoldsSession, ChatInv, SessionInv
<1>7. ASSUME NEW q \in Task PROVE Owns(pc[q], loc[q], run', active)
  <2>1. Owns(pc[q], loc[q], run, active) /\ Placed(pc[q], loc[q], Len(queue), Len(run))
    BY DEF ChatInv, SessionInv, TypeInv, PlacesOK
  <2> QED
    BY <2>1 DEF Owns, Placed, Owning
<1>8. SessionInv'
  BY <1>6, <1>7 DEF ChatInv, SessionInv, OnePump, OneOwner
<1>9. QueueInv'
  BY <1>5, QueueKept DEF ChatInv
<1> QED
  BY <1>5, <1>8, <1>9 DEF ChatInv

LEMMA ChatRoutes ==
  ASSUME ChatInv, EditQueued \/ DeleteQueued \/ Cancel
  PROVE  ChatInv'
<1>a. queue \in Seq(Row) /\ run \in Seq(Run)
  BY DEF ChatInv, TypeInv, StoreOK
<1>b. /\ UNCHANGED <<backend, active, pumping, pc, loc, loop>>
      /\ budget' \in [posts : Nat, edits : Nat, visits : Nat, faults : Nat]
  BY Spent DEF EditQueued, DeleteQueued, Cancel, ChatInv, TypeInv, StoreOK
<1>c. run' = run => /\ run' \in Seq(Run) /\ RunsKept(run, run')
                    /\ \A r \in 1..Len(run) : run'[r].live = run[r].live
  BY <1>a DEF RunsKept
<1>1. CASE EditQueued
  <2>1. queue' \in Seq(Row) /\ Advances(queue, queue')
    BY <1>1, <1>a, RowEdited DEF EditQueued
  <2> QED
    BY <1>1, <1>b, <1>c, <2>1, ChatStays DEF EditQueued
<1>2. CASE DeleteQueued
  <2>1. queue' \in Seq(Row) /\ Advances(queue, queue')
    BY <1>2, <1>a, RowSet, RowSetAdvances DEF DeleteQueued, RowStatus, Editable
  <2> QED
    BY <1>2, <1>b, <1>c, <2>1, ChatStays DEF DeleteQueued
<1>3. CASE Cancel
  <2>1. active \in 1..Len(run) /\ FALSE \in BOOLEAN
    BY <1>3, <1>a, LenProperties DEF Cancel, Occupied, ChatInv, TypeInv, StoreOK
  <2>2. run' = [run EXCEPT ![active].status = "ended"] /\ queue' = queue
    BY <1>3 DEF Cancel
  <2>3. PICK new : Updated(active, new) /\ new.live = run[active].live
    BY <1>a, <2>1, <2>2, RunUpdates, Zenon
  <2>4. /\ run' \in Seq(Run) /\ RunsKept(run, run') /\ run'[active] = new
        /\ \A s \in 1..Len(run) \ {active} : run'[s] = run[s]
    BY <1>a, <2>1, <2>3, RunUpdated
  <2>5. \A r \in 1..Len(run) : run'[r].live = run[r].live
    BY <2>3, <2>4, Zenon
  <2>6. queue' \in Seq(Row) /\ Advances(queue, queue')
    BY <1>a, <2>2, AdvancesNot
  <2> QED
    BY <1>b, <2>4, <2>5, <2>6, ChatStays
<1> QED
  BY <1>1, <1>2, <1>3

\* The process dies: no task, no agent and no registry are left, the rows stay.
LEMMA ChatCrash ==
  ASSUME ChatInv, Crash
  PROVE  ChatInv'
<1>a. queue \in Seq(Row) /\ run \in Seq(Run) /\ Len(run) \in Nat /\ Len(queue) \in Nat
  BY LenProperties DEF ChatInv, TypeInv, StoreOK
<1>1. /\ \A q \in Task : pc'[q] = "idle" /\ loc'[q] = NoLocal
      /\ active' = 0 /\ UNCHANGED <<backend, queue>>
      /\ budget' \in [posts : Nat, edits : Nat, visits : Nat, faults : Nat]
  BY Spent DEF Crash, ChatInv, TypeInv, StoreOK
<1>2. /\ run' \in Seq(Run) /\ RunsKept(run, run') /\ Len(run') = Len(run)
      /\ \A r \in 1..Len(run) : ~run'[r].live
  <2> DEFINE dead(r) == [run[r] EXCEPT !.status = "ended", !.live = FALSE]
  <2>1. ASSUME NEW r \in 1..Len(run)
        PROVE  /\ dead(r) \in Run /\ dead(r).item = run[r].item /\ dead(r).text = run[r].text
               /\ ~dead(r).live
    <3>1. run[r] \in Run /\ "ended" \in {"running", "ended"} /\ FALSE \in BOOLEAN
      BY <1>a, LenProperties
    <3> DEFINE mid == [run[r] EXCEPT !.status = "ended"]
               end == [mid EXCEPT !.live = FALSE]
    <3>2. mid \in Run /\ mid.item = run[r].item /\ mid.text = run[r].text
      BY <3>1, Zenon DEF Run
    <3> HIDE DEF mid
    <3>3. end \in Run /\ end.item = mid.item /\ end.text = mid.text /\ end.live = FALSE
      BY <3>1, <3>2, Zenon DEF Run
    <3>4. dead(r) = end
      BY DEF mid
    <3> HIDE DEF end, dead
    <3> QED
      BY <3>2, <3>3, <3>4, Zenon
  <2>2. run' = [r \in 1..Len(run) |-> dead(r)]
    BY DEF Crash
  <2> HIDE DEF dead
  <2>3. run' \in [1..Len(run) -> Run]
    BY <2>1, <2>2
  <2>4. run' \in Seq(Run)
    BY <1>a, <2>3, SeqDef
  <2>5. Len(run') = Len(run)
    BY <1>a, <2>3, <2>4, LenProperties
  <2>6. \A r \in 1..Len(run) : run'[r] = dead(r)
    BY <2>2
  <2> QED
    BY <2>1, <2>4, <2>5, <2>6 DEF RunsKept
<1>3. StoreOK'
  <2>1. pumping' \in BOOLEAN
    BY Zenon DEF Crash
  <2>2. backend' \in Backends /\ active' \in 0..Len(run') /\ queue' \in Seq(Row)
    BY <1>1, <1>2, <1>a DEF ChatInv, TypeInv, StoreOK
  <2> QED
    BY <1>1, <1>2, <2>1, <2>2, Zenon DEF StoreOK
<1>4. TasksOK'
  BY NoLocalType DEF Crash, TasksOK, Label
<1>5. \A r \in 1..Len(run') : run'[r].item \in 0..Len(queue')
  BY <1>1, <1>2 DEF RunsKept, ChatInv, TypeInv, PlacesOK
<1>6. ASSUME NEW q \in Task
      PROVE  /\ Placed(pc'[q], loc'[q], Len(queue'), Len(run'))
             /\ Owns(pc'[q], loc'[q], run', active') /\ Sees(pc'[q], loc'[q], queue', run')
  <2>1. "idle" \in Plain
    BY DEF Plain
  <2> QED
    BY <1>1, <2>1, PlainCounts
<1>7. TypeInv'
  BY <1>1, <1>2, <1>3, <1>4, <1>5, <1>6, <1>a, PlacesMove DEF ChatInv
<1>8. SessionInv'
  BY <1>1, <1>2, <1>6 DEF SessionInv, OnePump, OneOwner, Pump, Owning, AgentHoldsSession
<1>9. QueueInv'
  BY <1>1, <1>2, <1>6, <1>7, <1>a, AdvancesNot, QueueKept DEF ChatInv
<1> QED
  BY <1>7, <1>8, <1>9 DEF ChatInv

LEMMA ChatInductive == ChatInv /\ [Next]_vars => ChatInv'
<1> SUFFICES ASSUME ChatInv, [Next]_vars PROVE ChatInv'
  OBVIOUS
<1>1. CASE UNCHANGED vars
  <2>1. queue \in Seq(Row) /\ run \in Seq(Run)
    BY DEF ChatInv, TypeInv, StoreOK
  <2>2. budget' \in [posts : Nat, edits : Nat, visits : Nat, faults : Nat]
    BY <1>1 DEF vars, ChatInv, TypeInv, StoreOK
  <2> QED
    BY <1>1, <2>1, <2>2, AdvancesNot, ChatStays DEF vars, RunsKept
<1>2. ASSUME NEW p \in Task, Work(p) PROVE ChatInv'
  BY <1>2, ChatPost, ChatClaim, ChatPump DEF Work
<1> QED
  BY <1>1, <1>2, ChatArrive, ChatFails, ChatRoutes, ChatCrash DEF Next

-----------------------------------------------------------------------------
(* The theorems.                                                           *)

\* Every reachable state of the session is well typed: no interleaving or fault
\* writes an unknown row status or points the registry at a run that is none.
THEOREM TypeCorrect == Spec => []TypeOK
<1>1. ChatInv => TypeOK
  BY Zenon DEF ChatInv, TypeInv, StoreOK, TasksOK, TypeOK
<1> QED
  BY <1>1, ChatInit, ChatInductive, PTL DEF Spec

\* On either store, whatever is cancelled, posted, pumped or lost in a crash: an
\* agent works only for the run that holds the session in the registry, so never
\* beside another one (releaseSession).
THEOREM OneAgent == Spec => []AgentHoldsSession
<1>1. ChatInv => AgentHoldsSession
  BY DEF ChatInv, SessionInv
<1> QED
  BY <1>1, ChatInit, ChatInductive, PTL DEF Spec

\* claimNext() and the pump run queued messages in the order they were queued and
\* none of them twice, also when the pump dies, is started again or loses the race
\* for the registry against a POST.
THEOREM InOrderOnce == Spec => []QueueRunsInOrderOnce
<1>1. ChatInv => QueueRunsInOrderOnce
  BY DEF ChatInv, QueueInv
<1> QED
  BY <1>1, ChatInit, ChatInductive, PTL DEF Spec

\* An accepted edit or deletion of a queued message is what happens: the claim and
\* the conditional statements of PATCH and DELETE exclude each other.
THEOREM EditsHonoured == Spec => []EditsAreHonoured
<1>1. ChatInv => EditsAreHonoured
  BY DEF ChatInv, QueueInv
<1> QED
  BY <1>1, ChatInit, ChatInductive, PTL DEF Spec

\* Only the third branch of PostDecide serves a POST itself.
LEMMA ServedDirectly ==
  ASSUME ChatInv, [Next]_vars, NEW p \in Task, pc[p] = "decide", pc'[p] = "serve"
  PROVE  ~loc[p].flag
<1>a. pc \in [Task -> Label]
  BY DEF ChatInv, TypeInv, TasksOK
<1>1. ~UNCHANGED pc
  OBVIOUS
<1>2. ~Crash
  BY DEF Crash
<1>3. PICK q \in Task : Arrive(q) \/ Work(q) \/ StatementFails(q)
  BY <1>1, <1>2 DEF Next, vars, EditQueued, DeleteQueued, Cancel
<1>4. \E l : Go(q, l)
  <2>1. \A act : BecomePump(q, act) => \E l : Go(q, l)
    BY Zenon DEF BecomePump, Return
  <2>2. CASE Arrive(q)
    BY <2>1, <2>2 DEF Arrive, PostArrive, ReadHistory, CancelNothing
  <2>3. CASE StatementFails(q)
    BY <2>3 DEF StatementFails, Return
  <2>4. CASE \/ PostEnqueue(q) \/ PostList(q) \/ PostDecide(q) \/ PostEnqueueCold(q)
             \/ PostWake(q) \/ ServeEnds(q) \/ Relist(q) \/ Rewake(q)
    BY <2>1, <2>4 DEF PostEnqueue, PostList, PostDecide, PostEnqueueCold, PostWake, ServeEnds,
       Relist, Rewake, Return
  <2>5. CASE \/ PumpClaim(q) \/ PumpStart(q) \/ PumpMark(q) \/ PumpAgentEnds(q)
             \/ PumpSettle(q) \/ PumpRelease(q) \/ PumpFinish(q)
    BY <2>5 DEF PumpClaim, PumpStart, PumpMark, PumpAgentEnds, PumpSettle, PumpRelease,
       PumpFinish, Return
  <2> QED
    BY <1>3, <2>2, <2>3, <2>4, <2>5 DEF Work
<1>5. q = p
  BY <1>4, <1>a DEF Go
<1>6. PostDecide(p)
  BY <1>3, <1>5 DEF Arrive, Work, PostArrive, ReadHistory, CancelNothing, StatementFails,
     PostEnqueue, PostList, PostEnqueueCold, PostWake, ServeEnds, PumpClaim, PumpStart, PumpMark,
     PumpAgentEnds, PumpSettle, PumpRelease, PumpFinish, Relist, Rewake, At
<1> QED
  BY <1>6, <1>a DEF PostDecide, Go

\* A POST that handleChatStream() serves itself has no message queued ahead of it
\* that was there when it arrived, on either store.
THEOREM NeverOvertakes == Spec => NoOvertaking
<1>1. ChatInv /\ [Next]_vars =>
        \A p \in Task : pc[p] = "decide" /\ pc'[p] = "serve" =>
          \A i \in 1..loc[p].ahead : queue[i].status # "queued"
  BY ServedDirectly DEF ChatInv, QueueInv, Sees
<1> QED
  BY <1>1, ChatInit, ChatInductive, PTL DEF Spec, NoOvertaking
=============================================================================
