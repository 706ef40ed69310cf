----------------------------- MODULE ChatQueue -----------------------------
(***************************************************************************)
(* One chat session of the API gateway: messages posted while an agent run *)
(* is active are put in the chat_message_queue table and run one after the *)
(* other by the queue's pump.  A POST, a queue edit, a history read, a     *)
(* cancel and the pump are tasks of one process that share the run         *)
(* registry (at most one run per session) and the queue.                   *)
(*                                                                         *)
(* One action of a task is one database statement, or what it does between *)
(* two awaits.  With backend = "postgres" every statement is a yield       *)
(* point; with "sqlite" the driver is synchronous and a task keeps the     *)
(* event loop (`loop') until it waits for an agent.                        *)
(*                                                                         *)
(* Abstracted: the text of messages (a version counts its edits), users    *)
(* and permissions, the HTTP streams, and the session's event log, which   *)
(* SessionStream models.  A deleted row keeps its place with status        *)
(* "deleted".                                                              *)
(***************************************************************************)
EXTENDS Integers, Sequences, FiniteSets

CONSTANTS
  Task,        \* handlers in flight at once
  None,        \* not a task: the event loop is free
  Backends,    \* the stores considered: "sqlite", "postgres"
  MaxPosts,    \* bound: messages posted
  MaxEdits,    \* bound: queued messages changed or deleted
  MaxVisits,   \* bound: history reads and cancels
  MaxFaults    \* bound: crashes and failing statements

ASSUME ConstantsAssumption ==
  /\ None \notin Task
  /\ Backends \subseteq {"sqlite", "postgres"}
  /\ MaxPosts \in Nat /\ MaxEdits \in Nat /\ MaxVisits \in Nat /\ MaxFaults \in Nat

VARIABLES
  backend,   \* the store of this deployment
  queue,     \* the session's rows of chat_message_queue, in position order
  run,       \* every run ever registered; its id is its place
  active,    \* the registry's run for the session, 0 when it has none
  pumping,   \* the session is in pumpingSessions
  pc,        \* where every task is
  loc,       \* the local variables of every task
  loop,      \* the task that holds the event loop (sqlite), or None
  budget     \* messages, edits, visits and faults left

vars == <<backend, queue, run, active, pumping, pc, loc, loop, budget>>

RowStatus == {"queued", "running", "succeeded", "failed", "deleted"}
Row == [status : RowStatus, text : Nat]

\* A run: the queue row it serves (0 for a message run by its own POST), the
\* text it was given, its status in the registry, and whether its agent works.
Run == [item : Nat, text : Nat, status : {"running", "ended"}, live : BOOLEAN]

Label == {"idle", "enqueue", "list", "decide", "enqueueCold", "wake", "serve",
          "claim", "start", "mark", "agent", "settle", "release", "finish",
          "relist", "rewake"}

\* A task's locals: the row it claimed and its text, its run, a Boolean read or
\* decided earlier, and how many rows the queue had when its request arrived.
Local == [item : Nat, text : Nat, run : Nat, flag : BOOLEAN, ahead : Nat]
NoLocal == [item |-> 0, text |-> 0, run |-> 0, flag |-> FALSE, ahead |-> 0]

Rows(status) == {i \in 1..Len(queue) : queue[i].status = status}

TypeOK ==
  /\ backend \in Backends
  /\ queue \in Seq(Row)
  /\ run \in Seq(Run)
  /\ active \in 0..Len(run)
  /\ pumping \in BOOLEAN
  /\ pc \in [Task -> Label]
  /\ loc \in [Task -> Local]
  /\ loop \in Task \cup {None}
  /\ budget \in [posts : Nat, edits : Nat, visits : Nat, faults : Nat]

Init ==
  /\ backend \in Backends
  /\ queue = <<>>
  /\ run = <<>>
  /\ active = 0
  /\ pumping = FALSE
  /\ pc = [p \in Task |-> "idle"]
  /\ loc = [p \in Task |-> NoLocal]
  /\ loop = None
  /\ budget = [posts |-> MaxPosts, edits |-> MaxEdits, visits |-> MaxVisits,
               faults |-> MaxFaults]

-----------------------------------------------------------------------------
(* The event loop, and the statements of the queue's repository.           *)

Turn(p) == loop \in {None, p}
At(p, label) == pc[p] = label /\ Turn(p)

\* p goes on to a label; it gives up the loop when it waits or has returned.
Go(p, label) ==
  /\ pc' = [pc EXCEPT ![p] = label]
  /\ loop' = IF backend = "sqlite" /\ label \notin {"idle", "serve", "agent"}
             THEN p ELSE None

Return(p) == Go(p, "idle") /\ loc' = [loc EXCEPT ![p] = NoLocal]

Spend(what) == budget[what] > 0 /\ budget' = [budget EXCEPT ![what] = @ - 1]

Enqueue == queue' = Append(queue, [status |-> "queued", text |-> 0])
SetRow(i, status) == queue' = [queue EXCEPT ![i].status = status]

\* claimNext() takes the queued row with the lowest position.
IsLastQueued(i) == i \in Rows("queued") /\ \A j \in Rows("queued") : j <= i   \* mutant
IsNextQueued(i) == i \in Rows("queued") /\ \A j \in Rows("queued") : i <= j

\* updateQueuedContent() and deleteQueued() are for rows that are still queued.
EditableUnfinished(i) == queue[i].status \in {"queued", "running"}   \* mutant
Editable(i) == queue[i].status = "queued"

(* The run registry.                                                       *)

Occupied == active # 0

\* start(): one run per session; the caller's agent may not be at work yet.
Start(p, item, text, live) ==
  /\ run' = Append(run, [item |-> item, text |-> text, status |-> "running",
                         live |-> live])
  /\ active' = Len(run) + 1
  /\ loc' = [loc EXCEPT ![p].run = Len(run) + 1]

\* releaseSession() of the run r, which frees the index only if r holds it.
Freed(r) == IF active = r THEN 0 ELSE active

\* pumpSessionQueue(): nothing while another pump works or a run is active.
BecomePump(p, act) ==
  IF pumping \/ act # 0
  THEN Return(p) /\ UNCHANGED pumping
  ELSE Go(p, "claim") /\ pumping' = TRUE /\ loc' = [loc EXCEPT ![p] = NoLocal]

-----------------------------------------------------------------------------
(* POST /chat (handleChatStream) on an existing session.                   *)

\* A busy session takes the message into the queue, an idle one looks there.
PostArrive(p) ==
  /\ At(p, "idle")
  /\ Spend("posts")
  /\ loc' = [loc EXCEPT ![p].ahead = Len(queue)]
  /\ Go(p, IF Occupied THEN "enqueue" ELSE "list")
  /\ UNCHANGED <<backend, queue, run, active, pumping>>

\* The message is queued behind the active run, whose end starts the pump.
PostEnqueue(p) ==
  /\ At(p, "enqueue")
  /\ Enqueue
  /\ Return(p)
  /\ UNCHANGED <<backend, run, active, pumping, budget>>

PostList(p) ==
  /\ At(p, "list")
  /\ loc' = [loc EXCEPT ![p].flag = Rows("queued") # {}]
  /\ Go(p, "decide")
  /\ UNCHANGED <<backend, queue, run, active, pumping, budget>>

PostDecideEager(p) ==   \* mutant: the queue is not looked at
  /\ At(p, "decide")
  /\ \/ Occupied /\ Return(p) /\ UNCHANGED <<run, active>>
     \/ ~Occupied /\ Start(p, 0, 0, TRUE) /\ Go(p, "serve")
  /\ UNCHANGED <<backend, queue, pumping, budget>>
\* Behind queued messages the new one is queued too; otherwise start() either
\* registers a run for it or reports RUN_ALREADY_ACTIVE.
PostDecide(p) ==
  /\ At(p, "decide")
  /\ \/ loc[p].flag /\ Go(p, "enqueueCold") /\ UNCHANGED <<run, active, loc>>
     \/ ~loc[p].flag /\ Occupied /\ Return(p) /\ UNCHANGED <<run, active>>
     \/ ~loc[p].flag /\ ~Occupied /\ Start(p, 0, 0, TRUE) /\ Go(p, "serve")
  /\ UNCHANGED <<backend, queue, pumping, budget>>

PostEnqueueCold(p) ==
  /\ At(p, "enqueueCold")
  /\ Enqueue
  /\ Go(p, "wake")
  /\ UNCHANGED <<backend, run, active, pumping, loc, budget>>

PostWake(p) ==
  /\ At(p, "wake")
  /\ BecomePump(p, active)
  /\ UNCHANGED <<backend, queue, run, active, budget>>

\* The agent's promise settles: the run is complete, the session is released
\* and the pump is called.
ServeEnds(p) ==
  /\ At(p, "serve")
  /\ run' = [run EXCEPT ![loc[p].run].live = FALSE, ![loc[p].run].status = "ended"]
  /\ active' = Freed(loc[p].run)
  /\ BecomePump(p, active')
  /\ UNCHANGED <<backend, queue, budget>>

-----------------------------------------------------------------------------
(* The other routes of the session.                                        *)

\* PATCH and DELETE of a queued message: one conditional statement.
EditQueued ==
  /\ loop = None
  /\ Spend("edits")
  /\ \E i \in 1..Len(queue) :
       Editable(i) /\ queue' = [queue EXCEPT ![i].text = @ + 1]
  /\ UNCHANGED <<backend, run, active, pumping, pc, loc, loop>>

DeleteQueued ==
  /\ loop = None
  /\ Spend("edits")
  /\ \E i \in 1..Len(queue) : Editable(i) /\ SetRow(i, "deleted")
  /\ UNCHANGED <<backend, run, active, pumping, pc, loc, loop>>

\* GET messages reads the queue, and pumps it if something waits there.
ReadHistory(p) ==
  /\ At(p, "idle")
  /\ Spend("visits")
  /\ Go(p, "relist")
  /\ UNCHANGED <<backend, queue, run, active, pumping, loc>>

\* A cancel marks the run of a POST complete at once while its agent unwinds:
\* the index stays taken.  (Cancelling a run of the pump only signals its
\* agent, whose outcome is free here anyway.)
CancelReleases ==   \* mutant: the session is released with the response
  /\ loop = None
  /\ Occupied
  /\ run[active].status = "running" /\ run[active].item = 0
  /\ Spend("visits")
  /\ run' = [run EXCEPT ![active].status = "ended"]
  /\ active' = 0
  /\ UNCHANGED <<backend, queue, pumping, pc, loc, loop>>
Cancel ==
  /\ loop = None
  /\ Occupied
  /\ run[active].status = "running" /\ run[active].item = 0
  /\ Spend("visits")
  /\ run' = [run EXCEPT ![active].status = "ended"]
  /\ UNCHANGED <<backend, queue, active, pumping, pc, loc, loop>>

\* With nothing to cancel, cancel-active pumps the queue.
CancelNothing(p) ==
  /\ At(p, "idle")
  /\ Occupied => run[active].status # "running"
  /\ Spend("visits")
  /\ BecomePump(p, active)
  /\ UNCHANGED <<backend, queue, run, active>>

-----------------------------------------------------------------------------
(* The pump: claim a row, register its run, run it, record how it ended,   *)
(* release the session, and again; then look at the queue once more.       *)

PumpClaim(p) ==
  /\ At(p, "claim")
  /\ \/ Rows("queued") = {} /\ Go(p, "finish") /\ UNCHANGED <<queue, loc>>
     \/ \E i \in 1..Len(queue) :
          /\ IsNextQueued(i)
          /\ SetRow(i, "running")
          /\ loc' = [loc EXCEPT ![p].item = i, ![p].text = queue[i].text]
          /\ Go(p, "start")
  /\ UNCHANGED <<backend, run, active, pumping, budget>>

\* start() throws when a POST got in first: the pump ends, the row stays
\* "running" and the error goes to the process's unhandledRejection log.
PumpStart(p) ==
  /\ At(p, "start")
  /\ \/ Occupied /\ pumping' = FALSE /\ Return(p) /\ UNCHANGED <<run, active>>
     \/ /\ ~Occupied
        /\ Start(p, loc[p].item, loc[p].text, FALSE)
        /\ Go(p, "mark")
        /\ UNCHANGED pumping
  /\ UNCHANGED <<backend, queue, budget>>

\* markRunning() and the queued_message_started event; then the agent works.
PumpMark(p) ==
  /\ At(p, "mark")
  /\ SetRow(loc[p].item, "running")
  /\ run' = [run EXCEPT ![loc[p].run].live = TRUE]
  /\ Go(p, "agent")
  /\ UNCHANGED <<backend, active, pumping, loc, budget>>

\* handleMessage() resolves or throws.
PumpAgentEnds(p) ==
  /\ At(p, "agent")
  /\ run' = [run EXCEPT ![loc[p].run].live = FALSE]
  /\ \E ok \in BOOLEAN : loc' = [loc EXCEPT ![p].flag = ok]
  /\ Go(p, "settle")
  /\ UNCHANGED <<backend, queue, active, pumping, budget>>

\* markSucceeded() or markFailed().
OutcomeOfRun(ok) == IF ok THEN "ended" ELSE "failed"   \* mutant: a run's status
Outcome(ok) == IF ok THEN "succeeded" ELSE "failed"

PumpSettle(p) ==
  /\ At(p, "settle")
  /\ SetRow(loc[p].item, Outcome(loc[p].flag))
  /\ Go(p, "release")
  /\ UNCHANGED <<backend, run, active, pumping, loc, budget>>

\* markComplete() and releaseSession(), then the loop's condition: the index
\* was ours, so it is free.
PumpReleaseForgets(p) ==   \* mutant: one message and no more
  /\ At(p, "release")
  /\ run' = [run EXCEPT ![loc[p].run].status = "ended"]
  /\ active' = Freed(loc[p].run)
  /\ pumping' = FALSE
  /\ Return(p)
  /\ UNCHANGED <<backend, queue, budget>>
PumpRelease(p) ==
  /\ At(p, "release")
  /\ run' = [run EXCEPT ![loc[p].run].status = "ended"]
  /\ active' = Freed(loc[p].run)
  /\ loc' = [loc EXCEPT ![p] = NoLocal]
  /\ Go(p, "claim")
  /\ UNCHANGED <<backend, queue, pumping, budget>>

\* The outer finally: no longer pumping; unless a run is active, look again.
PumpFinish(p) ==
  /\ At(p, "finish")
  /\ pumping' = FALSE
  /\ loc' = [loc EXCEPT ![p] = NoLocal]
  /\ Go(p, IF Occupied THEN "idle" ELSE "relist")
  /\ UNCHANGED <<backend, queue, run, active, budget>>

Relist(p) ==
  /\ At(p, "relist")
  /\ loc' = [loc EXCEPT ![p].flag = Rows("queued") # {}]
  /\ Go(p, "rewake")
  /\ UNCHANGED <<backend, queue, run, active, pumping, budget>>

Rewake(p) ==
  /\ At(p, "rewake")
  /\ \/ loc[p].flag /\ BecomePump(p, active)
     \/ ~loc[p].flag /\ Return(p) /\ UNCHANGED pumping
  /\ UNCHANGED <<backend, queue, run, active, budget>>

-----------------------------------------------------------------------------
(* Failing statements and crashes.                                         *)

\* Outside the pump a failing statement (for "wake", the event that reports the
\* enqueue) ends the task.  In the pump: a failing claim reaches the outer
\* finally, which looks again; a failing markRunning() leaves the run it has
\* just registered behind; a failing markSucceeded() is recorded as a failure,
\* and a failing markFailed() releases the session and ends the pump.
StatementFails(p) ==
  /\ Turn(p)
  /\ Spend("faults")
  /\ \/ /\ pc[p] \in {"enqueue", "list", "enqueueCold", "wake", "relist"}
        /\ Return(p)
        /\ UNCHANGED <<run, active, pumping>>
     \/ /\ pc[p] = "claim"
        /\ Go(p, "finish")
        /\ UNCHANGED <<run, active, pumping, loc>>
     \/ /\ pc[p] = "mark"
        /\ pumping' = FALSE
        /\ Return(p)
        /\ UNCHANGED <<run, active>>
     \/ /\ pc[p] = "settle" /\ loc[p].flag
        /\ loc' = [loc EXCEPT ![p].flag = FALSE]
        /\ Go(p, "settle")
        /\ UNCHANGED <<run, active, pumping>>
     \/ /\ pc[p] = "settle" /\ ~loc[p].flag
        /\ run' = [run EXCEPT ![loc[p].run].status = "ended"]
        /\ active' = Freed(loc[p].run)
        /\ Go(p, "finish")
        /\ UNCHANGED <<pumping, loc>>
  /\ UNCHANGED <<backend, queue>>

\* The process dies with its tasks, agents and registry; the rows stay.
Crash ==
  /\ Spend("faults")
  /\ \E p \in Task : pc[p] # "idle"
  /\ run' = [r \in 1..Len(run) |-> [run[r] EXCEPT !.status = "ended", !.live = FALSE]]
  /\ active' = 0
  /\ pumping' = FALSE
  /\ pc' = [p \in Task |-> "idle"]
  /\ loc' = [p \in Task |-> NoLocal]
  /\ loop' = None
  /\ UNCHANGED <<backend, queue>>

-----------------------------------------------------------------------------
\* What a task does once its request has arrived, faults aside.
Work(p) ==
  \/ PostEnqueue(p) \/ PostList(p) \/ PostDecide(p) \/ PostEnqueueCold(p)
  \/ PostWake(p) \/ ServeEnds(p)
  \/ PumpClaim(p) \/ PumpStart(p) \/ PumpMark(p) \/ PumpAgentEnds(p)
  \/ PumpSettle(p) \/ PumpRelease(p) \/ PumpFinish(p) \/ Relist(p) \/ Rewake(p)

Arrive(p) == PostArrive(p) \/ ReadHistory(p) \/ CancelNothing(p)

Next ==
  \/ \E p \in Task : Arrive(p) \/ Work(p) \/ StatementFails(p)
  \/ EditQueued \/ DeleteQueued \/ Cancel \/ Crash

Spec == Init /\ [][Next]_vars

\* The runtime resumes every task whose statement or agent has ended, and an
\* agent ends: its loop is bounded and its tools and model calls time out.
FairSpec == Spec /\ \A p \in Task : WF_vars(Work(p))
-----------------------------------------------------------------------------
(* Properties.                                                             *)

\* releaseSession() "only when the agent promise has truly resolved": whatever
\* is cancelled, pumped, posted or lost in a crash, a working agent's run holds
\* the session, so no second agent ever works in it beside an orphan.
AgentHoldsSession == \A r \in 1..Len(run) : run[r].live => active = r

\* Queued messages are run in the order they were queued and none of them twice,
\* restarts included (claimNext, pumpSessionQueue).
QueueRunsInOrderOnce ==
  \A r, s \in 1..Len(run) :
    r < s /\ run[r].item # 0 /\ run[s].item # 0 => run[r].item < run[s].item

\* A change or deletion the routes accepted is what happens: an agent is given
\* the text its row has for good, and never a row that was deleted.
EditsAreHonoured ==
  \A r \in 1..Len(run) :
    run[r].item # 0 =>
      /\ queue[run[r].item].text = run[r].text
      /\ queue[run[r].item].status \notin {"queued", "deleted"}

\* A POST does not run its message ahead of one that was waiting in the queue
\* when it arrived (the listBySession() check of handleChatStream).
NoOvertaking ==
  [][\A p \in Task :
       pc[p] = "decide" /\ pc'[p] = "serve" =>
         \A i \in 1..loc[p].ahead : queue[i].status # "queued"]_vars

\* On sqlite and without faults every queued message is run to its end, or
\* deleted by its author: no wake-up of the pump is lost, no claimed row is
\* left behind, and no run keeps the session for ever.
Faulted == budget.faults < MaxFaults
QueuedMessageSettles ==
  \A i \in 1..MaxPosts :
    (backend = "sqlite" /\ i \in Rows("queued")) ~>
      (i \in UNION {Rows("succeeded"), Rows("failed"), Rows("deleted")} \/ Faulted)
=============================================================================
