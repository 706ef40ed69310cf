--------------------------- MODULE SessionStream ---------------------------
(***************************************************************************)
(* The event log of one chat session and the tabs that follow it over      *)
(* GET /sessions/:id/events/stream.  Every event is appended to            *)
(* chat_session_events with the next seq and then published on the         *)
(* in-process SessionEventBus.  A tab subscribes to the bus, replays the   *)
(* table from the seq it knows, drains what the bus brought meanwhile and  *)
(* goes on with live events; it drops every seq it is already past.        *)
(*                                                                         *)
(* Events come from the agent's run, one after the other through its       *)
(* persistChain, and from the handlers that report changes of the message  *)
(* queue (publishSessionEvent).  With backend = "postgres" an append and   *)
(* its publication are two steps; with "sqlite" nothing comes between.     *)
(*                                                                         *)
(* While a POST of the tab is under way the tab leaves the events of runs  *)
(* to the POST's own stream: it passes them without showing them.          *)
(*                                                                         *)
(* Abstracted: what events say.  Whether a tab takes the events of a run   *)
(* for those of a queued message (backgroundQueueRunActiveRef) is open.    *)
(* The session is not deleted.  A handler whose append fails leaves no     *)
(* trace.                                                                  *)
(***************************************************************************)
EXTENDS Integers, Sequences, FiniteSets

CONSTANTS
  Tab,           \* browser tabs on the session
  Handler,       \* requests that publish events of their own
  Chain,         \* the persistChain of the agent's run
  Backends,      \* the stores considered: "sqlite", "postgres"
  MaxReconnects, \* subscribeStream's MAX_RECONNECTS
  MaxEvents,     \* bound: events sent to the log
  MaxNavs,       \* bound: events that are published without being persisted
  MaxPosts,      \* bound: messages posted from the tabs
  MaxFaults      \* bound: lost connections, failed statements and crashes

ASSUME ConstantsAssumption ==
  /\ Chain \notin Handler
  /\ Backends \subseteq {"sqlite", "postgres"}
  /\ MaxReconnects \in Nat
  /\ MaxEvents \in Nat /\ MaxNavs \in Nat /\ MaxPosts \in Nat /\ MaxFaults \in Nat

VARIABLES
  backend,   \* the store of this deployment
  up,        \* the server is running
  log,       \* events in chat_session_events: their seqs are 1..log
  queue,     \* the seqs of events about the message queue
  backlog,   \* events of the run that wait in its persistChain
  pending,   \* per writer, the seq it has appended and not yet published, or 0
  emitted,   \* events the current turn has sent
  nav,       \* the turn's syntheticSeq, for events that are not persisted
  tab,       \* per tab, both ends of its stream
  published, \* seqs published, or persisted before the last restart
  late,      \* seqs that were not published before something numbered above them
  lossy,     \* an event of a run could not be appended
  budget     \* events, unpersisted events, posts and faults left

server == <<log, queue, backlog, pending, emitted, nav, published, late, lossy>>
vars == <<backend, up, server, tab, budget>>

Writer == Handler \cup {Chain}

\* What the bus and the wire carry: an event and the number it goes by, its seq
\* or, when it is not persisted, one of the turn's own.
Event == [seq : Nat, nav : BOOLEAN]
Persisted(n) == [seq |-> n, nav |-> FALSE]
Unpersisted(n) == [seq |-> n, nav |-> TRUE]

\* A tab's stream.  The server's end: its state, what the bus brought during
\* the replay, the rows the query saw, the highest seq written (maxEmittedSeq).
\* A "stuck" one failed to replay, a "closed" one is to be opened again, an "off"
\* one is not.  The browser's end: what is on the wire, the highest seq seen
\* (maxSeqRef), the events shown, those passed during a POST, the seq its page
\* was loaded with, whether a POST is under way and the failed attempts.
Stream == [state : {"off", "closed", "query", "stuck", "emit", "live"},
           buffer : Seq(Event), rows : Nat, sent : Int, wire : Seq(Event), seen : Int,
           shown : SUBSET Nat, passed : SUBSET Nat, base : Int,
           post : BOOLEAN, tries : Nat]

\* The stream of a page that has all events up to seq.
Fresh(state, seq, post) ==
  [state |-> state, buffer |-> <<>>, rows |-> 0, sent |-> -1, wire |-> <<>>,
   seen |-> seq, shown |-> {}, passed |-> {}, base |-> seq, post |-> post, tries |-> 0]

TypeOK ==
  /\ backend \in Backends
  /\ up \in BOOLEAN /\ lossy \in BOOLEAN
  /\ log \in Nat /\ backlog \in Nat /\ emitted \in Nat /\ nav \in Nat
  /\ queue \subseteq 1..log
  /\ pending \in [Writer -> 0..log]
  /\ tab \in [Tab -> Stream]
  /\ published \subseteq 1..log
  /\ late \subseteq Nat
  /\ budget \in [events : Nat, navs : Nat, posts : Nat, faults : Nat]

Init ==
  /\ backend \in Backends
  /\ up = TRUE /\ lossy = FALSE
  /\ log = 0 /\ backlog = 0 /\ emitted = 0 /\ nav = 0
  /\ queue = {}
  /\ pending = [w \in Writer |-> 0]
  /\ tab = [t \in Tab |-> Fresh("off", -1, FALSE)]
  /\ published = {}
  /\ late = {}
  /\ budget = [events |-> MaxEvents, navs |-> MaxNavs, posts |-> MaxPosts,
               faults |-> MaxFaults]

\* The server can start something new.  On sqlite a handler runs on to the end
\* once it has started, and the chain is empty before the next one starts.
Free ==
  /\ up
  /\ backend = "sqlite" =>
       /\ backlog = 0
       /\ \A w \in Writer : pending[w] = 0
       /\ \A t \in Tab : tab[t].state \notin {"query", "emit"}

Spend(what) == budget[what] > 0 /\ budget' = [budget EXCEPT ![what] = @ - 1]

-----------------------------------------------------------------------------
(* The stream's server end.                                                *)

\* writeEvent(): nothing at or below the highest seq written is written.
Write(s, e) ==
  IF e.seq <= s.sent THEN s
  ELSE [s EXCEPT !.sent = e.seq, !.wire = Append(@, e)]

\* The loops over the rows and over the buffer.
WriteAll(s, events) ==
  LET written[n \in 0..Len(events)] ==
        IF n = 0 THEN s ELSE Write(written[n - 1], events[n])
  IN written[Len(events)]

\* The bus handler: buffer during the replay, write when live.  A replay that has
\* failed buffers for ever.
DeliverLiveOnly(s, e) ==   \* mutant: the handler is attached after the replay
  CASE s.state \in {"off", "closed", "stuck", "query", "emit"} -> s
    [] s.state = "live" -> Write(s, e)
Deliver(s, e) ==
  CASE s.state \in {"off", "closed", "stuck"} -> s
    [] s.state \in {"query", "emit"} -> [s EXCEPT !.buffer = Append(@, e)]
    [] s.state = "live" -> Write(s, e)

\* publish(): every numbered event below e that is not yet out will be late.
Publish(e) ==
  /\ tab' = [t \in Tab |-> Deliver(tab[t], e)]
  /\ late' = late \cup ((IF e.nav THEN 1..e.seq ELSE 1..(e.seq - 1)) \ published)

-----------------------------------------------------------------------------
(* The writers.                                                            *)

\* wrappedSendEvent(): the event goes to the tail of the run's persistChain.
Emit ==
  /\ Free
  /\ Spend("events")
  /\ backlog' = backlog + 1
  /\ emitted' = emitted + 1
  /\ UNCHANGED <<backend, up, log, queue, pending, nav, tab, published, late, lossy>>

\* appendNext(): one transaction that takes the next seq.
AppendAfterNext(w) ==   \* mutant: off by one
  /\ pending[w] = 0
  /\ log' = log + 1
  /\ pending' = [pending EXCEPT ![w] = log + 2]
AppendNext(w) ==
  /\ pending[w] = 0
  /\ log' = log + 1
  /\ pending' = [pending EXCEPT ![w] = log + 1]

ChainAppend ==
  /\ backlog > 0
  /\ AppendNext(Chain)
  /\ backlog' = backlog - 1
  /\ UNCHANGED <<backend, up, queue, emitted, nav, tab, published, late, lossy, budget>>

\* The chain swallows a failing append and goes on with the next event.
ChainFails ==
  /\ backlog > 0 /\ pending[Chain] = 0
  /\ Spend("faults")
  /\ backlog' = backlog - 1
  /\ lossy' = TRUE
  /\ UNCHANGED <<backend, up, log, queue, pending, emitted, nav, tab, published, late>>

\* publishSessionEvent() of a handler: an event about the queue.
HandlerAppend(w) ==
  /\ Free
  /\ Spend("events")
  /\ AppendNext(w)
  /\ queue' = queue \cup {log + 1}
  /\ UNCHANGED <<backend, up, backlog, emitted, nav, tab, published, late, lossy>>

PublishAppended(w) ==
  /\ pending[w] # 0
  /\ Publish(Persisted(pending[w]))
  /\ published' = published \cup {pending[w]}
  /\ pending' = [pending EXCEPT ![w] = 0]
  /\ UNCHANGED <<backend, up, log, queue, backlog, emitted, nav, lossy, budget>>

\* An event of a kind that is not persisted, sent by a tool of the run after the
\* events of its call, with a number of the turn's own.  On postgres those events
\* may still wait in the chain.
Navigate ==
  /\ Free
  /\ Spend("navs")
  /\ emitted > nav
  /\ Publish(Unpersisted(nav))
  /\ nav' = nav + 1
  /\ UNCHANGED <<backend, up, log, queue, backlog, pending, emitted, published, lossy>>

\* handleMessage() drains its chain and returns; the next turn counts anew.
TurnEnds ==
  /\ Free
  /\ emitted > 0 /\ backlog = 0 /\ pending[Chain] = 0
  /\ emitted' = 0 /\ nav' = 0
  /\ UNCHANGED <<backend, up, log, queue, backlog, pending, tab, published, late, lossy,
                 budget>>

-----------------------------------------------------------------------------
(* A tab.                                                                  *)

Become(t, s) == tab' = [tab EXCEPT ![t] = s] /\ UNCHANGED <<backend, up, server>>

\* loadSession(): the tab drops its stream and what it shows, and GET messages
\* loads a page with every event so far.
LoadPage(t) ==
  /\ Free
  /\ Become(t, Fresh("closed", IF log = 0 THEN -1 ELSE log, tab[t].post))
  /\ UNCHANGED budget

\* The page cannot be loaded: no subscription is opened.
LoadFails(t) ==
  /\ \/ ~up /\ UNCHANGED budget
     \/ Spend("faults")
  /\ Become(t, Fresh("off", -1, tab[t].post))

\* GET events/stream?since=seen subscribes to the bus before it asks the table.
Open(t) ==
  /\ Free
  /\ tab[t].state = "closed"
  /\ Become(t, [tab[t] EXCEPT !.state = "query", !.sent = tab[t].seen])
  /\ UNCHANGED budget

\* The fetch is rejected: subscribeStream() does not catch that, and the tab is
\* left without a subscription.
Reject(t) ==
  /\ tab[t].state = "closed"
  /\ \/ ~up /\ UNCHANGED budget
     \/ Spend("faults")
  /\ Become(t, [tab[t] EXCEPT !.state = "off"])

Query(t) ==
  /\ tab[t].state = "query"
  /\ Become(t, [tab[t] EXCEPT !.state = "emit", !.rows = log])
  /\ UNCHANGED budget

\* Data without a seq may reach the tab, as any data does: its attempts start anew.
Heard(s) == {s, [s EXCEPT !.tries = 0]}

\* listBySession() fails: the tab is sent an error, and never goes live.
QueryFails(t) ==
  /\ tab[t].state = "query"
  /\ Spend("faults")
  /\ \E s \in Heard([tab[t] EXCEPT !.state = "stuck", !.buffer = <<>>]) : Become(t, s)

\* The rows, then the buffer, then live; "idle" follows when no run is active.
Replayed(s) ==
  [WriteAll(s, [i \in 1..s.rows |-> Persisted(i)] \o s.buffer)
     EXCEPT !.state = "live", !.buffer = <<>>, !.rows = 0]
Replay(t) ==
  /\ tab[t].state = "emit"
  /\ \E s \in Heard(Replayed(tab[t])) : Become(t, s)
  /\ UNCHANGED budget

\* openSubscription()'s handler: an event at or below maxSeqRef is a repeat.  One
\* it does not handle only moves maxSeqRef.
Received(s, e, handled) ==
  IF e.seq <= s.seen THEN [s EXCEPT !.wire = Tail(@), !.tries = 0]
  ELSE [s EXCEPT !.wire = Tail(@), !.tries = 0, !.seen = e.seq,
                 !.shown = IF handled /\ ~e.nav THEN @ \cup {e.seq} ELSE @,
                 !.passed = IF handled \/ e.nav THEN @ ELSE @ \cup {e.seq}]

\* shouldProcessSubscriptionEventDuringPost(): always for an event about the queue,
\* for the others if they are taken for a queued message's run.
MayHandle(s, e) == IF s.post /\ (e.nav \/ e.seq \notin queue) THEN BOOLEAN ELSE {TRUE}

Receive(t) ==
  /\ tab[t].wire # <<>>
  /\ LET e == Head(tab[t].wire) IN
       \E handled \in MayHandle(tab[t], e) : Become(t, Received(tab[t], e, handled))
  /\ UNCHANGED budget

\* A connection or an attempt fails: what is on the wire is lost, and the tab will
\* reconnect from the last seq it has seen, MaxReconnects times.
ClosedAtSent(s) ==   \* mutant: it resumes from the last seq it was sent
  [s EXCEPT !.seen = IF s.sent > s.seen THEN s.sent ELSE s.seen,
            !.state = IF s.tries < MaxReconnects THEN "closed" ELSE "off",
            !.tries = @ + 1, !.buffer = <<>>, !.rows = 0, !.sent = -1, !.wire = <<>>]
Closed(s) ==
  [s EXCEPT !.state = IF s.tries < MaxReconnects THEN "closed" ELSE "off",
            !.tries = @ + 1, !.buffer = <<>>, !.rows = 0, !.sent = -1, !.wire = <<>>]

Disconnect(t) ==
  /\ tab[t].state # "off"
  /\ Spend("faults")
  /\ Become(t, Closed(tab[t]))

\* sendMessage(): a POST of the tab begins and ends.
PostStart(t) ==
  /\ ~tab[t].post
  /\ Spend("posts")
  /\ Become(t, [tab[t] EXCEPT !.post = TRUE])
PostEnd(t) ==
  /\ tab[t].post
  /\ Become(t, [tab[t] EXCEPT !.post = FALSE])
  /\ UNCHANGED budget

\* The POST's stream names the session: openSubscription() does nothing unless the
\* tab is left without a subscription.
PostAnswer(t) ==
  /\ up /\ tab[t].post /\ tab[t].state = "off"
  /\ Become(t, [tab[t] EXCEPT !.state = "closed", !.tries = 0])
  /\ UNCHANGED budget

-----------------------------------------------------------------------------
\* The process dies: what waits in memory is gone, and so is every connection.
Crash ==
  /\ up
  /\ Spend("faults")
  /\ up' = FALSE
  /\ tab' = [t \in Tab |-> IF tab[t].state \in {"off", "closed"} THEN tab[t]
                           ELSE Closed(tab[t])]
  /\ backlog' = 0 /\ emitted' = 0 /\ nav' = 0
  /\ pending' = [w \in Writer |-> 0]
  /\ published' = 1..log
  /\ UNCHANGED <<backend, log, queue, late, lossy>>

Restart == ~up /\ up' = TRUE /\ UNCHANGED <<backend, server, tab, budget>>

-----------------------------------------------------------------------------
Connect(t) == Open(t) \/ Reject(t)
TabStep(t) ==
  \/ LoadPage(t) \/ LoadFails(t) \/ Connect(t) \/ Disconnect(t)
  \/ Query(t) \/ QueryFails(t) \/ Replay(t) \/ Receive(t)
  \/ PostStart(t) \/ PostAnswer(t) \/ PostEnd(t)

Next ==
  \/ Emit \/ ChainAppend \/ ChainFails \/ Navigate \/ TurnEnds \/ Crash \/ Restart
  \/ \E w \in Handler : HandlerAppend(w)
  \/ \E w \in Writer : PublishAppended(w)
  \/ \E t \in Tab : TabStep(t)

Spec == Init /\ [][Next]_vars

\* The runtime resumes a query or an append that has ended, the network carries
\* what is written to an open connection, and a tab that has not given up tries
\* to connect.
FairSpec ==
  /\ Spec
  /\ WF_vars(ChainAppend)
  /\ \A w \in Writer : WF_vars(PublishAppended(w))
  /\ \A t \in Tab :
       WF_vars(Connect(t)) /\ WF_vars(Query(t)) /\ WF_vars(Replay(t)) /\ WF_vars(Receive(t))

-----------------------------------------------------------------------------
(* Properties.                                                             *)

\* Nothing was published out of order: on sqlite, unless an append failed and left
\* the turn's own numbers ahead of the seqs.
InOrder == backend = "sqlite" /\ ~lossy

\* "Race-free handoff" of GET events/stream: whatever replay, buffer, live tail,
\* lost connection and restart it goes through, a tab has shown every event between
\* the page it loaded and the last number it has seen, but for two kinds.  It passed
\* the events of a run that came during a POST of its own (never those about the
\* queue).  And it takes an event for a repeat that something numbered above it
\* overtook on the bus, which on sqlite needs an append that failed.
TabSkipsNothing ==
  \A t \in Tab : \A n \in 1..tab[t].seen : n > tab[t].base =>
    \/ n \in tab[t].shown
    \/ n \in tab[t].passed \ queue
    \/ n \in late /\ ~InOrder

\* Every persisted event reaches every tab, though its connection may break and the
\* process restart, unless it is passed during a POST, was overtaken, or the tab is
\* left without a live stream: it has given up, or its replay failed.
EventReachesTab ==
  \A t \in Tab : \A n \in 1..MaxEvents :
    (n <= log) ~> \/ n \in tab[t].shown \cup tab[t].passed \cup late
                  \/ n <= tab[t].base
                  \/ tab[t].state \in {"off", "stuck"}
=============================================================================
