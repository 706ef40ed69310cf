------------------------ MODULE SessionStream_proofs ------------------------
(***************************************************************************)
(* Proofs about SessionStream: types, and the race-free handoff from the   *)
(* replay to the live tail (TabSkipsNothing), for any number of tabs and   *)
(* writers, on both stores.                                                *)
(***************************************************************************)
EXTENDS SessionStream, SequenceTheorems, WellFoundedInduction, TLAPS

-----------------------------------------------------------------------------
(* The loop of the replay.  WriteAll is a recursive function, so what it   *)
(* computes takes an induction over the events it writes.                  *)

LEMMA NatInduct ==
  ASSUME NEW S, 0 \in S, \A n \in Nat : n \in S => n + 1 \in S
  PROVE  Nat \subseteq S
<1> SUFFICES ASSUME Nat \ S # {} PROVE FALSE
  OBVIOUS
<1>1. PICK x \in Nat \ S : \A y \in Nat \ S : <<y, x>> \notin OpToRel(<, Nat)
  <2> DEFINE T == Nat \ S
  <2>1. T \subseteq Nat /\ T # {}
    OBVIOUS
  <2> HIDE DEF T
  <2>2. \E x \in T : \A y \in T : ~(<<y, x>> \in OpToRel(<, Nat))
    BY <2>1, WFMin, NatLessThanWellFounded
  <2> QED
    BY <2>2 DEF T
<1>2. \A y \in Nat \ S : ~(y < x)
  BY <1>1 DEF OpToRel
<1>3. x - 1 \in Nat /\ x - 1 < x /\ x = (x - 1) + 1
  OBVIOUS
<1> QED
  BY <1>2, <1>3

\* The recursive definition has a solution, so WriteAll is what it says.
IsWritten(f, s, seqs, m) ==
  f = [n \in 0..m |-> IF n = 0 THEN s ELSE Write(f[n - 1], seqs[n])]

LEMMA WrittenExists ==
  ASSUME NEW s, NEW seqs
  PROVE  \A m \in Nat : \E f : IsWritten(f, s, seqs, m)
<1> DEFINE S == {m \in Nat : \E f : IsWritten(f, s, seqs, m)}
<1>1. 0 \in S
  <2> DEFINE f == [n \in 0..0 |-> s]
  <2>1. IsWritten(f, s, seqs, 0)
    BY DEF IsWritten
  <2> QED
    BY <2>1
<1>2. ASSUME NEW m \in Nat, m \in S PROVE m + 1 \in S
  <2>1. PICK f : IsWritten(f, s, seqs, m)
    BY <1>2
  <2> DEFINE g == [n \in 0..(m + 1) |-> IF n = m + 1 THEN Write(f[m], seqs[n]) ELSE f[n]]
  <2>2. ASSUME NEW n \in 0..(m + 1)
        PROVE  g[n] = IF n = 0 THEN s ELSE Write(g[n - 1], seqs[n])
    <3>1. CASE n = m + 1
      <4>1. n # 0 /\ n - 1 = m /\ m \in 0..(m + 1) /\ m # m + 1
        BY <3>1
      <4> QED
        BY <3>1, <4>1
    <3>2. CASE n \in 1..m
      <4>1. n \in 0..m /\ n # 0 /\ n - 1 \in 0..(m + 1) /\ n - 1 # m + 1 /\ n # m + 1
        BY <3>2
      <4>2. f[n] = Write(f[n - 1], seqs[n])
        BY <2>1, <4>1 DEF IsWritten
      <4> QED
        BY <4>1, <4>2
    <3>3. CASE n = 0
      <4>1. 0 \in 0..m /\ 0 # m + 1
        OBVIOUS
      <4> QED
        BY <2>1, <3>3, <4>1 DEF IsWritten
    <3> QED
      BY <3>1, <3>2, <3>3
  <2>3. IsWritten(g, s, seqs, m + 1)
    BY <2>2 DEF IsWritten
  <2> QED
    BY <2>3
<1> HIDE DEF S
<1>3. Nat \subseteq S
  BY <1>1, <1>2, NatInduct
<1> QED
  BY <1>3 DEF S

LEMMA WriteAllIs ==
  ASSUME NEW s, NEW seqs \in Seq(Event)
  PROVE  \E f : /\ f[0] = s
                /\ \A n \in 1..Len(seqs) : f[n] = Write(f[n - 1], seqs[n])
                /\ WriteAll(s, seqs) = f[Len(seqs)]
<1> DEFINE f == CHOOSE f : f = [n \in 0..Len(seqs) |->
                                  IF n = 0 THEN s ELSE Write(f[n - 1], seqs[n])]
<1>1. Len(seqs) \in Nat
  OBVIOUS
<1>2. f = [n \in 0..Len(seqs) |-> IF n = 0 THEN s ELSE Write(f[n - 1], seqs[n])]
  <2>1. \E g : g = [n \in 0..Len(seqs) |-> IF n = 0 THEN s ELSE Write(g[n - 1], seqs[n])]
    <3>1. \E g : IsWritten(g, s, seqs, Len(seqs))
      BY <1>1, WrittenExists
    <3> QED
      BY <3>1, Zenon DEF IsWritten
  <2> QED
    BY <2>1, Zenon
<1>3. WriteAll(s, seqs) = f[Len(seqs)]
  BY Zenon DEF WriteAll
<1> HIDE DEF f
<1>4. f[0] = s /\ \A n \in 1..Len(seqs) : f[n] = Write(f[n - 1], seqs[n])
  BY <1>1, <1>2
<1> QED
  BY <1>3, <1>4

-----------------------------------------------------------------------------
(* One tab.                                                                *)

Is(e, n) == e.seq = n /\ ~e.nav

\* What comes in q before an event, itself included, has every seq above lo and up
\* to its number, but for those that are gone.
Dense(q, lo, gone) ==
  \A i \in 1..Len(q) : \A n \in 1..q[i].seq :
    n > lo => n \in gone \/ \E j \in 1..i : Is(q[j], n)
\* Every seq above lo and up to hi is in q, or gone.
Holds(q, lo, hi, gone) ==
  \A n \in 1..hi : n > lo => n \in gone \/ \E j \in 1..Len(q) : Is(q[j], n)

\* Between the two ends of a stream: what the server has written and the browser
\* has not seen is on the wire, in order, and the browser has shown or passed all it
\* has seen.
Wired(s, gone) ==
  /\ Dense(s.wire, s.seen, gone) /\ Holds(s.wire, s.seen, s.sent, gone)
  /\ \A n \in 1..s.seen : n > s.base => n \in s.shown \cup s.passed \cup gone

\* The server's end, when the events of out have been published and the log has
\* top: the rows and the buffer, or what is already written, have them all.
Served(s, top, out, gone) ==
  /\ s.state \in {"off", "closed"} => s.buffer = <<>> /\ s.wire = <<>> /\ s.sent = -1
  /\ s.state = "query" =>
       \A i \in 1..Len(s.buffer) : \A n \in 1..s.buffer[i].seq : n \in gone \/ n \in 1..top
  /\ s.state = "emit" =>
       /\ Dense(s.buffer, s.rows, gone)
       /\ \A n \in out : n <= s.rows \/ \E j \in 1..Len(s.buffer) : Is(s.buffer[j], n)
  /\ s.state = "live" => \A n \in out : n <= s.sent

\* The events of a log of top entries, and the ones that are not persisted.
Real(top) == {e \in Event : e.nav \/ e.seq \in 1..top}

\* A stream carries events of the log, and has passed none of those about the queue.
Carried(s, top, about) ==
  /\ s.buffer \in Seq(Real(top)) /\ s.wire \in Seq(Real(top)) /\ s.rows <= top
  /\ s.passed \subseteq (1..top) \ about

LEMMA StreamFields ==
  ASSUME NEW s \in Stream
  PROVE  /\ s.state \in {"off", "closed", "query", "stuck", "emit", "live"}
         /\ s.buffer \in Seq(Event) /\ s.wire \in Seq(Event) /\ s.rows \in Nat
         /\ s.sent \in Int /\ s.seen \in Int /\ s.base \in Int
         /\ s.shown \subseteq Nat /\ s.passed \subseteq Nat
         /\ s.post \in BOOLEAN /\ s.tries \in Nat
BY DEF Stream

\* A sequence of events of V grows, or loses its first.
LEMMA AppendIs ==
  ASSUME NEW V, NEW q \in Seq(V), NEW e \in V
  PROVE  /\ Append(q, e) \in Seq(V) /\ Len(q) \in Nat /\ Len(Append(q, e)) = Len(q) + 1
         /\ Append(q, e)[Len(q) + 1] = e
         /\ \A i \in 1..Len(q) : Append(q, e)[i] = q[i]
OBVIOUS

LEMMA Unwired ==
  ASSUME NEW V, NEW q \in Seq(V), q # <<>>
  PROVE  /\ Head(q) \in V /\ Head(q) = q[1] /\ Tail(q) \in Seq(V)
         /\ Len(q) \in Nat /\ Len(q) >= 1 /\ Len(Tail(q)) = Len(q) - 1
         /\ \A i \in 1..(Len(q) - 1) : Tail(q)[i] = q[i + 1]
OBVIOUS

\* Losing more leaves all this true.
LEMMA GoneGrows ==
  ASSUME NEW s, NEW top, NEW out, NEW gone, NEW more, gone \subseteq more
  PROVE  /\ Wired(s, gone) => Wired(s, more)
         /\ Served(s, top, out, gone) => Served(s, top, out, more)
<1>1. \A q, lo : Dense(q, lo, gone) => Dense(q, lo, more)
  BY Zenon DEF Dense
<1>2. \A q, lo, hi : Holds(q, lo, hi, gone) => Holds(q, lo, hi, more)
  BY Zenon DEF Holds
<1>3. Wired(s, gone) => Wired(s, more)
  <2> SUFFICES ASSUME Wired(s, gone) PROVE Wired(s, more)
    OBVIOUS
  <2>1. \A n \in 1..s.seen : n > s.base => n \in s.shown \cup s.passed \cup more
    BY Zenon DEF Wired
  <2> QED
    BY <1>1, <1>2, <2>1, Zenon DEF Wired
<1>4. Served(s, top, out, gone) => Served(s, top, out, more)
  <2> SUFFICES ASSUME Served(s, top, out, gone) PROVE Served(s, top, out, more)
    OBVIOUS
  <2>1. s.state = "query" =>
          \A i \in 1..Len(s.buffer) : \A n \in 1..s.buffer[i].seq : n \in more \/ n \in 1..top
    BY Zenon DEF Served
  <2> QED
    BY <1>1, <2>1, Zenon DEF Served
<1> QED
  BY <1>3, <1>4

\* writeEvent() writes an event whose predecessors are written, or none.
LEMMA WriteType ==
  ASSUME NEW s \in Stream, NEW e \in Event
  PROVE  /\ Write(s, e) \in Stream
         /\ Write(s, e).state = s.state /\ Write(s, e).buffer = s.buffer
         /\ Write(s, e).rows = s.rows /\ Write(s, e).seen = s.seen
         /\ Write(s, e).base = s.base /\ Write(s, e).shown = s.shown
         /\ Write(s, e).passed = s.passed
         /\ \/ e.seq <= s.sent /\ Write(s, e) = s
            \/ /\ e.seq > s.sent /\ Write(s, e).sent = e.seq
               /\ Write(s, e).wire = Append(s.wire, e)
<1>1. CASE e.seq <= s.sent
  BY <1>1, Zenon DEF Write
<1>2. CASE ~(e.seq <= s.sent)
  <2>1. Write(s, e) = [s EXCEPT !.sent = e.seq, !.wire = Append(@, e)]
    BY <1>2, Zenon DEF Write
  <2>2. Append(s.wire, e) \in Seq(Event)
    BY StreamFields, AppendIs
  <2>3. e.seq > s.sent /\ e.seq \in Int
    BY <1>2, StreamFields DEF Event
  <2> QED
    BY <2>1, <2>2, <2>3 DEF Stream
<1> QED
  BY <1>1, <1>2

\* A list grows by one event whose predecessors are in it.
LEMMA DenseAppend ==
  ASSUME NEW q \in Seq(Event), NEW lo \in Int, NEW gone, Dense(q, lo, gone), NEW e \in Event,
         \A n \in 1..e.seq :
            n > lo => n \in gone \/ Is(e, n) \/ \E j \in 1..Len(q) : Is(q[j], n)
  PROVE  Dense(Append(q, e), lo, gone) /\ Holds(Append(q, e), lo, e.seq, gone)
<1> DEFINE r == Append(q, e)
<1>1. /\ Len(q) \in Nat /\ Len(r) = Len(q) + 1 /\ r[Len(q) + 1] = e
      /\ \A i \in 1..Len(q) : r[i] = q[i]
  BY AppendIs
<1> HIDE DEF r
<1>2. ASSUME NEW n \in 1..e.seq, n > lo, n \notin gone
      PROVE  \E j \in 1..(Len(q) + 1) : Is(r[j], n)
  <2>1. CASE Is(e, n)
    <3>1. Len(q) + 1 \in 1..(Len(q) + 1)
      BY <1>1
    <3> QED
      BY <1>1, <2>1, <3>1, Zenon
  <2>2. ASSUME NEW j \in 1..Len(q), Is(q[j], n) PROVE \E k \in 1..(Len(q) + 1) : Is(r[k], n)
    <3>1. j \in 1..(Len(q) + 1)
      BY <1>1
    <3> QED
      BY <1>1, <2>2, <3>1, Zenon
  <2> QED
    BY <1>2, <2>1, <2>2, Zenon
<1>3. Holds(r, lo, e.seq, gone)
  BY <1>1, <1>2, Zenon DEF Holds
<1>4. ASSUME NEW i \in 1..(Len(q) + 1), NEW n \in 1..r[i].seq, n > lo, n \notin gone
      PROVE  \E j \in 1..i : Is(r[j], n)
  <2>1. CASE i = Len(q) + 1
    <3>1. n \in 1..e.seq
      BY <1>1, <2>1
    <3> QED
      BY <1>2, <1>4, <2>1, <3>1
  <2>2. CASE i \in 1..Len(q)
    <3>1. n \in 1..q[i].seq
      BY <1>1, <2>2
    <3>2. PICK j \in 1..i : Is(q[j], n)
      BY <1>4, <2>2, <3>1, Zenon DEF Dense
    <3>3. j \in 1..Len(q)
      BY <1>1, <2>2
    <3> QED
      BY <1>1, <3>2, <3>3, Zenon
  <2>3. i = Len(q) + 1 \/ i \in 1..Len(q)
    BY <1>1
  <2> QED
    BY <2>1, <2>2, <2>3, Zenon
<1>5. Dense(r, lo, gone)
  BY <1>1, <1>4, Zenon DEF Dense
<1> QED
  BY <1>3, <1>5 DEF r

LEMMA WriteKeeps ==
  ASSUME NEW s \in Stream, NEW gone, Wired(s, gone), NEW e \in Event,
         \A n \in 1..e.seq : n \in gone \/ Is(e, n) \/ n <= s.sent,
         NEW w, w = Write(s, e)
  PROVE  Wired(w, gone) /\ w.sent >= s.sent /\ w.sent >= e.seq
<1>0. e.seq \in Int /\ s.sent \in Int /\ s.seen \in Int /\ s.wire \in Seq(Event)
  BY StreamFields DEF Event
<1>1. CASE e.seq <= s.sent /\ w = s
  BY <1>0, <1>1
<1>2. CASE e.seq > s.sent /\ w.sent = e.seq /\ w.wire = Append(s.wire, e)
  <2>1. w.seen = s.seen /\ w.base = s.base /\ w.shown = s.shown /\ w.passed = s.passed
    BY WriteType
  <2>2. ASSUME NEW n \in 1..e.seq, n > s.seen
        PROVE  n \in gone \/ Is(e, n) \/ \E j \in 1..Len(s.wire) : Is(s.wire[j], n)
    <3>1. n <= s.sent => n \in 1..s.sent
      BY <1>0
    <3> QED
      BY <2>2, <3>1, Zenon DEF Wired, Holds
  <2>3. Dense(w.wire, s.seen, gone) /\ Holds(w.wire, s.seen, w.sent, gone)
    <3>1. Dense(s.wire, s.seen, gone)
      BY DEF Wired
    <3> QED
      BY <1>0, <1>2, <2>2, <3>1, DenseAppend
  <2>4. Wired(w, gone)
    BY <2>1, <2>3, Zenon DEF Wired
  <2> QED
    BY <1>0, <1>2, <2>4
<1> QED
  BY <1>1, <1>2, WriteType

\* The loop writes a sequence in which no event comes before one it follows.
LEMMA WriteAllKeeps ==
  ASSUME NEW s \in Stream, NEW gone, NEW V \in SUBSET Event, NEW q \in Seq(V)
  PROVE  /\ WriteAll(s, q) \in Stream
         /\ WriteAll(s, q).passed = s.passed
         /\ s.wire \in Seq(V) => WriteAll(s, q).wire \in Seq(V)
         /\ Wired(s, gone) /\ Dense(q, 0, gone) =>
              /\ Wired(WriteAll(s, q), gone)
              /\ \A i \in 1..Len(q) : q[i].seq <= WriteAll(s, q).sent
<1>0. q \in Seq(Event) /\ Len(q) \in Nat /\ \A i \in 1..Len(q) : q[i] \in V /\ q[i] \in Event
  OBVIOUS
<1>1. PICK f : /\ f[0] = s
               /\ \A n \in 1..Len(q) : f[n] = Write(f[n - 1], q[n])
               /\ WriteAll(s, q) = f[Len(q)]
  BY <1>0, WriteAllIs
<1>2. \A i \in 1..Len(q) : q[i].seq \in Int
  BY <1>0 DEF Event
<1> DEFINE Good(m) == /\ f[m] \in Stream /\ f[m].passed = s.passed
                      /\ s.wire \in Seq(V) => f[m].wire \in Seq(V)
                      /\ Wired(s, gone) /\ Dense(q, 0, gone) =>
                           Wired(f[m], gone) /\ \A i \in 1..m : q[i].seq <= f[m].sent
           S == {m \in Nat : m <= Len(q) => Good(m)}
<1>3. 0 \in S
  BY <1>1
<1>4. ASSUME NEW m \in Nat, m \in S PROVE m + 1 \in S
  <2> SUFFICES ASSUME m + 1 <= Len(q) PROVE Good(m + 1)
    OBVIOUS
  <2>1. m <= Len(q) /\ m + 1 \in 1..Len(q) /\ (m + 1) - 1 = m
    BY <1>0
  <2>2. Good(m)
    BY <1>4, <2>1
  <2> DEFINE e == q[m + 1]
             w == f[m + 1]
             v == f[m]
  <2>3. w = Write(v, e) /\ e \in Event /\ e \in V /\ e.seq \in Int
    BY <1>0, <1>1, <1>2, <2>1
  <2>4. /\ v \in Stream /\ v.passed = s.passed
        /\ s.wire \in Seq(V) => v.wire \in Seq(V)
        /\ Wired(s, gone) /\ Dense(q, 0, gone) =>
             Wired(v, gone) /\ \A i \in 1..m : q[i].seq <= v.sent
    BY <2>2
  <2>a. q[m + 1] = e
    OBVIOUS
  <2> HIDE DEF e, w, v
  <2>5. w \in Stream /\ w.passed = s.passed /\ v.sent \in Int /\ w.sent \in Int
    <3>1. w \in Stream /\ w.passed = v.passed
      BY <2>3, <2>4, WriteType
    <3> QED
      BY <2>4, <3>1, StreamFields
  <2>6. s.wire \in Seq(V) => w.wire \in Seq(V)
    <3>1. w = v \/ w.wire = Append(v.wire, e)
      BY <2>3, <2>4, WriteType
    <3> QED
      BY <2>3, <2>4, <3>1, AppendIs
  <2>7. ASSUME Wired(s, gone), Dense(q, 0, gone)
        PROVE  Wired(w, gone) /\ \A i \in 1..(m + 1) : q[i].seq <= w.sent
    <3>0. Wired(v, gone) /\ \A i \in 1..m : q[i].seq <= v.sent
      BY <2>4, <2>7
    <3>1. ASSUME NEW n \in 1..e.seq PROVE n \in gone \/ Is(e, n) \/ n <= v.sent
      <4>1. n > 0
        BY <2>3
      <4>2. n \in gone \/ \E j \in 1..(m + 1) : Is(q[j], n)
        BY <2>1, <2>7, <2>a, <4>1, Zenon DEF Dense
      <4>3. ASSUME NEW j \in 1..(m + 1), Is(q[j], n) PROVE Is(e, n) \/ n <= v.sent
        <5>1. j = m + 1 \/ j \in 1..m
          OBVIOUS
        <5>2. CASE j = m + 1
          BY <2>a, <4>3, <5>2
        <5>3. CASE j \in 1..m
          <6>1. q[j].seq = n
            BY <4>3 DEF Is
          <6> QED
            BY <3>0, <5>3, <6>1
        <5> QED
          BY <5>1, <5>2, <5>3
      <4> QED
        BY <4>2, <4>3
    <3>2. Wired(w, gone) /\ w.sent >= v.sent /\ w.sent >= e.seq
      BY <2>3, <2>4, <3>0, <3>1, WriteKeeps
    <3>3. ASSUME NEW i \in 1..(m + 1) PROVE q[i].seq <= w.sent
      <4>1. i \in 1..m \/ i = m + 1
        OBVIOUS
      <4>2. q[i].seq \in Int
        BY <1>2, <2>1
      <4> QED
        BY <2>3, <2>5, <2>a, <3>0, <3>2, <4>1, <4>2
    <3> QED
      BY <3>2, <3>3
  <2> QED
    BY <2>5, <2>6, <2>7 DEF w
<1>5. Nat \subseteq S
  <2> HIDE DEF S
  <2> QED
    BY <1>3, <1>4, NatInduct
<1>6. Good(Len(q))
  BY <1>0, <1>5
<1> QED
  BY <1>1, <1>6


\* All that an open stream relies on: the log has top entries, those of about are
\* about the queue, those of out are published, those of gone were overtaken.
Sound(s, top, about, out, gone) ==
  Carried(s, top, about) /\ Wired(s, gone) /\ Served(s, top, out, gone)

\* The bus hands an event to the tab's handler.
LEMMA DeliverType ==
  ASSUME NEW s \in Stream, NEW e \in Event
  PROVE  Deliver(s, e) \in Stream
<1>1. CASE s.state \in {"off", "closed", "stuck"}
  <2>1. Deliver(s, e) = s
    BY <1>1 DEF Deliver
  <2> QED
    BY <2>1
<1>2. CASE s.state \in {"query", "emit"}
  <2>1. Append(s.buffer, e) \in Seq(Event)
    BY StreamFields, AppendIs
  <2>2. Deliver(s, e) = [s EXCEPT !.buffer = Append(@, e)]
    BY <1>2 DEF Deliver
  <2> QED
    BY <2>1, <2>2 DEF Stream
<1>3. CASE s.state = "live"
  <2>1. Deliver(s, e) = Write(s, e)
    BY <1>3 DEF Deliver
  <2> QED
    BY <2>1, WriteType
<1> QED
  BY <1>1, <1>2, <1>3, StreamFields

LEMMA DeliverKeeps ==
  ASSUME NEW s \in Stream, NEW top \in Nat, NEW about, NEW out \in SUBSET (1..top), NEW gone,
         Sound(s, top, about, out, gone), NEW e \in Real(top),
         \A n \in 1..e.seq : n \in gone \/ n \in out \/ Is(e, n),
         NEW more \in SUBSET (1..top), \A n \in more : n \in out \/ Is(e, n)
  PROVE  Sound(Deliver(s, e), top, about, more, gone)
<1>0. /\ s.state \in {"off", "closed", "query", "stuck", "emit", "live"}
      /\ s.buffer \in Seq(Event) /\ s.rows \in Nat /\ s.sent \in Int
      /\ e \in Event /\ e.seq \in Int
  BY StreamFields DEF Real, Event
<1>a. Carried(s, top, about) /\ Wired(s, gone) /\ Served(s, top, out, gone)
  BY DEF Sound
<1>1. CASE s.state \in {"off", "closed", "stuck"}
  <2>1. Deliver(s, e) = s
    BY <1>1 DEF Deliver
  <2>2. Served(s, top, more, gone)
    BY <1>1, <1>a DEF Served
  <2> QED
    BY <1>a, <2>1, <2>2 DEF Sound
<1>2. CASE s.state \in {"query", "emit"}
  <2> DEFINE d == Deliver(s, e)
  <2>1. /\ d.state = s.state /\ d.rows = s.rows /\ d.buffer = Append(s.buffer, e)
        /\ d.seen = s.seen /\ d.sent = s.sent /\ d.wire = s.wire /\ d.shown = s.shown
        /\ d.base = s.base /\ d.passed = s.passed
    BY <1>2 DEF Deliver, Stream
  <2> HIDE DEF d
  <2>2. Wired(d, gone)
    BY <1>a, <2>1, Zenon DEF Wired
  <2>3. /\ Len(s.buffer) \in Nat /\ Len(d.buffer) = Len(s.buffer) + 1
        /\ d.buffer[Len(s.buffer) + 1] = e
        /\ \A i \in 1..Len(s.buffer) : d.buffer[i] = s.buffer[i]
    BY <1>0, <2>1, AppendIs
  <2>c. Carried(d, top, about)
    <3>1. d.buffer \in Seq(Real(top))
      BY <1>a, <2>1, AppendIs DEF Carried
    <3> QED
      BY <1>a, <2>1, <3>1 DEF Carried
  <2>4. CASE s.state = "query"
    <3>1. ASSUME NEW i \in 1..(Len(s.buffer) + 1), NEW n \in 1..d.buffer[i].seq
          PROVE  n \in gone \/ n \in 1..top
      <4>1. i = Len(s.buffer) + 1 \/ i \in 1..Len(s.buffer)
        BY <2>3
      <4>2. CASE i = Len(s.buffer) + 1
        <5>1. n \in 1..e.seq
          BY <2>3, <4>2
        <5>2. n \in gone \/ n \in out \/ Is(e, n)
          BY <5>1
        <5>3. Is(e, n) => n \in 1..top
          BY DEF Is, Real
        <5> QED
          BY <5>2, <5>3
      <4>3. CASE i \in 1..Len(s.buffer)
        <5>1. n \in 1..s.buffer[i].seq
          BY <2>3, <4>3
        <5> QED
          BY <1>a, <2>4, <4>3, <5>1, Zenon DEF Served
      <4> QED
        BY <4>1, <4>2, <4>3
    <3>2. Served(d, top, more, gone)
      BY <2>1, <2>3, <2>4, <3>1 DEF Served
    <3> QED
      BY <2>2, <2>c, <3>2 DEF Sound, d
  <2>5. CASE s.state = "emit"
    <3>1. /\ Dense(s.buffer, s.rows, gone)
          /\ \A n \in out : n <= s.rows \/ \E j \in 1..Len(s.buffer) : Is(s.buffer[j], n)
      BY <1>a, <2>5 DEF Served
    <3>2. Dense(d.buffer, s.rows, gone)
      <4>1. ASSUME NEW n \in 1..e.seq, n > s.rows
            PROVE  n \in gone \/ Is(e, n) \/ \E j \in 1..Len(s.buffer) : Is(s.buffer[j], n)
        <5>1. ~(n <= s.rows)
          BY <1>0, <4>1
        <5> QED
          BY <3>1, <5>1, Zenon
      <4>2. s.rows \in Int
        BY <1>0
      <4>3. Dense(Append(s.buffer, e), s.rows, gone)
        BY <1>0, <3>1, <4>1, <4>2, DenseAppend
      <4> QED
        BY <2>1, <4>3
    <3>3. ASSUME NEW n \in more
          PROVE  n <= s.rows \/ \E j \in 1..(Len(s.buffer) + 1) : Is(d.buffer[j], n)
      <4>1. CASE Is(e, n)
        <5>1. Len(s.buffer) + 1 \in 1..(Len(s.buffer) + 1)
          BY <2>3
        <5> QED
          BY <2>3, <4>1, <5>1, Zenon
      <4>2. CASE n \in out
        <5>1. ASSUME NEW j \in 1..Len(s.buffer), Is(s.buffer[j], n)
              PROVE  \E i \in 1..(Len(s.buffer) + 1) : Is(d.buffer[i], n)
          <6>1. j \in 1..(Len(s.buffer) + 1) /\ d.buffer[j] = s.buffer[j]
            BY <2>3
          <6> QED
            BY <5>1, <6>1, Zenon
        <5> QED
          BY <3>1, <4>2, <5>1, Zenon
      <4> QED
        BY <4>1, <4>2
    <3>4. Served(d, top, more, gone)
      BY <2>1, <2>3, <2>5, <3>2, <3>3 DEF Served
    <3> QED
      BY <2>2, <2>c, <3>4 DEF Sound, d
  <2> QED
    BY <1>2, <2>4, <2>5
<1>3. CASE s.state = "live"
  <2> DEFINE w == Write(s, e)
  <2>1. Deliver(s, e) = w
    BY <1>3 DEF Deliver
  <2>2. \A n \in out : n <= s.sent
    BY <1>3, <1>a DEF Served
  <2>3. Wired(w, gone) /\ w.sent >= s.sent /\ w.sent >= e.seq
    <3>1. \A n \in 1..e.seq : n \in gone \/ Is(e, n) \/ n <= s.sent
      BY <2>2
    <3> QED
      BY <1>0, <1>a, <3>1, WriteKeeps
  <2>4. /\ w \in Stream /\ w.state = s.state /\ w.buffer = s.buffer /\ w.rows = s.rows
        /\ w.passed = s.passed /\ (w = s \/ w.wire = Append(s.wire, e))
    BY <1>0, WriteType
  <2>5. w.sent \in Int
    BY <2>4, StreamFields
  <2> HIDE DEF w
  <2>6. ASSUME NEW n \in more PROVE n <= w.sent
    <3>1. n \in Int /\ (n \in out \/ n = e.seq)
      BY DEF Is
    <3>2. n \in out => n <= s.sent
      BY <2>2
    <3> QED
      BY <1>0, <2>3, <2>5, <3>1, <3>2
  <2>7. Served(w, top, more, gone)
    BY <1>3, <2>4, <2>6 DEF Served
  <2>8. Carried(w, top, about)
    <3>1. s.wire \in Seq(Real(top))
      BY <1>a DEF Carried
    <3>2. Append(s.wire, e) \in Seq(Real(top))
      BY <3>1, AppendIs
    <3>3. w.wire \in Seq(Real(top))
      BY <2>4, <3>1, <3>2, Zenon
    <3> QED
      BY <1>a, <2>4, <3>3 DEF Carried
  <2> QED
    BY <2>1, <2>3, <2>7, <2>8 DEF Sound
<1> QED
  BY <1>0, <1>1, <1>2, <1>3

\* The log grows by an event, about the queue or not.
LEMMA LogGrows ==
  ASSUME NEW s \in Stream, NEW top \in Nat, NEW about, NEW out, NEW gone,
         Sound(s, top, about, out, gone), NEW more, more \subseteq about \cup {top + 1}
  PROVE  Sound(s, top + 1, more, out, gone)
<1>1. Carried(s, top, about) /\ Wired(s, gone) /\ Served(s, top, out, gone)
  BY DEF Sound
<1>2. 1..top \subseteq 1..(top + 1) /\ top + 1 \notin 1..top
  OBVIOUS
<1>3. Served(s, top + 1, out, gone)
  <2>1. s.state = "query" =>
          \A i \in 1..Len(s.buffer) : \A n \in 1..s.buffer[i].seq :
             n \in gone \/ n \in 1..(top + 1)
    BY <1>1, <1>2, Zenon DEF Served
  <2> QED
    BY <1>1, <2>1, Zenon DEF Served
<1>4. Carried(s, top + 1, more)
  <2>1. Real(top) \subseteq Real(top + 1)
    BY <1>2, Zenon DEF Real
  <2>2. Seq(Real(top)) \subseteq Seq(Real(top + 1))
    BY <2>1
  <2>3. s.rows <= top + 1
    BY <1>1, StreamFields DEF Carried
  <2>4. s.passed \subseteq (1..(top + 1)) \ more
    BY <1>1, <1>2 DEF Carried
  <2> QED
    BY <1>1, <2>2, <2>3, <2>4 DEF Carried
<1> QED
  BY <1>1, <1>3, <1>4 DEF Sound

\* A stream without a connection: nothing is buffered or on the wire.
LEMMA IdleSound ==
  ASSUME NEW s, NEW top \in Nat, NEW about, NEW out, NEW gone,
         s.state \in {"off", "closed"}, s.buffer = <<>>, s.wire = <<>>, s.sent = -1,
         s.rows <= top, s.passed \subseteq (1..top) \ about,
         \A n \in 1..s.seen : n > s.base => n \in s.shown \cup s.passed \cup gone
  PROVE  Sound(s, top, about, out, gone)
<1>1. Len(s.wire) = 0 /\ s.wire \in Seq(Real(top)) /\ s.buffer \in Seq(Real(top))
  OBVIOUS
<1>2. Dense(s.wire, s.seen, gone)
  <2>1. 1..Len(s.wire) = {}
    BY <1>1
  <2> QED
    BY <2>1, Zenon DEF Dense
<1>3. Holds(s.wire, s.seen, s.sent, gone)
  <2>1. 1..s.sent = {}
    OBVIOUS
  <2> QED
    BY <2>1, Zenon DEF Holds
<1>4. Wired(s, gone)
  BY <1>2, <1>3, Zenon DEF Wired
<1>5. Served(s, top, out, gone) /\ Carried(s, top, about)
  BY <1>1 DEF Served, Carried
<1> QED
  BY <1>4, <1>5 DEF Sound

\* The connection is lost, with what is in it.
LEMMA ClosedKeeps ==
  ASSUME NEW s \in Stream
  PROVE  /\ Closed(s) \in Stream
         /\ \A top \in Nat : \A about, out, gone :
              Carried(s, top, about) /\ Wired(s, gone) => Sound(Closed(s), top, about, out, gone)
<1> DEFINE c == Closed(s)
<1>1. /\ c \in Stream
      /\ c.state \in {"off", "closed"} /\ c.buffer = <<>> /\ c.wire = <<>> /\ c.sent = -1
      /\ c.rows = 0 /\ c.seen = s.seen /\ c.base = s.base /\ c.shown = s.shown
      /\ c.passed = s.passed
  <2>1. <<>> \in Seq(Event) /\ -1 \in Int /\ 0 \in Nat /\ s.tries + 1 \in Nat
    BY StreamFields
  <2> QED
    BY <2>1 DEF Closed, Stream
<1> HIDE DEF c
<1>2. ASSUME NEW top \in Nat, NEW about, NEW out, NEW gone,
             Carried(s, top, about), Wired(s, gone)
      PROVE  Sound(c, top, about, out, gone)
  <2>1. c.rows <= top
    BY <1>1
  <2>2. c.passed \subseteq (1..top) \ about
    BY <1>1, <1>2 DEF Carried
  <2>3. \A n \in 1..c.seen : n > c.base => n \in c.shown \cup c.passed \cup gone
    BY <1>1, <1>2, Zenon DEF Wired
  <2> QED
    BY <1>1, <2>1, <2>2, <2>3, IdleSound
<1> QED
  BY <1>1, <1>2 DEF c

\* A page is loaded, or fails to.
LEMMA FreshKeeps ==
  ASSUME NEW state \in {"off", "closed"}, NEW seq \in Int, NEW post \in BOOLEAN
  PROVE  /\ Fresh(state, seq, post) \in Stream
         /\ \A top \in Nat : \A about, out, gone : Sound(Fresh(state, seq, post), top, about, out, gone)
<1> DEFINE s == Fresh(state, seq, post)
<1>1. /\ s \in Stream /\ s.state = state /\ s.buffer = <<>> /\ s.wire = <<>> /\ s.sent = -1
      /\ s.rows = 0 /\ s.seen = seq /\ s.base = seq /\ s.passed = {}
  <2>1. <<>> \in Seq(Event) /\ -1 \in Int /\ 0 \in Nat
    OBVIOUS
  <2> QED
    BY <2>1 DEF Fresh, Stream
<1> HIDE DEF s
<1>2. ASSUME NEW top \in Nat, NEW about, NEW out, NEW gone PROVE Sound(s, top, about, out, gone)
  <2>1. s.rows <= top /\ s.passed \subseteq (1..top) \ about
    BY <1>1
  <2>2. \A n \in 1..s.seen : ~(n > s.base)
    BY <1>1
  <2> QED
    BY <1>1, <2>1, <2>2, IdleSound
<1> QED
  BY <1>1, <1>2 DEF s

\* A change of the state between "off" and "closed", of the attempts or of the POST.
LEMMA SideKeeps ==
  ASSUME NEW s \in Stream, NEW o,
         o.state = s.state \/ {o.state, s.state} \subseteq {"off", "closed"},
         o.buffer = s.buffer, o.rows = s.rows, o.sent = s.sent, o.wire = s.wire,
         o.seen = s.seen, o.shown = s.shown, o.passed = s.passed, o.base = s.base
  PROVE  \A top, about, out, gone :
           Sound(s, top, about, out, gone) => Sound(o, top, about, out, gone)
<1> SUFFICES ASSUME NEW top, NEW about, NEW out, NEW gone, Sound(s, top, about, out, gone)
             PROVE  Sound(o, top, about, out, gone)
  OBVIOUS
<1>1. Wired(o, gone) /\ Carried(o, top, about)
  BY Zenon DEF Sound, Wired, Carried
<1>2. Served(o, top, out, gone)
  BY DEF Sound, Served
<1> QED
  BY <1>1, <1>2 DEF Sound

LEMMA OpenKeeps ==
  ASSUME NEW s \in Stream, s.state = "closed",
         NEW o, o = [s EXCEPT !.state = "query", !.sent = s.seen]
  PROVE  /\ o \in Stream
         /\ \A top \in Nat : \A about, out, gone :
              Sound(s, top, about, out, gone) => Sound(o, top, about, out, gone)
<1>1. /\ o \in Stream
      /\ o.state = "query" /\ o.buffer = s.buffer /\ o.wire = s.wire /\ o.sent = s.seen
      /\ o.seen = s.seen /\ o.base = s.base /\ o.shown = s.shown /\ o.passed = s.passed
      /\ o.rows = s.rows
  BY DEF Stream
<1>2. s.seen \in Int
  BY StreamFields
<1>3. ASSUME NEW top \in Nat, NEW about, NEW out, NEW gone, Sound(s, top, about, out, gone)
      PROVE  Sound(o, top, about, out, gone)
  <2>1. 1..Len(o.buffer) = {}
    BY <1>1, <1>3 DEF Sound, Served
  <2>2. Holds(o.wire, o.seen, o.sent, gone)
    <3>1. \A n \in 1..o.sent : ~(n > o.seen)
      BY <1>1, <1>2
    <3> QED
      BY <3>1, Zenon DEF Holds
  <2>3. Wired(o, gone) /\ Carried(o, top, about)
    BY <1>1, <1>3, <2>2, Zenon DEF Sound, Wired, Carried
  <2>4. Served(o, top, out, gone)
    BY <1>1, <2>1 DEF Served
  <2> QED
    BY <2>3, <2>4 DEF Sound
<1> QED
  BY <1>1, <1>3

\* The query returns every row: what the bus has brought so far is among them, or
\* was overtaken.
LEMMA QueryKeeps ==
  ASSUME NEW s \in Stream, s.state = "query", NEW top \in Nat,
         NEW o, o = [s EXCEPT !.state = "emit", !.rows = top]
  PROVE  /\ o \in Stream
         /\ \A out \in SUBSET (1..top) : \A about, gone :
              Sound(s, top, about, out, gone) => Sound(o, top, about, out, gone)
<1>1. /\ o \in Stream
      /\ o.state = "emit" /\ o.buffer = s.buffer /\ o.wire = s.wire /\ o.sent = s.sent
      /\ o.seen = s.seen /\ o.base = s.base /\ o.shown = s.shown /\ o.passed = s.passed
      /\ o.rows = top
  BY DEF Stream
<1>2. ASSUME NEW out \in SUBSET (1..top), NEW about, NEW gone, Sound(s, top, about, out, gone)
      PROVE  Sound(o, top, about, out, gone)
  <2>1. ASSUME NEW i \in 1..Len(s.buffer), NEW n \in 1..s.buffer[i].seq, n > top
        PROVE  n \in gone
    <3>1. n \notin 1..top
      BY <2>1
    <3> QED
      BY <1>2, <3>1, Zenon DEF Sound, Served
  <2>2. Dense(o.buffer, top, gone)
    BY <1>1, <2>1, Zenon DEF Dense
  <2>3. \A n \in out : n <= top
    OBVIOUS
  <2>4. Served(o, top, out, gone)
    BY <1>1, <2>2, <2>3 DEF Served
  <2>5. Wired(o, gone)
    BY <1>1, <1>2, Zenon DEF Sound, Wired
  <2>6. Carried(o, top, about)
    BY <1>1, <1>2 DEF Sound, Carried
  <2> QED
    BY <2>4, <2>5, <2>6 DEF Sound
<1> QED
  BY <1>1, <1>2

\* The replay fails: the stream stays, without its buffer.
LEMMA StuckKeeps ==
  ASSUME NEW s \in Stream, NEW o, o = [s EXCEPT !.state = "stuck", !.buffer = <<>>]
  PROVE  /\ o \in Stream
         /\ \A top, about, out, gone :
              Sound(s, top, about, out, gone) => Sound(o, top, about, out, gone)
<1>1. /\ o \in Stream
      /\ o.state = "stuck" /\ o.buffer = <<>> /\ o.wire = s.wire /\ o.sent = s.sent
      /\ o.seen = s.seen /\ o.base = s.base /\ o.shown = s.shown /\ o.passed = s.passed
      /\ o.rows = s.rows
  <2>1. <<>> \in Seq(Event)
    OBVIOUS
  <2> QED
    BY <2>1 DEF Stream
<1>2. ASSUME NEW top, NEW about, NEW out, NEW gone, Sound(s, top, about, out, gone)
      PROVE  Sound(o, top, about, out, gone)
  <2>1. o.buffer \in Seq(Real(top))
    BY <1>1
  <2>2. Wired(o, gone) /\ Carried(o, top, about)
    BY <1>1, <1>2, <2>1, Zenon DEF Sound, Wired, Carried
  <2>3. Served(o, top, out, gone)
    BY <1>1 DEF Served
  <2> QED
    BY <2>2, <2>3 DEF Sound
<1> QED
  BY <1>1, <1>2

\* The rows come first, then the buffer, which goes on where they end.
RowsThen(rows, buffer) == [i \in 1..rows |-> Persisted(i)] \o buffer

LEMMA RowsThenBuffer ==
  ASSUME NEW rows \in Nat, NEW top \in Nat, rows <= top, NEW V \in SUBSET Event,
         Real(top) \subseteq V, NEW buffer \in Seq(V)
  PROVE  /\ RowsThen(rows, buffer) \in Seq(V)
         /\ Len(RowsThen(rows, buffer)) = rows + Len(buffer)
         /\ \A i \in 1..rows : RowsThen(rows, buffer)[i] = Persisted(i)
         /\ \A j \in 1..Len(buffer) : RowsThen(rows, buffer)[rows + j] = buffer[j]
         /\ \A gone : Dense(buffer, rows, gone) => Dense(RowsThen(rows, buffer), 0, gone)
<1> DEFINE q == RowsThen(rows, buffer)
<1> DEFINE r == [i \in 1..rows |-> Persisted(i)]
<1>0. ASSUME NEW i \in 1..rows PROVE Persisted(i) \in V
  <2>1. Persisted(i) \in Event /\ Persisted(i).seq = i /\ i \in 1..top
    BY DEF Persisted, Event
  <2> QED
    BY <2>1 DEF Real
<1>1. r \in Seq(V) /\ Len(r) = rows /\ \A i \in 1..rows : r[i] = Persisted(i)
  <2>1. r \in [1..rows -> V]
    BY <1>0, Zenon
  <2> QED
    BY <2>1
<1> HIDE DEF r
<1>2. q = r \o buffer
  BY DEF r, RowsThen
<1> HIDE DEF q
<1>3. /\ q \in Seq(V) /\ Len(q) = rows + Len(buffer) /\ Len(buffer) \in Nat
      /\ \A i \in 1..(rows + Len(buffer)) :
           q[i] = IF i <= rows THEN r[i] ELSE buffer[i - rows]
  <2>1. /\ r \o buffer \in Seq(V) /\ Len(r \o buffer) = Len(r) + Len(buffer)
        /\ \A i \in 1..(Len(r) + Len(buffer)) :
             (r \o buffer)[i] = IF i <= Len(r) THEN r[i] ELSE buffer[i - Len(r)]
    BY <1>1, ConcatProperties, Zenon
  <2>2. Len(buffer) \in Nat /\ Len(r) = rows
    BY <1>1
  <2> QED
    BY <1>2, <2>1, <2>2, Zenon
<1>4. \A i \in 1..rows : q[i] = Persisted(i) /\ Is(q[i], i)
  <2>1. \A i \in 1..rows : q[i] = r[i]
    BY <1>3
  <2>2. \A i \in 1..rows : Is(Persisted(i), i)
    BY DEF Is, Persisted
  <2> QED
    BY <1>1, <2>1, <2>2
<1>5. \A j \in 1..Len(buffer) : rows + j \in 1..Len(q) /\ q[rows + j] = buffer[j]
  <2> SUFFICES ASSUME NEW j \in 1..Len(buffer)
               PROVE  rows + j \in 1..Len(q) /\ q[rows + j] = buffer[j]
    OBVIOUS
  <2>1. /\ rows + j \in 1..Len(q) /\ rows + j \in 1..(rows + Len(buffer))
        /\ ~(rows + j <= rows) /\ (rows + j) - rows = j
    BY <1>3
  <2> QED
    BY <1>3, <2>1
<1>6. ASSUME NEW gone, Dense(buffer, rows, gone) PROVE Dense(q, 0, gone)
  <2> SUFFICES ASSUME NEW i \in 1..Len(q), NEW n \in 1..q[i].seq
               PROVE  n \in gone \/ \E j \in 1..i : Is(q[j], n)
    BY DEF Dense
  <2>0. q[i].seq \in Int /\ n \in Int
    <3>1. q[i] \in Event
      BY <1>3
    <3> QED
      BY <3>1 DEF Event
  <2>1. CASE i \in 1..rows
    <3>1. q[i].seq = i
      BY <1>4, <2>1 DEF Is
    <3>2. n \in 1..rows /\ n \in 1..i
      BY <2>1, <3>1
    <3> QED
      BY <1>4, <3>2, Zenon
  <2>2. CASE i > rows
    <3>1. PICK k \in 1..Len(buffer) : i = rows + k
      <4>1. i - rows \in 1..Len(buffer) /\ i = rows + (i - rows)
        BY <1>3, <2>2
      <4> QED
        BY <4>1
    <3>2. q[i] = buffer[k]
      BY <1>5, <3>1
    <3>3. CASE n <= rows
      <4>1. n \in 1..rows /\ n \in 1..i
        BY <2>0, <2>2, <3>3
      <4> QED
        BY <1>4, <4>1, Zenon
    <3>4. CASE n > rows
      <4>1. n \in gone \/ \E j \in 1..k : Is(buffer[j], n)
        BY <1>6, <3>2, <3>4, Zenon DEF Dense
      <4>2. ASSUME NEW j \in 1..k, Is(buffer[j], n) PROVE \E l \in 1..i : Is(q[l], n)
        <5>1. j \in 1..Len(buffer) /\ rows + j \in 1..i
          BY <1>3, <3>1
        <5> QED
          BY <1>5, <4>2, <5>1, Zenon
      <4> QED
        BY <4>1, <4>2
    <3>5. n <= rows \/ n > rows
      BY <2>0
    <3> QED
      BY <3>3, <3>4, <3>5, Zenon
  <2>3. i \in 1..rows \/ i > rows
    BY <1>3
  <2> QED
    BY <2>1, <2>2, <2>3, Zenon
<1> QED
  BY <1>3, <1>4, <1>5, <1>6 DEF q

LEMMA ReplayedType ==
  ASSUME NEW s \in Stream PROVE Replayed(s) \in Stream
<1> DEFINE q == RowsThen(s.rows, s.buffer)
           w == WriteAll(s, q)
<1>1. s.rows \in Nat /\ s.buffer \in Seq(Event) /\ Real(s.rows) \subseteq Event
  BY StreamFields DEF Real
<1>2. q \in Seq(Event)
  <2>1. s.rows <= s.rows
    BY <1>1
  <2> QED
    BY <1>1, <2>1, RowsThenBuffer
<1>3. w \in Stream
  <2> HIDE DEF q
  <2> QED
    BY <1>2, WriteAllKeeps
<1>4. Replayed(s) = [w EXCEPT !.state = "live", !.buffer = <<>>, !.rows = 0]
  BY Zenon DEF Replayed, RowsThen
<1>5. <<>> \in Seq(Event) /\ 0 \in Nat
  OBVIOUS
<1> HIDE DEF w
<1> QED
  BY <1>3, <1>4, <1>5 DEF Stream

LEMMA ReplayKeeps ==
  ASSUME NEW s \in Stream, s.state = "emit", NEW top \in Nat, NEW about,
         NEW out \in SUBSET (1..top), NEW gone, Sound(s, top, about, out, gone)
  PROVE  Sound(Replayed(s), top, about, out, gone)
<1> DEFINE q == RowsThen(s.rows, s.buffer)
           w == WriteAll(s, q)
           o == Replayed(s)
<1>a. /\ Carried(s, top, about) /\ Wired(s, gone)
      /\ Dense(s.buffer, s.rows, gone)
      /\ \A n \in out : n <= s.rows \/ \E j \in 1..Len(s.buffer) : Is(s.buffer[j], n)
  BY DEF Sound, Served
<1>0. /\ s.rows \in Nat /\ s.rows <= top /\ s.buffer \in Seq(Real(top))
      /\ s.wire \in Seq(Real(top)) /\ Real(top) \in SUBSET Event
  BY <1>a, StreamFields DEF Carried, Real
<1>1. /\ q \in Seq(Real(top)) /\ Len(q) = s.rows + Len(s.buffer) /\ Len(s.buffer) \in Nat
      /\ \A i \in 1..s.rows : q[i] = Persisted(i)
      /\ \A j \in 1..Len(s.buffer) : q[s.rows + j] = s.buffer[j]
      /\ Dense(q, 0, gone)
  <2>1. Len(s.buffer) \in Nat /\ Real(top) \subseteq Real(top)
    BY <1>0
  <2>2. /\ q \in Seq(Real(top)) /\ Len(q) = s.rows + Len(s.buffer)
        /\ \A i \in 1..s.rows : q[i] = Persisted(i)
        /\ \A j \in 1..Len(s.buffer) : q[s.rows + j] = s.buffer[j]
        /\ \A g : Dense(s.buffer, s.rows, g) => Dense(q, 0, g)
    BY <1>0, <2>1, RowsThenBuffer, ZenonT(40)
  <2> HIDE DEF q
  <2>3. Dense(q, 0, gone)
    BY <1>a, <2>2, Zenon
  <2> QED
    BY <2>1, <2>2, <2>3, Zenon
<1>3. o = [w EXCEPT !.state = "live", !.buffer = <<>>, !.rows = 0]
  BY Zenon DEF Replayed, RowsThen
<1> HIDE DEF q, o
<1>2. /\ w \in Stream /\ w.passed = s.passed /\ w.wire \in Seq(Real(top))
      /\ Wired(w, gone) /\ \A i \in 1..Len(q) : q[i].seq <= w.sent
  BY <1>0, <1>1, <1>a, WriteAllKeeps
<1> HIDE DEF w
<1>4. /\ o.state = "live" /\ o.buffer = <<>> /\ o.sent = w.sent /\ o.wire = w.wire
      /\ o.seen = w.seen /\ o.base = w.base /\ o.shown = w.shown /\ o.passed = w.passed
      /\ o.rows = 0
  BY <1>2, <1>3 DEF Stream
<1>5. Wired(o, gone)
  BY <1>2, <1>4, Zenon DEF Wired
<1>6. Carried(o, top, about)
  <2>1. o.buffer \in Seq(Real(top)) /\ 0 <= top
    BY <1>4
  <2> QED
    BY <1>2, <1>4, <1>a, <2>1 DEF Carried
<1>7. ASSUME NEW n \in out PROVE n <= w.sent
  <2>1. CASE n <= s.rows
    <3>1. n \in 1..s.rows /\ n \in 1..Len(q)
      BY <1>0, <1>1, <2>1
    <3>2. q[n].seq = n
      <4>1. q[n] = Persisted(n)
        BY <1>1, <3>1, Zenon
      <4> QED
        BY <4>1 DEF Persisted
    <3> QED
      BY <1>2, <3>1, <3>2
  <2>2. ASSUME NEW j \in 1..Len(s.buffer), Is(s.buffer[j], n) PROVE n <= w.sent
    <3>1. s.rows + j \in 1..Len(q)
      BY <1>0, <1>1
    <3>2. q[s.rows + j].seq = n
      BY <1>1, <2>2 DEF Is
    <3> QED
      BY <1>2, <3>1, <3>2
  <2> QED
    BY <1>a, <2>1, <2>2
<1>8. Served(o, top, out, gone)
  BY <1>4, <1>7 DEF Served
<1> QED
  BY <1>5, <1>6, <1>8 DEF Sound, o

\* openSubscription() takes the next event off the wire.
ShownWith(s, e, handled) == IF handled /\ ~e.nav THEN s.shown \cup {e.seq} ELSE s.shown
PassedWith(s, e, handled) == IF handled \/ e.nav THEN s.passed ELSE s.passed \cup {e.seq}

LEMMA ReceivedFields ==
  ASSUME NEW s \in Stream, s.wire # <<>>, NEW e, e = Head(s.wire), NEW handled \in BOOLEAN,
         NEW o, o = Received(s, e, handled)
  PROVE  /\ o \in Stream /\ o.state = s.state /\ o.buffer = s.buffer /\ o.rows = s.rows
         /\ o.sent = s.sent /\ o.base = s.base /\ o.wire = Tail(s.wire)
         /\ \/ /\ e.seq <= s.seen /\ o.seen = s.seen
               /\ o.shown = s.shown /\ o.passed = s.passed
            \/ /\ e.seq > s.seen /\ o.seen = e.seq
               /\ o.shown = ShownWith(s, e, handled) /\ o.passed = PassedWith(s, e, handled)
<1>0. s.wire \in Seq(Event) /\ s.seen \in Int /\ s.shown \subseteq Nat /\ s.passed \subseteq Nat
  BY StreamFields
<1>1. e.seq \in Nat /\ Tail(s.wire) \in Seq(Event) /\ 0 \in Nat
  <2>1. e \in Event /\ Tail(s.wire) \in Seq(Event)
    BY <1>0, Unwired
  <2> QED
    BY <2>1 DEF Event
<1>2. CASE e.seq <= s.seen
  <2>1. o = [s EXCEPT !.wire = Tail(@), !.tries = 0]
    BY <1>2, Zenon DEF Received
  <2> QED
    BY <1>1, <1>2, <2>1 DEF Stream
<1>3. CASE ~(e.seq <= s.seen)
  <2>1. o = [s EXCEPT !.wire = Tail(@), !.tries = 0, !.seen = e.seq,
                      !.shown = ShownWith(s, e, handled), !.passed = PassedWith(s, e, handled)]
    BY <1>3, Zenon DEF Received, ShownWith, PassedWith
  <2>3. /\ ShownWith(s, e, handled) \subseteq Nat /\ PassedWith(s, e, handled) \subseteq Nat
        /\ e.seq > s.seen /\ e.seq \in Int
    BY <1>0, <1>1, <1>3 DEF ShownWith, PassedWith
  <2>4. o \in Stream
    <3> DEFINE wire == Tail(s.wire)
               seen == e.seq
               shown == ShownWith(s, e, handled)
               passed == PassedWith(s, e, handled)
    <3>1. /\ wire \in Seq(Event) /\ seen \in Int /\ 0 \in Nat
          /\ shown \in SUBSET Nat /\ passed \in SUBSET Nat
      BY <1>1, <2>3
    <3>2. o = [s EXCEPT !.wire = wire, !.tries = 0, !.seen = seen, !.shown = shown,
                        !.passed = passed]
      BY <2>1, Zenon
    <3> HIDE DEF wire, seen, shown, passed
    <3> QED
      BY <3>1, <3>2 DEF Stream
  <2>5. /\ o.state = s.state /\ o.buffer = s.buffer /\ o.rows = s.rows
        /\ o.sent = s.sent /\ o.base = s.base /\ o.wire = Tail(s.wire)
        /\ o.seen = e.seq /\ o.shown = ShownWith(s, e, handled)
        /\ o.passed = PassedWith(s, e, handled)
    BY <2>1 DEF Stream
  <2> QED
    BY <2>3, <2>4, <2>5
<1> QED
  BY <1>2, <1>3

LEMMA ReceiveKeeps ==
  ASSUME NEW s \in Stream, s.wire # <<>>, NEW e, e = Head(s.wire), NEW handled \in BOOLEAN,
         NEW top \in Nat, NEW about, NEW out, NEW gone, Sound(s, top, about, out, gone),
         handled \/ e.nav \/ e.seq \notin about
  PROVE  /\ Received(s, e, handled) \in Stream
         /\ Sound(Received(s, e, handled), top, about, out, gone)
<1> DEFINE o == Received(s, e, handled)
<1>0. Carried(s, top, about) /\ Wired(s, gone) /\ Served(s, top, out, gone)
  BY DEF Sound
<1>1. s.wire \in Seq(Event) /\ s.wire \in Seq(Real(top)) /\ s.seen \in Int /\ s.sent \in Int
  BY <1>0, StreamFields DEF Carried
<1>2. /\ o \in Stream /\ o.state = s.state /\ o.buffer = s.buffer /\ o.rows = s.rows
      /\ o.sent = s.sent /\ o.base = s.base /\ o.wire = Tail(s.wire)
      /\ \/ /\ e.seq <= s.seen /\ o.seen = s.seen
            /\ o.shown = s.shown /\ o.passed = s.passed
         \/ /\ e.seq > s.seen /\ o.seen = e.seq
            /\ o.shown = ShownWith(s, e, handled) /\ o.passed = PassedWith(s, e, handled)
  BY <1>1, ReceivedFields
<1> HIDE DEF o
<1>3. /\ e \in Real(top) /\ e = s.wire[1] /\ Tail(s.wire) \in Seq(Real(top))
      /\ Len(s.wire) \in Nat /\ Len(s.wire) >= 1 /\ Len(o.wire) = Len(s.wire) - 1
      /\ \A i \in 1..(Len(s.wire) - 1) : o.wire[i] = s.wire[i + 1]
  BY <1>1, <1>2, Unwired
<1>4. e.seq \in Int /\ o.seen \in Int /\ o.seen >= s.seen /\ o.seen >= e.seq
  <2>1. e.seq \in Int
    BY <1>3 DEF Real, Event
  <2> QED
    BY <1>1, <1>2, <2>1
<1>5. ASSUME NEW n \in Int, n > o.seen, NEW k \in 1..Len(s.wire), Is(s.wire[k], n)
      PROVE  k - 1 \in 1..(Len(s.wire) - 1) /\ Is(o.wire[k - 1], n)
  <2>1. n # e.seq
    BY <1>4, <1>5
  <2>2. k # 1
    BY <1>3, <1>5, <2>1 DEF Is
  <2>3. k - 1 \in 1..(Len(s.wire) - 1) /\ (k - 1) + 1 = k
    BY <1>3, <2>2
  <2>4. o.wire[k - 1] = s.wire[k]
    BY <1>3, <2>3
  <2> QED
    BY <1>5, <2>3, <2>4
<1>6. Dense(o.wire, o.seen, gone)
  <2> SUFFICES ASSUME NEW i \in 1..(Len(s.wire) - 1), NEW n \in 1..o.wire[i].seq, n > o.seen,
                      n \notin gone
               PROVE  \E j \in 1..i : Is(o.wire[j], n)
    BY <1>3, Zenon DEF Dense
  <2>1. i + 1 \in 1..Len(s.wire) /\ o.wire[i] = s.wire[i + 1]
    BY <1>3
  <2>2. n \in Int /\ n > s.seen
    <3>1. s.wire[i + 1].seq \in Int
      <4>1. s.wire[i + 1] \in Event
        BY <1>1, <2>1
      <4> QED
        BY <4>1 DEF Event
    <3> QED
      BY <1>1, <1>4, <2>1, <3>1
  <2>3. PICK k \in 1..(i + 1) : Is(s.wire[k], n)
    BY <1>0, <2>1, <2>2, Zenon DEF Wired, Dense
  <2>4. k \in 1..Len(s.wire)
    BY <1>3
  <2>5. k - 1 \in 1..(Len(s.wire) - 1) /\ Is(o.wire[k - 1], n)
    BY <1>5, <2>2, <2>3, <2>4
  <2>6. k - 1 \in 1..i
    BY <2>5
  <2> QED
    BY <2>5, <2>6, Zenon
<1>7. Holds(o.wire, o.seen, o.sent, gone)
  <2> SUFFICES ASSUME NEW n \in 1..s.sent, n > o.seen, n \notin gone
               PROVE  \E j \in 1..(Len(s.wire) - 1) : Is(o.wire[j], n)
    BY <1>2, <1>3, Zenon DEF Holds
  <2>1. n \in Int /\ n > s.seen
    BY <1>1, <1>4
  <2>2. PICK k \in 1..Len(s.wire) : Is(s.wire[k], n)
    BY <1>0, <2>1, Zenon DEF Wired, Holds
  <2> QED
    BY <1>5, <2>1, <2>2, Zenon
<1>8. ASSUME NEW n \in 1..o.seen, n > o.base PROVE n \in o.shown \cup o.passed \cup gone
  <2>0. n \in Int
    BY <1>4
  <2>1. n \in 1..s.seen => n \in s.shown \cup s.passed \cup gone
    BY <1>0, <1>2, <1>8, Zenon DEF Wired
  <2>2. CASE o.seen = s.seen /\ o.shown = s.shown /\ o.passed = s.passed
    BY <2>1, <2>2
  <2>3. CASE /\ e.seq > s.seen /\ o.seen = e.seq
             /\ o.shown = ShownWith(s, e, handled) /\ o.passed = PassedWith(s, e, handled)
    <3>1. CASE n <= s.seen
      <4>1. n \in 1..s.seen
        BY <1>1, <1>4, <3>1
      <4> QED
        BY <2>1, <2>3, <4>1 DEF ShownWith, PassedWith
    <3>2. CASE n > s.seen
      <4>1. 1 \in 1..Len(s.wire) /\ n \in 1..s.wire[1].seq
        BY <1>3, <2>3
      <4>2. n \in gone \/ \E j \in 1..1 : Is(s.wire[j], n)
        BY <1>0, <3>2, <4>1, Zenon DEF Wired, Dense
      <4>3. n \in gone \/ Is(e, n)
        <5>1. \A j \in 1..1 : j = 1
          OBVIOUS
        <5> QED
          BY <1>3, <4>2, <5>1
      <4>4. Is(e, n) => n \in ShownWith(s, e, handled) \cup PassedWith(s, e, handled)
        BY DEF Is, ShownWith, PassedWith
      <4> QED
        BY <2>3, <4>3, <4>4
    <3> QED
      BY <1>1, <2>0, <3>1, <3>2
  <2> QED
    BY <1>2, <2>2, <2>3
<1>9. Wired(o, gone)
  BY <1>6, <1>7, <1>8, Zenon DEF Wired
<1>10. Served(o, top, out, gone)
  <2>1. o.state \notin {"off", "closed"}
    BY <1>0, <1>2 DEF Served
  <2> QED
    BY <1>0, <1>2, <2>1 DEF Served
<1>11. Carried(o, top, about)
  <2>1. o.wire \in Seq(Real(top))
    BY <1>2, <1>3
  <2>2. e.nav \/ e.seq \in 1..top
    BY <1>3 DEF Real
  <2>3. PassedWith(s, e, handled) \subseteq (1..top) \ about
    BY <1>0, <2>2 DEF PassedWith, Carried
  <2> QED
    BY <1>0, <1>2, <2>1, <2>3 DEF Carried
<1> QED
  BY <1>2, <1>9, <1>10, <1>11 DEF Sound, o

-----------------------------------------------------------------------------
(* The whole system.                                                       *)

Out == {w \in Writer : pending[w] # 0}

\* Every seq is published or its writer is about to, each seq has one writer.
LogInv ==
  /\ \A w \in Out : pending[w] \notin published
  /\ \A v, w \in Out : pending[v] = pending[w] => v = w
  /\ \A n \in 1..log : n \in published \/ \E w \in Out : pending[w] = n

\* With a synchronous driver one event at a time is between its append and its
\* publication, and as long as no append failed the turn's own numbers stay below
\* the seqs and nothing is overtaken.
SerialInv ==
  backend = "sqlite" =>
    /\ \A v, w \in Out : v = w
    /\ backlog > 0 => Out \subseteq {Chain}
    /\ ~lossy => late = {} /\ emitted <= log + backlog

\* Every tab is sound.
StreamInv == \A t \in Tab : Sound(tab[t], log, queue, published, late)

Steady == <<backend, up, server>>

\* One step of a tab: its stream becomes o.
LEMMA TabMoves ==
  ASSUME TypeOK, NEW t \in Tab, TabStep(t)
  PROVE  /\ \E o \in Stream :
              /\ tab' = [tab EXCEPT ![t] = o]
              /\ Sound(tab[t], log, queue, published, late)
                   => Sound(o, log, queue, published, late)
         /\ UNCHANGED Steady
<1>0. /\ tab \in [Tab -> Stream] /\ tab[t] \in Stream /\ log \in Nat /\ tab[t].post \in BOOLEAN
      /\ published \in SUBSET (1..log)
  <2>1. tab \in [Tab -> Stream] /\ log \in Nat /\ published \in SUBSET (1..log)
    BY DEF TypeOK
  <2> QED
    BY <2>1, StreamFields
<1> DEFINE s == tab[t]
           Keeps(o) == Sound(s, log, queue, published, late)
                         => Sound(o, log, queue, published, late)
<1> SUFFICES \E o \in Stream : Become(t, o) /\ Keeps(o)
  BY Zenon DEF Become, Steady
<1> HIDE DEF s
<1>s. s = tab[t] /\ s \in Stream /\ s.post \in BOOLEAN
  BY <1>0 DEF s
<1>1. CASE LoadPage(t) \/ LoadFails(t)
  <2>1. PICK state \in {"off", "closed"}, seq \in Int : Become(t, Fresh(state, seq, s.post))
    <3>1. (IF log = 0 THEN -1 ELSE log) \in Int /\ -1 \in Int
      BY <1>0
    <3> QED
      BY <1>1, <1>s, <3>1, Zenon DEF LoadPage, LoadFails
  <2>2. Fresh(state, seq, s.post) \in Stream /\ Keeps(Fresh(state, seq, s.post))
    BY <1>0, <1>s, FreshKeeps
  <2> QED
    BY <2>1, <2>2, Zenon
<1>2. CASE Open(t)
  <2> DEFINE o == [s EXCEPT !.state = "query", !.sent = s.seen]
  <2>1. Become(t, o) /\ s.state = "closed"
    BY <1>2, <1>s, Zenon DEF Open
  <2>2. o \in Stream /\ Keeps(o)
    BY <1>0, <1>s, <2>1, OpenKeeps
  <2> QED
    BY <2>1, <2>2, Zenon
<1>3. CASE Reject(t) \/ PostStart(t) \/ PostEnd(t) \/ PostAnswer(t)
  <2>1. PICK o : /\ Become(t, o)
                 /\ \/ s.state = "closed" /\ o = [s EXCEPT !.state = "off"]
                    \/ o = [s EXCEPT !.post = TRUE]
                    \/ o = [s EXCEPT !.post = FALSE]
                    \/ s.state = "off" /\ o = [s EXCEPT !.state = "closed", !.tries = 0]
    BY <1>3, <1>s, Zenon DEF Reject, PostStart, PostEnd, PostAnswer
  <2>2. /\ o \in Stream /\ (o.state = s.state \/ {o.state, s.state} \subseteq {"off", "closed"})
        /\ o.buffer = s.buffer /\ o.rows = s.rows /\ o.sent = s.sent /\ o.wire = s.wire
        /\ o.seen = s.seen /\ o.shown = s.shown /\ o.passed = s.passed /\ o.base = s.base
    <3>1. CASE s.state = "closed" /\ o = [s EXCEPT !.state = "off"]
      BY <1>s, <3>1 DEF Stream
    <3>2. CASE o = [s EXCEPT !.post = TRUE]
      BY <1>s, <3>2 DEF Stream
    <3>3. CASE o = [s EXCEPT !.post = FALSE]
      BY <1>s, <3>3 DEF Stream
    <3>4. CASE s.state = "off" /\ o = [s EXCEPT !.state = "closed", !.tries = 0]
      BY <1>s, <3>4 DEF Stream
    <3> QED
      BY <2>1, <3>1, <3>2, <3>3, <3>4, Zenon
  <2>3. Keeps(o)
    BY <1>s, <2>2, SideKeeps
  <2> QED
    BY <2>1, <2>2, <2>3, Zenon
<1>4. CASE Query(t)
  <2> DEFINE o == [s EXCEPT !.state = "emit", !.rows = log]
  <2>1. Become(t, o) /\ s.state = "query"
    BY <1>4, <1>s, Zenon DEF Query
  <2>2. o \in Stream /\ Keeps(o)
    BY <1>0, <1>s, <2>1, QueryKeeps
  <2> QED
    BY <2>1, <2>2, Zenon
<1>h. ASSUME NEW a \in Stream, Keeps(a), NEW o \in Heard(a) PROVE o \in Stream /\ Keeps(o)
  <2>1. /\ o \in Stream /\ o.state = a.state /\ o.buffer = a.buffer /\ o.rows = a.rows
        /\ o.sent = a.sent /\ o.wire = a.wire /\ o.seen = a.seen /\ o.shown = a.shown
        /\ o.passed = a.passed /\ o.base = a.base
    <3>1. o = a \/ o = [a EXCEPT !.tries = 0]
      BY DEF Heard
    <3> QED
      BY <3>1 DEF Stream
  <2>2. Sound(a, log, queue, published, late) => Sound(o, log, queue, published, late)
    BY <2>1, SideKeeps
  <2> QED
    BY <1>h, <2>1, <2>2
<1>5. CASE QueryFails(t)
  <2> DEFINE a == [s EXCEPT !.state = "stuck", !.buffer = <<>>]
  <2>1. PICK o \in Heard(a) : Become(t, o)
    BY <1>5, <1>s, Zenon DEF QueryFails
  <2>2. a \in Stream /\ Keeps(a)
    BY <1>s, StuckKeeps
  <2> HIDE DEF a
  <2> QED
    BY <1>h, <2>1, <2>2
<1>6. CASE Replay(t)
  <2>1. PICK o \in Heard(Replayed(s)) : Become(t, o)
    BY <1>6, <1>s, Zenon DEF Replay
  <2>2. Replayed(s) \in Stream /\ Keeps(Replayed(s))
    <3>1. s.state = "emit"
      BY <1>6, <1>s DEF Replay
    <3> QED
      BY <1>0, <1>s, <3>1, ReplayedType, ReplayKeeps
  <2> QED
    BY <1>h, <2>1, <2>2
<1>7. CASE Receive(t)
  <2> DEFINE e == Head(s.wire)
  <2>1. PICK handled \in MayHandle(s, e) : Become(t, Received(s, e, handled))
    BY <1>7, <1>s, Zenon DEF Receive
  <2>2. handled \in BOOLEAN /\ (handled \/ e.nav \/ e.seq \notin queue) /\ s.wire # <<>>
    BY <1>7, <1>s, <2>1 DEF Receive, MayHandle
  <2>3. Received(s, e, handled) \in Stream
    BY <1>s, <2>2, ReceivedFields
  <2>4. Keeps(Received(s, e, handled))
    BY <1>0, <1>s, <2>2, ReceiveKeeps
  <2> QED
    BY <2>1, <2>3, <2>4, Zenon
<1>8. CASE Disconnect(t)
  <2>1. Become(t, Closed(s))
    BY <1>8, <1>s, Zenon DEF Disconnect
  <2>2. Closed(s) \in Stream /\ Keeps(Closed(s))
    BY <1>0, <1>s, ClosedKeeps DEF Sound
  <2> QED
    BY <2>1, <2>2, Zenon
<1> QED
  BY <1>1, <1>2, <1>3, <1>4, <1>5, <1>6, <1>7, <1>8 DEF TabStep, Connect

\* Spending leaves a budget, and a counter stays one.
BudgetOK == budget \in [events : Nat, navs : Nat, posts : Nat, faults : Nat]

LEMMA SpendType ==
  ASSUME BudgetOK, NEW what \in {"events", "navs", "posts", "faults"}, Spend(what)
  PROVE  BudgetOK'
<1>1. CASE what = "events"
  BY <1>1 DEF Spend, BudgetOK
<1>2. CASE what = "navs"
  BY <1>2 DEF Spend, BudgetOK
<1>3. CASE what = "posts"
  BY <1>3 DEF Spend, BudgetOK
<1>4. CASE what = "faults"
  BY <1>4 DEF Spend, BudgetOK
<1> QED
  BY <1>1, <1>2, <1>3, <1>4

LEMMA TabSpends ==
  ASSUME BudgetOK, NEW t \in Tab, TabStep(t) PROVE BudgetOK'
<1>1. UNCHANGED budget \/ Spend("posts") \/ Spend("faults")
  BY Zenon DEF TabStep, Connect, LoadPage, LoadFails, Open, Reject, Query, QueryFails, Replay, Receive,
     Disconnect, PostStart, PostEnd, PostAnswer
<1>2. UNCHANGED budget => BudgetOK'
  BY DEF BudgetOK
<1> QED
  BY <1>1, <1>2, SpendType

LEMMA PublishType ==
  ASSUME tab \in [Tab -> Stream], late \subseteq Nat, published \subseteq Nat,
         NEW e \in Event, Publish(e)
  PROVE  tab' \in [Tab -> Stream] /\ late' \subseteq Nat
<1>1. e.seq \in Nat
  BY DEF Event
<1>2. 1..e.seq \subseteq Nat /\ 1..(e.seq - 1) \subseteq Nat
  BY <1>1
<1>3. late' \subseteq Nat
  BY <1>2 DEF Publish
<1> QED
  BY <1>3, DeliverType DEF Publish

\* The numbers and what has been published.
CountsOK == log \in Nat /\ backlog \in Nat /\ emitted \in Nat /\ nav \in Nat
SeqsOK == pending \in [Writer -> 0..log] /\ published \subseteq 1..log /\ queue \subseteq 1..log
FlagsOK == backend \in Backends /\ up \in BOOLEAN /\ lossy \in BOOLEAN

LEMMA AppendType ==
  ASSUME CountsOK, SeqsOK, NEW w \in Writer, AppendNext(w)
  PROVE  /\ log' \in Nat /\ pending' \in [Writer -> 0..log']
         /\ pending'[w] = log' /\ log' = log + 1 /\ pending[w] = 0
         /\ \A v \in Writer \ {w} : pending'[v] = pending[v]
         /\ 1..log' = 1..log \cup {log'}
<1>1. log \in Nat /\ pending \in [Writer -> 0..log]
  BY DEF CountsOK, SeqsOK
<1>2. \A v \in Writer : pending[v] \in 0..(log + 1)
  BY <1>1
<1> QED
  BY <1>1, <1>2 DEF AppendNext

LEMMA EventIs ==
  ASSUME NEW n \in Nat PROVE Persisted(n) \in Event /\ Unpersisted(n) \in Event
BY DEF Persisted, Unpersisted, Event

LEMMA Typed == TypeOK /\ [Next]_vars => TypeOK'
<1> SUFFICES ASSUME TypeOK, [Next]_vars PROVE TypeOK'
  OBVIOUS
<1>0. /\ FlagsOK /\ CountsOK /\ SeqsOK /\ BudgetOK
      /\ late \subseteq Nat /\ published \subseteq Nat /\ tab \in [Tab -> Stream]
  <2>1. published \subseteq Nat
    BY DEF TypeOK
  <2> QED
    BY <2>1, Zenon DEF TypeOK, FlagsOK, CountsOK, SeqsOK, BudgetOK
<1>a. ASSUME FlagsOK', CountsOK', SeqsOK', BudgetOK', late' \subseteq Nat, tab' \in [Tab -> Stream]
      PROVE  TypeOK'
  BY <1>a, Zenon DEF TypeOK, FlagsOK, CountsOK, SeqsOK, BudgetOK
<1>1. CASE UNCHANGED vars \/ Restart
  <2>1. CountsOK' /\ SeqsOK' /\ BudgetOK'
    BY <1>0, <1>1 DEF vars, server, Restart, CountsOK, SeqsOK, BudgetOK
  <2>2. FlagsOK'
    BY <1>0, <1>1, Zenon DEF vars, server, Restart, FlagsOK
  <2> QED
    BY <1>0, <1>1, <1>a, <2>1, <2>2, Zenon DEF vars, server, Restart
<1>2. CASE Emit
  <2>1. CountsOK' /\ SeqsOK'
    BY <1>0, <1>2 DEF Emit, CountsOK, SeqsOK
  <2>2. BudgetOK'
    BY <1>0, <1>2, SpendType DEF Emit
  <2> QED
    BY <1>0, <1>2, <1>a, <2>1, <2>2, Zenon DEF Emit, FlagsOK
<1>3. CASE ChainAppend
  <2>1. log' \in Nat /\ pending' \in [Writer -> 0..log'] /\ log' = log + 1
    BY <1>0, <1>3, AppendType DEF ChainAppend, Writer
  <2>2. CountsOK'
    BY <1>0, <1>3, <2>1 DEF ChainAppend, CountsOK
  <2>3. SeqsOK'
    BY <1>0, <1>3, <2>1 DEF ChainAppend, SeqsOK, CountsOK
  <2>4. BudgetOK'
    BY <1>0, <1>3 DEF ChainAppend, BudgetOK
  <2> QED
    BY <1>0, <1>3, <1>a, <2>2, <2>3, <2>4, Zenon DEF ChainAppend, FlagsOK
<1>b. CASE ChainFails
  <2>1. CountsOK' /\ SeqsOK'
    BY <1>0, <1>b DEF ChainFails, CountsOK, SeqsOK
  <2>2. BudgetOK'
    BY <1>0, <1>b, SpendType DEF ChainFails
  <2>3. FlagsOK'
    BY <1>0, <1>b, Zenon DEF ChainFails, FlagsOK
  <2> QED
    BY <1>0, <1>b, <1>a, <2>1, <2>2, <2>3, Zenon DEF ChainFails
<1>4. ASSUME NEW w \in Handler, HandlerAppend(w) PROVE TypeOK'
  <2>1. log' \in Nat /\ pending' \in [Writer -> 0..log'] /\ log' = log + 1
    BY <1>0, <1>4, AppendType DEF HandlerAppend, Writer
  <2>2. CountsOK'
    BY <1>0, <1>4, <2>1 DEF HandlerAppend, CountsOK
  <2>3. SeqsOK'
    BY <1>0, <1>4, <2>1 DEF HandlerAppend, SeqsOK, CountsOK
  <2>4. BudgetOK'
    BY <1>0, <1>4, SpendType DEF HandlerAppend
  <2> QED
    BY <1>0, <1>4, <1>a, <2>2, <2>3, <2>4, Zenon DEF HandlerAppend, FlagsOK
<1>5. ASSUME NEW w \in Writer, PublishAppended(w) PROVE TypeOK'
  <2>1. pending[w] \in 1..log /\ pending[w] \in Nat
    BY <1>0, <1>5 DEF PublishAppended, SeqsOK, CountsOK
  <2>2. CountsOK' /\ BudgetOK'
    BY <1>0, <1>5 DEF PublishAppended, CountsOK, BudgetOK
  <2>3. SeqsOK'
    <3>1. pending' \in [Writer -> 0..log]
      BY <1>0, <1>5 DEF PublishAppended, SeqsOK, CountsOK
    <3> QED
      BY <1>0, <1>5, <2>1, <3>1 DEF PublishAppended, SeqsOK
  <2>4. tab' \in [Tab -> Stream] /\ late' \subseteq Nat
    BY <1>0, <1>5, <2>1, EventIs, PublishType DEF PublishAppended
  <2> QED
    BY <1>0, <1>5, <1>a, <2>2, <2>3, <2>4, Zenon DEF PublishAppended, FlagsOK
<1>6. CASE Navigate
  <2>1. CountsOK' /\ SeqsOK'
    BY <1>0, <1>6 DEF Navigate, CountsOK, SeqsOK
  <2>2. BudgetOK'
    BY <1>0, <1>6, SpendType DEF Navigate
  <2>3. tab' \in [Tab -> Stream] /\ late' \subseteq Nat
    BY <1>0, <1>6, EventIs, PublishType DEF Navigate, CountsOK
  <2> QED
    BY <1>0, <1>6, <1>a, <2>1, <2>2, <2>3, Zenon DEF Navigate, FlagsOK
<1>7. CASE TurnEnds
  <2>1. CountsOK' /\ SeqsOK' /\ BudgetOK'
    BY <1>0, <1>7 DEF TurnEnds, CountsOK, SeqsOK, BudgetOK
  <2> QED
    BY <1>0, <1>7, <1>a, <2>1, Zenon DEF TurnEnds, FlagsOK
<1>8. CASE Crash
  <2>1. CountsOK'
    BY <1>0, <1>8 DEF Crash, CountsOK
  <2>2. SeqsOK'
    BY <1>0, <1>8 DEF Crash, CountsOK, SeqsOK
  <2>3. BudgetOK'
    BY <1>0, <1>8, SpendType DEF Crash
  <2>4. tab' \in [Tab -> Stream]
    BY <1>0, <1>8, ClosedKeeps DEF Crash
  <2>5. FlagsOK'
    BY <1>0, <1>8, Zenon DEF Crash, FlagsOK
  <2> QED
    BY <1>0, <1>8, <1>a, <2>1, <2>2, <2>3, <2>4, <2>5, Zenon DEF Crash
<1>9. ASSUME NEW t \in Tab, TabStep(t) PROVE TypeOK'
  <2>1. UNCHANGED Steady /\ \E o \in Stream : tab' = [tab EXCEPT ![t] = o]
    BY <1>9, TabMoves
  <2>2. tab' \in [Tab -> Stream]
    BY <1>0, <2>1
  <2>3. CountsOK' /\ SeqsOK'
    BY <1>0, <2>1 DEF Steady, server, CountsOK, SeqsOK
  <2>4. BudgetOK'
    BY <1>0, <1>9, TabSpends
  <2> QED
    BY <1>0, <1>a, <2>1, <2>2, <2>3, <2>4, Zenon DEF Steady, server, FlagsOK
<1> QED
  BY <1>1, <1>2, <1>3, <1>4, <1>5, <1>6, <1>7, <1>8, <1>9, <1>b DEF Next

LEMMA InitTyped == Init => TypeOK
<1> SUFFICES ASSUME Init PROVE TypeOK
  OBVIOUS
<1>1. tab \in [Tab -> Stream]
  <2>1. "off" \in {"off", "closed"} /\ -1 \in Int /\ FALSE \in BOOLEAN
    OBVIOUS
  <2>2. Fresh("off", -1, FALSE) \in Stream
    BY <2>1, FreshKeeps, Zenon
  <2> QED
    BY <2>2, Zenon DEF Init
<1>2. /\ log \in Nat /\ backlog \in Nat /\ emitted \in Nat /\ nav \in Nat
      /\ pending \in [Writer -> 0..log] /\ published \subseteq 1..log
      /\ queue \subseteq 1..log /\ late \subseteq Nat
  BY DEF Init
<1>3. BudgetOK
  BY ConstantsAssumption DEF Init, BudgetOK
<1> QED
  BY <1>1, <1>2, <1>3, Zenon DEF Init, TypeOK, BudgetOK

\* Whatever is appended, published, replayed, lost or restarted, every seq that is
\* waiting or published is one the log has given out, and streams hold events.
THEOREM TypeCorrect == Spec => []TypeOK
BY InitTyped, Typed, PTL DEF Spec

-----------------------------------------------------------------------------
(* Who writes which seq.                                                   *)

\* Steps that touch neither the log nor what is published.
LEMMA LogKept ==
  ASSUME LogInv, UNCHANGED <<log, pending, published>> PROVE LogInv'
BY DEF LogInv, Out

LEMMA LogAppend ==
  ASSUME TypeOK, LogInv, NEW w \in Writer, AppendNext(w), published' = published
  PROVE  LogInv' /\ Out' = Out \cup {w} /\ w \notin Out
<1>1. CountsOK /\ SeqsOK /\ log \in Nat /\ pending \in [Writer -> 0..log] /\ published \subseteq 1..log
  BY DEF TypeOK, CountsOK, SeqsOK
<1>2. /\ pending'[w] = log' /\ log' = log + 1 /\ pending[w] = 0
      /\ \A v \in Writer \ {w} : pending'[v] = pending[v]
      /\ 1..log' = 1..log \cup {log'}
  BY <1>1, AppendType
<1>3. Out' = Out \cup {w} /\ w \notin Out
  BY <1>1, <1>2 DEF Out
<1>4. \A v \in Out : v # w /\ pending'[v] = pending[v] /\ pending[v] # log'
  BY <1>1, <1>2 DEF Out
<1>5. log' \notin published
  BY <1>1, <1>2
<1>6. \A v \in Out' : pending'[v] \notin published'
  BY <1>2, <1>3, <1>4, <1>5 DEF LogInv
<1>7. \A u, v \in Out' : pending'[u] = pending'[v] => u = v
  BY <1>2, <1>3, <1>4 DEF LogInv
<1>8. ASSUME NEW n \in 1..log' PROVE n \in published' \/ \E v \in Out' : pending'[v] = n
  <2>1. CASE n = log'
    BY <1>2, <1>3, <2>1
  <2>2. CASE n \in 1..log
    BY <1>3, <1>4, <2>2 DEF LogInv
  <2> QED
    BY <1>2, <2>1, <2>2
<1> QED
  BY <1>3, <1>6, <1>7, <1>8 DEF LogInv

LEMMA LogPublish ==
  ASSUME TypeOK, LogInv, NEW w \in Writer, PublishAppended(w)
  PROVE  /\ LogInv' /\ Out' = Out \ {w} /\ w \in Out
         /\ pending[w] \in 1..log /\ pending[w] \notin published
<1>1. log \in Nat /\ pending \in [Writer -> 0..log] /\ published \subseteq 1..log
  BY DEF TypeOK
<1>2. /\ pending[w] # 0 /\ published' = published \cup {pending[w]} /\ log' = log
      /\ pending' = [pending EXCEPT ![w] = 0]
  BY DEF PublishAppended
<1>3. w \in Out /\ pending[w] \in 1..log
  BY <1>1, <1>2 DEF Out
<1>4. Out' = Out \ {w} /\ \A v \in Out' : pending'[v] = pending[v]
  BY <1>1, <1>2 DEF Out
<1>5. pending[w] \notin published /\ \A v \in Out' : pending[v] # pending[w]
  BY <1>3, <1>4 DEF LogInv
<1>6. \A v \in Out' : pending'[v] \notin published'
  BY <1>2, <1>4, <1>5 DEF LogInv
<1>7. \A u, v \in Out' : pending'[u] = pending'[v] => u = v
  BY <1>4 DEF LogInv
<1>8. \A n \in 1..log' : n \in published' \/ \E v \in Out' : pending'[v] = n
  BY <1>2, <1>4 DEF LogInv
<1> QED
  BY <1>3, <1>4, <1>5, <1>6, <1>7, <1>8 DEF LogInv

LEMMA LogInductive ==
  ASSUME TypeOK, LogInv, [Next]_vars PROVE LogInv'
<1>1. CASE UNCHANGED vars \/ Emit \/ ChainFails \/ Navigate \/ TurnEnds \/ Restart
  BY <1>1, LogKept DEF vars, server, Emit, ChainFails, Navigate, TurnEnds, Restart
<1>2. CASE ChainAppend
  BY <1>2, LogAppend DEF ChainAppend, Writer
<1>3. ASSUME NEW w \in Handler, HandlerAppend(w) PROVE LogInv'
  BY <1>3, LogAppend DEF HandlerAppend, Writer
<1>4. ASSUME NEW w \in Writer, PublishAppended(w) PROVE LogInv'
  BY <1>4, LogPublish
<1>5. CASE Crash
  <2>1. Out' = {} /\ published' = 1..log /\ log' = log
    BY <1>5 DEF Crash, Out
  <2> QED
    BY <2>1 DEF LogInv
<1>6. ASSUME NEW t \in Tab, TabStep(t) PROVE LogInv'
  BY <1>6, TabMoves, LogKept DEF Steady, server
<1> QED
  BY <1>1, <1>2, <1>3, <1>4, <1>5, <1>6 DEF Next

\* On sqlite no publication overtakes another, unless an append has failed.
LEMMA SerialInductive ==
  ASSUME TypeOK, LogInv, SerialInv, [Next]_vars PROVE SerialInv'
<1>0. /\ log \in Nat /\ backlog \in Nat /\ emitted \in Nat /\ nav \in Nat /\ lossy \in BOOLEAN
      /\ pending \in [Writer -> 0..log] /\ published \subseteq 1..log
  BY DEF TypeOK
<1> DEFINE Goal == /\ \A v, w \in Out' : v = w
                   /\ backlog' > 0 => Out' \subseteq {Chain}
                   /\ ~lossy' => late' = {} /\ emitted' <= log' + backlog'
<1> SUFFICES ASSUME backend' = "sqlite" PROVE Goal
  BY DEF SerialInv
<1>a. backend = "sqlite"
  <2>1. backend' = backend
    BY TabMoves DEF Next, vars, server, Emit, ChainAppend, ChainFails, HandlerAppend,
       PublishAppended, Navigate, TurnEnds, Crash, Restart, Steady
  <2> QED
    BY <2>1
<1>b. /\ \A v, w \in Out : v = w
      /\ backlog > 0 => Out \subseteq {Chain}
      /\ ~lossy => late = {} /\ emitted <= log + backlog
  BY <1>a DEF SerialInv
<1>c. Free => Out = {} /\ backlog = 0 /\ 1..log \subseteq published
  BY <1>a DEF Free, Out, LogInv
<1>1. CASE UNCHANGED vars \/ Restart
  BY <1>1, <1>b DEF vars, server, Restart, Out
<1>2. CASE Emit
  BY <1>0, <1>2, <1>b, <1>c DEF Emit, Out
<1>3. CASE ChainAppend
  <2>1. Out' = Out \cup {Chain} /\ Chain \notin Out /\ log' = log + 1
    BY <1>3, LogAppend DEF ChainAppend, Writer, AppendNext
  <2>2. backlog > 0 /\ backlog' = backlog - 1 /\ UNCHANGED <<late, lossy, emitted>>
    BY <1>3 DEF ChainAppend
  <2> QED
    BY <1>0, <1>b, <2>1, <2>2
<1>d. CASE ChainFails
  <2>1. Out' = Out /\ backlog > 0 /\ backlog' = backlog - 1 /\ lossy'
    BY <1>d DEF ChainFails, Out
  <2> QED
    BY <1>0, <1>b, <2>1
<1>4. ASSUME NEW w \in Handler, HandlerAppend(w) PROVE Goal
  <2>1. Out' = Out \cup {w} /\ log' = log + 1
    BY <1>4, LogAppend DEF HandlerAppend, Writer, AppendNext
  <2>2. Free /\ UNCHANGED <<backlog, late, lossy, emitted>>
    BY <1>4 DEF HandlerAppend
  <2> QED
    BY <1>0, <1>b, <1>c, <2>1, <2>2
<1>5. ASSUME NEW w \in Writer, PublishAppended(w) PROVE Goal
  <2>1. Out' = Out \ {w} /\ w \in Out /\ pending[w] \in 1..log
    BY <1>5, LogPublish
  <2>2. \A n \in 1..(pending[w] - 1) : n \in 1..log /\ n # pending[w]
    BY <1>0, <2>1
  <2>3. 1..(pending[w] - 1) \subseteq published
    BY <1>b, <2>1, <2>2 DEF LogInv
  <2>4. late' = late
    <3>1. Persisted(pending[w]).nav = FALSE /\ Persisted(pending[w]).seq = pending[w]
      BY DEF Persisted
    <3> QED
      BY <1>5, <2>3, <3>1 DEF PublishAppended, Publish
  <2>5. UNCHANGED <<backlog, emitted, log, lossy>>
    BY <1>5 DEF PublishAppended
  <2> QED
    BY <1>b, <2>1, <2>4, <2>5
<1>6. CASE Navigate
  <2>1. Free /\ nav < emitted /\ UNCHANGED <<backlog, emitted, log, pending, lossy>>
    BY <1>0, <1>6 DEF Navigate
  <2>2. ~lossy => 1..nav \subseteq published
    BY <1>0, <1>b, <1>c, <2>1
  <2>3. ~lossy => late' = late
    <3>1. Unpersisted(nav).nav = TRUE /\ Unpersisted(nav).seq = nav
      BY DEF Unpersisted
    <3> QED
      BY <1>6, <2>2, <3>1 DEF Navigate, Publish
  <2> QED
    BY <1>b, <2>1, <2>3 DEF Out
<1>7. CASE TurnEnds
  BY <1>0, <1>7, <1>b DEF TurnEnds, Out
<1>8. CASE Crash
  BY <1>0, <1>8, <1>b DEF Crash, Out
<1>9. ASSUME NEW t \in Tab, TabStep(t) PROVE Goal
  BY <1>9, <1>b, TabMoves DEF Steady, server, Out
<1> QED
  BY <1>1, <1>2, <1>3, <1>4, <1>5, <1>6, <1>7, <1>8, <1>9, <1>d DEF Next

-----------------------------------------------------------------------------
(* No tab skips an event.                                                  *)

\* Something is published; what is numbered below it and not yet out is late.
LEMMA StreamPublish ==
  ASSUME TypeOK, StreamInv, NEW e \in Real(log), Publish(e), UNCHANGED <<log, queue>>,
         published' \in SUBSET (1..log), \A n \in published' : n \in published \/ Is(e, n)
  PROVE  StreamInv'
<1> SUFFICES ASSUME NEW t \in Tab
             PROVE  Sound(tab'[t], log', queue', published', late')
  BY DEF StreamInv
<1>1. tab[t] \in Stream /\ log \in Nat /\ published \in SUBSET (1..log)
  BY DEF TypeOK
<1>2. tab'[t] = Deliver(tab[t], e)
  BY DEF Publish
<1>3. Sound(tab[t], log, queue, published, late')
  <2>1. late \subseteq late'
    BY DEF Publish
  <2>2. Sound(tab[t], log, queue, published, late)
    BY DEF StreamInv
  <2> QED
    BY <2>1, <2>2, GoneGrows DEF Sound
<1>4. ASSUME NEW n \in 1..e.seq PROVE n \in late' \/ n \in published \/ Is(e, n)
  <2>1. e.seq \in Nat /\ e.nav \in BOOLEAN
    BY DEF Real, Event
  <2>2. n \in (IF e.nav THEN 1..e.seq ELSE 1..(e.seq - 1)) \/ Is(e, n)
    BY <2>1 DEF Is
  <2> QED
    BY <2>2, Zenon DEF Publish
<1>5. Sound(Deliver(tab[t], e), log, queue, published', late')
  BY <1>1, <1>3, <1>4, DeliverKeeps
<1> QED
  BY <1>2, <1>5

LEMMA StreamInductive ==
  ASSUME TypeOK, LogInv, StreamInv, [Next]_vars PROVE StreamInv'
<1>0. /\ log \in Nat /\ nav \in Nat /\ published \in SUBSET (1..log)
      /\ tab \in [Tab -> Stream] /\ pending \in [Writer -> 0..log]
  BY DEF TypeOK
<1>1. CASE UNCHANGED <<tab, log, queue, published, late>>
  BY <1>1 DEF StreamInv
<1>2. ASSUME NEW w, AppendNext(w), UNCHANGED <<tab, published, late>>,
             queue' = queue \/ queue' = queue \cup {log + 1}
      PROVE  StreamInv'
  <2>1. log' = log + 1 /\ queue' \subseteq queue \cup {log + 1}
    BY <1>2 DEF AppendNext
  <2>2. ASSUME NEW t \in Tab PROVE Sound(tab[t], log + 1, queue', published, late)
    <3>1. tab[t] \in Stream /\ Sound(tab[t], log, queue, published, late)
      BY <1>0 DEF StreamInv
    <3> QED
      BY <1>0, <2>1, <3>1, LogGrows
  <2> QED
    BY <1>2, <2>1, <2>2 DEF StreamInv
<1>3. ASSUME NEW w \in Writer, PublishAppended(w) PROVE StreamInv'
  <2>1. pending[w] \in 1..log
    BY <1>3, LogPublish
  <2> DEFINE e == Persisted(pending[w])
  <2>2. e \in Real(log) /\ Is(e, pending[w])
    BY <1>0, <2>1 DEF Persisted, Real, Event, Is
  <2> HIDE DEF e
  <2>3. /\ Publish(e) /\ UNCHANGED <<log, queue>>
        /\ published' = published \cup {pending[w]}
    BY <1>3 DEF PublishAppended, e
  <2>4. published' \in SUBSET (1..log)
    BY <1>0, <2>1, <2>3
  <2>5. \A n \in published' : n \in published \/ Is(e, n)
    BY <2>2, <2>3
  <2> QED
    BY <2>2, <2>3, <2>4, <2>5, StreamPublish
<1>4. CASE Navigate
  <2> DEFINE e == Unpersisted(nav)
  <2>1. e \in Real(log)
    BY <1>0 DEF Unpersisted, Real, Event
  <2> HIDE DEF e
  <2>2. Publish(e) /\ UNCHANGED <<log, queue, published>>
    BY <1>4 DEF Navigate, e
  <2> QED
    BY <1>0, <2>1, <2>2, StreamPublish
<1>5. CASE Crash
  <2>1. UNCHANGED <<log, queue, late>> /\ published' = 1..log
    BY <1>5 DEF Crash
  <2>2. ASSUME NEW t \in Tab PROVE Sound(tab'[t], log, queue, published', late)
    <3>1. tab[t] \in Stream /\ Sound(tab[t], log, queue, published, late)
      BY <1>0 DEF StreamInv
    <3>2. CASE tab[t].state \in {"off", "closed"}
      <4>1. tab'[t] = tab[t]
        BY <1>5, <3>2 DEF Crash
      <4>2. Served(tab[t], log, published', late)
        BY <3>1, <3>2 DEF Sound, Served
      <4> QED
        BY <3>1, <4>1, <4>2 DEF Sound
    <3>3. CASE tab[t].state \notin {"off", "closed"}
      <4>1. tab'[t] = Closed(tab[t])
        BY <1>5, <3>3 DEF Crash
      <4>2. Carried(tab[t], log, queue) /\ Wired(tab[t], late)
        BY <3>1 DEF Sound
      <4> QED
        BY <1>0, <3>1, <4>1, <4>2, ClosedKeeps
    <3> QED
      BY <3>2, <3>3
  <2> QED
    BY <2>1, <2>2 DEF StreamInv
<1>6. ASSUME NEW t \in Tab, TabStep(t) PROVE StreamInv'
  <2>1. UNCHANGED <<log, queue, published, late>>
    BY <1>6, TabMoves DEF Steady, server
  <2>2. PICK o \in Stream :
          /\ tab' = [tab EXCEPT ![t] = o]
          /\ Sound(tab[t], log, queue, published, late) => Sound(o, log, queue, published, late)
    BY <1>6, TabMoves
  <2>3. ASSUME NEW u \in Tab PROVE Sound(tab'[u], log, queue, published, late)
    <3>1. CASE u = t
      BY <1>0, <2>2, <3>1 DEF StreamInv
    <3>2. CASE u # t
      BY <1>0, <2>2, <3>2 DEF StreamInv
    <3> QED
      BY <3>1, <3>2
  <2> QED
    BY <2>1, <2>3 DEF StreamInv
<1>7. CASE UNCHANGED vars \/ Emit \/ ChainFails \/ TurnEnds \/ Restart
  BY <1>1, <1>7 DEF vars, server, Emit, ChainFails, TurnEnds, Restart
<1>8. CASE ChainAppend
  BY <1>2, <1>8 DEF ChainAppend
<1>9. ASSUME NEW w \in Handler, HandlerAppend(w) PROVE StreamInv'
  BY <1>2, <1>9 DEF HandlerAppend
<1> QED
  BY <1>3, <1>4, <1>5, <1>6, <1>7, <1>8, <1>9 DEF Next

LEMMA HandoffInit == Init => LogInv /\ SerialInv /\ StreamInv
<1> SUFFICES ASSUME Init PROVE LogInv /\ SerialInv /\ StreamInv
  OBVIOUS
<1>1. Out = {} /\ log = 0 /\ published = {} /\ emitted = 0 /\ backlog = 0 /\ late = {}
  BY DEF Init, Out
<1>2. LogInv /\ SerialInv
  BY <1>1 DEF LogInv, SerialInv
<1>3. "off" \in {"off", "closed"} /\ -1 \in Int /\ FALSE \in BOOLEAN /\ log \in Nat
  BY <1>1
<1>4. ASSUME NEW t \in Tab PROVE Sound(tab[t], log, queue, published, late)
  <2>1. tab[t] = Fresh("off", -1, FALSE)
    BY DEF Init
  <2> QED
    BY <1>3, <2>1, FreshKeeps, Zenon
<1> QED
  BY <1>2, <1>4 DEF StreamInv

\* "Race-free handoff" (GET events/stream), for any number of tabs, writers, events
\* and faults, on both stores: between the page it loaded and the last number it has
\* seen a tab has shown every event, but for a run's events that came during a POST
\* of its own, which it passes (never an event about the queue), and for events that
\* another event or a navigate's number overtook on the bus.  On sqlite nothing is
\* overtaken unless an append failed.
THEOREM NeverSkips == Spec => []TabSkipsNothing
<1> DEFINE Inv == TypeOK /\ LogInv /\ SerialInv /\ StreamInv
<1>1. Init => Inv
  BY InitTyped, HandoffInit
<1>2. Inv /\ [Next]_vars => Inv'
  BY Typed, LogInductive, SerialInductive, StreamInductive
<1>3. Inv => TabSkipsNothing
  <2> SUFFICES ASSUME Inv, NEW t \in Tab, NEW n \in 1..tab[t].seen, n > tab[t].base
               PROVE  \/ n \in tab[t].shown
                      \/ n \in tab[t].passed \ queue
                      \/ n \in late /\ ~InOrder
    BY DEF TabSkipsNothing
  <2>1. Carried(tab[t], log, queue) /\ Wired(tab[t], late)
    BY DEF StreamInv, Sound
  <2>2. n \in tab[t].shown \cup tab[t].passed \cup late
    BY <2>1, Zenon DEF Wired
  <2>3. n \in tab[t].passed => n \notin queue
    BY <2>1 DEF Carried
  <2>4. InOrder => late = {}
    BY Zenon DEF SerialInv, InOrder
  <2> QED
    BY <2>2, <2>3, <2>4
<1> QED
  BY <1>1, <1>2, <1>3, PTL DEF Spec
=============================================================================
