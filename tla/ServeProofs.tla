----------------------------- MODULE ServeProofs -----------------------------
(***************************************************************************)
(* Proofs about the server: the worker, the channels and the tasks that    *)
(* drain them, for any number of requests of any shapes, any context and   *)
(* any number of failures.                                                 *)
(***************************************************************************)
EXTENDS Serve, SequenceTheorems, WellFoundedInduction, TLAPS

-----------------------------------------------------------------------------
\* The least-number principle, for a set.
LEMMA LeastOf ==
  ASSUME NEW T, T \subseteq Nat, T # {}
  PROVE  \E n \in T : \A m \in T : n <= m
<1>1. IsWellFoundedOn(OpToRel(<, Nat), Nat)
  BY NatLessThanWellFounded
<1>2. PICK n \in T : \A m \in T : <<m, n>> \notin OpToRel(<, Nat)
  BY <1>1, WFMin
<1>3. \A m \in T : ~ (m < n)
  BY <1>2 DEF OpToRel
<1> QED
  BY <1>3

\* What FlattenSeq computes: f[i] is the first i sequences, put together.
Flattens(f, ss) ==
  f = [i \in 1..Len(ss) |-> IF i = 1 THEN ss[i] ELSE f[i - 1] \o ss[i]]

LEMMA FlattenUnique ==
  ASSUME NEW ss, Len(ss) \in Nat, NEW f, NEW g, Flattens(f, ss), Flattens(g, ss)
  PROVE  f = g
<1> DEFINE T == {i \in 1..Len(ss) : f[i] # g[i]}
<1>1. \A i \in 1..Len(ss) : /\ f[i] = IF i = 1 THEN ss[i] ELSE f[i - 1] \o ss[i]
                            /\ g[i] = IF i = 1 THEN ss[i] ELSE g[i - 1] \o ss[i]
  BY DEF Flattens
<1>2. T = {}
  <2> SUFFICES ASSUME T # {}
               PROVE  FALSE
    OBVIOUS
  <2>1. PICK i \in T : \A j \in T : i <= j
    <3>1. T \subseteq Nat
      OBVIOUS
    <3> HIDE DEF T
    <3> QED
      BY <3>1, LeastOf
  <2>2. i \in 1..Len(ss) /\ f[i] # g[i]
    OBVIOUS
  <2>3. i # 1
    BY <2>2, <1>1
  <2>4. i - 1 \in 1..Len(ss) /\ i - 1 \notin T
    BY <2>1, <2>2, <2>3
  <2> QED
    BY <2>2, <2>3, <2>4, <1>1
<1>3. f = [i \in 1..Len(ss) |-> f[i]] /\ g = [i \in 1..Len(ss) |-> g[i]]
  BY DEF Flattens
<1> QED
  BY <1>2, <1>3

LEMMA FlattenIs ==
  ASSUME NEW ss, Len(ss) \in Nat \ {0}, NEW f, Flattens(f, ss)
  PROVE  FlattenSeq(ss) = f[Len(ss)]
<1> DEFINE g == CHOOSE h : Flattens(h, ss)
<1>1. Flattens(g, ss)
  OBVIOUS
<1>2. g = f
  BY <1>1, FlattenUnique
<1>3. FlattenSeq(ss) = g[Len(ss)]
  BY DEF FlattenSeq, Flattens
<1> QED
  BY <1>2, <1>3

\* Every sequence of sequences flattens.
LEMMA FlattenExists ==
  ASSUME NEW S, NEW ss \in Seq(Seq(S))
  PROVE  \E f \in [1..Len(ss) -> Seq(S)] : Flattens(f, ss)
<1> DEFINE n == Len(ss)
           Rule(f, m) == \A i \in 1..m : f[i] = IF i = 1 THEN ss[i] ELSE f[i - 1] \o ss[i]
           T == {m \in 0..n : ~ \E f \in [1..m -> Seq(S)] : Rule(f, m)}
<1>1. n \in Nat /\ \A i \in 1..n : ss[i] \in Seq(S)
  OBVIOUS
<1>2. 0 \notin T
  <2> DEFINE f == [i \in 1..0 |-> <<>>]
  <2>1. f \in [1..0 -> Seq(S)] /\ Rule(f, 0)
    OBVIOUS
  <2> QED
    BY <2>1
<1>3. ASSUME T # {} PROVE FALSE
  <2>1. PICK m \in T : \A k \in T : m <= k
    <3>1. T \subseteq Nat
      BY <1>1
    <3> HIDE DEF T
    <3> QED
      BY <1>3, <3>1, LeastOf
  <2>2. m \in 1..n
    BY <1>1, <1>2
  <2>3. m - 1 \in 0..n /\ m - 1 \notin T
    <3> HIDE DEF T
    <3>1. m - 1 \in 0..n /\ ~ (m <= m - 1)
      BY <1>1, <2>2
    <3> QED
      BY <2>1, <3>1
  <2>4. PICK f \in [1..(m - 1) -> Seq(S)] : Rule(f, m - 1)
    BY <2>3
  <2> DEFINE last == IF m = 1 THEN ss[m] ELSE f[m - 1] \o ss[m]
             g == [i \in 1..m |-> IF i = m THEN last ELSE f[i]]
  <2>5. last \in Seq(S)
    <3>1. CASE m = 1
      BY <3>1, <2>2, <1>1
    <3>2. CASE m # 1
      <4>1. f[m - 1] \in Seq(S) /\ ss[m] \in Seq(S)
        BY <3>2, <2>2, <1>1
      <4>2. f[m - 1] \o ss[m] \in Seq(S)
        BY <4>1, ConcatProperties
      <4> QED
        BY <3>2, <4>2
    <3> QED
      BY <3>1, <3>2
  <2>6. g \in [1..m -> Seq(S)]
    <3> HIDE DEF last
    <3>1. \A i \in 1..m : i # m => i \in 1..(m - 1)
      BY <2>2
    <3> QED
      BY <2>5, <3>1
  <2>7. ASSUME NEW i \in 1..m
        PROVE  g[i] = IF i = 1 THEN ss[i] ELSE g[i - 1] \o ss[i]
    <3>1. CASE i = m
      <4>1. m # 1 => m - 1 \in 1..m /\ m - 1 # m
        BY <2>2
      <4> QED
        BY <3>1, <4>1
    <3>2. CASE i # m
      <4>1. i \in 1..(m - 1) /\ g[i] = f[i]
        BY <3>2, <2>2
      <4>2. i # 1 => i - 1 \in 1..m /\ i - 1 # m
        BY <4>1, <2>2
      <4>3. i # 1 => g[i - 1] = f[i - 1]
        BY <4>2
      <4> QED
        BY <2>4, <4>1, <4>3
    <3> QED
      BY <3>1, <3>2
  <2>8. Rule(g, m)
    BY <2>7
  <2> HIDE DEF g, Rule
  <2> QED
    BY <2>6, <2>8
<1>4. n \in 0..n /\ n \notin T
  <2> HIDE DEF T
  <2> QED
    BY <1>1, <1>3
<1>5. PICK f \in [1..n -> Seq(S)] : Rule(f, n)
  BY <1>4
<1>6. f = [i \in 1..n |-> f[i]]
  OBVIOUS
<1>7. f = [i \in 1..n |-> IF i = 1 THEN ss[i] ELSE f[i - 1] \o ss[i]]
  BY <1>5, <1>6
<1> QED
  BY <1>7 DEF Flattens

\* A sequence put after the others ends the result.
LEMMA FlattenAppend ==
  ASSUME NEW S, NEW ss \in Seq(Seq(S)), NEW s \in Seq(S)
  PROVE  FlattenSeq(ss) \in Seq(S) /\ FlattenSeq(Append(ss, s)) = FlattenSeq(ss) \o s
<1> DEFINE n == Len(ss)
           tt == Append(ss, s)
<1>1. PICK f \in [1..n -> Seq(S)] : Flattens(f, ss)
  BY FlattenExists
<1>2. /\ n \in Nat /\ Len(tt) = n + 1 /\ tt[n + 1] = s
      /\ \A i \in 1..n : tt[i] = ss[i]
  BY AppendProperties
<1>3. \A i \in 1..n : f[i] = IF i = 1 THEN ss[i] ELSE f[i - 1] \o ss[i]
  BY <1>1 DEF Flattens
<1> DEFINE last == IF n = 0 THEN s ELSE f[n] \o s
           g == [i \in 1..(n + 1) |-> IF i = n + 1 THEN last ELSE f[i]]
<1> HIDE DEF tt
<1>4. ASSUME NEW i \in 1..(n + 1)
      PROVE  g[i] = IF i = 1 THEN tt[i] ELSE g[i - 1] \o tt[i]
  <2>1. CASE i = n + 1
    <3>1. n # 0 => n \in 1..(n + 1) /\ n # n + 1 /\ i - 1 = n
      BY <2>1, <1>2
    <3>2. n = 0 => i = 1
      BY <2>1, <1>2
    <3>3. n # 0 => i # 1
      BY <2>1, <1>2
    <3> QED
      BY <2>1, <1>2, <3>1, <3>2, <3>3
  <2>2. CASE i # n + 1
    <3>1. i \in 1..n /\ g[i] = f[i] /\ tt[i] = ss[i]
      BY <2>2, <1>2
    <3>2. i # 1 => i - 1 \in 1..(n + 1) /\ i - 1 # n + 1
      BY <3>1, <1>2
    <3>3. i # 1 => g[i - 1] = f[i - 1]
      BY <3>2
    <3> QED
      BY <3>1, <3>3, <1>3
  <2> QED
    BY <2>1, <2>2
<1>4a. g = [i \in 1..(n + 1) |-> g[i]]
  OBVIOUS
<1> HIDE DEF g
<1>4b. g = [i \in 1..(n + 1) |-> IF i = 1 THEN tt[i] ELSE g[i - 1] \o tt[i]]
  <2>1. [i \in 1..(n + 1) |-> g[i]]
          = [i \in 1..(n + 1) |-> IF i = 1 THEN tt[i] ELSE g[i - 1] \o tt[i]]
    BY <1>4, Zenon
  <2> QED
    BY <1>4a, <2>1, Zenon
<1>5. Flattens(g, tt)
  <2>1. Len(tt) = n + 1
    BY <1>2
  <2> QED
    BY <1>4b, <2>1, Zenon DEF Flattens
<1> USE DEF g
<1>6. FlattenSeq(tt) = g[n + 1]
  BY <1>2, <1>5, FlattenIs
<1>7. g[n + 1] = last
  BY <1>2
<1>8. CASE n = 0
  <2>1. ss = <<>> /\ FlattenSeq(ss) = ss
    BY <1>8 DEF FlattenSeq
  <2> QED
    BY <1>6, <1>7, <1>8, <2>1, ConcatEmptySeq, EmptySeq DEF tt
<1>9. CASE n # 0
  <2>1. FlattenSeq(ss) = f[n]
    BY <1>1, <1>2, <1>9, FlattenIs
  <2>2. n \in 1..n
    BY <1>2, <1>9
  <2> QED
    BY <1>6, <1>7, <1>9, <2>1, <2>2 DEF tt
<1> QED
  BY <1>8, <1>9

\* The first sequence begins the result.
LEMMA FlattenHead ==
  ASSUME NEW S, NEW ss \in Seq(Seq(S)), ss # <<>>
  PROVE  FlattenSeq(ss) = Head(ss) \o FlattenSeq(Tail(ss))
<1> DEFINE h == Head(ss)
           tt == Tail(ss)
           n == Len(tt)
<1>1. /\ h \in Seq(S) /\ tt \in Seq(Seq(S)) /\ n \in Nat /\ Len(ss) = n + 1
      /\ h = ss[1] /\ \A i \in 1..n : tt[i] = ss[i + 1] /\ tt[i] \in Seq(S)
  BY HeadTailProperties
<1>n. n = Len(tt)
  OBVIOUS
<1> HIDE DEF h, tt, n
<1>2. PICK f \in [1..n -> Seq(S)] : Flattens(f, tt)
  BY <1>1, <1>n, FlattenExists
<1>3. \A i \in 1..n : f[i] = IF i = 1 THEN tt[i] ELSE f[i - 1] \o tt[i]
  BY <1>2, <1>n DEF Flattens
<1> DEFINE g == [i \in 1..(n + 1) |-> IF i = 1 THEN h ELSE h \o f[i - 1]]
<1>g. g[1] = h /\ \A k \in 1..n : g[k + 1] = h \o f[k]
  <2>1. 1 \in 1..(n + 1)
    BY <1>1
  <2>2. ASSUME NEW k \in 1..n
        PROVE  g[k + 1] = h \o f[k]
    <3>1. k + 1 \in 1..(n + 1) /\ k + 1 # 1 /\ (k + 1) - 1 = k
      BY <1>1
    <3> QED
      BY <3>1
  <2> QED
    BY <2>1, <2>2
<1>d. g = [i \in 1..(n + 1) |-> g[i]]
  OBVIOUS
<1> HIDE DEF g
<1>4. ASSUME NEW i \in 1..(n + 1)
      PROVE  g[i] = IF i = 1 THEN ss[i] ELSE g[i - 1] \o ss[i]
  <2>1. CASE i = 1
    BY <2>1, <1>1, <1>g
  <2>2. CASE i # 1
    <3>1. PICK k \in 1..n : k = i - 1
      BY <2>2, <1>1
    <3>2. i = k + 1 /\ ss[i] = tt[k] /\ g[i] = h \o f[k]
      <4>1. i = k + 1
        BY <3>1
      <4> QED
        BY <4>1, <1>1, <1>g
    <3>3. CASE k = 1
      <4>1. f[k] = tt[k] /\ g[i - 1] = h
        <5>1. i - 1 = 1
          BY <3>1, <3>3
        <5> QED
          BY <5>1, <3>3, <1>3, <1>g
      <4> QED
        BY <2>2, <3>2, <4>1
    <3>4. CASE k # 1
      <4>1. k - 1 \in 1..n /\ i - 1 = k /\ k \in 1..(n + 1)
        BY <3>1, <3>4, <1>1
      <4>2. f[k] = f[k - 1] \o tt[k] /\ g[k] = h \o f[k - 1]
        <5>1. k = (k - 1) + 1
          BY <4>1
        <5> QED
          BY <5>1, <3>4, <4>1, <1>3, <1>g
      <4>3. f[k - 1] \in Seq(S) /\ tt[k] \in Seq(S)
        BY <4>1, <1>1
      <4>4. h \o (f[k - 1] \o tt[k]) = (h \o f[k - 1]) \o tt[k]
        <5>1. h \in Seq(S)
          BY <1>1
        <5>2. PICK u \in Seq(S), v \in Seq(S) : u = f[k - 1] /\ v = tt[k]
          BY <4>3
        <5>3. h \o (u \o v) = (h \o u) \o v
          BY <5>1, SMTT(30)
        <5> QED
          BY <5>2, <5>3
      <4> QED
        BY <2>2, <3>2, <4>1, <4>2, <4>4
    <3> QED
      BY <3>3, <3>4
  <2> QED
    BY <2>1, <2>2
<1>5. Flattens(g, ss)
  BY <1>1, <1>4, <1>d, Zenon DEF Flattens
<1>6. FlattenSeq(ss) = g[n + 1]
  BY <1>1, <1>5, FlattenIs
<1>7. CASE n = 0
  <2>1. Len(tt) = 0 /\ tt = <<>>
    <3>1. Len(tt) = 0 /\ tt \in Seq(Seq(S))
      BY <1>1, <1>n, <1>7
    <3> QED
      BY <3>1, EmptySeq
  <2>a. FlattenSeq(tt) = tt
    BY <2>1, Zenon DEF FlattenSeq
  <2>2. g[n + 1] = h
    BY <1>7, <1>g
  <2>3. h \in Seq(S) /\ h \o <<>> = h
    BY <1>1, ConcatEmptySeq
  <2>4. FlattenSeq(ss) = h \o FlattenSeq(tt)
    BY <1>6, <2>1, <2>a, <2>2, <2>3
  <2> QED
    BY <2>4 DEF h, tt
<1>8. CASE n # 0
  <2>1. FlattenSeq(tt) = f[n]
    BY <1>1, <1>2, <1>8, <1>n, FlattenIs
  <2>2. g[n + 1] = h \o f[n]
    <3>1. n \in 1..n
      BY <1>1, <1>8
    <3> QED
      BY <3>1, <1>g
  <2> QED
    BY <1>6, <2>1, <2>2 DEF h, tt
<1> QED
  BY <1>7, <1>8

-----------------------------------------------------------------------------
(***************************************************************************)
(* The inductive invariant.  The jobs sent and not answered, in their      *)
(* order, are distinct and are exactly those whose outcome is `waiting`;   *)
(* those are the ones a sender is still held for; an answer is the last    *)
(* event of its channel, and agrees with the outcome of the job; and a     *)
(* drain that is open receives.  StreamShape and ToldInOrder rest on it.   *)
(***************************************************************************)
Texts    == Seq(Nat)
Events   == [kind : {"Chunk"}, text : Texts] \cup {Done, Error}
Marks    == {"role", "delta", "finish", "usage", "DONE"}
Channels == [events : Seq(Events), tx : BOOLEAN, rx : BOOLEAN]
Statuses == {0, 200, 400, 500}
Drains   == [at : {"none", "open", "closed"}, held : Texts, told : Texts,
             sse : Seq(Marks), status : Statuses]
Outcomes == {"none", "waiting", "done", "error", "lost"}
Logs     == [text : Texts, outcome : Outcomes]
Runs     == [at : {"prefill", "decode", "report", "overflow"}, job : Requests,
             gen : Nat, pending : Texts]

ServeTypes ==
  /\ shape \in [Requests -> Shapes \cup {NoShape}]
  /\ connected \in [Requests -> BOOLEAN]
  /\ jobs \in Seq(Requests)
  /\ worker \in Runs \cup {Idle, Dead}
  /\ chan \in [Requests -> Channels]
  /\ drain \in [Requests -> Drains]
  /\ log \in [Requests -> Logs]

\* The jobs sent and not answered, as WorkerIsAQueue maps them.
Unanswered == (IF worker.at \in {"idle", "dead"} THEN <<>> ELSE <<worker.job>>) \o jobs

Waiting(r) == log[r].outcome = "waiting"

QueueInv ==
  /\ \A i, j \in 1..Len(Unanswered) : Unanswered[i] = Unanswered[j] => i = j
  /\ \A r \in Requests : Waiting(r) <=> \E i \in 1..Len(Unanswered) : Unanswered[i] = r
  /\ worker = Dead => jobs = <<>>

\* What was not asked has left no trace, and what waits was accepted.
RequestInv(r) ==
  /\ ~ Made(r) => /\ drain[r] = [at |-> "none", held |-> <<>>, told |-> <<>>,
                                 sse |-> <<>>, status |-> 0]
                  /\ log[r].outcome = "none" /\ log[r].text = <<>>
                  /\ connected[r]
  /\ Made(r) => drain[r].at # "none"
  /\ Waiting(r) => Made(r) /\ shape[r].prompt <= Ctx

ChannelInv(r) ==
  /\ chan[r].tx <=> Waiting(r)
  /\ drain[r].at = "open" => chan[r].rx
  /\ ~ chan[r].rx => chan[r].events = <<>>
  /\ \A i \in 1..Len(chan[r].events) :
       chan[r].events[i].kind # "Chunk" =>
         /\ i = Len(chan[r].events)
         /\ chan[r].events[i] = Done <=> log[r].outcome = "done"
         /\ ~ Waiting(r)
  /\ drain[r].at = "open" /\ log[r].outcome = "done" =>
       chan[r].events # <<>> /\ chan[r].events[Len(chan[r].events)] = Done
  /\ drain[r].at = "open" => drain[r].status = 0
  /\ drain[r].at = "closed" /\ drain[r].status = 200 => ~ Waiting(r)

\* The text an event brings, and that of all the events of a channel.
Part(e)   == IF e.kind = "Chunk" THEN e.text ELSE <<>>
TextOf(q) == FlattenSeq([i \in 1..Len(q) |-> Part(q[i])])

TextInv(r) ==
  /\ drain[r].at = "open" =>
       (drain[r].told \o drain[r].held) \o TextOf(chan[r].events) = log[r].text
  /\ drain[r].at = "closed" /\ drain[r].status = 200 /\ log[r].outcome = "done" =>
       drain[r].told = log[r].text

Deltas(t) == t # <<>> /\ t[1] = "role" /\ \A i \in 2..Len(t) : t[i] = "delta"

\* What ends the stream of a request of shape s.
Ending(s) == <<"finish">> \o (IF s.usage THEN <<"usage">> ELSE <<>>) \o <<"DONE">>

StreamOK(s, d) ==
  /\ d.at = "open" => Deltas(d.sse)
  /\ d.at = "closed" =>
       \/ d.status = 400
       \/ d.status = 500 /\ d.sse = <<>>
       \/ \E t \in Seq(Marks) : Deltas(t) /\ d.sse = t \o Ending(s)

StreamInv(r) ==
  Made(r) /\ shape[r].stream /\ connected[r] => StreamOK(shape[r], drain[r])

LocalInv(r) == RequestInv(r) /\ ChannelInv(r) /\ TextInv(r) /\ StreamInv(r)

\* How far the turn that runs has come.
RunInv ==
  worker \in Runs =>
    /\ worker.gen <= MaxNewTokens(shape[worker.job])
    /\ worker.at = "prefill" => worker.gen = 0
    /\ worker.at \in {"prefill", "decode"} => Position <= Ctx

ServeInv == ServeTypes /\ QueueInv /\ RunInv /\ \A r \in Requests : LocalInv(r)

-----------------------------------------------------------------------------
\* A text split anywhere is two texts that make it.
LEMMA SplitText ==
  ASSUME NEW t \in Texts, NEW n \in 0..Len(t)
  PROVE  /\ SubSeq(t, 1, n) \in Texts /\ SubSeq(t, n + 1, Len(t)) \in Texts
         /\ SubSeq(t, 1, n) \o SubSeq(t, n + 1, Len(t)) = t
<1>1. Len(t) \in Nat
  BY LenProperties DEF Texts
<1>2. SubSeq(t, 1, n) \in Texts /\ SubSeq(t, n + 1, Len(t)) \in Texts
  <2>1. \A i \in 1..n : t[i] \in Nat
    BY <1>1 DEF Texts
  <2>2. \A i \in (n + 1)..Len(t) : t[i] \in Nat
    BY <1>1 DEF Texts
  <2> QED
    BY <1>1, <2>1, <2>2, SubSeqProperties DEF Texts
<1>3. SubSeq(t, 1, n) \o SubSeq(t, n + 1, Len(t)) = SubSeq(t, 1, Len(t))
  <2>1. /\ 1 \in 1..Len(t) + 1 /\ n \in (1 - 1)..Len(t) /\ Len(t) \in n..Len(t)
    BY <1>1
  <2> QED
    BY <2>1, ConcatAdjacentSubSeq DEF Texts
<1>4. SubSeq(t, 1, Len(t)) = t
  BY SubSeqFull DEF Texts
<1> QED
  BY <1>2, <1>3, <1>4

\* The first job that is removed is the head.
LEMMA RemoveHead ==
  ASSUME NEW S, NEW s \in Seq(S), s # <<>>
  PROVE  RemoveFirst(s, Head(s)) = Tail(s)
<1> DEFINE I == {i \in 1..Len(s) : s[i] = Head(s)}
<1>1. Len(s) \in Nat \ {0} /\ Head(s) = s[1] /\ 1 \in 1..Len(s)
  BY EmptySeq
<1>2. 1 \in I /\ \A i \in I : 1 <= i
  BY <1>1
<1>3. SelectInSeq(s, LAMBDA v : v = Head(s)) = IF I # {} THEN Min(I) ELSE 0
  BY DEF SelectInSeq
<1> HIDE DEF I
<1>4. Min(I) = 1
  <2>1. I \subseteq Int
    BY DEF I
  <2>2. \A x \in I : (\A y \in I : x <= y) => x = 1
    BY <1>2, <2>1
  <2>3. \E x \in I : \A y \in I : x <= y
    BY <1>2
  <2> QED
    BY <2>2, <2>3, Zenon DEF Min
<1>5. RemoveFirst(s, Head(s)) = RemoveAt(s, 1)
  <2>1. SelectInSeq(s, LAMBDA v : v = Head(s)) = 1
    BY <1>2, <1>3, <1>4
  <2>2. \E i \in 1..Len(s) : s[i] = Head(s)
    BY <1>1
  <2> QED
    BY <2>1, <2>2 DEF RemoveFirst
<1>6. SubSeq(s, 1, 1 - 1) = <<>> /\ SubSeq(s, 1 + 1, Len(s)) = Tail(s)
  BY SubSeqEmpty, TailIsSubSeq
<1>7. Tail(s) \in Seq(S)
  BY HeadTailProperties
<1>8. <<>> \o Tail(s) = Tail(s)
  BY <1>7, ConcatEmptySeq
<1> QED
  BY <1>5, <1>6, <1>8 DEF RemoveAt

\* What the worker can be.
LEMMA WorkerCases ==
  ASSUME ServeTypes
  PROVE  /\ worker \in Runs <=> worker.at \notin {"idle", "dead"}
         /\ worker \in Runs => worker # Idle /\ worker # Dead /\ worker.job \in Requests
         /\ worker = Idle <=> worker.at = "idle"
         /\ worker = Dead <=> worker.at = "dead"
         /\ Idle.at = "idle" /\ Dead.at = "dead"
         /\ Running => worker \in Runs
BY DEF ServeTypes, Runs, Idle, Dead, Running

\* A request is made of a shape that is told from none at all.
LEMMA ShapeIsMade ==
  ASSUME NEW s \in Shapes
  PROVE  s # NoShape /\ s.prompt \in Nat \ {0} /\ s.max \in Nat
BY ServeAssumption DEF NoShape


-----------------------------------------------------------------------------
(***************************************************************************)
(* What an edit of a record leaves of it, field by field.                  *)
(***************************************************************************)
DrainIs(e, a, h, t, s, c) ==
  /\ e \in Drains
  /\ e.at = a /\ e.held = h /\ e.told = t /\ e.sse = s /\ e.status = c

ChannelIs(c, events, tx, rx) ==
  /\ c \in Channels
  /\ c.events = events /\ c.tx = tx /\ c.rx = rx

LogIs(l, text, outcome) == l \in Logs /\ l.text = text /\ l.outcome = outcome

RunIs(w, at, job, gen, pending) ==
  /\ w \in Runs
  /\ w.at = at /\ w.job = job /\ w.gen = gen /\ w.pending = pending

LEMMA DrainAt ==
  ASSUME NEW d \in Drains, NEW a \in {"none", "open", "closed"}
  PROVE  DrainIs([d EXCEPT !.at = a], a, d.held, d.told, d.sse, d.status)
BY DEF DrainIs, Drains

LEMMA DrainHeld ==
  ASSUME NEW d \in Drains, NEW h \in Texts
  PROVE  DrainIs([d EXCEPT !.held = h], d.at, h, d.told, d.sse, d.status)
BY DEF DrainIs, Drains

LEMMA DrainTold ==
  ASSUME NEW d \in Drains, NEW t \in Texts
  PROVE  DrainIs([d EXCEPT !.told = t], d.at, d.held, t, d.sse, d.status)
BY DEF DrainIs, Drains

LEMMA DrainSse ==
  ASSUME NEW d \in Drains, NEW s \in Seq(Marks)
  PROVE  DrainIs([d EXCEPT !.sse = s], d.at, d.held, d.told, s, d.status)
BY DEF DrainIs, Drains

LEMMA DrainStatus ==
  ASSUME NEW d \in Drains, NEW c \in Statuses
  PROVE  DrainIs([d EXCEPT !.status = c], d.at, d.held, d.told, d.sse, c)
BY DEF DrainIs, Drains

LEMMA DrainAtStatus ==
  ASSUME NEW d \in Drains, NEW a \in {"none", "open", "closed"}, NEW c \in Statuses
  PROVE  DrainIs([d EXCEPT !.at = a, !.status = c], a, d.held, d.told, d.sse, c)
<1>1. PICK e : e = [d EXCEPT !.at = a]
  OBVIOUS
<1>2. DrainIs(e, a, d.held, d.told, d.sse, d.status)
  BY <1>1, DrainAt, Zenon
<1>3. DrainIs([e EXCEPT !.status = c], e.at, e.held, e.told, e.sse, c)
  BY <1>2, DrainStatus, Zenon DEF DrainIs
<1>4. DrainIs([e EXCEPT !.status = c], a, d.held, d.told, d.sse, c)
  BY <1>2, <1>3, Zenon DEF DrainIs
<1> QED
  BY <1>1, <1>4, Zenon

LEMMA DrainAtSse ==
  ASSUME NEW d \in Drains, NEW a \in {"none", "open", "closed"}, NEW s \in Seq(Marks)
  PROVE  DrainIs([d EXCEPT !.at = a, !.sse = s], a, d.held, d.told, s, d.status)
<1>1. PICK e : e = [d EXCEPT !.at = a]
  OBVIOUS
<1>2. DrainIs(e, a, d.held, d.told, d.sse, d.status)
  BY <1>1, DrainAt, Zenon
<1>3. DrainIs([e EXCEPT !.sse = s], e.at, e.held, e.told, s, e.status)
  BY <1>2, DrainSse, Zenon DEF DrainIs
<1>4. DrainIs([e EXCEPT !.sse = s], a, d.held, d.told, s, d.status)
  BY <1>2, <1>3, Zenon DEF DrainIs
<1> QED
  BY <1>1, <1>4, Zenon

\* What telling a text, and closing, make of a drain.
LEMMA ToldOK ==
  ASSUME NEW r, NEW d \in Drains, NEW t \in Texts
  PROVE  DrainIs(Told(r, d, t), d.at, d.held, d.told \o t,
                 IF shape[r].stream /\ connected[r] /\ t # <<>> THEN Append(d.sse, "delta") ELSE d.sse,
                 d.status)
<1> DEFINE s == IF shape[r].stream /\ connected[r] /\ t # <<>> THEN Append(d.sse, "delta") ELSE d.sse
<1>1. d.told \o t \in Texts /\ d.sse \in Seq(Marks)
  BY ConcatProperties DEF Drains, Texts
<1>2. "delta" \in Marks
  BY DEF Marks
<1>3. s \in Seq(Marks)
  BY <1>1, <1>2, AppendProperties
<1>4. PICK e : e = [d EXCEPT !.told = d.told \o t]
  OBVIOUS
<1>5. DrainIs(e, d.at, d.held, d.told \o t, d.sse, d.status)
  BY <1>1, <1>4, DrainTold, Zenon
<1>6. Told(r, d, t) = [e EXCEPT !.sse = s]
  BY <1>4, <1>5 DEF Told, DrainIs
<1> HIDE DEF s
<1>7. DrainIs([e EXCEPT !.sse = s], e.at, e.held, e.told, s, e.status)
  BY <1>3, <1>5, DrainSse, Zenon DEF DrainIs
<1>8. DrainIs(Told(r, d, t), d.at, d.held, d.told \o t, s, d.status)
  BY <1>5, <1>6, <1>7, Zenon DEF DrainIs
<1> QED
  BY <1>8, Zenon DEF s

LEMMA ClosedOK ==
  ASSUME NEW r, NEW d \in Drains, NEW ok \in BOOLEAN
  PROVE  DrainIs(Closed(r, d, ok), "closed", <<>>, d.told,
                 IF shape[r].stream /\ connected[r] THEN d.sse \o Closing(r, ok) ELSE d.sse,
                 IF ok \/ shape[r].stream THEN 200 ELSE 500)
<1> DEFINE s == IF shape[r].stream /\ connected[r] THEN d.sse \o Closing(r, ok) ELSE d.sse
           c == IF ok \/ shape[r].stream THEN 200 ELSE 500
<1>1. d.sse \in Seq(Marks) /\ <<>> \in Texts /\ c \in Statuses
  BY DEF Drains, Texts, Statuses
<1>2. Closing(r, ok) \in Seq(Marks)
  <2> DEFINE u == IF shape[r].usage THEN <<"usage">> ELSE <<>>
  <2>1. /\ <<"finish">> \in Seq(Marks) /\ <<"DONE">> \in Seq(Marks)
        /\ <<"usage">> \in Seq(Marks) /\ <<>> \in Seq(Marks)
    BY DEF Marks
  <2>2. u \in Seq(Marks)
    BY <2>1
  <2>3. Closing(r, ok) = <<"finish">> \o u \o <<"DONE">>
    BY DEF Closing
  <2> HIDE DEF u
  <2>4. <<"finish">> \o u \in Seq(Marks)
    BY <2>1, <2>2, ConcatProperties
  <2> QED
    BY <2>1, <2>3, <2>4, ConcatProperties
<1>3. s \in Seq(Marks)
  BY <1>1, <1>2, ConcatProperties
<1>4. PICK e : e = [d EXCEPT !.at = "closed"]
  OBVIOUS
<1>5. DrainIs(e, "closed", d.held, d.told, d.sse, d.status)
  BY <1>4, DrainAt, Zenon
<1>6. PICK f : f = [e EXCEPT !.held = <<>>]
  OBVIOUS
<1>7. DrainIs([e EXCEPT !.held = <<>>], e.at, <<>>, e.told, e.sse, e.status)
  BY <1>1, <1>5, DrainHeld, Zenon DEF DrainIs
<1>8. DrainIs(f, "closed", <<>>, d.told, d.sse, d.status)
  BY <1>5, <1>6, <1>7, Zenon DEF DrainIs
<1>9. f.sse = d.sse
  BY <1>8 DEF DrainIs
<1>10. PICK g : g = [f EXCEPT !.sse = s]
  OBVIOUS
<1>11. Closed(r, d, ok) = [g EXCEPT !.status = c]
  BY <1>4, <1>6, <1>9, <1>10 DEF Closed
<1> HIDE DEF s, c
<1>12. DrainIs([f EXCEPT !.sse = s], f.at, f.held, f.told, s, f.status)
  BY <1>3, <1>8, DrainSse, Zenon DEF DrainIs
<1>13. DrainIs(g, "closed", <<>>, d.told, s, d.status)
  BY <1>8, <1>10, <1>12, Zenon DEF DrainIs
<1>14. DrainIs([g EXCEPT !.status = c], g.at, g.held, g.told, g.sse, c)
  BY <1>1, <1>13, DrainStatus, Zenon DEF DrainIs
<1>15. DrainIs(Closed(r, d, ok), "closed", <<>>, d.told, s, c)
  BY <1>11, <1>13, <1>14, Zenon DEF DrainIs
<1> QED
  BY <1>15, Zenon DEF s, c

LEMMA SentOK ==
  ASSUME NEW c \in Channels, NEW e \in Events
  PROVE  LET events == IF c.rx THEN Append(c.events, e) ELSE c.events
         IN  /\ ChannelIs(Sent(c, e), events, c.tx, c.rx)
             /\ ChannelIs([Sent(c, e) EXCEPT !.tx = FALSE], events, FALSE, c.rx)
<1> DEFINE events == IF c.rx THEN Append(c.events, e) ELSE c.events
<1>1. c.events \in Seq(Events) /\ c.rx \in BOOLEAN /\ c.tx \in BOOLEAN
  BY DEF Channels
<1>2. Append(c.events, e) \in Seq(Events)
  BY <1>1, AppendProperties
<1>3. PICK d : d = [c EXCEPT !.events = Append(c.events, e)]
  OBVIOUS
<1>4. ChannelIs(d, Append(c.events, e), c.tx, c.rx)
  BY <1>2, <1>3 DEF ChannelIs, Channels
<1>5. Sent(c, e) = IF c.rx THEN d ELSE c
  BY <1>3 DEF Sent
<1>6. ChannelIs(c, c.events, c.tx, c.rx)
  BY DEF ChannelIs
<1>7. ChannelIs(Sent(c, e), events, c.tx, c.rx)
  BY <1>4, <1>5, <1>6
<1>8. PICK s : s = Sent(c, e)
  OBVIOUS
<1>9. s \in Channels /\ s.events = events /\ s.rx = c.rx
  BY <1>7, <1>8 DEF ChannelIs
<1>10. ChannelIs([s EXCEPT !.tx = FALSE], s.events, FALSE, s.rx)
  BY <1>9 DEF ChannelIs, Channels
<1>11. ChannelIs([s EXCEPT !.tx = FALSE], events, FALSE, c.rx)
  BY <1>9, <1>10, Zenon
<1> QED
  BY <1>7, <1>8, <1>11, Zenon

LEMMA ChannelEdit ==
  ASSUME NEW c \in Channels
  PROVE  /\ ChannelIs([c EXCEPT !.tx = FALSE], c.events, FALSE, c.rx)
         /\ ChannelIs([c EXCEPT !.rx = FALSE, !.events = <<>>], <<>>, c.tx, FALSE)
         /\ c.events # <<>> =>
              ChannelIs([c EXCEPT !.events = Tail(c.events)], Tail(c.events), c.tx, c.rx)
<1>1. ChannelIs([c EXCEPT !.tx = FALSE], c.events, FALSE, c.rx)
  BY DEF ChannelIs, Channels
<1>2. PICK d : d = [c EXCEPT !.rx = FALSE]
  OBVIOUS
<1>4. d \in Channels /\ d.tx = c.tx /\ d.rx = FALSE
  <2>1. d \in Channels
    BY <1>2 DEF Channels
  <2>2. d.tx = c.tx
    BY <1>2 DEF Channels
  <2>3. d.rx = FALSE
    BY <1>2 DEF Channels
  <2> QED
    BY <2>1, <2>2, <2>3
<1>5. ChannelIs([d EXCEPT !.events = <<>>], <<>>, d.tx, d.rx)
  <2>1. d \in Channels
    BY <1>4
  <2>2. <<>> \in Seq(Events)
    OBVIOUS
  <2>3. [d EXCEPT !.events = <<>>] \in Channels
    BY <2>1, <2>2 DEF Channels
  <2>4. [d EXCEPT !.events = <<>>].events = <<>>
    BY <2>1 DEF Channels
  <2>5. [d EXCEPT !.events = <<>>].tx = d.tx /\ [d EXCEPT !.events = <<>>].rx = d.rx
    BY <2>1 DEF Channels
  <2> QED
    BY <2>3, <2>4, <2>5, Zenon DEF ChannelIs
<1>6. ChannelIs([d EXCEPT !.events = <<>>], <<>>, c.tx, FALSE)
  BY <1>4, <1>5, Zenon
<1>7. ASSUME c.events # <<>>
      PROVE  ChannelIs([c EXCEPT !.events = Tail(c.events)], Tail(c.events), c.tx, c.rx)
  <2>1. c.events \in Seq(Events)
    BY DEF Channels
  <2>2. Tail(c.events) \in Seq(Events)
    BY <1>7, <2>1, HeadTailProperties
  <2> QED
    BY <2>2 DEF ChannelIs, Channels
<1> QED
  BY <1>1, <1>2, <1>6, <1>7, Zenon

LEMMA LogEdit ==
  ASSUME NEW l \in Logs
  PROVE  /\ \A o \in Outcomes : LogIs([l EXCEPT !.outcome = o], l.text, o)
         /\ \A t \in Texts : LogIs([l EXCEPT !.text = l.text \o t], l.text \o t, l.outcome)
<1>1. ASSUME NEW o \in Outcomes
      PROVE  LogIs([l EXCEPT !.outcome = o], l.text, o)
  BY DEF LogIs, Logs
<1>2. ASSUME NEW t \in Texts
      PROVE  LogIs([l EXCEPT !.text = l.text \o t], l.text \o t, l.outcome)
  <2>1. l.text \o t \in Texts
    BY ConcatProperties DEF Logs, Texts
  <2> QED
    BY <2>1 DEF LogIs, Logs
<1> QED
  BY <1>1, <1>2

LEMMA RunEdit ==
  ASSUME NEW w \in Runs, NEW p \in Texts,
         NEW a \in {"prefill", "decode", "report", "overflow"}
  PROVE  /\ RunIs([w EXCEPT !.at = a], a, w.job, w.gen, w.pending)
         /\ RunIs([w EXCEPT !.at = a, !.pending = p], a, w.job, w.gen, p)
         /\ RunIs([w EXCEPT !.gen = w.gen + 1, !.pending = p, !.at = a], a, w.job, w.gen + 1, p)
<1>1. RunIs([w EXCEPT !.at = a], a, w.job, w.gen, w.pending)
  BY DEF RunIs, Runs
<1>2. PICK v : v = [w EXCEPT !.at = a]
  OBVIOUS
<1>3. v \in Runs /\ v.at = a /\ v.job = w.job /\ v.gen = w.gen
  BY <1>1, <1>2 DEF RunIs
<1>4. RunIs([v EXCEPT !.pending = p], v.at, v.job, v.gen, p)
  BY <1>3 DEF RunIs, Runs
<1>5. RunIs([v EXCEPT !.pending = p], a, w.job, w.gen, p)
  BY <1>3, <1>4, Zenon
<1>6. PICK x : x = [w EXCEPT !.gen = w.gen + 1]
  OBVIOUS
<1>7. x \in Runs /\ x.at = w.at /\ x.job = w.job /\ x.gen = w.gen + 1
  BY <1>6 DEF Runs
<1>8. PICK y : y = [x EXCEPT !.pending = p]
  OBVIOUS
<1>9. y \in Runs /\ y.job = w.job /\ y.gen = w.gen + 1 /\ y.pending = p
  BY <1>7, <1>8 DEF Runs
<1>10. RunIs([y EXCEPT !.at = a], a, y.job, y.gen, y.pending)
  BY <1>9 DEF RunIs, Runs
<1>11. RunIs([y EXCEPT !.at = a], a, w.job, w.gen + 1, p)
  BY <1>9, <1>10, Zenon
<1> QED
  BY <1>1, <1>2, <1>5, <1>6, <1>8, <1>11, Zenon

-----------------------------------------------------------------------------
(***************************************************************************)
(* Lemmas about the parts of the invariant.                                *)
(***************************************************************************)
LEMMA PartIsText ==
  ASSUME NEW e \in Events
  PROVE  Part(e) \in Texts
BY DEF Part, Events, Done, Error, Texts

\* What the events of a channel bring: nothing if there are none, an event
\* sent after the others brings its text last, and the first event's is first.
LEMMA TextOfEmpty == TextOf(<<>>) = <<>>
<1>1. [i \in 1..Len(<<>>) |-> Part(<<>>[i])] = <<>>
  OBVIOUS
<1>2. FlattenSeq(<<>>) = <<>>
  BY DEF FlattenSeq
<1> QED
  BY <1>1, <1>2, Zenon DEF TextOf

LEMMA PartsOK ==
  ASSUME NEW q \in Seq(Events)
  PROVE  [i \in 1..Len(q) |-> Part(q[i])] \in Seq(Seq(Nat))
<1>1. \A i \in 1..Len(q) : Part(q[i]) \in Seq(Nat)
  BY PartIsText DEF Texts
<1>2. Len(q) \in Nat
  OBVIOUS
<1> QED
  BY <1>1, <1>2

LEMMA TextOfAppend ==
  ASSUME NEW q \in Seq(Events), NEW e \in Events
  PROVE  TextOf(q) \in Texts /\ TextOf(Append(q, e)) = TextOf(q) \o Part(e)
<1> DEFINE p == [i \in 1..Len(q) |-> Part(q[i])]
           a == [i \in 1..Len(Append(q, e)) |-> Part(Append(q, e)[i])]
<1>1. p \in Seq(Seq(Nat)) /\ Part(e) \in Seq(Nat) /\ Append(q, e) \in Seq(Events)
  BY PartsOK, PartIsText, AppendProperties DEF Texts
<1>2. a \in Seq(Seq(Nat))
  BY <1>1, PartsOK
<1>3. Len(a) = Len(q) + 1 /\ Len(p) = Len(q) /\ Len(q) \in Nat
  BY AppendProperties
<1>4. Append(p, Part(e)) \in Seq(Seq(Nat)) /\ Len(Append(p, Part(e))) = Len(q) + 1
  BY <1>1, <1>3, AppendProperties
<1>5. ASSUME NEW i \in 1..(Len(q) + 1)
      PROVE  a[i] = Append(p, Part(e))[i]
  <2>1. CASE i = Len(q) + 1
    BY <2>1, <1>1, <1>3, AppendProperties
  <2>2. CASE i # Len(q) + 1
    <3>1. i \in 1..Len(q) /\ i \in 1..Len(Append(q, e))
      BY <2>2, <1>3, AppendProperties
    <3>2. a[i] = Part(q[i]) /\ Append(p, Part(e))[i] = p[i]
      BY <3>1, <1>1, <1>3, AppendProperties
    <3> QED
      BY <3>1, <3>2
  <2> QED
    BY <2>1, <2>2
<1>6. a = Append(p, Part(e))
  <2> HIDE DEF a, p
  <2> QED
    BY <1>2, <1>3, <1>4, <1>5, SeqEqual
<1> HIDE DEF a, p
<1>7. FlattenSeq(p) \in Seq(Nat) /\ FlattenSeq(Append(p, Part(e))) = FlattenSeq(p) \o Part(e)
  BY <1>1, FlattenAppend
<1> QED
  BY <1>6, <1>7, Zenon DEF TextOf, Texts, a, p

LEMMA TextOfHead ==
  ASSUME NEW q \in Seq(Events), q # <<>>
  PROVE  /\ TextOf(Tail(q)) \in Texts /\ Head(q) \in Events
         /\ TextOf(q) = Part(Head(q)) \o TextOf(Tail(q))
<1> DEFINE p == [i \in 1..Len(q) |-> Part(q[i])]
           b == [i \in 1..Len(Tail(q)) |-> Part(Tail(q)[i])]
<1>1. /\ p \in Seq(Seq(Nat)) /\ Tail(q) \in Seq(Events) /\ Head(q) \in Events
      /\ Len(Tail(q)) = Len(q) - 1 /\ Len(q) \in Nat \ {0} /\ Head(q) = q[1]
      /\ \A i \in 1..Len(Tail(q)) : Tail(q)[i] = q[i + 1]
  BY PartsOK, HeadTailProperties, EmptySeq
<1>2. b \in Seq(Seq(Nat))
  BY <1>1, PartsOK
<1>3. Len(p) = Len(q) /\ Len(b) = Len(q) - 1
  BY <1>1
<1>4. p # <<>>
  BY <1>1, <1>3
<1>5. /\ Tail(p) \in Seq(Seq(Nat)) /\ Len(Tail(p)) = Len(q) - 1 /\ Head(p) = p[1]
      /\ \A i \in 1..Len(Tail(p)) : Tail(p)[i] = p[i + 1]
  BY <1>1, <1>3, <1>4, HeadTailProperties
<1>6. ASSUME NEW i \in 1..(Len(q) - 1)
      PROVE  b[i] = Tail(p)[i]
  <2>1. i + 1 \in 1..Len(q)
    BY <1>1
  <2>2. b[i] = Part(q[i + 1])
    BY <1>1
  <2> QED
    BY <2>1, <2>2, <1>5
<1>7. p[1] = Part(Head(q))
  BY <1>1
<1>8. b = Tail(p)
  <2> HIDE DEF b, p
  <2> QED
    BY <1>2, <1>3, <1>5, <1>6, SeqEqual
<1>9. FlattenSeq(p) = Head(p) \o FlattenSeq(Tail(p))
  <2> HIDE DEF p
  <2> QED
    BY <1>1, <1>4, FlattenHead
<1>10. FlattenSeq(b) \in Texts
  <2> HIDE DEF b
  <2>1. <<>> \in Seq(Nat)
    OBVIOUS
  <2> QED
    BY <1>2, <2>1, FlattenAppend DEF Texts
<1>11. TextOf(q) = FlattenSeq(p) /\ TextOf(Tail(q)) = FlattenSeq(b)
  BY Zenon DEF TextOf
<1> HIDE DEF b, p
<1> QED
  BY <1>1, <1>5, <1>7, <1>8, <1>9, <1>10, <1>11, Zenon

\* What is true of a request stays true when nothing of it changes.
LEMMA LocalKept ==
  ASSUME NEW r \in Requests, LocalInv(r),
         shape'[r] = shape[r], connected'[r] = connected[r], chan'[r] = chan[r],
         drain'[r] = drain[r], log'[r] = log[r]
  PROVE  LocalInv(r)'
<1>1. RequestInv(r)'
  BY DEF LocalInv, RequestInv, Made, Waiting
<1>2. ChannelInv(r)'
  BY DEF LocalInv, ChannelInv, Waiting
<1>3. TextInv(r)'
  BY DEF LocalInv, TextInv, TextOf, Part
<1>4. StreamInv(r)'
  BY DEF LocalInv, StreamInv, Made
<1> QED
  BY <1>1, <1>2, <1>3, <1>4 DEF LocalInv

\* The queue stays as it is when the unanswered jobs and the outcomes do.
LEMMA QueueKept ==
  ASSUME QueueInv, Unanswered' = Unanswered,
         \A r \in Requests : Waiting(r)' <=> Waiting(r),
         worker' = Dead => jobs' = <<>>
  PROVE  QueueInv'
BY DEF QueueInv

\* One value of a function is changed.
LEMMA PutOne ==
  ASSUME NEW D, NEW f \in [Requests -> D], NEW r \in Requests, NEW d \in D,
         NEW g, g = [f EXCEPT ![r] = d]
  PROVE  g \in [Requests -> D] /\ g[r] = d /\ \A q \in Requests \ {r} : g[q] = f[q]
OBVIOUS

LEMMA ServeFacts ==
  ASSUME ServeInv, NEW r \in Requests
  PROVE  /\ shape[r] \in Shapes \cup {NoShape} /\ connected[r] \in BOOLEAN
         /\ chan[r] \in Channels /\ drain[r] \in Drains /\ log[r] \in Logs
         /\ LocalInv(r)
BY DEF ServeInv, ServeTypes

\* The job that runs is the first one unanswered.
LEMMA JobWaits ==
  ASSUME ServeInv, worker \in Runs
  PROVE  /\ worker.job \in Requests /\ Waiting(worker.job) /\ Made(worker.job)
         /\ shape[worker.job] \in Shapes /\ shape[worker.job].prompt <= Ctx
         /\ Unanswered = <<worker.job>> \o jobs
         /\ \A i \in 1..Len(jobs) : jobs[i] # worker.job
<1>1. ServeTypes /\ QueueInv /\ jobs \in Seq(Requests)
  BY DEF ServeInv, ServeTypes
<1>2. worker.job \in Requests /\ worker.at \notin {"idle", "dead"}
  BY <1>1, WorkerCases
<1>3. Unanswered = <<worker.job>> \o jobs
  BY <1>2 DEF Unanswered
<1>4. /\ Len(Unanswered) = Len(jobs) + 1 /\ Len(jobs) \in Nat /\ Unanswered[1] = worker.job
      /\ \A i \in 1..Len(jobs) : Unanswered[i + 1] = jobs[i]
  BY <1>1, <1>2, <1>3
<1>5. Waiting(worker.job)
  <2>1. 1 \in 1..Len(Unanswered)
    BY <1>4
  <2> QED
    BY <1>1, <1>2, <1>4, <2>1 DEF QueueInv
<1>6. ASSUME NEW i \in 1..Len(jobs), jobs[i] = worker.job
      PROVE  FALSE
  <2>1. 1 \in 1..Len(Unanswered) /\ i + 1 \in 1..Len(Unanswered) /\ i + 1 # 1
    BY <1>4
  <2>2. Unanswered[i + 1] = Unanswered[1]
    BY <1>4, <1>6
  <2> QED
    BY <1>1, <2>1, <2>2 DEF QueueInv
<1>7. RequestInv(worker.job) /\ shape[worker.job] \in Shapes \cup {NoShape}
  BY <1>2, ServeFacts DEF LocalInv
<1> QED
  BY <1>2, <1>3, <1>5, <1>6, <1>7 DEF RequestInv, Made

\* A request that is about to be made.
LEMMA NewIsFresh ==
  ASSUME ServeInv, NEW r \in Requests, New(r)
  PROVE  /\ ~ Made(r) /\ ~ Waiting(r) /\ log[r].outcome = "none" /\ log[r].text = <<>>
         /\ DrainIs(drain[r], "none", <<>>, <<>>, <<>>, 0)
         /\ connected[r] /\ chan[r].tx \in BOOLEAN /\ ~ chan[r].tx
<1>1. RequestInv(r) /\ ChannelInv(r) /\ ~ Made(r) /\ drain[r] \in Drains /\ chan[r] \in Channels
  BY ServeFacts DEF LocalInv, New
<1>2. /\ drain[r] = [at |-> "none", held |-> <<>>, told |-> <<>>, sse |-> <<>>, status |-> 0]
      /\ log[r].outcome = "none" /\ log[r].text = <<>> /\ connected[r]
  BY <1>1 DEF RequestInv
<1>3. ~ Waiting(r)
  BY <1>2 DEF Waiting
<1>4. DrainIs(drain[r], "none", <<>>, <<>>, <<>>, 0)
  BY <1>1, <1>2 DEF DrainIs
<1>5. chan[r].tx \in BOOLEAN /\ ~ chan[r].tx
  BY <1>1, <1>3 DEF ChannelInv, Channels
<1> QED
  BY <1>1, <1>2, <1>3, <1>4, <1>5

\* The turn that runs is as far as it was when neither it nor its request
\* changes.
LEMMA RunKept ==
  ASSUME ServeInv, worker' = worker, \A q \in Requests : Made(q) => shape'[q] = shape[q]
  PROVE  RunInv'
<1> SUFFICES ASSUME worker \in Runs
             PROVE  /\ worker.gen <= MaxNewTokens(shape'[worker.job])
                    /\ worker.at = "prefill" => worker.gen = 0
                    /\ worker.at \in {"prefill", "decode"} =>
                         shape'[worker.job].prompt + worker.gen <= Ctx
  BY DEF RunInv, Position
<1>1. shape'[worker.job] = shape[worker.job]
  BY JobWaits
<1> QED
  BY <1>1 DEF ServeInv, RunInv, Position

LEMMA RejectInv ==
  ASSUME ServeInv, NEW r \in Requests, Reject(r)
  PROVE  ServeInv'
<1>c. PICK c \in Statuses : c = 400
  BY DEF Statuses
<1>1. /\ New(r) /\ UNCHANGED <<connected, jobs, worker, chan, log, faults>>
      /\ drain' = [drain EXCEPT ![r].at = "closed", ![r].status = c]
  BY <1>c DEF Reject
<1>2. PICK s \in Shapes : s.prompt > Ctx /\ shape' = [shape EXCEPT ![r] = s]
  BY DEF Reject
<1>3. ServeTypes /\ QueueInv /\ drain \in [Requests -> Drains] /\ drain[r] \in Drains
      /\ shape \in [Requests -> Shapes \cup {NoShape}]
  BY DEF ServeInv, ServeTypes
<1>4. /\ shape' \in [Requests -> Shapes \cup {NoShape}] /\ shape'[r] = s
      /\ \A q \in Requests \ {r} : shape'[q] = shape[q]
  BY <1>2, <1>3
<1>5. /\ ~ Made(r) /\ ~ Waiting(r) /\ log[r].outcome = "none" /\ log[r].text = <<>>
      /\ drain[r].at = "none" /\ ~ chan[r].tx
  BY <1>1, NewIsFresh DEF DrainIs
<1>6. DrainIs([drain[r] EXCEPT !.at = "closed", !.status = c],
              "closed", drain[r].held, drain[r].told, drain[r].sse, c)
  BY <1>3, DrainAtStatus, Zenon
<1>7. /\ drain' \in [Requests -> Drains]
      /\ drain'[r] = [drain[r] EXCEPT !.at = "closed", !.status = c]
      /\ \A q \in Requests \ {r} : drain'[q] = drain[q]
  <2>1. /\ drain'[r] = [drain[r] EXCEPT !.at = "closed", !.status = c]
        /\ \A q \in Requests \ {r} : drain'[q] = drain[q]
    BY <1>1, <1>3
  <2>2. drain'[r] \in Drains
    BY <1>6, <2>1, Zenon DEF DrainIs
  <2>3. drain' = [q \in Requests |-> drain'[q]]
    BY <1>1, <1>3
  <2>4. \A q \in Requests : drain'[q] \in Drains
    BY <1>3, <2>1, <2>2
  <2> QED
    BY <2>1, <2>3, <2>4
<1>8. drain'[r].at = "closed" /\ drain'[r].status = 400
  <2>1. drain'[r].at = "closed" /\ drain'[r].status = c
    BY <1>6, <1>7, Zenon DEF DrainIs
  <2> QED
    BY <2>1, <1>c
<1>9. ServeTypes'
  BY <1>1, <1>3, <1>4, <1>7 DEF ServeTypes
<1>10. QueueInv'
  BY <1>1, <1>3, QueueKept DEF Unanswered, Waiting, QueueInv
<1>11. RunInv'
  <2>1. \A q \in Requests : Made(q) => shape'[q] = shape[q]
    BY <1>4, <1>5
  <2> QED
    BY <1>1, <2>1, RunKept
<1>12. LocalInv(r)'
  <2>1. RequestInv(r)'
    BY <1>1, <1>4, <1>5, <1>8, ShapeIsMade DEF RequestInv, Made, Waiting
  <2>2. ChannelInv(r)'
    <3>1. ChannelInv(r)
      BY ServeFacts DEF LocalInv
    <3> QED
      BY <1>1, <1>5, <1>8, <3>1 DEF ChannelInv, Waiting
  <2>3. TextInv(r)' /\ StreamInv(r)'
    BY <1>8 DEF TextInv, StreamInv, StreamOK
  <2> QED
    BY <2>1, <2>2, <2>3 DEF LocalInv
<1>13. ASSUME NEW q \in Requests \ {r}
       PROVE  LocalInv(q)'
  BY <1>1, <1>4, <1>7, ServeFacts, LocalKept
<1> QED
  BY <1>9, <1>10, <1>11, <1>12, <1>13 DEF ServeInv

\* The unanswered jobs: a sequence of requests, to which a job sent is added.
LEMMA UnansweredOK ==
  ASSUME ServeTypes
  PROVE  /\ Unanswered \in Seq(Requests)
         /\ worker \in Runs => Unanswered = <<worker.job>> \o jobs
         /\ worker \notin Runs => Unanswered = jobs
         /\ \A r \in Requests : worker' = worker /\ jobs' = Append(jobs, r) =>
              Unanswered' = Append(Unanswered, r)
<1>1. jobs \in Seq(Requests)
  BY DEF ServeTypes
<1> DEFINE head == IF worker.at \in {"idle", "dead"} THEN <<>> ELSE <<worker.job>>
<1>2. head \in Seq(Requests)
  BY WorkerCases
<1>3. Unanswered = head \o jobs
  BY DEF Unanswered
<1>4. worker \notin Runs => head = <<>>
  BY WorkerCases
<1>5. worker \in Runs => head = <<worker.job>>
  BY WorkerCases
<1>6. ASSUME NEW r \in Requests, worker' = worker, jobs' = Append(jobs, r)
      PROVE  Unanswered' = Append(Unanswered, r)
  <2>1. Unanswered' = head \o Append(jobs, r)
    BY <1>6 DEF Unanswered
  <2> HIDE DEF head
  <2>2. head \o jobs \in Seq(Requests) /\ <<r>> \in Seq(Requests)
    BY <1>1, <1>2, ConcatProperties
  <2>3. Append(jobs, r) = jobs \o <<r>> /\ Append(head \o jobs, r) = (head \o jobs) \o <<r>>
    BY <1>1, <2>2, AppendIsConcat
  <2>4. (head \o jobs) \o <<r>> = head \o (jobs \o <<r>>)
    BY <1>1, <1>2, <2>2, ConcatAssociative
  <2> QED
    BY <1>3, <2>1, <2>3, <2>4
<1> HIDE DEF head
<1>7. head \o jobs \in Seq(Requests)
  BY <1>1, <1>2, ConcatProperties
<1>8. worker \notin Runs => Unanswered = jobs
  BY <1>1, <1>3, <1>4, ConcatEmptySeq
<1>9. worker \in Runs => Unanswered = <<worker.job>> \o jobs
  BY <1>3, <1>5
<1> QED
  BY <1>3, <1>6, <1>7, <1>8, <1>9

\* A request accepted joins the queue.
LEMMA QueueJoined ==
  ASSUME ServeTypes, QueueInv, NEW r \in Requests, ~ Waiting(r), worker' = worker,
         worker # Dead, jobs' = Append(jobs, r), Waiting(r)',
         \A q \in Requests \ {r} : Waiting(q)' <=> Waiting(q)
  PROVE  QueueInv'
<1> DEFINE u == Unanswered
           n == Len(u)
<1>1. u \in Seq(Requests) /\ n \in Nat /\ Unanswered' = Append(u, r)
  BY UnansweredOK
<1>2. /\ Len(Append(u, r)) = n + 1 /\ Append(u, r)[n + 1] = r
      /\ \A i \in 1..n : Append(u, r)[i] = u[i]
  BY <1>1, AppendProperties
<1>3. /\ \A i, j \in 1..n : u[i] = u[j] => i = j
      /\ \A q \in Requests : Waiting(q) <=> \E i \in 1..n : u[i] = q
  BY DEF QueueInv
<1> HIDE DEF u, n
<1>4. \A i \in 1..n : u[i] # r
  BY <1>3
<1> DEFINE v == Append(u, r)
<1>5. ASSUME NEW i \in 1..(n + 1), NEW j \in 1..(n + 1), v[i] = v[j]
      PROVE  i = j
  BY <1>1, <1>2, <1>3, <1>4, <1>5
<1>6. ASSUME NEW q \in Requests
      PROVE  Waiting(q)' <=> \E i \in 1..(n + 1) : v[i] = q
  <2>1. CASE q = r
    <3>1. n + 1 \in 1..(n + 1)
      BY <1>1
    <3> QED
      BY <2>1, <3>1, <1>2
  <2>2. CASE q # r
    <3>1. ASSUME NEW i \in 1..(n + 1), v[i] = q
          PROVE  i \in 1..n /\ u[i] = q
      BY <3>1, <2>2, <1>1, <1>2
    <3>2. ASSUME NEW i \in 1..n, u[i] = q
          PROVE  i \in 1..(n + 1) /\ v[i] = q
      BY <3>2, <1>1, <1>2
    <3>3. Waiting(q)' <=> Waiting(q)
      BY <2>2
    <3> HIDE DEF v
    <3> QED
      BY <3>1, <3>2, <3>3, <1>3
  <2> QED
    BY <2>1, <2>2
<1>7. Unanswered' = v /\ Len(v) = n + 1
  BY <1>1, <1>2
<1> HIDE DEF v
<1> QED
  BY <1>5, <1>6, <1>7 DEF QueueInv

LEMMA AcceptInv ==
  ASSUME ServeInv, NEW r \in Requests, Accept(r)
  PROVE  ServeInv'
<1>1. /\ New(r) /\ worker # Dead /\ UNCHANGED <<connected, worker, faults>>
      /\ jobs' = Append(jobs, r)
      /\ chan' = [chan EXCEPT ![r] = [events |-> <<>>, tx |-> TRUE, rx |-> TRUE]]
      /\ log' = [log EXCEPT ![r].outcome = "waiting"]
  BY DEF Accept
<1>2. PICK s \in Shapes :
        /\ s.prompt <= Ctx /\ shape' = [shape EXCEPT ![r] = s]
        /\ drain' = [drain EXCEPT ![r].at = "open", ![r].sse = IF s.stream THEN <<"role">> ELSE <<>>]
  BY DEF Accept
<1>3. ServeTypes /\ QueueInv /\ drain \in [Requests -> Drains] /\ drain[r] \in Drains
      /\ shape \in [Requests -> Shapes \cup {NoShape}] /\ jobs \in Seq(Requests)
      /\ chan \in [Requests -> Channels] /\ log \in [Requests -> Logs] /\ log[r] \in Logs
  BY DEF ServeInv, ServeTypes
<1>4. /\ shape' \in [Requests -> Shapes \cup {NoShape}] /\ shape'[r] = s
      /\ \A q \in Requests \ {r} : shape'[q] = shape[q]
  BY <1>2, <1>3
<1>5. /\ ~ Made(r) /\ ~ Waiting(r) /\ log[r].outcome = "none" /\ log[r].text = <<>>
      /\ DrainIs(drain[r], "none", <<>>, <<>>, <<>>, 0)
  BY <1>1, NewIsFresh
<1> DEFINE sse == IF s.stream THEN <<"role">> ELSE <<>>
<1>6. DrainIs([drain[r] EXCEPT !.at = "open", !.sse = sse], "open", <<>>, <<>>, sse, 0)
  <2>1. sse \in Seq(Marks)
    <3>1. <<"role">> \in Seq(Marks) /\ <<>> \in Seq(Marks)
      BY DEF Marks
    <3> QED
      BY <3>1
  <2> HIDE DEF sse
  <2>2. DrainIs([drain[r] EXCEPT !.at = "open", !.sse = sse],
                "open", drain[r].held, drain[r].told, sse, drain[r].status)
    BY <1>3, <2>1, DrainAtSse, Zenon
  <2> QED
    BY <1>5, <2>2, Zenon DEF DrainIs
<1>7. /\ drain' \in [Requests -> Drains]
      /\ drain'[r] = [drain[r] EXCEPT !.at = "open", !.sse = sse]
      /\ \A q \in Requests \ {r} : drain'[q] = drain[q]
  <2>1. /\ drain'[r] = [drain[r] EXCEPT !.at = "open", !.sse = sse]
        /\ \A q \in Requests \ {r} : drain'[q] = drain[q]
    BY <1>2, <1>3
  <2>2. drain'[r] \in Drains
    BY <1>6, <2>1, Zenon DEF DrainIs
  <2>3. drain' = [q \in Requests |-> drain'[q]]
    BY <1>2, <1>3
  <2>4. \A q \in Requests : drain'[q] \in Drains
    BY <1>3, <2>1, <2>2
  <2> QED
    BY <2>1, <2>3, <2>4
<1>8. DrainIs(drain'[r], "open", <<>>, <<>>, sse, 0)
  BY <1>6, <1>7, Zenon
<1>9. /\ chan' \in [Requests -> Channels]
      /\ chan'[r].events = <<>> /\ chan'[r].tx /\ chan'[r].rx
      /\ \A q \in Requests \ {r} : chan'[q] = chan[q]
  <2>1. [events |-> <<>>, tx |-> TRUE, rx |-> TRUE] \in Channels
    BY DEF Channels
  <2>2. /\ chan' \in [Requests -> Channels]
        /\ chan'[r] = [events |-> <<>>, tx |-> TRUE, rx |-> TRUE]
        /\ \A q \in Requests \ {r} : chan'[q] = chan[q]
    BY <1>1, <1>3, <2>1, PutOne
  <2> QED
    BY <2>2
<1>10. /\ log' \in [Requests -> Logs] /\ LogIs(log'[r], <<>>, "waiting")
       /\ \A q \in Requests \ {r} : log'[q] = log[q]
  <2>1. "waiting" \in Outcomes
    BY DEF Outcomes
  <2>2. LogIs([log[r] EXCEPT !.outcome = "waiting"], log[r].text, "waiting")
    BY <1>3, <2>1, LogEdit, Zenon
  <2>3. log'[r] = [log[r] EXCEPT !.outcome = "waiting"]
    BY <1>1, <1>3
  <2>4. LogIs(log'[r], <<>>, "waiting")
    BY <1>5, <2>2, <2>3, Zenon
  <2>5. log'[r] \in Logs
    BY <2>4 DEF LogIs
  <2>6. log' \in [Requests -> Logs] /\ \A q \in Requests \ {r} : log'[q] = log[q]
    BY <1>1, <1>3, <2>5
  <2> QED
    BY <2>4, <2>6
<1>11. log'[r].outcome = "waiting" /\ log'[r].text = <<>>
  BY <1>10 DEF LogIs
<1>12. ServeTypes'
  <2>1. jobs' \in Seq(Requests)
    BY <1>1, <1>3, AppendProperties
  <2> QED
    BY <1>1, <1>3, <1>4, <1>7, <1>9, <1>10, <2>1 DEF ServeTypes
<1>13. QueueInv'
  BY <1>1, <1>3, <1>5, <1>10, <1>11, QueueJoined DEF Waiting
<1>14. RunInv'
  <2>1. \A q \in Requests : Made(q) => shape'[q] = shape[q]
    BY <1>4, <1>5
  <2> QED
    BY <1>1, <2>1, RunKept
<1>15. LocalInv(r)'
  <2>1. drain'[r].at = "open" /\ drain'[r].held = <<>> /\ drain'[r].told = <<>>
        /\ drain'[r].sse = sse /\ drain'[r].status = 0
    BY <1>8 DEF DrainIs
  <2>2. s # NoShape /\ s.prompt <= Ctx
    BY <1>2, ShapeIsMade
  <2>3. RequestInv(r)'
    BY <1>4, <2>1, <2>2 DEF RequestInv, Made, Waiting
  <2>4. ChannelInv(r)'
    BY <1>9, <1>11, <2>1 DEF ChannelInv, Waiting
  <2>5. TextInv(r)'
    <3>1. (<<>> \o <<>>) \o <<>> = <<>>
      OBVIOUS
    <3> QED
      BY <1>9, <1>11, <2>1, <3>1, TextOfEmpty DEF TextInv
  <2>6. StreamInv(r)'
    <3>1. s.stream => Deltas(<<"role">>) /\ sse = <<"role">>
      BY DEF Deltas
    <3> HIDE DEF sse
    <3> QED
      BY <1>4, <2>1, <3>1 DEF StreamInv, StreamOK
  <2> QED
    BY <2>3, <2>4, <2>5, <2>6 DEF LocalInv
<1>16. ASSUME NEW q \in Requests \ {r}
       PROVE  LocalInv(q)'
  BY <1>1, <1>4, <1>7, <1>9, <1>10, ServeFacts, LocalKept
<1> QED
  BY <1>12, <1>13, <1>14, <1>15, <1>16 DEF ServeInv

LEMMA NotRunningInv ==
  ASSUME ServeInv, NEW r \in Requests, NotRunning(r)
  PROVE  ServeInv'
<1>c. PICK c \in Statuses : c = 500
  BY DEF Statuses
<1>1. /\ New(r) /\ UNCHANGED <<connected, jobs, worker, chan, faults>>
      /\ drain' = [drain EXCEPT ![r].at = "closed", ![r].status = c]
      /\ log' = [log EXCEPT ![r].outcome = "lost"]
  BY <1>c DEF NotRunning
<1>2. PICK s \in Shapes : s.prompt <= Ctx /\ shape' = [shape EXCEPT ![r] = s]
  BY DEF NotRunning
<1>3. ServeTypes /\ QueueInv /\ drain \in [Requests -> Drains] /\ drain[r] \in Drains
      /\ shape \in [Requests -> Shapes \cup {NoShape}]
      /\ log \in [Requests -> Logs] /\ log[r] \in Logs
  BY DEF ServeInv, ServeTypes
<1>4. /\ shape' \in [Requests -> Shapes \cup {NoShape}] /\ shape'[r] = s
      /\ \A q \in Requests \ {r} : shape'[q] = shape[q]
  BY <1>2, <1>3
<1>5. /\ ~ Made(r) /\ ~ Waiting(r) /\ log[r].outcome = "none" /\ log[r].text = <<>>
      /\ DrainIs(drain[r], "none", <<>>, <<>>, <<>>, 0) /\ ~ chan[r].tx
  BY <1>1, NewIsFresh
<1>6. DrainIs([drain[r] EXCEPT !.at = "closed", !.status = c], "closed", <<>>, <<>>, <<>>, c)
  <2>2. DrainIs([drain[r] EXCEPT !.at = "closed", !.status = c],
                "closed", drain[r].held, drain[r].told, drain[r].sse, c)
    <3>1. drain[r] \in Drains
      BY <1>3
    <3> QED
      BY <3>1, DrainAtStatus, Zenon
  <2>3. drain[r].held = <<>> /\ drain[r].told = <<>> /\ drain[r].sse = <<>>
    BY <1>5 DEF DrainIs
  <2> QED
    BY <2>2, <2>3, Zenon
<1>7. /\ drain' \in [Requests -> Drains]
      /\ drain'[r] = [drain[r] EXCEPT !.at = "closed", !.status = c]
      /\ \A q \in Requests \ {r} : drain'[q] = drain[q]
  <2>1. /\ drain'[r] = [drain[r] EXCEPT !.at = "closed", !.status = c]
        /\ \A q \in Requests \ {r} : drain'[q] = drain[q]
    BY <1>1, <1>3
  <2>2. drain'[r] \in Drains
    BY <1>6, <2>1, Zenon DEF DrainIs
  <2>3. drain' = [q \in Requests |-> drain'[q]]
    BY <1>1, <1>3
  <2>4. \A q \in Requests : drain'[q] \in Drains
    BY <1>3, <2>1, <2>2
  <2> QED
    BY <2>1, <2>3, <2>4
<1>8. drain'[r].at = "closed" /\ drain'[r].status = 500 /\ drain'[r].sse = <<>>
  <2>1. drain'[r].at = "closed" /\ drain'[r].status = c /\ drain'[r].sse = <<>>
    BY <1>6, <1>7, Zenon DEF DrainIs
  <2> QED
    BY <2>1, <1>c
<1>9. /\ log' \in [Requests -> Logs] /\ log'[r].outcome = "lost"
      /\ \A q \in Requests \ {r} : log'[q] = log[q]
  <2>1. "lost" \in Outcomes
    BY DEF Outcomes
  <2>2. LogIs([log[r] EXCEPT !.outcome = "lost"], log[r].text, "lost")
    BY <1>3, <2>1, LogEdit, Zenon
  <2>3. log'[r] = [log[r] EXCEPT !.outcome = "lost"]
    BY <1>1, <1>3
  <2>4. log'[r] \in Logs /\ log'[r].outcome = "lost"
    BY <2>2, <2>3, Zenon DEF LogIs
  <2>5. log' \in [Requests -> Logs] /\ \A q \in Requests \ {r} : log'[q] = log[q]
    BY <1>1, <1>3, <2>4
  <2> QED
    BY <2>4, <2>5
<1>10. ServeTypes'
  BY <1>1, <1>3, <1>4, <1>7, <1>9 DEF ServeTypes
<1>11. QueueInv'
  <2>1. Unanswered' = Unanswered
    BY <1>1 DEF Unanswered
  <2>2. \A q \in Requests : Waiting(q)' <=> Waiting(q)
    BY <1>5, <1>9 DEF Waiting
  <2>3. worker' = Dead => jobs' = <<>>
    BY <1>1, <1>3 DEF QueueInv
  <2> QED
    BY <1>3, <2>1, <2>2, <2>3, QueueKept
<1>12. RunInv'
  <2>1. \A q \in Requests : Made(q) => shape'[q] = shape[q]
    BY <1>4, <1>5
  <2> QED
    BY <1>1, <2>1, RunKept
<1>13. LocalInv(r)'
  <2>1. RequestInv(r)'
    BY <1>2, <1>4, <1>8, <1>9, ShapeIsMade DEF RequestInv, Made, Waiting
  <2>2. ChannelInv(r)'
    <3>1. ChannelInv(r)
      BY ServeFacts DEF LocalInv
    <3> QED
      BY <1>1, <1>5, <1>8, <1>9, <3>1 DEF ChannelInv, Waiting
  <2>3. TextInv(r)' /\ StreamInv(r)'
    BY <1>8 DEF TextInv, StreamInv, StreamOK
  <2> QED
    BY <2>1, <2>2, <2>3 DEF LocalInv
<1>14. ASSUME NEW q \in Requests \ {r}
       PROVE  LocalInv(q)'
  BY <1>1, <1>4, <1>7, <1>9, ServeFacts, LocalKept
<1> QED
  BY <1>10, <1>11, <1>12, <1>13, <1>14 DEF ServeInv

LEMMA DisconnectInv ==
  ASSUME ServeInv, NEW r \in Requests, Disconnect(r)
  PROVE  ServeInv'
<1>1. /\ drain[r].at = "open" /\ UNCHANGED <<shape, jobs, worker, log, faults>>
      /\ connected' = [connected EXCEPT ![r] = FALSE]
  BY DEF Disconnect
<1>2. ServeTypes /\ QueueInv /\ drain \in [Requests -> Drains] /\ drain[r] \in Drains
      /\ connected \in [Requests -> BOOLEAN]
      /\ chan \in [Requests -> Channels] /\ chan[r] \in Channels
  BY DEF ServeInv, ServeTypes
<1>3. /\ connected' \in [Requests -> BOOLEAN] /\ ~ connected'[r]
      /\ \A q \in Requests \ {r} : connected'[q] = connected[q]
  BY <1>1, <1>2
<1>4. RequestInv(r) /\ ChannelInv(r) /\ TextInv(r) /\ Made(r)
  <2>1. RequestInv(r) /\ ChannelInv(r) /\ TextInv(r)
    BY ServeFacts DEF LocalInv
  <2> QED
    BY <1>1, <2>1 DEF RequestInv
<1>5. \/ chan' = chan /\ drain' = drain
      \/ /\ drain' = [drain EXCEPT ![r].at = "closed"]
         /\ chan' = [chan EXCEPT ![r].rx = FALSE, ![r].events = <<>>]
  BY DEF Disconnect
<1>6. /\ chan' \in [Requests -> Channels] /\ drain' \in [Requests -> Drains]
      /\ \A q \in Requests \ {r} : chan'[q] = chan[q] /\ drain'[q] = drain[q]
      /\ \/ chan'[r] = chan[r] /\ drain'[r] = drain[r]
         \/ /\ DrainIs(drain'[r], "closed", drain[r].held, drain[r].told, drain[r].sse, drain[r].status)
            /\ ChannelIs(chan'[r], <<>>, chan[r].tx, FALSE)
  <2>1. CASE chan' = chan /\ drain' = drain
    BY <2>1, <1>2
  <2>2. CASE /\ drain' = [drain EXCEPT ![r].at = "closed"]
             /\ chan' = [chan EXCEPT ![r].rx = FALSE, ![r].events = <<>>]
    <3>1. /\ drain'[r] = [drain[r] EXCEPT !.at = "closed"]
          /\ chan'[r] = [chan[r] EXCEPT !.rx = FALSE, !.events = <<>>]
          /\ \A q \in Requests \ {r} : chan'[q] = chan[q] /\ drain'[q] = drain[q]
      BY <2>2, <1>2
    <3>2. DrainIs(drain'[r], "closed", drain[r].held, drain[r].told, drain[r].sse, drain[r].status)
      BY <1>2, <3>1, DrainAt, Zenon
    <3>3. ChannelIs(chan'[r], <<>>, chan[r].tx, FALSE)
      BY <1>2, <3>1, ChannelEdit, Zenon
    <3>4. drain'[r] \in Drains /\ chan'[r] \in Channels
      BY <3>2, <3>3, Zenon DEF DrainIs, ChannelIs
    <3>5. /\ drain' = [q \in Requests |-> drain'[q]]
          /\ chan' = [q \in Requests |-> chan'[q]]
      BY <2>2, <1>2
    <3>6. \A q \in Requests : drain'[q] \in Drains /\ chan'[q] \in Channels
      BY <1>2, <3>1, <3>4
    <3> QED
      BY <3>1, <3>2, <3>3, <3>5, <3>6
  <2> QED
    BY <1>5, <2>1, <2>2
<1>7. ServeTypes'
  BY <1>1, <1>2, <1>3, <1>6 DEF ServeTypes
<1>8. QueueInv'
  BY <1>1, <1>2, QueueKept DEF Unanswered, Waiting, QueueInv
<1>9. RunInv'
  BY <1>1, RunKept
<1>10. LocalInv(r)'
  <2>1. \/ chan'[r] = chan[r] /\ drain'[r] = drain[r]
        \/ /\ drain'[r].at = "closed" /\ drain'[r].status = drain[r].status
           /\ chan'[r].events = <<>> /\ chan'[r].tx = chan[r].tx /\ chan'[r].rx = FALSE
    BY <1>6 DEF DrainIs, ChannelIs
  <2>2. RequestInv(r)'
    BY <1>1, <1>4, <2>1 DEF RequestInv, Made, Waiting
  <2>3. ChannelInv(r)'
    BY <1>1, <1>4, <2>1 DEF ChannelInv, Waiting
  <2>4. TextInv(r)'
    <3>1. drain[r].status = 0
      BY <1>1, <1>4 DEF ChannelInv
    <3>2. CASE chan'[r] = chan[r] /\ drain'[r] = drain[r]
      BY <1>1, <1>4, <3>2 DEF TextInv, TextOf
    <3>3. CASE drain'[r].at = "closed" /\ drain'[r].status = drain[r].status
      BY <3>1, <3>3 DEF TextInv
    <3> QED
      BY <2>1, <3>2, <3>3
  <2>5. StreamInv(r)'
    BY <1>3 DEF StreamInv
  <2> QED
    BY <2>2, <2>3, <2>4, <2>5 DEF LocalInv
<1>11. ASSUME NEW q \in Requests \ {r}
       PROVE  LocalInv(q)'
  BY <1>1, <1>3, <1>6, ServeFacts, LocalKept
<1> QED
  BY <1>7, <1>8, <1>9, <1>10, <1>11 DEF ServeInv

-----------------------------------------------------------------------------
(***************************************************************************)
(* The steps of the worker.                                                *)
(***************************************************************************)
LEMMA MaxOK ==
  ASSUME NEW s \in Shapes, s.prompt <= Ctx
  PROVE  MaxNewTokens(s) \in Nat \ {0}
<1>1. s.prompt \in Nat /\ s.max \in Nat /\ Ctx \in Nat
  BY ShapeIsMade, ServeAssumption
<1>2. AtLeastOne(s.max) \in Nat /\ Ctx - s.prompt \in Nat
  BY <1>1 DEF AtLeastOne
<1>3. Smaller(AtLeastOne(s.max), Ctx - s.prompt) \in Nat
  BY <1>2 DEF Smaller
<1> QED
  BY <1>3 DEF MaxNewTokens, AtLeastOne

\* A step of the worker that keeps its job keeps the queue.
LEMMA QueueOfRun ==
  ASSUME ServeInv, worker \in Runs, worker' \in Runs, worker'.job = worker.job, jobs' = jobs,
         \A r \in Requests : log'[r].outcome = log[r].outcome
  PROVE  QueueInv'
<1>1. worker.at \notin {"idle", "dead"} /\ worker'.at \notin {"idle", "dead"} /\ worker' # Dead
  BY DEF Runs, Dead
<1>2. Unanswered' = Unanswered
  BY <1>1 DEF Unanswered
<1>3. \A r \in Requests : Waiting(r)' <=> Waiting(r)
  BY DEF Waiting
<1> QED
  BY <1>1, <1>2, <1>3, QueueKept DEF ServeInv

LEMMA TakeInv ==
  ASSUME ServeInv, Take
  PROVE  ServeInv'
<1>1. /\ worker = Idle /\ jobs # <<>> /\ UNCHANGED <<shape, connected, chan, drain, log, faults>>
      /\ worker' = [at |-> "prefill", job |-> Head(jobs), gen |-> 0, pending |-> <<>>]
      /\ jobs' = RemoveFirst(jobs, Head(jobs))
  BY DEF Take, NextJob
<1>2. ServeTypes /\ QueueInv /\ jobs \in Seq(Requests) /\ worker \notin Runs
  BY <1>1, WorkerCases DEF ServeInv, ServeTypes
<1>3. /\ Head(jobs) \in Requests /\ Tail(jobs) \in Seq(Requests) /\ jobs' = Tail(jobs)
      /\ Head(jobs) = jobs[1] /\ Len(jobs) \in Nat \ {0}
  BY <1>1, <1>2, HeadTailProperties, RemoveHead, EmptySeq
<1>4. worker' \in Runs /\ worker'.job = Head(jobs) /\ worker'.gen = 0 /\ worker'.at = "prefill"
  <2>1. <<>> \in Texts
    BY DEF Texts
  <2> QED
    BY <1>1, <1>3, <2>1 DEF Runs
<1>5. ServeTypes'
  BY <1>1, <1>2, <1>3, <1>4 DEF ServeTypes
<1>6. Unanswered = jobs
  BY <1>2, UnansweredOK
<1>7. Unanswered' = jobs
  <2>1. Unanswered' = <<Head(jobs)>> \o Tail(jobs)
    BY <1>3, <1>4 DEF Unanswered, Runs
  <2> QED
    BY <2>1, <1>2, <1>1
<1>8. QueueInv'
  <2>1. worker' # Dead
    BY <1>4 DEF Dead
  <2>2. \A r \in Requests : Waiting(r)' <=> Waiting(r)
    BY <1>1 DEF Waiting
  <2> QED
    BY <1>2, <1>6, <1>7, <2>1, <2>2, QueueKept
<1>9. RunInv'
  <2>1. Waiting(Head(jobs))
    <3>1. 1 \in 1..Len(Unanswered) /\ Unanswered[1] = Head(jobs)
      BY <1>3, <1>6
    <3> QED
      BY <1>2, <1>3, <3>1 DEF QueueInv
  <2>2. shape[Head(jobs)] \in Shapes /\ shape[Head(jobs)].prompt <= Ctx
    BY <1>3, <2>1, ServeFacts DEF LocalInv, RequestInv, Made
  <2>3. MaxNewTokens(shape[Head(jobs)]) \in Nat /\ shape[Head(jobs)].prompt \in Nat
    BY <2>2, MaxOK, ShapeIsMade
  <2>4. 0 <= MaxNewTokens(shape[Head(jobs)]) /\ shape[Head(jobs)].prompt + 0 <= Ctx
    BY <2>2, <2>3
  <2> QED
    BY <1>1, <1>4, <2>4 DEF RunInv, Position
<1>10. ASSUME NEW q \in Requests
       PROVE  LocalInv(q)'
  BY <1>1, ServeFacts, LocalKept
<1> QED
  BY <1>5, <1>8, <1>9, <1>10 DEF ServeInv

\* A step that only moves the turn along.
LEMMA MoveInv ==
  ASSUME ServeInv, worker \in Runs, NEW a, NEW p,
         RunIs(worker', a, worker.job, worker.gen, p),
         a # "prefill", a = "decode" => worker.at \in {"prefill", "decode"},
         UNCHANGED <<shape, connected, jobs, chan, drain, log, faults>>
  PROVE  ServeInv'
<1>1. worker' \in Runs /\ worker'.at = a /\ worker'.job = worker.job /\ worker'.gen = worker.gen
  BY DEF RunIs
<1>2. ServeTypes'
  BY <1>1 DEF ServeInv, ServeTypes
<1>3. QueueInv'
  BY <1>1, QueueOfRun
<1>4. RunInv'
  BY <1>1 DEF ServeInv, RunInv, Position
<1>5. ASSUME NEW q \in Requests
      PROVE  LocalInv(q)'
  BY ServeFacts, LocalKept
<1> QED
  BY <1>2, <1>3, <1>4, <1>5 DEF ServeInv

LEMMA PrefillInv ==
  ASSUME ServeInv, Prefill
  PROVE  ServeInv'
<1>1. /\ worker.at = "prefill" /\ worker' = [worker EXCEPT !.at = "decode"]
      /\ UNCHANGED <<shape, connected, jobs, chan, drain, log, faults>>
  BY DEF Prefill
<1>2. worker \in Runs
  BY <1>1, WorkerCases DEF ServeInv
<1>3. worker.pending \in Texts
  BY <1>2 DEF Runs
<1>4. RunIs(worker', "decode", worker.job, worker.gen, worker.pending)
  BY <1>1, <1>2, <1>3, RunEdit, Zenon
<1> QED
  BY <1>1, <1>2, <1>4, MoveInv

LEMMA EndOfTurnInv ==
  ASSUME ServeInv, EndOfTurn
  PROVE  ServeInv'
<1>1. /\ worker.at = "decode" /\ worker' = [worker EXCEPT !.at = "report", !.pending = <<>>]
      /\ UNCHANGED <<shape, connected, jobs, chan, drain, log, faults>>
  BY DEF EndOfTurn
<1>2. worker \in Runs /\ <<>> \in Texts
  BY <1>1, WorkerCases DEF ServeInv, Texts
<1>3. RunIs(worker', "report", worker.job, worker.gen, <<>>)
  BY <1>1, <1>2, RunEdit, Zenon
<1> QED
  BY <1>1, <1>2, <1>3, MoveInv

\* Text pushed to the client of the job that runs.
LEMMA PushKeeps ==
  ASSUME ServeInv, worker \in Runs, NEW x \in Texts, Push(x),
         UNCHANGED <<shape, connected, drain>>
  PROVE  /\ chan' \in [Requests -> Channels] /\ log' \in [Requests -> Logs]
         /\ \A r \in Requests : log'[r].outcome = log[r].outcome /\ LocalInv(r)'
<1>r. PICK r \in Requests : r = worker.job
  BY JobWaits
<1>1. /\ chan' = [chan EXCEPT ![r] = IF x = <<>> THEN @ ELSE Sent(@, Chunk(x))]
      /\ log' = [log EXCEPT ![r].text = @ \o x]
  BY <1>r DEF Push
<1>2. /\ chan \in [Requests -> Channels] /\ log \in [Requests -> Logs]
      /\ chan[r] \in Channels /\ log[r] \in Logs /\ drain[r] \in Drains
      /\ Waiting(r) /\ Made(r)
  BY <1>r, JobWaits DEF ServeInv, ServeTypes
<1>3. /\ chan'[r] = IF x = <<>> THEN chan[r] ELSE Sent(chan[r], Chunk(x))
      /\ \A q \in Requests \ {r} : chan'[q] = chan[q]
      /\ chan' = [q \in Requests |-> chan'[q]]
  BY <1>1, <1>2
<1>4. /\ log'[r] = [log[r] EXCEPT !.text = log[r].text \o x]
      /\ \A q \in Requests \ {r} : log'[q] = log[q]
      /\ log' = [q \in Requests |-> log'[q]]
  BY <1>1, <1>2
<1>5. Chunk(x) \in Events
  BY DEF Chunk, Events
<1> DEFINE events == IF x # <<>> /\ chan[r].rx THEN Append(chan[r].events, Chunk(x))
                     ELSE chan[r].events
<1>6. ChannelIs(chan'[r], events, chan[r].tx, chan[r].rx)
  <2>1. CASE x = <<>>
    BY <2>1, <1>2, <1>3 DEF ChannelIs
  <2>2. CASE x # <<>>
    <3>1. ChannelIs(Sent(chan[r], Chunk(x)),
                    IF chan[r].rx THEN Append(chan[r].events, Chunk(x)) ELSE chan[r].events,
                    chan[r].tx, chan[r].rx)
      BY <1>2, <1>5, SentOK, Zenon
    <3> QED
      BY <2>2, <3>1, <1>3
  <2> QED
    BY <2>1, <2>2
<1>7. LogIs(log'[r], log[r].text \o x, log[r].outcome)
  BY <1>2, <1>4, LogEdit, Zenon
<1>8. chan'[r] \in Channels /\ log'[r] \in Logs
  BY <1>6, <1>7 DEF ChannelIs, LogIs
<1>9. chan' \in [Requests -> Channels] /\ log' \in [Requests -> Logs]
  <2>1. \A q \in Requests : chan'[q] \in Channels /\ log'[q] \in Logs
    BY <1>2, <1>3, <1>4, <1>8
  <2> QED
    BY <2>1, <1>3, <1>4
<1>10. /\ chan'[r].events = events /\ chan'[r].rx = chan[r].rx
       /\ chan'[r].tx = chan[r].tx
  BY <1>6, Zenon DEF ChannelIs
<1>11. log'[r].text = log[r].text \o x /\ log'[r].outcome = log[r].outcome
  BY <1>7, Zenon DEF LogIs
<1>12. chan[r].events \in Seq(Events) /\ drain[r].told \in Texts /\ drain[r].held \in Texts
       /\ log[r].text \in Texts
  BY <1>2 DEF Channels, Drains, Logs
<1>13. RequestInv(r) /\ ChannelInv(r) /\ TextInv(r) /\ StreamInv(r)
  BY ServeFacts DEF LocalInv
<1>14. \A i \in 1..Len(chan[r].events) : chan[r].events[i].kind = "Chunk"
  BY <1>2, <1>13 DEF ChannelInv
<1>15. \A i \in 1..Len(events) : events[i].kind = "Chunk"
  <2>1. CASE x # <<>> /\ chan[r].rx
    <3>1. events = Append(chan[r].events, Chunk(x))
      BY <2>1
    <3>2. /\ Len(events) = Len(chan[r].events) + 1 /\ Len(chan[r].events) \in Nat
          /\ events[Len(chan[r].events) + 1] = Chunk(x)
          /\ \A i \in 1..Len(chan[r].events) : events[i] = chan[r].events[i]
      <4> HIDE DEF events
      <4> QED
        BY <3>1, <1>5, <1>12, AppendProperties
    <3>3. Chunk(x).kind = "Chunk"
      BY DEF Chunk
    <3> HIDE DEF events
    <3> QED
      BY <3>2, <3>3, <1>14
  <2>2. CASE ~ (x # <<>> /\ chan[r].rx)
    BY <2>2, <1>14
  <2> QED
    BY <2>1, <2>2
<1>16. chan[r].rx => TextOf(events) = TextOf(chan[r].events) \o x
  <2>0. TextOf(chan[r].events) \in Texts
    BY <1>5, <1>12, TextOfAppend
  <2>1. CASE x = <<>>
    BY <2>0, <2>1, ConcatEmptySeq DEF Texts
  <2>2. CASE x # <<>>
    <3>1. TextOf(Append(chan[r].events, Chunk(x))) = TextOf(chan[r].events) \o Part(Chunk(x))
      BY <1>5, <1>12, TextOfAppend
    <3>2. Part(Chunk(x)) = x
      BY DEF Part, Chunk
    <3> QED
      BY <2>2, <3>1, <3>2
  <2> QED
    BY <2>1, <2>2
<1>17. ~ chan[r].rx => events = <<>>
  BY <1>13 DEF ChannelInv
<1> HIDE DEF events
<1>18. RequestInv(r)'
  BY <1>2, <1>11, <1>13 DEF RequestInv, Made, Waiting
<1>19. ChannelInv(r)'
  BY <1>2, <1>10, <1>11, <1>13, <1>15, <1>17 DEF ChannelInv, Waiting
<1>20. TextInv(r)'
  <2>1. log[r].outcome # "done" /\ TextOf(chan[r].events) \in Texts
    BY <1>2, <1>5, <1>12, TextOfAppend DEF Waiting
  <2>2. ASSUME drain[r].at = "open"
        PROVE  (drain[r].told \o drain[r].held) \o TextOf(events) = log[r].text \o x
    <3>1. chan[r].rx /\ (drain[r].told \o drain[r].held) \o TextOf(chan[r].events) = log[r].text
      BY <2>2, <1>13 DEF ChannelInv, TextInv
    <3>2. drain[r].told \o drain[r].held \in Texts
      BY <1>12, ConcatProperties DEF Texts
    <3>3. PICK h \in Seq(Nat), u \in Seq(Nat), v \in Seq(Nat) :
            h = drain[r].told \o drain[r].held /\ u = TextOf(chan[r].events) /\ v = x
      BY <2>1, <3>2 DEF Texts
    <3>4. h \o (u \o v) = (h \o u) \o v
      OBVIOUS
    <3> QED
      BY <3>1, <3>3, <3>4, <1>16
  <2>3. TextOf(chan[r].events)' = TextOf(events)
    BY <1>10 DEF TextOf, Part
  <2> QED
    BY <2>1, <2>2, <2>3, <1>11 DEF TextInv
<1>21. StreamInv(r)'
  BY <1>13 DEF StreamInv, Made
<1>22. ASSUME NEW q \in Requests \ {r}
       PROVE  log'[q].outcome = log[q].outcome /\ LocalInv(q)'
  BY <1>3, <1>4, ServeFacts, LocalKept
<1> QED
  BY <1>9, <1>11, <1>18, <1>19, <1>20, <1>21, <1>22 DEF LocalInv

LEMMA SampleKeeps ==
  ASSUME ServeInv, Sample
  PROVE  /\ worker' \in Runs /\ worker'.job = worker.job /\ worker'.gen = worker.gen + 1
         /\ worker'.at # "prefill" /\ (worker'.at = "decode" => ~ Refused)
         /\ chan' \in [Requests -> Channels] /\ log' \in [Requests -> Logs]
         /\ \A r \in Requests : log'[r].outcome = log[r].outcome /\ LocalInv(r)'
<1>1. /\ worker.at = "decode" /\ worker.gen < MaxNewTokens(shape[worker.job])
      /\ UNCHANGED <<shape, connected, jobs, drain, faults>>
  BY DEF Sample
<1> DEFINE t == Append(worker.pending, worker.gen + 1)
<1>2. PICK pushed \in BOOLEAN, stop \in BOOLEAN :
        /\ Push(IF pushed THEN t ELSE <<>>)
        /\ worker' = [worker EXCEPT !.gen = @ + 1,
                                    !.pending = IF pushed THEN <<>> ELSE t,
                                    !.at = IF stop THEN "report"
                                           ELSE IF Refused THEN "overflow" ELSE "decode"]
  BY DEF Sample
<1>3. worker \in Runs /\ worker.gen \in Nat /\ worker.pending \in Texts
  BY <1>1, WorkerCases DEF ServeInv, Runs
<1>4. t \in Texts /\ <<>> \in Texts
  BY <1>3, AppendProperties DEF Texts
<1> HIDE DEF t
<1>5. PICK x \in Texts, p \in Texts, a \in {"prefill", "decode", "report", "overflow"} :
        /\ x = IF pushed THEN t ELSE <<>>
        /\ p = IF pushed THEN <<>> ELSE t
        /\ a = IF stop THEN "report" ELSE IF Refused THEN "overflow" ELSE "decode"
  BY <1>4
<1>6. Push(x) /\ worker' = [worker EXCEPT !.gen = worker.gen + 1, !.pending = p, !.at = a]
  BY <1>2, <1>5
<1>7. RunIs(worker', a, worker.job, worker.gen + 1, p)
  BY <1>3, <1>6, RunEdit, Zenon
<1>8. worker' \in Runs /\ worker'.at = a /\ worker'.job = worker.job
      /\ worker'.gen = worker.gen + 1
  BY <1>7, Zenon DEF RunIs
<1>9. /\ chan' \in [Requests -> Channels] /\ log' \in [Requests -> Logs]
      /\ \A r \in Requests : log'[r].outcome = log[r].outcome /\ LocalInv(r)'
  BY <1>1, <1>3, <1>6, PushKeeps
<1>10. worker'.at # "prefill" /\ (worker'.at = "decode" => ~ Refused)
  BY <1>5, <1>8
<1> QED
  BY <1>8, <1>9, <1>10

LEMMA SampleInv ==
  ASSUME ServeInv, Sample
  PROVE  ServeInv'
<1>1. /\ worker.at = "decode" /\ worker.gen < MaxNewTokens(shape[worker.job])
      /\ UNCHANGED <<shape, connected, jobs, drain, faults>>
  BY DEF Sample
<1>2. worker \in Runs /\ worker.gen \in Nat
  BY <1>1, WorkerCases DEF ServeInv, Runs
<1>3. /\ worker' \in Runs /\ worker'.job = worker.job /\ worker'.gen = worker.gen + 1
      /\ worker'.at # "prefill" /\ (worker'.at = "decode" => ~ Refused)
      /\ chan' \in [Requests -> Channels] /\ log' \in [Requests -> Logs]
      /\ \A r \in Requests : log'[r].outcome = log[r].outcome /\ LocalInv(r)'
  BY SampleKeeps
<1>4. ServeTypes'
  BY <1>1, <1>3 DEF ServeInv, ServeTypes
<1>5. QueueInv'
  BY <1>1, <1>2, <1>3, QueueOfRun
<1>6. RunInv'
  <2>1. PICK m \in Nat : m = MaxNewTokens(shape[worker.job])
    BY <1>2, JobWaits, MaxOK
  <2>2. PICK n \in Nat : n = shape[worker.job].prompt
    BY <1>2, JobWaits, ShapeIsMade
  <2>3. worker.gen + 1 <= m
    BY <1>1, <1>2, <2>1
  <2>4. worker'.at \in {"prefill", "decode"} => n + (worker.gen + 1) <= Ctx
    <3>1. Refused <=> n + worker.gen + 1 > Ctx
      BY <2>2 DEF Refused, Position
    <3> QED
      BY <3>1, <1>2, <1>3, ServeAssumption
  <2>5. /\ MaxNewTokens(shape[worker.job])' = m /\ shape'[worker'.job].prompt = n
    BY <1>1, <1>3, <2>1, <2>2 DEF MaxNewTokens, AtLeastOne, Smaller
  <2>6. worker'.gen <= MaxNewTokens(shape'[worker'.job])
    BY <1>1, <1>3, <2>1, <2>3
  <2> QED
    BY <1>3, <2>4, <2>5, <2>6 DEF RunInv, Position
<1> QED
  BY <1>3, <1>4, <1>5, <1>6 DEF ServeInv

\* The job that runs is answered: it leaves the queue, its answer is the
\* last event of its channel, and no sender is held for it any more.
LEMMA ReportInv ==
  ASSUME ServeInv, worker \in Runs, NEW e, NEW o, Report(e, o),
         (e = Done /\ o = "done") \/ (e = Error /\ o = "error"),
         UNCHANGED <<shape, connected, jobs, drain>>
  PROVE  ServeInv'
<1>r. PICK r \in Requests : r = worker.job
  BY JobWaits
<1>1. /\ chan' = [chan EXCEPT ![r] = [Sent(@, e) EXCEPT !.tx = FALSE]]
      /\ log' = [log EXCEPT ![r].outcome = o]
      /\ worker' = Idle
  BY <1>r DEF Report, Ended
<1>2. /\ chan \in [Requests -> Channels] /\ log \in [Requests -> Logs]
      /\ chan[r] \in Channels /\ log[r] \in Logs /\ drain[r] \in Drains
      /\ Waiting(r) /\ Made(r) /\ jobs \in Seq(Requests) /\ QueueInv
      /\ Unanswered = <<r>> \o jobs /\ \A i \in 1..Len(jobs) : jobs[i] # r
  BY <1>r, JobWaits DEF ServeInv, ServeTypes
<1>3. /\ chan'[r] = [Sent(chan[r], e) EXCEPT !.tx = FALSE]
      /\ \A q \in Requests \ {r} : chan'[q] = chan[q]
      /\ chan' = [q \in Requests |-> chan'[q]]
  BY <1>1, <1>2
<1>4. /\ log'[r] = [log[r] EXCEPT !.outcome = o]
      /\ \A q \in Requests \ {r} : log'[q] = log[q]
      /\ log' = [q \in Requests |-> log'[q]]
  BY <1>1, <1>2
<1>5. /\ e \in Events /\ e.kind # "Chunk" /\ Part(e) = <<>> /\ o \in Outcomes
      /\ o # "waiting" /\ o # "none" /\ e = Done <=> o = "done"
  BY DEF Events, Part, Outcomes, Done, Error
<1> DEFINE events == IF chan[r].rx THEN Append(chan[r].events, e) ELSE chan[r].events
<1>6. ChannelIs(chan'[r], events, FALSE, chan[r].rx)
  <2>1. ChannelIs([Sent(chan[r], e) EXCEPT !.tx = FALSE],
                  IF chan[r].rx THEN Append(chan[r].events, e) ELSE chan[r].events,
                  FALSE, chan[r].rx)
    BY <1>2, <1>5, SentOK, Zenon
  <2> QED
    BY <2>1, <1>3, Zenon
<1>7. LogIs(log'[r], log[r].text, o)
  BY <1>2, <1>4, <1>5, LogEdit, ZenonT(30)
<1>8. chan'[r] \in Channels /\ log'[r] \in Logs
  BY <1>6, <1>7, Zenon DEF ChannelIs, LogIs
<1>9. chan' \in [Requests -> Channels] /\ log' \in [Requests -> Logs]
  <2>1. \A q \in Requests : chan'[q] \in Channels /\ log'[q] \in Logs
    BY <1>2, <1>3, <1>4, <1>8
  <2> QED
    BY <2>1, <1>3, <1>4
<1>10. chan'[r].events = events /\ chan'[r].rx = chan[r].rx
  BY <1>6, Zenon DEF ChannelIs
<1>t. chan'[r].tx = FALSE
  BY <1>6, Zenon DEF ChannelIs
<1>11. log'[r].text = log[r].text /\ log'[r].outcome = o
  BY <1>7, Zenon DEF LogIs
<1>12. ServeTypes'
  BY <1>1, <1>9 DEF ServeInv, ServeTypes
<1>13. QueueInv'
  <2>1. Unanswered' = jobs
    <3>1. Unanswered' = <<>> \o jobs
      BY <1>1 DEF Unanswered, Idle
    <3> QED
      BY <3>1, <1>2, ConcatEmptySeq
  <2>2. PICK n \in Nat : n = Len(jobs)
    BY <1>2
  <2>3. /\ Len(Unanswered) = n + 1 /\ Unanswered[1] = r
        /\ \A i \in 1..n : i + 1 \in 1..(n + 1) /\ Unanswered[i + 1] = jobs[i]
    BY <1>2, <2>2
  <2>4. ASSUME NEW i \in 1..n, NEW j \in 1..n, jobs[i] = jobs[j]
        PROVE  i = j
    <3>1. i + 1 \in 1..(n + 1) /\ j + 1 \in 1..(n + 1)
      OBVIOUS
    <3>2. Unanswered[i + 1] = Unanswered[j + 1]
      BY <2>3, <2>4
    <3>3. i + 1 = j + 1
      BY <1>2, <2>3, <3>1, <3>2 DEF QueueInv
    <3> QED
      BY <3>3
  <2>5. ASSUME NEW q \in Requests
        PROVE  Waiting(q)' <=> \E i \in 1..n : jobs[i] = q
    <3>1. CASE q = r
      BY <3>1, <1>2, <1>5, <1>11, <2>2 DEF Waiting
    <3>2. CASE q # r
      <4>1. Waiting(q)' <=> \E i \in 1..(n + 1) : Unanswered[i] = q
        BY <3>2, <1>2, <1>4, <2>3 DEF QueueInv, Waiting
      <4>2. ASSUME NEW i \in 1..(n + 1), Unanswered[i] = q
            PROVE  \E k \in 1..n : jobs[k] = q
        <5>1. i # 1
          BY <4>2, <3>2, <2>3
        <5>2. PICK k \in 1..n : i = k + 1
          BY <5>1
        <5> QED
          BY <4>2, <5>2, <2>3
      <4>3. ASSUME NEW k \in 1..n, jobs[k] = q
            PROVE  \E i \in 1..(n + 1) : Unanswered[i] = q
        BY <4>3, <2>3
      <4> QED
        BY <4>1, <4>2, <4>3
    <3> QED
      BY <3>1, <3>2
  <2>6. worker' # Dead
    BY <1>1 DEF Idle, Dead
  <2> QED
    BY <2>1, <2>2, <2>4, <2>5, <2>6 DEF QueueInv
<1>14. RunInv'
  BY <1>1 DEF RunInv, Runs, Idle
<1>15. RequestInv(r) /\ ChannelInv(r) /\ TextInv(r) /\ StreamInv(r)
  BY ServeFacts DEF LocalInv
<1>16. chan[r].events \in Seq(Events) /\ chan[r].rx \in BOOLEAN
  BY <1>2 DEF Channels
<1>17. \A i \in 1..Len(chan[r].events) : chan[r].events[i].kind = "Chunk"
  BY <1>2, <1>15 DEF ChannelInv
<1>18. \A i \in 1..Len(events) : events[i].kind # "Chunk" => i = Len(events) /\ events[i] = e
  <2>1. CASE chan[r].rx
    <3>1. events = Append(chan[r].events, e)
      BY <2>1
    <3>2. /\ Len(events) = Len(chan[r].events) + 1 /\ Len(chan[r].events) \in Nat
          /\ events[Len(chan[r].events) + 1] = e
          /\ \A i \in 1..Len(chan[r].events) : events[i] = chan[r].events[i]
      <4> HIDE DEF events
      <4> QED
        BY <3>1, <1>5, <1>16, AppendProperties
    <3> HIDE DEF events
    <3> QED
      BY <3>2, <1>17
  <2>2. CASE ~ chan[r].rx
    BY <2>2, <1>17
  <2> QED
    BY <2>1, <2>2
<1>19. chan[r].rx => /\ events # <<>> /\ events[Len(events)] = e
                     /\ TextOf(events) = TextOf(chan[r].events)
  <2>1. ASSUME chan[r].rx
        PROVE  events = Append(chan[r].events, e)
    BY <2>1
  <2>2. /\ Append(chan[r].events, e) # <<>>
        /\ Append(chan[r].events, e)[Len(Append(chan[r].events, e))] = e
    BY <1>5, <1>16, AppendProperties
  <2>3. /\ TextOf(chan[r].events) \in Texts
        /\ TextOf(Append(chan[r].events, e)) = TextOf(chan[r].events) \o <<>>
    BY <1>5, <1>16, TextOfAppend
  <2>4. TextOf(chan[r].events) \o <<>> = TextOf(chan[r].events)
    BY <2>3, ConcatEmptySeq DEF Texts
  <2> HIDE DEF events
  <2> QED
    BY <2>1, <2>2, <2>3, <2>4
<1>20. ~ chan[r].rx => events = <<>>
  BY <1>15 DEF ChannelInv
<1> HIDE DEF events
<1>21. RequestInv(r)'
  BY <1>2, <1>5, <1>11, <1>15 DEF RequestInv, Made, Waiting
<1>22. ChannelInv(r)'
  BY <1>2, <1>5, <1>10, <1>t, <1>11, <1>15, <1>18, <1>19, <1>20 DEF ChannelInv, Waiting
<1>23. TextInv(r)'
  <2>1. TextOf(chan[r].events)' = TextOf(events)
    BY <1>10 DEF TextOf, Part
  <2>2. drain[r].at = "open" => chan[r].rx
    BY <1>15 DEF ChannelInv
  <2>3. ~ (drain[r].at = "closed" /\ drain[r].status = 200)
    BY <1>2, <1>15 DEF ChannelInv
  <2> QED
    BY <2>1, <2>2, <2>3, <1>11, <1>15, <1>19 DEF TextInv
<1>24. StreamInv(r)'
  BY <1>15 DEF StreamInv, Made
<1>25. ASSUME NEW q \in Requests \ {r}
       PROVE  LocalInv(q)'
  BY <1>3, <1>4, ServeFacts, LocalKept
<1> QED
  BY <1>12, <1>13, <1>14, <1>21, <1>22, <1>23, <1>24, <1>25 DEF ServeInv, LocalInv

LEMMA ReportDoneInv ==
  ASSUME ServeInv, ReportDone
  PROVE  ServeInv'
<1>1. worker \in Runs
  BY WorkerCases DEF ServeInv, ReportDone
<1> QED
  BY <1>1, ReportInv DEF ReportDone

LEMMA ReportOverflowInv ==
  ASSUME ServeInv, ReportOverflow
  PROVE  ServeInv'
<1>1. worker \in Runs
  BY WorkerCases DEF ServeInv, ReportOverflow
<1> QED
  BY <1>1, ReportInv DEF ReportOverflow

LEMMA FailsInv ==
  ASSUME ServeInv, Fails
  PROVE  ServeInv'
<1>1. worker \in Runs
  BY WorkerCases DEF ServeInv, Fails
<1> QED
  BY <1>1, ReportInv DEF Fails

\* The worker dies with its jobs: those it drops are the ones that wait.
LEMMA DroppedWait ==
  ASSUME ServeInv, worker \in Runs
  PROVE  \A r \in Requests : r \in Dropped <=> Waiting(r)
<1>1. /\ worker.job \in Requests /\ jobs \in Seq(Requests) /\ Unanswered = <<worker.job>> \o jobs
      /\ QueueInv
  BY JobWaits DEF ServeInv, ServeTypes
<1>2. PICK n \in Nat : n = Len(jobs)
  BY <1>1
<1>3. /\ Len(Unanswered) = n + 1 /\ Unanswered[1] = worker.job
      /\ \A i \in 1..n : i + 1 \in 1..(n + 1) /\ Unanswered[i + 1] = jobs[i]
  BY <1>1, <1>2
<1>4. ToSet(jobs) = {jobs[i] : i \in 1..n}
  <2>1. DOMAIN jobs = 1..n
    BY <1>1, <1>2
  <2> QED
    BY <2>1, Zenon DEF ToSet
<1>5. ASSUME NEW r \in Requests, r \in Dropped
      PROVE  Waiting(r)
  <2>1. \E i \in 1..(n + 1) : Unanswered[i] = r
    <3>1. CASE r = worker.job
      <4>1. 1 \in 1..(n + 1)
        BY <1>2
      <4> QED
        BY <3>1, <4>1, <1>3
    <3>2. CASE r \in ToSet(jobs)
      BY <3>2, <1>3, <1>4
    <3> QED
      BY <1>5, <3>1, <3>2 DEF Dropped
  <2> QED
    BY <2>1, <1>1, <1>3 DEF QueueInv
<1>6. ASSUME NEW r \in Requests, Waiting(r)
      PROVE  r \in Dropped
  <2>1. PICK i \in 1..(n + 1) : Unanswered[i] = r
    BY <1>1, <1>3, <1>6 DEF QueueInv
  <2>2. CASE i = 1
    BY <2>1, <2>2, <1>3 DEF Dropped
  <2>3. CASE i # 1
    <3>1. PICK k \in 1..n : i = k + 1
      BY <2>3
    <3>2. jobs[k] = r
      BY <2>1, <3>1, <1>3
    <3> QED
      BY <3>2, <1>4 DEF Dropped
  <2> QED
    BY <2>2, <2>3
<1> QED
  BY <1>5, <1>6

LEMMA DiesInv ==
  ASSUME ServeInv, Dies
  PROVE  ServeInv'
<1>1. /\ UNCHANGED <<shape, connected, drain>> /\ worker' = Dead /\ jobs' = <<>>
      /\ chan' = [r \in Requests |-> IF r \in Dropped THEN [chan[r] EXCEPT !.tx = FALSE]
                                     ELSE chan[r]]
      /\ log' = [r \in Requests |-> IF r \in Dropped THEN [log[r] EXCEPT !.outcome = "lost"]
                                    ELSE log[r]]
  BY DEF Dies
<1>2. worker \in Runs /\ chan \in [Requests -> Channels] /\ log \in [Requests -> Logs]
  BY WorkerCases DEF ServeInv, ServeTypes, Dies
<1>3. ASSUME NEW r \in Requests
      PROVE  /\ chan'[r] \in Channels /\ log'[r] \in Logs /\ LocalInv(r)'
             /\ ~ Waiting(r)'
  <2>1. r \in Dropped <=> Waiting(r)
    BY <1>2, DroppedWait
  <2>2. chan[r] \in Channels /\ log[r] \in Logs /\ LocalInv(r)
    BY ServeFacts
  <2>3. CASE r \in Dropped
    <3>1. chan'[r] = [chan[r] EXCEPT !.tx = FALSE] /\ log'[r] = [log[r] EXCEPT !.outcome = "lost"]
      BY <1>1, <2>3
    <3>2. ChannelIs(chan'[r], chan[r].events, FALSE, chan[r].rx)
      BY <2>2, <3>1, ChannelEdit, Zenon
    <3>o. "lost" \in Outcomes
      BY DEF Outcomes
    <3>3. LogIs(log'[r], log[r].text, "lost")
      BY <2>2, <3>1, <3>o, LogEdit, Zenon
    <3>4. chan'[r] \in Channels /\ log'[r] \in Logs
      BY <3>2, <3>3, Zenon DEF ChannelIs, LogIs
    <3>5. chan'[r].events = chan[r].events /\ chan'[r].rx = chan[r].rx
      BY <3>2, Zenon DEF ChannelIs
    <3>6. chan'[r].tx = FALSE
      BY <3>2, Zenon DEF ChannelIs
    <3>7. log'[r].text = log[r].text /\ log'[r].outcome = "lost"
      BY <3>3, Zenon DEF LogIs
    <3>8. Waiting(r) /\ RequestInv(r) /\ ChannelInv(r) /\ TextInv(r) /\ StreamInv(r)
      BY <2>1, <2>2, <2>3 DEF LocalInv
    <3>9. \A i \in 1..Len(chan[r].events) : chan[r].events[i].kind = "Chunk"
      BY <3>8 DEF ChannelInv
    <3>10. RequestInv(r)'
      BY <1>1, <3>7, <3>8 DEF RequestInv, Made, Waiting
    <3>11. ChannelInv(r)'
      BY <1>1, <3>5, <3>6, <3>7, <3>8, <3>9 DEF ChannelInv, Waiting
    <3>12. TextInv(r)'
      <4>1. TextOf(chan[r].events)' = TextOf(chan[r].events)
        BY <3>5 DEF TextOf, Part
      <4> QED
        BY <4>1, <1>1, <3>7, <3>8 DEF TextInv
    <3>13. StreamInv(r)'
      BY <1>1, <3>8 DEF StreamInv, Made
    <3> QED
      BY <3>4, <3>7, <3>10, <3>11, <3>12, <3>13 DEF LocalInv, Waiting
  <2>4. CASE r \notin Dropped
    <3>1. chan'[r] = chan[r] /\ log'[r] = log[r]
      BY <1>1, <2>4
    <3>2. LocalInv(r)'
      BY <1>1, <2>2, <3>1, LocalKept
    <3> QED
      BY <2>1, <2>2, <2>4, <3>1, <3>2 DEF Waiting
  <2> QED
    BY <2>3, <2>4
<1>4. ServeTypes'
  <2>1. chan' = [r \in Requests |-> chan'[r]] /\ log' = [r \in Requests |-> log'[r]]
    BY <1>1
  <2>2. chan' \in [Requests -> Channels] /\ log' \in [Requests -> Logs]
    BY <2>1, <1>3
  <2> QED
    BY <2>2, <1>1 DEF ServeInv, ServeTypes
<1>5. QueueInv'
  <2>1. Unanswered' = <<>>
    <3>1. Unanswered' = <<>> \o <<>>
      BY <1>1 DEF Unanswered, Dead
    <3> QED
      BY <3>1
  <2>2. \A i \in 1..Len(Unanswered') : FALSE
    BY <2>1
  <2>3. \A r \in Requests : ~ Waiting(r)'
    BY <1>3
  <2> QED
    BY <2>2, <2>3, <1>1 DEF QueueInv
<1>6. RunInv'
  BY <1>1 DEF RunInv, Runs, Dead
<1> QED
  BY <1>3, <1>4, <1>5, <1>6 DEF ServeInv

-----------------------------------------------------------------------------
(***************************************************************************)
(* The steps of a drain.                                                   *)
(***************************************************************************)
\* A drain takes from its own channel, and disturbs nobody else.
LEMMA DrainMoves ==
  ASSUME ServeInv, NEW r \in Requests, drain[r].at = "open",
         NEW d \in Drains, drain' = [drain EXCEPT ![r] = d], d.at # "none",
         NEW c \in Channels, chan' = [chan EXCEPT ![r] = c],
         UNCHANGED <<shape, connected, jobs, worker, log, faults>>,
         ChannelInv(r)', TextInv(r)', StreamInv(r)'
  PROVE  ServeInv'
<1>1. ServeTypes /\ QueueInv /\ LocalInv(r)
      /\ chan \in [Requests -> Channels] /\ drain \in [Requests -> Drains]
  BY ServeFacts DEF ServeInv, ServeTypes
<1>2. /\ chan' \in [Requests -> Channels] /\ drain' \in [Requests -> Drains] /\ drain'[r] = d
      /\ \A q \in Requests \ {r} : chan'[q] = chan[q] /\ drain'[q] = drain[q]
  BY <1>1, PutOne
<1>3. ServeTypes'
  BY <1>1, <1>2 DEF ServeTypes
<1>4. QueueInv'
  BY <1>1, QueueKept DEF Unanswered, Waiting, QueueInv
<1>5. RunInv'
  BY RunKept
<1>6. RequestInv(r)'
  <2>1. RequestInv(r) /\ Made(r)
    BY <1>1 DEF LocalInv, RequestInv
  <2> QED
    BY <2>1, <1>2 DEF RequestInv, Made, Waiting
<1>7. ASSUME NEW q \in Requests \ {r}
      PROVE  LocalInv(q)'
  BY <1>2, ServeFacts, LocalKept
<1> QED
  BY <1>3, <1>4, <1>5, <1>6, <1>7 DEF ServeInv, LocalInv

\* What is left of a channel when its first event is taken.
LEMMA TailOfChannel ==
  ASSUME NEW r, ChannelInv(r), drain[r].at = "open",
         chan[r].events \in Seq(Events), chan[r].events # <<>>
  PROVE  LET q == chan[r].events  t == Tail(q)
         IN  /\ q[1] = Head(q) /\ t \in Seq(Events)
             /\ \A i \in 1..Len(t) : t[i].kind # "Chunk" =>
                  i = Len(t) /\ (t[i] = Done <=> log[r].outcome = "done") /\ ~ Waiting(r)
             /\ Head(q).kind = "Chunk" /\ log[r].outcome = "done" => t # <<>> /\ t[Len(t)] = Done
             /\ Head(q).kind # "Chunk" =>
                  t = <<>> /\ (Head(q) = Done <=> log[r].outcome = "done") /\ ~ Waiting(r)
<1>q. PICK q : q = chan[r].events
  OBVIOUS
<1>t. PICK t : t = Tail(q)
  OBVIOUS
<1>n. PICK n \in Nat : n = Len(t)
  <2>1. q \in Seq(Events) /\ q # <<>>
    BY <1>q
  <2>2. t \in Seq(Events)
    BY <2>1, <1>t, HeadTailProperties
  <2> QED
    BY <2>2
<1>1. /\ t \in Seq(Events) /\ Len(q) = n + 1 /\ q[1] = Head(q)
      /\ \A i \in 1..n : t[i] = q[i + 1] /\ i + 1 \in 1..(n + 1)
  BY <1>q, <1>t, <1>n, HeadTailProperties, EmptySeq
<1>2. \A i \in 1..(n + 1) : q[i].kind # "Chunk" =>
        i = n + 1 /\ (q[i] = Done <=> log[r].outcome = "done") /\ ~ Waiting(r)
  BY <1>q, <1>1 DEF ChannelInv
<1>3. log[r].outcome = "done" => q[n + 1] = Done
  BY <1>q, <1>1 DEF ChannelInv
<1>4. ASSUME NEW i \in 1..n, t[i].kind # "Chunk"
      PROVE  i = n /\ (t[i] = Done <=> log[r].outcome = "done") /\ ~ Waiting(r)
  <2>1. q[i + 1].kind # "Chunk" /\ i + 1 \in 1..(n + 1) /\ t[i] = q[i + 1]
    BY <1>1, <1>4
  <2>2. i + 1 = n + 1 /\ (q[i + 1] = Done <=> log[r].outcome = "done") /\ ~ Waiting(r)
    BY <2>1, <1>2
  <2> QED
    BY <2>1, <2>2
<1>5. ASSUME Head(q).kind = "Chunk", log[r].outcome = "done"
      PROVE  t # <<>> /\ t[n] = Done
  <2>1. n # 0
    BY <1>1, <1>3, <1>5 DEF Done
  <2>2. n \in 1..n
    BY <2>1
  <2> QED
    BY <2>1, <2>2, <1>n, <1>1, <1>3, <1>5
<1>6. ASSUME Head(q).kind # "Chunk"
      PROVE  t = <<>> /\ (Head(q) = Done <=> log[r].outcome = "done") /\ ~ Waiting(r)
  <2>1. 1 \in 1..(n + 1) /\ q[1] = Head(q)
    BY <1>1
  <2>2. 1 = n + 1 /\ (q[1] = Done <=> log[r].outcome = "done") /\ ~ Waiting(r)
    BY <2>1, <1>2, <1>6
  <2>3. n = 0
    BY <2>2
  <2>4. t = <<>>
    BY <2>3, <1>n, <1>1, EmptySeq
  <2> QED
    BY <2>1, <2>2, <2>4
<1> QED
  BY <1>q, <1>t, <1>n, <1>1, <1>4, <1>5, <1>6

\* Deltas go on with one more; and what a stream ends with is what its
\* request asked for, whether its turn did or not.
LEMMA OneMoreDelta ==
  ASSUME NEW s \in Seq(Marks), Deltas(s)
  PROVE  Deltas(Append(s, "delta"))
<1>1. "delta" \in Marks
  BY DEF Marks
<1>2. PICK n \in Nat : n = Len(s)
  OBVIOUS
<1>3. n # 0 /\ s[1] = "role" /\ \A i \in 2..n : s[i] = "delta"
  BY <1>2, EmptySeq DEF Deltas
<1>4. /\ Len(Append(s, "delta")) = n + 1 /\ Append(s, "delta")[n + 1] = "delta"
      /\ \A i \in 1..n : Append(s, "delta")[i] = s[i]
  BY <1>1, <1>2, AppendProperties
<1>5. Append(s, "delta") # <<>>
  BY <1>1, AppendProperties
<1> QED
  BY <1>3, <1>4, <1>5 DEF Deltas

LEMMA ClosingIsEnding ==
  ASSUME NEW r, NEW ok
  PROVE  Closing(r, ok) = Ending(shape[r])
BY DEF Closing, Ending

\* A drain that closes ends its stream, if it has one.
LEMMA ClosedStream ==
  ASSUME NEW r, NEW d \in Drains, NEW ok \in BOOLEAN, shape[r].stream, connected[r],
         Deltas(d.sse)
  PROVE  StreamOK(shape[r], Closed(r, d, ok))
<1>1. d.sse \in Seq(Marks)
  BY DEF Drains
<1>2. Closed(r, d, ok).at = "closed" /\ Closed(r, d, ok).sse = d.sse \o Ending(shape[r])
  <2>1. /\ Closed(r, d, ok).at = "closed"
        /\ Closed(r, d, ok).sse =
             IF shape[r].stream /\ connected[r] THEN d.sse \o Closing(r, ok) ELSE d.sse
    <3>1. DrainIs(Closed(r, d, ok), "closed", <<>>, d.told,
                  IF shape[r].stream /\ connected[r] THEN d.sse \o Closing(r, ok) ELSE d.sse,
                  IF ok \/ shape[r].stream THEN 200 ELSE 500)
      BY ClosedOK
    <3> QED
      BY <3>1, Zenon DEF DrainIs
  <2> QED
    BY <2>1, ClosingIsEnding
<1> QED
  BY <1>1, <1>2, Zenon DEF StreamOK

Associates(h, u, v) == h \o (u \o v) = (h \o u) \o v

LEMMA TextAssoc ==
  ASSUME NEW h \in Texts, NEW u \in Texts, NEW v \in Texts
  PROVE  Associates(h, u, v)
BY SMTT(30) DEF Associates, Texts

\* A text told up to a point, with what is held and what follows, is the same text.
Regroups(t, x, y, h, p, u) ==
  x \o y = h \o p => ((t \o x) \o y) \o u = (t \o h) \o (p \o u)

LEMMA Regroup ==
  ASSUME NEW t \in Texts, NEW x \in Texts, NEW y \in Texts, NEW h \in Texts,
         NEW p \in Texts, NEW u \in Texts
  PROVE  Regroups(t, x, y, h, p, u)
<1>1. t \o h \in Texts
  BY ConcatProperties DEF Texts
<1>2. Associates(t, x, y) /\ Associates(t, h, p) /\ Associates(t \o h, p, u)
  BY <1>1, TextAssoc
<1>3. SUFFICES ASSUME x \o y = h \o p
               PROVE  ((t \o x) \o y) \o u = (t \o h) \o (p \o u)
  BY DEF Regroups
<1>4. (t \o x) \o y = (t \o h) \o p
  BY <1>2, <1>3, Zenon DEF Associates
<1> QED
  BY <1>2, <1>4, Zenon DEF Associates

LEMMA ReceiveChunkInv ==
  ASSUME ServeInv, NEW r \in Requests, drain[r].at = "open", chan[r].events # <<>>,
         Head(chan[r].events).kind = "Chunk", ReceiveChunk(r, Head(chan[r].events)),
         chan' = [chan EXCEPT ![r].events = Tail(@)],
         UNCHANGED <<shape, connected, jobs, worker, log, faults>>
  PROVE  ServeInv'
<1>e. PICK q : q = chan[r].events
  OBVIOUS
<1>1. /\ drain[r] \in Drains /\ chan[r] \in Channels /\ q \in Seq(Events)
      /\ ChannelInv(r) /\ TextInv(r) /\ StreamInv(r) /\ RequestInv(r) /\ log[r] \in Logs
  BY <1>e, ServeFacts DEF LocalInv, Channels
<1>2. drain \in [Requests -> Drains] /\ chan \in [Requests -> Channels]
  BY DEF ServeInv, ServeTypes
<1>3. /\ drain[r].told \in Texts /\ drain[r].held \in Texts /\ Head(q) \in Events
      /\ TextOf(Tail(q)) \in Texts /\ TextOf(q) = Part(Head(q)) \o TextOf(Tail(q))
  BY <1>e, <1>1, TextOfHead DEF Drains
<1>4. Head(q).text \in Texts /\ Part(Head(q)) = Head(q).text
  <2>1. Part(Head(q)) = Head(q).text
    BY <1>e DEF Part
  <2> QED
    BY <2>1, <1>3, PartIsText
<1>5. PICK text : text = drain[r].held \o Head(q).text
  OBVIOUS
<1>6. text \in Texts /\ Len(text) \in Nat
  <2>1. \A u \in Seq(Nat), v \in Seq(Nat) : u \o v \in Seq(Nat)
    BY ConcatProperties
  <2>2. text \in Seq(Nat)
    BY <2>1, <1>3, <1>4, <1>5 DEF Texts
  <2> QED
    BY <2>2 DEF Texts
<1>7. PICK n \in 0..Len(text) :
        drain' = [drain EXCEPT ![r] = [Told(r, drain[r], SubSeq(text, 1, n))
                                       EXCEPT !.held = SubSeq(text, n + 1, Len(text))]]
  BY <1>e, <1>2, <1>5 DEF ReceiveChunk
<1>8. PICK a \in Texts, b \in Texts :
        a = SubSeq(text, 1, n) /\ b = SubSeq(text, n + 1, Len(text)) /\ a \o b = text
  BY <1>6, SplitText
<1>9. PICK sse : sse = IF shape[r].stream /\ connected[r] /\ a # <<>>
                       THEN Append(drain[r].sse, "delta") ELSE drain[r].sse
  OBVIOUS
<1>10. PICK k : k = Told(r, drain[r], a)
  OBVIOUS
<1>11. DrainIs(k, drain[r].at, drain[r].held, drain[r].told \o a, sse, drain[r].status)
  BY <1>1, <1>9, <1>10, ToldOK, Zenon
<1>12. PICK d : d = [k EXCEPT !.held = b]
  OBVIOUS
<1>13. DrainIs(d, drain[r].at, b, drain[r].told \o a, sse, drain[r].status)
  <2>1. k \in Drains
    BY <1>11, Zenon DEF DrainIs
  <2>2. DrainIs([k EXCEPT !.held = b], k.at, b, k.told, k.sse, k.status)
    BY <2>1, DrainHeld, Zenon
  <2> QED
    BY <2>2, <1>11, <1>12, Zenon DEF DrainIs
<1>14. drain' = [drain EXCEPT ![r] = d]
  BY <1>7, <1>8, <1>10, <1>12, Zenon
<1>15. d \in Drains /\ d.at = "open" /\ d.held = b /\ d.told = drain[r].told \o a /\ d.sse = sse
       /\ d.status = drain[r].status
  BY <1>13 DEF DrainIs
<1>16. PICK c : c = [chan[r] EXCEPT !.events = Tail(q)]
  OBVIOUS
<1>17. ChannelIs(c, Tail(q), chan[r].tx, chan[r].rx)
  <2>1. chan[r].events # <<>> =>
          ChannelIs([chan[r] EXCEPT !.events = Tail(chan[r].events)],
                    Tail(chan[r].events), chan[r].tx, chan[r].rx)
    BY <1>1, ChannelEdit, Zenon
  <2> QED
    BY <2>1, <1>e, <1>16, Zenon
<1>18. chan' = [chan EXCEPT ![r] = c]
  BY <1>e, <1>2, <1>16
<1>19. c \in Channels /\ c.events = Tail(q) /\ c.rx = chan[r].rx
  BY <1>17, Zenon DEF ChannelIs
<1>20. c.tx = chan[r].tx
  BY <1>17, Zenon DEF ChannelIs
<1>21. drain'[r] = d /\ chan'[r] = c
  BY <1>2, <1>14, <1>18
<1>22. ChannelInv(r)'
  <2>1. /\ \A i \in 1..Len(Tail(q)) : Tail(q)[i].kind # "Chunk" =>
             i = Len(Tail(q)) /\ (Tail(q)[i] = Done <=> log[r].outcome = "done") /\ ~ Waiting(r)
        /\ log[r].outcome = "done" => Tail(q) # <<>> /\ Tail(q)[Len(Tail(q))] = Done
    BY <1>e, <1>1, TailOfChannel
  <2>2. chan[r].rx /\ drain[r].status = 0 /\ (chan[r].tx <=> Waiting(r))
    BY <1>1 DEF ChannelInv
  <2> QED
    BY <2>1, <2>2, <1>15, <1>19, <1>20, <1>21 DEF ChannelInv, Waiting
<1>23. TextInv(r)'
  <2>1. (drain[r].told \o drain[r].held) \o TextOf(q) = log[r].text
    BY <1>e, <1>1 DEF TextInv
  <2>2. ((drain[r].told \o a) \o b) \o TextOf(Tail(q)) = log[r].text
    <3>1. a \o b = drain[r].held \o Head(q).text
      BY <1>5, <1>8
    <3>2. (drain[r].told \o drain[r].held) \o (Head(q).text \o TextOf(Tail(q))) = log[r].text
      BY <2>1, <1>3, <1>4
    <3>3. Regroups(drain[r].told, a, b, drain[r].held, Head(q).text, TextOf(Tail(q)))
      BY <1>3, <1>4, Regroup
    <3> QED
      BY <3>1, <3>2, <3>3, Zenon DEF Regroups
  <2>3. PICK z : z = Tail(q)
    OBVIOUS
  <2>4. TextOf(chan[r].events)' = TextOf(Tail(q))
    <3>1. chan'[r].events = z
      BY <2>3, <1>19, <1>21
    <3>2. TextOf(chan[r].events)' = TextOf(z)
      BY <3>1 DEF TextOf, Part
    <3> QED
      BY <2>3, <3>2
  <2>9. (drain'[r].told \o drain'[r].held) \o TextOf(chan[r].events)' = log[r].text
    BY <2>2, <2>4, <1>15, <1>21
  <2> QED
    BY <2>9, <1>15, <1>21 DEF TextInv
<1>24. StreamInv(r)'
  <2>1. SUFFICES ASSUME Made(r), shape[r].stream, connected[r]
                 PROVE  Deltas(sse)
    BY <2>1, <1>15, <1>21 DEF StreamInv, StreamOK, Made
  <2>2. Deltas(drain[r].sse) /\ drain[r].sse \in Seq(Marks)
    BY <2>1, <1>1 DEF StreamInv, StreamOK, Drains
  <2> QED
    BY <2>2, <1>9, OneMoreDelta
<1> QED
  BY <1>14, <1>15, <1>18, <1>19, <1>22, <1>23, <1>24, DrainMoves

\* A drain that closes: its job waits no more, and if its turn was done it
\* has been told whole.
LEMMA ClosesInv ==
  ASSUME ServeInv, NEW r \in Requests, drain[r].at = "open",
         NEW k \in Drains, NEW ok \in BOOLEAN,
         drain' = [drain EXCEPT ![r] = Closed(r, k, ok)],
         NEW c \in Channels, chan' = [chan EXCEPT ![r] = c],
         c.events = <<>>, c.tx = chan[r].tx,
         ~ Waiting(r), log[r].outcome = "done" => k.told = log[r].text,
         shape[r].stream /\ connected[r] => Deltas(k.sse),
         UNCHANGED <<shape, connected, jobs, worker, log, faults>>
  PROVE  ServeInv'
<1>d. PICK d : d = Closed(r, k, ok)
  OBVIOUS
<1>1. drain \in [Requests -> Drains] /\ chan \in [Requests -> Channels] /\ ChannelInv(r)
  BY ServeFacts DEF ServeInv, ServeTypes, LocalInv
<1>2. d \in Drains /\ d.at = "closed" /\ d.told = k.told
  <2>1. DrainIs(Closed(r, k, ok), "closed", <<>>, k.told,
                IF shape[r].stream /\ connected[r] THEN k.sse \o Closing(r, ok) ELSE k.sse,
                IF ok \/ shape[r].stream THEN 200 ELSE 500)
    BY ClosedOK
  <2> QED
    BY <2>1, <1>d, Zenon DEF DrainIs
<1>3. drain' = [drain EXCEPT ![r] = d] /\ drain'[r] = d /\ chan'[r] = c
  BY <1>d, <1>1
<1>4. ChannelInv(r)'
  <2>1. ~ chan[r].tx
    BY <1>1 DEF ChannelInv
  <2> QED
    BY <2>1, <1>2, <1>3 DEF ChannelInv, Waiting
<1>5. TextInv(r)'
  BY <1>2, <1>3 DEF TextInv
<1>6. StreamInv(r)'
  <2>1. shape[r].stream /\ connected[r] => StreamOK(shape[r], d)
    BY <1>d, ClosedStream, Zenon
  <2> QED
    BY <2>1, <1>3 DEF StreamInv
<1>7. d.at # "none"
  BY <1>2
<1> QED
  BY <1>2, <1>3, <1>4, <1>5, <1>6, <1>7, DrainMoves

LEMMA ReceiveInv ==
  ASSUME ServeInv, NEW r \in Requests, Receive(r)
  PROVE  ServeInv'
<1>e. PICK q : q = chan[r].events
  OBVIOUS
<1>1. /\ drain[r].at = "open" /\ q # <<>>
      /\ chan' = [chan EXCEPT ![r].events = Tail(@)]
      /\ UNCHANGED <<shape, connected, jobs, worker, log, faults>>
  BY <1>e DEF Receive
<1>2. /\ drain[r] \in Drains /\ chan[r] \in Channels /\ q \in Seq(Events) /\ Head(q) \in Events
      /\ ChannelInv(r) /\ TextInv(r) /\ StreamInv(r) /\ RequestInv(r) /\ log[r] \in Logs
  BY <1>e, <1>1, ServeFacts, TextOfHead DEF LocalInv, Channels
<1>3. drain \in [Requests -> Drains] /\ chan \in [Requests -> Channels]
  BY DEF ServeInv, ServeTypes
<1>4. \/ Head(q).kind = "Chunk" /\ ReceiveChunk(r, Head(q))
      \/ Head(q) = Done /\ drain' = [drain EXCEPT ![r] = Closed(r, Told(r, drain[r], AtEnd(r)), TRUE)]
      \/ Head(q) = Error /\ drain' = [drain EXCEPT ![r] = Closed(r, drain[r], FALSE)]
  <2>1. \/ Head(q).kind = "Chunk"
        \/ Head(q) = Done /\ Head(q).kind = "Done"
        \/ Head(q) = Error /\ Head(q).kind = "Error"
    BY <1>2 DEF Events, Done, Error
  <2>2. CASE Head(q).kind = "Chunk"
    BY <2>2, <1>e DEF Receive
  <2>3. CASE Head(q) = Done /\ Head(q).kind = "Done"
    BY <2>3, <1>e, <1>3 DEF Receive
  <2>4. CASE Head(q) = Error /\ Head(q).kind = "Error"
    BY <2>4, <1>e, <1>3 DEF Receive
  <2> QED
    BY <2>1, <2>2, <2>3, <2>4
<1>5. CASE Head(q).kind = "Chunk" /\ ReceiveChunk(r, Head(q))
  BY <1>e, <1>1, <1>5, ReceiveChunkInv
<1>6. ASSUME Head(q) \in {Done, Error}
      PROVE  \E c \in Channels :
               /\ chan' = [chan EXCEPT ![r] = c] /\ c.events = <<>> /\ c.tx = chan[r].tx
               /\ ~ Waiting(r) /\ (Head(q) = Done <=> log[r].outcome = "done")
               /\ TextOf(q) = <<>>
  <2>1. Head(q).kind # "Chunk" /\ Part(Head(q)) = <<>>
    BY <1>6 DEF Part, Done, Error
  <2>2. Tail(q) = <<>> /\ (Head(q) = Done <=> log[r].outcome = "done") /\ ~ Waiting(r)
    BY <2>1, <1>e, <1>1, <1>2, TailOfChannel
  <2>3. PICK c : c = [chan[r] EXCEPT !.events = Tail(q)]
    OBVIOUS
  <2>4. ChannelIs(c, Tail(q), chan[r].tx, chan[r].rx)
    <3>1. chan[r].events # <<>> =>
            ChannelIs([chan[r] EXCEPT !.events = Tail(chan[r].events)],
                      Tail(chan[r].events), chan[r].tx, chan[r].rx)
      BY <1>2, ChannelEdit, Zenon
    <3> QED
      BY <3>1, <2>3, <1>e, <1>1, Zenon
  <2>5. chan' = [chan EXCEPT ![r] = c]
    BY <2>3, <1>e, <1>1, <1>3
  <2>6. c \in Channels /\ c.events = <<>>
    BY <2>2, <2>4, Zenon DEF ChannelIs
  <2>7. c.tx = chan[r].tx
    BY <2>4, Zenon DEF ChannelIs
  <2>8. TextOf(q) = <<>>
    <3>1. TextOf(q) = Part(Head(q)) \o TextOf(Tail(q))
      BY <1>1, <1>2, TextOfHead
    <3>2. TextOf(q) = <<>> \o <<>>
      BY <3>1, <2>1, <2>2, TextOfEmpty
    <3> QED
      BY <3>2
  <2> QED
    BY <2>2, <2>5, <2>6, <2>7, <2>8
<1>7. Made(r) /\ (shape[r].stream /\ connected[r] => Deltas(drain[r].sse))
      /\ drain[r].sse \in Seq(Marks) /\ drain[r].held \in Texts /\ drain[r].told \in Texts
  BY <1>1, <1>2 DEF StreamInv, StreamOK, RequestInv, Drains
<1>8. CASE Head(q) = Done /\ drain' = [drain EXCEPT ![r] = Closed(r, Told(r, drain[r], AtEnd(r)), TRUE)]
  <2>1. PICK c \in Channels :
          /\ chan' = [chan EXCEPT ![r] = c] /\ c.events = <<>> /\ c.tx = chan[r].tx
          /\ ~ Waiting(r) /\ TextOf(q) = <<>>
    BY <1>6, <1>8
  <2>2. PICK k : k = Told(r, drain[r], drain[r].held)
    OBVIOUS
  <2>3. PICK sse : sse = IF shape[r].stream /\ connected[r] /\ drain[r].held # <<>>
                         THEN Append(drain[r].sse, "delta") ELSE drain[r].sse
    OBVIOUS
  <2>4. k \in Drains /\ k.told = drain[r].told \o drain[r].held /\ k.sse = sse
    BY <2>2, <2>3, <1>2, <1>7, ToldOK, Zenon DEF DrainIs
  <2>5. k.told = log[r].text
    <3>1. (drain[r].told \o drain[r].held) \o <<>> = log[r].text
      BY <2>1, <1>e, <1>1, <1>2 DEF TextInv
    <3>2. drain[r].told \o drain[r].held \in Seq(Nat)
      BY <1>7, ConcatProperties DEF Texts
    <3> QED
      BY <3>1, <3>2, <2>4, ConcatEmptySeq
  <2>6. shape[r].stream /\ connected[r] => Deltas(k.sse)
    BY <2>3, <2>4, <1>7, OneMoreDelta
  <2>7. drain' = [drain EXCEPT ![r] = Closed(r, k, TRUE)]
    BY <2>2, <1>8 DEF AtEnd
  <2> QED
    BY <2>1, <2>4, <2>5, <2>6, <2>7, <1>1, ClosesInv
<1>9. CASE Head(q) = Error /\ drain' = [drain EXCEPT ![r] = Closed(r, drain[r], FALSE)]
  <2>1. PICK c \in Channels :
          /\ chan' = [chan EXCEPT ![r] = c] /\ c.events = <<>> /\ c.tx = chan[r].tx
          /\ ~ Waiting(r) /\ (Head(q) = Done <=> log[r].outcome = "done")
    BY <1>6, <1>9
  <2>2. log[r].outcome # "done"
    BY <2>1, <1>9 DEF Done, Error
  <2> QED
    BY <2>1, <2>2, <1>1, <1>2, <1>7, <1>9, ClosesInv
<1> QED
  BY <1>4, <1>5, <1>8, <1>9

LEMMA ReceiveNoneInv ==
  ASSUME ServeInv, NEW r \in Requests, ReceiveNone(r)
  PROVE  ServeInv'
<1>1. /\ drain[r].at = "open" /\ chan[r].events = <<>> /\ ~ chan[r].tx
      /\ drain' = [drain EXCEPT ![r] = Closed(r, drain[r], FALSE)]
      /\ UNCHANGED <<shape, connected, jobs, worker, chan, log, faults>>
  BY DEF ReceiveNone
<1>2. /\ drain[r] \in Drains /\ chan[r] \in Channels
      /\ ChannelInv(r) /\ StreamInv(r) /\ RequestInv(r)
  BY ServeFacts DEF LocalInv
<1>3. chan' = [chan EXCEPT ![r] = chan[r]]
  BY <1>1 DEF ServeInv, ServeTypes
<1>4. ~ Waiting(r) /\ log[r].outcome # "done"
  BY <1>1, <1>2 DEF ChannelInv
<1>5. shape[r].stream /\ connected[r] => Deltas(drain[r].sse)
  BY <1>1, <1>2 DEF StreamInv, StreamOK, RequestInv
<1> QED
  BY <1>1, <1>2, <1>3, <1>4, <1>5, ClosesInv

-----------------------------------------------------------------------------
(***************************************************************************)
(* The theorems.                                                           *)
(***************************************************************************)
LEMMA InitInv ==
  ASSUME Init
  PROVE  ServeInv
<1>1. /\ shape = [r \in Requests |-> NoShape]
      /\ connected = [r \in Requests |-> TRUE]
      /\ jobs = <<>> /\ worker = Idle
      /\ chan = [r \in Requests |-> [events |-> <<>>, tx |-> FALSE, rx |-> FALSE]]
      /\ drain = [r \in Requests |-> [at |-> "none", held |-> <<>>, told |-> <<>>,
                                      sse |-> <<>>, status |-> 0]]
      /\ log = [r \in Requests |-> [text |-> <<>>, outcome |-> "none"]]
  BY DEF Init
<1>2. /\ [events |-> <<>>, tx |-> FALSE, rx |-> FALSE] \in Channels
      /\ [text |-> <<>>, outcome |-> "none"] \in Logs
      /\ [at |-> "none", held |-> <<>>, told |-> <<>>, sse |-> <<>>, status |-> 0] \in Drains
  BY DEF Channels, Logs, Drains, Outcomes, Texts, Statuses
<1>3. ServeTypes
  BY <1>1, <1>2 DEF ServeTypes
<1>4. ASSUME NEW r \in Requests
      PROVE  /\ ~ Made(r) /\ ~ Waiting(r) /\ log[r].outcome = "none" /\ log[r].text = <<>>
             /\ connected[r] /\ chan[r].events = <<>> /\ ~ chan[r].tx
             /\ drain[r] = [at |-> "none", held |-> <<>>, told |-> <<>>,
                            sse |-> <<>>, status |-> 0]
  BY <1>1 DEF Made, Waiting
<1>5. QueueInv
  <2>1. Unanswered = <<>>
    <3>1. Unanswered = <<>> \o <<>>
      BY <1>1 DEF Unanswered, Idle
    <3> QED
      BY <3>1
  <2>2. \A i \in 1..Len(Unanswered) : FALSE
    BY <2>1
  <2> QED
    BY <2>2, <1>1, <1>4 DEF QueueInv
<1>6. RunInv
  BY <1>1 DEF RunInv, Runs, Idle
<1>7. ASSUME NEW r \in Requests
      PROVE  LocalInv(r)
  <2>1. drain[r].at = "none"
    BY <1>4
  <2>2. RequestInv(r)
    BY <1>4, <2>1 DEF RequestInv
  <2>3. ChannelInv(r)
    <3>1. \A i \in 1..Len(chan[r].events) : FALSE
      BY <1>4
    <3> QED
      BY <1>4, <2>1, <3>1 DEF ChannelInv
  <2>4. TextInv(r) /\ StreamInv(r)
    BY <1>4, <2>1 DEF TextInv, StreamInv
  <2> QED
    BY <2>2, <2>3, <2>4 DEF LocalInv
<1> QED
  BY <1>3, <1>5, <1>6, <1>7 DEF ServeInv

LEMMA StutterInv ==
  ASSUME ServeInv, UNCHANGED vars
  PROVE  ServeInv'
<1>1. UNCHANGED <<shape, connected, jobs, worker, chan, drain, log>>
  BY DEF vars
<1>2. ServeTypes'
  BY <1>1 DEF ServeInv, ServeTypes
<1>3. QueueInv'
  BY <1>1, QueueKept DEF ServeInv, Unanswered, Waiting, QueueInv
<1>4. RunInv'
  BY <1>1, RunKept
<1>5. ASSUME NEW q \in Requests
      PROVE  LocalInv(q)'
  BY <1>1, ServeFacts, LocalKept
<1> QED
  BY <1>2, <1>3, <1>4, <1>5 DEF ServeInv

LEMMA StepInv ==
  ASSUME ServeInv, [Next]_vars
  PROVE  ServeInv'
<1>1. ASSUME NEW r \in Requests, Reject(r) \/ Accept(r) \/ NotRunning(r) \/ Disconnect(r)
      PROVE  ServeInv'
  BY <1>1, RejectInv, AcceptInv, NotRunningInv, DisconnectInv
<1>2. CASE WorkerStep
  BY <1>2, TakeInv, PrefillInv, SampleInv, EndOfTurnInv, ReportDoneInv, ReportOverflowInv
     DEF WorkerStep
<1>3. CASE Fails
  BY <1>3, FailsInv
<1>4. CASE Dies
  BY <1>4, DiesInv
<1>5. ASSUME NEW r \in Requests, DrainStep(r)
      PROVE  ServeInv'
  BY <1>5, ReceiveInv, ReceiveNoneInv DEF DrainStep
<1>6. CASE UNCHANGED vars
  BY <1>6, StutterInv
<1> QED
  BY <1>1, <1>2, <1>3, <1>4, <1>5, <1>6 DEF Next

\* Jobs, channels, drains and the turn that runs agree in every state the
\* server reaches.
THEOREM ServeInvariant == Spec => []ServeInv
<1>1. Init => ServeInv
  BY InitInv
<1>2. ServeInv /\ [Next]_vars => ServeInv'
  BY StepInv
<1> QED
  BY <1>1, <1>2, PTL DEF Spec

\* routes.rs, handle_request: no turn generates more than was asked for, nor
\* has the model hold more than the context, whatever was asked.
THEOREM TurnsFitContext == Spec => []ContextHolds
<1>1. ServeInv => ContextHolds
  <2> SUFFICES ASSUME ServeInv, Running
               PROVE  /\ worker.gen <= MaxNewTokens(shape[worker.job])
                      /\ worker.at \in {"prefill", "decode"} => Position <= Ctx
    BY DEF ContextHolds
  <2>1. worker \in Runs
    BY WorkerCases DEF ServeInv
  <2> QED
    BY <2>1 DEF ServeInv, RunInv
<1> QED
  BY <1>1, ServeInvariant, PTL

\* worker.rs, sse.rs: a client has been told, at any time, what its own job
\* has generated, in order, but for what its scanner holds and what is on the
\* way; and all of it when the turn was done.
THEOREM ClientsToldInOrder == Spec => []ToldInOrder
<1>1. ServeInv => ToldInOrder
  <2> SUFFICES ASSUME ServeInv, NEW r \in Requests
               PROVE  /\ drain[r].at = "open" =>
                           drain[r].told \o drain[r].held \o OnTheWay(r) = log[r].text
                      /\ drain[r].at = "closed" /\ drain[r].status = 200 /\ log[r].outcome = "done" =>
                           drain[r].told = log[r].text
    BY DEF ToldInOrder
  <2>1. TextInv(r)
    BY ServeFacts DEF LocalInv
  <2>2. OnTheWay(r) = TextOf(chan[r].events)
    BY DEF OnTheWay, TextOf, Part
  <2> QED
    BY <2>1, <2>2, Zenon DEF TextInv
<1> QED
  BY <1>1, ServeInvariant, PTL

\* What a sequence made of two ends and begins with.
LEMMA EndsWith ==
  ASSUME NEW S, NEW t \in Seq(S), NEW e \in Seq(S)
  PROVE  /\ IsSuffix(e, t \o e)
         /\ SubSeq(t \o e, 1, Len(t \o e) - Len(e)) = t
<1>m. PICK m \in Nat : m = Len(t)
  OBVIOUS
<1>n. PICK n \in Nat : n = Len(e)
  OBVIOUS
<1>s. PICK s \in Seq(S) : s = t \o e
  BY ConcatProperties
<1>1. /\ Len(s) = m + n
      /\ \A i \in 1..m : s[i] = t[i]
      /\ \A i \in 1..n : s[m + i] = e[i]
  BY <1>m, <1>n, <1>s
<1>2. SubSeq(s, 1, m) = t
  <2>1. \A i \in 1..m : s[i] \in S
    BY <1>1, <1>m
  <2>2. /\ SubSeq(s, 1, m) \in Seq(S) /\ Len(SubSeq(s, 1, m)) = m
        /\ \A i \in 1..m : SubSeq(s, 1, m)[i] = s[i]
    BY <1>1
  <2> QED
    BY <2>2, <1>1, <1>m, SeqEqual
<1>3. PICK a : a = Reverse(e)
  OBVIOUS
<1>4. PICK b : b = Reverse(s)
  OBVIOUS
<1>5. /\ a \in Seq(S) /\ Len(a) = n /\ \A i \in 1..n : a[i] = e[(n - i) + 1]
  <2>1. a = [i \in 1..n |-> e[(n - i) + 1]]
    BY <1>3, <1>n, Zenon DEF Reverse
  <2>2. \A i \in 1..n : (n - i) + 1 \in 1..n
    OBVIOUS
  <2>3. \A i \in 1..n : e[(n - i) + 1] \in S
    BY <2>2, <1>n
  <2> QED
    BY <2>1, <2>3
<1>6. /\ b \in Seq(S) /\ Len(b) = m + n /\ \A i \in 1..(m + n) : b[i] = s[((m + n) - i) + 1]
  <2>1. b = [i \in 1..(m + n) |-> s[((m + n) - i) + 1]]
    BY <1>4, <1>1, Zenon DEF Reverse
  <2>2. \A i \in 1..(m + n) : ((m + n) - i) + 1 \in 1..(m + n)
    OBVIOUS
  <2>3. \A i \in 1..(m + n) : s[((m + n) - i) + 1] \in S
    BY <2>2, <1>1
  <2> QED
    BY <2>1, <2>3
<1>7. \A i \in 1..n : a[i] = b[i]
  <2> TAKE i \in 1..n
  <2>1. PICK k \in 1..n : k = (n - i) + 1
    OBVIOUS
  <2>2. ((m + n) - i) + 1 = m + k /\ i \in 1..(m + n)
    BY <2>1
  <2>3. a[i] = e[k]
    BY <2>1, <1>5
  <2>4. b[i] = s[m + k]
    BY <2>2, <1>6
  <2> QED
    BY <2>3, <2>4, <1>1
<1>8. SubSeq(a, 1, n) = SubSeq(b, 1, n)
  <2>1. /\ SubSeq(a, 1, n) \in Seq(S) /\ Len(SubSeq(a, 1, n)) = n
        /\ \A i \in 1..n : SubSeq(a, 1, n)[i] = a[i]
    BY <1>5
  <2>2. /\ SubSeq(b, 1, n) \in Seq(S) /\ Len(SubSeq(b, 1, n)) = n
        /\ \A i \in 1..n : SubSeq(b, 1, n)[i] = b[i]
    BY <1>6
  <2> QED
    BY <2>1, <2>2, <1>7, SeqEqual
<1>9. IsSuffix(e, s)
  <2>1. Len(a) <= Len(b) /\ SubSeq(a, 1, Len(a)) = SubSeq(b, 1, Len(a))
    BY <1>5, <1>6, <1>8
  <2> QED
    BY <2>1, <1>3, <1>4, Zenon DEF IsSuffix, IsPrefix
<1>10. Len(s) - Len(e) = m
  BY <1>1, <1>n
<1> QED
  BY <1>2, <1>9, <1>10, <1>s

\* sse.rs, pump_stream: a stream that has ended has the whole of its end, and
\* nothing after it, whichever way its turn ended; one that goes on has none.
THEOREM StreamsEndWhole == Spec => []StreamShape
<1>1. ServeInv => StreamShape
  <2> SUFFICES ASSUME ServeInv, NEW r \in Requests, Made(r), shape[r].stream, connected[r],
                      drain[r].status # 400
               PROVE  LET s == drain[r].sse
                          end == IF shape[r].usage THEN <<"finish", "usage", "DONE">>
                                 ELSE <<"finish", "DONE">>
                          deltas(t) == t # <<>> /\ t[1] = "role"
                                       /\ \A i \in 2..Len(t) : t[i] = "delta"
                      IN  CASE drain[r].at = "open"   -> deltas(s)
                            [] drain[r].at = "closed" ->
                                 \/ drain[r].status = 500 /\ s = <<>>
                                 \/ IsSuffix(end, s) /\ deltas(SubSeq(s, 1, Len(s) - Len(end)))
    BY Zenon DEF StreamShape
  <2>s. PICK s : s = drain[r].sse
    OBVIOUS
  <2>e. PICK end : end = IF shape[r].usage THEN <<"finish", "usage", "DONE">>
                         ELSE <<"finish", "DONE">>
    OBVIOUS
  <2>1. end = Ending(shape[r]) /\ end \in Seq(Marks)
    <3>1. /\ <<"finish", "usage", "DONE">> \in Seq(Marks) /\ <<"finish", "DONE">> \in Seq(Marks)
      BY DEF Marks
    <3>2. CASE shape[r].usage
      BY <3>1, <3>2, <2>e DEF Ending
    <3>3. CASE ~ shape[r].usage
      BY <3>1, <3>3, <2>e DEF Ending
    <3> QED
      BY <3>2, <3>3
  <2>2. /\ drain[r] \in Drains /\ RequestInv(r) /\ StreamOK(shape[r], drain[r])
    BY ServeFacts DEF LocalInv, StreamInv
  <2>3. drain[r].at = "open" \/ drain[r].at = "closed"
    BY <2>2 DEF Drains, RequestInv
  <2>4. CASE drain[r].at = "open"
    BY <2>2, <2>4 DEF StreamOK, Deltas
  <2>5. CASE drain[r].at = "closed"
    <3>1. \/ drain[r].status = 500 /\ s = <<>>
          \/ IsSuffix(end, s) /\ Deltas(SubSeq(s, 1, Len(s) - Len(end)))
      <4>1. CASE drain[r].status = 500 /\ drain[r].sse = <<>>
        BY <4>1, <2>s
      <4>2. ASSUME NEW t \in Seq(Marks), Deltas(t), s = t \o end
            PROVE  IsSuffix(end, s) /\ Deltas(SubSeq(s, 1, Len(s) - Len(end)))
        BY <4>2, <2>1, EndsWith
      <4>3. \/ drain[r].status = 500 /\ drain[r].sse = <<>>
            \/ \E t \in Seq(Marks) : Deltas(t) /\ s = t \o end
        BY <2>1, <2>2, <2>5, <2>s DEF StreamOK
      <4> QED
        BY <4>1, <4>2, <4>3
    <3> QED
      BY <3>1, <2>5, <2>s, <2>e, Zenon DEF Deltas
  <2> QED
    BY <2>3, <2>4, <2>5
<1> QED
  BY <1>1, ServeInvariant, PTL

-----------------------------------------------------------------------------
(***************************************************************************)
(* The worker is a job queue: every step of the server is a step of        *)
(* JobQueue or none of its business.                                       *)
(***************************************************************************)
EndOf == [r \in Requests |-> log[r].outcome]

LEMMA NotItsBusiness ==
  ASSUME Unanswered' = Unanswered, worker' = Dead <=> worker = Dead,
         \A r \in Requests : log'[r].outcome = log[r].outcome
  PROVE  UNCHANGED Queue!vars
<1>1. EndOf' = EndOf
  BY DEF EndOf
<1>2. (worker # Dead)' = (worker # Dead)
  OBVIOUS
<1> QED
  BY <1>1, <1>2, Zenon DEF Queue!vars, Unanswered, EndOf

LEMMA AcceptSubmits ==
  ASSUME ServeInv, NEW r \in Requests, Accept(r)
  PROVE  Queue!Submit(r)
<1>1. /\ New(r) /\ worker # Dead /\ worker' = worker /\ jobs' = Append(jobs, r)
      /\ log' = [log EXCEPT ![r].outcome = "waiting"]
  BY DEF Accept
<1>2. log[r].outcome = "none" /\ log \in [Requests -> Logs] /\ log[r] \in Logs
  BY <1>1, NewIsFresh DEF ServeInv, ServeTypes
<1>3. Unanswered' = Append(Unanswered, r)
  BY <1>1, UnansweredOK DEF ServeInv
<1>4. EndOf' = [EndOf EXCEPT ![r] = "waiting"]
  <2>1. log'[r] = [log[r] EXCEPT !.outcome = "waiting"]
        /\ \A q \in Requests \ {r} : log'[q] = log[q]
    BY <1>1, <1>2
  <2>2. log'[r].outcome = "waiting"
    BY <1>2, <2>1 DEF Logs
  <2> QED
    BY <2>1, <2>2 DEF EndOf
<1>5. EndOf[r] = "none"
  BY <1>2 DEF EndOf
<1>6. (worker # Dead)' = (worker # Dead)
  BY <1>1
<1> QED
  BY <1>1, <1>3, <1>4, <1>5, <1>6, Zenon DEF Queue!Submit, Unanswered, EndOf

LEMMA NotRunningSubmits ==
  ASSUME ServeInv, NEW r \in Requests, NotRunning(r)
  PROVE  Queue!Submit(r)
<1>1. /\ New(r) /\ worker = Dead /\ worker' = worker /\ jobs' = jobs
      /\ log' = [log EXCEPT ![r].outcome = "lost"]
  BY DEF NotRunning
<1>2. log[r].outcome = "none" /\ log \in [Requests -> Logs] /\ log[r] \in Logs
  BY <1>1, NewIsFresh DEF ServeInv, ServeTypes
<1>3. Unanswered' = Unanswered
  BY <1>1 DEF Unanswered
<1>4. EndOf' = [EndOf EXCEPT ![r] = "lost"]
  <2>1. log'[r] = [log[r] EXCEPT !.outcome = "lost"]
        /\ \A q \in Requests \ {r} : log'[q] = log[q]
    BY <1>1, <1>2
  <2>2. log'[r].outcome = "lost"
    BY <1>2, <2>1 DEF Logs
  <2> QED
    BY <2>1, <2>2 DEF EndOf
<1>5. EndOf[r] = "none"
  BY <1>2 DEF EndOf
<1>6. (worker # Dead)' = (worker # Dead)
  BY <1>1
<1> QED
  BY <1>1, <1>3, <1>4, <1>5, <1>6, Zenon DEF Queue!Submit, Unanswered, EndOf

LEMMA ReportAnswers ==
  ASSUME ServeInv, worker \in Runs, NEW e, NEW o \in {"done", "error"}, Report(e, o), jobs' = jobs
  PROVE  Queue!Answer
<1>r. PICK r \in Requests : r = worker.job
  BY JobWaits
<1>1. worker' = Idle /\ log' = [log EXCEPT ![r].outcome = o]
  BY <1>r DEF Report, Ended
<1>2. /\ jobs \in Seq(Requests) /\ log \in [Requests -> Logs] /\ log[r] \in Logs
      /\ Unanswered = <<r>> \o jobs
  BY <1>r, JobWaits DEF ServeInv, ServeTypes
<1>3. Unanswered # <<>> /\ Head(Unanswered) = r /\ Tail(Unanswered) = jobs
  BY <1>2
<1>4. Unanswered' = Tail(Unanswered)
  <2>1. Unanswered' = <<>> \o jobs
    BY <1>1 DEF Unanswered, Idle
  <2> QED
    BY <2>1, <1>2, <1>3, ConcatEmptySeq
<1>5. EndOf' = [EndOf EXCEPT ![r] = o]
  <2>1. log'[r] = [log[r] EXCEPT !.outcome = o]
        /\ \A q \in Requests \ {r} : log'[q] = log[q]
    BY <1>1, <1>2
  <2>2. log'[r].outcome = o
    BY <1>2, <2>1 DEF Logs
  <2> QED
    BY <2>1, <2>2 DEF EndOf
<1>6. worker # Dead /\ worker' # Dead
  BY <1>1 DEF Runs, Idle, Dead
<1>7. EndOf' = [EndOf EXCEPT ![Head(Unanswered)] = o]
  BY <1>3, <1>5
<1>8. (worker # Dead)' = (worker # Dead)
  BY <1>6
<1> QED
  BY <1>3, <1>4, <1>6, <1>7, <1>8, Zenon DEF Queue!Answer, Unanswered, EndOf

LEMMA DiesDies ==
  ASSUME ServeInv, Dies
  PROVE  Queue!Die
<1>1. /\ worker' = Dead /\ jobs' = <<>>
      /\ log' = [r \in Requests |-> IF r \in Dropped THEN [log[r] EXCEPT !.outcome = "lost"]
                                    ELSE log[r]]
  BY DEF Dies
<1>2. worker \in Runs
  BY WorkerCases DEF ServeInv, Dies
<1>3. worker # Dead
  BY <1>2 DEF Runs, Dead
<1>4. Unanswered' = <<>>
  <2>1. Unanswered' = <<>> \o <<>>
    BY <1>1 DEF Unanswered, Dead
  <2> QED
    BY <2>1
<1>5. EndOf' = [r \in Requests |-> IF EndOf[r] = "waiting" THEN "lost" ELSE EndOf[r]]
  <2>1. ASSUME NEW r \in Requests
        PROVE  log'[r].outcome = IF EndOf[r] = "waiting" THEN "lost" ELSE EndOf[r]
    <3>1. r \in Dropped <=> EndOf[r] = "waiting"
      BY <1>2, DroppedWait DEF EndOf, Waiting
    <3>2. log[r] \in Logs /\ EndOf[r] = log[r].outcome
      BY ServeFacts DEF EndOf
    <3>3. CASE r \in Dropped
      <4>1. log'[r] = [log[r] EXCEPT !.outcome = "lost"]
        BY <1>1, <3>3
      <4>2. log'[r].outcome = "lost"
        BY <4>1, <3>2 DEF Logs
      <4> QED
        BY <4>2, <3>1, <3>3
    <3>4. CASE r \notin Dropped
      BY <1>1, <3>1, <3>2, <3>4
    <3> QED
      BY <3>3, <3>4
  <2> QED
    BY <2>1 DEF EndOf
<1>6. (worker # Dead) = TRUE /\ (worker # Dead)' = FALSE
  BY <1>1, <1>3
<1> QED
  BY <1>4, <1>5, <1>6, Zenon DEF Queue!Die, Unanswered, EndOf

\* A turn that goes on is the same job, first of the same queue.
LEMMA SameRun ==
  ASSUME worker \in Runs, worker' \in Runs, worker'.job = worker.job, jobs' = jobs
  PROVE  Unanswered' = Unanswered /\ worker' # Dead /\ worker # Dead
<1>1. worker.at \notin {"idle", "dead"} /\ worker'.at \notin {"idle", "dead"}
      /\ worker' # Dead /\ worker # Dead
  BY DEF Runs, Dead
<1> QED
  BY <1>1 DEF Unanswered

LEMMA WorkerStepsAsQueue ==
  ASSUME ServeInv, WorkerStep
  PROVE  [Queue!Next]_(Queue!vars)
<1>1. CASE Take
  <2>1. /\ worker = Idle /\ jobs # <<>> /\ log' = log
        /\ worker' = [at |-> "prefill", job |-> Head(jobs), gen |-> 0, pending |-> <<>>]
        /\ jobs' = RemoveFirst(jobs, Head(jobs))
    BY <1>1 DEF Take, NextJob
  <2>2. ServeTypes /\ jobs \in Seq(Requests) /\ worker \notin Runs
    BY <2>1, WorkerCases DEF ServeInv, ServeTypes
  <2>3. Unanswered = jobs /\ jobs' = Tail(jobs) /\ <<Head(jobs)>> \o Tail(jobs) = jobs
    BY <2>1, <2>2, UnansweredOK, RemoveHead
  <2>4. Unanswered' = <<Head(jobs)>> \o Tail(jobs)
    BY <2>1, <2>3 DEF Unanswered
  <2>5. worker' # Dead /\ worker # Dead
    BY <2>1 DEF Dead, Idle
  <2> QED
    BY <2>1, <2>3, <2>4, <2>5, NotItsBusiness
<1>2. CASE Prefill \/ EndOfTurn
  <2>1. worker \in Runs /\ log' = log /\ jobs' = jobs
    BY <1>2, WorkerCases DEF Prefill, EndOfTurn, ServeInv
  <2>2. PICK p \in Texts, a \in {"decode", "report"} : RunIs(worker', a, worker.job, worker.gen, p)
    <3>1. worker.pending \in Texts /\ <<>> \in Texts
      BY <2>1 DEF Runs, Texts
    <3>2. CASE Prefill
      <4>1. worker' = [worker EXCEPT !.at = "decode"]
        BY <3>2 DEF Prefill
      <4>2. RunIs(worker', "decode", worker.job, worker.gen, worker.pending)
        BY <4>1, <2>1, <3>1, RunEdit, Zenon
      <4> QED
        BY <4>2, <3>1
    <3>3. CASE EndOfTurn
      <4>1. worker' = [worker EXCEPT !.at = "report", !.pending = <<>>]
        BY <3>3 DEF EndOfTurn
      <4>2. RunIs(worker', "report", worker.job, worker.gen, <<>>)
        BY <4>1, <2>1, <3>1, RunEdit, Zenon
      <4> QED
        BY <4>2, <3>1
    <3> QED
      BY <1>2, <3>2, <3>3
  <2>3. worker' \in Runs /\ worker'.job = worker.job
    BY <2>2 DEF RunIs
  <2> QED
    BY <2>1, <2>3, SameRun, NotItsBusiness
<1>3. CASE Sample
  <2>1. worker \in Runs /\ jobs' = jobs
    BY <1>3, WorkerCases DEF Sample, ServeInv
  <2>2. worker' \in Runs /\ worker'.job = worker.job
        /\ \A r \in Requests : log'[r].outcome = log[r].outcome
    BY <1>3, SampleKeeps
  <2> QED
    BY <2>1, <2>2, SameRun, NotItsBusiness
<1>4. CASE ReportDone \/ ReportOverflow
  <2>1. worker \in Runs
    BY <1>4, WorkerCases DEF ReportDone, ReportOverflow, ServeInv
  <2>2. Queue!Answer
    BY <1>4, <2>1, ReportAnswers DEF ReportDone, ReportOverflow
  <2> QED
    BY <2>2 DEF Queue!Next
<1> QED
  BY <1>1, <1>2, <1>3, <1>4 DEF WorkerStep

LEMMA StepsAsQueue ==
  ASSUME ServeInv, [Next]_vars
  PROVE  [Queue!Next]_(Queue!vars)
<1>1. ASSUME NEW r \in Requests, Accept(r) \/ NotRunning(r)
      PROVE  Queue!Next
  BY <1>1, AcceptSubmits, NotRunningSubmits DEF Queue!Next
<1>2. ASSUME UNCHANGED <<jobs, worker, log>>
      PROVE  UNCHANGED Queue!vars
  BY <1>2, NotItsBusiness DEF Unanswered
<1>3. ASSUME NEW r \in Requests, Reject(r) \/ Disconnect(r) \/ DrainStep(r)
      PROVE  UNCHANGED <<jobs, worker, log>>
  BY <1>3 DEF Reject, Disconnect, DrainStep, Receive, ReceiveNone
<1>4. CASE Fails
  <2>1. worker \in Runs
    BY <1>4, WorkerCases DEF Fails, ServeInv
  <2>2. Queue!Answer
    BY <1>4, <2>1, ReportAnswers DEF Fails
  <2> QED
    BY <2>2 DEF Queue!Next
<1>5. CASE Dies
  BY <1>5, DiesDies DEF Queue!Next
<1>6. CASE UNCHANGED vars
  <2>1. UNCHANGED <<jobs, worker, log>>
    BY <1>6 DEF vars
  <2> QED
    BY <2>1, <1>2
<1> QED
  BY <1>1, <1>2, <1>3, <1>4, <1>5, <1>6, WorkerStepsAsQueue DEF Next

\* worker.rs: to its clients the worker is a queue of jobs, run strictly in
\* the order they were sent, each answered once, whoever goes away, and lost
\* only with the worker.  The safety part of WorkerIsAQueue.
THEOREM WorkerQueues == Spec => Queue!Init /\ [][Queue!Next]_(Queue!vars)
<1>1. Init => Queue!Init
  <2> SUFFICES ASSUME Init
               PROVE  Queue!Init
    OBVIOUS
  <2>1. jobs = <<>> /\ worker = Idle
        /\ log = [r \in Requests |-> [text |-> <<>>, outcome |-> "none"]]
    BY DEF Init
  <2>2. Unanswered = <<>>
    <3>1. Unanswered = <<>> \o <<>>
      BY <2>1 DEF Unanswered, Idle
    <3> QED
      BY <3>1
  <2>3. EndOf = [r \in Requests |-> "none"]
    BY <2>1 DEF EndOf
  <2>4. (worker # Dead) = TRUE
    BY <2>1 DEF Idle, Dead
  <2> QED
    BY <2>2, <2>3, <2>4, Zenon DEF Queue!Init, Unanswered, EndOf
<1>2. ServeInv /\ [Next]_vars => [Queue!Next]_(Queue!vars)
  BY StepsAsQueue
<1> QED
  BY <1>1, <1>2, ServeInvariant, PTL DEF Spec
=============================================================================
