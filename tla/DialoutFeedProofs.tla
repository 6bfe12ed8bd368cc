-------------------------- MODULE DialoutFeedProofs -------------------------
(***************************************************************************)
(* Theorems about DialoutFeed: for any plans of the devices, any number of *)
(* clients and any modulus of the node ids, what the devices finish is     *)
(* shown, whole and in order, and nothing of it is left behind.            *)
(***************************************************************************)
EXTENDS DialoutFeed, DialoutProofs, SubsequenceProofs, FiniteSetTheorems

\* Numbers that belong to the messages of the plan.
Counters == {f \in [Paths -> UNION {[DOMAIN Plan[p] -> Nat] : p \in Paths}] :
                \A p \in Paths : f[p] \in [DOMAIN Plan[p] -> Nat]}

Bump(f, p, i) == [f EXCEPT ![p][i] = @ + 1]

LEMMA PlanFacts ==
    \A p \in Paths :
        /\ Plan[p] \in Seq(Nat) /\ Len(Plan[p]) \in Nat
        /\ DOMAIN Plan[p] = 1 .. Len(Plan[p])
        /\ \A i \in DOMAIN Plan[p] :
            /\ Plan[p][i] \in Nat /\ Size(p, i) \in Nat \ {0}
            /\ \A j \in 1 .. Size(p, i) : FragmentOf(p, i, j) \in Message
<1> SUFFICES ASSUME NEW p \in Paths
             PROVE  /\ Plan[p] \in Seq(Nat) /\ Len(Plan[p]) \in Nat
                    /\ DOMAIN Plan[p] = 1 .. Len(Plan[p])
                    /\ \A i \in DOMAIN Plan[p] :
                        /\ Plan[p][i] \in Nat /\ Size(p, i) \in Nat \ {0}
                        /\ \A j \in 1 .. Size(p, i) : FragmentOf(p, i, j) \in Message
  OBVIOUS
<1>1. Plan[p] \in Seq(Nat)
  BY PlanAssumption
<1> QED BY <1>1, PlanAssumption DEF Size

\* The places of a plan are positive, and those before a place of it.
LEMMA PlacesOfPlan ==
    ASSUME NEW p \in Paths, NEW i \in DOMAIN Plan[p]
    PROVE  /\ i \in Nat \ {0}
           /\ \A h \in 1 .. i - 1 : h \in DOMAIN Plan[p] /\ h # i /\ h < i
<1>1. DOMAIN Plan[p] = 1 .. Len(Plan[p]) /\ Len(Plan[p]) \in Nat
  BY PlanFacts
<1> QED BY <1>1

LEMMA BumpFacts ==
    ASSUME NEW f \in Counters, NEW p \in Paths, NEW i \in DOMAIN Plan[p]
    PROVE  /\ Bump(f, p, i) \in Counters
           /\ Bump(f, p, i)[p][i] = f[p][i] + 1
           /\ \A q \in Paths : \A h \in DOMAIN Plan[q] :
                /\ f[q][h] \in Nat
                /\ q # p \/ h # i => Bump(f, p, i)[q][h] = f[q][h]
           /\ \A q \in Paths \ {p} : Bump(f, p, i)[q] = f[q]
<1> DEFINE T == UNION {[DOMAIN Plan[q] -> Nat] : q \in Paths}
<1>1. /\ f \in [Paths -> T] /\ \A q \in Paths : f[q] \in [DOMAIN Plan[q] -> Nat]
  BY DEF Counters
<1>2. [f[p] EXCEPT ![i] = @ + 1] \in [DOMAIN Plan[p] -> Nat]
  BY <1>1
<1>3. \A g \in [DOMAIN Plan[p] -> Nat] : g \in T
  OBVIOUS
<1> HIDE DEF T
<1>4. Bump(f, p, i) = [f EXCEPT ![p] = [f[p] EXCEPT ![i] = @ + 1]]
  BY DEF Bump
<1>5. Bump(f, p, i) \in [Paths -> T]
  BY <1>1, <1>2, <1>3, <1>4
<1>6. \A q \in Paths : Bump(f, p, i)[q] = IF q = p THEN [f[p] EXCEPT ![i] = @ + 1] ELSE f[q]
  BY <1>1, <1>4
<1>7. Bump(f, p, i) \in Counters
  BY <1>1, <1>2, <1>5, <1>6 DEF Counters, T
<1> QED BY <1>1, <1>6, <1>7

LEMMA BumpRow ==
    ASSUME NEW f \in Counters, NEW p \in Paths, NEW i \in DOMAIN Plan[p]
    PROVE  /\ f[p] \in [DOMAIN Plan[p] -> Nat]
           /\ Bump(f, p, i)[p] = [f[p] EXCEPT ![i] = @ + 1]
BY DEF Counters, Bump

LEMMA Places == \A p \in Paths : \A i \in DOMAIN Plan[p] : i \in Nat \ {0}
<1> SUFFICES ASSUME NEW p \in Paths, NEW i \in DOMAIN Plan[p] PROVE i \in Nat \ {0}
  OBVIOUS
<1>1. DOMAIN Plan[p] = 1 .. Len(Plan[p])
  BY PlanFacts
<1> QED BY <1>1

-----------------------------------------------------------------------------
\* What a stream holds: of each message the fragments behind those that the
\* handler has got, up to those the device has sent, in their order.  On a path
\* with one message at a time no message comes before the end of another.
IsFragment(m, p, i, j) == m = FragmentOf(p, i, j)

Bounded(s, g) ==
    \A p \in Paths : \A i \in DOMAIN Plan[p] : g[p][i] <= s[p][i] /\ s[p][i] <= Size(p, i)

Due(s, g, p, i) == g[p][i] + 1 .. s[p][i]

OnlyDue(s, g, stream) ==
    \A w \in 1 .. Len(stream) : \E p \in Paths : \E i \in DOMAIN Plan[p] :
        \E j \in Due(s, g, p, i) : IsFragment(stream[w], p, i, j)

AllDue(s, g, stream) ==
    \A p \in Paths : \A i \in DOMAIN Plan[p] : \A j \in Due(s, g, p, i) :
        \E w \in 1 .. Len(stream) : IsFragment(stream[w], p, i, j)

InOrder(stream) ==
    \A v, w \in 1 .. Len(stream) :
        v < w /\ stream[v].body[1] = stream[w].body[1] =>
            /\ stream[v].body[2] = stream[w].body[2] =>
                stream[v].body[3] < stream[w].body[3]
            /\ MaxInFlight[stream[v].body[1]] <= 1 =>
                stream[v].body[2] <= stream[w].body[2]

\* On a path with one message at a time a message is begun behind whole ones.
InTurn(f) ==
    \A p \in Paths : MaxInFlight[p] <= 1 =>
        \A i \in DOMAIN Plan[p] : \A h \in 1 .. i - 1 :
            f[p][i] > 0 => f[p][h] = Size(p, h)

Streamed(s, g, stream) ==
    /\ s \in Counters /\ g \in Counters /\ stream \in Seq(Message)
    /\ Bounded(s, g)
    /\ OnlyDue(s, g, stream) /\ AllDue(s, g, stream) /\ InOrder(stream)
    /\ InTurn(s) /\ InTurn(g)

LEMMA FragmentFacts ==
    ASSUME NEW m, NEW p, NEW i, NEW j, IsFragment(m, p, i, j)
    PROVE  /\ m.path = p /\ m.body = <<p, i, j>>
           /\ m.body[1] = p /\ m.body[2] = i /\ m.body[3] = j
BY DEF IsFragment, FragmentOf

\* The device sends the next fragment of one of its messages.
LEMMA StreamedSend ==
    ASSUME NEW s, NEW g, NEW stream, Streamed(s, g, stream),
           NEW p \in Paths, NEW i \in DOMAIN Plan[p], s[p][i] < Size(p, i),
           MaxInFlight[p] <= 1 => \A h \in 1 .. i - 1 : s[p][h] = Size(p, h)
    PROVE  Streamed(Bump(s, p, i), g, Append(stream, FragmentOf(p, i, s[p][i] + 1)))
<1> DEFINE t == Bump(s, p, i)
           m == FragmentOf(p, i, s[p][i] + 1)
           more == Append(stream, m)
           len == Len(stream)
<1>1. /\ t \in Counters /\ t[p][i] = s[p][i] + 1
      /\ \A q \in Paths : \A h \in DOMAIN Plan[q] :
            /\ s[q][h] \in Nat /\ g[q][h] \in Nat /\ t[q][h] \in Nat /\ s[q][h] <= t[q][h]
            /\ q # p \/ h # i => t[q][h] = s[q][h]
  BY BumpFacts DEF Streamed
<1>2. \A q \in Paths : \A h \in DOMAIN Plan[q] : Size(q, h) \in Nat /\ h \in Nat
  BY PlanFacts
<1>3. m \in Message
  <2>1. s[p][i] + 1 \in 1 .. Size(p, i)
    BY <1>1, <1>2
  <2> QED BY <2>1, PlanFacts
<1>4. IsFragment(m, p, i, s[p][i] + 1)
  BY DEF IsFragment
<1> HIDE DEF m, t
<1>5. /\ stream \in Seq(Message) /\ len \in Nat
      /\ more \in Seq(Message) /\ Len(more) = len + 1 /\ more[len + 1] = m
      /\ \A w \in 1 .. len : more[w] = stream[w]
  <2>1. stream \in Seq(Message)
    BY DEF Streamed
  <2> QED BY <1>3, <2>1
<1> HIDE DEF more, len
<1>6. Bounded(t, g)
  <2> SUFFICES ASSUME NEW q \in Paths, NEW h \in DOMAIN Plan[q]
               PROVE  g[q][h] <= t[q][h] /\ t[q][h] <= Size(q, h)
    BY DEF Bounded
  <2>1. g[q][h] <= s[q][h] /\ s[q][h] <= Size(q, h)
    BY DEF Streamed, Bounded
  <2>2. CASE q = p /\ h = i
    BY <1>1, <1>2, <2>1, <2>2
  <2>3. CASE q # p \/ h # i
    BY <1>1, <2>1, <2>3
  <2> QED BY <2>2, <2>3
<1>7. \A q \in Paths : \A h \in DOMAIN Plan[q] : \A j \in Due(s, g, q, h) : j \in Due(t, g, q, h)
  BY <1>1 DEF Due
<1>8. s[p][i] + 1 \in Due(t, g, p, i)
  BY <1>1, <1>6 DEF Due, Streamed, Bounded
<1>9. OnlyDue(t, g, more)
  <2> SUFFICES ASSUME NEW w \in 1 .. Len(more)
               PROVE  \E q \in Paths : \E h \in DOMAIN Plan[q] :
                        \E j \in Due(t, g, q, h) : IsFragment(more[w], q, h, j)
    BY DEF OnlyDue
  <2>1. CASE w = len + 1
    BY <1>4, <1>5, <1>8, <2>1
  <2>2. CASE w # len + 1
    <3>1. w \in 1 .. len
      BY <1>5, <2>2
    <3>2. \E q \in Paths : \E h \in DOMAIN Plan[q] :
            \E j \in Due(s, g, q, h) : IsFragment(stream[w], q, h, j)
      BY <3>1 DEF Streamed, OnlyDue, len
    <3> QED BY <1>5, <1>7, <3>1, <3>2
  <2> QED BY <2>1, <2>2
<1>10. AllDue(t, g, more)
  <2> SUFFICES ASSUME NEW q \in Paths, NEW h \in DOMAIN Plan[q], NEW j \in Due(t, g, q, h)
               PROVE  \E w \in 1 .. Len(more) : IsFragment(more[w], q, h, j)
    BY DEF AllDue
  <2>1. CASE j \in Due(s, g, q, h)
    <3>1. PICK w \in 1 .. len : IsFragment(stream[w], q, h, j)
      BY <2>1 DEF Streamed, AllDue, len
    <3>2. w \in 1 .. Len(more) /\ more[w] = stream[w]
      BY <1>5
    <3> QED BY <3>1, <3>2
  <2>2. CASE j \notin Due(s, g, q, h)
    <3>1. q = p /\ h = i /\ j = s[p][i] + 1
      BY <1>1, <2>2 DEF Due
    <3>2. len + 1 \in 1 .. Len(more)
      BY <1>5
    <3> QED BY <1>4, <1>5, <3>1, <3>2
  <2> QED BY <2>1, <2>2
<1>11. InOrder(more)
  <2> SUFFICES ASSUME NEW v \in 1 .. Len(more), NEW w \in 1 .. Len(more), v < w,
                      more[v].body[1] = more[w].body[1]
               PROVE  /\ more[v].body[2] = more[w].body[2] =>
                            more[v].body[3] < more[w].body[3]
                      /\ MaxInFlight[more[v].body[1]] <= 1 =>
                            more[v].body[2] <= more[w].body[2]
    BY DEF InOrder
  <2>1. v \in 1 .. len /\ more[v] = stream[v]
    BY <1>5
  <2>2. CASE w \in 1 .. len
    BY <1>5, <2>1, <2>2 DEF Streamed, InOrder, len
  <2>3. CASE w = len + 1
    <3>1. PICK q \in Paths : \E h \in DOMAIN Plan[q] : \E j \in Due(s, g, q, h) :
            IsFragment(stream[v], q, h, j)
      BY <2>1 DEF Streamed, OnlyDue, len
    <3>2. PICK h \in DOMAIN Plan[q] : \E j \in Due(s, g, q, h) :
            IsFragment(stream[v], q, h, j)
      BY <3>1
    <3>3. PICK j \in Due(s, g, q, h) : IsFragment(stream[v], q, h, j)
      BY <3>2
    <3>4. /\ more[v].body[1] = q /\ more[v].body[2] = h /\ more[v].body[3] = j
          /\ more[w].body[1] = p /\ more[w].body[2] = i /\ more[w].body[3] = s[p][i] + 1
      BY <1>4, <1>5, <2>1, <2>3, <3>3, FragmentFacts
    <3>5. q = p /\ j <= s[p][h] /\ j \in Nat \ {0} /\ s[p][h] > 0
      <4>1. q = p
        BY <3>4
      <4>2. s[q][h] \in Nat /\ g[q][h] \in Nat /\ j \in g[q][h] + 1 .. s[q][h]
        BY <1>1 DEF Due
      <4> QED BY <4>1, <4>2
    <3>6. h = i => j < s[p][i] + 1
      BY <1>1, <3>5
    <3>7. MaxInFlight[p] <= 1 => h <= i
      <4> SUFFICES ASSUME MaxInFlight[p] <= 1, h > i PROVE FALSE
        BY <1>2, <3>5
      <4>1. i \in 1 .. h - 1
        <5>1. h \in Nat /\ i \in Nat \ {0}
          BY PlacesOfPlan
        <5> QED BY <5>1
      <4>2. s[p][i] = Size(p, i)
        BY <3>5, <4>1 DEF Streamed, InTurn
      <4> QED BY <1>1, <1>2, <4>2
    <3> QED BY <3>4, <3>5, <3>6, <3>7
  <2> QED BY <1>5, <2>2, <2>3
<1>12. InTurn(t)
  <2> SUFFICES ASSUME NEW q \in Paths, MaxInFlight[q] <= 1, NEW k \in DOMAIN Plan[q],
                      NEW h \in 1 .. k - 1, t[q][k] > 0
               PROVE  t[q][h] = Size(q, h)
    BY DEF InTurn
  <2>1. h \in DOMAIN Plan[q] /\ h # k
    BY PlacesOfPlan
  <2>2. s[q][h] = Size(q, h)
    <3>1. CASE q = p /\ k = i
      BY <3>1
    <3>2. CASE q # p \/ k # i
      BY <1>1, <3>2 DEF Streamed, InTurn
    <3> QED BY <3>1, <3>2
  <2>3. q # p \/ h # i
    BY <1>1, <1>2, <2>2
  <2> QED BY <1>1, <2>1, <2>2, <2>3
<1>13. Streamed(t, g, more)
  BY <1>1, <1>5, <1>6, <1>9, <1>10, <1>11, <1>12 DEF Streamed
<1> QED BY <1>13 DEF t, m, more

\* The handler gets the next message: it is the first of its fragments that the
\* handler has not got.
LEMMA StreamedTake ==
    ASSUME NEW s, NEW g, NEW stream, Streamed(s, g, stream), stream # <<>>
    PROVE  \E p \in Paths : \E i \in DOMAIN Plan[p] :
            /\ IsFragment(Head(stream), p, i, g[p][i] + 1)
            /\ g[p][i] < s[p][i]
            /\ MaxInFlight[p] <= 1 => /\ \A h \in 1 .. i - 1 : g[p][h] = Size(p, h)
                                      /\ \A h \in DOMAIN Plan[p] : h > i => g[p][h] = 0
            /\ Streamed(s, Bump(g, p, i), Tail(stream))
<1> DEFINE len == Len(stream)
           rest == Tail(stream)
<1>1. /\ stream \in Seq(Message) /\ len \in Nat /\ 1 \in 1 .. len
      /\ Head(stream) = stream[1]
      /\ rest \in Seq(Message) /\ Len(rest) = len - 1
      /\ \A w \in 1 .. len - 1 : rest[w] = stream[w + 1]
  <2>1. stream \in Seq(Message)
    BY DEF Streamed
  <2> QED BY <2>1
<1> HIDE DEF len, rest
<1>2. \A x \in 1 .. len - 1 : x + 1 \in 1 .. len /\ rest[x] = stream[x + 1]
  BY <1>1
<1>3. PICK p \in Paths : \E i \in DOMAIN Plan[p] : \E j \in Due(s, g, p, i) :
        IsFragment(stream[1], p, i, j)
  BY <1>1 DEF Streamed, OnlyDue, len
<1>4. PICK i \in DOMAIN Plan[p] : \E j \in Due(s, g, p, i) : IsFragment(stream[1], p, i, j)
  BY <1>3
<1>5. PICK j \in Due(s, g, p, i) : IsFragment(stream[1], p, i, j)
  BY <1>4
<1> DEFINE t == Bump(g, p, i)
<1>6. /\ t \in Counters /\ t[p][i] = g[p][i] + 1
      /\ \A q \in Paths : \A h \in DOMAIN Plan[q] :
            /\ s[q][h] \in Nat /\ g[q][h] \in Nat /\ t[q][h] \in Nat /\ g[q][h] <= t[q][h]
            /\ q # p \/ h # i => t[q][h] = g[q][h]
  BY BumpFacts DEF Streamed
<1> HIDE DEF t
<1>7. \A q \in Paths : \A h \in DOMAIN Plan[q] :
        Size(q, h) \in Nat \ {0} /\ h \in Nat /\ g[q][h] <= s[q][h] /\ s[q][h] <= Size(q, h)
  BY PlanFacts DEF Streamed, Bounded
<1>8. j \in Nat /\ g[p][i] + 1 <= j /\ j <= s[p][i]
  BY <1>6 DEF Due
\* The first message of the stream is before all the others.
<1>9. ASSUME NEW w \in 1 .. len, w # 1, NEW h \in DOMAIN Plan[p], NEW k,
             IsFragment(stream[w], p, h, k)
      PROVE  /\ h = i => j < k
             /\ MaxInFlight[p] <= 1 => i <= h
  <2>1. 1 < w /\ stream[1].body[1] = stream[w].body[1]
    BY <1>1, <1>5, <1>9, FragmentFacts
  <2> QED BY <1>1, <1>5, <1>9, <2>1, FragmentFacts DEF Streamed, InOrder, len
<1>10. j = g[p][i] + 1
  <2>1. g[p][i] + 1 \in Due(s, g, p, i)
    BY <1>6, <1>8 DEF Due
  <2>2. PICK w \in 1 .. len : IsFragment(stream[w], p, i, g[p][i] + 1)
    BY <2>1 DEF Streamed, AllDue, len
  <2>3. CASE w = 1
    BY <1>5, <2>2, <2>3, FragmentFacts
  <2>4. CASE w # 1
    <3>1. j < g[p][i] + 1
      BY <1>9, <2>2, <2>4
    <3> QED BY <1>6, <1>8, <3>1
  <2> QED BY <2>3, <2>4
<1>11. ASSUME MaxInFlight[p] <= 1
       PROVE  /\ \A h \in 1 .. i - 1 : g[p][h] = Size(p, h)
              /\ \A h \in DOMAIN Plan[p] : h > i => g[p][h] = 0
  <2>1. ASSUME NEW h \in 1 .. i - 1, g[p][h] # Size(p, h)
        PROVE  FALSE
    <3>1. h \in DOMAIN Plan[p] /\ h # i /\ ~ (i <= h)
      BY PlacesOfPlan
    <3>2. s[p][h] = Size(p, h)
      BY <1>6, <1>8, <1>11 DEF Streamed, InTurn
    <3>3. g[p][h] + 1 \in Due(s, g, p, h)
      <4>1. g[p][h] \in Nat /\ s[p][h] \in Nat
        BY <1>6, <3>1
      <4>2. g[p][h] <= s[p][h]
        BY <1>7, <3>1
      <4>3. g[p][h] # s[p][h]
        BY <2>1, <3>2
      <4>4. g[p][h] + 1 \in g[p][h] + 1 .. s[p][h]
        BY <4>1, <4>2, <4>3
      <4> QED BY <4>4 DEF Due
    <3>4. PICK w \in 1 .. len : IsFragment(stream[w], p, h, g[p][h] + 1)
      BY <3>1, <3>3 DEF Streamed, AllDue, len
    <3>5. w # 1
      BY <1>5, <3>1, <3>4, FragmentFacts
    <3> QED BY <1>9, <1>11, <3>1, <3>4, <3>5
  <2>2. ASSUME NEW h \in DOMAIN Plan[p], h > i, g[p][h] # 0
        PROVE  FALSE
    <3>1. i \in 1 .. h - 1 /\ g[p][h] > 0
      <4>1. i \in Nat \ {0} /\ h \in Nat
        BY PlacesOfPlan
      <4>2. g[p][h] \in Nat
        BY <1>6
      <4> QED BY <2>2, <4>1, <4>2
    <3>2. g[p][i] = Size(p, i)
      BY <1>11, <3>1 DEF Streamed, InTurn
    <3> QED BY <1>6, <1>7, <1>8, <3>2
  <2> QED BY <2>1, <2>2
<1>12. Bounded(s, t)
  <2> SUFFICES ASSUME NEW q \in Paths, NEW h \in DOMAIN Plan[q]
               PROVE  t[q][h] <= s[q][h] /\ s[q][h] <= Size(q, h)
    BY DEF Bounded
  <2>1. CASE q = p /\ h = i
    BY <1>6, <1>7, <1>8, <1>10, <2>1
  <2>2. CASE q # p \/ h # i
    BY <1>6, <1>7, <2>2
  <2> QED BY <2>1, <2>2
<1>13. OnlyDue(s, t, rest)
  <2> SUFFICES ASSUME NEW w \in 1 .. len - 1
               PROVE  \E q \in Paths : \E h \in DOMAIN Plan[q] :
                        \E k \in Due(s, t, q, h) : IsFragment(rest[w], q, h, k)
    BY <1>1 DEF OnlyDue
  <2>1. w + 1 \in 1 .. len /\ w + 1 # 1 /\ rest[w] = stream[w + 1]
    BY <1>1
  <2>2. PICK q \in Paths : \E h \in DOMAIN Plan[q] :
            \E k \in Due(s, g, q, h) : IsFragment(stream[w + 1], q, h, k)
    BY <2>1 DEF Streamed, OnlyDue, len
  <2>3. PICK h \in DOMAIN Plan[q] : \E k \in Due(s, g, q, h) : IsFragment(stream[w + 1], q, h, k)
    BY <2>2
  <2>4. PICK k \in Due(s, g, q, h) : IsFragment(stream[w + 1], q, h, k)
    BY <2>3
  <2>5. k \in Nat /\ g[q][h] + 1 <= k /\ k <= s[q][h]
    BY <1>6 DEF Due
  <2>6. t[q][h] + 1 <= k
    <3>1. CASE q = p /\ h = i
      <4>1. IsFragment(stream[w + 1], p, i, k)
        BY <2>4, <3>1
      <4>2. j < k
        BY <1>9, <2>1, <4>1
      <4> QED BY <1>6, <1>8, <1>10, <2>5, <3>1, <4>2
    <3>2. CASE q # p \/ h # i
      BY <1>6, <2>5, <3>2
    <3> QED BY <3>1, <3>2
  <2>7. k \in Due(s, t, q, h)
    BY <1>6, <2>5, <2>6 DEF Due
  <2> QED BY <2>1, <2>4, <2>7
<1>14. AllDue(s, t, rest)
  <2> SUFFICES ASSUME NEW q \in Paths, NEW h \in DOMAIN Plan[q], NEW k \in Due(s, t, q, h)
               PROVE  \E w \in 1 .. len - 1 : IsFragment(rest[w], q, h, k)
    BY <1>1 DEF AllDue
  <2>1. k \in Nat /\ t[q][h] + 1 <= k /\ k <= s[q][h]
    BY <1>6 DEF Due
  <2>2. k \in Due(s, g, q, h)
    BY <1>6, <2>1 DEF Due
  <2>3. PICK w \in 1 .. len : IsFragment(stream[w], q, h, k)
    BY <2>2 DEF Streamed, AllDue, len
  <2>4. w # 1
    <3> SUFFICES ASSUME w = 1 PROVE FALSE
      OBVIOUS
    <3>1. q = p /\ h = i /\ k = j
      BY <1>5, <2>3, FragmentFacts
    <3> QED BY <1>6, <1>10, <2>1, <3>1
  <2>5. w - 1 \in 1 .. len - 1 /\ rest[w - 1] = stream[(w - 1) + 1] /\ (w - 1) + 1 = w
    BY <1>1, <2>4
  <2> QED BY <2>3, <2>5
<1>15. InOrder(rest)
  <2> SUFFICES ASSUME NEW v \in 1 .. Len(rest), NEW w \in 1 .. Len(rest), v < w,
                      rest[v].body[1] = rest[w].body[1]
               PROVE  /\ rest[v].body[2] = rest[w].body[2] =>
                            rest[v].body[3] < rest[w].body[3]
                      /\ MaxInFlight[rest[v].body[1]] <= 1 =>
                            rest[v].body[2] <= rest[w].body[2]
    BY DEF InOrder
  <2>1. /\ v + 1 \in 1 .. len /\ w + 1 \in 1 .. len /\ v + 1 < w + 1
        /\ rest[v] = stream[v + 1] /\ rest[w] = stream[w + 1]
    <3>1. v \in 1 .. len - 1 /\ w \in 1 .. len - 1 /\ len \in Nat
      BY <1>1
    <3> QED BY <1>2, <3>1
  <2> QED BY <2>1 DEF Streamed, InOrder, len
<1>16. InTurn(t)
  <2> SUFFICES ASSUME NEW q \in Paths, MaxInFlight[q] <= 1, NEW k \in DOMAIN Plan[q],
                      NEW h \in 1 .. k - 1, t[q][k] > 0
               PROVE  t[q][h] = Size(q, h)
    BY DEF InTurn
  <2>1. h \in DOMAIN Plan[q] /\ h # k
    BY PlacesOfPlan
  <2>2. g[q][h] = Size(q, h)
    <3>1. CASE q = p /\ k = i
      BY <1>11, <3>1
    <3>2. CASE q # p \/ k # i
      BY <1>6, <3>2 DEF Streamed, InTurn
    <3> QED BY <3>1, <3>2
  <2>3. q # p \/ h # i
    BY <1>6, <1>7, <1>8, <2>2
  <2> QED BY <1>6, <2>1, <2>2, <2>3
<1>17. Streamed(s, t, rest)
  BY <1>1, <1>6, <1>12, <1>13, <1>14, <1>15, <1>16 DEF Streamed
<1>18. IsFragment(Head(stream), p, i, g[p][i] + 1) /\ g[p][i] < s[p][i]
  BY <1>1, <1>5, <1>6, <1>8, <1>10
<1> QED BY <1>11, <1>17, <1>18 DEF t, rest

-----------------------------------------------------------------------------
\* Counting modulo NodeMod.
LEMMA Quotient ==
    ASSUME NEW x \in Nat
    PROVE  \E q \in Nat : \E r \in 0 .. NodeMod - 1 : x = q * NodeMod + r
<1> DEFINE T == {y \in Nat : \E q \in Nat : \E r \in 0 .. NodeMod - 1 : y = q * NodeMod + r}
<1>1. NodeMod \in Nat /\ NodeMod > 1
  BY NodeModAssumption
<1>2. 0 \in T
  <2>1. 0 = 0 * NodeMod + 0 /\ 0 \in 0 .. NodeMod - 1
    BY <1>1
  <2> QED BY <2>1
<1>3. ASSUME NEW y \in Nat, y \in T
      PROVE  y + 1 \in T
  <2>1. PICK q \in Nat : \E r \in 0 .. NodeMod - 1 : y = q * NodeMod + r
    BY <1>3
  <2>2. PICK r \in 0 .. NodeMod - 1 : y = q * NodeMod + r
    BY <2>1
  <2>3. CASE r + 1 < NodeMod
    <3>1. y + 1 = q * NodeMod + (r + 1) /\ r + 1 \in 0 .. NodeMod - 1
      BY <1>1, <2>2, <2>3
    <3> QED BY <3>1
  <2>4. CASE r + 1 = NodeMod
    <3>1. y + 1 = (q + 1) * NodeMod + 0 /\ q + 1 \in Nat /\ 0 \in 0 .. NodeMod - 1
      BY <1>1, <2>2, <2>4
    <3> QED BY <3>1
  <2> QED BY <1>1, <2>3, <2>4
<1>4. Nat \subseteq T
  <2> HIDE DEF T
  <2> QED BY <1>2, <1>3, Induction
<1> QED BY <1>4

LEMMA Remainder ==
    ASSUME NEW q \in Nat, NEW r \in 0 .. NodeMod - 1
    PROVE  (q * NodeMod + r) % NodeMod = r
<1>1. \A N \in Nat : N > 1 => \A x \in Nat, y \in 0 .. N - 1 : (x * N + y) % N = y
  OBVIOUS
<1> QED BY <1>1, NodeModAssumption

LEMMA NodeAfter ==
    ASSUME NEW p \in Paths, NEW i \in DOMAIN Plan[p], NEW j \in Nat \ {0}
    PROVE  /\ Node(p, i, j) \in Nodes
           /\ NextNode(Node(p, i, j)) = Node(p, i, j + 1)
<1> DEFINE x == FirstNode[p][i] + j - 1
<1>1. NodeMod \in Nat /\ NodeMod > 1 /\ x \in Nat /\ FirstNode[p][i] + (j + 1) - 1 = x + 1
  <2>1. FirstNode[p][i] \in Nat
    BY PlanAssumption
  <2>2. \A n \in Nat : n + j - 1 \in Nat /\ n + (j + 1) - 1 = (n + j - 1) + 1
    OBVIOUS
  <2> QED BY <2>1, <2>2, NodeModAssumption
<1> HIDE DEF x
<1>2. PICK q \in Nat : \E r \in 0 .. NodeMod - 1 : x = q * NodeMod + r
  BY <1>1, Quotient
<1>3. PICK r \in 0 .. NodeMod - 1 : x = q * NodeMod + r
  BY <1>2
<1>4. x % NodeMod = r
  BY <1>3, Remainder
<1>5. (r + 1) % NodeMod = (x + 1) % NodeMod
  <2>1. CASE r + 1 < NodeMod
    <3>1. x + 1 = q * NodeMod + (r + 1) /\ r + 1 = 0 * NodeMod + (r + 1)
          /\ r + 1 \in 0 .. NodeMod - 1
      BY <1>1, <1>3, <2>1
    <3>2. (x + 1) % NodeMod = r + 1 /\ (r + 1) % NodeMod = r + 1
      BY <3>1, Remainder
    <3> QED BY <3>2
  <2>2. CASE r + 1 = NodeMod
    <3>1. x + 1 = (q + 1) * NodeMod + 0 /\ r + 1 = 1 * NodeMod + 0
          /\ q + 1 \in Nat /\ 0 \in 0 .. NodeMod - 1
      BY <1>1, <1>3, <2>2
    <3>2. (x + 1) % NodeMod = 0 /\ (r + 1) % NodeMod = 0
      BY <3>1, Remainder
    <3> QED BY <3>2
  <2> QED BY <1>1, <2>1, <2>2
<1>6. Node(p, i, j) = x % NodeMod /\ Node(p, i, j + 1) = (x + 1) % NodeMod
  BY <1>1 DEF Node, x
<1> QED BY <1>4, <1>5, <1>6 DEF Nodes, NextNode

\* A message that is cut into fragments, and its fragments.
LEMMA FragmentInfo ==
    ASSUME NEW p \in Paths, NEW i \in DOMAIN Plan[p], NEW j \in 1 .. Size(p, i),
           NEW m, IsFragment(m, p, i, j)
    PROVE  /\ m.path = p /\ m \in Message
           /\ m.chunk = NoChunk => Plan[p][i] = 0 /\ Size(p, i) = 1
           /\ m.chunk # NoChunk => /\ m.chunk.total = Plan[p][i] /\ m.chunk.node = Node(p, i, j)
                                   /\ Size(p, i) = Plan[p][i] /\ Plan[p][i] # 0
                                   /\ Plan[p][i] \in Totals
<1>1. m \in Message
  BY PlanFacts DEF IsFragment
<1>2. CASE Plan[p][i] = 0
  BY <1>1, <1>2 DEF IsFragment, FragmentOf, Size
<1>3. CASE Plan[p][i] # 0
  <2>1. m.chunk = [total |-> Plan[p][i], node |-> Node(p, i, j)] /\ m.path = p
    BY <1>3 DEF IsFragment, FragmentOf
  <2>2. Node(p, i, j) \in Nodes /\ Plan[p][i] \in Totals
    <3>1. j \in Nat \ {0}
      BY PlanFacts
    <3>2. Plan[p][i] \in Totals \cup {0}
      BY PlanAssumption
    <3> QED BY <1>3, <3>1, <3>2, NodeAfter
  <2>3. m.chunk # NoChunk
    BY <2>1, <2>2, NoChunkAssumption DEF Nodes
  <2> QED BY <1>1, <1>3, <2>1, <2>2, <2>3 DEF Size, ChunkInfo
<1> QED BY <1>2, <1>3

-----------------------------------------------------------------------------
\* The records of a path: of each message of which the handler has got some
\* fragments and not all there is one record, and it holds these fragments.
Partly(p, row, i) == i \in DOMAIN Plan[p] /\ row[i] \in 1 .. Size(p, i) - 1

MessageOf(r) == r.parts[1].msg.body[2]

Holds(r, p, i, n) ==
    /\ r.total = Plan[p][i] /\ r.last = Node(p, i, n) /\ Len(r.parts) = n
    /\ \A j \in 1 .. n : r.parts[j].msg.body = <<p, i, j>>

Assembled(p, list, row) ==
    /\ \A k \in 1 .. Len(list) :
        /\ Partly(p, row, MessageOf(list[k]))
        /\ Holds(list[k], p, MessageOf(list[k]), row[MessageOf(list[k])])
    /\ \A k, l \in 1 .. Len(list) : MessageOf(list[k]) = MessageOf(list[l]) => k = l
    /\ \A i \in DOMAIN Plan[p] : Partly(p, row, i) =>
        \E k \in 1 .. Len(list) : MessageOf(list[k]) = i

\* The messages before the i-th have come as a whole, those behind it not at all.
Turn(p, row, i) ==
    MaxInFlight[p] <= 1 => /\ \A h \in 1 .. i - 1 : row[h] = Size(p, h)
                           /\ \A h \in DOMAIN Plan[p] : h > i => row[h] = 0

\* The next fragment of a message is the one its record waits for, and no other
\* record waits for it.
LEMMA WhoMatches ==
    ASSUME NodesApart, NEW p \in Paths, NEW row \in [DOMAIN Plan[p] -> Nat],
           NEW list, Assembled(p, list, row),
           NEW i \in DOMAIN Plan[p], row[i] < Size(p, i), Plan[p][i] # 0, Turn(p, row, i),
           NEW k \in 1 .. Len(list)
    PROVE  Matches(list[k], Node(p, i, row[i] + 1)) <=> MessageOf(list[k]) = i
<1> DEFINE h == MessageOf(list[k])
<1>1. Partly(p, row, h) /\ Holds(list[k], p, h, row[h])
  BY DEF Assembled
<1> HIDE DEF h
<1>2. /\ h \in DOMAIN Plan[p] /\ row[h] \in Nat \ {0} /\ row[h] < Size(p, h)
      /\ list[k].last = Node(p, h, row[h])
  <2>1. h \in DOMAIN Plan[p] /\ row[h] \in 1 .. Size(p, h) - 1
    BY <1>1 DEF Partly
  <2>2. Size(p, h) \in Nat
    BY <2>1, PlanFacts
  <2> QED BY <1>1, <2>1, <2>2 DEF Holds
<1>3. NextNode(list[k].last) = Node(p, h, row[h] + 1)
  BY <1>2, NodeAfter
<1>4. CASE h = i
  BY <1>3, <1>4 DEF Matches, h
<1>5. CASE h # i
  <2>1. MaxInFlight[p] > 1
    <3> SUFFICES ASSUME MaxInFlight[p] <= 1 PROVE FALSE
      BY PlanAssumption
    <3>1. h \in Nat \ {0} /\ i \in Nat \ {0}
      BY <1>2, Places
    <3>2. CASE h < i
      <4>1. row[h] = Size(p, h)
        BY <3>1, <3>2 DEF Turn
      <4> QED BY <1>2, <4>1, PlanFacts
    <3>3. CASE h > i
      <4>1. row[h] = 0
        BY <1>2, <3>3 DEF Turn
      <4> QED BY <1>2, <4>1
    <3> QED BY <1>5, <3>1, <3>2, <3>3
  <2>2. row[i] + 1 \in 1 .. Plan[p][i]
    <3>1. row[i] \in Nat /\ Plan[p][i] \in Nat
      BY PlanFacts
    <3> QED BY <3>1 DEF Size
  <2>3. row[h] + 1 \in 2 .. Plan[p][h]
    <3>1. Plan[p][h] \in Nat
      BY <1>2, PlanFacts
    <3> QED BY <1>2, <3>1 DEF Size
  <2>4. Node(p, i, row[i] + 1) # Node(p, h, row[h] + 1)
    BY <1>2, <1>5, <2>1, <2>2, <2>3 DEF NodesApart
  <2> QED BY <1>3, <1>5, <2>4 DEF Matches, h
<1> QED BY <1>4, <1>5 DEF h

LEMMA HoldsNew ==
    ASSUME NEW p \in Paths, NEW i \in DOMAIN Plan[p], NEW m, NEW n,
           IsFragment(m, p, i, 1), m.chunk # NoChunk
    PROVE  /\ Holds(NewRecord([n |-> n, msg |-> m]), p, i, 1)
           /\ MessageOf(NewRecord([n |-> n, msg |-> m])) = i
<1> DEFINE a == [n |-> n, msg |-> m]
<1>1. 1 \in 1 .. Size(p, i)
  BY PlanFacts
<1>2. m.chunk.total = Plan[p][i] /\ m.chunk.node = Node(p, i, 1) /\ m.body = <<p, i, 1>>
  BY <1>1, FragmentInfo, FragmentFacts
<1>3. a.msg = m /\ Len(<<a>>) = 1 /\ <<a>>[1] = a
  OBVIOUS
<1> HIDE DEF a
<1>4. /\ NewRecord(a).total = Plan[p][i] /\ NewRecord(a).last = Node(p, i, 1)
      /\ NewRecord(a).parts = <<a>>
  BY <1>2, <1>3 DEF NewRecord
<1>5. \A j \in 1 .. 1 : j = 1
  OBVIOUS
<1> QED BY SMTT(30), <1>2, <1>3, <1>4, <1>5 DEF Holds, MessageOf, a

LEMMA HoldsExtend ==
    ASSUME NEW p \in Paths, NEW i \in DOMAIN Plan[p], NEW j \in 1 .. Size(p, i) - 1,
           NEW r \in Record, Holds(r, p, i, j), NEW m, NEW n \in Nat,
           IsFragment(m, p, i, j + 1), m.chunk # NoChunk
    PROVE  LET s == Extend(r, [n |-> n, msg |-> m])
           IN  /\ Holds(s, p, i, j + 1)
               /\ MessageOf(s) = MessageOf(r)
               /\ IsComplete(s) <=> j + 1 = Size(p, i)
<1> DEFINE a == [n |-> n, msg |-> m]
           s == Extend(r, a)
<1>1. j \in Nat \ {0} /\ j + 1 \in 1 .. Size(p, i) /\ Size(p, i) \in Nat
  BY PlanFacts
<1>2. /\ m.chunk.total = Plan[p][i] /\ m.chunk.node = Node(p, i, j + 1) /\ m \in Message
      /\ m.body = <<p, i, j + 1>> /\ Size(p, i) = Plan[p][i]
  BY <1>1, FragmentInfo, FragmentFacts
<1>3. a \in Fragment /\ a.msg = m
  BY <1>2 DEF Fragment
<1> HIDE DEF a
<1>4. r.parts \in Seq(Fragment) /\ Len(r.parts) = j
  BY DEF Record, Holds
<1>5. s.parts = Append(r.parts, a) /\ s.last = Node(p, i, j + 1) /\ s.total = Plan[p][i]
  BY <1>2, <1>3 DEF Extend, Record, Holds
<1> HIDE DEF s
<1>6. /\ Len(s.parts) = j + 1 /\ s.parts[j + 1] = a
      /\ \A x \in 1 .. j : s.parts[x] = r.parts[x]
  BY <1>3, <1>4, <1>5
<1>7. \A x \in 1 .. j + 1 : s.parts[x].msg.body = <<p, i, x>>
  <2> SUFFICES ASSUME NEW x \in 1 .. j + 1 PROVE s.parts[x].msg.body = <<p, i, x>>
    OBVIOUS
  <2>1. CASE x = j + 1
    BY <1>2, <1>3, <1>6, <2>1
  <2>2. CASE x # j + 1
    <3>1. x \in 1 .. j
      BY <1>1, <2>2
    <3> QED BY <1>6, <3>1 DEF Holds
  <2> QED BY <2>1, <2>2
<1>8. 1 \in 1 .. j
  BY <1>1
<1> QED BY <1>2, <1>5, <1>6, <1>7, <1>8 DEF Holds, MessageOf, IsComplete, s, a

\* The row of a path when the handler has got one more fragment of a message.
LEMMA NextRow ==
    ASSUME NEW p \in Paths, NEW row \in [DOMAIN Plan[p] -> Nat], NEW i \in DOMAIN Plan[p]
    PROVE  LET new == [row EXCEPT ![i] = @ + 1]
           IN  /\ new \in [DOMAIN Plan[p] -> Nat]
               /\ new[i] = row[i] + 1 /\ row[i] \in Nat /\ Size(p, i) \in Nat \ {0}
               /\ \A h : h # i => (Partly(p, new, h) <=> Partly(p, row, h))
               /\ \A h \in DOMAIN Plan[p] : h # i => new[h] = row[h]
BY PlanFacts DEF Partly

\* A message in one piece passes the records by.
LEMMA AssembledPass ==
    ASSUME NEW p \in Paths, NEW row \in [DOMAIN Plan[p] -> Nat], NEW i \in DOMAIN Plan[p],
           Size(p, i) = 1, NEW list, Assembled(p, list, row)
    PROVE  Assembled(p, list, [row EXCEPT ![i] = @ + 1])
<1> DEFINE new == [row EXCEPT ![i] = @ + 1]
<1>1. /\ \A h : h # i => (Partly(p, new, h) <=> Partly(p, row, h))
      /\ \A h \in DOMAIN Plan[p] : h # i => new[h] = row[h]
  BY NextRow
<1> HIDE DEF new
<1>2. ~ Partly(p, row, i) /\ ~ Partly(p, new, i)
  BY DEF Partly
<1>3. \A h : (Partly(p, new, h) <=> Partly(p, row, h)) /\ (Partly(p, row, h) => new[h] = row[h])
  BY <1>1, <1>2 DEF Partly
<1>4. Assembled(p, list, new)
  BY <1>3 DEF Assembled, Partly
<1> QED BY <1>4 DEF new

\* The first fragment of a message starts its record.
LEMMA AssembledStart ==
    ASSUME NEW p \in Paths, NEW row \in [DOMAIN Plan[p] -> Nat], NEW i \in DOMAIN Plan[p],
           row[i] = 0, Size(p, i) > 1, NEW S, NEW list \in Seq(S), Assembled(p, list, row),
           NEW r \in S, Holds(r, p, i, 1), MessageOf(r) = i
    PROVE  Assembled(p, Append(list, r), [row EXCEPT ![i] = @ + 1])
<1> DEFINE new  == [row EXCEPT ![i] = @ + 1]
           more == Append(list, r)
           len  == Len(list)
<1>1. /\ new[i] = row[i] + 1 /\ Size(p, i) \in Nat
      /\ \A h : h # i => (Partly(p, new, h) <=> Partly(p, row, h))
      /\ \A h \in DOMAIN Plan[p] : h # i => new[h] = row[h]
  BY NextRow
<1>2. /\ len \in Nat /\ Len(more) = len + 1 /\ more[len + 1] = r
      /\ \A k \in 1 .. len : more[k] = list[k]
  OBVIOUS
<1> HIDE DEF new, more
<1>3. Partly(p, new, i) /\ ~ Partly(p, row, i) /\ new[i] = 1
  BY <1>1 DEF Partly
<1>4. ASSUME NEW k \in 1 .. len
      PROVE  /\ MessageOf(more[k]) # i
             /\ Partly(p, new, MessageOf(more[k]))
             /\ Holds(more[k], p, MessageOf(more[k]), new[MessageOf(more[k])])
  <2>1. Partly(p, row, MessageOf(more[k])) /\ Holds(more[k], p, MessageOf(more[k]), row[MessageOf(more[k])])
    BY <1>2 DEF Assembled
  <2> QED BY <1>1, <1>3, <2>1 DEF Partly
<1>5. \A k \in 1 .. len + 1 : k \in 1 .. len \/ k = len + 1
  BY <1>2
<1>6. ASSUME NEW k \in 1 .. len + 1
      PROVE  /\ Partly(p, new, MessageOf(more[k]))
             /\ Holds(more[k], p, MessageOf(more[k]), new[MessageOf(more[k])])
  <2>1. CASE k \in 1 .. len
    BY <1>4, <2>1
  <2>2. CASE k = len + 1
    BY <1>1, <1>2, <1>3, <2>2
  <2> QED BY <1>5, <2>1, <2>2
<1>7. ASSUME NEW k \in 1 .. len + 1, NEW l \in 1 .. len + 1, MessageOf(more[k]) = MessageOf(more[l])
      PROVE  k = l
  <2>1. \A x, y \in 1 .. len : MessageOf(list[x]) = MessageOf(list[y]) => x = y
    BY DEF Assembled
  <2>2. CASE k \in 1 .. len /\ l \in 1 .. len
    BY <1>2, <1>7, <2>1, <2>2
  <2>3. CASE k = len + 1 /\ l \in 1 .. len
    BY <1>2, <1>4, <1>7, <2>3
  <2>4. CASE k \in 1 .. len /\ l = len + 1
    BY <1>2, <1>4, <1>7, <2>4
  <2> QED BY <1>5, <2>2, <2>3, <2>4
<1>8. ASSUME NEW h \in DOMAIN Plan[p], Partly(p, new, h)
      PROVE  \E k \in 1 .. len + 1 : MessageOf(more[k]) = h
  <2>1. CASE h = i
    BY <1>2, <2>1
  <2>2. CASE h # i
    <3>1. PICK k \in 1 .. len : MessageOf(list[k]) = h
      BY <1>1, <1>8, <2>2 DEF Assembled
    <3> QED BY <1>2, <3>1
  <2> QED BY <2>1, <2>2
<1>9. Assembled(p, more, new)
  BY <1>2, <1>6, <1>7, <1>8 DEF Assembled
<1> QED BY <1>9 DEF more, new

\* A fragment that is not the last one lengthens the record of its message.
LEMMA AssembledJoin ==
    ASSUME NEW p \in Paths, NEW row \in [DOMAIN Plan[p] -> Nat], NEW i \in DOMAIN Plan[p],
           row[i] + 1 < Size(p, i), NEW S, NEW list \in Seq(S), Assembled(p, list, row),
           NEW k \in 1 .. Len(list), MessageOf(list[k]) = i,
           NEW r \in S, Holds(r, p, i, row[i] + 1), MessageOf(r) = i
    PROVE  Assembled(p, [list EXCEPT ![k] = r], [row EXCEPT ![i] = @ + 1])
<1> DEFINE new  == [row EXCEPT ![i] = @ + 1]
           with == [list EXCEPT ![k] = r]
<1>1. /\ new[i] = row[i] + 1 /\ row[i] \in Nat /\ Size(p, i) \in Nat
      /\ \A h : h # i => (Partly(p, new, h) <=> Partly(p, row, h))
      /\ \A h \in DOMAIN Plan[p] : h # i => new[h] = row[h]
  BY NextRow
<1>2. Len(with) = Len(list) /\ \A l \in 1 .. Len(list) : with[l] = IF l = k THEN r ELSE list[l]
  BY ExceptSeq
<1> HIDE DEF new, with
<1>3. Partly(p, new, i)
  BY <1>1 DEF Partly
<1>4. \A l \in 1 .. Len(list) : MessageOf(with[l]) = MessageOf(list[l])
  BY <1>2
<1>5. \A x, y \in 1 .. Len(list) : MessageOf(list[x]) = MessageOf(list[y]) => x = y
  BY DEF Assembled
<1>6. ASSUME NEW l \in 1 .. Len(list)
      PROVE  /\ Partly(p, new, MessageOf(with[l]))
             /\ Holds(with[l], p, MessageOf(with[l]), new[MessageOf(with[l])])
  <2>1. CASE l = k
    BY <1>1, <1>2, <1>3, <2>1
  <2>2. CASE l # k
    <3>1. MessageOf(with[l]) # i /\ with[l] = list[l]
      BY <1>2, <1>5, <2>2
    <3>2. /\ Partly(p, row, MessageOf(with[l]))
          /\ Holds(with[l], p, MessageOf(with[l]), row[MessageOf(with[l])])
      BY <3>1 DEF Assembled
    <3> QED BY <1>1, <3>1, <3>2 DEF Partly
  <2> QED BY <2>1, <2>2
<1>7. ASSUME NEW h \in DOMAIN Plan[p], Partly(p, new, h)
      PROVE  \E l \in 1 .. Len(list) : MessageOf(with[l]) = h
  <2>1. CASE h = i
    BY <1>4, <2>1
  <2>2. CASE h # i
    <3>1. PICK l \in 1 .. Len(list) : MessageOf(list[l]) = h
      BY <1>1, <1>7, <2>2 DEF Assembled
    <3> QED BY <1>4, <3>1
  <2> QED BY <2>1, <2>2
<1>8. Assembled(p, with, new)
  BY <1>2, <1>4, <1>5, <1>6, <1>7 DEF Assembled
<1> QED BY <1>8 DEF new, with

\* The last fragment of a message takes its record off the list.
LEMMA AssembledRemove ==
    ASSUME NEW p \in Paths, NEW row \in [DOMAIN Plan[p] -> Nat], NEW i \in DOMAIN Plan[p],
           row[i] + 1 = Size(p, i), NEW S, NEW list \in Seq(S), Assembled(p, list, row),
           NEW k \in 1 .. Len(list), MessageOf(list[k]) = i
    PROVE  Assembled(p, RemoveRecord(list, k), [row EXCEPT ![i] = @ + 1])
<1> DEFINE new  == [row EXCEPT ![i] = @ + 1]
           rest == RemoveRecord(list, k)
           At(x) == IF x < k THEN x ELSE x + 1
<1>1. /\ new[i] = row[i] + 1 /\ row[i] \in Nat /\ Size(p, i) \in Nat
      /\ \A h : h # i => (Partly(p, new, h) <=> Partly(p, row, h))
      /\ \A h \in DOMAIN Plan[p] : h # i => new[h] = row[h]
  BY NextRow
<1>2. /\ Len(rest) = Len(list) - 1
      /\ \A x \in 1 .. Len(list) - 1 : rest[x] = list[At(x)]
  BY RemoveRecordKeeps
<1>3. /\ \A x \in 1 .. Len(list) - 1 : At(x) \in 1 .. Len(list) /\ At(x) # k
      /\ \A x, y \in 1 .. Len(list) - 1 : At(x) = At(y) => x = y
      /\ \A l \in 1 .. Len(list) : l # k => \E x \in 1 .. Len(list) - 1 : At(x) = l
  <2>1. Len(list) \in Nat /\ k \in 1 .. Len(list)
    OBVIOUS
  <2>2. \A l \in 1 .. Len(list) : l # k => \E x \in 1 .. Len(list) - 1 : At(x) = l
    <3> SUFFICES ASSUME NEW l \in 1 .. Len(list), l # k
                 PROVE  \E x \in 1 .. Len(list) - 1 : At(x) = l
      OBVIOUS
    <3>1. CASE l < k
      <4>1. l \in 1 .. Len(list) - 1 /\ At(l) = l
        BY <2>1, <3>1
      <4> QED BY <4>1
    <3>2. CASE l > k
      <4>1. l - 1 \in 1 .. Len(list) - 1 /\ At(l - 1) = l
        BY <2>1, <3>2
      <4> QED BY <4>1
    <3> QED BY <2>1, <3>1, <3>2
  <2> QED BY <2>1, <2>2
<1> HIDE DEF new, rest, At
<1>4. ~ Partly(p, new, i)
  BY <1>1 DEF Partly
<1>5. \A x, y \in 1 .. Len(list) : MessageOf(list[x]) = MessageOf(list[y]) => x = y
  BY DEF Assembled
<1>6. ASSUME NEW x \in 1 .. Len(list) - 1
      PROVE  /\ Partly(p, new, MessageOf(rest[x]))
             /\ Holds(rest[x], p, MessageOf(rest[x]), new[MessageOf(rest[x])])
  <2>1. At(x) \in 1 .. Len(list) /\ At(x) # k /\ rest[x] = list[At(x)]
    BY <1>2, <1>3
  <2>2. MessageOf(rest[x]) # i
    BY <1>5, <2>1
  <2>3. /\ Partly(p, row, MessageOf(rest[x]))
        /\ Holds(rest[x], p, MessageOf(rest[x]), row[MessageOf(rest[x])])
    BY <2>1 DEF Assembled
  <2> QED BY <1>1, <2>2, <2>3 DEF Partly
<1>7. \A x, y \in 1 .. Len(list) - 1 : MessageOf(rest[x]) = MessageOf(rest[y]) => x = y
  BY ZenonT(60), <1>2, <1>3, <1>5
<1>8. ASSUME NEW h \in DOMAIN Plan[p], Partly(p, new, h)
      PROVE  \E x \in 1 .. Len(list) - 1 : MessageOf(rest[x]) = h
  <2>1. h # i
    BY <1>4, <1>8
  <2>2. PICK l \in 1 .. Len(list) : MessageOf(list[l]) = h
    BY <1>1, <1>8, <2>1 DEF Assembled
  <2>3. l # k
    BY <2>1, <2>2
  <2> QED BY <1>2, <1>3, <2>2, <2>3
<1>9. Assembled(p, rest, new)
  BY <1>2, <1>6, <1>7, <1>8 DEF Assembled
<1> QED BY <1>9 DEF rest, new

-----------------------------------------------------------------------------
\* What a fragment does to the records of its path and to the log.
LEMMA EntryShows ==
    ASSUME NEW p \in Paths, NEW i \in DOMAIN Plan[p], NEW e, Len(e.parts) = Size(p, i),
           \A j \in 1 .. Len(e.parts) : e.parts[j].msg.body = <<p, i, j>>
    PROVE  EntryMessage(e) = <<p, i>>
<1>1. 1 \in 1 .. Len(e.parts)
  BY PlanFacts
<1>2. e.parts[1].msg.body[1] = p /\ e.parts[1].msg.body[2] = i
  BY <1>1
<1>3. ShowsMessage(e, p, i)
  BY DEF ShowsMessage
<1> QED BY <1>2, <1>3 DEF EntryMessage

Collected(c, p, row, i) ==
    /\ \A d \in Clients \ {c} : records'[d] = records[d] /\ shown'[d] = shown[d]
    /\ \A q \in Paths \ {p} : records'[c][q] = records[c][q]
    /\ Assembled(p, records'[c][p], [row EXCEPT ![i] = @ + 1])
    /\ row[i] + 1 = Size(p, i) =>
            \E e : shown'[c] = Append(shown[c], e) /\ EntryMessage(e) = <<p, i>>
    /\ row[i] + 1 # Size(p, i) => shown'[c] = shown[c]

LEMMA Collect ==
    ASSUME RunInv, Distinguishable, Parsing,
           NEW c \in Clients, NEW p \in Paths, NEW row \in [DOMAIN Plan[p] -> Nat],
           NEW i \in DOMAIN Plan[p], NEW m, IsFragment(m, p, i, row[i] + 1),
           row[i] < Size(p, i), Turn(p, row, i), Assembled(p, records[c][p], row), Receive(c, m)
    PROVE  Collected(c, p, row, i)
<1> DEFINE list == records[c][p]
           a    == Arrival(c, m)
           new  == [row EXCEPT ![i] = @ + 1]
<1>1. /\ records \in [Clients -> [Paths -> Seq(Record)]] /\ list \in Seq(Record)
      /\ shown \in [Clients -> Seq(Entry)] /\ clientCount[c] + 1 \in Nat /\ config \in Configs
  BY DEF RunInv, TypeOK
<1>2. /\ row[i] \in Nat /\ Size(p, i) \in Nat \ {0} /\ row[i] + 1 \in 1 .. Size(p, i)
      /\ Plan[p][i] # 1
  BY PlanFacts DEF Distinguishable, NoSingleFragment
<1>3. /\ m.path = p /\ m \in Message /\ m.body = <<p, i, row[i] + 1>>
      /\ m.chunk = NoChunk => Size(p, i) = 1
      /\ m.chunk # NoChunk => /\ m.chunk.node = Node(p, i, row[i] + 1) /\ Plan[p][i] # 0
                              /\ Size(p, i) # 1
  BY <1>2, FragmentInfo, FragmentFacts
<1>4. a = [n |-> clientCount[c] + 1, msg |-> m] /\ a \in Fragment /\ a.msg = m
  BY <1>1, <1>3 DEF Arrival, Fragment
<1>5. ASSUME NEW k \in 1 .. Len(list), Plan[p][i] # 0
      PROVE  Matches(list[k], Node(p, i, row[i] + 1)) <=> MessageOf(list[k]) = i
  BY <1>5, WhoMatches DEF Distinguishable
<1>6. ASSUME NEW new2, Store(c, p, new2)
      PROVE  /\ records'[c][p] = new2
             /\ \A d \in Clients \ {c} : records'[d] = records[d]
             /\ \A q \in Paths \ {p} : records'[c][q] = records[c][q]
  BY <1>1, <1>6 DEF Store
<1>7. ASSUME NEW kind, NEW parts, Show(c, kind, parts)
      PROVE  /\ shown'[c] = Append(shown[c], [kind |-> kind, parts |-> parts])
             /\ \A d \in Clients \ {c} : shown'[d] = shown[d]
  BY <1>1, <1>7 DEF Show
<1> HIDE DEF a, new, list
<1>8. ~ CountOnly(c, m) /\ ~ ShowOriginal(c, m)
  BY <1>1 DEF Parsing, CountOnly, ShowOriginal
<1>9. CASE PassThrough(c, m)
  <2>1. /\ m.chunk = NoChunk /\ UNCHANGED records
        /\ Show(c, Kind(<<a>>), <<a>>)
    BY <1>9 DEF PassThrough, a
  <2> DEFINE e == [kind |-> Kind(<<a>>), parts |-> <<a>>]
  <2>2. Size(p, i) = 1 /\ row[i] = 0
    BY <1>2, <1>3, <2>1
  <2>3. /\ shown'[c] = Append(shown[c], e)
        /\ \A d \in Clients \ {c} : shown'[d] = shown[d]
    BY <1>7, <2>1
  <2>4. e.parts = <<a>> /\ Len(<<a>>) = 1 /\ <<a>>[1].msg.body = <<p, i, 1>>
    BY <1>3, <1>4, <2>2
  <2> HIDE DEF e
  <2>5. EntryMessage(e) = <<p, i>>
    <3>1. \A j \in 1 .. 1 : j = 1
      OBVIOUS
    <3> QED BY <2>2, <2>4, <3>1, EntryShows
  <2>6. Assembled(p, list, new)
    BY <2>2, AssembledPass DEF new, list
  <2> QED BY <2>1, <2>2, <2>3, <2>5, <2>6 DEF Collected, new, list
<1>10. CASE StartRecord(c, m)
  <2>1. /\ m.chunk # NoChunk /\ UNCHANGED shown
        /\ NoMatch(list, m.chunk.node)
        /\ Store(c, p, Append(list, NewRecord(a)))
    BY <1>3, <1>10 DEF StartRecord, a, list
  <2>2. row[i] = 0
    <3> SUFFICES ASSUME row[i] # 0 PROVE FALSE
      OBVIOUS
    <3>1. Partly(p, row, i)
      BY <1>2 DEF Partly
    <3>2. PICK k \in 1 .. Len(list) : MessageOf(list[k]) = i
      BY <3>1 DEF Assembled, list
    <3>3. Matches(list[k], m.chunk.node)
      BY <1>3, <1>5, <2>1, <3>2
    <3> QED BY <2>1, <3>3 DEF NoMatch
  <2>3. Size(p, i) > 1
    BY <1>2, <1>3, <2>1
  <2>4. NewRecord(a) \in Record
    BY <1>1, <1>3, <1>4, <2>1, NewRecordRun
  <2>5. Holds(NewRecord(a), p, i, 1) /\ MessageOf(NewRecord(a)) = i
    BY <1>4, <2>1, <2>2, HoldsNew
  <2>6. Assembled(p, Append(list, NewRecord(a)), new)
    <3>1. Assembled(p, list, row)
      BY DEF list
    <3> QED BY <1>1, <2>2, <2>3, <2>4, <2>5, <3>1, AssembledStart DEF new
  <2>7. row[i] + 1 # Size(p, i)
    BY <2>2, <2>3
  <2> QED BY <1>6, <2>1, <2>6, <2>7 DEF Collected, new
<1>11. CASE JoinRecord(c, m)
  <2>1. m.chunk # NoChunk
    BY <1>11 DEF JoinRecord
  <2>2. PICK k \in 1 .. Len(list) :
            LET r == Extend(list[k], a)
            IN  /\ FirstMatch(list, m.chunk.node, k)
                /\ \/ /\ IsComplete(r)
                      /\ Store(c, p, RemoveRecord(list, k))
                      /\ Show(c, Kind(r.parts), r.parts)
                   \/ /\ ~ IsComplete(r)
                      /\ Store(c, p, [list EXCEPT ![k] = r])
                      /\ UNCHANGED shown
    BY <1>3, <1>11 DEF JoinRecord, a, list
  <2> DEFINE r == Extend(list[k], a)
  <2>3. MessageOf(list[k]) = i
    BY <1>3, <1>5, <2>1, <2>2 DEF FirstMatch
  <2>4. list[k] \in Record /\ Holds(list[k], p, i, row[i]) /\ row[i] \in 1 .. Size(p, i) - 1
    <3>1. list[k] \in Record
      BY <1>1
    <3> QED BY <2>3, <3>1 DEF Assembled, Partly, list
  <2>5. /\ Holds(r, p, i, row[i] + 1) /\ MessageOf(r) = i
        /\ IsComplete(r) <=> row[i] + 1 = Size(p, i)
    BY <1>1, <1>4, <2>1, <2>3, <2>4, HoldsExtend
  <2>6. r \in Record
    <3>1. list[k].parts \in Seq(Fragment) /\ m.chunk.node \in Nodes
      BY <1>3, <2>1, <2>4 DEF Record, Message, ChunkInfo
    <3>2. Append(list[k].parts, a) \in Seq(Fragment)
      BY <1>4, <3>1
    <3> QED BY <1>4, <2>4, <3>1, <3>2 DEF Extend, Record
  <2> HIDE DEF r
  <2>7. Assembled(p, list, row)
    BY DEF list
  <2>8. CASE IsComplete(r)
    <3>1. Store(c, p, RemoveRecord(list, k)) /\ Show(c, Kind(r.parts), r.parts)
      BY <2>2, <2>8 DEF r
    <3> DEFINE e == [kind |-> Kind(r.parts), parts |-> r.parts]
    <3>2. Assembled(p, RemoveRecord(list, k), new)
      BY <1>1, <2>3, <2>5, <2>7, <2>8, AssembledRemove DEF new
    <3>3. e.parts = r.parts
      OBVIOUS
    <3>4. shown'[c] = Append(shown[c], e) /\ \A d \in Clients \ {c} : shown'[d] = shown[d]
      BY <1>7, <3>1
    <3> HIDE DEF e
    <3>5. EntryMessage(e) = <<p, i>>
      BY <2>5, <2>8, <3>3, EntryShows DEF Holds
    <3>6. /\ records'[c][p] = RemoveRecord(list, k)
          /\ \A d \in Clients \ {c} : records'[d] = records[d]
          /\ \A q \in Paths \ {p} : records'[c][q] = records[c][q]
      BY <1>6, <3>1
    <3> QED BY <2>5, <2>8, <3>2, <3>4, <3>5, <3>6 DEF Collected, new
  <2>9. CASE ~ IsComplete(r)
    <3>1. Store(c, p, [list EXCEPT ![k] = r]) /\ UNCHANGED shown
      BY <2>2, <2>9 DEF r
    <3>2. row[i] + 1 < Size(p, i)
      BY <1>2, <2>5, <2>9
    <3>3. Assembled(p, [list EXCEPT ![k] = r], new)
      BY <1>1, <2>3, <2>5, <2>6, <2>7, <3>2, AssembledJoin DEF new
    <3>4. /\ records'[c][p] = [list EXCEPT ![k] = r]
          /\ \A d \in Clients \ {c} : records'[d] = records[d]
          /\ \A q \in Paths \ {p} : records'[c][q] = records[c][q]
      BY <1>6, <3>1
    <3> QED BY <3>1, <3>2, <3>3, <3>4 DEF Collected, new
  <2> QED BY <2>8, <2>9
<1> QED BY <1>8, <1>9, <1>10, <1>11 DEF Receive

-----------------------------------------------------------------------------
\* The messages a device has finished, in the order in which it finished them:
\* each of them once; those of which the handler has got everything are in the
\* log, before the others, and the last fragments of the others are on the way
\* in the same order.
Ended(done, f, e, p, i) == done[e] = <<p, i>> /\ f[p][i] = Size(p, i)

IsFinal(m, message) == m.body = <<message[1], message[2], Size(message[1], message[2])>>

AllEnded(done, s) ==
    /\ \A e \in 1 .. Len(done) : \E p \in Paths : \E i \in DOMAIN Plan[p] : Ended(done, s, e, p, i)
    /\ \A p \in Paths : \A i \in DOMAIN Plan[p] :
        s[p][i] = Size(p, i) => \E e \in 1 .. Len(done) : done[e] = <<p, i>>
    /\ \A d, e \in 1 .. Len(done) : done[d] = done[e] => d = e

FinalInOrder(stream, done) ==
    \A v, w \in 1 .. Len(stream), d, e \in 1 .. Len(done) :
        v < w /\ IsFinal(stream[v], done[d]) /\ IsFinal(stream[w], done[e]) => d < e

LoggedUpTo(g, done, n) ==
    /\ n \in 0 .. Len(done)
    /\ \A e \in 1 .. Len(done) : \A p \in Paths : \A i \in DOMAIN Plan[p] :
        done[e] = <<p, i>> => (e <= n <=> g[p][i] = Size(p, i))

Reported(s, g, stream, done, n) ==
    /\ done \in Seq(Messages)
    /\ AllEnded(done, s) /\ FinalInOrder(stream, done) /\ LoggedUpTo(g, done, n)

LEMMA IsMessage ==
    ASSUME NEW p \in Paths, NEW i \in DOMAIN Plan[p]
    PROVE  <<p, i>> \in Messages
BY DEF Messages

\* The device sends a fragment: the last one of a message finishes it.
LEMMA ReportedSend ==
    ASSUME NEW s, NEW g, NEW stream, Streamed(s, g, stream),
           NEW p \in Paths, NEW i \in DOMAIN Plan[p], s[p][i] < Size(p, i),
           NEW done, NEW n, Reported(s, g, stream, done, n)
    PROVE  LET t    == Bump(s, p, i)
               next == IF s[p][i] + 1 = Size(p, i) THEN Append(done, <<p, i>>) ELSE done
           IN  Reported(t, g, Append(stream, FragmentOf(p, i, s[p][i] + 1)), next, n)
<1> DEFINE t    == Bump(s, p, i)
           m    == FragmentOf(p, i, s[p][i] + 1)
           more == Append(stream, m)
           next == IF s[p][i] + 1 = Size(p, i) THEN Append(done, <<p, i>>) ELSE done
           len  == Len(stream)
           size == Len(done)
<1>1. /\ t[p][i] = s[p][i] + 1
      /\ \A q \in Paths : \A h \in DOMAIN Plan[q] :
            /\ s[q][h] \in Nat /\ g[q][h] \in Nat /\ t[q][h] \in Nat
            /\ q # p \/ h # i => t[q][h] = s[q][h]
  BY BumpFacts DEF Streamed
<1>2. \A q \in Paths : \A h \in DOMAIN Plan[q] :
        Size(q, h) \in Nat \ {0} /\ g[q][h] <= s[q][h]
  BY PlanFacts DEF Streamed, Bounded
<1>3. m.body = <<p, i, s[p][i] + 1>>
  BY DEF FragmentOf
<1> HIDE DEF m, t
<1>4. /\ stream \in Seq(Message) /\ len \in Nat
      /\ Len(more) = len + 1 /\ more[len + 1] = m
      /\ \A w \in 1 .. len : more[w] = stream[w]
  <2>1. stream \in Seq(Message)
    BY DEF Streamed
  <2> QED BY <2>1
<1> HIDE DEF more, len
<1>5. done \in Seq(Messages) /\ size \in Nat /\ n \in 0 .. size
  BY DEF Reported, LoggedUpTo
<1>6. \A e \in 1 .. size : done[e] # <<p, i>>
  <2> SUFFICES ASSUME NEW e \in 1 .. size, done[e] = <<p, i>> PROVE FALSE
    OBVIOUS
  <2>1. PICK q \in Paths : \E h \in DOMAIN Plan[q] : Ended(done, s, e, q, h)
    BY DEF Reported, AllEnded
  <2>2. PICK h \in DOMAIN Plan[q] : Ended(done, s, e, q, h)
    BY <2>1
  <2>3. q = p /\ h = i /\ s[q][h] = Size(q, h)
    BY <2>2 DEF Ended
  <2> QED BY <1>1, <1>2, <2>3
<1>7. /\ next \in Seq(Messages) /\ Len(next) \in {size, size + 1}
      /\ \A e \in 1 .. size : e \in 1 .. Len(next) /\ next[e] = done[e]
      /\ \A e \in 1 .. Len(next) : e \in 1 .. size \/
            (e = size + 1 /\ next[e] = <<p, i>> /\ s[p][i] + 1 = Size(p, i))
      /\ s[p][i] + 1 = Size(p, i) => size + 1 \in 1 .. Len(next) /\ next[size + 1] = <<p, i>>
  <2>1. <<p, i>> \in Messages
    BY IsMessage
  <2>2. /\ Append(done, <<p, i>>) \in Seq(Messages)
        /\ Len(Append(done, <<p, i>>)) = size + 1
        /\ Append(done, <<p, i>>)[size + 1] = <<p, i>>
        /\ \A e \in 1 .. size : Append(done, <<p, i>>)[e] = done[e]
    BY <1>5, <2>1
  <2>3. CASE s[p][i] + 1 = Size(p, i)
    <3>1. next = Append(done, <<p, i>>)
      BY <2>3
    <3> HIDE DEF next
    <3> QED BY <1>5, <2>2, <2>3, <3>1
  <2>4. CASE s[p][i] + 1 # Size(p, i)
    <3>1. next = done
      BY <2>4
    <3> HIDE DEF next
    <3> QED BY <1>5, <2>4, <3>1
  <2> QED BY <2>3, <2>4
<1> HIDE DEF next, size
\* A message of before is not this one.
<1>8. ASSUME NEW e \in 1 .. size, NEW q \in Paths, NEW h \in DOMAIN Plan[q], done[e] = <<q, h>>
      PROVE  q # p \/ h # i
  BY <1>6, <1>8
<1>9. AllEnded(next, t)
  <2>1. ASSUME NEW e \in 1 .. Len(next)
        PROVE  \E q \in Paths : \E h \in DOMAIN Plan[q] : Ended(next, t, e, q, h)
    <3>1. CASE e \in 1 .. size
      <4>1. PICK q \in Paths : \E h \in DOMAIN Plan[q] : Ended(done, s, e, q, h)
        BY <3>1 DEF Reported, AllEnded, size
      <4>2. PICK h \in DOMAIN Plan[q] : Ended(done, s, e, q, h)
        BY <4>1
      <4>3. q # p \/ h # i
        BY <1>8, <3>1, <4>2 DEF Ended
      <4>4. t[q][h] = s[q][h]
        BY <1>1, <4>3
      <4> QED BY <1>7, <3>1, <4>2, <4>4 DEF Ended
    <3>2. CASE e = size + 1 /\ next[e] = <<p, i>> /\ s[p][i] + 1 = Size(p, i)
      <4>1. Ended(next, t, e, p, i)
        BY <1>1, <3>2 DEF Ended
      <4> QED BY <4>1
    <3> QED BY <1>7, <3>1, <3>2
  <2>2. ASSUME NEW q \in Paths, NEW h \in DOMAIN Plan[q], t[q][h] = Size(q, h)
        PROVE  \E e \in 1 .. Len(next) : next[e] = <<q, h>>
    <3>1. CASE q = p /\ h = i
      <4>1. s[p][i] + 1 = Size(p, i)
        BY <1>1, <2>2, <3>1
      <4> QED BY <1>7, <3>1, <4>1
    <3>2. CASE q # p \/ h # i
      <4>1. s[q][h] = Size(q, h)
        BY <1>1, <2>2, <3>2
      <4>2. PICK e \in 1 .. size : done[e] = <<q, h>>
        BY <4>1 DEF Reported, AllEnded, size
      <4> QED BY <1>7, <4>2
    <3> QED BY <3>1, <3>2
  <2>3. ASSUME NEW d \in 1 .. Len(next), NEW e \in 1 .. Len(next), next[d] = next[e]
        PROVE  d = e
    <3>1. \A x, y \in 1 .. size : done[x] = done[y] => x = y
      BY DEF Reported, AllEnded, size
    <3> QED BY <1>6, <1>7, <2>3, <3>1
  <2> QED BY <2>1, <2>2, <2>3 DEF AllEnded
<1>10. FinalInOrder(more, next)
  <2> SUFFICES ASSUME NEW v \in 1 .. Len(more), NEW w \in 1 .. Len(more),
                      NEW d \in 1 .. Len(next), NEW e \in 1 .. Len(next), v < w,
                      IsFinal(more[v], next[d]), IsFinal(more[w], next[e])
               PROVE  d < e
    BY DEF FinalInOrder
  <2>1. v \in 1 .. len /\ more[v] = stream[v]
    BY <1>4
  <2>2. ASSUME NEW x \in 1 .. len, IsFinal(stream[x], <<p, i>>)
        PROVE  FALSE
    <3>1. PICK q \in Paths : \E h \in DOMAIN Plan[q] : \E j \in Due(s, g, q, h) :
            IsFragment(stream[x], q, h, j)
      BY DEF Streamed, OnlyDue, len
    <3>2. PICK h \in DOMAIN Plan[q] : \E j \in Due(s, g, q, h) :
            IsFragment(stream[x], q, h, j)
      BY <3>1
    <3>3. PICK j \in Due(s, g, q, h) : IsFragment(stream[x], q, h, j)
      BY <3>2
    <3>4. q = p /\ h = i /\ j = Size(p, i)
      BY <2>2, <3>3, FragmentFacts DEF IsFinal
    <3>5. j <= s[p][i]
      BY <1>1, <3>4 DEF Due
    <3> QED BY <1>1, <1>2, <3>4, <3>5
  <2>3. d \in 1 .. size /\ next[d] = done[d]
    BY <1>7, <2>1, <2>2
  <2>4. CASE w \in 1 .. len
    <3>1. more[w] = stream[w]
      BY <1>4, <2>4
    <3>2. e \in 1 .. size /\ next[e] = done[e]
      BY <1>7, <2>2, <2>4, <3>1
    <3> QED BY <2>1, <2>3, <2>4, <3>1, <3>2 DEF Reported, FinalInOrder, len, size
  <2>5. CASE w = len + 1
    <3>1. e = size + 1
      <4> SUFFICES ASSUME e \in 1 .. size PROVE FALSE
        BY <1>7
      <4>1. PICK q \in Paths : \E h \in DOMAIN Plan[q] : Ended(done, s, e, q, h)
        BY DEF Reported, AllEnded, size
      <4>2. PICK h \in DOMAIN Plan[q] : Ended(done, s, e, q, h)
        BY <4>1
      <4>3. next[e] = <<q, h>>
        BY <1>7, <4>2 DEF Ended
      <4>4. next[e][1] = q /\ next[e][2] = h
        BY <4>3
      <4>5. more[w].body = <<q, h, Size(q, h)>>
        BY <4>4 DEF IsFinal
      <4>6. more[w].body = <<p, i, s[p][i] + 1>>
        BY <1>3, <1>4, <2>5
      <4>7. q = p /\ h = i
        BY <4>5, <4>6
      <4> QED BY <1>8, <4>2, <4>7 DEF Ended
    <3> QED BY <1>5, <2>3, <3>1 DEF size
  <2> QED BY <1>4, <2>4, <2>5
<1>11. LoggedUpTo(g, next, n)
  <2>1. n \in 0 .. Len(next) /\ n \in Nat /\ n <= size
    BY <1>5, <1>7 DEF size
  <2>2. ASSUME NEW e \in 1 .. Len(next), NEW q \in Paths, NEW h \in DOMAIN Plan[q], next[e] = <<q, h>>
        PROVE  e <= n <=> g[q][h] = Size(q, h)
    <3>1. CASE e \in 1 .. size
      <4>1. done[e] = <<q, h>>
        BY <1>7, <2>2, <3>1
      <4> QED BY <3>1, <4>1 DEF Reported, LoggedUpTo, size
    <3>2. CASE e = size + 1 /\ next[e] = <<p, i>>
      <4>1. q = p /\ h = i
        BY <2>2, <3>2
      <4>2. g[p][i] # Size(p, i)
        BY <1>1, <1>2
      <4>3. ~ (e <= n)
        BY <1>5, <2>1, <3>2 DEF size
      <4> QED BY <4>1, <4>2, <4>3
    <3> QED BY <1>7, <3>1, <3>2
  <2> QED BY <2>1, <2>2 DEF LoggedUpTo
<1>12. Reported(t, g, more, next, n)
  BY <1>7, <1>9, <1>10, <1>11 DEF Reported
<1> QED BY <1>12 DEF t, m, more, next

\* The handler gets a fragment: the last one of a message is that of the first
\* message that is finished and not yet in the log.
LEMMA ReportedTake ==
    ASSUME NEW s, NEW g, NEW stream, Streamed(s, g, stream), stream # <<>>,
           NEW p \in Paths, NEW i \in DOMAIN Plan[p],
           IsFragment(Head(stream), p, i, g[p][i] + 1), g[p][i] < s[p][i],
           NEW done, NEW n, Reported(s, g, stream, done, n)
    PROVE  /\ g[p][i] + 1 # Size(p, i) => Reported(s, Bump(g, p, i), Tail(stream), done, n)
           /\ g[p][i] + 1 = Size(p, i) =>
                /\ n < Len(done) /\ done[n + 1] = <<p, i>>
                /\ Reported(s, Bump(g, p, i), Tail(stream), done, n + 1)
<1> DEFINE t    == Bump(g, p, i)
           rest == Tail(stream)
           len  == Len(stream)
           size == Len(done)
<1>1. /\ t[p][i] = g[p][i] + 1
      /\ \A q \in Paths : \A h \in DOMAIN Plan[q] :
            /\ s[q][h] \in Nat /\ g[q][h] \in Nat /\ t[q][h] \in Nat
            /\ q # p \/ h # i => t[q][h] = g[q][h]
  BY BumpFacts DEF Streamed
<1>2. \A q \in Paths : \A h \in DOMAIN Plan[q] :
        Size(q, h) \in Nat \ {0} /\ g[q][h] <= s[q][h] /\ s[q][h] <= Size(q, h)
  BY PlanFacts DEF Streamed, Bounded
<1>3. /\ stream \in Seq(Message) /\ len \in Nat /\ 1 \in 1 .. len /\ Head(stream) = stream[1]
      /\ Len(rest) = len - 1
      /\ \A w \in 1 .. len - 1 : w + 1 \in 1 .. len /\ rest[w] = stream[w + 1]
  <2>1. stream \in Seq(Message)
    BY DEF Streamed
  <2> QED BY <2>1
<1> HIDE DEF t, rest, len
<1>4. /\ done \in Seq(Messages) /\ size \in Nat /\ n \in 0 .. size
      /\ AllEnded(done, s) /\ FinalInOrder(stream, done) /\ LoggedUpTo(g, done, n)
  BY DEF Reported, LoggedUpTo
<1> HIDE DEF size
<1>5. FinalInOrder(rest, done)
  <2> SUFFICES ASSUME NEW v \in 1 .. Len(rest), NEW w \in 1 .. Len(rest),
                      NEW d \in 1 .. size, NEW e \in 1 .. size, v < w,
                      IsFinal(rest[v], done[d]), IsFinal(rest[w], done[e])
               PROVE  d < e
    BY DEF FinalInOrder, size
  <2>1. /\ v + 1 \in 1 .. len /\ w + 1 \in 1 .. len /\ v + 1 < w + 1
        /\ rest[v] = stream[v + 1] /\ rest[w] = stream[w + 1]
    BY <1>3
  <2> QED BY <1>4, <2>1 DEF FinalInOrder, len, size
<1>6. ASSUME g[p][i] + 1 # Size(p, i)
      PROVE  LoggedUpTo(t, done, n)
  <2> SUFFICES ASSUME NEW e \in 1 .. size, NEW q \in Paths, NEW h \in DOMAIN Plan[q],
                      done[e] = <<q, h>>
               PROVE  e <= n <=> t[q][h] = Size(q, h)
    BY <1>4 DEF LoggedUpTo, size
  <2>1. e <= n <=> g[q][h] = Size(q, h)
    BY <1>4 DEF LoggedUpTo, size
  <2>2. CASE q = p /\ h = i
    BY <1>1, <1>2, <1>6, <2>1, <2>2
  <2>3. CASE q # p \/ h # i
    BY <1>1, <2>1, <2>3
  <2> QED BY <2>2, <2>3
<1>7. ASSUME g[p][i] + 1 = Size(p, i)
      PROVE  n < size /\ done[n + 1] = <<p, i>>
  <2>1. s[p][i] = Size(p, i)
    BY <1>1, <1>2, <1>7
  <2>2. PICK e \in 1 .. size : done[e] = <<p, i>>
    BY <1>4, <2>1 DEF AllEnded, size
  <2>3. ~ (e <= n)
    <3>1. g[p][i] # Size(p, i)
      BY <1>1, <1>2
    <3> QED BY <1>4, <2>2, <3>1 DEF LoggedUpTo, size
  <2>4. n + 1 \in 1 .. size /\ n + 1 <= e
    BY <1>4, <2>3
  <2>5. ASSUME n + 1 # e PROVE FALSE
    <3>1. PICK q \in Paths : \E h \in DOMAIN Plan[q] : Ended(done, s, n + 1, q, h)
      BY <1>4, <2>4 DEF AllEnded, size
    <3>2. PICK h \in DOMAIN Plan[q] : Ended(done, s, n + 1, q, h)
      BY <3>1
    <3>3. done[n + 1] = <<q, h>> /\ s[q][h] = Size(q, h)
      BY <3>2 DEF Ended
    <3>4. g[q][h] # Size(q, h)
      <4>1. ~ (n + 1 <= n)
        BY <1>4
      <4> QED BY <1>4, <2>4, <3>3, <4>1 DEF LoggedUpTo, size
    <3>5. Size(q, h) \in Due(s, g, q, h)
      BY <1>1, <1>2, <3>3, <3>4 DEF Due
    <3>6. PICK v \in 1 .. len : IsFragment(stream[v], q, h, Size(q, h))
      BY <3>5 DEF Streamed, AllDue, len
    <3>7. IsFinal(stream[v], done[n + 1]) /\ IsFinal(stream[1], done[e])
      <4>1. stream[v].body = <<q, h, Size(q, h)>> /\ stream[1].body = <<p, i, Size(p, i)>>
        BY <1>3, <1>7, <3>6, FragmentFacts
      <4>2. done[n + 1][1] = q /\ done[n + 1][2] = h /\ done[e][1] = p /\ done[e][2] = i
        BY <2>2, <3>3
      <4> QED BY <4>1, <4>2 DEF IsFinal
    <3>8. v # 1
      <4> SUFFICES ASSUME v = 1 PROVE FALSE
        OBVIOUS
      <4>1. q = p /\ h = i
        BY <1>3, <3>6, FragmentFacts
      <4>2. done[n + 1] = done[e]
        BY <2>2, <3>3, <4>1
      <4> QED BY <1>4, <2>4, <2>5, <4>2 DEF AllEnded, size
    <3>9. e < n + 1
      <4>1. 1 < v
        BY <3>8
      <4> QED BY <1>3, <1>4, <2>4, <3>7, <4>1 DEF FinalInOrder, len, size
    <3> QED BY <1>4, <2>4, <3>9
  <2> QED BY <1>4, <2>2, <2>4, <2>5
<1>8. ASSUME g[p][i] + 1 = Size(p, i)
      PROVE  LoggedUpTo(t, done, n + 1)
  <2>1. n < size /\ done[n + 1] = <<p, i>> /\ n + 1 \in 0 .. size /\ n + 1 \in 1 .. size
    BY <1>4, <1>7, <1>8
  <2> SUFFICES ASSUME NEW e \in 1 .. size, NEW q \in Paths, NEW h \in DOMAIN Plan[q],
                      done[e] = <<q, h>>
               PROVE  e <= n + 1 <=> t[q][h] = Size(q, h)
    BY <2>1 DEF LoggedUpTo, size
  <2>2. e <= n <=> g[q][h] = Size(q, h)
    BY <1>4 DEF LoggedUpTo, size
  <2>3. CASE q = p /\ h = i
    <3>1. e = n + 1
      BY <1>4, <2>1, <2>3 DEF AllEnded, size
    <3> QED BY <1>1, <1>4, <1>8, <2>3, <3>1
  <2>4. CASE q # p \/ h # i
    <3>1. e # n + 1
      BY <2>1, <2>4
    <3>2. e <= n + 1 <=> e <= n
      BY <1>4, <3>1
    <3> QED BY <1>1, <2>2, <2>4, <3>2
  <2> QED BY <2>3, <2>4
<1>9. g[p][i] + 1 # Size(p, i) => Reported(s, t, rest, done, n)
  BY <1>4, <1>5, <1>6 DEF Reported
<1>10. g[p][i] + 1 = Size(p, i) => Reported(s, t, rest, done, n + 1)
  BY <1>4, <1>5, <1>8 DEF Reported
<1> QED BY <1>7, <1>9, <1>10 DEF t, rest, size

-----------------------------------------------------------------------------
(***************************************************************************)
(* The devices' part of the state, and what a fragment that is sent does   *)
(* to it.  Whatever they send, their service is a Dialout service.         *)
(***************************************************************************)
SentInv ==
    /\ RunInv
    /\ sent \in [Clients -> Counters]
    /\ wire \in [Clients -> Seq(Message)]
    /\ finished \in [Clients -> Seq(Messages)]

LEMMA NothingCounted == NothingSent \in Counters
<1> DEFINE T == UNION {[DOMAIN Plan[p] -> Nat] : p \in Paths}
<1>1. \A p \in Paths : NothingSent[p] \in [DOMAIN Plan[p] -> Nat]
  BY DEF NothingSent
<1>2. \A p \in Paths : NothingSent[p] \in T
  BY <1>1
<1> HIDE DEF T
<1>3. NothingSent \in [Paths -> T]
  BY <1>2 DEF NothingSent
<1> QED BY <1>1, <1>3 DEF Counters, T

LEMMA SendEffect ==
    ASSUME SentInv, NEW c \in Clients, NEW p \in Paths, NEW i \in DOMAIN Plan[p],
           SendFragment(c, p, i)
    PROVE  LET n == sent[c][p][i] + 1
               m == FragmentOf(p, i, n)
           IN  /\ n \in 1 .. Size(p, i) /\ m \in Message
               /\ sent' = [sent EXCEPT ![c] = Bump(sent[c], p, i)]
               /\ wire' = [wire EXCEPT ![c] = Append(@, m)]
               /\ finished' = [finished EXCEPT
                                ![c] = IF n = Size(p, i) THEN Append(@, <<p, i>>) ELSE @]
<1>1. sent[c] \in Counters /\ sent \in [Clients -> Counters]
  BY DEF SentInv
<1>2. sent[c][p][i] \in Nat /\ Bump(sent[c], p, i)[p][i] = sent[c][p][i] + 1
  BY <1>1, BumpFacts
<1>3. Size(p, i) \in Nat \ {0}
  BY PlanFacts
<1>4. sent[c][p][i] + 1 \in 1 .. Size(p, i)
  BY <1>2, <1>3 DEF SendFragment, MayBegin, InFlight
<1>5. sent' = [sent EXCEPT ![c] = Bump(sent[c], p, i)]
  BY <1>1 DEF SendFragment, Bump
<1>6. sent'[c][p][i] = sent[c][p][i] + 1
  <2>1. sent'[c] = Bump(sent[c], p, i)
    BY <1>1, <1>5
  <2> QED BY <1>2, <2>1
<1>7. wire' = [wire EXCEPT ![c] = Append(@, FragmentOf(p, i, sent[c][p][i] + 1))]
  BY <1>6 DEF SendFragment
<1>8. finished' = [finished EXCEPT
                    ![c] = IF sent[c][p][i] + 1 = Size(p, i) THEN Append(@, <<p, i>>) ELSE @]
  <2>1. finished \in [Clients -> Seq(Messages)]
    BY DEF SentInv
  <2>2. CASE sent[c][p][i] + 1 = Size(p, i)
    BY <1>6, <2>2 DEF SendFragment
  <2>3. CASE sent[c][p][i] + 1 # Size(p, i)
    <3>1. finished' = finished
      BY <1>6, <2>3 DEF SendFragment
    <3> QED BY <2>1, <2>3, <3>1
  <2> QED BY <2>2, <2>3
<1> QED BY <1>4, <1>5, <1>7, <1>8, PlanFacts

LEMMA FeedStepIsStep == SentInv /\ [FeedNext]_feedVars => [Next]_vars
<1> SUFFICES ASSUME SentInv, [FeedNext]_feedVars PROVE [Next]_vars
  OBVIOUS
<1>1. CASE UNCHANGED feedVars
  BY <1>1 DEF feedVars, vars
<1>2. ASSUME NEW c \in Clients, FeedReceive(c)
      PROVE  Next
  <2>1. Head(wire[c]) \in Message /\ Receive(c, Head(wire[c]))
    <3>1. wire[c] \in Seq(Message) /\ wire[c] # <<>>
      BY <1>2 DEF SentInv, FeedReceive
    <3> QED BY <1>2, <3>1 DEF FeedReceive
  <2> QED BY <2>1 DEF Next
<1> QED BY <1>1, <1>2 DEF FeedNext, Next, FeedConnect, SendFragment, StreamEnd, StreamError

LEMMA SentInvStart == FeedInit => SentInv
<1> SUFFICES ASSUME FeedInit PROVE SentInv
  OBVIOUS
<1>1. RunInv
  BY InitRunInv DEF FeedInit
<1>2. <<>> \in Seq(Message) /\ <<>> \in Seq(Messages)
  OBVIOUS
<1> QED BY <1>1, <1>2, NothingCounted DEF FeedInit, SentInv

LEMMA SentInvNext == SentInv /\ [FeedNext]_feedVars => SentInv'
<1> SUFFICES ASSUME SentInv, [FeedNext]_feedVars PROVE SentInv'
  OBVIOUS
<1>1. RunInv'
  BY FeedStepIsStep, NextRunInv, StutterRunInv DEF SentInv
<1>2. /\ sent \in [Clients -> Counters] /\ wire \in [Clients -> Seq(Message)]
      /\ finished \in [Clients -> Seq(Messages)]
  BY DEF SentInv
<1>3. CASE UNCHANGED feedVars
  BY <1>1, <1>2, <1>3 DEF feedVars, SentInv
<1>4. ASSUME NEW c \in Clients, FeedConnect(c)
      PROVE  SentInv'
  BY <1>1, <1>2, <1>4 DEF FeedConnect, SentInv
<1>5. ASSUME NEW c \in Clients, NEW p \in Paths, NEW i \in DOMAIN Plan[p], SendFragment(c, p, i)
      PROVE  SentInv'
  <2> DEFINE n == sent[c][p][i] + 1
             m == FragmentOf(p, i, n)
  <2>1. /\ m \in Message
        /\ sent' = [sent EXCEPT ![c] = Bump(sent[c], p, i)]
        /\ wire' = [wire EXCEPT ![c] = Append(wire[c], m)]
        /\ finished' = [finished EXCEPT
                         ![c] = IF n = Size(p, i) THEN Append(finished[c], <<p, i>>) ELSE finished[c]]
    BY <1>2, <1>5, SendEffect
  <2>2. Bump(sent[c], p, i) \in Counters
    BY <1>2, BumpFacts
  <2> HIDE DEF m, n
  <2>3. Append(wire[c], m) \in Seq(Message)
    BY <1>2, <2>1
  <2>4. Append(finished[c], <<p, i>>) \in Seq(Messages) /\ finished[c] \in Seq(Messages)
    BY <1>2, IsMessage
  <2> QED BY <1>1, <1>2, <2>1, <2>2, <2>3, <2>4 DEF SentInv
<1>6. ASSUME NEW c \in Clients, FeedReceive(c)
      PROVE  SentInv'
  <2>1. wire[c] \in Seq(Message) /\ wire[c] # <<>>
    BY <1>2, <1>6 DEF FeedReceive
  <2>2. Tail(wire[c]) \in Seq(Message)
    BY <2>1
  <2> QED BY <1>1, <1>2, <1>6, <2>2 DEF FeedReceive, SentInv
<1>7. ASSUME NEW c \in Clients, Forget(c)
      PROVE  SentInv'
  <2>1. <<>> \in Seq(Message) /\ <<>> \in Seq(Messages)
    OBVIOUS
  <2> QED BY <1>1, <1>2, <1>7, <2>1, NothingCounted DEF Forget, SentInv
<1> QED BY <1>3, <1>4, <1>5, <1>6, <1>7 DEF FeedNext, StreamEnd, StreamError

\* The service that the devices of a plan feed is the service of Dialout, for
\* any plan: what is proved of Spec holds of FeedSpec.
THEOREM FeedIsService == FeedSpec => Spec
<1>1. FeedInit => Init
  BY DEF FeedInit
<1> QED BY <1>1, SentInvStart, SentInvNext, FeedStepIsStep, PTL DEF FeedSpec, Spec

-----------------------------------------------------------------------------
(***************************************************************************)
(* NoCompleteHeld: as long as no device cuts a message into one fragment   *)
(* (add does not look at a record that it has just made), no record that   *)
(* has all its fragments is kept, in whatever mode and however the nodes   *)
(* are numbered.                                                           *)
(***************************************************************************)
Several(m) == m.chunk # NoChunk => m.chunk.total > 1

Unfinished(list) == \A k \in 1 .. Len(list) : Len(list[k].parts) < list[k].total

UnfinishedInv ==
    /\ SentInv
    /\ \A c \in Clients : \A w \in 1 .. Len(wire[c]) : Several(wire[c][w])
    /\ \A c \in Clients, p \in Paths : Unfinished(records[c][p])

LEMMA UnfinishedReceive ==
    ASSUME RunInv, NEW c \in Clients, NEW m \in Message, Several(m), Receive(c, m),
           \A d \in Clients, p \in Paths : Unfinished(records[d][p])
    PROVE  \A d \in Clients, p \in Paths : Unfinished(records'[d][p])
<1> DEFINE list == records[c][m.path]
           a    == Arrival(c, m)
<1>1. /\ records \in [Clients -> [Paths -> Seq(Record)]] /\ m.path \in Paths
      /\ list \in Seq(Record) /\ Unfinished(list)
      /\ clientCount[c] + 1 \in Nat
  BY DEF RunInv, TypeOK, Message
<1>2. a \in Fragment /\ a.msg = m
  BY <1>1 DEF Arrival, Fragment
<1>3. ASSUME NEW new, Store(c, m.path, new), Unfinished(new)
      PROVE  \A d \in Clients, p \in Paths : Unfinished(records'[d][p])
  BY <1>1, <1>3 DEF Store
<1>4. CASE UNCHANGED records
  BY <1>4
<1>5. CASE StartRecord(c, m)
  <2>1. m.chunk # NoChunk /\ Store(c, m.path, Append(list, NewRecord(a)))
    BY <1>5 DEF StartRecord
  <2> HIDE DEF a, list
  <2>2. NewRecord(a).total = m.chunk.total /\ NewRecord(a).parts = <<a>> /\ Len(<<a>>) = 1
    BY <1>2 DEF NewRecord
  <2>3. Len(NewRecord(a).parts) < NewRecord(a).total
    <3>1. m.chunk.total \in Nat /\ m.chunk.total > 1
      BY <2>1, TotalsAssumption DEF Several, Message, ChunkInfo
    <3> QED BY <2>2, <3>1
  <2>4. Unfinished(Append(list, NewRecord(a)))
    <3>1. /\ Len(Append(list, NewRecord(a))) = Len(list) + 1 /\ Len(list) \in Nat
          /\ Append(list, NewRecord(a))[Len(list) + 1] = NewRecord(a)
          /\ \A k \in 1 .. Len(list) : Append(list, NewRecord(a))[k] = list[k]
      BY <1>1
    <3>2. \A k \in 1 .. Len(list) + 1 : k \in 1 .. Len(list) \/ k = Len(list) + 1
      BY <3>1
    <3> QED BY <1>1, <2>3, <3>1, <3>2 DEF Unfinished
  <2> QED BY <1>3, <2>1, <2>4
<1>6. CASE JoinRecord(c, m)
  <2>1. PICK k \in 1 .. Len(list) :
            LET r == Extend(list[k], a)
            IN  \/ IsComplete(r) /\ Store(c, m.path, RemoveRecord(list, k))
                \/ ~ IsComplete(r) /\ Store(c, m.path, [list EXCEPT ![k] = r])
    BY <1>6 DEF JoinRecord
  <2> DEFINE r == Extend(list[k], a)
  <2> HIDE DEF a, list
  <2>2. list[k] \in Record /\ list[k].total \in Nat /\ Len(list[k].parts) < list[k].total
    <3>1. list[k] \in Record
      BY <1>1
    <3> QED BY <1>1, <3>1, TotalsAssumption DEF Record, Unfinished
  <2>3. r.total = list[k].total /\ Len(r.parts) = Len(list[k].parts) + 1 /\ Len(list[k].parts) \in Nat
    <3>1. list[k].parts \in Seq(Fragment)
      BY <2>2 DEF Record
    <3>2. r.parts = Append(list[k].parts, a) /\ r.total = list[k].total
      BY <2>2 DEF Extend, Record
    <3> QED BY <1>2, <3>1, <3>2
  <2> HIDE DEF r
  <2>4. CASE IsComplete(r) /\ Store(c, m.path, RemoveRecord(list, k))
    <3>1. /\ Len(RemoveRecord(list, k)) = Len(list) - 1
          /\ \A i \in 1 .. Len(list) - 1 :
                RemoveRecord(list, k)[i] = list[IF i < k THEN i ELSE i + 1]
      BY <1>1, RemoveRecordKeeps
    <3>2. \A i \in 1 .. Len(list) - 1 : (IF i < k THEN i ELSE i + 1) \in 1 .. Len(list)
      BY <1>1
    <3>3. Unfinished(RemoveRecord(list, k))
      BY <1>1, <3>1, <3>2 DEF Unfinished
    <3> QED BY <1>3, <2>4, <3>3
  <2>5. CASE ~ IsComplete(r) /\ Store(c, m.path, [list EXCEPT ![k] = r])
    <3>1. Len(r.parts) < r.total
      BY <2>2, <2>3, <2>5 DEF IsComplete
    <3>2. /\ Len([list EXCEPT ![k] = r]) = Len(list)
          /\ \A j \in 1 .. Len(list) :
                [list EXCEPT ![k] = r][j] = IF j = k THEN r ELSE list[j]
      BY <1>1
    <3>3. Unfinished([list EXCEPT ![k] = r])
      BY <1>1, <3>1, <3>2 DEF Unfinished
    <3> QED BY <1>3, <2>5, <3>3
  <2> QED BY <2>1, <2>4, <2>5 DEF r
<1> QED BY <1>4, <1>5, <1>6 DEF Receive, CountOnly, ShowOriginal, PassThrough

LEMMA UnfinishedNext ==
    ASSUME NoSingleFragment, UnfinishedInv, [FeedNext]_feedVars
    PROVE  UnfinishedInv'
<1>1. SentInv'
  BY SentInvNext DEF UnfinishedInv
<1>2. /\ wire \in [Clients -> Seq(Message)]
      /\ records \in [Clients -> [Paths -> Seq(Record)]]
      /\ \A d \in Clients : \A w \in 1 .. Len(wire[d]) : Several(wire[d][w])
      /\ \A d \in Clients, p \in Paths : Unfinished(records[d][p])
  BY DEF UnfinishedInv, SentInv, RunInv, TypeOK
<1>3. CASE UNCHANGED feedVars
  BY <1>1, <1>2, <1>3 DEF feedVars, UnfinishedInv
<1>4. \A p \in Paths : Unfinished(NoRecords[p])
  BY DEF NoRecords, Unfinished
<1>5. ASSUME NEW c \in Clients, FeedConnect(c)
      PROVE  UnfinishedInv'
  <2>1. \A d \in Clients : records'[d] = IF d = c THEN NoRecords ELSE records[d]
    BY <1>2, <1>5 DEF FeedConnect, Connect
  <2> QED BY <1>1, <1>2, <1>4, <1>5, <2>1 DEF FeedConnect, UnfinishedInv
<1>6. ASSUME NEW c \in Clients, NEW p \in Paths, NEW i \in DOMAIN Plan[p], SendFragment(c, p, i)
      PROVE  UnfinishedInv'
  <2> DEFINE m == FragmentOf(p, i, sent[c][p][i] + 1)
  <2>1. m \in Message /\ wire' = [wire EXCEPT ![c] = Append(wire[c], m)]
    BY <1>6, SendEffect DEF UnfinishedInv
  <2>2. Several(m)
    <3>1. Plan[p][i] \in Nat /\ Plan[p][i] # 1
      BY PlanFacts DEF NoSingleFragment
    <3>2. m.chunk # NoChunk => m.chunk.total = Plan[p][i] /\ Plan[p][i] # 0
      BY DEF FragmentOf
    <3> HIDE DEF m
    <3> QED BY <3>1, <3>2 DEF Several
  <2> HIDE DEF m
  <2>3. \A w \in 1 .. Len(Append(wire[c], m)) : Several(Append(wire[c], m)[w])
    BY <1>2, <2>1, <2>2
  <2>4. \A d \in Clients : wire'[d] = IF d = c THEN Append(wire[c], m) ELSE wire[d]
    BY <1>2, <2>1
  <2> QED BY <1>1, <1>2, <1>6, <2>3, <2>4 DEF SendFragment, vars, UnfinishedInv
<1>7. ASSUME NEW c \in Clients, FeedReceive(c)
      PROVE  UnfinishedInv'
  <2>1. wire[c] \in Seq(Message) /\ wire[c] # <<>> /\ Receive(c, Head(wire[c]))
    BY <1>2, <1>7 DEF FeedReceive
  <2>2. Head(wire[c]) \in Message /\ Several(Head(wire[c]))
    BY <1>2, <2>1
  <2>3. \A d \in Clients, p \in Paths : Unfinished(records'[d][p])
    BY <1>2, <2>1, <2>2, UnfinishedReceive DEF UnfinishedInv, SentInv
  <2>4. \A w \in 1 .. Len(Tail(wire[c])) : Several(Tail(wire[c])[w])
    BY <1>2, <2>1
  <2>5. \A d \in Clients : wire'[d] = IF d = c THEN Tail(wire[c]) ELSE wire[d]
    BY <1>2, <1>7 DEF FeedReceive
  <2> QED BY <1>1, <1>2, <2>3, <2>4, <2>5 DEF UnfinishedInv
<1>8. ASSUME NEW c \in Clients, Disconnect(c), Forget(c)
      PROVE  UnfinishedInv'
  <2>1. \A d \in Clients : /\ records'[d] = IF d = c THEN NoRecords ELSE records[d]
                           /\ wire'[d] = IF d = c THEN <<>> ELSE wire[d]
    BY <1>2, <1>8 DEF Disconnect, Forget
  <2>2. \A w \in 1 .. Len(<<>>) : FALSE
    OBVIOUS
  <2> QED BY <1>1, <1>2, <1>4, <2>1, <2>2 DEF UnfinishedInv
<1> QED BY <1>3, <1>5, <1>6, <1>7, <1>8 DEF FeedNext, StreamEnd, StreamError

\* For any plan without messages in exactly one fragment: `Returns
\* Some(merged_json_data) if the message completed a chunk record'.
THEOREM NoCompleteStays ==
    ASSUME NoSingleFragment
    PROVE  FeedSpec => []NoCompleteHeld
<1>1. FeedInit => UnfinishedInv
  <2> SUFFICES ASSUME FeedInit PROVE UnfinishedInv
    OBVIOUS
  <2>1. \A c \in Clients : wire[c] = <<>> /\ \A p \in Paths : records[c][p] = <<>>
    BY DEF FeedInit, Init, NoRecords
  <2>2. \A k \in 1 .. Len(<<>>) : FALSE
    OBVIOUS
  <2> QED BY <2>1, <2>2, SentInvStart DEF UnfinishedInv, Unfinished
<1>2. UnfinishedInv /\ [FeedNext]_feedVars => UnfinishedInv'
  BY UnfinishedNext
<1>3. UnfinishedInv => NoCompleteHeld
  <2> SUFFICES ASSUME UnfinishedInv, NEW c \in Clients, NEW p \in Paths,
                      NEW k \in DOMAIN records[c][p]
               PROVE  Len(records[c][p][k].parts) < records[c][p][k].total
    BY DEF NoCompleteHeld
  <2>1. records[c][p] \in Seq(Record) /\ Unfinished(records[c][p])
    BY DEF UnfinishedInv, SentInv, RunInv, TypeOK
  <2> QED BY <2>1 DEF Unfinished
<1> QED BY <1>1, <1>2, <1>3, PTL DEF FeedSpec

-----------------------------------------------------------------------------
(***************************************************************************)
(* Every message that a device finishes is shown.  FeedInv: for each       *)
(* client there are counters of what its handler has got of each message;  *)
(* the stream holds what is between them and what the device has sent, the *)
(* records hold what they say of the messages that are not whole yet, and  *)
(* the log shows the messages of which they say that they are.             *)
(***************************************************************************)
Shows(log, done) ==
    \A e \in 1 .. Len(log) : e \in 1 .. Len(done) /\ EntryMessage(log[e]) = done[e]

Follows(s, g, stream, done, recs, log) ==
    /\ Streamed(s, g, stream)
    /\ \A p \in Paths : Assembled(p, recs[p], g[p])
    /\ Reported(s, g, stream, done, Len(log))
    /\ Shows(log, done)

InStep(c) == \E g \in Counters : Follows(sent[c], g, wire[c], finished[c], records[c], shown[c])

Blank(c) == sent[c] = NothingSent /\ wire[c] = <<>> /\ finished[c] = <<>> /\ shown[c] = <<>>

FeedInv ==
    /\ SentInv
    /\ \A c \in Clients : InStep(c)
    /\ \A c \in Clients : conn[c] # "open" => Blank(c)

\* At the start of a connection.
LEMMA BlankFollows == Follows(NothingSent, NothingSent, <<>>, <<>>, NoRecords, <<>>)
<1>1. \A p \in Paths : \A i \in DOMAIN Plan[p] : NothingSent[p][i] = 0 /\ Size(p, i) \in Nat \ {0}
  BY PlanFacts DEF NothingSent
<1>2. <<>> \in Seq(Message) /\ <<>> \in Seq(Messages) /\ Len(<<>>) = 0 /\ \A w \in 1 .. 0 : FALSE
  OBVIOUS
<1>3. Streamed(NothingSent, NothingSent, <<>>)
  <2>1. Bounded(NothingSent, NothingSent) /\ InTurn(NothingSent)
    <3>1. \A p \in Paths : \A i \in DOMAIN Plan[p] : \A h \in 1 .. i - 1 : ~ (NothingSent[p][i] > 0)
      BY <1>1
    <3> QED BY <1>1, <3>1 DEF Bounded, InTurn
  <2>2. \A p \in Paths : \A i \in DOMAIN Plan[p] : \A j \in Due(NothingSent, NothingSent, p, i) : FALSE
    BY <1>1 DEF Due
  <2>3. OnlyDue(NothingSent, NothingSent, <<>>) /\ AllDue(NothingSent, NothingSent, <<>>) /\ InOrder(<<>>)
    BY <1>2, <2>2 DEF OnlyDue, AllDue, InOrder
  <2> QED BY <1>2, <2>1, <2>3, NothingCounted DEF Streamed
<1>4. ASSUME NEW p \in Paths
      PROVE  Assembled(p, NoRecords[p], NothingSent[p])
  <2>1. NoRecords[p] = <<>>
    BY DEF NoRecords
  <2>2. \A i \in DOMAIN Plan[p] : ~ Partly(p, NothingSent[p], i)
    BY <1>1 DEF Partly
  <2> QED BY <1>2, <2>1, <2>2 DEF Assembled
<1>5. Reported(NothingSent, NothingSent, <<>>, <<>>, 0)
  BY <1>1, <1>2 DEF Reported, AllEnded, FinalInOrder, LoggedUpTo
<1> QED BY <1>2, <1>3, <1>4, <1>5 DEF Follows, Shows

\* A message of a path with one at a time is begun behind whole ones.
LEMMA BegunInTurn ==
    ASSUME SentInv, NEW c \in Clients, NEW p \in Paths, NEW i \in DOMAIN Plan[p],
           SendFragment(c, p, i), MaxInFlight[p] <= 1, NEW g, Bounded(sent[c], g), InTurn(sent[c])
    PROVE  \A h \in 1 .. i - 1 : sent[c][p][h] = Size(p, h)
<1> SUFFICES ASSUME NEW h \in 1 .. i - 1 PROVE sent[c][p][h] = Size(p, h)
  OBVIOUS
<1>1. h \in DOMAIN Plan[p]
  BY PlanFacts
<1>2. \A x \in DOMAIN Plan[p] : /\ sent[c][p][x] \in Nat /\ Size(p, x) \in Nat
                               /\ sent[c][p][x] <= Size(p, x)
  BY BumpFacts, PlanFacts DEF SentInv, Bounded
<1>3. CASE i \in InFlight(c, p)
  <2>1. sent[c][p][i] > 0
    BY <1>2, <1>3 DEF InFlight
  <2> QED BY <2>1 DEF InTurn
<1>4. CASE MayBegin(c, p, i)
  <2>1. InFlight(c, p) = {}
    <3>1. InFlight(c, p) \in SUBSET (1 .. Len(Plan[p])) /\ Len(Plan[p]) \in Nat
      BY PlanFacts DEF InFlight
    <3>2. IsFiniteSet(InFlight(c, p)) /\ Cardinality(InFlight(c, p)) \in Nat
      BY <3>1, PlacesFinite
    <3>3. Cardinality(InFlight(c, p)) = 0
      <4>1. MaxInFlight[p] \in Nat /\ Cardinality(InFlight(c, p)) < MaxInFlight[p]
        BY <1>4, PlanAssumption DEF MayBegin
      <4> QED BY <3>2, <4>1
    <3> QED BY <3>2, <3>3, FS_EmptySet
  <2>2. sent[c][p][h] > 0 /\ h \notin InFlight(c, p)
    BY <1>4, <2>1 DEF MayBegin
  <2> QED BY <1>1, <1>2, <2>2 DEF InFlight
<1> QED BY <1>3, <1>4 DEF SendFragment

LEMMA StaysInStep ==
    ASSUME NEW c \in Clients, InStep(c),
           sent'[c] = sent[c], wire'[c] = wire[c], finished'[c] = finished[c],
           records'[c] = records[c], shown'[c] = shown[c]
    PROVE  InStep(c)'
BY DEF InStep

LEMMA FeedInvSend ==
    ASSUME FeedInv, NEW c \in Clients, NEW p \in Paths, NEW i \in DOMAIN Plan[p],
           SendFragment(c, p, i)
    PROVE  FeedInv'
<1> DEFINE n    == sent[c][p][i] + 1
           m    == FragmentOf(p, i, n)
           next == IF n = Size(p, i) THEN Append(finished[c], <<p, i>>) ELSE finished[c]
<1>1. /\ SentInv /\ SentInv' /\ UNCHANGED vars /\ conn[c] = "open"
      /\ sent \in [Clients -> Counters] /\ wire \in [Clients -> Seq(Message)]
      /\ finished \in [Clients -> Seq(Messages)]
  BY SentInvNext DEF FeedInv, SentInv, SendFragment, FeedNext
<1>2. /\ n \in 1 .. Size(p, i)
      /\ \A d \in Clients :
            /\ sent'[d] = IF d = c THEN Bump(sent[c], p, i) ELSE sent[d]
            /\ wire'[d] = IF d = c THEN Append(wire[c], m) ELSE wire[d]
            /\ finished'[d] = IF d = c THEN next ELSE finished[d]
  <2>1. /\ n \in 1 .. Size(p, i)
        /\ sent' = [sent EXCEPT ![c] = Bump(sent[c], p, i)]
        /\ wire' = [wire EXCEPT ![c] = Append(wire[c], m)]
        /\ finished' = [finished EXCEPT ![c] = next]
    BY <1>1, SendEffect
  <2> HIDE DEF n, m, next
  <2> QED BY <1>1, <2>1
<1>3. InStep(c)'
  <2>1. PICK g \in Counters : Follows(sent[c], g, wire[c], finished[c], records[c], shown[c])
    BY DEF FeedInv, InStep
  <2>2. Streamed(sent[c], g, wire[c]) /\ Reported(sent[c], g, wire[c], finished[c], Len(shown[c]))
    BY <2>1 DEF Follows
  <2>3. sent[c][p][i] < Size(p, i)
    <3>1. sent[c][p][i] \in Nat /\ Size(p, i) \in Nat
      BY <1>1, BumpFacts, PlanFacts
    <3> QED BY <1>2, <3>1
  <2>4. MaxInFlight[p] <= 1 => \A h \in 1 .. i - 1 : sent[c][p][h] = Size(p, h)
    BY <1>1, <2>2, BegunInTurn DEF Streamed
  <2>5. Streamed(Bump(sent[c], p, i), g, Append(wire[c], m))
    BY <2>2, <2>3, <2>4, StreamedSend
  <2>6. Reported(Bump(sent[c], p, i), g, Append(wire[c], m), next, Len(shown[c]))
    BY <2>2, <2>3, ReportedSend
  <2> HIDE DEF m
  <2>7. Shows(shown[c], next)
    <3>1. finished[c] \in Seq(Messages) /\ <<p, i>> \in Messages
      BY <1>1, IsMessage
    <3>2. \A e \in 1 .. Len(finished[c]) : e \in 1 .. Len(next) /\ next[e] = finished[c][e]
      BY <3>1
    <3> HIDE DEF next
    <3> QED BY <2>1, <3>2 DEF Follows, Shows
  <2>8. Follows(Bump(sent[c], p, i), g, Append(wire[c], m), next, records[c], shown[c])
    BY <2>1, <2>5, <2>6, <2>7 DEF Follows
  <2>9. Follows(sent'[c], g, wire'[c], finished'[c], records'[c], shown'[c])
    <3> HIDE DEF next
    <3> QED BY <1>1, <1>2, <2>8 DEF vars
  <2> QED BY <2>9 DEF InStep
<1>4. \A d \in Clients \ {c} : InStep(d)' /\ (conn'[d] # "open" => Blank(d)')
  <2> SUFFICES ASSUME NEW d \in Clients \ {c} PROVE InStep(d)' /\ (conn'[d] # "open" => Blank(d)')
    OBVIOUS
  <2>1. /\ sent'[d] = sent[d] /\ wire'[d] = wire[d] /\ finished'[d] = finished[d]
        /\ records'[d] = records[d] /\ shown'[d] = shown[d] /\ conn'[d] = conn[d]
    BY <1>1, <1>2 DEF vars
  <2> QED BY <2>1, StaysInStep DEF FeedInv, Blank
<1> QED BY <1>1, <1>3, <1>4 DEF FeedInv, vars

LEMMA FeedInvConnect ==
    ASSUME FeedInv, NEW c \in Clients, FeedConnect(c)
    PROVE  FeedInv'
<1>1. SentInv'
  BY SentInvNext DEF FeedInv, FeedNext
<1>2. /\ conn \in [Clients -> {"idle", "open"}] /\ records \in [Clients -> [Paths -> Seq(Record)]]
      /\ shown \in [Clients -> Seq(Entry)]
  BY DEF FeedInv, SentInv, RunInv, TypeOK
<1>3. /\ conn[c] # "open" /\ records'[c] = NoRecords /\ shown'[c] = <<>> /\ conn'[c] = "open"
      /\ UNCHANGED <<sent, wire, finished>>
      /\ \A d \in Clients \ {c} : conn'[d] = conn[d] /\ records'[d] = records[d] /\ shown'[d] = shown[d]
  BY <1>2 DEF FeedConnect, Connect
<1>4. InStep(c)'
  <2>1. sent'[c] = NothingSent /\ wire'[c] = <<>> /\ finished'[c] = <<>>
    BY <1>3 DEF FeedInv, Blank
  <2>2. Follows(sent'[c], NothingSent, wire'[c], finished'[c], records'[c], shown'[c])
    BY <1>3, <2>1, BlankFollows
  <2> QED BY <2>2, NothingCounted DEF InStep
<1>5. \A d \in Clients \ {c} : InStep(d)' /\ (conn'[d] # "open" => Blank(d)')
  BY <1>3, StaysInStep DEF FeedInv, Blank
<1> QED BY <1>1, <1>3, <1>4, <1>5 DEF FeedInv

LEMMA FeedInvForget ==
    ASSUME FeedInv, NEW c \in Clients, StreamEnd(c) \/ StreamError(c)
    PROVE  FeedInv'
<1>1. SentInv'
  BY SentInvNext DEF FeedInv, FeedNext
<1>2. /\ conn \in [Clients -> {"idle", "open"}] /\ records \in [Clients -> [Paths -> Seq(Record)]]
      /\ shown \in [Clients -> Seq(Entry)]
      /\ sent \in [Clients -> Counters] /\ wire \in [Clients -> Seq(Message)]
      /\ finished \in [Clients -> Seq(Messages)]
  BY DEF FeedInv, SentInv, RunInv, TypeOK
<1>3. /\ records'[c] = NoRecords /\ Blank(c)'
      /\ \A d \in Clients \ {c} :
            /\ conn'[d] = conn[d] /\ records'[d] = records[d] /\ shown'[d] = shown[d]
            /\ sent'[d] = sent[d] /\ wire'[d] = wire[d] /\ finished'[d] = finished[d]
  BY <1>2 DEF StreamEnd, StreamError, Disconnect, Forget, Blank
<1>4. InStep(c)'
  <2>1. Follows(sent'[c], NothingSent, wire'[c], finished'[c], records'[c], shown'[c])
    BY <1>3, BlankFollows DEF Blank
  <2> QED BY <2>1, NothingCounted DEF InStep
<1>5. \A d \in Clients \ {c} : InStep(d)' /\ (conn'[d] # "open" => Blank(d)')
  BY <1>3, StaysInStep DEF FeedInv, Blank
<1> QED BY <1>1, <1>3, <1>4, <1>5 DEF FeedInv

\* What the log shows after a turn of the handler's loop: one message more, the
\* next of those that the device has finished, or nothing more.
LEMMA Taken ==
    ASSUME Distinguishable, Parsing, FeedInv, NEW c \in Clients, FeedReceive(c)
    PROVE  /\ InStep(c)'
           /\ \A d \in Clients \ {c} : records'[d] = records[d] /\ shown'[d] = shown[d]
           /\ conn[c] = "open" /\ UNCHANGED <<conn, sent, finished>>
           /\ \A d \in Clients : wire'[d] = IF d = c THEN Tail(wire[c]) ELSE wire[d]
           /\ \/ shown'[c] = shown[c]
              \/ /\ Len(shown[c]) < Len(finished[c])
                 /\ \E e : /\ shown'[c] = Append(shown[c], e)
                          /\ EntryMessage(e) = finished[c][Len(shown[c]) + 1]
<1>1. /\ RunInv /\ sent \in [Clients -> Counters] /\ wire \in [Clients -> Seq(Message)]
      /\ shown[c] \in Seq(Entry) /\ InStep(c)
  BY DEF FeedInv, SentInv, RunInv, TypeOK
<1>2. /\ wire[c] # <<>> /\ Receive(c, Head(wire[c])) /\ UNCHANGED <<sent, finished>>
      /\ \A d \in Clients : wire'[d] = IF d = c THEN Tail(wire[c]) ELSE wire[d]
  BY SMTT(30), <1>1 DEF FeedReceive
<1>3. conn[c] = "open" /\ UNCHANGED conn
  BY ZenonT(60), <1>2 DEF Receive, CountOnly, ShowOriginal, PassThrough, StartRecord, JoinRecord, Parse, Arrive
<1>4. PICK g \in Counters : Follows(sent[c], g, wire[c], finished[c], records[c], shown[c])
  BY <1>1 DEF InStep
<1>5. /\ Streamed(sent[c], g, wire[c]) /\ Reported(sent[c], g, wire[c], finished[c], Len(shown[c]))
      /\ \A q \in Paths : Assembled(q, records[c][q], g[q])
      /\ Shows(shown[c], finished[c])
  BY <1>4 DEF Follows
<1>6. PICK p \in Paths : \E i \in DOMAIN Plan[p] :
        /\ IsFragment(Head(wire[c]), p, i, g[p][i] + 1)
        /\ g[p][i] < sent[c][p][i]
        /\ MaxInFlight[p] <= 1 => /\ \A h \in 1 .. i - 1 : g[p][h] = Size(p, h)
                                  /\ \A h \in DOMAIN Plan[p] : h > i => g[p][h] = 0
        /\ Streamed(sent[c], Bump(g, p, i), Tail(wire[c]))
  BY <1>2, <1>5, StreamedTake
<1>7. PICK i \in DOMAIN Plan[p] :
        /\ IsFragment(Head(wire[c]), p, i, g[p][i] + 1)
        /\ g[p][i] < sent[c][p][i]
        /\ MaxInFlight[p] <= 1 => /\ \A h \in 1 .. i - 1 : g[p][h] = Size(p, h)
                                  /\ \A h \in DOMAIN Plan[p] : h > i => g[p][h] = 0
        /\ Streamed(sent[c], Bump(g, p, i), Tail(wire[c]))
  BY <1>6
<1> DEFINE t == Bump(g, p, i)
<1>8. /\ g[p] \in [DOMAIN Plan[p] -> Nat] /\ t \in Counters
      /\ t[p] = [g[p] EXCEPT ![i] = @ + 1]
      /\ \A q \in Paths \ {p} : t[q] = g[q]
  <2>1. t \in Counters /\ \A q \in Paths \ {p} : t[q] = g[q]
    BY BumpFacts
  <2>2. g[p] \in [DOMAIN Plan[p] -> Nat] /\ t[p] = [g[p] EXCEPT ![i] = g[p][i] + 1]
    BY BumpRow
  <2> QED BY <2>1, <2>2
<1>9. g[p][i] < Size(p, i)
  <2>1. g[p][i] \in Nat /\ sent[c][p][i] \in Nat /\ Size(p, i) \in Nat
    BY <1>1, BumpFacts, PlanFacts
  <2>2. sent[c][p][i] <= Size(p, i)
    BY <1>5 DEF Streamed, Bounded
  <2> QED BY <1>7, <2>1, <2>2
<1>10. Turn(p, g[p], i)
  BY <1>7 DEF Turn
<1>11. Collected(c, p, g[p], i)
  BY <1>1, <1>2, <1>5, <1>7, <1>8, <1>9, <1>10, Collect
<1>12. /\ g[p][i] + 1 # Size(p, i) =>
            Reported(sent[c], t, Tail(wire[c]), finished[c], Len(shown[c]))
       /\ g[p][i] + 1 = Size(p, i) =>
            /\ Len(shown[c]) < Len(finished[c]) /\ finished[c][Len(shown[c]) + 1] = <<p, i>>
            /\ Reported(sent[c], t, Tail(wire[c]), finished[c], Len(shown[c]) + 1)
  BY <1>2, <1>5, <1>7, ReportedTake
<1> HIDE DEF t
<1>13. \A q \in Paths : Assembled(q, records'[c][q], t[q])
  <2> SUFFICES ASSUME NEW q \in Paths PROVE Assembled(q, records'[c][q], t[q])
    OBVIOUS
  <2>1. CASE q = p
    BY <1>8, <1>11, <2>1 DEF Collected
  <2>2. CASE q # p
    <3>1. records'[c][q] = records[c][q] /\ t[q] = g[q]
      BY <1>8, <1>11, <2>2 DEF Collected
    <3> QED BY <1>5, <3>1
  <2> QED BY <2>1, <2>2
<1>14. Streamed(sent[c], t, Tail(wire[c]))
  BY <1>7 DEF t
<1>15. CASE g[p][i] + 1 # Size(p, i)
  <2>1. shown'[c] = shown[c]
    BY <1>11, <1>15 DEF Collected
  <2>2. Follows(sent'[c], t, wire'[c], finished'[c], records'[c], shown'[c])
    BY <1>2, <1>5, <1>12, <1>13, <1>14, <1>15, <2>1 DEF Follows
  <2>3. InStep(c)'
    BY <1>8, <2>2 DEF InStep
  <2> QED BY <1>2, <1>3, <1>11, <2>1, <2>3 DEF Collected
<1>16. CASE g[p][i] + 1 = Size(p, i)
  <2>1. PICK e : shown'[c] = Append(shown[c], e) /\ EntryMessage(e) = <<p, i>>
    BY <1>11, <1>16 DEF Collected
  <2>2. Len(shown[c]) < Len(finished[c]) /\ finished[c][Len(shown[c]) + 1] = <<p, i>>
    BY <1>12, <1>16
  <2>3. /\ Len(shown'[c]) = Len(shown[c]) + 1 /\ Len(shown[c]) \in Nat
        /\ shown'[c][Len(shown[c]) + 1] = e
        /\ \A x \in 1 .. Len(shown[c]) : shown'[c][x] = shown[c][x]
    BY <1>1, <2>1, AppendProperties
  <2>4. Len(finished[c]) \in Nat
    BY <1>5 DEF Reported
  <2>5. Shows(shown'[c], finished[c])
    <3> SUFFICES ASSUME NEW x \in 1 .. Len(shown[c]) + 1
                 PROVE  x \in 1 .. Len(finished[c]) /\ EntryMessage(shown'[c][x]) = finished[c][x]
      BY <2>3 DEF Shows
    <3>1. CASE x \in 1 .. Len(shown[c])
      BY <1>5, <2>3, <3>1 DEF Shows
    <3>2. CASE x = Len(shown[c]) + 1
      BY SMTT(30), <2>1, <2>2, <2>3, <2>4, <3>2
    <3> QED BY <2>3, <3>1, <3>2
  <2>6. Follows(sent'[c], t, wire'[c], finished'[c], records'[c], shown'[c])
    BY <1>2, <1>12, <1>13, <1>14, <1>16, <2>3, <2>5 DEF Follows
  <2>7. InStep(c)'
    BY <1>8, <2>6 DEF InStep
  <2>8. \E x : shown'[c] = Append(shown[c], x) /\ EntryMessage(x) = finished[c][Len(shown[c]) + 1]
    BY <2>1, <2>2
  <2> QED BY <1>2, <1>3, <1>11, <2>2, <2>7, <2>8 DEF Collected
<1> QED BY <1>15, <1>16

LEMMA FeedInvReceive ==
    ASSUME Distinguishable, Parsing, FeedInv, NEW c \in Clients, FeedReceive(c)
    PROVE  FeedInv'
<1>1. SentInv'
  BY SentInvNext DEF FeedInv, FeedNext
<1>2. /\ InStep(c)' /\ conn' = conn /\ conn[c] = "open" /\ sent' = sent /\ finished' = finished
      /\ \A d \in Clients \ {c} :
            records'[d] = records[d] /\ shown'[d] = shown[d] /\ wire'[d] = wire[d]
  BY Taken
<1>3. \A d \in Clients \ {c} : InStep(d)' /\ (conn'[d] # "open" => Blank(d)')
  BY <1>2, StaysInStep DEF FeedInv, Blank
<1> QED BY <1>1, <1>2, <1>3 DEF FeedInv

LEMMA FeedInvStart == FeedInit => FeedInv
<1> SUFFICES ASSUME FeedInit PROVE FeedInv
  OBVIOUS
<1>1. \A c \in Clients : Blank(c) /\ records[c] = NoRecords
  BY DEF FeedInit, Init, Blank
<1>2. \A c \in Clients : InStep(c)
  BY <1>1, BlankFollows, NothingCounted DEF InStep, Blank
<1> QED BY <1>1, <1>2, SentInvStart DEF FeedInv

LEMMA FeedInvNext ==
    ASSUME Distinguishable, Parsing, FeedInv, [FeedNext]_feedVars
    PROVE  FeedInv'
<1>1. CASE UNCHANGED feedVars
  <2>1. SentInv'
    BY <1>1, SentInvNext DEF FeedInv
  <2>2. \A c \in Clients : InStep(c)'
    BY <1>1, StaysInStep DEF FeedInv, feedVars
  <2> QED BY <1>1, <2>1, <2>2 DEF FeedInv, Blank, feedVars
<1> QED BY <1>1, FeedInvSend, FeedInvConnect, FeedInvForget, FeedInvReceive DEF FeedNext

\* Each record is that of a message that the device or the stream still owes a
\* fragment of, and no two are of the same message.
LEMMA NothingOver == FeedInv => NoResidue
<1> SUFFICES ASSUME FeedInv, NEW c \in Clients, NEW p \in Paths
             PROVE  Len(records[c][p]) <= Cardinality(Owed(c, p))
  BY DEF NoResidue
<1> DEFINE list == records[c][p]
           At == [k \in 1 .. Len(list) |-> MessageOf(list[k])]
<1>1. list \in Seq(Record) /\ Len(list) \in Nat /\ sent[c] \in Counters
  BY DEF FeedInv, SentInv, RunInv, TypeOK
<1>2. PICK g \in Counters : Follows(sent[c], g, wire[c], finished[c], records[c], shown[c])
  BY DEF FeedInv, InStep
<1>3. Assembled(p, list, g[p]) /\ Streamed(sent[c], g, wire[c])
  BY <1>2 DEF Follows
<1> HIDE DEF list
<1>4. \A i \in DOMAIN Plan[p] : /\ g[p][i] \in Nat /\ sent[c][p][i] \in Nat /\ Size(p, i) \in Nat
                               /\ g[p][i] <= sent[c][p][i] /\ sent[c][p][i] <= Size(p, i)
  BY <1>1, <1>3, BumpFacts, PlanFacts DEF Streamed, Bounded
<1>5. ASSUME NEW i, Partly(p, g[p], i)
      PROVE  i \in Owed(c, p)
  <2>1. i \in DOMAIN Plan[p] /\ g[p][i] \in 1 .. Size(p, i) - 1
    BY <1>5 DEF Partly
  <2>2. CASE sent[c][p][i] < Size(p, i)
    BY <1>4, <2>1, <2>2 DEF Owed, InFlight
  <2>3. CASE sent[c][p][i] = Size(p, i)
    <3>1. Size(p, i) \in Due(sent[c], g, p, i)
      BY <1>4, <2>1, <2>3 DEF Due
    <3>2. PICK w \in 1 .. Len(wire[c]) : IsFragment(wire[c][w], p, i, Size(p, i))
      BY <1>3, <2>1, <3>1 DEF Streamed, AllDue
    <3>3. wire[c][w].body = <<p, i, Size(p, i)>>
      BY <3>2, FragmentFacts
    <3>4. w \in DOMAIN wire[c]
      BY <1>3 DEF Streamed
    <3> QED BY <2>1, <3>3, <3>4 DEF Owed
  <2> QED BY <1>4, <2>1, <2>2, <2>3
<1>6. \A k \in 1 .. Len(list) : MessageOf(list[k]) \in Owed(c, p)
  BY <1>3, <1>5 DEF Assembled
<1>7. \A k, l \in 1 .. Len(list) : MessageOf(list[k]) = MessageOf(list[l]) => k = l
  BY <1>3 DEF Assembled
<1>8. At \in Injection(1 .. Len(list), Owed(c, p))
  <2>1. At \in [1 .. Len(list) -> Owed(c, p)]
    BY <1>6
  <2>2. \A k, l \in 1 .. Len(list) : At[k] = At[l] => k = l
    BY <1>7
  <2>3. DOMAIN At = 1 .. Len(list)
    OBVIOUS
  <2> HIDE DEF At
  <2> QED BY <2>1, <2>2, <2>3 DEF Injection, IsInjective
<1>9. IsFiniteSet(Owed(c, p))
  <2>1. Owed(c, p) \in SUBSET (1 .. Len(Plan[p])) /\ Len(Plan[p]) \in Nat
    BY PlanFacts DEF Owed
  <2> QED BY <2>1, PlacesFinite
<1>10. IsFiniteSet(1 .. Len(list)) /\ Cardinality(1 .. Len(list)) = Len(list)
  BY SMTT(30), <1>1, FS_Interval
<1> HIDE DEF At
<1>11. Cardinality(1 .. Len(list)) <= Cardinality(Owed(c, p))
  BY <1>8, <1>9, <1>10, FS_Injection
<1> QED BY <1>10, <1>11 DEF list

\* For any plan whose messages can be told apart, with the service in the mode
\* that parses: nothing is left behind.
THEOREM NoneLeftBehind ==
    ASSUME Distinguishable, Parsing
    PROVE  FeedSpec => []NoResidue
<1>1. FeedInv /\ [FeedNext]_feedVars => FeedInv'
  BY FeedInvNext
<1> QED BY <1>1, FeedInvStart, NothingOver, PTL DEF FeedSpec

-----------------------------------------------------------------------------
LEMMA LongerByOne ==
    ASSUME NEW S, NEW s \in Seq(S), NEW t \in Seq(S), NEW x \in S, Len(t) = Len(s) + 1,
           t[Len(s) + 1] = x, \A k \in 1 .. Len(s) : t[k] = s[k]
    PROVE  t = Append(s, x)
<1>1. /\ Append(s, x) \in Seq(S) /\ Len(Append(s, x)) = Len(t) /\ Len(s) \in Nat
      /\ \A k \in 1 .. Len(s) : Append(s, x)[k] = t[k]
      /\ Append(s, x)[Len(s) + 1] = t[Len(s) + 1]
  BY AppendProperties
<1>2. \A k \in 1 .. Len(t) : k \in 1 .. Len(s) \/ k = Len(s) + 1
  BY <1>1
<1> QED BY <1>1, <1>2, SeqEqual

\* The abstract feed takes a step for each step of this one.
LEMMA MappedStart == FeedInit => Feed!Init
<1> SUFFICES ASSUME FeedInit PROVE Feed!Init
  OBVIOUS
<1>1. \A c \in Clients : conn[c] = "idle" /\ shown[c] = <<>> /\ finished = [d \in Clients |-> <<>>]
  BY DEF FeedInit, Init
<1>2. [e \in DOMAIN <<>> |-> EntryMessage(<<>>[e])] = <<>>
  OBVIOUS
<1>3. [c \in Clients |-> conn[c] = "open"] = [c \in Clients |-> FALSE]
  BY <1>1
<1>4. [c \in Clients |-> [e \in DOMAIN shown[c] |-> EntryMessage(shown[c][e])]]
        = [c \in Clients |-> <<>>]
  BY <1>1, <1>2
<1>5. finished = [c \in Clients |-> <<>>]
  BY DEF FeedInit
<1> QED BY <1>3, <1>4, <1>5 DEF Feed!Init

LEMMA MappedConnect ==
    ASSUME FeedInv, NEW c \in Clients, FeedConnect(c)
    PROVE  Feed!Next
<1>1. /\ UNCHANGED finished /\ conn[c] # "open"
      /\ conn' = [conn EXCEPT ![c] = "open"] /\ shown' = [shown EXCEPT ![c] = <<>>]
      /\ conn \in [Clients -> {"idle", "open"}] /\ shown \in [Clients -> Seq(Entry)]
  BY DEF FeedConnect, Connect, FeedInv, SentInv, RunInv, TypeOK
<1>2. shown' = shown
  <2>1. shown[c] = <<>>
    BY <1>1 DEF FeedInv, Blank
  <2> QED BY <1>1, <2>1
<1>3. Feed!Begin(c)
  BY <1>1, <1>2 DEF Feed!Begin
<1> QED BY <1>3 DEF Feed!Next

LEMMA MappedForget ==
    ASSUME FeedInv, NEW c \in Clients, StreamEnd(c) \/ StreamError(c)
    PROVE  Feed!Next
<1>1. /\ conn[c] = "open" /\ finished' = [finished EXCEPT ![c] = <<>>]
      /\ conn' = [conn EXCEPT ![c] = "idle"] /\ shown' = [shown EXCEPT ![c] = <<>>]
      /\ conn \in [Clients -> {"idle", "open"}] /\ shown \in [Clients -> Seq(Entry)]
  BY DEF StreamEnd, StreamError, Disconnect, Forget, FeedInv, SentInv, RunInv, TypeOK
<1>2. [e \in DOMAIN <<>> |-> EntryMessage(<<>>[e])] = <<>>
  OBVIOUS
<1>3. [d \in Clients |-> conn'[d] = "open"]
        = [[d \in Clients |-> conn[d] = "open"] EXCEPT ![c] = FALSE]
  BY <1>1
<1>4. [d \in Clients |-> [e \in DOMAIN shown'[d] |-> EntryMessage(shown'[d][e])]]
        = [[d \in Clients |-> [e \in DOMAIN shown[d] |-> EntryMessage(shown[d][e])]]
             EXCEPT ![c] = <<>>]
  <2>1. \A d \in Clients : shown'[d] = IF d = c THEN <<>> ELSE shown[d]
    BY <1>1
  <2> QED BY <1>2, <2>1
<1>5. [d \in Clients |-> conn[d] = "open"][c]
  BY <1>1
<1>6. Feed!End(c)
  BY <1>1, <1>3, <1>4, <1>5 DEF Feed!End
<1> QED BY <1>6 DEF Feed!Next

LEMMA MappedSend ==
    ASSUME FeedInv, NEW c \in Clients, NEW p \in Paths, NEW i \in DOMAIN Plan[p],
           SendFragment(c, p, i)
    PROVE  [Feed!Next]_(Feed!vars)
<1>1. UNCHANGED <<conn, shown>> /\ conn[c] = "open"
  BY DEF SendFragment, vars
<1>2. CASE finished' = finished
  BY <1>1, <1>2 DEF Feed!vars
<1>3. CASE finished' = [finished EXCEPT ![c] = Append(@, <<p, i>>)]
  <2>1. [d \in Clients |-> conn[d] = "open"][c]
    BY <1>1
  <2>2. Feed!Finish(c, <<p, i>>)
    BY <1>1, <1>3, <2>1 DEF Feed!Finish
  <2> QED BY <2>2, IsMessage DEF Feed!Next
<1> QED BY <1>2, <1>3 DEF SendFragment

LEMMA MappedReceive ==
    ASSUME Distinguishable, Parsing, FeedInv, NEW c \in Clients, FeedReceive(c)
    PROVE  [Feed!Next]_(Feed!vars)
<1> DEFINE old == [d \in Clients |-> [e \in DOMAIN shown[d] |-> EntryMessage(shown[d][e])]]
           new == [d \in Clients |-> [e \in DOMAIN shown'[d] |-> EntryMessage(shown'[d][e])]]
           n   == Len(shown[c])
<1>1. /\ conn' = conn /\ conn[c] = "open" /\ finished' = finished
      /\ shown[c] \in Seq(Entry) /\ \A d \in Clients \ {c} : shown'[d] = shown[d]
  BY Taken DEF FeedInv, SentInv, RunInv, TypeOK
<1>2. CASE shown'[c] = shown[c]
  <2>1. \A d \in Clients : shown'[d] = shown[d]
    BY <1>1, <1>2
  <2> QED BY <1>1, <2>1 DEF Feed!vars
<1>3. ASSUME n < Len(finished[c]),
             NEW e, shown'[c] = Append(shown[c], e), EntryMessage(e) = finished[c][n + 1]
      PROVE  Feed!Next
  <2>1. /\ n \in Nat /\ DOMAIN shown[c] = 1 .. n
        /\ DOMAIN shown'[c] = 1 .. n + 1 /\ shown'[c][n + 1] = e
        /\ \A x \in 1 .. n : shown'[c][x] = shown[c][x]
    BY <1>1, <1>3
  <2>2. old[c] = [x \in 1 .. n |-> EntryMessage(shown[c][x])]
    BY <2>1
  <2>3. new[c] = [x \in 1 .. n + 1 |-> EntryMessage(shown'[c][x])]
    BY <2>1
  <2>4. Len(old[c]) = n /\ new[c] = Append(old[c], finished[c][n + 1])
    <3> DEFINE S == {EntryMessage(shown[c][x]) : x \in 1 .. n} \cup {finished[c][n + 1]}
    <3>1. old[c] \in [1 .. n -> S] /\ new[c] \in [1 .. n + 1 -> S]
      <4>1. \A x \in 1 .. n + 1 : EntryMessage(shown'[c][x]) \in S
        BY <1>3, <2>1
      <4> QED BY <2>1, <2>2, <2>3, <4>1
    <3>2. \A x \in 1 .. n : new[c][x] = old[c][x]
      BY <2>1, <2>2, <2>3
    <3>3. new[c][n + 1] = finished[c][n + 1] /\ finished[c][n + 1] \in S
      BY <1>3, <2>1, <2>3
    <3> HIDE DEF old, new, S, n
    <3>4. old[c] \in Seq(S) /\ Len(old[c]) = n /\ new[c] \in Seq(S) /\ Len(new[c]) = n + 1
      BY <2>1, <3>1
    <3>5. new[c] = Append(old[c], finished[c][n + 1])
      BY <2>1, <3>2, <3>3, <3>4, LongerByOne
    <3> QED BY <3>4, <3>5
  <2>5. \A d \in Clients \ {c} : new[d] = old[d]
    BY <1>1
  <2>6. new = [old EXCEPT ![c] = Append(@, finished[c][Len(@) + 1])]
    <3>1. DOMAIN new = Clients /\ DOMAIN old = Clients
      OBVIOUS
    <3>2. new = [d \in Clients |-> new[d]] /\ old = [d \in Clients |-> old[d]]
      OBVIOUS
    <3> HIDE DEF new, old, n
    <3> QED BY <2>4, <2>5, <3>1, <3>2
  <2>7. [d \in Clients |-> conn[d] = "open"][c]
    BY <1>1
  <2>8. Len(old[c]) < Len(finished[c])
    BY <1>3, <2>4
  <2>9. Feed!Deliver(c)
    BY <1>1, <2>6, <2>7, <2>8 DEF Feed!Deliver
  <2> QED BY <2>9 DEF Feed!Next
<1> HIDE DEF n
<1> QED BY <1>2, <1>3, Taken DEF n

\* For any plan whose messages can be told apart and any number of clients, with
\* the service in the mode that parses: what is shown are the messages that the
\* devices have finished, whole, once and in the order in which they were.
THEOREM ShownAsFinished ==
    ASSUME Distinguishable, Parsing
    PROVE  FeedSpec => ImplementsMessageFeed
<1>1. FeedInv /\ [FeedNext]_feedVars => [Feed!Next]_(Feed!vars)
  <2> SUFFICES ASSUME FeedInv, [FeedNext]_feedVars PROVE [Feed!Next]_(Feed!vars)
    OBVIOUS
  <2>1. CASE UNCHANGED feedVars
    BY <2>1 DEF feedVars, Feed!vars
  <2> QED BY <2>1, MappedConnect, MappedForget, MappedSend, MappedReceive DEF FeedNext
<1>2. FeedInv /\ [FeedNext]_feedVars => FeedInv'
  BY FeedInvNext
<1> QED BY <1>1, <1>2, MappedStart, FeedInvStart, PTL
        DEF FeedSpec, ImplementsMessageFeed, Feed!Steps
=============================================================================
