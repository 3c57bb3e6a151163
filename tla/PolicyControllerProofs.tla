------------------------ MODULE PolicyControllerProofs ------------------------
(***************************************************************************)
(* Proofs about PolicyController, for any number of hubs and clusters, any *)
(* width of the counters and any bound on writes, faults, broken watches,  *)
(* resyncs and restarts.                                                   *)
(***************************************************************************)
EXTENDS PolicyController, SequenceTheorems, FiniteSetTheorems,
        WellFoundedInduction, TLAPS

\* The last element of a sequence after an append.
LEMMA AppendLast ==
    ASSUME NEW S, NEW s \in Seq(S), NEW e \in S
    PROVE  /\ Append(s, e) # <<>>
           /\ Append(s, e)[Len(Append(s, e))] = e
BY AppendProperties

\* The last element of a sequence stays when its head is taken.
LEMMA TailLast ==
    ASSUME NEW S, NEW s \in Seq(S), s # <<>>
    PROVE  /\ Tail(s) = <<>> => Head(s) = s[Len(s)]
           /\ Tail(s) # <<>> => Tail(s)[Len(Tail(s))] = s[Len(s)]
<1> DEFINE t == Tail(s)
<1>1. /\ t \in Seq(S)
      /\ Len(t) = Len(s) - 1
      /\ \A i \in 1..Len(t) : t[i] = s[i + 1]
  BY HeadTailProperties
<1>2. Len(s) \in Nat /\ Len(s) # 0
  BY EmptySeq, LenProperties
<1> HIDE DEF t
<1>3. ASSUME t = <<>>
      PROVE  Head(s) = s[Len(s)]
  <2>1. Len(s) = 1
    BY <1>1, <1>2, <1>3
  <2> QED BY <2>1
<1>4. ASSUME t # <<>>
      PROVE  t[Len(t)] = s[Len(s)]
  <2>1. Len(t) \in 1..Len(t)
    BY <1>1, <1>2, <1>4, EmptySeq
  <2> QED BY <1>1, <1>2, <2>1
<1> QED BY <1>3, <1>4 DEF t

\* What the operations of the queue do to its three sets.
LEMMA QueueOperations ==
    ASSUME NEW q \in Queues(Namespaces), NEW k \in Namespaces
    PROVE  /\ Add(q, k) \in Queues(Namespaces)
           /\ Add(q, k).dirty = q.dirty \cup {k}
           /\ Add(q, k).processing = q.processing
           /\ Add(q, k).delayed = q.delayed
           /\ Get(q, k) \in Queues(Namespaces)
           /\ Get(q, k).dirty = q.dirty \ {k}
           /\ Get(q, k).processing = q.processing \cup {k}
           /\ Get(q, k).delayed = q.delayed
           /\ Done(q, k) \in Queues(Namespaces)
           /\ Done(q, k).dirty = q.dirty
           /\ Done(q, k).processing = q.processing \ {k}
           /\ Done(q, k).delayed = q.delayed
           /\ AddRateLimited(q, k) \in Queues(Namespaces)
           /\ AddRateLimited(q, k).dirty = q.dirty
           /\ AddRateLimited(q, k).processing = q.processing
           /\ AddRateLimited(q, k).delayed = q.delayed \cup {k}
           /\ BackoffOver(q, k) \in Queues(Namespaces)
           /\ BackoffOver(q, k).dirty = q.dirty \cup {k}
           /\ BackoffOver(q, k).processing = q.processing
           /\ BackoffOver(q, k).delayed = q.delayed \ {k}
BY DEF Queues, Queue, Add, Get, Done, AddRateLimited, BackoffOver

\* The empty queue is a queue with nothing in it.
LEMMA EmptyQueueType ==
    /\ EmptyQueue \in Queues(Namespaces)
    /\ EmptyQueue.dirty = {}
    /\ EmptyQueue.processing = {}
    /\ EmptyQueue.delayed = {}
BY DEF Queues, Queue, EmptyQueue

-------------------------------------------------------------------------------
(* Sums.  What MapThenSumSet computes is a matter of induction on the set  *)
(* that is summed up, done here with a smallest counterexample: a set of   *)
(* numbers that is not empty has a smallest element.                       *)

\* A set of numbers has a smallest one.
LEMMA SmallestOf ==
    ASSUME NEW T, T \subseteq Nat, T # {}
    PROVE  \E n \in T : \A m \in T : n <= m
<1>1. PICK n \in T : \A m \in T : ~(<<m, n>> \in OpToRel(<, Nat))
  BY NatLessThanWellFounded, WFMin
<1>2. \A m \in T : ~(m < n)
  BY <1>1 DEF OpToRel
<1> QED BY <1>2

\* Counting modulo W may be put off to the end.
LEMMA ModAdd ==
    ASSUME NEW W \in Int, W > 0, NEW a \in Int, NEW d \in Int
    PROVE  ((a % W) + d) % W = (a + d) % W
BY SMT

\* it is how MapThenSumSet adds the numbers g[x] of the elements of the subsets of S.
Adds(it, g, S) ==
    it = [s \in SUBSET S |->
             IF s = {} THEN 0
             ELSE g[CHOOSE x \in s : TRUE] + it[s \ {CHOOSE x \in s : TRUE}]]

\* A set without one of its elements.
LEMMA OneLess ==
    ASSUME NEW S, IsFiniteSet(S), NEW s \in SUBSET S, s # {}
    PROVE  /\ (CHOOSE x \in s : TRUE) \in s
           /\ \A x \in s : /\ s \ {x} \in SUBSET S
                           /\ Cardinality(s) \in Nat
                           /\ Cardinality(s \ {x}) \in Nat
                           /\ Cardinality(s \ {x}) = Cardinality(s) - 1
<1>1. IsFiniteSet(s)
  BY FS_Subset
<1>2. ASSUME NEW x \in s
      PROVE  /\ Cardinality(s \ {x}) \in Nat
             /\ Cardinality(s) \in Nat
             /\ Cardinality(s \ {x}) = Cardinality(s) - 1
  <2>1. IsFiniteSet(s \ {x})
    BY <1>1, FS_RemoveElement
  <2>2. Cardinality(s) \in Nat /\ Cardinality(s \ {x}) \in Nat
    BY <1>1, <2>1, FS_CardinalityType
  <2>3. Cardinality(s \ {x}) = Cardinality(s) - 1
    BY <1>1, FS_RemoveElement
  <2> QED BY <2>2, <2>3
<1> QED BY <1>2

\* There is such a function for every finite set.
LEMMA AddsExists ==
    ASSUME NEW S, IsFiniteSet(S), NEW g
    PROVE  \E it : Adds(it, g, S)
<1> DEFINE pick(s) == CHOOSE x \in s : TRUE
           next(it) == [s \in SUBSET S |-> IF s = {} THEN 0 ELSE g[pick(s)] + it[s \ {pick(s)}]]
           upTo(n) == \E it : /\ it = [s \in SUBSET S |-> it[s]]
                              /\ \A s \in SUBSET S :
                                    Cardinality(s) <= n => it[s] = next(it)[s]
           T == {n \in Nat : ~upTo(n)}
<1>1. T = {}
  <2> SUFFICES ASSUME T # {} PROVE FALSE
    OBVIOUS
  <2>1. PICK n \in T : \A m \in T : n <= m
    BY SmallestOf
  <2>2. CASE n = 0
    <3> DEFINE z == [s \in SUBSET S |-> 0]
    <3>1. ASSUME NEW s \in SUBSET S, Cardinality(s) <= 0 PROVE z[s] = next(z)[s]
      <4>1. s = {}
        <5>1. IsFiniteSet(s)
          BY FS_Subset
        <5>2. Cardinality(s) \in Nat
          BY <5>1, FS_CardinalityType
        <5>3. Cardinality(s) = 0
          BY <3>1, <5>2
        <5> QED BY <5>1, <5>3, FS_EmptySet
      <4> QED BY <4>1
    <3>2. z = [s \in SUBSET S |-> z[s]]
      OBVIOUS
    <3> HIDE DEF z
    <3>3. upTo(0)
      BY <3>1, <3>2
    <3> QED BY <2>1, <2>2, <3>3
  <2>3. CASE n # 0
    <3>1. n - 1 \in Nat /\ n \in Nat
      BY <2>1, <2>3
    <3>2. upTo(n - 1)
      <4>1. ~(n - 1 \in T)
        <5> HIDE DEF T
        <5> SUFFICES ASSUME n - 1 \in T PROVE FALSE
          OBVIOUS
        <5>1. n <= n - 1
          BY <2>1
        <5> QED BY <3>1, <5>1
      <4> HIDE DEF upTo
      <4> QED BY <3>1, <4>1
    <3>3. PICK it : \A s \in SUBSET S : Cardinality(s) <= n - 1 => it[s] = next(it)[s]
      BY <3>2
    <3> DEFINE jt == next(it)
    <3>4. ASSUME NEW s \in SUBSET S, Cardinality(s) <= n PROVE jt[s] = next(jt)[s]
      <4>1. CASE s = {}
        BY <4>1
      <4>2. CASE s # {}
        <5> DEFINE x == pick(s)
                   r == s \ {x}
        <5>1. r \in SUBSET S /\ Cardinality(r) <= n - 1
          <6>1. x \in s
            BY <4>2, OneLess
          <6> HIDE DEF x
          <6> QED BY <3>1, <3>4, <4>2, <6>1, OneLess
        <5>2. it[r] = jt[r]
          BY <3>3, <5>1
        <5>3. jt[s] = g[x] + it[r] /\ next(jt)[s] = g[x] + jt[r]
          BY <4>2
        <5> HIDE DEF jt, x, r
        <5> QED BY <5>2, <5>3
      <4> QED BY <4>1, <4>2
    <3>5. jt = [s \in SUBSET S |-> jt[s]]
      OBVIOUS
    <3> HIDE DEF jt
    <3>6. upTo(n)
      BY <3>4, <3>5
    <3> QED BY <2>1, <3>6
  <2> QED BY <2>2, <2>3
<1>2. upTo(Cardinality(S))
  BY <1>1, FS_CardinalityType
<1>3. PICK it : /\ it = [s \in SUBSET S |-> it[s]]
                /\ \A s \in SUBSET S : Cardinality(s) <= Cardinality(S) => it[s] = next(it)[s]
  BY <1>2
<1>4. \A s \in SUBSET S : it[s] = next(it)[s]
  <2>1. \A s \in SUBSET S : Cardinality(s) <= Cardinality(S)
    BY FS_Subset
  <2> QED BY <1>3, <2>1
<1>5. it = next(it)
  BY <1>3, <1>4
<1> QED BY <1>5 DEF Adds

\* The sum does not depend on the order in which the elements are added.
LEMMA AddsAnyOrder ==
    ASSUME NEW S, IsFiniteSet(S), NEW g, \A x \in S : g[x] \in Int,
           NEW it, Adds(it, g, S)
    PROVE  \A s \in SUBSET S : /\ it[s] \in Int
                               /\ \A y \in s : it[s] = g[y] + it[s \ {y}]
<1> DEFINE P(s) == it[s] \in Int /\ \A y \in s : it[s] = g[y] + it[s \ {y}]
           T == {Cardinality(s) : s \in {r \in SUBSET S : ~P(r)}}
<1> SUFFICES ASSUME T # {} PROVE FALSE
  OBVIOUS
<1>1. T \subseteq Nat
  BY FS_Subset, FS_CardinalityType
<1>2. PICK n \in T : \A m \in T : n <= m
  BY <1>1, SmallestOf
<1>3. PICK s \in SUBSET S : ~P(s) /\ Cardinality(s) = n
  BY <1>2
<1>4. \A r \in SUBSET S : ~P(r) => ~(Cardinality(r) < Cardinality(s))
  <2>1. \A r \in SUBSET S : ~P(r) => Cardinality(r) \in T
    OBVIOUS
  <2> HIDE DEF T, P
  <2>2. ASSUME NEW r \in SUBSET S, ~P(r) PROVE ~(Cardinality(r) < Cardinality(s))
    <3>1. Cardinality(r) \in T
      BY <2>1, <2>2
    <3>2. Cardinality(r) \in Nat /\ n \in Nat
      BY <1>1, <1>2, <3>1
    <3> QED BY <1>2, <1>3, <3>1, <3>2
  <2> QED BY <2>2
<1>5. CASE s = {}
  <2>1. it[s] = 0
    BY <1>5 DEF Adds
  <2> QED BY <1>3, <1>5, <2>1
<1>6. CASE s # {}
  <2> DEFINE x == CHOOSE y \in s : TRUE
  <2>1. x \in s /\ it[s] = g[x] + it[s \ {x}]
    BY <1>6, OneLess DEF Adds
  <2> HIDE DEF x
  <2>2. \A y \in s : s \ {y} \in SUBSET S /\ P(s \ {y})
    <3>1. \A y \in s : /\ s \ {y} \in SUBSET S
                       /\ Cardinality(s \ {y}) < Cardinality(s)
      BY <1>6, OneLess
    <3> HIDE DEF P
    <3> QED BY <1>4, <3>1
  <2>3. it[s] \in Int
    <3>1. g[x] \in Int /\ it[s \ {x}] \in Int
      BY <2>1, <2>2
    <3> QED BY <2>1, <3>1
  <2>4. ASSUME NEW y \in s PROVE it[s] = g[y] + it[s \ {y}]
    <3>1. CASE y = x
      BY <2>1, <3>1
    <3>2. CASE y # x
      <4> DEFINE r == (s \ {x}) \ {y}
      <4>1. r = (s \ {y}) \ {x}
        OBVIOUS
      <4>2. it[s \ {x}] = g[y] + it[r]
        BY <2>1, <2>2, <3>2
      <4>3. it[s \ {y}] = g[x] + it[r]
        BY <2>1, <2>2, <3>2, <4>1
      <4>4. r \in SUBSET S /\ r # s
        BY <2>1
      <4>5. it[r] \in Int
        <5>1. s \ {x} \in SUBSET S /\ s \ {x} # {}
          BY <3>2
        <5>2. y \in s \ {x}
          BY <3>2
        <5>3. Cardinality(r) < Cardinality(s)
          <6>1. /\ Cardinality(s) \in Nat /\ Cardinality(s \ {x}) \in Nat
                /\ Cardinality(s \ {x}) = Cardinality(s) - 1
            BY <1>6, <2>1, OneLess
          <6>2. Cardinality(r) \in Nat /\ Cardinality(r) = Cardinality(s \ {x}) - 1
            <7> DEFINE q == s \ {x}
            <7>1. q \in SUBSET S /\ q # {} /\ y \in q
              BY <5>1, <5>2
            <7> HIDE DEF q
            <7>2. Cardinality(q \ {y}) \in Nat /\ Cardinality(q \ {y}) = Cardinality(q) - 1
              BY <7>1, OneLess
            <7> QED BY <7>2 DEF q
          <6> QED BY <6>1, <6>2
        <5> QED BY <1>4, <4>4, <5>3
      <4>6. g[x] \in Int /\ g[y] \in Int
        BY <2>1
      <4> DEFINE a == g[x]
                 b == g[y]
                 c == it[r]
      <4>7. it[s] = a + (b + c) /\ it[s \ {y}] = a + c
        BY <2>1, <4>2, <4>3
      <4>8. a \in Int /\ b \in Int /\ c \in Int
        BY <4>5, <4>6
      <4> HIDE DEF a, b, c, r
      <4>9. it[s] = b + it[s \ {y}]
        BY <4>7, <4>8
      <4> QED BY <4>9 DEF b
    <3> QED BY <3>1, <3>2
  <2> QED BY <1>3, <2>3, <2>4
<1> QED BY <1>5, <1>6

\* Sums of the same numbers are the same.
LEMMA AddsAgree ==
    ASSUME NEW S, IsFiniteSet(S), NEW g, NEW it, Adds(it, g, S),
           NEW R, IsFiniteSet(R), NEW f, NEW jt, Adds(jt, f, R),
           NEW s \in SUBSET S, s \subseteq R, \A x \in s : f[x] = g[x]
    PROVE  it[s] = jt[s]
<1> DEFINE T == {Cardinality(r) : r \in {q \in SUBSET s : it[q] # jt[q]}}
<1> SUFFICES ASSUME T # {} PROVE FALSE
  OBVIOUS
<1>1. T \subseteq Nat
  BY FS_Subset, FS_CardinalityType
<1>2. PICK n \in T : \A m \in T : n <= m
  BY <1>1, SmallestOf
<1>3. PICK r \in SUBSET s : it[r] # jt[r] /\ Cardinality(r) = n
  BY <1>2
<1>4. r \in SUBSET S /\ r \in SUBSET R
  OBVIOUS
<1>5. CASE r = {}
  BY <1>3, <1>4, <1>5 DEF Adds
<1>6. CASE r # {}
  <2> DEFINE x == CHOOSE y \in r : TRUE
  <2>1. /\ x \in r
        /\ it[r] = g[x] + it[r \ {x}]
        /\ jt[r] = f[x] + jt[r \ {x}]
    BY <1>4, <1>6, OneLess DEF Adds
  <2> HIDE DEF x
  <2>2. Cardinality(r \ {x}) < Cardinality(r) /\ Cardinality(r \ {x}) \in Nat
    BY <1>4, <1>6, <2>1, OneLess
  <2>3. r \ {x} \in SUBSET s
    OBVIOUS
  <2>4. it[r \ {x}] = jt[r \ {x}]
    <3>1. it[r \ {x}] # jt[r \ {x}] => Cardinality(r \ {x}) \in T
      BY <2>3
    <3> QED BY <1>1, <1>2, <1>3, <2>2, <3>1
  <2> QED BY <1>3, <2>1, <2>4
<1> QED BY <1>5, <1>6

\* What the entries of a summary add up to in one of their fields.
Total(e, field) == MapThenSumSet(LAMBDA i : e[i][field], DOMAIN e)

\* The sum of a field is what some function that adds the entries says.
LEMMA TotalAdds ==
    ASSUME NEW e, IsFiniteSet(DOMAIN e), NEW field
    PROVE  \E it : /\ Adds(it, [i \in DOMAIN e |-> e[i][field]], DOMAIN e)
                   /\ Total(e, field) = it[DOMAIN e]
<1> DEFINE S == DOMAIN e
           g == [i \in S |-> e[i][field]]
           F(it) == [s \in SUBSET S |-> IF s = {} THEN 0 ELSE
               e[CHOOSE x \in s : TRUE][field] + it[s \ {CHOOSE x \in s : TRUE}]]
           G(it) == [s \in SUBSET S |-> IF s = {} THEN 0 ELSE
               g[CHOOSE x \in s : TRUE] + it[s \ {CHOOSE x \in s : TRUE}]]
           h == CHOOSE it : it = F(it)
<1>1. Total(e, field) = h[S]
  BY DEF Total, MapThenSumSet, MapThenFoldSet
<1>2. ASSUME NEW it PROVE F(it) = G(it)
  <2>1. ASSUME NEW s \in SUBSET S PROVE F(it)[s] = G(it)[s]
    <3>1. CASE s = {}
      BY <3>1
    <3>2. CASE s # {}
      <4> DEFINE x == CHOOSE y \in s : TRUE
      <4>1. x \in s /\ x \in S
        BY <3>2
      <4>2. g[x] = e[x][field]
        BY <4>1
      <4>3. F(it)[s] = e[x][field] + it[s \ {x}] /\ G(it)[s] = g[x] + it[s \ {x}]
        BY <3>2
      <4> HIDE DEF x, F, G, g
      <4> QED BY <4>2, <4>3
    <3> QED BY <3>1, <3>2
  <2> QED BY <2>1
<1>3. PICK it : Adds(it, g, S)
  BY AddsExists
<1>4. it = F(it)
  <2>1. it = G(it)
    BY <1>3 DEF Adds
  <2> QED BY <1>2, <2>1
<1>5. h = F(h)
  <2> HIDE DEF F
  <2> QED BY <1>4
<1> HIDE DEF h
<1>6. h = G(h)
  <2> HIDE DEF F, G
  <2> QED BY <1>2, <1>5
<1>7. Adds(h, g, S)
  BY <1>6 DEF Adds
<1> QED BY <1>1, <1>7

\* The sum of a field when entry j is new or replaced and the others stay.
LEMMA TotalChanges ==
    ASSUME NEW e, IsFiniteSet(DOMAIN e), NEW r, IsFiniteSet(DOMAIN r), NEW field,
           NEW j \in DOMAIN r, DOMAIN r \ {j} = DOMAIN e \ {j},
           \A i \in DOMAIN e : e[i][field] \in Int,
           \A i \in DOMAIN r : r[i][field] \in Int,
           \A i \in DOMAIN r \ {j} : r[i] = e[i]
    PROVE  /\ Total(e, field) \in Int
           /\ j \notin DOMAIN e => Total(r, field) = Total(e, field) + r[j][field]
           /\ j \in DOMAIN e =>
                 Total(r, field) = Total(e, field) + (r[j][field] - e[j][field])
<1> DEFINE S == DOMAIN e
           R == DOMAIN r
           g == [i \in S |-> e[i][field]]
           f == [i \in R |-> r[i][field]]
<1>1. PICK it : Adds(it, g, S) /\ Total(e, field) = it[S]
  BY TotalAdds
<1>2. PICK jt : Adds(jt, f, R) /\ Total(r, field) = jt[R]
  BY TotalAdds
<1>3. /\ \A x \in S : g[x] = e[x][field] /\ g[x] \in Int
      /\ \A x \in R : f[x] = r[x][field] /\ f[x] \in Int
  OBVIOUS
<1>4. /\ R \ {j} \in SUBSET R /\ R \ {j} \in SUBSET S
      /\ R \ {j} = S \ {j} /\ j \in R /\ R \in SUBSET R /\ S \in SUBSET S
      /\ \A x \in R \ {j} : f[x] = g[x]
  OBVIOUS
<1> HIDE DEF S, R, f, g
<1>5. IsFiniteSet(S) /\ IsFiniteSet(R)
  BY DEF S, R
<1>6. it[R \ {j}] = jt[R \ {j}]
  BY <1>1, <1>2, <1>4, <1>5, AddsAgree
<1>7. jt[R] = f[j] + jt[R \ {j}] /\ jt[R] \in Int /\ jt[R \ {j}] \in Int
  <2>1. \A s \in SUBSET R : jt[s] \in Int /\ \A y \in s : jt[s] = f[y] + jt[s \ {y}]
    BY <1>2, <1>3, <1>5, AddsAnyOrder
  <2> QED BY <1>4, <2>1
<1>8. it[S] \in Int /\ (j \in S => it[S] = g[j] + it[R \ {j}])
  BY <1>1, <1>3, <1>4, <1>5, AddsAnyOrder
<1>9. ASSUME j \notin S PROVE jt[R] = it[S] + f[j]
  <2>1. R \ {j} = S
    BY <1>4, <1>9
  <2>2. f[j] \in Int
    BY <1>3, <1>4
  <2> DEFINE a == f[j]
             c == it[S]
  <2>3. a \in Int /\ c \in Int /\ jt[R] = a + c
    BY <1>6, <1>7, <1>8, <2>1, <2>2
  <2> HIDE DEF a, c
  <2>4. jt[R] = c + a
    BY <2>3
  <2> QED BY <2>4 DEF a, c
<1>10. ASSUME j \in S PROVE jt[R] = it[S] + (f[j] - g[j])
  <2> DEFINE a == f[j]
             b == g[j]
             c == jt[R \ {j}]
  <2>1. a \in Int /\ b \in Int /\ c \in Int
    BY <1>3, <1>4, <1>7, <1>10
  <2>2. jt[R] = a + c /\ it[S] = b + c
    BY <1>6, <1>7, <1>8, <1>10
  <2> HIDE DEF a, b, c
  <2>3. jt[R] = it[S] + (a - b)
    BY <2>1, <2>2
  <2> QED BY <2>3 DEF a, b
<1>11. /\ j \notin S => Total(r, field) = Total(e, field) + r[j][field]
       /\ j \in S => Total(r, field) = Total(e, field) + (r[j][field] - e[j][field])
  BY <1>1, <1>2, <1>3, <1>4, <1>9, <1>10
<1> QED BY <1>1, <1>8, <1>11 DEF S

\* Nothing adds up to nothing.
LEMMA TotalOfNone == ASSUME NEW field PROVE Total(<<>>, field) = 0
<1>1. DOMAIN <<>> = {} /\ IsFiniteSet(DOMAIN <<>>)
  BY FS_EmptySet
<1>2. PICK it : /\ Adds(it, [i \in DOMAIN <<>> |-> <<>>[i][field]], DOMAIN <<>>)
                /\ Total(<<>>, field) = it[DOMAIN <<>>]
  BY <1>1, TotalAdds
<1>3. it[{}] = 0
  BY <1>1, <1>2 DEF Adds
<1> QED BY <1>1, <1>2, <1>3

-------------------------------------------------------------------------------
(* The compliance summary.                                                 *)

\* The sum of one difference is that difference.
LEMMA SumOfOne ==
    ASSUME NEW j, NEW e, NEW new, NEW field, new[field] - e[j][field] \in Int
    PROVE  MapThenSumSet(LAMBDA i : new[field] - e[i][field], {j})
               = new[field] - e[j][field]
<1> DEFINE d == new[field] - e[j][field]
           D(i) == new[field] - e[i][field]
           F(it) == [s \in SUBSET {j} |-> IF s = {} THEN 0 ELSE 
               D(CHOOSE x \in s : TRUE) + it[s \ {CHOOSE x \in s : TRUE}]]
           g == [s \in SUBSET {j} |-> IF s = {} THEN 0 ELSE d]
           h == CHOOSE it : it = F(it)
<1>1. MapThenSumSet(LAMBDA i : new[field] - e[i][field], {j}) = h[{j}]
  BY DEF MapThenSumSet, MapThenFoldSet
<1>2. (CHOOSE x \in {j} : TRUE) = j
  OBVIOUS
<1>3. \A s \in SUBSET {j} : s = {} \/ s = {j}
  OBVIOUS
<1>4. g = F(g)
  <2>1. ASSUME NEW s \in SUBSET {j} PROVE g[s] = F(g)[s]
    <3>1. CASE s = {}
      BY <3>1
    <3>2. CASE s = {j}
      <4>1. F(g)[s] = D(j) + g[{j} \ {j}]
        BY <1>2, <3>2
      <4>2. {j} \ {j} = {}
        OBVIOUS
      <4>3. g[{}] = 0 /\ g[s] = d
        BY <3>2
      <4> QED BY <4>1, <4>2, <4>3
    <3> QED BY <1>3, <3>1, <3>2
  <2> QED BY <2>1
<1> HIDE DEF g
<1>5. h = F(h)
  BY <1>4
<1> HIDE DEF h
<1>6. h[{}] = 0
  BY <1>5
<1>7. h[{j}] = D(j) + h[{j} \ {j}]
  BY <1>2, <1>5
<1>8. {j} \ {j} = {}
  OBVIOUS
<1>9. h[{j}] = D(j)
  <2> DEFINE v == D(j)
  <2>1. v \in Int
    OBVIOUS
  <2> HIDE DEF v
  <2>2. h[{j}] = v + 0
    BY <1>6, <1>7, <1>8 DEF v
  <2>3. h[{j}] = v
    BY <2>1, <2>2
  <2> QED BY <2>3 DEF v
<1> QED BY <1>1, <1>9 DEF MapThenSumSet, MapThenFoldSet

Entries == [name : Hubs, compliant : Counters, noncompliant : Counters]

\* No hub has two entries in a summary.
OneEntryEach(sum) ==
    \A i, j \in DOMAIN sum.summaries :
        sum.summaries[i].name = sum.summaries[j].name => i = j

\* The totals of a summary are the sums of its entries, counted modulo Width.
TotalsRight(sum) ==
    /\ sum.compliant = Total(sum.summaries, "compliant") % Width
    /\ sum.noncompliant = Total(sum.summaries, "noncompliant") % Width

Sound(sum) == OneEntryEach(sum) /\ TotalsRight(sum)

\* What Fold does: the entry of the hub is in the summary, what the summary says
\* of other hubs stays, and no hub gets a second entry.
LEMMA FoldEffect ==
    ASSUME NEW sum \in Summaries, Sound(sum), NEW new \in Entries
    PROVE  /\ Fold(sum, new) \in Summaries
           /\ Sound(Fold(sum, new))
           /\ \E i \in DOMAIN Fold(sum, new).summaries : Fold(sum, new).summaries[i] = new
           /\ \A i \in DOMAIN sum.summaries : sum.summaries[i].name # new.name =>
                 /\ i \in DOMAIN Fold(sum, new).summaries
                 /\ Fold(sum, new).summaries[i] = sum.summaries[i]
           /\ \A i \in DOMAIN Fold(sum, new).summaries :
                 Fold(sum, new).summaries[i].name # new.name =>
                    /\ i \in DOMAIN sum.summaries
                    /\ Fold(sum, new).summaries[i] = sum.summaries[i]
<1> DEFINE e == sum.summaries
           hits == {i \in DOMAIN e : e[i].name = new.name}
           Delta(field) == IF hits = {} THEN new[field]
                           ELSE MapThenSumSet(LAMBDA i : new[field] - e[i][field], hits)
           r == IF hits = {} THEN Append(e, new)
                ELSE [i \in DOMAIN e |-> IF i \in hits THEN new ELSE e[i]]
           dc == Delta("compliant")
           dn == Delta("noncompliant")
<1>o. OneEntryEach(sum) /\ TotalsRight(sum)
  BY DEF Sound
<1>1. Fold(sum, new) = [compliant |-> (sum.compliant + dc) % Width,
                        noncompliant |-> (sum.noncompliant + dn) % Width,
                        summaries |-> r]
  BY DEF Fold
<1>2. /\ e \in Seq(Entries) /\ DOMAIN e = 1..Len(e) /\ Len(e) \in Nat
      /\ \A i \in 1..Len(e) : e[i] \in Entries
      /\ sum.compliant \in Int /\ sum.noncompliant \in Int
      /\ Width \in Nat \ {0}
  <2>1. e \in Seq(Entries) /\ sum.compliant \in Counters /\ sum.noncompliant \in Counters
    BY DEF Summaries, Entries
  <2>2. Counters \subseteq Int /\ Width \in Nat \ {0}
    BY PolicyAssumption DEF Counters
  <2> HIDE DEF e
  <2>3. DOMAIN e = 1..Len(e) /\ Len(e) \in Nat /\ \A i \in 1..Len(e) : e[i] \in Entries
    BY <2>1, LenProperties, ElementOfSeq
  <2> QED BY <2>1, <2>2, <2>3
<1>3. /\ \A x \in Entries : {x["compliant"], x["noncompliant"]} \subseteq Int
      /\ new["compliant"] = new.compliant /\ new["noncompliant"] = new.noncompliant
  BY <1>2 DEF Entries, Counters
<1>4. /\ dc \in Int /\ dn \in Int
      /\ hits = {} => dc = new.compliant /\ dn = new.noncompliant
      /\ \A j \in DOMAIN e : hits = {j} => /\ dc = new.compliant - e[j].compliant
                                          /\ dn = new.noncompliant - e[j].noncompliant
  <2>1. CASE hits = {}
    BY <1>3, <2>1
  <2>2. CASE hits # {}
    <3>1. PICK j \in DOMAIN e : hits = {j}
      BY <1>o, <2>2 DEF OneEntryEach
    <3>2. e[j] \in Entries
      BY <1>2
    <3>3. new["compliant"] - e[j]["compliant"] \in Int
      BY <1>3, <3>2
    <3>4. new["noncompliant"] - e[j]["noncompliant"] \in Int
      BY <1>3, <3>2
    <3>5. MapThenSumSet(LAMBDA i : new["compliant"] - e[i]["compliant"], {j})
             = new["compliant"] - e[j]["compliant"]
      BY <3>3, SumOfOne
    <3>6. MapThenSumSet(LAMBDA i : new["noncompliant"] - e[i]["noncompliant"], {j})
             = new["noncompliant"] - e[j]["noncompliant"]
      BY <3>4, SumOfOne
    <3> HIDE DEF hits
    <3>7. dc = MapThenSumSet(LAMBDA i : new["compliant"] - e[i]["compliant"], {j})
      BY <2>2, <3>1
    <3>8. dn = MapThenSumSet(LAMBDA i : new["noncompliant"] - e[i]["noncompliant"], {j})
      BY <2>2, <3>1
    <3>9. \A i \in DOMAIN e : hits = {i} => i = j
      BY <3>1
    <3> HIDE DEF dc, dn
    <3>10. /\ dc = new["compliant"] - e[j]["compliant"]
           /\ dn = new["noncompliant"] - e[j]["noncompliant"]
      BY <3>5, <3>6, <3>7, <3>8
    <3> QED BY <2>2, <3>3, <3>4, <3>9, <3>10
  <2> QED BY <2>1, <2>2
<1> HIDE DEF dc, dn
<1>5. /\ (sum.compliant + dc) % Width \in Counters
      /\ (sum.noncompliant + dn) % Width \in Counters
  <2>1. \A x \in Int : x % Width \in Counters
    BY <1>2 DEF Counters
  <2>2. sum.compliant + dc \in Int /\ sum.noncompliant + dn \in Int
    BY <1>2, <1>4
  <2> QED BY <2>1, <2>2
<1>6. /\ r \in Seq(Entries)
      /\ \A i, j \in DOMAIN r : r[i].name = r[j].name => i = j
      /\ \E i \in DOMAIN r : r[i] = new
      /\ \A i \in DOMAIN e : e[i].name # new.name => i \in DOMAIN r /\ r[i] = e[i]
      /\ \A i \in DOMAIN r : r[i].name # new.name => i \in DOMAIN e /\ r[i] = e[i]
  <2>1. CASE hits = {}
    <3>1. r = Append(e, new)
      BY <2>1
    <3> HIDE DEF hits
    <3>2. /\ r \in Seq(Entries)
          /\ Len(r) = Len(e) + 1 /\ DOMAIN r = 1..Len(e) + 1
          /\ \A i \in 1..Len(e) : r[i] = e[i]
          /\ r[Len(e) + 1] = new
      BY <1>2, <3>1, AppendProperties
    <3>3. \A i \in DOMAIN e : e[i].name # new.name
      BY <2>1 DEF hits
    <3> HIDE DEF r
    <3>4. \A i \in DOMAIN r : i \in DOMAIN e \/ i = Len(e) + 1
      BY <1>2, <3>2
    <3>5. Len(e) + 1 \in DOMAIN r
      BY <1>2, <3>2
    <3>6. \A i, j \in DOMAIN r : r[i].name = r[j].name => i = j
      BY <1>2, <1>o, <3>2, <3>3, <3>4 DEF OneEntryEach
    <3>7. \A i \in DOMAIN e : i \in DOMAIN r /\ r[i] = e[i]
      BY <1>2, <3>2
    <3>8. \A i \in DOMAIN r : r[i].name # new.name => i \in DOMAIN e /\ r[i] = e[i]
      BY <3>2, <3>4, <3>7
    <3> QED BY <3>2, <3>5, <3>6, <3>7, <3>8
  <2>2. CASE hits # {}
    <3>1. PICK j \in DOMAIN e : hits = {j}
      BY <1>o, <2>2 DEF OneEntryEach
    <3>2. e[j].name = new.name
      BY <3>1
    <3>3. r = [i \in 1..Len(e) |-> IF i \in hits THEN new ELSE e[i]]
      BY <1>2, <2>2
    <3> HIDE DEF hits, r
    <3>4. /\ DOMAIN r = 1..Len(e)
          /\ \A i \in 1..Len(e) : r[i] = IF i = j THEN new ELSE e[i]
      BY <3>1, <3>3
    <3>5. \A i \in 1..Len(e) : r[i] \in Entries
      BY <1>2, <3>4
    <3>6. r \in [1..Len(e) -> Entries]
      BY <3>3, <3>5
    <3>7. r \in Seq(Entries)
      BY <1>2, <3>6, IsASeq
    <3>8. \A i \in 1..Len(e) : r[i].name = e[i].name
      BY <3>2, <3>4
    <3> QED BY <1>2, <1>o, <3>2, <3>4, <3>7, <3>8 DEF OneEntryEach
  <2> QED BY <2>1, <2>2
<1>s. /\ (sum.compliant + dc) % Width = Total(r, "compliant") % Width
      /\ (sum.noncompliant + dn) % Width = Total(r, "noncompliant") % Width
  <2>1. PICK j \in DOMAIN r :
           /\ DOMAIN r \ {j} = DOMAIN e \ {j}
           /\ \A i \in DOMAIN r \ {j} : r[i] = e[i]
           /\ r[j] = new
           /\ j \notin DOMAIN e => dc = r[j].compliant /\ dn = r[j].noncompliant
           /\ j \in DOMAIN e => /\ dc = r[j].compliant - e[j].compliant
                                /\ dn = r[j].noncompliant - e[j].noncompliant
    <3>1. CASE hits = {}
      <4>1. r = Append(e, new)
        BY <3>1
      <4>2. dc = new.compliant /\ dn = new.noncompliant
        BY <1>4, <3>1
      <4> HIDE DEF hits
      <4>3. /\ DOMAIN r = 1..Len(e) + 1
            /\ \A i \in 1..Len(e) : r[i] = e[i]
            /\ r[Len(e) + 1] = new
        BY <1>2, <4>1, AppendProperties
      <4> HIDE DEF r
      <4>4. /\ Len(e) + 1 \in DOMAIN r /\ Len(e) + 1 \notin DOMAIN e
            /\ DOMAIN r \ {Len(e) + 1} = 1..Len(e) /\ DOMAIN e \ {Len(e) + 1} = 1..Len(e)
        BY <1>2, <4>3
      <4> QED BY <4>2, <4>3, <4>4
    <3>2. CASE hits # {}
      <4>1. PICK j \in DOMAIN e : hits = {j}
        BY <1>o, <3>2 DEF OneEntryEach
      <4>2. dc = new.compliant - e[j].compliant /\ dn = new.noncompliant - e[j].noncompliant
        BY <1>4, <4>1
      <4>3. r = [i \in DOMAIN e |-> IF i \in hits THEN new ELSE e[i]]
        BY <3>2
      <4> HIDE DEF hits, r
      <4>4. /\ DOMAIN r = DOMAIN e /\ r[j] = new
            /\ \A i \in DOMAIN r \ {j} : r[i] = e[i]
        BY <4>1, <4>3
      <4> QED BY <4>2, <4>4
    <3> QED BY <3>1, <3>2
  <2>2. /\ DOMAIN r = 1..Len(r) /\ Len(r) \in Nat
        /\ \A i \in DOMAIN r : r[i] \in Entries
    BY <1>6, LenProperties, ElementOfSeq
  <2> HIDE DEF r, e
  <2>3. IsFiniteSet(DOMAIN r) /\ IsFiniteSet(DOMAIN e)
    BY <1>2, <2>2, FS_Interval
  <2>4. /\ \A i \in DOMAIN e : e[i].compliant \in Int /\ e[i].noncompliant \in Int
        /\ \A i \in DOMAIN r : r[i].compliant \in Int /\ r[i].noncompliant \in Int
    BY <1>2, <1>3, <2>2
  <2>5. Total(e, "compliant") \in Int /\ Total(r, "compliant") = Total(e, "compliant") + dc
    <3>1. /\ Total(e, "compliant") \in Int
          /\ j \notin DOMAIN e => Total(r, "compliant") = Total(e, "compliant") + r[j]["compliant"]
          /\ j \in DOMAIN e => Total(r, "compliant")
                = Total(e, "compliant") + (r[j]["compliant"] - e[j]["compliant"])
      BY <2>1, <2>3, <2>4, TotalChanges
    <3> QED BY <2>1, <3>1
  <2>6. Total(e, "noncompliant") \in Int /\ Total(r, "noncompliant") = Total(e, "noncompliant") + dn
    <3>1. /\ Total(e, "noncompliant") \in Int
          /\ j \notin DOMAIN e => Total(r, "noncompliant") = Total(e, "noncompliant") + r[j]["noncompliant"]
          /\ j \in DOMAIN e => Total(r, "noncompliant")
                = Total(e, "noncompliant") + (r[j]["noncompliant"] - e[j]["noncompliant"])
      BY <2>1, <2>3, <2>4, TotalChanges
    <3> QED BY <2>1, <3>1
  <2>7. /\ sum.compliant = Total(e, "compliant") % Width
        /\ sum.noncompliant = Total(e, "noncompliant") % Width
        /\ Width \in Int /\ Width > 0
    BY <1>o, <1>2 DEF TotalsRight, e
  <2>8. (sum.compliant + dc) % Width = Total(r, "compliant") % Width
    <3> DEFINE a == Total(e, "compliant")
    <3>1. ((a % Width) + dc) % Width = (a + dc) % Width
      <4>1. a \in Int /\ dc \in Int
        BY <1>4, <2>5
      <4> HIDE DEF a
      <4> QED BY <2>7, <4>1, ModAdd
    <3> QED BY <2>5, <2>7, <3>1
  <2>9. (sum.noncompliant + dn) % Width = Total(r, "noncompliant") % Width
    <3> DEFINE a == Total(e, "noncompliant")
    <3>1. ((a % Width) + dn) % Width = (a + dn) % Width
      <4>1. a \in Int /\ dn \in Int
        BY <1>4, <2>6
      <4> HIDE DEF a
      <4> QED BY <2>7, <4>1, ModAdd
    <3> QED BY <2>6, <2>7, <3>1
  <2> QED BY <2>8, <2>9
<1> HIDE DEF r, e
<1>7. /\ Fold(sum, new) \in Summaries
      /\ Fold(sum, new).summaries = r
      /\ Fold(sum, new).compliant = (sum.compliant + dc) % Width
      /\ Fold(sum, new).noncompliant = (sum.noncompliant + dn) % Width
  BY <1>1, <1>5, <1>6 DEF Summaries, Entries
<1>8. Sound(Fold(sum, new))
  <2>1. OneEntryEach(Fold(sum, new))
    BY <1>6, <1>7 DEF OneEntryEach
  <2>2. TotalsRight(Fold(sum, new))
    BY <1>s, <1>7 DEF TotalsRight
  <2> QED BY <2>1, <2>2 DEF Sound
<1> QED BY <1>6, <1>7, <1>8 DEF e

\* The entry that is made for a hub is an entry.
LEMMA ClusterSummaryType ==
    ASSUME NEW h \in Hubs, NEW p \in Policies
    PROVE  /\ ClusterSummary(h, p) \in Entries
           /\ ClusterSummary(h, p).name = h
<1>1. DOMAIN p.status \subseteq Clusters
  BY DEF Policies, Statuses
<1>2. ASSUME NEW state PROVE Count(p.status, state) \in Nat
  <2> DEFINE C == {c \in DOMAIN p.status : p.status[c] = state}
  <2>1. IsFiniteSet(C)
    BY <1>1, PolicyAssumption, FS_Subset
  <2> QED BY <2>1, FS_CardinalityType DEF Count
<1>3. \A x \in Nat : x % Width \in Counters
  BY PolicyAssumption DEF Counters
<1> QED BY <1>2, <1>3 DEF ClusterSummary, Entries

-------------------------------------------------------------------------------
(* Type correctness.                                                       *)

\* What the policy in n can be, wherever a version of it is held: a copy of a hub
\* has the label of its own namespace or of the policy it was made from.
Versions(n) ==
    {p \in Policies : p.label \in {NoLabel, n, Global} /\ Sound(p.summary)}

WorkerTypes == [pc : Phases, key : Namespaces, obj : Policies, global : Policies,
                tries : 0..Steps]

VersionsKept ==
    \A n \in Namespaces : /\ store[n] \in Versions(n)
                          /\ cache[n] \in Versions(n)
                          /\ stream[n] \in Seq(I!Events(Versions(n)))

\* The worker holds a version of the policy it works on, and folds the copy of
\* a hub into the policy that users write.
WorkerHolds ==
    /\ worker.pc \in {"label", "get", "update"} => worker.obj \in Versions(worker.key)
    /\ worker.pc \in {"get", "update"} => worker.key \in Hubs /\ worker.obj.label = Global
    /\ worker.pc = "update" => worker.global \in Versions(Global)

Typed == TypeOK /\ VersionsKept /\ WorkerHolds

\* A policy that is not there is a version of it.
LEMMA AbsentType == Absent \in Policies /\ \A n \in Namespaces : Absent \in Versions(n)
<1>1. NoSummary \in Summaries /\ Sound(NoSummary)
  <2>1. <<>> \in Seq([name : Hubs, compliant : Counters, noncompliant : Counters])
    OBVIOUS
  <2>2. 0 \in Counters
    BY PolicyAssumption DEF Counters
  <2>3. NoSummary \in Summaries /\ OneEntryEach(NoSummary)
    BY <2>1, <2>2 DEF NoSummary, Summaries, OneEntryEach
  <2>4. 0 = 0 % Width
    BY PolicyAssumption
  <2>5. TotalsRight(NoSummary)
    BY <2>4, TotalOfNone DEF NoSummary, TotalsRight
  <2> QED BY <2>3, <2>5 DEF Sound
<1>2. NoStatus \in Statuses
  <2>1. NoStatus \in [{} -> ClusterStates]
    BY DEF NoStatus
  <2> QED BY <2>1 DEF Statuses
<1>3. Absent \in Policies
  BY <1>1, <1>2 DEF Absent, Policies
<1> QED BY <1>1, <1>3 DEF Absent, Versions

\* A policy with the fields of versions is a version.
LEMMA MakeVersion ==
    ASSUME NEW n \in Namespaces, NEW r \in Nat, NEW x \in Nat,
           NEW l \in {NoLabel, n, Global}, NEW t \in Statuses, NEW u \in Summaries,
           Sound(u)
    PROVE  [rv |-> r, spec |-> x, label |-> l, status |-> t, summary |-> u] \in Versions(n)
<1>1. l \in Namespaces \cup {NoLabel}
  BY DEF Namespaces
<1>2. [rv |-> r, spec |-> x, label |-> l, status |-> t, summary |-> u] \in Policies
  BY <1>1 DEF Policies
<1> QED BY <1>2 DEF Versions

\* The fields of a version.
LEMMA VersionFields ==
    ASSUME NEW n \in Namespaces, NEW p \in Versions(n)
    PROVE  /\ p \in Policies
           /\ p.rv \in Nat /\ p.spec \in Nat /\ p.status \in Statuses
           /\ p.summary \in Summaries /\ Sound(p.summary)
           /\ p.label \in {NoLabel, n, Global}
           /\ p.label \in Namespaces \cup {NoLabel}
           /\ p = [rv |-> p.rv, spec |-> p.spec, label |-> p.label,
                   status |-> p.status, summary |-> p.summary]
BY DEF Versions, Policies

\* The policy with two of its fields changed.
LEMMA TwoFields ==
    ASSUME NEW p \in Policies, NEW x, NEW y
    PROVE  /\ [p EXCEPT !.spec = x, !.label = y]
                 = [rv |-> p.rv, spec |-> x, label |-> y, status |-> p.status,
                    summary |-> p.summary]
           /\ [p EXCEPT !.status = x, !.summary = y]
                 = [rv |-> p.rv, spec |-> p.spec, label |-> p.label, status |-> x,
                    summary |-> y]
<1>1. p = [rv |-> p.rv, spec |-> p.spec, label |-> p.label, status |-> p.status,
           summary |-> p.summary]
  BY DEF Policies
<1>2. [p EXCEPT !.spec = x, !.label = y]
         = [rv |-> p.rv, spec |-> x, label |-> y, status |-> p.status,
            summary |-> p.summary]
  <2> DEFINE q == [p EXCEPT !.spec = x]
  <2>1. [p EXCEPT !.spec = x, !.label = y] = [q EXCEPT !.label = y]
    OBVIOUS
  <2>2. q = [rv |-> p.rv, spec |-> x, label |-> p.label, status |-> p.status,
             summary |-> p.summary]
    BY <1>1
  <2> HIDE DEF q
  <2> QED BY <2>1, <2>2
<1>3. [p EXCEPT !.status = x, !.summary = y]
         = [rv |-> p.rv, spec |-> p.spec, label |-> p.label, status |-> x,
            summary |-> y]
  <2> DEFINE q == [p EXCEPT !.status = x]
  <2>1. [p EXCEPT !.status = x, !.summary = y] = [q EXCEPT !.summary = y]
    OBVIOUS
  <2>2. q = [rv |-> p.rv, spec |-> p.spec, label |-> p.label, status |-> x,
             summary |-> p.summary]
    BY <1>1
  <2> HIDE DEF q
  <2> QED BY <2>1, <2>2
<1> QED BY <1>2, <1>3

\* The API server stores a new version of the policy in n, and an event says so.
Put(n, p) ==
    /\ p \in Versions(n)
    /\ p.rv = revision + 1
    /\ store' = [store EXCEPT ![n] = p]
    /\ revision' = revision + 1
    /\ stream' = [stream EXCEPT ![n] = Append(@, [type |-> "modified", obj |-> p])]

\* A write stores a new version, or changes nothing.
LEMMA WriteEffect ==
    ASSUME Typed, NEW n \in Namespaces, NEW o \in Versions(n), Write(n, o)
    PROVE  \/ UNCHANGED <<store, revision, stream>> /\ o = store[n]
           \/ \E p \in Versions(n) :
                 /\ Put(n, p)
                 /\ p.spec = o.spec /\ p.label = o.label
                 /\ p.status = o.status /\ p.summary = o.summary
<1>1. CASE o = store[n]
  BY <1>1 DEF Write
<1>2. CASE o # store[n]
  <2> DEFINE p == [o EXCEPT !.rv = revision + 1]
  <2>1. revision + 1 \in Nat
    BY DEF Typed, TypeOK
  <2>2. p = [rv |-> revision + 1, spec |-> o.spec, label |-> o.label,
             status |-> o.status, summary |-> o.summary]
    BY <2>1, VersionFields DEF Policies
  <2>3. p \in Versions(n)
    BY <2>1, <2>2, VersionFields, MakeVersion
  <2>4. /\ store' = [store EXCEPT ![n] = p]
        /\ revision' = revision + 1
        /\ stream' = [stream EXCEPT
                         ![n] = Append(stream[n], [type |-> "modified", obj |-> p])]
    BY <1>2 DEF Write
  <2>5. /\ p.rv = revision + 1 /\ p.spec = o.spec /\ p.label = o.label
        /\ p.status = o.status /\ p.summary = o.summary
    BY <2>2
  <2> HIDE DEF p
  <2>6. Put(n, p)
    BY <2>3, <2>4, <2>5 DEF Put
  <2> QED BY <2>3, <2>5, <2>6
<1> QED BY <1>1, <1>2

\* What a step may do to the API server's objects and the events about them.
ServerTyped ==
    /\ store' \in [Namespaces -> Policies] /\ revision' \in Nat
    /\ stream' \in [Namespaces -> Seq(I!Events(Policies))]
    /\ \A n \in Namespaces : /\ store'[n] \in Versions(n)
                             /\ stream'[n] \in Seq(I!Events(Versions(n)))

\* Events about versions are events about policies.
LEMMA EventsOfVersions ==
    ASSUME NEW n \in Namespaces, NEW q \in Seq(I!Events(Versions(n)))
    PROVE  q \in Seq(I!Events(Policies))
<1>1. I!Events(Versions(n)) \subseteq I!Events(Policies)
  BY DEF I!Events, Versions
<1> QED BY <1>1

\* A new version keeps the objects and the events well typed.
LEMMA PutTyped ==
    ASSUME Typed, NEW n \in Namespaces, NEW p, Put(n, p)
    PROVE  ServerTyped
<1> DEFINE e == [type |-> "modified", obj |-> p]
<1>1. /\ p \in Versions(n) /\ p \in Policies
      /\ store \in [Namespaces -> Policies] /\ revision \in Nat
      /\ stream \in [Namespaces -> Seq(I!Events(Policies))]
      /\ \A m \in Namespaces : /\ store[m] \in Versions(m)
                               /\ stream[m] \in Seq(I!Events(Versions(m)))
  BY DEF Put, Versions, Typed, TypeOK, VersionsKept
<1>2. e \in I!Events(Versions(n))
  BY <1>1 DEF I!Events, I!EventTypes
<1>3. Append(stream[n], e) \in Seq(I!Events(Versions(n)))
  BY <1>1, <1>2, AppendProperties
<1>4. Append(stream[n], e) \in Seq(I!Events(Policies))
  BY <1>3, EventsOfVersions
<1>5. /\ store' = [store EXCEPT ![n] = p]
      /\ revision' = revision + 1
      /\ stream' = [stream EXCEPT ![n] = Append(stream[n], e)]
  BY DEF Put
<1> HIDE DEF e
<1>6. store' \in [Namespaces -> Policies] /\ revision' \in Nat
  BY <1>1, <1>5
<1>7. stream' \in [Namespaces -> Seq(I!Events(Policies))]
  BY <1>1, <1>4, <1>5
<1>8. \A m \in Namespaces : /\ store'[m] \in Versions(m)
                            /\ stream'[m] \in Seq(I!Events(Versions(m)))
  BY <1>1, <1>3, <1>5
<1> QED BY <1>6, <1>7, <1>8 DEF ServerTyped

\* The requests to the API server that the model's actions make, with the version
\* they write: what it keeps of the policy that is stored.
LEMMA Requests ==
    ASSUME Typed
    PROVE  /\ \A keepLabel \in BOOLEAN : UserWrite(keepLabel) =>
                 \E o \in Versions(Global) :
                    /\ Write(Global, o)
                    /\ o.spec = writes + 1
                    /\ o.summary = store[Global].summary
           /\ \A h \in Hubs, label \in HubLabels : HubCreates(h, label) =>
                 \E o \in Versions(h) :
                    /\ Write(h, o) /\ o.spec = writes + 1 /\ o.label = label
           /\ \A h \in Hubs, status \in Statuses : HubReports(h, status) =>
                 \E o \in Versions(h) :
                    /\ Write(h, o) /\ o.spec = store[h].spec /\ o.label = store[h].label
<1>t. /\ Global \in Namespaces /\ Hubs \subseteq Namespaces
      /\ writes + 1 \in Nat
      /\ \A n \in Namespaces : store[n] \in Versions(n)
  BY PolicyAssumption DEF Typed, TypeOK, VersionsKept, Namespaces
<1>1. ASSUME NEW keepLabel \in BOOLEAN, UserWrite(keepLabel)
      PROVE  \E o \in Versions(Global) : /\ Write(Global, o)
                                         /\ o.spec = writes + 1
                                         /\ o.summary = store[Global].summary
  <2> DEFINE g == store[Global]
             l == IF keepLabel THEN g.label ELSE NoLabel
             o == [g EXCEPT !.spec = writes + 1, !.label = l]
  <2>1. /\ g \in Policies /\ g.rv \in Nat /\ g.status \in Statuses
        /\ g.summary \in Summaries /\ Sound(g.summary)
        /\ l \in {NoLabel, Global} /\ l \in Namespaces \cup {NoLabel}
    BY <1>t, VersionFields
  <2>2. Write(Global, o)
    BY <1>1 DEF UserWrite
  <2> HIDE DEF g, l
  <2>3. o = [rv |-> g.rv, spec |-> writes + 1, label |-> l, status |-> g.status,
             summary |-> g.summary]
    BY <2>1, TwoFields
  <2> HIDE DEF o
  <2>4. o \in Versions(Global)
    BY <1>t, <2>1, <2>3, MakeVersion
  <2>5. o.spec = writes + 1 /\ o.summary = store[Global].summary
    BY <2>3 DEF g
  <2> QED BY <2>2, <2>4, <2>5
<1>2. ASSUME NEW h \in Hubs, NEW label \in HubLabels, HubCreates(h, label)
      PROVE  \E o \in Versions(h) : /\ Write(h, o) /\ o.spec = writes + 1
                                    /\ o.label = label
  <2> DEFINE o == [Absent EXCEPT !.spec = writes + 1, !.label = label]
  <2>1. /\ Absent \in Policies /\ Absent \in Versions(h)
        /\ label \in {NoLabel, h, Global} /\ h \in Namespaces
    BY <1>t, AbsentType, PolicyAssumption
  <2>2. Write(h, o)
    BY <1>2 DEF HubCreates
  <2>3. o = [rv |-> Absent.rv, spec |-> writes + 1, label |-> label,
             status |-> Absent.status, summary |-> Absent.summary]
    BY <2>1, TwoFields
  <2>f. /\ Absent.rv \in Nat /\ Absent.status \in Statuses
        /\ Absent.summary \in Summaries /\ Sound(Absent.summary)
    BY <2>1, VersionFields
  <2> HIDE DEF o
  <2>4. o \in Versions(h)
    BY <1>t, <2>1, <2>3, <2>f, MakeVersion
  <2>5. o.spec = writes + 1 /\ o.label = label
    BY <2>3
  <2> QED BY <2>2, <2>4, <2>5
<1>3. ASSUME NEW h \in Hubs, NEW status \in Statuses, HubReports(h, status)
      PROVE  \E o \in Versions(h) : /\ Write(h, o) /\ o.spec = store[h].spec
                                    /\ o.label = store[h].label
  <2> DEFINE c == store[h]
             o == [c EXCEPT !.status = status]
  <2>1. c \in Versions(h) /\ c \in Policies /\ h \in Namespaces
    BY <1>t, VersionFields
  <2>2. Write(h, o)
    BY <1>3 DEF HubReports
  <2> HIDE DEF c
  <2>3. o = [rv |-> c.rv, spec |-> c.spec, label |-> c.label, status |-> status,
             summary |-> c.summary]
    BY <2>1 DEF Policies
  <2>f. /\ c.rv \in Nat /\ c.spec \in Nat /\ c.label \in {NoLabel, h, Global}
        /\ c.summary \in Summaries /\ Sound(c.summary)
    BY <2>1, VersionFields
  <2> HIDE DEF o
  <2>4. o \in Versions(h)
    BY <2>1, <2>3, <2>f, MakeVersion
  <2>5. o.spec = store[h].spec /\ o.label = store[h].label
    BY <2>3 DEF c
  <2> QED BY <2>2, <2>4, <2>5
<1> QED BY <1>1, <1>2, <1>3

\* A write keeps the objects and the events well typed.
LEMMA WriteTyped ==
    ASSUME Typed, NEW n \in Namespaces, NEW o \in Versions(n), Write(n, o)
    PROVE  ServerTyped
<1>1. CASE UNCHANGED <<store, revision, stream>>
  BY <1>1 DEF Typed, TypeOK, VersionsKept, ServerTyped
<1>2. CASE \E p \in Versions(n) : Put(n, p)
  BY <1>2, PutTyped
<1> QED BY <1>1, <1>2, WriteEffect

\* The worker's updates write versions of the policy: the label's with the status
\* and the summary that are stored, the summary's with the entry of the hub in it.
LEMMA WorkerRequests ==
    ASSUME Typed
    PROVE  /\ worker.pc = "label" =>
                 LET o == Updated(worker.key, worker.obj)
                 IN  /\ o \in Versions(worker.key)
                     /\ o.spec = worker.obj.spec /\ o.label = worker.obj.label
                     /\ o.summary = store[worker.key].summary
           /\ worker.pc = "update" =>
                 LET o == Summarised(worker.global)
                     sum == worker.global.summary
                 IN  /\ o \in Versions(Global)
                     /\ o.spec = worker.global.spec
                     /\ \E i \in DOMAIN o.summary.summaries :
                           o.summary.summaries[i] = ClusterSummary(worker.key, worker.obj)
                     /\ \A i \in DOMAIN sum.summaries :
                           sum.summaries[i].name # worker.key =>
                              /\ i \in DOMAIN o.summary.summaries
                              /\ o.summary.summaries[i] = sum.summaries[i]
                     /\ \A i \in DOMAIN o.summary.summaries :
                           o.summary.summaries[i].name # worker.key =>
                              /\ i \in DOMAIN sum.summaries
                              /\ o.summary.summaries[i] = sum.summaries[i]
<1>1. ASSUME worker.pc = "label"
      PROVE  LET o == Updated(worker.key, worker.obj)
             IN  /\ o \in Versions(worker.key)
                 /\ o.spec = worker.obj.spec /\ o.label = worker.obj.label
                 /\ o.summary = store[worker.key].summary
  <2> DEFINE n == worker.key
             w == worker.obj
             c == store[n]
             o == Updated(n, w)
  <2>1. n \in Namespaces /\ w \in Versions(n) /\ c \in Versions(n)
    BY <1>1 DEF Typed, TypeOK, VersionsKept, WorkerHolds
  <2> HIDE DEF n, w
  <2>2. /\ w \in Policies /\ w.rv \in Nat /\ w.spec \in Nat
        /\ w.label \in {NoLabel, n, Global}
    BY <2>1, VersionFields
  <2>3. c.status \in Statuses /\ c.summary \in Summaries /\ Sound(c.summary)
    BY <2>1, VersionFields
  <2>4. o = [rv |-> w.rv, spec |-> w.spec, label |-> w.label, status |-> c.status,
             summary |-> c.summary]
    <3>1. o = [w EXCEPT !.status = c.status, !.summary = c.summary]
      BY DEF Updated
    <3> HIDE DEF o, c
    <3> QED BY <2>2, <3>1, TwoFields
  <2> HIDE DEF o, c
  <2>5. o \in Versions(n)
    BY <2>1, <2>2, <2>3, <2>4, MakeVersion
  <2>6. o.spec = w.spec /\ o.label = w.label /\ o.summary = c.summary
    BY <2>4
  <2> QED BY <2>5, <2>6 DEF n, w, o, c
<1>2. ASSUME worker.pc = "update"
      PROVE  LET o == Summarised(worker.global)
                 sum == worker.global.summary
             IN  /\ o \in Versions(Global)
                 /\ o.spec = worker.global.spec
                 /\ \E i \in DOMAIN o.summary.summaries :
                       o.summary.summaries[i] = ClusterSummary(worker.key, worker.obj)
                 /\ \A i \in DOMAIN sum.summaries :
                       sum.summaries[i].name # worker.key =>
                          /\ i \in DOMAIN o.summary.summaries
                          /\ o.summary.summaries[i] = sum.summaries[i]
                 /\ \A i \in DOMAIN o.summary.summaries :
                       o.summary.summaries[i].name # worker.key =>
                          /\ i \in DOMAIN sum.summaries
                          /\ o.summary.summaries[i] = sum.summaries[i]
  <2> DEFINE g == worker.global
             new == ClusterSummary(worker.key, worker.obj)
             f == Fold(g.summary, new)
             o == Summarised(g)
  <2>1. g \in Versions(Global) /\ worker.key \in Hubs /\ worker.obj \in Policies
    BY <1>2 DEF Typed, TypeOK, WorkerHolds
  <2>2. new \in Entries /\ new.name = worker.key
    BY <2>1, ClusterSummaryType
  <2> HIDE DEF g
  <2>3. o = [g EXCEPT !.summary = f]
    BY DEF Summarised
  <2> HIDE DEF new
  <2>4. Global \in Namespaces
    BY DEF Namespaces
  <2>5. /\ g \in Policies /\ g.rv \in Nat /\ g.spec \in Nat /\ g.status \in Statuses
        /\ g.label \in {NoLabel, Global}
        /\ g.summary \in Summaries /\ Sound(g.summary)
    BY <2>1, <2>4, VersionFields
  <2>6. /\ f \in Summaries /\ Sound(f)
        /\ \E i \in DOMAIN f.summaries : f.summaries[i] = new
        /\ \A i \in DOMAIN g.summary.summaries :
              g.summary.summaries[i].name # new.name =>
                 i \in DOMAIN f.summaries /\ f.summaries[i] = g.summary.summaries[i]
        /\ \A i \in DOMAIN f.summaries :
              f.summaries[i].name # new.name =>
                 i \in DOMAIN g.summary.summaries /\ f.summaries[i] = g.summary.summaries[i]
    BY <2>2, <2>5, FoldEffect
  <2> HIDE DEF f, o
  <2>7. o = [rv |-> g.rv, spec |-> g.spec, label |-> g.label, status |-> g.status,
             summary |-> f]
    <3>1. g = [rv |-> g.rv, spec |-> g.spec, label |-> g.label, status |-> g.status,
               summary |-> g.summary]
      BY <2>5 DEF Policies
    <3> QED BY <2>3, <3>1
  <2>8. o \in Versions(Global)
    BY <2>4, <2>5, <2>6, <2>7, MakeVersion
  <2>9. o.spec = g.spec /\ o.summary = f
    BY <2>7
  <2> QED BY <2>2, <2>6, <2>8, <2>9 DEF g, new, o
<1> QED BY <1>1, <1>2

\* The counters of the bounds stay within them.
CountersTyped ==
    /\ writes' \in 0..MaxWrites /\ faults' \in 0..MaxFaults
    /\ relists' \in 0..MaxRelists /\ resyncs' \in 0..MaxResyncs
    /\ restarts' \in 0..MaxRestarts /\ failed' \in BOOLEAN /\ created' \in Nat

\* The cache, the notifications and the queue stay well typed.
InformerTyped ==
    /\ cache' \in [Namespaces -> Policies]
    /\ \A n \in Namespaces : cache'[n] \in Versions(n)
    /\ notify' \in [Namespaces -> Nat] /\ queue' \in Queues(Namespaces)

\* The parts of type correctness.
LEMMA TypedByParts ==
    ASSUME Typed, kind' = kind, ServerTyped, InformerTyped, CountersTyped,
           worker' \in WorkerTypes, WorkerHolds'
    PROVE  Typed'
BY DEF Typed, TypeOK, VersionsKept, ServerTyped, InformerTyped, CountersTyped,
       WorkerTypes

\* What a step leaves alone stays well typed.
LEMMA UnchangedTyped ==
    ASSUME Typed
    PROVE  /\ UNCHANGED <<store, revision, stream>> => ServerTyped
           /\ UNCHANGED <<cache, notify, queue>> => InformerTyped
           /\ UNCHANGED counters => CountersTyped
           /\ UNCHANGED worker => worker' \in WorkerTypes /\ WorkerHolds'
           /\ worker' = [worker EXCEPT !.pc = "done"] =>
                 worker' \in WorkerTypes /\ WorkerHolds'
           /\ worker' = IdleWorker => worker' \in WorkerTypes /\ WorkerHolds'
<1>1. UNCHANGED <<store, revision, stream>> => ServerTyped
  BY DEF Typed, TypeOK, VersionsKept, ServerTyped
<1>2. UNCHANGED <<cache, notify, queue>> => InformerTyped
  BY DEF Typed, TypeOK, VersionsKept, InformerTyped
<1>3. UNCHANGED counters => CountersTyped
  BY DEF Typed, TypeOK, CountersTyped, counters
<1>4. UNCHANGED worker => worker' \in WorkerTypes /\ WorkerHolds'
  BY DEF Typed, TypeOK, WorkerTypes, WorkerHolds
<1>5. worker' = [worker EXCEPT !.pc = "done"] => worker' \in WorkerTypes /\ WorkerHolds'
  BY DEF Typed, TypeOK, WorkerTypes, WorkerHolds, Phases
<1>6. worker' = IdleWorker => worker' \in WorkerTypes /\ WorkerHolds'
  <2>1. Absent \in Policies /\ Global \in Namespaces
    BY AbsentType DEF Namespaces
  <2>2. 0 \in 0..Steps
    BY PolicyAssumption
  <2> QED BY <2>1, <2>2 DEF IdleWorker, WorkerTypes, WorkerHolds, Phases
<1> QED BY <1>1, <1>2, <1>3, <1>4, <1>5, <1>6

\* The writes of users and of status syncers.
ClientStep ==
    \/ \E keepLabel \in BOOLEAN : UserWrite(keepLabel)
    \/ \E h \in Hubs : \/ \E label \in HubLabels : HubCreates(h, label)
                       \/ \E status \in Statuses : HubReports(h, status)

\* They keep the types.
LEMMA ClientTyped ==
    ASSUME Typed, ClientStep, kind' = kind
    PROVE  Typed'
<1>1. \E n \in Namespaces : \E o \in Versions(n) : Write(n, o)
  <2>1. Global \in Namespaces /\ Hubs \subseteq Namespaces
    BY DEF Namespaces
  <2> QED BY <2>1, Requests DEF ClientStep
<1>2. /\ UNCHANGED <<cache, notify, queue, worker, faults, relists, resyncs, failed,
                     restarts>>
      /\ writes' = writes + 1 /\ writes < MaxWrites
      /\ created' \in {created, revision + 1}
  BY DEF ClientStep, UserWrite, HubCreates, HubReports, process
<1>3. CountersTyped
  <2>1. MaxWrites \in Nat /\ writes \in 0..MaxWrites
    BY PolicyAssumption DEF Typed, TypeOK
  <2>2. writes' \in 0..MaxWrites
    BY <1>2, <2>1
  <2>3. created' \in Nat
    BY <1>2 DEF Typed, TypeOK
  <2> QED BY <1>2, <2>2, <2>3 DEF CountersTyped, Typed, TypeOK
<1>4. ServerTyped
  BY <1>1, WriteTyped
<1>5. InformerTyped /\ worker' \in WorkerTypes /\ WorkerHolds'
  BY <1>2, UnchangedTyped
<1> QED BY <1>3, <1>4, <1>5, TypedByParts

\* A deletion keeps the types.
LEMMA DeleteTyped ==
    ASSUME Typed, UserDelete, kind' = kind
    PROVE  Typed'
<1> DEFINE e == [type |-> "deleted", obj |-> store[Global]]
<1>1. /\ Global \in Namespaces
      /\ store \in [Namespaces -> Policies] /\ revision \in Nat
      /\ stream \in [Namespaces -> Seq(I!Events(Policies))]
      /\ \A m \in Namespaces : /\ store[m] \in Versions(m)
                               /\ stream[m] \in Seq(I!Events(Versions(m)))
      /\ Absent \in Policies /\ \A m \in Namespaces : Absent \in Versions(m)
  BY AbsentType DEF Typed, TypeOK, VersionsKept, Namespaces
<1>2. e \in I!Events(Versions(Global))
  BY <1>1 DEF I!Events, I!EventTypes
<1>3. Append(stream[Global], e) \in Seq(I!Events(Versions(Global)))
  BY <1>1, <1>2, AppendProperties
<1>4. Append(stream[Global], e) \in Seq(I!Events(Policies))
  BY <1>1, <1>3, EventsOfVersions
<1>5. /\ store' = [store EXCEPT ![Global] = Absent]
      /\ revision' = revision + 1
      /\ stream' = [stream EXCEPT ![Global] = Append(stream[Global], e)]
      /\ UNCHANGED <<cache, notify, queue>> /\ UNCHANGED worker
      /\ writes < MaxWrites /\ writes' = writes + 1
      /\ UNCHANGED <<faults, relists, resyncs, failed, restarts, created>>
  BY DEF UserDelete, process
<1> HIDE DEF e
<1>6. ServerTyped
  <2>1. store' \in [Namespaces -> Policies] /\ revision' \in Nat
    BY <1>1, <1>5
  <2>2. stream' \in [Namespaces -> Seq(I!Events(Policies))]
    BY <1>1, <1>4, <1>5
  <2>3. \A m \in Namespaces : /\ store'[m] \in Versions(m)
                              /\ stream'[m] \in Seq(I!Events(Versions(m)))
    BY <1>1, <1>3, <1>5
  <2> QED BY <2>1, <2>2, <2>3 DEF ServerTyped
<1>7. InformerTyped /\ worker' \in WorkerTypes /\ WorkerHolds'
  BY <1>5, UnchangedTyped
<1>8. CountersTyped
  <2>1. MaxWrites \in Nat /\ writes \in 0..MaxWrites
    BY PolicyAssumption DEF Typed, TypeOK
  <2>2. writes' \in 0..MaxWrites
    BY <1>5, <2>1
  <2> QED BY <1>5, <2>2 DEF CountersTyped, Typed, TypeOK
<1> QED BY <1>6, <1>7, <1>8, TypedByParts

\* A list makes events of the versions it finds.
LEMMA ListTyped ==
    ASSUME NEW n \in Namespaces, NEW o \in Versions(n), NEW c \in Versions(n)
    PROVE  /\ I!ReList(o, c) \in Seq(I!Events(Versions(n)))
           /\ I!FirstList(o) \in Seq(I!Events(Versions(n)))
<1>1. \A t \in I!EventTypes, p \in Versions(n) :
         <<[type |-> t, obj |-> p]>> \in Seq(I!Events(Versions(n)))
  BY DEF I!Events
<1>2. <<>> \in Seq(I!Events(Versions(n)))
  OBVIOUS
<1>3. {"replaced", "gone", "initial"} \subseteq I!EventTypes
  BY DEF I!EventTypes
<1> QED BY <1>1, <1>2, <1>3 DEF I!ReList, I!FirstList

\* The events of a list are a new stream for every namespace.
LEMMA NewStreamTyped ==
    ASSUME Typed, UNCHANGED <<store, revision>>, NEW f,
           \A n \in Namespaces : f[n] \in Seq(I!Events(Versions(n))),
           f = [n \in Namespaces |-> f[n]], stream' = f
    PROVE  ServerTyped
<1>1. \A n \in Namespaces : f[n] \in Seq(I!Events(Policies))
  BY EventsOfVersions
<1>2. f \in [Namespaces -> Seq(I!Events(Policies))]
  BY <1>1
<1> QED BY <1>2 DEF Typed, TypeOK, VersionsKept, ServerTyped

\* A broken watch keeps the types.
LEMMA RelistTyped ==
    ASSUME Typed, Relist, kind' = kind
    PROVE  Typed'
<1> DEFINE f == [n \in Namespaces |-> I!ReList(store[n], cache[n])]
<1>1. stream' = f /\ UNCHANGED <<store, revision>>
  BY DEF Relist, server
<1>2. \A n \in Namespaces : f[n] \in Seq(I!Events(Versions(n)))
  <2>1. \A n \in Namespaces : store[n] \in Versions(n) /\ cache[n] \in Versions(n)
    BY DEF Typed, VersionsKept
  <2> QED BY <2>1, ListTyped
<1>3. f = [n \in Namespaces |-> f[n]]
  OBVIOUS
<1> HIDE DEF f
<1>4. ServerTyped
  BY <1>1, <1>2, <1>3, NewStreamTyped
<1>5. /\ relists < MaxRelists /\ relists' = relists + 1
      /\ UNCHANGED <<cache, notify, queue>> /\ UNCHANGED worker
      /\ UNCHANGED <<writes, faults, resyncs, failed, restarts, created>>
  BY DEF Relist, process
<1>6. CountersTyped
  <2>1. MaxRelists \in Nat /\ relists \in 0..MaxRelists
    BY PolicyAssumption DEF Typed, TypeOK
  <2>2. relists' \in 0..MaxRelists
    BY <1>5, <2>1
  <2> QED BY <1>5, <2>2 DEF CountersTyped, Typed, TypeOK
<1>7. InformerTyped /\ worker' \in WorkerTypes /\ WorkerHolds'
  BY <1>5, UnchangedTyped
<1> QED BY <1>4, <1>6, <1>7, TypedByParts

\* A restart keeps the types.
LEMMA RestartTyped ==
    ASSUME Typed, Restart, kind' = kind
    PROVE  Typed'
<1> DEFINE f == [n \in Namespaces |-> I!FirstList(store[n])]
<1>1. stream' = f /\ UNCHANGED <<store, revision>>
  BY DEF Restart, server
<1>2. \A n \in Namespaces : f[n] \in Seq(I!Events(Versions(n)))
  <2>1. \A n \in Namespaces : store[n] \in Versions(n)
    BY DEF Typed, VersionsKept
  <2> QED BY <2>1, ListTyped
<1>3. f = [n \in Namespaces |-> f[n]]
  OBVIOUS
<1> HIDE DEF f
<1>4. ServerTyped
  BY <1>1, <1>2, <1>3, NewStreamTyped
<1>5. /\ restarts < MaxRestarts /\ restarts' = restarts + 1
      /\ failed' = FALSE
      /\ UNCHANGED <<writes, faults, relists, resyncs, created>>
      /\ worker' = IdleWorker
      /\ cache' = [n \in Namespaces |-> Absent]
      /\ notify' = [n \in Namespaces |-> 0]
      /\ queue' = EmptyQueue
  BY DEF Restart
<1>6. CountersTyped
  <2>1. MaxRestarts \in Nat /\ restarts \in 0..MaxRestarts
    BY PolicyAssumption DEF Typed, TypeOK
  <2>2. restarts' \in 0..MaxRestarts
    BY <1>5, <2>1
  <2> QED BY <1>5, <2>2 DEF CountersTyped, Typed, TypeOK
<1>7. InformerTyped
  BY <1>5, AbsentType, EmptyQueueType DEF InformerTyped
<1>8. worker' \in WorkerTypes /\ WorkerHolds'
  BY <1>5, UnchangedTyped
<1> QED BY <1>4, <1>6, <1>7, <1>8, TypedByParts

\* The informer's steps and the resync keep the types.
LEMMA InformerStepTyped ==
    ASSUME Typed, NEW n \in Namespaces, InformerStep(n), kind' = kind
    PROVE  Typed'
<1> DEFINE c == I!CacheAfter(Head(stream[n]))
<1>1. /\ stream \in [Namespaces -> Seq(I!Events(Policies))]
      /\ cache \in [Namespaces -> Policies]
      /\ notify \in [Namespaces -> Nat]
      /\ \A m \in Namespaces : /\ cache[m] \in Versions(m)
                               /\ stream[m] \in Seq(I!Events(Versions(m)))
  BY DEF Typed, TypeOK, VersionsKept
<1>2. /\ stream[n] # <<>>
      /\ cache' = [cache EXCEPT ![n] = c]
      /\ stream' = [stream EXCEPT ![n] = Tail(stream[n])]
      /\ notify' = [notify EXCEPT ![n] = IF Head(stream[n]).type = "gone"
                                         THEN notify[n] ELSE notify[n] + 1]
      /\ UNCHANGED <<store, revision>> /\ UNCHANGED queue /\ UNCHANGED worker
      /\ UNCHANGED counters
  BY DEF InformerStep, server
<1>3. /\ Head(stream[n]) \in I!Events(Versions(n))
      /\ Tail(stream[n]) \in Seq(I!Events(Versions(n)))
  BY <1>1, <1>2, HeadTailProperties
<1>4. c \in Versions(n)
  BY <1>3, AbsentType DEF I!CacheAfter, I!Events
<1>5. c \in Policies
  BY <1>4 DEF Versions
<1>6. Tail(stream[n]) \in Seq(I!Events(Policies))
  BY <1>3, EventsOfVersions
<1> HIDE DEF c
<1>7. ServerTyped
  <2>1. stream' \in [Namespaces -> Seq(I!Events(Policies))]
    BY <1>1, <1>2, <1>6
  <2>2. \A m \in Namespaces : stream'[m] \in Seq(I!Events(Versions(m)))
    BY <1>1, <1>2, <1>3
  <2> QED BY <1>2, <2>1, <2>2 DEF ServerTyped, Typed, TypeOK, VersionsKept
<1>8. InformerTyped
  <2>1. cache' \in [Namespaces -> Policies]
    BY <1>1, <1>2, <1>5
  <2>2. \A m \in Namespaces : cache'[m] \in Versions(m)
    BY <1>1, <1>2, <1>4
  <2>3. notify' \in [Namespaces -> Nat]
    BY <1>1, <1>2
  <2> QED BY <1>2, <2>1, <2>2, <2>3 DEF InformerTyped, Typed, TypeOK
<1>9. CountersTyped /\ worker' \in WorkerTypes /\ WorkerHolds'
  BY <1>2, UnchangedTyped
<1> QED BY <1>7, <1>8, <1>9, TypedByParts

\* So does a notification that is handled, and one that is made again.
LEMMA NotifyTyped ==
    ASSUME Typed, (\E n \in Namespaces : enqueue(n)) \/ Resync, kind' = kind
    PROVE  Typed'
<1>t. notify \in [Namespaces -> Nat] /\ queue \in Queues(Namespaces)
  BY DEF Typed, TypeOK
<1>1. ASSUME NEW n \in Namespaces, enqueue(n)
      PROVE  Typed'
  <2>1. /\ notify[n] > 0 /\ notify' = [notify EXCEPT ![n] = @ - 1]
        /\ queue' = Add(queue, n)
        /\ UNCHANGED <<store, revision, stream>> /\ UNCHANGED cache
        /\ UNCHANGED worker /\ UNCHANGED counters
    BY <1>1 DEF enqueue, server
  <2>2. notify' \in [Namespaces -> Nat]
    BY <1>t, <2>1
  <2>3. queue' \in Queues(Namespaces)
    BY <1>t, <2>1, QueueOperations
  <2>4. InformerTyped
    BY <2>1, <2>2, <2>3 DEF InformerTyped, Typed, TypeOK, VersionsKept
  <2>5. ServerTyped /\ CountersTyped /\ worker' \in WorkerTypes /\ WorkerHolds'
    BY <2>1, UnchangedTyped
  <2> QED BY <2>4, <2>5, TypedByParts
<1>2. CASE Resync
  <2>1. /\ notify' = [n \in Namespaces |->
                         IF cache[n] = Absent THEN notify[n] ELSE notify[n] + 1]
        /\ resyncs < MaxResyncs /\ resyncs' = resyncs + 1
        /\ UNCHANGED <<store, revision, stream>> /\ UNCHANGED cache
        /\ UNCHANGED worker /\ UNCHANGED queue
        /\ UNCHANGED <<writes, faults, relists, failed, restarts, created>>
    BY <1>2 DEF Resync, server, process
  <2>2. notify' \in [Namespaces -> Nat]
    BY <1>t, <2>1
  <2>3. InformerTyped
    BY <2>1, <2>2 DEF InformerTyped, Typed, TypeOK, VersionsKept
  <2>4. CountersTyped
    <3>1. MaxResyncs \in Nat /\ resyncs \in 0..MaxResyncs
      BY PolicyAssumption DEF Typed, TypeOK
    <3>2. resyncs' \in 0..MaxResyncs
      BY <2>1, <3>1
    <3> QED BY <2>1, <3>2 DEF CountersTyped, Typed, TypeOK
  <2>5. ServerTyped /\ worker' \in WorkerTypes /\ WorkerHolds'
    BY <2>1, UnchangedTyped
  <2> QED BY <2>3, <2>4, <2>5, TypedByParts
<1> QED BY <1>1, <1>2

\* The queue's part of the work keeps the types.
LEMMA QueueTyped ==
    ASSUME Typed, (\E n \in Namespaces : GetItem(n)) \/ FinishItem, kind' = kind
    PROVE  Typed'
<1>t. queue \in Queues(Namespaces) /\ worker \in WorkerTypes
  BY DEF Typed, TypeOK, WorkerTypes
<1>1. ASSUME NEW n \in Namespaces, GetItem(n)
      PROVE  Typed'
  <2>1. /\ queue' = Get(queue, n)
        /\ worker' = [worker EXCEPT !.pc = "process", !.key = n]
        /\ UNCHANGED <<store, revision, stream>> /\ UNCHANGED <<cache, notify>>
        /\ UNCHANGED counters
    BY <1>1 DEF GetItem, server, informer
  <2>2. queue' \in Queues(Namespaces)
    BY <1>t, <2>1, QueueOperations
  <2>3. InformerTyped
    BY <2>1, <2>2 DEF InformerTyped, Typed, TypeOK, VersionsKept
  <2>4. worker' \in WorkerTypes /\ WorkerHolds'
    BY <1>t, <2>1 DEF WorkerTypes, WorkerHolds, Phases
  <2>5. ServerTyped /\ CountersTyped
    BY <2>1, UnchangedTyped
  <2> QED BY <2>3, <2>4, <2>5, TypedByParts
<1>2. CASE FinishItem
  <2>1. /\ queue' = Done(queue, worker.key)
        /\ worker' = IdleWorker
        /\ UNCHANGED <<store, revision, stream>> /\ UNCHANGED <<cache, notify>>
        /\ UNCHANGED counters
    BY <1>2 DEF FinishItem, server, informer
  <2>2. worker.key \in Namespaces
    BY <1>t DEF WorkerTypes
  <2>3. queue' \in Queues(Namespaces)
    BY <1>t, <2>1, <2>2, QueueOperations
  <2>4. InformerTyped
    BY <2>1, <2>3 DEF InformerTyped, Typed, TypeOK, VersionsKept
  <2>5. ServerTyped /\ CountersTyped /\ worker' \in WorkerTypes /\ WorkerHolds'
    BY <2>1, UnchangedTyped
  <2> QED BY <2>4, <2>5, TypedByParts
<1> QED BY <1>1, <1>2

\* What Process does, by cases: nothing, label the policy in the cache, or begin
\* to fold the copy of a hub into the policy of the global hub.
LEMMA ProcessCases ==
    ASSUME Typed, Process
    PROVE  LET n == worker.key
               o == cache[n]
           IN  /\ worker.pc = "process"
               /\ UNCHANGED <<store, revision, stream, notify, queue>>
               /\ UNCHANGED counters
               /\ \/ /\ Skipped(o, n)
                     /\ worker' = [worker EXCEPT !.pc = "done"]
                     /\ UNCHANGED cache
                  \/ /\ o # Absent /\ o.label = NoLabel
                     /\ [o EXCEPT !.label = n] \in Versions(n)
                     /\ cache' = [cache EXCEPT ![n] = [o EXCEPT !.label = n]]
                     /\ worker' = [worker EXCEPT !.pc = "label",
                                                 !.obj = [o EXCEPT !.label = n]]
                  \/ /\ n \in Hubs /\ o.label = Global /\ o.status # NoStatus
                     /\ worker' = [worker EXCEPT !.pc = "get", !.obj = o, !.tries = Steps]
                     /\ UNCHANGED cache
<1> DEFINE n == worker.key
           o == cache[n]
           l == [o EXCEPT !.label = n]
<1>1. n \in Namespaces /\ o \in Versions(n) /\ cache \in [Namespaces -> Policies]
  BY DEF Typed, TypeOK, VersionsKept
<1>2. /\ worker.pc = "process"
      /\ UNCHANGED <<store, revision, stream, notify, queue>> /\ UNCHANGED counters
  BY DEF Process, server
<1>3. \/ /\ Skipped(o, n)
         /\ worker' = [worker EXCEPT !.pc = "done"]
         /\ UNCHANGED cache
      \/ /\ ~Skipped(o, n)
         /\ o.label = NoLabel
         /\ cache' = [cache EXCEPT ![n].label = n]
         /\ worker' = [worker EXCEPT !.pc = "label", !.obj = cache'[n]]
      \/ /\ ~Skipped(o, n)
         /\ o.label # NoLabel
         /\ worker' = [worker EXCEPT !.pc = "get", !.obj = o, !.tries = Steps]
         /\ UNCHANGED cache
  BY DEF Process
<1>4. CASE /\ ~Skipped(o, n)
           /\ o.label = NoLabel
           /\ cache' = [cache EXCEPT ![n].label = n]
           /\ worker' = [worker EXCEPT !.pc = "label", !.obj = cache'[n]]
  <2>1. o # Absent
    BY <1>4 DEF Skipped
  <2>2. l \in Versions(n)
    <3> HIDE DEF n, o
    <3>1. l = [rv |-> o.rv, spec |-> o.spec, label |-> n, status |-> o.status,
               summary |-> o.summary]
      BY <1>1, VersionFields
    <3>2. /\ o.rv \in Nat /\ o.spec \in Nat /\ o.status \in Statuses
          /\ o.summary \in Summaries /\ Sound(o.summary)
      BY <1>1, VersionFields
    <3> HIDE DEF l
    <3> QED BY <1>1, <3>1, <3>2, MakeVersion
  <2>3. cache' = [cache EXCEPT ![n] = l]
    BY <1>4
  <2>4. cache'[n] = l
    BY <1>1, <2>3
  <2> QED BY <1>2, <1>4, <2>1, <2>2, <2>3, <2>4
<1>5. CASE /\ ~Skipped(o, n)
           /\ o.label # NoLabel
           /\ worker' = [worker EXCEPT !.pc = "get", !.obj = o, !.tries = Steps]
           /\ UNCHANGED cache
  <2>1. o.label # n /\ o.status # NoStatus
    BY <1>5 DEF Skipped
  <2>2. o.label = Global
    BY <1>1, <1>5, <2>1, VersionFields
  <2>3. n \in Hubs
    BY <1>1, <2>1, <2>2 DEF Namespaces
  <2> QED BY <1>2, <1>5, <2>1, <2>2, <2>3
<1> QED BY <1>2, <1>3, <1>4, <1>5

\* Process keeps the types.
LEMMA ProcessTyped ==
    ASSUME Typed, Process, kind' = kind
    PROVE  Typed'
<1> DEFINE n == worker.key
           o == cache[n]
           l == [o EXCEPT !.label = n]
<1>t. /\ n \in Namespaces /\ o \in Versions(n) /\ o \in Policies
      /\ worker \in WorkerTypes /\ cache \in [Namespaces -> Policies]
      /\ \A m \in Namespaces : cache[m] \in Versions(m)
      /\ Steps \in 0..Steps
  BY PolicyAssumption DEF Typed, TypeOK, VersionsKept, WorkerTypes
<1>1. /\ UNCHANGED <<store, revision, stream, notify, queue>> /\ UNCHANGED counters
      /\ \/ /\ worker' = [worker EXCEPT !.pc = "done"]
            /\ UNCHANGED cache
         \/ /\ l \in Versions(n)
            /\ cache' = [cache EXCEPT ![n] = l]
            /\ worker' = [worker EXCEPT !.pc = "label", !.obj = l]
         \/ /\ n \in Hubs /\ o.label = Global
            /\ worker' = [worker EXCEPT !.pc = "get", !.obj = o, !.tries = Steps]
            /\ UNCHANGED cache
  BY ProcessCases
<1>2. ServerTyped /\ CountersTyped
  BY <1>1, UnchangedTyped
<1>3. CASE worker' = [worker EXCEPT !.pc = "done"] /\ UNCHANGED cache
  <2>1. InformerTyped /\ worker' \in WorkerTypes /\ WorkerHolds'
    BY <1>1, <1>3, UnchangedTyped
  <2> QED BY <1>2, <2>1, TypedByParts
<1>4. CASE /\ l \in Versions(n)
           /\ cache' = [cache EXCEPT ![n] = l]
           /\ worker' = [worker EXCEPT !.pc = "label", !.obj = l]
  <2> HIDE DEF l, o
  <2>1. l \in Policies
    BY <1>4 DEF Versions
  <2>2. cache' \in [Namespaces -> Policies] /\ \A m \in Namespaces : cache'[m] \in Versions(m)
    BY <1>t, <1>4, <2>1
  <2>3. InformerTyped
    BY <1>1, <2>2 DEF InformerTyped, Typed, TypeOK
  <2>4. /\ worker' \in WorkerTypes
        /\ worker'.pc = "label" /\ worker'.key = n /\ worker'.obj = l
    BY <1>t, <1>4, <2>1 DEF WorkerTypes, Phases
  <2>5. WorkerHolds'
    BY <1>4, <2>4 DEF WorkerHolds
  <2> QED BY <1>2, <2>3, <2>4, <2>5, TypedByParts
<1>5. CASE /\ n \in Hubs /\ o.label = Global
           /\ worker' = [worker EXCEPT !.pc = "get", !.obj = o, !.tries = Steps]
           /\ UNCHANGED cache
  <2>1. InformerTyped
    BY <1>1, <1>5, UnchangedTyped
  <2> HIDE DEF o
  <2>2. /\ worker' \in WorkerTypes
        /\ worker'.pc = "get" /\ worker'.key = n /\ worker'.obj = o
    BY <1>t, <1>5 DEF WorkerTypes, Phases
  <2>3. WorkerHolds'
    BY <1>t, <1>5, <2>2 DEF WorkerHolds
  <2> QED BY <1>2, <2>1, <2>2, <2>3, TypedByParts
<1> QED BY <1>1, <1>3, <1>4, <1>5

\* What the worker's update of the label does: a write of the labelled policy, or
\* nothing when the policy changed since it was read.
LEMMA UpdateLabelCases ==
    ASSUME Typed, UpdateLabel
    PROVE  LET n == worker.key
           IN  /\ worker.pc = "label"
               /\ worker' = [worker EXCEPT !.pc = "done"]
               /\ UNCHANGED <<cache, notify, queue>> /\ UNCHANGED counters
               /\ \/ /\ store[n] # Absent /\ store[n].rv = worker.obj.rv
                     /\ Write(n, Updated(n, worker.obj))
                  \/ /\ ~(store[n] # Absent /\ store[n].rv = worker.obj.rv)
                     /\ UNCHANGED <<store, revision, stream>>
BY DEF UpdateLabel

\* What the worker's update of the summary does: a write, a retry, or nothing when
\* the policy is not there or the attempts are used up.
LEMMA UpdateGlobalCases ==
    ASSUME Typed, UpdateGlobal
    PROVE  /\ worker.pc = "update"
           /\ UNCHANGED <<cache, notify, queue>> /\ UNCHANGED counters
           /\ \/ /\ store[Global] # Absent /\ store[Global].rv = worker.global.rv
                 /\ Write(Global, Summarised(worker.global))
                 /\ worker' = [worker EXCEPT !.pc = "done"]
              \/ /\ ~(store[Global] # Absent /\ store[Global].rv = worker.global.rv)
                 /\ store[Global] # Absent /\ worker.tries > 1
                 /\ UNCHANGED <<store, revision, stream>>
                 /\ worker' = [worker EXCEPT !.pc = "get", !.tries = @ - 1]
              \/ /\ ~(store[Global] # Absent /\ store[Global].rv = worker.global.rv)
                 /\ ~(store[Global] # Absent /\ worker.tries > 1)
                 /\ UNCHANGED <<store, revision, stream>>
                 /\ worker' = [worker EXCEPT !.pc = "done"]
<1>1. worker.pc = "update" /\ worker.obj.label = Global
  BY DEF UpdateGlobal, Typed, WorkerHolds
<1> QED BY <1>1 DEF UpdateGlobal

\* The worker's requests keep the types.
LEMMA RequestTyped ==
    ASSUME Typed, UpdateLabel \/ GetGlobal \/ UpdateGlobal \/ RequestFails, kind' = kind
    PROVE  Typed'
<1>t. worker \in WorkerTypes /\ Global \in Namespaces
  BY DEF Typed, TypeOK, WorkerTypes, Namespaces
<1>1. CASE UpdateLabel
  <2>1. /\ worker.pc = "label"
        /\ worker' = [worker EXCEPT !.pc = "done"]
        /\ UNCHANGED <<cache, notify, queue>> /\ UNCHANGED counters
        /\ \/ Write(worker.key, Updated(worker.key, worker.obj))
           \/ UNCHANGED <<store, revision, stream>>
    BY <1>1, UpdateLabelCases
  <2>2. worker.key \in Namespaces /\ Updated(worker.key, worker.obj) \in Versions(worker.key)
    BY <1>t, <2>1, WorkerRequests DEF WorkerTypes
  <2>3. ServerTyped
    BY <2>1, <2>2, WriteTyped, UnchangedTyped
  <2>4. InformerTyped /\ CountersTyped /\ worker' \in WorkerTypes /\ WorkerHolds'
    BY <2>1, UnchangedTyped
  <2> QED BY <2>3, <2>4, TypedByParts
<1>2. CASE GetGlobal
  <2> DEFINE g == store[Global]
  <2>1. /\ worker.pc = "get" /\ worker.obj \in Versions(worker.key)
        /\ worker.key \in Hubs /\ worker.obj.label = Global
        /\ g \in Versions(Global) /\ g \in Policies
    BY <1>2, <1>t DEF GetGlobal, Typed, TypeOK, WorkerHolds, VersionsKept
  <2>2. /\ worker' = IF g = Absent THEN [worker EXCEPT !.pc = "done"]
                     ELSE [worker EXCEPT !.pc = "update", !.global = g]
        /\ UNCHANGED <<store, revision, stream>> /\ UNCHANGED <<cache, notify, queue>>
        /\ UNCHANGED counters
    BY <1>2, <2>1 DEF GetGlobal, server, informer
  <2>3. ServerTyped /\ InformerTyped /\ CountersTyped
    BY <2>2, UnchangedTyped
  <2>4. CASE g = Absent
    BY <2>2, <2>3, <2>4, UnchangedTyped, TypedByParts
  <2>5. CASE g # Absent
    <3> HIDE DEF g
    <3>1. worker' = [worker EXCEPT !.pc = "update", !.global = g]
      BY <2>2, <2>5
    <3>2. /\ worker' \in WorkerTypes
          /\ worker'.pc = "update" /\ worker'.key = worker.key
          /\ worker'.obj = worker.obj /\ worker'.global = g
      BY <1>t, <2>1, <3>1 DEF WorkerTypes, Phases
    <3>3. WorkerHolds'
      BY <2>1, <3>2 DEF WorkerHolds
    <3> QED BY <2>3, <3>2, <3>3, TypedByParts
  <2> QED BY <2>4, <2>5
<1>3. CASE UpdateGlobal
  <2>1. /\ worker.pc = "update"
        /\ UNCHANGED <<cache, notify, queue>> /\ UNCHANGED counters
        /\ \/ Write(Global, Summarised(worker.global))
           \/ UNCHANGED <<store, revision, stream>>
        /\ \/ worker' = [worker EXCEPT !.pc = "done"]
           \/ worker' = [worker EXCEPT !.pc = "get", !.tries = @ - 1] /\ worker.tries > 1
    BY <1>3, UpdateGlobalCases
  <2>2. Summarised(worker.global) \in Versions(Global)
    BY <2>1, WorkerRequests
  <2>3. ServerTyped
    BY <1>t, <2>1, <2>2, WriteTyped, UnchangedTyped
  <2>4. InformerTyped /\ CountersTyped
    BY <2>1, UnchangedTyped
  <2>5. ASSUME worker' = [worker EXCEPT !.pc = "get", !.tries = @ - 1], worker.tries > 1
        PROVE  worker' \in WorkerTypes /\ WorkerHolds'
    <3>1. worker.tries - 1 \in 0..Steps
      BY <1>t, <2>5, PolicyAssumption DEF WorkerTypes
    <3>2. /\ worker' \in WorkerTypes
          /\ worker'.pc = "get" /\ worker'.key = worker.key /\ worker'.obj = worker.obj
      BY <1>t, <2>5, <3>1 DEF WorkerTypes, Phases
    <3> QED BY <2>1, <3>2 DEF WorkerHolds, Typed
  <2> QED BY <2>1, <2>3, <2>4, <2>5, UnchangedTyped, TypedByParts
<1>4. CASE RequestFails
  <2>1. /\ faults < MaxFaults /\ faults' = faults + 1 /\ failed' = TRUE
        /\ worker' = [worker EXCEPT !.pc = "done"]
        /\ UNCHANGED <<store, revision, stream>> /\ UNCHANGED <<cache, notify, queue>>
        /\ UNCHANGED <<writes, relists, resyncs, restarts, created>>
    BY <1>4 DEF RequestFails, server, informer
  <2>2. CountersTyped
    <3>1. MaxFaults \in Nat /\ faults \in 0..MaxFaults
      BY PolicyAssumption DEF Typed, TypeOK
    <3>2. faults' \in 0..MaxFaults
      BY <2>1, <3>1
    <3> QED BY <2>1, <3>2 DEF CountersTyped, Typed, TypeOK
  <2>3. ServerTyped /\ InformerTyped /\ worker' \in WorkerTypes /\ WorkerHolds'
    BY <2>1, UnchangedTyped
  <2> QED BY <2>2, <2>3, TypedByParts
<1> QED BY <1>1, <1>2, <1>3, <1>4

\* Every step keeps the types.
LEMMA NextTyped ==
    ASSUME Typed, [Next]_vars
    PROVE  Typed'
<1>1. CASE Next
  <2>1. kind' = kind
    BY <1>1 DEF Next
  <2>2. \/ ClientStep \/ UserDelete
        \/ \E n \in Namespaces : InformerStep(n) \/ enqueue(n) \/ GetItem(n)
        \/ Process \/ UpdateLabel \/ GetGlobal \/ UpdateGlobal \/ FinishItem
        \/ RequestFails \/ Relist \/ Resync \/ Restart
    BY <1>1 DEF Next, Step, WorkerStep, ClientStep
  <2> QED BY <2>1, <2>2, ClientTyped, DeleteTyped, InformerStepTyped, NotifyTyped,
             QueueTyped, ProcessTyped, RequestTyped, RelistTyped, RestartTyped
<1>2. CASE UNCHANGED vars
  BY <1>2 DEF vars, Typed, TypeOK, VersionsKept, WorkerHolds
<1> QED BY <1>1, <1>2

\* The types hold at the start.
LEMMA InitTyped ==
    ASSUME Init
    PROVE  Typed
<1>1. /\ Absent \in Policies /\ \A n \in Namespaces : Absent \in Versions(n)
      /\ Global \in Namespaces /\ 0 \in 0..Steps
      /\ {0} \subseteq 0..MaxWrites \cap 0..MaxFaults \cap 0..MaxRelists
                      \cap 0..MaxResyncs \cap 0..MaxRestarts
  BY AbsentType, PolicyAssumption DEF Namespaces
<1>2. \A S : <<>> \in Seq(S)
  OBVIOUS
<1>3. IdleWorker \in WorkerTypes /\ IdleWorker.pc = "idle"
  BY <1>1 DEF IdleWorker, WorkerTypes, Phases
<1>4. TypeOK
  BY <1>1, <1>2, <1>3, EmptyQueueType DEF Init, TypeOK, WorkerTypes
<1>5. VersionsKept /\ WorkerHolds
  BY <1>1, <1>2, <1>3 DEF Init, VersionsKept, WorkerHolds
<1> QED BY <1>4, <1>5 DEF Typed

\* TypeOK holds: every version of a policy, wherever the informer, the cache and
\* the worker keep it, is a policy, and the counters stay within their width.
THEOREM PolicyTyped == Spec => []TypeOK
<1>1. Init => Typed
  BY InitTyped
<1>2. Typed /\ [Next]_vars => Typed'
  BY NextTyped
<1>3. Typed => TypeOK
  BY DEF Typed
<1> QED BY <1>1, <1>2, <1>3, PTL DEF Spec

\* The totals of a compliance summary are the sums of its entries modulo the width
\* of the counters, and no hub has two entries, however many hubs there are: the
\* differences that updateGlobalHubPolicy adds in unsigned arithmetic never drift,
\* whatever status syncers and users write between its read and its update.
THEOREM TotalsNeverDrift == Spec => []TotalsMatch
<1>1. Init => Typed
  BY InitTyped
<1>2. Typed /\ [Next]_vars => Typed'
  BY NextTyped
<1>3. Typed => TotalsMatch
  <2> SUFFICES ASSUME Typed PROVE TotalsMatch
    OBVIOUS
  <2> DEFINE sum == store[Global].summary
  <2>1. OneEntryEach(sum) /\ TotalsRight(sum)
    BY DEF Typed, VersionsKept, Versions, Namespaces, Sound
  <2> QED BY <2>1 DEF OneEntryEach, TotalsRight, Total, TotalsMatch
<1> QED BY <1>1, <1>2, <1>3, PTL DEF Spec

-------------------------------------------------------------------------------
(* What the cache and the queue know of the stored policies.               *)

\* The key that the worker holds is being processed, and the policy that it is
\* about to update has been given its own namespace as a label.
WorkSerialised ==
    /\ worker.pc # "idle" => worker.key \in queue.processing
    /\ worker.pc = "label" => worker.obj.label = worker.key

\* The events to come end with the policy as it is stored; when there are none
\* the cache holds it, but for a label that Process has set in the cache.
CacheFollows ==
    \A n \in Namespaces :
        /\ stream[n] # <<>> => I!CacheAfter(stream[n][Len(stream[n])]) = store[n]
        /\ stream[n] = <<>> => cache[n] = store[n] \/ store[n].label = NoLabel

\* The writes of users and status syncers, as the API server sees them.
LEMMA ClientEffect ==
    ASSUME Typed, ClientStep
    PROVE  /\ UNCHANGED <<cache, notify, queue, worker, failed>>
           /\ writes' = writes + 1
           /\ \E n \in Namespaces : \E o \in Versions(n) :
                 /\ Write(n, o)
                 /\ o.spec = writes + 1 \/ o.spec = store[n].spec
                 /\ n = Global => o.summary = store[n].summary
                 /\ n # Global => \/ o.label = store[n].label /\ store[n] # Absent
                                  \/ /\ kind = "policies"
                                     /\ o.label = Global => store[Global] # Absent
                 /\ created' = IF n = Global /\ store[Global] = Absent
                               THEN revision + 1 ELSE created
<1>t. /\ Global \in Namespaces /\ Hubs \subseteq Namespaces
      /\ \A h \in Hubs : h # Global
      /\ Absent.label # Global
  BY PolicyAssumption DEF Namespaces, Absent
<1>1. UNCHANGED <<cache, notify, queue, worker, failed>> /\ writes' = writes + 1
  BY DEF ClientStep, UserWrite, HubCreates, HubReports, process
<1>2. ASSUME NEW keepLabel \in BOOLEAN, UserWrite(keepLabel)
      PROVE  \E o \in Versions(Global) : /\ Write(Global, o)
                                         /\ o.spec = writes + 1
                                         /\ o.summary = store[Global].summary
  BY <1>2, Requests
<1>c. /\ \A keepLabel \in BOOLEAN : UserWrite(keepLabel) =>
            created' = IF store[Global] = Absent THEN revision + 1 ELSE created
      /\ \A h \in Hubs : /\ \A label \in HubLabels : HubCreates(h, label) => created' = created
                         /\ \A status \in Statuses :
                               HubReports(h, status) => created' = created
  BY DEF UserWrite, HubCreates, HubReports
<1>3. ASSUME NEW h \in Hubs, NEW label \in HubLabels, HubCreates(h, label)
      PROVE  \E o \in Versions(h) : /\ Write(h, o)
                                    /\ o.spec = writes + 1
                                    /\ kind = "policies"
                                    /\ o.label = Global => store[Global] # Absent
  <2>1. \E o \in Versions(h) : Write(h, o) /\ o.spec = writes + 1 /\ o.label = label
    BY <1>3, Requests
  <2>2. kind = "policies" /\ (label = Global => store[Global].label = Global)
    BY <1>3 DEF HubCreates
  <2> QED BY <1>t, <2>1, <2>2
<1>4. ASSUME NEW h \in Hubs, NEW status \in Statuses, HubReports(h, status)
      PROVE  \E o \in Versions(h) : /\ Write(h, o)
                                    /\ o.spec = store[h].spec
                                    /\ o.label = store[h].label /\ store[h] # Absent
  <2>1. store[h] # Absent
    BY <1>4 DEF HubReports
  <2> QED BY <1>4, <2>1, Requests
<1>5. \E n \in Namespaces : \E o \in Versions(n) :
         /\ Write(n, o)
         /\ o.spec = writes + 1 \/ o.spec = store[n].spec
         /\ n = Global => o.summary = store[n].summary
         /\ n # Global => \/ o.label = store[n].label /\ store[n] # Absent
                          \/ /\ kind = "policies"
                             /\ o.label = Global => store[Global] # Absent
         /\ created' = IF n = Global /\ store[Global] = Absent
                       THEN revision + 1 ELSE created
  <2>1. CASE \E keepLabel \in BOOLEAN : UserWrite(keepLabel)
    BY <1>t, <1>2, <1>c, <2>1
  <2>2. CASE \E h \in Hubs : \E label \in HubLabels : HubCreates(h, label)
    BY <1>t, <1>3, <1>c, <2>2
  <2>3. CASE \E h \in Hubs : \E status \in Statuses : HubReports(h, status)
    BY <1>t, <1>4, <1>c, <2>3
  <2> QED BY <2>1, <2>2, <2>3 DEF ClientStep
<1> QED BY <1>1, <1>5

\* What a step does to the store, the events and the cache.
LEMMA StepKinds ==
    ASSUME Typed, [Next]_vars
    PROVE  \/ UNCHANGED <<store, revision, stream, cache>>
           \/ \E n \in Namespaces, p \in Policies : Put(n, p) /\ UNCHANGED cache
           \/ UserDelete
           \/ \E n \in Namespaces : InformerStep(n)
           \/ Process \/ Relist \/ Restart
<1>v. \A n \in Namespaces : Versions(n) \subseteq Policies
  BY DEF Versions
<1>1. CASE ClientStep
  <2>1. PICK n \in Namespaces : \E o \in Versions(n) : Write(n, o)
    BY <1>1, ClientEffect
  <2>2. UNCHANGED cache
    BY <1>1, ClientEffect
  <2> QED BY <1>v, <2>1, <2>2, WriteEffect
<1>2. CASE UpdateLabel
  <2>1. /\ worker.pc = "label" /\ UNCHANGED cache
        /\ \/ Write(worker.key, Updated(worker.key, worker.obj))
           \/ UNCHANGED <<store, revision, stream>>
    BY <1>2, UpdateLabelCases
  <2>2. worker.key \in Namespaces /\ Updated(worker.key, worker.obj) \in Versions(worker.key)
    BY <2>1, WorkerRequests DEF Typed, TypeOK
  <2> QED BY <1>v, <2>1, <2>2, WriteEffect
<1>3. CASE UpdateGlobal
  <2>1. /\ worker.pc = "update" /\ UNCHANGED cache
        /\ \/ Write(Global, Summarised(worker.global))
           \/ UNCHANGED <<store, revision, stream>>
    BY <1>3, UpdateGlobalCases
  <2>2. Global \in Namespaces /\ Summarised(worker.global) \in Versions(Global)
    BY <2>1, WorkerRequests DEF Namespaces
  <2> QED BY <1>v, <2>1, <2>2, WriteEffect
<1>4. CASE (\E n \in Namespaces : enqueue(n) \/ GetItem(n)) \/ GetGlobal \/ FinishItem
              \/ RequestFails \/ Resync
  BY <1>4 DEF enqueue, GetItem, GetGlobal, FinishItem, RequestFails, Resync, server,
              informer
<1>5. CASE UNCHANGED vars
  BY <1>5 DEF vars
<1>6. CASE Next
  <2>1. \/ ClientStep \/ UserDelete
        \/ \E n \in Namespaces : InformerStep(n) \/ enqueue(n) \/ GetItem(n)
        \/ Process \/ UpdateLabel \/ GetGlobal \/ UpdateGlobal \/ FinishItem
        \/ RequestFails \/ Relist \/ Resync \/ Restart
    BY <1>6 DEF Next, Step, WorkerStep, ClientStep
  <2> QED BY <1>1, <1>2, <1>3, <1>4, <2>1
<1> QED BY <1>5, <1>6

\* The last event about a policy that is stored says what is stored, and the last
\* one about a policy that is deleted says that it is gone.
LEMMA LastEvent ==
    ASSUME Typed, NEW n \in Namespaces
    PROVE  /\ \A p \in Policies : Put(n, p) =>
                 /\ stream'[n] # <<>>
                 /\ I!CacheAfter(stream'[n][Len(stream'[n])]) = store'[n]
           /\ UserDelete /\ n = Global =>
                 /\ stream'[n] # <<>>
                 /\ I!CacheAfter(stream'[n][Len(stream'[n])]) = store'[n]
<1>t. /\ stream \in [Namespaces -> Seq(I!Events(Policies))]
      /\ store \in [Namespaces -> Policies]
      /\ stream[n] \in Seq(I!Events(Policies)) /\ Global \in Namespaces
  BY DEF Typed, TypeOK, Namespaces
<1>1. ASSUME NEW p \in Policies, Put(n, p)
      PROVE  /\ stream'[n] # <<>>
             /\ I!CacheAfter(stream'[n][Len(stream'[n])]) = store'[n]
  <2> DEFINE e == [type |-> "modified", obj |-> p]
  <2>1. e \in I!Events(Policies) /\ I!CacheAfter(e) = p
    BY DEF I!Events, I!EventTypes, I!CacheAfter
  <2>2. stream'[n] = Append(stream[n], e) /\ store'[n] = p
    BY <1>1, <1>t DEF Put
  <2> HIDE DEF e
  <2> QED BY <1>t, <2>1, <2>2, AppendLast
<1>2. ASSUME UserDelete, n = Global
      PROVE  /\ stream'[n] # <<>>
             /\ I!CacheAfter(stream'[n][Len(stream'[n])]) = store'[n]
  <2> DEFINE e == [type |-> "deleted", obj |-> store[Global]]
  <2>1. e \in I!Events(Policies) /\ I!CacheAfter(e) = Absent
    BY <1>t DEF I!Events, I!EventTypes, I!CacheAfter
  <2>2. stream'[n] = Append(stream[n], e) /\ store'[n] = Absent
    BY <1>2, <1>t DEF UserDelete
  <2> HIDE DEF e
  <2> QED BY <1>t, <2>1, <2>2, AppendLast
<1> QED BY <1>1, <1>2

\* A list ends with what is stored, and has no event only if nothing is.
LEMMA ListEnds ==
    ASSUME NEW o, NEW c
    PROVE  /\ I!ReList(o, c) # <<>> => I!CacheAfter(I!ReList(o, c)[Len(I!ReList(o, c))]) = o
           /\ I!ReList(o, c) = <<>> => o = Absent /\ c = Absent
           /\ I!FirstList(o) # <<>> => I!CacheAfter(I!FirstList(o)[Len(I!FirstList(o))]) = o
           /\ I!FirstList(o) = <<>> => o = Absent
<1>1. /\ I!CacheAfter([type |-> "replaced", obj |-> o]) = o
      /\ I!CacheAfter([type |-> "initial", obj |-> o]) = o
      /\ I!CacheAfter([type |-> "gone", obj |-> c]) = Absent
  BY DEF I!CacheAfter
<1>2. \A e : <<e>> # <<>> /\ <<e>>[Len(<<e>>)] = e
  OBVIOUS
<1>3. CASE o # Absent
  BY <1>1, <1>2, <1>3 DEF I!ReList, I!FirstList
<1>4. CASE o = Absent
  BY <1>1, <1>2, <1>4 DEF I!ReList, I!FirstList
<1> QED BY <1>3, <1>4

\* What an informer's step makes of the events and the cache of a policy.
LEMMA InformerEffect ==
    ASSUME Typed, CacheFollows, NEW n \in Namespaces, InformerStep(n)
    PROVE  /\ UNCHANGED <<store, revision, queue, worker, failed, writes>>
           /\ \A m \in Namespaces \ {n} : /\ stream'[m] = stream[m] /\ cache'[m] = cache[m]
                                          /\ notify'[m] = notify[m]
           /\ notify'[n] >= notify[n]
           /\ stream'[n] # <<>> => I!CacheAfter(stream'[n][Len(stream'[n])]) = store[n]
           /\ stream'[n] = <<>> => cache'[n] = store[n]
           /\ stream'[n] = <<>> /\ store[n] # Absent => notify'[n] > 0
<1> DEFINE s == stream[n]
<1>t. /\ s \in Seq(I!Events(Policies)) /\ s # <<>>
      /\ stream \in [Namespaces -> Seq(I!Events(Policies))]
      /\ cache \in [Namespaces -> Policies]
      /\ notify \in [Namespaces -> Nat]
      /\ I!CacheAfter(s[Len(s)]) = store[n]
  BY DEF Typed, TypeOK, CacheFollows, InformerStep
<1>1. /\ cache' = [cache EXCEPT ![n] = I!CacheAfter(Head(s))]
      /\ notify' = [notify EXCEPT ![n] = IF Head(s).type = "gone"
                                         THEN notify[n] ELSE notify[n] + 1]
      /\ stream' = [stream EXCEPT ![n] = Tail(s)]
      /\ UNCHANGED <<store, revision, queue, worker, failed, writes>>
  BY DEF InformerStep, server, counters
<1> HIDE DEF s
<1>2. /\ Tail(s) = <<>> => Head(s) = s[Len(s)]
      /\ Tail(s) # <<>> => Tail(s)[Len(Tail(s))] = s[Len(s)]
  BY <1>t, TailLast
<1>3. stream'[n] = Tail(s) /\ cache'[n] = I!CacheAfter(Head(s))
  BY <1>t, <1>1
<1>4. \A m \in Namespaces \ {n} : /\ stream'[m] = stream[m] /\ cache'[m] = cache[m]
                                  /\ notify'[m] = notify[m]
  BY <1>t, <1>1
<1>5. notify[n] \in Nat /\ notify'[n] = IF Head(s).type = "gone" THEN notify[n]
                                        ELSE notify[n] + 1
  BY <1>t, <1>1
<1>6. I!CacheAfter(Head(s)) # Absent => Head(s).type # "gone"
  BY DEF I!CacheAfter
<1>7. notify'[n] >= notify[n] /\ (Head(s).type # "gone" => notify'[n] > 0)
  BY <1>5
<1> QED BY <1>t, <1>1, <1>2, <1>3, <1>4, <1>6, <1>7

\* The cache keeps following the stored policies.
LEMMA NextFollows ==
    ASSUME Typed, CacheFollows, [Next]_vars
    PROVE  CacheFollows'
<1>t. /\ stream \in [Namespaces -> Seq(I!Events(Policies))]
      /\ store \in [Namespaces -> Policies]
      /\ cache \in [Namespaces -> Policies]
  BY DEF Typed, TypeOK
<1>1. CASE UNCHANGED <<store, revision, stream, cache>>
  BY <1>1 DEF CacheFollows
<1>2. ASSUME NEW n \in Namespaces, NEW p \in Policies, Put(n, p), UNCHANGED cache
      PROVE  CacheFollows'
  <2>1. \A m \in Namespaces \ {n} : stream'[m] = stream[m] /\ store'[m] = store[m]
    BY <1>t, <1>2 DEF Put
  <2> QED BY <1>2, <2>1, LastEvent DEF CacheFollows
<1>3. CASE UserDelete
  <2>1. \A m \in Namespaces \ {Global} : stream'[m] = stream[m] /\ store'[m] = store[m]
    BY <1>t, <1>3 DEF UserDelete
  <2>2. UNCHANGED cache
    BY <1>3 DEF UserDelete
  <2> QED BY <1>3, <2>1, <2>2, LastEvent DEF CacheFollows
<1>4. ASSUME NEW n \in Namespaces, InformerStep(n)
      PROVE  CacheFollows'
  BY <1>4, InformerEffect DEF CacheFollows
<1>5. CASE Process
  <2> DEFINE n == worker.key
  <2>1. /\ UNCHANGED <<store, stream>>
        /\ \/ UNCHANGED cache
           \/ /\ cache[n].label = NoLabel
              /\ cache' = [cache EXCEPT ![n] = [cache[n] EXCEPT !.label = n]]
    BY <1>5, ProcessCases
  <2>2. n \in Namespaces
    BY DEF Typed, TypeOK
  <2> HIDE DEF n
  <2>3. \A m \in Namespaces : cache'[m] = cache[m] \/ cache[m].label = NoLabel
    BY <1>t, <2>1, <2>2
  <2> QED BY <2>1, <2>3 DEF CacheFollows
<1>6. CASE Relist
  <2>1. /\ \A n \in Namespaces : stream'[n] = I!ReList(store[n], cache[n])
        /\ UNCHANGED <<store, cache>>
    BY <1>6 DEF Relist, server
  <2> QED BY <2>1, ListEnds DEF CacheFollows
<1>7. CASE Restart
  <2>1. /\ \A n \in Namespaces : stream'[n] = I!FirstList(store[n]) /\ cache'[n] = Absent
        /\ UNCHANGED store
    BY <1>7 DEF Restart, server
  <2> QED BY <2>1, ListEnds DEF CacheFollows
<1> QED BY <1>1, <1>2, <1>3, <1>4, <1>5, <1>6, <1>7, StepKinds

\* The worker keeps its key in processing.
LEMMA NextSerialised ==
    ASSUME Typed, WorkSerialised, [Next]_vars
    PROVE  WorkSerialised'
<1>t. /\ worker \in WorkerTypes /\ queue \in Queues(Namespaces)
      /\ worker.key \in Namespaces
  BY DEF Typed, TypeOK, WorkerTypes
<1>1. CASE UNCHANGED <<worker, queue>>
  BY <1>1 DEF WorkSerialised
<1>2. CASE worker.pc # "idle" /\ worker' = [worker EXCEPT !.pc = "done"] /\ UNCHANGED queue
  BY <1>t, <1>2 DEF WorkSerialised, WorkerTypes
<1>3. CASE worker' = IdleWorker
  BY <1>3 DEF WorkSerialised, IdleWorker
<1>4. ASSUME NEW n \in Namespaces, enqueue(n)
      PROVE  WorkSerialised'
  <2>1. queue'.processing = queue.processing /\ UNCHANGED worker
    BY <1>t, <1>4, QueueOperations DEF enqueue
  <2> QED BY <2>1 DEF WorkSerialised
<1>5. ASSUME NEW n \in Namespaces, GetItem(n)
      PROVE  WorkSerialised'
  <2>1. n \in queue'.processing
    <3>1. queue' = Get(queue, n)
      BY <1>5 DEF GetItem
    <3>2. Get(queue, n).processing = queue.processing \cup {n}
      BY <1>t, QueueOperations
    <3> QED BY <3>1, <3>2
  <2>2. worker'.key = n /\ worker'.pc = "process"
    <3>1. worker' = [worker EXCEPT !.pc = "process", !.key = n]
      BY <1>5 DEF GetItem
    <3> QED BY <1>t, <3>1 DEF WorkerTypes
  <2> QED BY <2>1, <2>2 DEF WorkSerialised
<1>6. CASE Process
  <2> DEFINE l == [cache[worker.key] EXCEPT !.label = worker.key]
  <2>1. /\ worker.pc = "process" /\ UNCHANGED queue
        /\ \/ worker' = [worker EXCEPT !.pc = "done"]
           \/ worker' = [worker EXCEPT !.pc = "label", !.obj = l]
           \/ worker' = [worker EXCEPT !.pc = "get", !.obj = cache[worker.key],
                                       !.tries = Steps]
    BY <1>6, ProcessCases
  <2>2. l.label = worker.key
    BY <1>t DEF Typed, TypeOK, Policies
  <2> HIDE DEF l
  <2>3. /\ worker'.key = worker.key
        /\ worker'.pc = "label" => worker'.obj = l
        /\ worker'.pc # "idle"
    <3>1. CASE worker' = [worker EXCEPT !.pc = "done"]
      BY <1>t, <3>1 DEF WorkerTypes
    <3>2. CASE worker' = [worker EXCEPT !.pc = "label", !.obj = l]
      BY <1>t, <3>2 DEF WorkerTypes
    <3>3. CASE worker' = [worker EXCEPT !.pc = "get", !.obj = cache[worker.key],
                                        !.tries = Steps]
      BY <1>t, <3>3 DEF WorkerTypes
    <3> QED BY <2>1, <3>1, <3>2, <3>3
  <2> QED BY <2>1, <2>2, <2>3 DEF WorkSerialised
<1>7. CASE GetGlobal
  <2>1. /\ worker.pc = "get" /\ UNCHANGED queue
        /\ \/ worker' = [worker EXCEPT !.pc = "done"]
           \/ worker' = [worker EXCEPT !.pc = "update", !.global = store[worker.obj.label]]
    BY <1>7 DEF GetGlobal
  <2>2. worker'.key = worker.key /\ worker'.pc \in {"done", "update"}
    BY <1>t, <2>1 DEF WorkerTypes
  <2> QED BY <2>1, <2>2 DEF WorkSerialised
<1>8. CASE UpdateGlobal
  <2>1. /\ worker.pc = "update" /\ UNCHANGED queue
        /\ \/ worker' = [worker EXCEPT !.pc = "done"]
           \/ worker' = [worker EXCEPT !.pc = "get", !.tries = @ - 1]
    BY <1>8, UpdateGlobalCases
  <2>2. worker'.key = worker.key /\ worker'.pc \in {"done", "get"}
    BY <1>t, <2>1 DEF WorkerTypes
  <2> QED BY <2>1, <2>2 DEF WorkSerialised
<1>9. CASE UpdateLabel \/ RequestFails
  BY <1>2, <1>9 DEF UpdateLabel, RequestFails
<1>10. CASE FinishItem \/ Restart
  BY <1>3, <1>10 DEF FinishItem, Restart
<1>11. CASE ClientStep \/ UserDelete \/ Relist \/ Resync
               \/ \E n \in Namespaces : InformerStep(n)
  BY <1>1, <1>11, ClientEffect DEF UserDelete, Relist, Resync, InformerStep
<1>12. CASE UNCHANGED vars
  BY <1>1, <1>12 DEF vars
<1>13. CASE Next
  <2>1. \/ ClientStep \/ UserDelete
        \/ \E n \in Namespaces : InformerStep(n) \/ enqueue(n) \/ GetItem(n)
        \/ Process \/ UpdateLabel \/ GetGlobal \/ UpdateGlobal \/ FinishItem
        \/ RequestFails \/ Relist \/ Resync \/ Restart
    BY <1>13 DEF Next, Step, WorkerStep, ClientStep
  <2> QED BY <1>4, <1>5, <1>6, <1>7, <1>8, <1>9, <1>10, <1>11, <2>1
<1> QED BY <1>12, <1>13

-------------------------------------------------------------------------------
(* LabelledWhenQuiet.                                                      *)

\* The worker will see the policy in n again.
Awaited(n) ==
    \/ notify[n] > 0
    \/ n \in queue.dirty
    \/ worker.pc = "process" /\ worker.key = n

\* A policy without a label will be seen again as it is stored, or is about to be
\* updated by a request that the server will accept.
LabelPending ==
    \A n \in Namespaces :
        store[n] # Absent /\ store[n].label = NoLabel /\ stream[n] = <<>> =>
            \/ cache[n] = store[n] /\ Awaited(n)
            \/ /\ worker.pc = "label" /\ worker.key = n
               /\ worker.obj = [store[n] EXCEPT !.label = n]

\* What a new version, or a deletion, of one policy leaves alone of the others.
LEMMA OthersKept ==
    ASSUME Typed, NEW n \in Namespaces
    PROVE  /\ \A p : Put(n, p) =>
                 \A m \in Namespaces \ {n} : store'[m] = store[m] /\ stream'[m] = stream[m]
           /\ UserDelete /\ n = Global =>
                 \A m \in Namespaces \ {n} : store'[m] = store[m] /\ stream'[m] = stream[m]
<1>1. /\ store \in [Namespaces -> Policies]
      /\ stream \in [Namespaces -> Seq(I!Events(Policies))]
  BY DEF Typed, TypeOK
<1> QED BY <1>1 DEF Put, UserDelete

\* The queue after the steps that change it.
LEMMA QueueEffect ==
    ASSUME Typed, NEW n \in Namespaces
    PROVE  /\ enqueue(n) => queue'.dirty = queue.dirty \cup {n}
           /\ GetItem(n) => /\ queue'.dirty = queue.dirty \ {n}
                            /\ worker.pc = "idle"
                            /\ worker'.pc = "process" /\ worker'.key = n
           /\ FinishItem => queue'.dirty = queue.dirty
<1>t. /\ worker \in WorkerTypes /\ queue \in Queues(Namespaces)
      /\ worker.key \in Namespaces
  BY DEF Typed, TypeOK, WorkerTypes
<1>1. ASSUME enqueue(n) PROVE queue'.dirty = queue.dirty \cup {n}
  <2>1. queue' = Add(queue, n)
    BY <1>1 DEF enqueue
  <2>2. Add(queue, n).dirty = queue.dirty \cup {n}
    BY <1>t, QueueOperations
  <2> QED BY <2>1, <2>2
<1>2. ASSUME GetItem(n)
      PROVE  /\ queue'.dirty = queue.dirty \ {n}
             /\ worker.pc = "idle"
             /\ worker'.pc = "process" /\ worker'.key = n
  <2>1. /\ queue' = Get(queue, n) /\ worker.pc = "idle"
        /\ worker' = [worker EXCEPT !.pc = "process", !.key = n]
    BY <1>2 DEF GetItem
  <2>2. Get(queue, n).dirty = queue.dirty \ {n}
    BY <1>t, QueueOperations
  <2>3. worker'.pc = "process" /\ worker'.key = n
    BY <1>t, <2>1 DEF WorkerTypes
  <2> QED BY <2>1, <2>2, <2>3
<1>3. ASSUME FinishItem PROVE queue'.dirty = queue.dirty
  <2>1. queue' = Done(queue, worker.key)
    BY <1>3 DEF FinishItem
  <2>2. Done(queue, worker.key).dirty = queue.dirty
    BY <1>t, QueueOperations
  <2> QED BY <2>1, <2>2
<1> QED BY <1>1, <1>2, <1>3

\* The steps of others than the worker keep a label pending.
LEMMA LabelKeptByOthers ==
    ASSUME Typed, CacheFollows, LabelPending,
           \/ ClientStep \/ UserDelete \/ Relist \/ Resync \/ Restart
           \/ \E n \in Namespaces : InformerStep(n) \/ enqueue(n)
    PROVE  LabelPending'
<1>t. notify \in [Namespaces -> Nat]
  BY DEF Typed, TypeOK
<1>p. ASSUME NEW n \in Namespaces, UNCHANGED <<cache, notify, queue, worker>>,
             \A m \in Namespaces \ {n} : store'[m] = store[m] /\ stream'[m] = stream[m],
             stream'[n] # <<>>
      PROVE  LabelPending'
  BY <1>p DEF LabelPending, Awaited
<1>1. CASE ClientStep
  <2>1. UNCHANGED <<cache, notify, queue, worker>>
    BY <1>1, ClientEffect
  <2>2. PICK n \in Namespaces : \E o \in Versions(n) : Write(n, o)
    BY <1>1, ClientEffect
  <2>3. CASE UNCHANGED <<store, revision, stream>>
    BY <2>1, <2>3 DEF LabelPending, Awaited
  <2>4. CASE \E p \in Versions(n) : Put(n, p)
    <3>1. PICK p \in Versions(n) : Put(n, p)
      BY <2>4
    <3>2. p \in Policies
      BY DEF Versions
    <3>3. stream'[n] # <<>>
      BY <3>1, <3>2, LastEvent
    <3> QED BY <1>p, <2>1, <3>1, <3>3, OthersKept
  <2> QED BY <2>2, <2>3, <2>4, WriteEffect
<1>2. CASE UserDelete
  <2>1. Global \in Namespaces /\ UNCHANGED <<cache, notify, queue, worker>>
    BY <1>2 DEF UserDelete, Namespaces
  <2> QED BY <1>2, <1>p, <2>1, LastEvent, OthersKept
<1>3. CASE Relist
  <2>1. /\ \A n \in Namespaces : stream'[n] = I!ReList(store[n], cache[n])
        /\ UNCHANGED store
    BY <1>3 DEF Relist, server
  <2> QED BY <2>1, ListEnds DEF LabelPending
<1>4. CASE Restart
  <2>1. /\ \A n \in Namespaces : stream'[n] = I!FirstList(store[n])
        /\ UNCHANGED store
    BY <1>4 DEF Restart, server
  <2> QED BY <2>1, ListEnds DEF LabelPending
<1>5. CASE Resync
  <2>1. /\ \A n \in Namespaces : notify[n] > 0 => notify'[n] > 0
        /\ UNCHANGED <<store, stream, cache, queue, worker>>
    BY <1>5, <1>t DEF Resync, server
  <2> QED BY <2>1 DEF LabelPending, Awaited
<1>6. ASSUME NEW n \in Namespaces, InformerStep(n)
      PROVE  LabelPending'
  <2>1. /\ UNCHANGED <<store, queue, worker>>
        /\ \A m \in Namespaces \ {n} : /\ stream'[m] = stream[m] /\ cache'[m] = cache[m]
                                       /\ notify'[m] = notify[m]
        /\ stream'[n] = <<>> => cache'[n] = store[n]
        /\ stream'[n] = <<>> /\ store[n] # Absent => notify'[n] > 0
    BY <1>6, InformerEffect
  <2> QED BY <2>1 DEF LabelPending, Awaited
<1>7. ASSUME NEW n \in Namespaces, enqueue(n)
      PROVE  LabelPending'
  <2>1. /\ \A m \in Namespaces \ {n} : notify'[m] = notify[m]
        /\ UNCHANGED <<store, stream, cache, worker>>
    BY <1>7, <1>t DEF enqueue, server
  <2>2. queue'.dirty = queue.dirty \cup {n}
    BY <1>7, QueueEffect
  <2> QED BY <2>1, <2>2 DEF LabelPending, Awaited
<1> QED BY <1>1, <1>2, <1>3, <1>4, <1>5, <1>6, <1>7

\* The worker labels a policy that has none.
LEMMA LabelKeptByProcess ==
    ASSUME Typed, LabelPending, Process
    PROVE  LabelPending'
<1> DEFINE n == worker.key
           o == cache[n]
           l == [o EXCEPT !.label = n]
<1>t. worker \in WorkerTypes /\ n \in Namespaces /\ cache \in [Namespaces -> Policies]
  BY DEF Typed, TypeOK, WorkerTypes
<1>1. /\ worker.pc = "process"
      /\ UNCHANGED <<store, revision, stream, notify, queue>>
      /\ \/ /\ Skipped(o, n)
            /\ worker' = [worker EXCEPT !.pc = "done"]
            /\ UNCHANGED cache
         \/ /\ o # Absent /\ o.label = NoLabel
            /\ cache' = [cache EXCEPT ![n] = l]
            /\ worker' = [worker EXCEPT !.pc = "label", !.obj = l]
         \/ /\ o.label = Global
            /\ worker' = [worker EXCEPT !.pc = "get", !.obj = o, !.tries = Steps]
            /\ UNCHANGED cache
  BY ProcessCases
<1>2. NoLabel # Global /\ NoLabel # n
  BY <1>t, PolicyAssumption DEF Namespaces
<1>3. \A m \in Namespaces \ {n} : cache'[m] = cache[m]
  BY <1>t, <1>1
<1>4. ASSUME NEW m \in Namespaces, m # n, store[m] # Absent, store[m].label = NoLabel,
             stream[m] = <<>>
      PROVE  cache'[m] = store'[m] /\ Awaited(m)'
  <2>1. cache[m] = store[m] /\ Awaited(m)
    BY <1>1, <1>4 DEF LabelPending
  <2>2. notify[m] > 0 \/ m \in queue.dirty
    BY <1>1, <1>4, <2>1 DEF Awaited
  <2> QED BY <1>1, <1>3, <1>4, <2>1, <2>2 DEF Awaited
<1>5. ASSUME store[n] # Absent, store[n].label = NoLabel, stream[n] = <<>>
      PROVE  /\ worker'.pc = "label" /\ worker'.key = n
             /\ worker'.obj = [store'[n] EXCEPT !.label = n]
  <2>1. o = store[n]
    BY <1>t, <1>1, <1>5 DEF LabelPending
  <2>2. ~Skipped(o, n) /\ o.label = NoLabel
    BY <1>2, <1>5, <2>1 DEF Skipped, BindingSkipped, RuleSkipped
  <2>3. worker' = [worker EXCEPT !.pc = "label", !.obj = l]
    BY <1>1, <1>2, <2>2
  <2>4. l = [store'[n] EXCEPT !.label = n]
    BY <1>1, <2>1
  <2> HIDE DEF l
  <2>5. worker'.pc = "label" /\ worker'.key = n /\ worker'.obj = l
    BY <1>t, <2>3 DEF WorkerTypes
  <2> QED BY <2>4, <2>5
<1> HIDE DEF n
<1>6. \A m \in Namespaces :
         store'[m] # Absent /\ store'[m].label = NoLabel /\ stream'[m] = <<>> =>
            \/ cache'[m] = store'[m] /\ Awaited(m)'
            \/ /\ worker'.pc = "label" /\ worker'.key = m
               /\ worker'.obj = [store'[m] EXCEPT !.label = m]
  BY <1>1, <1>4, <1>5
<1> QED BY <1>6 DEF LabelPending

\* The rest of the worker's steps keep a label pending, or write it.
LEMMA LabelKeptByWorker ==
    ASSUME Typed, WorkSerialised, LabelPending,
           \/ UpdateLabel \/ GetGlobal \/ UpdateGlobal \/ FinishItem
           \/ \E n \in Namespaces : GetItem(n)
    PROVE  LabelPending'
<1>t. /\ worker \in WorkerTypes /\ worker.key \in Namespaces /\ Global \in Namespaces
      /\ NoLabel \notin Namespaces
      /\ store \in [Namespaces -> Policies]
  BY PolicyAssumption DEF Typed, TypeOK, WorkerTypes, Namespaces
<1>1. CASE UpdateLabel
  <2> DEFINE n == worker.key
             o == Updated(n, worker.obj)
  <2>1. /\ worker.pc = "label"
        /\ worker' = [worker EXCEPT !.pc = "done"]
        /\ UNCHANGED <<cache, notify, queue>>
        /\ \/ Write(n, o)
           \/ /\ ~(store[n] # Absent /\ store[n].rv = worker.obj.rv)
              /\ UNCHANGED <<store, revision, stream>>
    BY <1>1, UpdateLabelCases
  <2>2. o \in Versions(n) /\ o.label = n
    BY <2>1, WorkerRequests DEF WorkSerialised
  <2> HIDE DEF o, n
  <2>3. ASSUME NEW m \in Namespaces, m # n, store[m] # Absent, store[m].label = NoLabel,
               stream[m] = <<>>, cache'[m] = cache[m]
        PROVE  cache'[m] = store[m] /\ Awaited(m)'
    <3>1. cache[m] = store[m] /\ Awaited(m)
      BY <2>3 DEF LabelPending, n
    <3>2. notify[m] > 0 \/ m \in queue.dirty
      BY <2>1, <3>1 DEF Awaited
    <3> QED BY <2>1, <2>3, <3>1, <3>2 DEF Awaited
  <2>4. n \in Namespaces
    BY <1>t DEF n
  <2>5. CASE Write(n, o)
    <3>1. /\ store'[n].label # NoLabel
          /\ \A m \in Namespaces \ {n} : store'[m] = store[m] /\ stream'[m] = stream[m]
      <4>1. CASE UNCHANGED <<store, revision, stream>> /\ o = store[n]
        BY <1>t, <2>2, <2>4, <4>1
      <4>2. ASSUME NEW p, Put(n, p), p.label = o.label
            PROVE  /\ store'[n].label # NoLabel
                   /\ \A m \in Namespaces \ {n} : store'[m] = store[m] /\ stream'[m] = stream[m]
        <5>1. store'[n] = p
          BY <1>t, <2>4, <4>2 DEF Put
        <5> QED BY <1>t, <2>2, <2>4, <4>2, <5>1, OthersKept
      <4> QED BY <2>2, <2>4, <2>5, <4>1, <4>2, WriteEffect
    <3> QED BY <2>1, <2>3, <3>1 DEF LabelPending
  <2>6. CASE /\ ~(store[n] # Absent /\ store[n].rv = worker.obj.rv)
             /\ UNCHANGED <<store, revision, stream>>
    <3>1. ASSUME store[n] # Absent, store[n].label = NoLabel, stream[n] = <<>>
          PROVE  cache[n] = store[n] /\ (notify[n] > 0 \/ n \in queue.dirty)
      <4>1. worker.obj # [store[n] EXCEPT !.label = n]
        <5>1. store[n] \in Policies
          BY <1>t, <2>4
        <5>2. [store[n] EXCEPT !.label = n].rv = store[n].rv
          BY <5>1 DEF Policies
        <5> QED BY <2>6, <3>1, <5>2
      <4> QED BY <2>1, <2>4, <3>1, <4>1 DEF LabelPending, Awaited
    <3> QED BY <2>1, <2>3, <2>6, <3>1 DEF LabelPending, Awaited
  <2> QED BY <2>1, <2>5, <2>6
<1>q. ASSUME worker.pc \notin {"label", "process"},
             UNCHANGED <<cache, notify>>, queue'.dirty = queue.dirty,
             \A m \in Namespaces :
                \/ store'[m] = store[m] /\ stream'[m] = stream[m]
                \/ stream'[m] # <<>>
      PROVE  LabelPending'
  <2>1. ASSUME NEW m \in Namespaces, store'[m] # Absent, store'[m].label = NoLabel,
               stream'[m] = <<>>
        PROVE  cache'[m] = store'[m] /\ Awaited(m)'
    <3>1. cache[m] = store[m] /\ Awaited(m)
      BY <1>q, <2>1 DEF LabelPending
    <3>2. notify[m] > 0 \/ m \in queue.dirty
      BY <1>q, <3>1 DEF Awaited
    <3> QED BY <1>q, <2>1, <3>1, <3>2 DEF Awaited
  <2> QED BY <2>1 DEF LabelPending
<1>2. CASE GetGlobal
  <2>1. worker.pc = "get" /\ UNCHANGED <<store, stream, cache, notify, queue>>
    BY <1>2 DEF GetGlobal, server, informer
  <2> QED BY <1>q, <2>1
<1>3. CASE UpdateGlobal
  <2>1. /\ worker.pc = "update"
        /\ UNCHANGED <<cache, notify, queue>>
        /\ \/ Write(Global, Summarised(worker.global))
           \/ UNCHANGED <<store, revision, stream>>
    BY <1>3, UpdateGlobalCases
  <2>2. Summarised(worker.global) \in Versions(Global)
    BY <2>1, WorkerRequests
  <2>3. ASSUME NEW p \in Versions(Global), Put(Global, p)
        PROVE  \A m \in Namespaces : \/ store'[m] = store[m] /\ stream'[m] = stream[m]
                                     \/ stream'[m] # <<>>
    <3>1. p \in Policies
      BY DEF Versions
    <3> QED BY <1>t, <2>3, <3>1, LastEvent, OthersKept
  <2>4. \A m \in Namespaces : \/ store'[m] = store[m] /\ stream'[m] = stream[m]
                              \/ stream'[m] # <<>>
    BY <1>t, <2>1, <2>2, <2>3, WriteEffect
  <2> QED BY <1>q, <2>1, <2>4
<1>4. CASE FinishItem
  <2>1. worker.pc = "done" /\ UNCHANGED <<store, stream, cache, notify>>
    BY <1>4 DEF FinishItem, server, informer
  <2>2. queue'.dirty = queue.dirty
    BY <1>t, <1>4, QueueEffect
  <2> QED BY <1>q, <2>1, <2>2
<1>5. ASSUME NEW n \in Namespaces, GetItem(n)
      PROVE  LabelPending'
  <2>1. UNCHANGED <<store, stream, cache, notify>>
    BY <1>5 DEF GetItem, server, informer
  <2>2. /\ queue'.dirty = queue.dirty \ {n}
        /\ worker.pc = "idle" /\ worker'.pc = "process" /\ worker'.key = n
    BY <1>5, QueueEffect
  <2> QED BY <2>1, <2>2 DEF LabelPending, Awaited
<1> QED BY <1>1, <1>2, <1>3, <1>4, <1>5

\* A label stays pending while no request fails.
LEMMA NextLabel ==
    ASSUME Typed, WorkSerialised, CacheFollows, ~failed => LabelPending, [Next]_vars
    PROVE  ~failed' => LabelPending'
<1> SUFFICES ASSUME ~failed' PROVE LabelPending'
  OBVIOUS
<1>1. CASE Restart
  <2>1. /\ \A n \in Namespaces : stream'[n] = I!FirstList(store[n])
        /\ UNCHANGED store
    BY <1>1 DEF Restart, server
  <2> QED BY <2>1, ListEnds DEF LabelPending
<1>2. CASE RequestFails
  BY <1>2 DEF RequestFails
<1>3. CASE UNCHANGED vars
  BY <1>3 DEF vars, LabelPending, Awaited
<1>4. ASSUME \/ ClientStep \/ UserDelete \/ Relist \/ Resync
             \/ \E n \in Namespaces : InformerStep(n) \/ enqueue(n)
      PROVE  LabelPending'
  <2>1. failed' = failed
    BY <1>4, ClientEffect DEF UserDelete, Relist, Resync, InformerStep, enqueue, counters,
                              process
  <2> QED BY <1>4, <2>1, LabelKeptByOthers
<1>5. ASSUME \/ Process \/ UpdateLabel \/ GetGlobal \/ UpdateGlobal \/ FinishItem
             \/ \E n \in Namespaces : GetItem(n)
      PROVE  LabelPending'
  <2>1. failed' = failed
    BY <1>5 DEF Process, UpdateLabel, GetGlobal, UpdateGlobal, FinishItem, GetItem, counters
  <2> QED BY <1>5, <2>1, LabelKeptByProcess, LabelKeptByWorker
<1>6. CASE Next
  <2>1. \/ ClientStep \/ UserDelete
        \/ \E n \in Namespaces : InformerStep(n) \/ enqueue(n) \/ GetItem(n)
        \/ Process \/ UpdateLabel \/ GetGlobal \/ UpdateGlobal \/ FinishItem
        \/ RequestFails \/ Relist \/ Resync \/ Restart
    BY <1>6 DEF Next, Step, WorkerStep, ClientStep
  <2> QED BY <1>1, <1>2, <1>4, <1>5, <2>1
<1> QED BY <1>3, <1>6

\* The inductive invariant behind LabelledWhenQuiet.
LabelInv ==
    /\ Typed
    /\ WorkSerialised
    /\ CacheFollows
    /\ ~failed => LabelPending

\* It holds at the start.
LEMMA InitLabel ==
    ASSUME Init
    PROVE  LabelInv
<1>1. \A n \in Namespaces : store[n] = Absent /\ cache[n] = Absent /\ stream[n] = <<>>
  BY DEF Init
<1>2. worker.pc = "idle"
  BY DEF Init, IdleWorker
<1>3. CacheFollows
  BY <1>1 DEF CacheFollows
<1>4. WorkSerialised /\ LabelPending
  BY <1>1, <1>2 DEF WorkSerialised, LabelPending
<1> QED BY <1>3, <1>4, InitTyped DEF LabelInv

\* LabelledWhenQuiet holds as long as no request has failed since the server was
\* started: a policy that the controller has finished with is labelled, although
\* Process labels the object that the cache holds and drops the error of a refused
\* update.  The event of the change that made the update fail makes up for it.
THEOREM LabelledOnceDone == Spec => [](~failed => LabelledWhenQuiet)
<1>1. Init => LabelInv
  BY InitLabel
<1>2. LabelInv /\ [Next]_vars => LabelInv'
  BY NextTyped, NextSerialised, NextFollows, NextLabel DEF LabelInv
<1>3. LabelInv => (~failed => LabelledWhenQuiet)
  <2> SUFFICES ASSUME LabelInv, ~failed, NEW n \in Namespaces, Quiet(n), store[n] # Absent,
                      store[n].label = NoLabel
               PROVE  FALSE
    BY DEF LabelledWhenQuiet
  <2>1. /\ stream[n] = <<>> /\ notify[n] = 0
        /\ n \notin queue.dirty /\ n \notin queue.processing
    BY DEF Quiet, Idle
  <2>2. worker.pc # "idle" => worker.key # n
    BY <2>1 DEF LabelInv, WorkSerialised
  <2>3. ~(notify[n] > 0)
    BY <2>1
  <2>4. worker.pc \notin {"label", "process"} \/ worker.key # n
    BY <2>2
  <2>5. ~Awaited(n)
    BY <2>1, <2>3, <2>4 DEF Awaited
  <2>6. LabelPending
    BY DEF LabelInv
  <2> QED BY <2>1, <2>4, <2>5, <2>6 DEF LabelPending
<1> QED BY <1>1, <1>2, <1>3, PTL DEF Spec

-------------------------------------------------------------------------------
(* NoLostWrite.                                                            *)

\* A version o that someone holds of a policy is not newer than revision r, and has
\* the content of the stored policy s if it has its resource version.
Genuine(s, r, o) == o.rv <= r /\ (s # Absent /\ o.rv = s.rv => o.spec = s.spec)

\* Resource versions and contents grow with the writes.
StoreAges ==
    \A n \in Namespaces : /\ store[n] # Absent => store[n].rv >= 1
                          /\ store[n].rv <= revision
                          /\ store[n].spec <= writes

\* The versions in the cache and in the events to come are genuine ...
CacheGenuine ==
    \A n \in Namespaces :
        /\ Genuine(store[n], revision, cache[n])
        /\ \A i \in DOMAIN stream[n] : Genuine(store[n], revision, stream[n][i].obj)

\* ... and so are those the worker writes back: what it has read of the policy of
\* the global hub is that policy while the resource version stays.
WorkerGenuine ==
    /\ worker.pc = "label" => Genuine(store[worker.key], revision, worker.obj)
    /\ worker.pc = "update" =>
          /\ worker.global.rv <= revision
          /\ store[Global] # Absent /\ worker.global.rv = store[Global].rv =>
                worker.global = store[Global]

\* What the worker has in hand after a step.
LEMMA WorkerMoves ==
    ASSUME Typed, [Next]_vars
    PROVE  \/ UNCHANGED worker
           \/ worker'.pc \in {"idle", "done"}
           \/ \E n \in Namespaces : GetItem(n) /\ worker'.pc = "process"
           \/ /\ Process /\ worker'.pc = "label"
              /\ worker'.key = worker.key
              /\ worker'.obj = [cache[worker.key] EXCEPT !.label = worker.key]
           \/ /\ Process /\ worker'.pc = "get"
              /\ worker'.key = worker.key
              /\ worker'.obj = cache[worker.key]
           \/ /\ GetGlobal /\ worker.pc = "get" /\ worker'.pc = "update"
              /\ worker'.key = worker.key /\ worker'.obj = worker.obj
              /\ worker'.global = store[Global]
           \/ /\ UpdateGlobal /\ worker.pc = "update" /\ worker'.pc = "get"
              /\ worker'.key = worker.key /\ worker'.obj = worker.obj
<1>t. worker \in WorkerTypes
  BY DEF Typed, TypeOK, WorkerTypes
<1>1. CASE UNCHANGED vars
  BY <1>1 DEF vars
<1>2. CASE ClientStep \/ UserDelete \/ Relist \/ Resync
              \/ \E n \in Namespaces : InformerStep(n) \/ enqueue(n)
  BY <1>2, ClientEffect DEF UserDelete, Relist, Resync, InformerStep, enqueue
<1>3. CASE worker' = [worker EXCEPT !.pc = "done"]
  BY <1>t, <1>3 DEF WorkerTypes
<1>4. CASE worker' = IdleWorker
  BY <1>4 DEF IdleWorker
<1>5. CASE UpdateLabel \/ RequestFails
  BY <1>3, <1>5 DEF UpdateLabel, RequestFails
<1>6. CASE FinishItem \/ Restart
  BY <1>4, <1>6 DEF FinishItem, Restart
<1>7. CASE \E n \in Namespaces : GetItem(n)
  BY <1>7, QueueEffect
<1>8. CASE Process
  <2> DEFINE o == cache[worker.key]
             l == [o EXCEPT !.label = worker.key]
  <2>1. \/ worker' = [worker EXCEPT !.pc = "done"]
        \/ worker' = [worker EXCEPT !.pc = "label", !.obj = l]
        \/ worker' = [worker EXCEPT !.pc = "get", !.obj = o, !.tries = Steps]
    BY <1>8, ProcessCases
  <2> HIDE DEF l, o
  <2>2. CASE worker' = [worker EXCEPT !.pc = "label", !.obj = l]
    <3>1. worker'.pc = "label" /\ worker'.key = worker.key /\ worker'.obj = l
      BY <1>t, <2>2 DEF WorkerTypes
    <3> QED BY <1>8, <3>1 DEF l, o
  <2>3. CASE worker' = [worker EXCEPT !.pc = "get", !.obj = o, !.tries = Steps]
    <3>1. worker'.pc = "get" /\ worker'.key = worker.key /\ worker'.obj = o
      BY <1>t, <2>3 DEF WorkerTypes
    <3> QED BY <1>8, <3>1 DEF o
  <2> QED BY <1>3, <2>1, <2>2, <2>3
<1>9. CASE GetGlobal
  <2> DEFINE g == store[Global]
  <2>1. worker.pc = "get" /\ worker.obj.label = Global
    BY <1>9 DEF GetGlobal, Typed, WorkerHolds
  <2>2. \/ worker' = [worker EXCEPT !.pc = "done"]
        \/ worker' = [worker EXCEPT !.pc = "update", !.global = g]
    BY <1>9, <2>1 DEF GetGlobal
  <2> HIDE DEF g
  <2>3. CASE worker' = [worker EXCEPT !.pc = "update", !.global = g]
    <3>1. /\ worker'.pc = "update" /\ worker'.key = worker.key
          /\ worker'.obj = worker.obj /\ worker'.global = g
      BY <1>t, <2>3 DEF WorkerTypes
    <3> QED BY <1>9, <2>1, <3>1 DEF g
  <2> QED BY <1>3, <2>2, <2>3
<1>10. CASE UpdateGlobal
  <2>1. /\ worker.pc = "update"
        /\ \/ worker' = [worker EXCEPT !.pc = "done"]
           \/ worker' = [worker EXCEPT !.pc = "get", !.tries = @ - 1]
    BY <1>10, UpdateGlobalCases
  <2>2. CASE worker' = [worker EXCEPT !.pc = "get", !.tries = @ - 1]
    <3>1. worker'.pc = "get" /\ worker'.key = worker.key /\ worker'.obj = worker.obj
      BY <1>t, <2>2 DEF WorkerTypes
    <3> QED BY <1>10, <2>1, <3>1
  <2> QED BY <1>3, <2>1, <2>2
<1>11. CASE Next
  <2>1. \/ ClientStep \/ UserDelete
        \/ \E n \in Namespaces : InformerStep(n) \/ enqueue(n) \/ GetItem(n)
        \/ Process \/ UpdateLabel \/ GetGlobal \/ UpdateGlobal \/ FinishItem
        \/ RequestFails \/ Relist \/ Resync \/ Restart
    BY <1>11 DEF Next, Step, WorkerStep, ClientStep
  <2> QED BY <1>2, <1>5, <1>6, <1>7, <1>8, <1>9, <1>10, <2>1
<1> QED BY <1>1, <1>11

\* What a step does to the stored policies: nothing, a new version of one of them
\* with a fresh resource version, or a deletion.
LEMMA StoreMoves ==
    ASSUME Typed, [Next]_vars
    PROVE  \/ UNCHANGED <<store, revision>>
           \/ \E n \in Namespaces, p \in Policies : Put(n, p)
           \/ UserDelete
BY StepKinds DEF InformerStep, Process, Relist, Restart, server

\* A genuine version stays one.
LEMMA GenuineKept ==
    ASSUME Typed, [Next]_vars, NEW n \in Namespaces, NEW o \in Policies,
           Genuine(store[n], revision, o)
    PROVE  Genuine(store'[n], revision', o)
<1>t. /\ store \in [Namespaces -> Policies] /\ revision \in Nat /\ o.rv \in Nat
      /\ o.rv <= revision
  BY DEF Typed, TypeOK, Policies, Genuine
<1>1. CASE UNCHANGED <<store, revision>>
  BY <1>1
<1>2. ASSUME NEW m \in Namespaces, NEW p \in Policies, Put(m, p)
      PROVE  Genuine(store'[n], revision', o)
  <2>1. /\ store' = [store EXCEPT ![m] = p] /\ revision' = revision + 1
        /\ p.rv = revision + 1
    BY <1>2 DEF Put
  <2>2. o.rv <= revision' /\ o.rv # p.rv
    BY <1>t, <2>1
  <2>3. store'[n] = IF n = m THEN p ELSE store[n]
    BY <1>t, <2>1
  <2> QED BY <2>2, <2>3 DEF Genuine
<1>3. CASE UserDelete
  <2>1. store' = [store EXCEPT ![Global] = Absent] /\ revision' = revision + 1
    BY <1>3 DEF UserDelete
  <2>2. o.rv <= revision'
    BY <1>t, <2>1
  <2>3. store'[n] = IF n = Global THEN Absent ELSE store[n]
    BY <1>t, <2>1
  <2> QED BY <2>2, <2>3 DEF Genuine
<1> QED BY <1>1, <1>2, <1>3, StoreMoves

\* A policy that is not there is a genuine version, and so is the stored one.
LEMMA GenuineStored ==
    ASSUME Typed, StoreAges, NEW n \in Namespaces
    PROVE  /\ Genuine(store[n], revision, Absent)
           /\ Genuine(store[n], revision, store[n])
<1>1. /\ store[n] \in Policies /\ store[n].rv \in Nat /\ revision \in Nat
      /\ Absent.rv = 0
  BY DEF Typed, TypeOK, Policies, Absent
<1>2. store[n].rv <= revision /\ (store[n] # Absent => store[n].rv >= 1)
  BY DEF StoreAges
<1>3. Absent.rv <= revision
  BY <1>1
<1>4. store[n] # Absent => Absent.rv # store[n].rv
  BY <1>1, <1>2
<1> QED BY <1>2, <1>3, <1>4 DEF Genuine

\* What the stored policies are after a step.
LEMMA NextAges ==
    ASSUME Typed, Typed', StoreAges, WorkerGenuine, [Next]_vars
    PROVE  /\ StoreAges'
           /\ \A n \in Namespaces : store'[n] # Absent => store'[n].spec >= store[n].spec
<1>t. /\ store \in [Namespaces -> Policies] /\ revision \in Nat /\ writes \in Nat
      /\ Global \in Namespaces /\ worker.key \in Namespaces
      /\ \A n \in Namespaces : store[n].rv \in Nat /\ store[n].spec \in Nat
      /\ \A n \in Namespaces : Versions(n) \subseteq Policies
      /\ Absent.rv = 0 /\ Absent.spec = 0
  <2>1. /\ store \in [Namespaces -> Policies] /\ revision \in Nat
        /\ Global \in Namespaces /\ worker.key \in Namespaces
        /\ \A n \in Namespaces : Versions(n) \subseteq Policies
        /\ writes \in 0..MaxWrites
    BY DEF Typed, TypeOK, Versions, Namespaces
  <2>2. writes \in Nat
    BY <2>1, PolicyAssumption
  <2>3. \A p \in Policies : p.rv \in Nat /\ p.spec \in Nat
    BY DEF Policies
  <2>4. Absent.rv = 0 /\ Absent.spec = 0
    BY DEF Absent
  <2> QED BY <2>1, <2>2, <2>3, <2>4
<1>a. \A n \in Namespaces : /\ store[n] # Absent => store[n].rv >= 1
                            /\ store[n].rv <= revision
                            /\ store[n].spec <= writes
  BY DEF StoreAges
<1>k. ASSUME UNCHANGED <<store, revision>>, writes' >= writes, writes' \in Nat
      PROVE  /\ StoreAges'
             /\ \A n \in Namespaces : store'[n] # Absent => store'[n].spec >= store[n].spec
  BY <1>t, <1>a, <1>k DEF StoreAges
<1>p. ASSUME NEW n \in Namespaces, NEW p \in Policies, Put(n, p), writes' >= writes,
             writes' \in Nat, p.spec >= store[n].spec, p.spec <= writes'
      PROVE  /\ StoreAges'
             /\ \A m \in Namespaces : store'[m] # Absent => store'[m].spec >= store[m].spec
  <2>1. /\ store' = [store EXCEPT ![n] = p] /\ revision' = revision + 1
        /\ p.rv = revision + 1
    BY <1>p DEF Put
  <2>2. \A m \in Namespaces : store'[m] = IF m = n THEN p ELSE store[m]
    BY <1>t, <2>1
  <2>3. ASSUME NEW m \in Namespaces
        PROVE  /\ store'[m].rv >= 1 \/ store'[m] = Absent
               /\ store'[m].rv <= revision'
               /\ store'[m].spec <= writes'
               /\ store'[m].spec >= store[m].spec
    <3>1. CASE m = n
      BY <1>t, <1>p, <2>1, <2>2, <3>1
    <3>2. CASE m # n
      BY <1>t, <1>a, <1>p, <2>1, <2>2, <3>2
    <3> QED BY <3>1, <3>2
  <2> QED BY <2>3 DEF StoreAges
<1>1. CASE ClientStep
  <2>1. PICK n \in Namespaces : \E o \in Versions(n) :
           /\ Write(n, o)
           /\ o.spec = writes + 1 \/ o.spec = store[n].spec
    BY <1>1, ClientEffect
  <2>2. PICK o \in Versions(n) : /\ Write(n, o)
                                 /\ o.spec = writes + 1 \/ o.spec = store[n].spec
    BY <2>1
  <2>3. writes' = writes + 1
    BY <1>1, ClientEffect
  <2>4. writes' \in Nat /\ writes' >= writes /\ o.spec <= writes' /\ o.spec >= store[n].spec
    BY <1>t, <1>a, <2>2, <2>3
  <2>5. \/ UNCHANGED <<store, revision>>
        \/ \E p \in Versions(n) : Put(n, p) /\ p.spec = o.spec
    BY <2>2, WriteEffect
  <2> QED BY <1>t, <1>k, <1>p, <2>4, <2>5
<1>2. CASE UpdateLabel
  <2> DEFINE n == worker.key
             o == Updated(n, worker.obj)
  <2>1. /\ worker.pc = "label" /\ UNCHANGED writes
        /\ \/ store[n] # Absent /\ store[n].rv = worker.obj.rv /\ Write(n, o)
           \/ UNCHANGED <<store, revision>>
    BY <1>2, UpdateLabelCases DEF counters
  <2>2. o \in Versions(n) /\ o.spec = worker.obj.spec
    BY <2>1, WorkerRequests
  <2> HIDE DEF o
  <2>3. CASE UNCHANGED <<store, revision>>
    BY <1>t, <1>k, <2>1, <2>3
  <2>4. CASE store[n] # Absent /\ store[n].rv = worker.obj.rv /\ Write(n, o)
    <3>1. o.spec = store[n].spec
      BY <2>1, <2>2, <2>4 DEF WorkerGenuine, Genuine
    <3>2. \/ UNCHANGED <<store, revision>>
          \/ \E p \in Versions(n) : Put(n, p) /\ p.spec = o.spec
      BY <1>t, <2>2, <2>4, WriteEffect
    <3>3. writes' \in Nat /\ writes' >= writes /\ o.spec <= writes' /\ o.spec >= store[n].spec
      BY <1>t, <1>a, <2>1, <3>1
    <3> HIDE DEF n
    <3>4. n \in Namespaces
      BY <1>t DEF n
    <3> QED BY <1>t, <1>k, <1>p, <3>2, <3>3, <3>4
  <2> QED BY <2>1, <2>3, <2>4
<1>3. CASE UpdateGlobal
  <2> DEFINE o == Summarised(worker.global)
  <2>1. /\ worker.pc = "update" /\ UNCHANGED writes
        /\ \/ /\ store[Global] # Absent /\ store[Global].rv = worker.global.rv
              /\ Write(Global, o)
           \/ UNCHANGED <<store, revision>>
    BY <1>3, UpdateGlobalCases DEF counters
  <2>2. o \in Versions(Global) /\ o.spec = worker.global.spec
    BY <2>1, WorkerRequests
  <2> HIDE DEF o
  <2>3. CASE UNCHANGED <<store, revision>>
    BY <1>t, <1>k, <2>1, <2>3
  <2>4. CASE /\ store[Global] # Absent /\ store[Global].rv = worker.global.rv
             /\ Write(Global, o)
    <3>1. o.spec = store[Global].spec
      BY <2>1, <2>2, <2>4 DEF WorkerGenuine
    <3>2. \/ UNCHANGED <<store, revision>>
          \/ \E p \in Versions(Global) : Put(Global, p) /\ p.spec = o.spec
      BY <1>t, <2>2, <2>4, WriteEffect
    <3>3. /\ writes' \in Nat /\ writes' >= writes /\ o.spec <= writes'
          /\ o.spec >= store[Global].spec
      BY <1>t, <1>a, <2>1, <3>1
    <3> QED BY <1>t, <1>k, <1>p, <3>2, <3>3
  <2> QED BY <2>1, <2>3, <2>4
<1>4. CASE UserDelete
  <2>1. /\ store' = [store EXCEPT ![Global] = Absent] /\ revision' = revision + 1
        /\ writes' = writes + 1
    BY <1>4 DEF UserDelete
  <2>2. \A m \in Namespaces : store'[m] = IF m = Global THEN Absent ELSE store[m]
    BY <1>t, <2>1
  <2>3. ASSUME NEW m \in Namespaces
        PROVE  /\ store'[m] # Absent => store'[m].rv >= 1
               /\ store'[m].rv <= revision'
               /\ store'[m].spec <= writes'
               /\ store'[m] # Absent => store'[m].spec >= store[m].spec
    <3>1. CASE m = Global
      BY <1>t, <2>1, <2>2, <3>1
    <3>2. CASE m # Global
      BY <1>t, <1>a, <2>1, <2>2, <3>2
    <3> QED BY <3>1, <3>2
  <2> QED BY <2>3 DEF StoreAges
<1>5. CASE \/ \E n \in Namespaces : InformerStep(n) \/ enqueue(n) \/ GetItem(n)
           \/ Process \/ GetGlobal \/ FinishItem
           \/ RequestFails \/ Relist \/ Resync \/ Restart \/ UNCHANGED vars
  <2>1. UNCHANGED <<store, revision, writes>>
    BY <1>5 DEF InformerStep, enqueue, GetItem, Process, GetGlobal, FinishItem,
                RequestFails, Relist, Resync, Restart, vars, server, counters
  <2> QED BY <1>t, <1>k, <2>1
<1>6. CASE Next
  <2>1. \/ ClientStep \/ UserDelete
        \/ \E n \in Namespaces : InformerStep(n) \/ enqueue(n) \/ GetItem(n)
        \/ Process \/ UpdateLabel \/ GetGlobal \/ UpdateGlobal \/ FinishItem
        \/ RequestFails \/ Relist \/ Resync \/ Restart
    BY <1>6 DEF Next, Step, WorkerStep, ClientStep
  <2> QED BY <1>1, <1>2, <1>3, <1>4, <1>5, <2>1
<1> QED BY <1>5, <1>6

\* What is in the cache and on its way to it stays genuine.
LEMMA NextCacheGenuine ==
    ASSUME Typed, StoreAges, StoreAges', CacheGenuine, [Next]_vars
    PROVE  CacheGenuine'
<1> DEFINE G(n, o) == Genuine(store'[n], revision', o)
<1>t. /\ store \in [Namespaces -> Policies]
      /\ stream \in [Namespaces -> Seq(I!Events(Policies))]
      /\ cache \in [Namespaces -> Policies]
      /\ Global \in Namespaces
      /\ \A n \in Namespaces : DOMAIN stream[n] = 1..Len(stream[n])
      /\ \A n \in Namespaces : \A i \in DOMAIN stream[n] : stream[n][i] \in I!Events(Policies)
  <2>1. /\ store \in [Namespaces -> Policies]
        /\ stream \in [Namespaces -> Seq(I!Events(Policies))]
        /\ cache \in [Namespaces -> Policies]
        /\ Global \in Namespaces
    BY DEF Typed, TypeOK, Namespaces
  <2> QED BY <2>1, LenProperties, ElementOfSeq
<1>o. \A e \in I!Events(Policies) : e.obj \in Policies
  BY DEF I!Events
<1>1. \A n \in Namespaces : /\ G(n, cache[n]) /\ G(n, Absent) /\ G(n, store[n])
                            /\ \A i \in DOMAIN stream[n] : G(n, stream[n][i].obj)
  BY <1>t, <1>o, AbsentType, GenuineKept, GenuineStored DEF CacheGenuine
<1>2. \A n \in Namespaces : G(n, store'[n])
  BY DEF StoreAges, Genuine
<1> HIDE DEF G
<1>s. ASSUME \A n \in Namespaces : /\ G(n, cache'[n])
                                   /\ \A i \in DOMAIN stream'[n] : G(n, stream'[n][i].obj)
      PROVE  CacheGenuine'
  BY <1>s DEF CacheGenuine, G
<1>3. CASE UNCHANGED <<stream, cache>>
  BY <1>1, <1>3, <1>s
<1>a. ASSUME NEW n \in Namespaces, NEW e \in I!Events(Policies), G(n, e.obj),
             stream' = [stream EXCEPT ![n] = Append(stream[n], e)], UNCHANGED cache
      PROVE  CacheGenuine'
  <2>1. stream'[n] = Append(stream[n], e)
    BY <1>t, <1>a
  <2>2. \A i \in DOMAIN stream'[n] : stream'[n][i] = e \/ (/\ i \in DOMAIN stream[n]
                                                          /\ stream'[n][i] = stream[n][i])
    BY <1>t, <2>1, AppendProperties
  <2>3. \A i \in DOMAIN stream'[n] : G(n, stream'[n][i].obj)
    BY <1>1, <1>a, <2>2
  <2>4. \A m \in Namespaces \ {n} : stream'[m] = stream[m]
    BY <1>t, <1>a
  <2> QED BY <1>1, <1>a, <1>s, <2>3, <2>4
<1>4. ASSUME NEW n \in Namespaces, NEW p \in Policies, Put(n, p), UNCHANGED cache
      PROVE  CacheGenuine'
  <2> DEFINE e == [type |-> "modified", obj |-> p]
  <2>1. e \in I!Events(Policies) /\ e.obj = p
    BY DEF I!Events, I!EventTypes
  <2>2. stream' = [stream EXCEPT ![n] = Append(stream[n], e)] /\ store'[n] = p
    BY <1>t, <1>4 DEF Put
  <2> HIDE DEF e
  <2> QED BY <1>2, <1>4, <1>a, <2>1, <2>2
<1>5. CASE UserDelete
  <2> DEFINE e == [type |-> "deleted", obj |-> store[Global]]
  <2>1. e \in I!Events(Policies) /\ e.obj = store[Global]
    BY <1>t DEF I!Events, I!EventTypes
  <2>2. stream' = [stream EXCEPT ![Global] = Append(stream[Global], e)] /\ UNCHANGED cache
    BY <1>5 DEF UserDelete
  <2> HIDE DEF e
  <2> QED BY <1>t, <1>1, <1>a, <2>1, <2>2
<1>6. ASSUME NEW n \in Namespaces, InformerStep(n)
      PROVE  CacheGenuine'
  <2> DEFINE q == stream[n]
  <2>1. /\ q # <<>> /\ q \in Seq(I!Events(Policies))
        /\ cache' = [cache EXCEPT ![n] = I!CacheAfter(Head(q))]
        /\ stream' = [stream EXCEPT ![n] = Tail(q)]
    BY <1>t, <1>6 DEF InformerStep
  <2>2. /\ \A i \in DOMAIN q : G(n, q[i].obj)
        /\ G(n, Absent) /\ DOMAIN q = 1..Len(q)
    BY <1>t, <1>1
  <2>3. stream'[n] = Tail(q) /\ cache'[n] = I!CacheAfter(Head(q))
    BY <1>t, <2>1
  <2>4. \A m \in Namespaces \ {n} : stream'[m] = stream[m] /\ cache'[m] = cache[m]
    BY <1>t, <2>1
  <2> HIDE DEF q
  <2>5. Len(q) \in Nat /\ Len(q) >= 1
    BY <2>1, EmptySeq, LenProperties
  <2>6. Head(q) = q[1] /\ 1 \in DOMAIN q
    BY <2>1, <2>2, <2>5
  <2>7. G(n, cache'[n])
    BY <2>2, <2>3, <2>6 DEF I!CacheAfter
  <2>8. /\ Tail(q) \in Seq(I!Events(Policies)) /\ Len(Tail(q)) = Len(q) - 1
        /\ \A i \in 1..Len(Tail(q)) : Tail(q)[i] = q[i + 1]
    BY <2>1, HeadTailProperties
  <2>9. DOMAIN Tail(q) = 1..Len(Tail(q))
    BY <2>8, LenProperties
  <2>10. \A i \in DOMAIN Tail(q) : Tail(q)[i] = q[i + 1] /\ i + 1 \in DOMAIN q
    BY <2>2, <2>5, <2>8, <2>9
  <2>11. \A i \in DOMAIN stream'[n] : G(n, stream'[n][i].obj)
    BY <2>2, <2>3, <2>10
  <2> QED BY <1>1, <1>s, <2>4, <2>7, <2>11
<1>7. CASE Process
  <2> DEFINE n == worker.key
             l == [cache[n] EXCEPT !.label = n]
  <2>1. /\ UNCHANGED stream
        /\ UNCHANGED cache \/ cache' = [cache EXCEPT ![n] = l]
    BY <1>7, ProcessCases
  <2>2. n \in Namespaces
    BY DEF Typed, TypeOK
  <2> HIDE DEF n
  <2>3. l.rv = cache[n].rv /\ l.spec = cache[n].spec
    BY <1>t, <2>2 DEF Policies
  <2> HIDE DEF l
  <2>4. G(n, l)
    <3>1. G(n, cache[n])
      BY <1>1, <2>2
    <3> QED BY <2>3, <3>1 DEF G, Genuine
  <2>5. \A m \in Namespaces : cache'[m] = cache[m] \/ (m = n /\ cache'[m] = l)
    BY <1>t, <2>1, <2>2
  <2>6. \A m \in Namespaces : G(m, cache'[m])
    BY <1>1, <2>4, <2>5
  <2> QED BY <1>1, <1>s, <2>1, <2>6
<1>u. \A e : \A i \in DOMAIN <<e>> : <<e>>[i] = e
  OBVIOUS
<1>e. \A i \in DOMAIN <<>> : FALSE
  OBVIOUS
<1>8. CASE Relist
  <2>1. /\ \A n \in Namespaces : stream'[n] = I!ReList(store[n], cache[n])
        /\ UNCHANGED cache
    BY <1>8 DEF Relist
  <2>2. \A n \in Namespaces : \A i \in DOMAIN stream'[n] :
           stream'[n][i].obj \in {store[n], cache[n]}
    <3> SUFFICES ASSUME NEW n \in Namespaces, NEW i \in DOMAIN stream'[n]
                 PROVE  stream'[n][i].obj \in {store[n], cache[n]}
      OBVIOUS
    <3> DEFINE r == [type |-> "replaced", obj |-> store[n]]
               g == [type |-> "gone", obj |-> cache[n]]
    <3>1. stream'[n] = <<r>> \/ stream'[n] = <<g>> \/ stream'[n] = <<>>
      BY <2>1 DEF I!ReList
    <3>2. r.obj = store[n] /\ g.obj = cache[n]
      OBVIOUS
    <3> HIDE DEF r, g
    <3>3. stream'[n][i] = r \/ stream'[n][i] = g
      BY <1>u, <1>e, <3>1
    <3> QED BY <3>2, <3>3
  <2>3. \A n \in Namespaces : \A i \in DOMAIN stream'[n] : G(n, stream'[n][i].obj)
    BY <1>1, <2>2
  <2> QED BY <1>1, <1>s, <2>1, <2>3
<1>9. CASE Restart
  <2>1. \A n \in Namespaces : stream'[n] = I!FirstList(store[n]) /\ cache'[n] = Absent
    BY <1>9 DEF Restart
  <2>2. \A n \in Namespaces : \A i \in DOMAIN stream'[n] : stream'[n][i].obj = store[n]
    <3> SUFFICES ASSUME NEW n \in Namespaces, NEW i \in DOMAIN stream'[n]
                 PROVE  stream'[n][i].obj = store[n]
      OBVIOUS
    <3> DEFINE r == [type |-> "initial", obj |-> store[n]]
    <3>1. stream'[n] = <<r>> \/ stream'[n] = <<>>
      BY <2>1 DEF I!FirstList
    <3>2. r.obj = store[n]
      OBVIOUS
    <3> HIDE DEF r
    <3>3. stream'[n][i] = r
      BY <1>u, <1>e, <3>1
    <3> QED BY <3>2, <3>3
  <2> QED BY <1>1, <1>s, <2>1, <2>2
<1> QED BY <1>3, <1>4, <1>5, <1>6, <1>7, <1>8, <1>9, StepKinds

\* What the worker writes back stays genuine.
LEMMA NextWorkerGenuine ==
    ASSUME Typed, StoreAges, CacheGenuine, WorkerGenuine, [Next]_vars
    PROVE  WorkerGenuine'
<1>t. /\ worker \in WorkerTypes /\ worker.key \in Namespaces /\ Global \in Namespaces
      /\ worker.obj \in Policies /\ worker.global \in Policies
      /\ store \in [Namespaces -> Policies] /\ cache \in [Namespaces -> Policies]
      /\ revision \in Nat
  BY DEF Typed, TypeOK, WorkerTypes, Namespaces
<1>1. CASE UNCHANGED worker
  <2>1. worker.pc = "label" => Genuine(store'[worker.key], revision', worker.obj)
    BY <1>t, GenuineKept DEF WorkerGenuine
  <2>2. ASSUME worker.pc = "update"
        PROVE  /\ worker.global.rv <= revision'
               /\ store'[Global] # Absent /\ worker.global.rv = store'[Global].rv =>
                     worker.global = store'[Global]
    <3> DEFINE g == worker.global
    <3>1. /\ g.rv <= revision
          /\ store[Global] # Absent /\ g.rv = store[Global].rv => g = store[Global]
      BY <2>2 DEF WorkerGenuine
    <3>2. g.rv \in Nat
      BY <1>t DEF Policies
    <3> HIDE DEF g
    <3>3. CASE UNCHANGED <<store, revision>>
      BY <3>1, <3>3 DEF g
    <3>4. ASSUME NEW n \in Namespaces, NEW p \in Policies, Put(n, p)
          PROVE  /\ g.rv <= revision'
                 /\ store'[Global] # Absent /\ g.rv = store'[Global].rv => g = store'[Global]
      <4>1. /\ store' = [store EXCEPT ![n] = p] /\ revision' = revision + 1
            /\ p.rv = revision + 1
        BY <3>4 DEF Put
      <4>2. g.rv <= revision' /\ g.rv # p.rv
        BY <1>t, <3>1, <3>2, <4>1
      <4>3. store'[Global] = IF n = Global THEN p ELSE store[Global]
        BY <1>t, <4>1
      <4> QED BY <3>1, <4>2, <4>3
    <3>5. CASE UserDelete
      <4>1. store' = [store EXCEPT ![Global] = Absent] /\ revision' = revision + 1
        BY <3>5 DEF UserDelete
      <4>2. g.rv <= revision' /\ store'[Global] = Absent
        BY <1>t, <3>1, <3>2, <4>1
      <4> QED BY <4>2 DEF g
    <3> QED BY <3>3, <3>4, <3>5, StoreMoves DEF g
  <2> QED BY <1>1, <2>1, <2>2 DEF WorkerGenuine
<1>2. CASE worker'.pc \in {"idle", "done", "process", "get"}
  BY <1>2 DEF WorkerGenuine
<1>3. CASE /\ Process /\ worker'.pc = "label"
           /\ worker'.key = worker.key
           /\ worker'.obj = [cache[worker.key] EXCEPT !.label = worker.key]
  <2> DEFINE n == worker.key
             l == [cache[n] EXCEPT !.label = n]
  <2>1. l.rv = cache[n].rv /\ l.spec = cache[n].spec
    BY <1>t DEF Policies
  <2>2. Genuine(store[n], revision, cache[n])
    BY <1>t DEF CacheGenuine
  <2>3. UNCHANGED <<store, revision>>
    BY <1>3 DEF Process, server
  <2> HIDE DEF l, n
  <2>4. worker'.pc = "label" /\ worker'.key = n /\ worker'.obj = l
    BY <1>3 DEF l, n
  <2>5. Genuine(store'[n], revision', l)
    BY <2>1, <2>2, <2>3 DEF Genuine
  <2> QED BY <2>4, <2>5 DEF WorkerGenuine
<1>4. CASE GetGlobal /\ worker'.pc = "update" /\ worker'.global = store[Global]
  <2>1. UNCHANGED <<store, revision>>
    BY <1>4 DEF GetGlobal, server
  <2>2. store[Global].rv <= revision
    BY <1>t DEF StoreAges
  <2> QED BY <1>4, <2>1, <2>2 DEF WorkerGenuine
<1> QED BY <1>1, <1>2, <1>3, <1>4, WorkerMoves

\* The inductive invariant behind NoLostWrite.
GenuineInv == Typed /\ StoreAges /\ CacheGenuine /\ WorkerGenuine

\* It holds at the start.
LEMMA InitGenuine ==
    ASSUME Init
    PROVE  GenuineInv
<1>1. /\ \A n \in Namespaces : store[n] = Absent /\ cache[n] = Absent /\ stream[n] = <<>>
      /\ revision = 0 /\ writes = 0 /\ worker.pc = "idle"
  BY DEF Init, IdleWorker
<1>2. Absent.rv = 0 /\ Absent.spec = 0
  BY DEF Absent
<1>3. StoreAges
  BY <1>1, <1>2 DEF StoreAges
<1>4. Genuine(Absent, 0, Absent)
  BY <1>2 DEF Genuine
<1>5. CacheGenuine
  BY <1>1, <1>4 DEF CacheGenuine
<1>6. WorkerGenuine
  BY <1>1 DEF WorkerGenuine
<1> QED BY <1>3, <1>5, <1>6, InitTyped DEF GenuineInv

\* Every step keeps it.
LEMMA NextGenuine ==
    ASSUME GenuineInv, [Next]_vars
    PROVE  GenuineInv'
<1>1. Typed /\ StoreAges /\ CacheGenuine /\ WorkerGenuine
  BY DEF GenuineInv
<1>2. Typed'
  BY <1>1, NextTyped
<1>3. StoreAges'
  BY <1>1, <1>2, NextAges
<1>4. CacheGenuine' /\ WorkerGenuine'
  BY <1>1, <1>3, NextCacheGenuine, NextWorkerGenuine
<1> QED BY <1>2, <1>3, <1>4 DEF GenuineInv

\* NoLostWrite holds: no update that the controller makes from its cache or from a
\* read of the policy puts an older content over what a user wrote since, because
\* a version with the stored resource version has the stored content.
THEOREM NothingLost == Spec => NoLostWrite
<1>1. Init => GenuineInv
  BY InitGenuine
<1>2. GenuineInv /\ [Next]_vars => GenuineInv'
  BY NextGenuine
<1>3. GenuineInv /\ [Next]_vars =>
         [\A n \in Namespaces : store'[n] # Absent => store'[n].spec >= store[n].spec]_vars
  <2> SUFFICES ASSUME GenuineInv, [Next]_vars
               PROVE  \A n \in Namespaces :
                         store'[n] # Absent => store'[n].spec >= store[n].spec
    OBVIOUS
  <2>1. Typed /\ StoreAges /\ WorkerGenuine
    BY DEF GenuineInv
  <2> QED BY <2>1, NextTyped, NextAges
<1> QED BY <1>1, <1>2, <1>3, PTL DEF Spec, NoLostWrite

-------------------------------------------------------------------------------
(* SummaryCurrent.                                                         *)

\* The copies of hubs are policies.
CopiesArePolicies == kind # "policies" => \A h \in Hubs : store[h] = Absent

\* The summary of the policy, if there is one, says of h what its copy says, or does
\* not say anything of a copy that is older than the policy.
Summed(h) ==
    LET sum == store[Global].summary.summaries
    IN  store[Global] # Absent =>
            /\ \A i \in DOMAIN sum :
                  sum[i].name = h => sum[i] = ClusterSummary(h, store[h])
            /\ store[h].rv > created => \E i \in DOMAIN sum : sum[i].name = h

\* The worker is folding a version of the copy of h into the summary.
Folding(h) == worker.pc \in {"get", "update"} /\ worker.key = h

\* What a hub reports will be seen again, is being folded into the summary, or is
\* in it while nothing older is being folded.
SummaryPending ==
    \A h \in Hubs :
        store[h].label = Global /\ store[h].status # NoStatus /\ stream[h] = <<>> =>
            \/ Awaited(h)
            \/ Folding(h) /\ worker.obj = store[h]
            \/ Summed(h) /\ ~Folding(h)

\* RetryOnConflict returns a conflict: its last attempt was refused.
GivesUp ==
    /\ UpdateGlobal
    /\ store[Global] # Absent /\ store[Global].rv # worker.global.rv
    /\ worker'.pc = "done"

\* They stay policies, whatever users delete.
LEMMA NextCopies ==
    ASSUME Typed, CopiesArePolicies, [Next]_vars
    PROVE  CopiesArePolicies'
<1>t. /\ Global \in Namespaces /\ worker.key \in Namespaces
      /\ Hubs \subseteq Namespaces /\ Global \notin Hubs
      /\ \A n \in Namespaces : n \in Hubs \/ n = Global
      /\ store \in [Namespaces -> Policies]
  BY PolicyAssumption DEF Typed, TypeOK, Namespaces
<1>k. ASSUME UNCHANGED <<store, kind>> PROVE CopiesArePolicies'
  BY <1>k DEF CopiesArePolicies
<1>p. ASSUME NEW n \in Namespaces, NEW p, store' = [store EXCEPT ![n] = p], kind' = kind,
             n # Global => kind = "policies"
      PROVE  CopiesArePolicies'
  BY <1>p, <1>t DEF CopiesArePolicies
<1>w. ASSUME NEW n \in Namespaces, NEW o \in Versions(n), Write(n, o), kind' = kind,
             n # Global => kind = "policies"
      PROVE  CopiesArePolicies'
  BY <1>k, <1>p, <1>w, WriteEffect DEF Put
<1>1. CASE UNCHANGED vars
  BY <1>1, <1>k DEF vars
<1>2. ASSUME Next, ClientStep PROVE CopiesArePolicies'
  <2>1. PICK n \in Namespaces : \E o \in Versions(n) :
           Write(n, o) /\ (n # Global => store[n] # Absent \/ kind = "policies")
    BY <1>2, ClientEffect
  <2>2. n # Global => kind = "policies"
    BY <1>t, <2>1 DEF CopiesArePolicies
  <2> QED BY <1>2, <1>w, <2>1, <2>2 DEF Next
<1>3. ASSUME Next, UpdateLabel PROVE CopiesArePolicies'
  <2> DEFINE n == worker.key
             o == Updated(n, worker.obj)
  <2>1. /\ worker.pc = "label"
        /\ \/ store[n] # Absent /\ Write(n, o)
           \/ UNCHANGED <<store, revision, stream>>
    BY <1>3, UpdateLabelCases
  <2>2. o \in Versions(n) /\ n \in Namespaces /\ kind' = kind
    BY <1>3, <1>t, <2>1, WorkerRequests DEF Next
  <2>3. store[n] # Absent => (n # Global => kind = "policies")
    BY <1>t DEF CopiesArePolicies
  <2> HIDE DEF o, n
  <2> QED BY <1>k, <1>w, <2>1, <2>2, <2>3
<1>4. ASSUME Next, UpdateGlobal PROVE CopiesArePolicies'
  <2>1. /\ worker.pc = "update"
        /\ \/ Write(Global, Summarised(worker.global))
           \/ UNCHANGED <<store, revision, stream>>
    BY <1>4, UpdateGlobalCases
  <2>2. Summarised(worker.global) \in Versions(Global)
    BY <2>1, WorkerRequests
  <2>3. kind' = kind
    BY <1>4 DEF Next
  <2> QED BY <1>k, <1>t, <1>w, <2>1, <2>2, <2>3
<1>5. ASSUME Next, UserDelete PROVE CopiesArePolicies'
  BY <1>5, <1>p, <1>t DEF Next, UserDelete
<1>6. ASSUME Next,
             \/ \E n \in Namespaces : InformerStep(n) \/ enqueue(n) \/ GetItem(n)
             \/ Process \/ GetGlobal \/ FinishItem
             \/ RequestFails \/ Relist \/ Resync \/ Restart
      PROVE  CopiesArePolicies'
  <2>1. UNCHANGED <<store, kind>>
    BY <1>6 DEF Next, InformerStep, enqueue, GetItem, Process, GetGlobal, FinishItem,
                RequestFails, Relist, Resync, Restart, server
  <2> QED BY <1>k, <2>1
<1>7. CASE Next
  <2>1. \/ ClientStep \/ UserDelete
        \/ \E n \in Namespaces : InformerStep(n) \/ enqueue(n) \/ GetItem(n)
        \/ Process \/ UpdateLabel \/ GetGlobal \/ UpdateGlobal \/ FinishItem
        \/ RequestFails \/ Relist \/ Resync \/ Restart
    BY <1>7 DEF Next, Step, WorkerStep, ClientStep
  <2> QED BY <1>2, <1>3, <1>4, <1>5, <1>6, <1>7, <2>1
<1> QED BY <1>1, <1>7

\* A summary stays what it is when neither the copy nor the summary changes.
LEMMA SummedKept ==
    ASSUME NEW h, store'[h] = store[h], store'[Global].summary = store[Global].summary,
           store'[Global] # Absent => store[Global] # Absent, created' = created,
           Summed(h)
    PROVE  Summed(h)'
BY DEF Summed

\* The hubs whose reports may be pending have their copy in the store, and it is in
\* the cache when no event about it is to come.
LEMMA ReportedCopies ==
    ASSUME Typed, CacheFollows, CopiesArePolicies, NEW h \in Hubs,
           store[h].label = Global
    PROVE  /\ h \in Namespaces /\ h # Global /\ store[h] # Absent
           /\ kind = "policies"
           /\ stream[h] = <<>> => cache[h] = store[h]
<1>1. /\ h \in Namespaces /\ h # Global /\ NoLabel # Global /\ Absent.label = NoLabel
  BY PolicyAssumption DEF Namespaces, Absent
<1> QED BY <1>1 DEF CopiesArePolicies, CacheFollows

\* The steps of others than the worker keep a summary pending.
LEMMA SummaryKeptByOthers ==
    ASSUME Typed, StoreAges, CacheFollows, CopiesArePolicies, SummaryPending,
           \/ ClientStep \/ UserDelete \/ Relist \/ Resync
           \/ \E n \in Namespaces : InformerStep(n) \/ enqueue(n)
    PROVE  SummaryPending'
<1>t. /\ notify \in [Namespaces -> Nat] /\ Hubs \subseteq Namespaces
      /\ Global \in Namespaces /\ Global \notin Hubs
      /\ store \in [Namespaces -> Policies]
      /\ \A n \in Namespaces : Versions(n) \subseteq Policies
  BY PolicyAssumption DEF Typed, TypeOK, Namespaces, Versions
<1>1. CASE ClientStep
  <2>1. UNCHANGED <<cache, notify, queue, worker>>
    BY <1>1, ClientEffect
  <2>2. PICK n \in Namespaces : \E o \in Versions(n) :
           /\ Write(n, o)
           /\ n = Global => o.summary = store[n].summary
           /\ created' = IF n = Global /\ store[Global] = Absent
                         THEN revision + 1 ELSE created
    BY <1>1, ClientEffect
  <2>3. CASE UNCHANGED <<store, revision, stream>>
    <3>1. \A h \in Hubs : Summed(h) => Summed(h)'
      BY <2>2, <2>3 DEF Summed
    <3> QED BY <2>1, <2>3, <3>1 DEF SummaryPending, Awaited, Folding
  <2>4. ASSUME NEW p \in Versions(n), Put(n, p), n = Global => p.summary = store[n].summary
        PROVE  SummaryPending'
    <3>1. /\ stream'[n] # <<>>
          /\ \A m \in Namespaces \ {n} : store'[m] = store[m] /\ stream'[m] = stream[m]
      <4>1. p \in Policies
        BY <1>t
      <4> QED BY <2>4, <4>1, LastEvent, OthersKept
    <3>2. store'[n] = p
      BY <1>t, <2>4 DEF Put
    <3>3. store'[Global].summary = store[Global].summary \/ (n # Global)
      BY <2>4, <3>2
    <3>4. store'[Global].summary = store[Global].summary
      BY <1>t, <3>1, <3>3
    <3>5. ASSUME NEW h \in Hubs, h # n, Summed(h) PROVE Summed(h)'
      <4>1. store'[h] = store[h] /\ h \in Namespaces
        BY <1>t, <3>1, <3>5
      <4>2. CASE n = Global /\ store[Global] = Absent
        <5>1. created' = revision + 1
          BY <2>2, <4>2
        <5>2. store[h].rv <= revision /\ revision \in Nat /\ store[h].rv \in Nat
          <6>1. store[h] \in Policies
            BY <1>t, <4>1
          <6>2. store[h].rv \in Nat
            BY <6>1 DEF Policies
          <6> QED BY <4>1, <6>2 DEF StoreAges, Typed, TypeOK
        <5>3. ~(store'[h].rv > created')
          BY <4>1, <5>1, <5>2
        <5>4. store'[Global].summary.summaries = <<>>
          BY <3>4, <4>2 DEF Absent, NoSummary
        <5> QED BY <5>3, <5>4 DEF Summed
      <4>3. CASE ~(n = Global /\ store[Global] = Absent)
        <5>1. created' = created
          BY <2>2, <4>3
        <5>2. store'[Global] # Absent => store[Global] # Absent
          BY <1>t, <3>1, <4>3
        <5> QED BY <3>4, <3>5, <4>1, <5>1, <5>2, SummedKept
      <4> QED BY <4>2, <4>3
    <3> QED BY <1>t, <2>1, <3>1, <3>5 DEF SummaryPending, Awaited, Folding
  <2>5. PICK o \in Versions(n) : Write(n, o) /\ (n = Global => o.summary = store[n].summary)
    BY <2>2
  <2> QED BY <2>3, <2>4, <2>5, WriteEffect
<1>6. CASE UserDelete
  <2>1. /\ UNCHANGED <<cache, notify, queue, worker>>
        /\ store' = [store EXCEPT ![Global] = Absent]
        /\ stream' = [stream EXCEPT
                         ![Global] = Append(@, [type |-> "deleted", obj |-> store[Global]])]
    BY <1>6 DEF UserDelete
  <2>2. store'[Global] = Absent /\ \A h \in Hubs : store'[h] = store[h]
    BY <1>t, <2>1
  <2>3. \A h \in Hubs : stream'[h] = stream[h] /\ Summed(h)'
    BY <1>t, <2>1, <2>2 DEF Summed, Typed, TypeOK
  <2> QED BY <2>1, <2>2, <2>3 DEF SummaryPending, Awaited, Folding
<1>2. CASE Relist
  <2>1. /\ \A n \in Namespaces : stream'[n] = I!ReList(store[n], cache[n])
        /\ UNCHANGED store
    BY <1>2 DEF Relist, server
  <2> QED BY <1>t, <2>1, ListEnds, ReportedCopies DEF SummaryPending
<1>3. CASE Resync
  <2>1. /\ \A n \in Namespaces : notify[n] > 0 => notify'[n] > 0
        /\ UNCHANGED <<store, stream, cache, queue, worker, created>>
    BY <1>3, <1>t DEF Resync, server
  <2> QED BY <1>t, <2>1 DEF SummaryPending, Awaited, Folding, Summed
<1>4. ASSUME NEW n \in Namespaces, InformerStep(n)
      PROVE  SummaryPending'
  <2>1. /\ UNCHANGED <<store, queue, worker>>
        /\ \A m \in Namespaces \ {n} : /\ stream'[m] = stream[m] /\ cache'[m] = cache[m]
                                       /\ notify'[m] = notify[m]
        /\ stream'[n] = <<>> /\ store[n] # Absent => notify'[n] > 0
    BY <1>4, InformerEffect
  <2>2. created' = created
    BY <1>4 DEF InformerStep, counters
  <2> QED BY <1>t, <2>1, <2>2, ReportedCopies DEF SummaryPending, Awaited, Folding, Summed
<1>5. ASSUME NEW n \in Namespaces, enqueue(n)
      PROVE  SummaryPending'
  <2>1. /\ \A m \in Namespaces \ {n} : notify'[m] = notify[m]
        /\ UNCHANGED <<store, stream, cache, worker, created>>
    BY <1>5, <1>t DEF enqueue, server, counters
  <2>2. queue'.dirty = queue.dirty \cup {n}
    BY <1>5, QueueEffect
  <2> QED BY <1>t, <2>1, <2>2 DEF SummaryPending, Awaited, Folding, Summed
<1> QED BY <1>1, <1>2, <1>3, <1>4, <1>5, <1>6

\* The worker begins to fold what a hub reports.
LEMMA SummaryKeptByProcess ==
    ASSUME Typed, CacheFollows, CopiesArePolicies, SummaryPending, Process
    PROVE  SummaryPending'
<1> DEFINE n == worker.key
           o == cache[n]
<1>t. worker \in WorkerTypes /\ n \in Namespaces /\ cache \in [Namespaces -> Policies]
  BY DEF Typed, TypeOK, WorkerTypes
<1>1. /\ worker.pc = "process"
      /\ UNCHANGED <<store, revision, stream, notify, queue>>
      /\ \/ Skipped(o, n)
         \/ o.label = NoLabel
         \/ worker' = [worker EXCEPT !.pc = "get", !.obj = o, !.tries = Steps]
      /\ created' = created
  BY ProcessCases DEF Process, counters
<1>2. worker'.key = n
  <2> DEFINE l == [o EXCEPT !.label = n]
  <2>1. \/ worker' = [worker EXCEPT !.pc = "done"]
        \/ worker' = [worker EXCEPT !.pc = "label", !.obj = l]
        \/ worker' = [worker EXCEPT !.pc = "get", !.obj = o, !.tries = Steps]
    BY ProcessCases
  <2> HIDE DEF l, o
  <2>2. CASE worker' = [worker EXCEPT !.pc = "done"]
    BY <1>t, <2>2 DEF WorkerTypes
  <2>3. CASE worker' = [worker EXCEPT !.pc = "label", !.obj = l]
    BY <1>t, <2>3 DEF WorkerTypes
  <2>4. CASE worker' = [worker EXCEPT !.pc = "get", !.obj = o, !.tries = Steps]
    BY <1>t, <2>4 DEF WorkerTypes
  <2> QED BY <2>1, <2>2, <2>3, <2>4
<1>3. ASSUME NEW h \in Hubs, h # n, store[h].label = Global, store[h].status # NoStatus,
             stream[h] = <<>>
      PROVE  Awaited(h)' \/ (Summed(h)' /\ ~Folding(h)')
  <2>1. Awaited(h) \/ Summed(h)
    BY <1>1, <1>3 DEF SummaryPending, Folding
  <2>2. ~Folding(h)'
    BY <1>2, <1>3 DEF Folding
  <2>3. Awaited(h) => Awaited(h)'
    BY <1>1, <1>3 DEF Awaited
  <2>4. Summed(h) => Summed(h)'
    BY <1>1, SummedKept
  <2> QED BY <2>1, <2>2, <2>3, <2>4
<1>4. ASSUME n \in Hubs, store[n].label = Global, store[n].status # NoStatus,
             stream[n] = <<>>
      PROVE  worker'.pc = "get" /\ worker'.obj = store'[n]
  <2>1. /\ n # Global /\ store[n] # Absent /\ kind = "policies"
        /\ o = store[n] /\ NoLabel # Global
    BY <1>t, <1>4, ReportedCopies, PolicyAssumption DEF Namespaces
  <2>2. ~Skipped(o, n) /\ o.label # NoLabel
    BY <1>4, <2>1 DEF Skipped
  <2>3. worker' = [worker EXCEPT !.pc = "get", !.obj = o, !.tries = Steps]
    BY <1>1, <2>2
  <2> HIDE DEF o
  <2>4. worker'.pc = "get" /\ worker'.obj = o
    BY <1>t, <2>3 DEF WorkerTypes
  <2> QED BY <1>1, <2>1, <2>4
<1> HIDE DEF n
<1>5. \A h \in Hubs :
         store'[h].label = Global /\ store'[h].status # NoStatus /\ stream'[h] = <<>> =>
            \/ Awaited(h)'
            \/ Folding(h)' /\ worker'.obj = store'[h]
            \/ Summed(h)' /\ ~Folding(h)'
  <2> SUFFICES ASSUME NEW h \in Hubs, store'[h].label = Global, stream'[h] = <<>>,
                      store'[h].status # NoStatus
               PROVE  \/ Awaited(h)'
                      \/ Folding(h)' /\ worker'.obj = store'[h]
                      \/ Summed(h)' /\ ~Folding(h)'
    OBVIOUS
  <2>1. store[h].label = Global /\ store[h].status # NoStatus /\ stream[h] = <<>>
    BY <1>1
  <2>2. CASE h # n
    BY <1>3, <2>1, <2>2
  <2>3. CASE h = n
    BY <1>2, <1>4, <2>1, <2>3 DEF Folding
  <2> QED BY <2>2, <2>3
<1> QED BY <1>5 DEF SummaryPending

\* The worker folds what the hub has reported, unless it gives up.
LEMMA SummaryKeptByUpdate ==
    ASSUME Typed, WorkerGenuine, SummaryPending, UpdateGlobal, ~GivesUp
    PROVE  SummaryPending'
<1> DEFINE k == worker.key
           o == Summarised(worker.global)
           sum == worker.global.summary
<1>t. /\ worker \in WorkerTypes /\ Hubs \subseteq Namespaces
      /\ Global \in Namespaces /\ Global \notin Hubs
      /\ store \in [Namespaces -> Policies]
      /\ Versions(Global) \subseteq Policies
  BY PolicyAssumption DEF Typed, TypeOK, Namespaces, Versions, WorkerTypes
<1>1. /\ worker.pc = "update" /\ UNCHANGED <<cache, notify, queue>>
      /\ \/ /\ store[Global] # Absent /\ store[Global].rv = worker.global.rv
            /\ Write(Global, o)
            /\ worker' = [worker EXCEPT !.pc = "done"]
         \/ /\ UNCHANGED <<store, revision, stream>>
            /\ worker' = [worker EXCEPT !.pc = "get", !.tries = @ - 1]
         \/ /\ ~(store[Global] # Absent /\ store[Global].rv = worker.global.rv)
            /\ UNCHANGED <<store, revision, stream>>
            /\ worker' = [worker EXCEPT !.pc = "done"]
      /\ created' = created
  BY UpdateGlobalCases DEF UpdateGlobal, counters
<1>2. /\ o \in Versions(Global)
      /\ \E i \in DOMAIN o.summary.summaries :
            o.summary.summaries[i] = ClusterSummary(k, worker.obj)
      /\ \A i \in DOMAIN sum.summaries : sum.summaries[i].name # k =>
            i \in DOMAIN o.summary.summaries /\ o.summary.summaries[i] = sum.summaries[i]
      /\ \A i \in DOMAIN o.summary.summaries : o.summary.summaries[i].name # k =>
            i \in DOMAIN sum.summaries /\ o.summary.summaries[i] = sum.summaries[i]
  BY <1>1, WorkerRequests
<1>u. \A i \in DOMAIN o.summary.summaries :
         o.summary.summaries[i].name = k =>
            o.summary.summaries[i] = ClusterSummary(k, worker.obj)
  <2>1. OneEntryEach(o.summary)
    BY <1>2, <1>t, VersionFields DEF Sound
  <2>2. ClusterSummary(k, worker.obj).name = k
    BY DEF ClusterSummary
  <2> HIDE DEF o, k
  <2> QED BY <1>2, <2>1, <2>2 DEF OneEntryEach
<1> HIDE DEF o, k
<1>a. ASSUME NEW h \in Hubs, Awaited(h)
      PROVE  notify'[h] > 0 \/ h \in queue'.dirty
  BY <1>1, <1>a DEF Awaited
<1>3. CASE /\ store[Global] # Absent /\ store[Global].rv = worker.global.rv
           /\ Write(Global, o)
           /\ worker' = [worker EXCEPT !.pc = "done"]
  <2>1. worker.global = store[Global]
    BY <1>1, <1>3 DEF WorkerGenuine
  <2>2. /\ store'[Global].summary = o.summary
        /\ \A m \in Namespaces \ {Global} : store'[m] = store[m] /\ stream'[m] = stream[m]
    <3>1. CASE UNCHANGED <<store, revision, stream>> /\ o = store[Global]
      BY <3>1
    <3>2. ASSUME NEW p \in Versions(Global), Put(Global, p), p.summary = o.summary
          PROVE  /\ store'[Global].summary = o.summary
                 /\ \A m \in Namespaces \ {Global} : /\ store'[m] = store[m]
                                                     /\ stream'[m] = stream[m]
      <4>1. store'[Global] = p
        BY <1>t, <3>2 DEF Put
      <4> QED BY <1>t, <3>2, <4>1, OthersKept
    <3> QED BY <1>t, <1>2, <1>3, <3>1, <3>2, WriteEffect
  <2>3. worker'.pc = "done"
    BY <1>t, <1>3 DEF WorkerTypes
  <2>4. ASSUME NEW h \in Hubs, store[h].label = Global, store[h].status # NoStatus,
               stream[h] = <<>>
        PROVE  Awaited(h)' \/ (Summed(h)' /\ ~Folding(h)')
    <3>0. ~Folding(h)' /\ store'[h] = store[h]
      BY <1>t, <2>2, <2>3 DEF Folding
    <3>1. CASE Awaited(h)
      BY <1>a, <3>1 DEF Awaited
    <3>2. CASE Folding(h) /\ worker.obj = store[h]
      <4>1. h = k
        BY <3>2 DEF Folding, k
      <4>2. \E i \in DOMAIN o.summary.summaries : o.summary.summaries[i].name = k
        BY <1>2 DEF ClusterSummary
      <4>3. Summed(h)'
        BY <1>u, <2>2, <3>0, <3>2, <4>1, <4>2 DEF Summed
      <4> QED BY <3>0, <4>3
    <3>3. CASE Summed(h) /\ ~Folding(h)
      <4>1. h # k
        BY <1>1, <3>3 DEF Folding, k
      <4>2. /\ \A i \in DOMAIN sum.summaries : sum.summaries[i].name = h =>
                  sum.summaries[i] = ClusterSummary(h, store[h])
            /\ store[h].rv > created =>
                  \E i \in DOMAIN sum.summaries : sum.summaries[i].name = h
        BY <1>3, <2>1, <3>3 DEF Summed
      <4> HIDE DEF sum
      <4>3. \A i \in DOMAIN o.summary.summaries : o.summary.summaries[i].name = h =>
               o.summary.summaries[i] = ClusterSummary(h, store[h])
        BY <1>2, <4>1, <4>2
      <4>4. store[h].rv > created =>
               \E i \in DOMAIN o.summary.summaries : o.summary.summaries[i].name = h
        BY <1>2, <4>1, <4>2
      <4>5. Summed(h)'
        BY <1>1, <2>2, <3>0, <4>3, <4>4 DEF Summed
      <4> QED BY <3>0, <4>5
    <3> QED BY <2>4, <3>1, <3>2, <3>3 DEF SummaryPending
  <2>5. \A h \in Hubs : store'[h] = store[h] /\ stream'[h] = stream[h]
    BY <1>t, <2>2
  <2> QED BY <2>4, <2>5 DEF SummaryPending
<1>4. CASE /\ UNCHANGED <<store, revision, stream>>
           /\ worker' = [worker EXCEPT !.pc = "get", !.tries = @ - 1]
  <2>1. worker'.pc = "get" /\ worker'.key = worker.key /\ worker'.obj = worker.obj
    BY <1>t, <1>4 DEF WorkerTypes
  <2> QED BY <1>1, <1>4, <1>a, <2>1 DEF SummaryPending, Awaited, Folding, Summed
<1>5. CASE /\ ~(store[Global] # Absent /\ store[Global].rv = worker.global.rv)
           /\ UNCHANGED <<store, revision, stream>>
           /\ worker' = [worker EXCEPT !.pc = "done"]
  <2>1. worker'.pc = "done"
    BY <1>t, <1>5 DEF WorkerTypes
  <2>2. store[Global] = Absent
    BY <1>5, <2>1 DEF GivesUp
  <2>3. \A h \in Hubs : Summed(h)' /\ ~Folding(h)'
    BY <1>5, <2>1, <2>2 DEF Summed, Folding
  <2> QED BY <1>5, <2>3 DEF SummaryPending
<1> QED BY <1>1, <1>3, <1>4, <1>5

\* The rest of the worker's steps keep a summary pending.
LEMMA SummaryKeptByWorker ==
    ASSUME Typed, SummaryPending,
           \/ UpdateLabel \/ GetGlobal \/ FinishItem
           \/ \E n \in Namespaces : GetItem(n)
    PROVE  SummaryPending'
<1>t. /\ worker \in WorkerTypes /\ worker.key \in Namespaces /\ Global \in Namespaces
      /\ Hubs \subseteq Namespaces /\ Global \notin Hubs
      /\ store \in [Namespaces -> Policies]
      /\ \A n \in Namespaces : Versions(n) \subseteq Policies
  BY PolicyAssumption DEF Typed, TypeOK, WorkerTypes, Namespaces, Versions
<1>1. CASE UpdateLabel
  <2> DEFINE n == worker.key
             o == Updated(n, worker.obj)
  <2>1. /\ worker.pc = "label"
        /\ worker' = [worker EXCEPT !.pc = "done"]
        /\ UNCHANGED <<cache, notify, queue>>
        /\ \/ store[n] # Absent /\ Write(n, o)
           \/ UNCHANGED <<store, revision, stream>>
        /\ created' = created
    BY <1>1, UpdateLabelCases DEF UpdateLabel, counters
  <2>2. o \in Versions(n) /\ o.summary = store[n].summary
    BY <2>1, WorkerRequests
  <2>3. worker'.pc = "done"
    BY <1>t, <2>1 DEF WorkerTypes
  <2>4. n \in Namespaces
    BY <1>t
  <2> HIDE DEF o, n
  <2>5. /\ store'[Global].summary = store[Global].summary
        /\ store'[Global] # Absent => store[Global] # Absent
        /\ \A m \in Namespaces : \/ store'[m] = store[m] /\ stream'[m] = stream[m]
                                 \/ stream'[m] # <<>>
    <3>1. CASE UNCHANGED <<store, revision, stream>>
      BY <3>1
    <3>2. ASSUME NEW p \in Versions(n), Put(n, p), p.summary = o.summary, store[n] # Absent
          PROVE  /\ store'[Global].summary = store[Global].summary
                 /\ store'[Global] # Absent => store[Global] # Absent
                 /\ \A m \in Namespaces : \/ store'[m] = store[m] /\ stream'[m] = stream[m]
                                          \/ stream'[m] # <<>>
      <4>1. p \in Policies
        BY <1>t, <2>4
      <4>2. /\ stream'[n] # <<>> /\ store'[n].summary = store[n].summary
            /\ \A m \in Namespaces \ {n} : store'[m] = store[m] /\ stream'[m] = stream[m]
        <5>1. store'[n] = p
          BY <1>t, <2>4, <3>2 DEF Put
        <5>2. stream'[n] # <<>>
          BY <2>4, <3>2, <4>1, LastEvent
        <5> QED BY <2>2, <2>4, <3>2, <5>1, <5>2, OthersKept
      <4> QED BY <1>t, <3>2, <4>2
    <3> QED BY <2>1, <2>2, <2>4, <3>1, <3>2, WriteEffect
  <2>6. ASSUME NEW h \in Hubs, store'[h].label = Global, store'[h].status # NoStatus,
               stream'[h] = <<>>
        PROVE  Awaited(h)' \/ (Summed(h)' /\ ~Folding(h)')
    <3>1. store'[h] = store[h] /\ stream'[h] = stream[h]
      BY <1>t, <2>5, <2>6
    <3>2. Awaited(h) \/ Summed(h)
      BY <2>1, <2>6, <3>1 DEF SummaryPending, Folding
    <3>3. Awaited(h) => Awaited(h)'
      BY <2>1 DEF Awaited
    <3>4. Summed(h) => Summed(h)'
      BY <2>1, <2>5, <3>1, SummedKept
    <3>5. ~Folding(h)'
      BY <2>3 DEF Folding
    <3> QED BY <3>2, <3>3, <3>4, <3>5
  <2> QED BY <2>6 DEF SummaryPending
<1>2. CASE GetGlobal
  <2> DEFINE g == store[Global]
  <2>1. worker.pc = "get" /\ worker.obj.label = Global
    BY <1>2 DEF GetGlobal, Typed, WorkerHolds
  <2>2. /\ UNCHANGED <<store, stream, cache, notify, queue, created>>
        /\ worker' = IF g = Absent THEN [worker EXCEPT !.pc = "done"]
                     ELSE [worker EXCEPT !.pc = "update", !.global = g]
    BY <1>2, <2>1 DEF GetGlobal, server, informer, counters
  <2> HIDE DEF g
  <2>3. CASE g = Absent
    <3>1. worker'.pc = "done"
      BY <1>t, <2>2, <2>3 DEF WorkerTypes
    <3>2. \A h \in Hubs : Summed(h)' /\ ~Folding(h)'
      BY <2>2, <2>3, <3>1 DEF Summed, Folding, g
    <3> QED BY <2>2, <3>2 DEF SummaryPending
  <2>4. CASE g # Absent
    <3>1. worker' = [worker EXCEPT !.pc = "update", !.global = g]
      BY <2>2, <2>4
    <3>2. worker'.pc = "update" /\ worker'.key = worker.key /\ worker'.obj = worker.obj
      BY <1>t, <3>1 DEF WorkerTypes
    <3> QED BY <2>1, <2>2, <3>2 DEF SummaryPending, Awaited, Folding, Summed
  <2> QED BY <2>3, <2>4
<1>3. CASE FinishItem
  <2>1. /\ worker.pc = "done" /\ UNCHANGED <<store, stream, cache, notify, created>>
        /\ worker' = IdleWorker
    BY <1>3 DEF FinishItem, server, informer, counters
  <2>2. queue'.dirty = queue.dirty
    BY <1>t, <1>3, QueueEffect
  <2>3. worker'.pc = "idle"
    BY <2>1 DEF IdleWorker
  <2> QED BY <2>1, <2>2, <2>3 DEF SummaryPending, Awaited, Folding, Summed
<1>4. ASSUME NEW n \in Namespaces, GetItem(n)
      PROVE  SummaryPending'
  <2>1. UNCHANGED <<store, stream, cache, notify, created>>
    BY <1>4 DEF GetItem, server, informer, counters
  <2>2. /\ queue'.dirty = queue.dirty \ {n}
        /\ worker.pc = "idle" /\ worker'.pc = "process" /\ worker'.key = n
    BY <1>4, QueueEffect
  <2> QED BY <2>1, <2>2 DEF SummaryPending, Awaited, Folding, Summed
<1> QED BY <1>1, <1>2, <1>3, <1>4

\* The inductive invariant behind SummaryCurrent.
SummaryInv ==
    /\ GenuineInv
    /\ WorkSerialised
    /\ CacheFollows
    /\ CopiesArePolicies
    /\ ~failed => SummaryPending

\* A summary stays pending while no request fails and no retry is used up.
LEMMA NextSummary ==
    ASSUME SummaryInv, [Next]_vars, [~GivesUp]_vars
    PROVE  SummaryInv'
<1>i. /\ GenuineInv /\ Typed /\ StoreAges /\ WorkerGenuine /\ WorkSerialised /\ CacheFollows
      /\ CopiesArePolicies /\ (~failed => SummaryPending)
  BY DEF SummaryInv, GenuineInv
<1>1. GenuineInv' /\ WorkSerialised' /\ CacheFollows' /\ CopiesArePolicies'
  BY <1>i, NextGenuine, NextSerialised, NextFollows, NextCopies
<1>2. ASSUME ~failed' PROVE SummaryPending'
  <2>t. Hubs \subseteq Namespaces
    BY DEF Namespaces
  <2>1. CASE Restart
    <3>1. /\ \A n \in Namespaces : stream'[n] = I!FirstList(store[n])
          /\ UNCHANGED store
      BY <2>1 DEF Restart, server
    <3> QED BY <1>i, <2>t, <3>1, ListEnds, ReportedCopies DEF SummaryPending
  <2>2. CASE RequestFails
    BY <1>2, <2>2 DEF RequestFails
  <2>3. CASE UNCHANGED vars
    BY <1>i, <1>2, <2>3 DEF vars, SummaryPending, Awaited, Folding, Summed
  <2>4. ASSUME \/ ClientStep \/ UserDelete \/ Relist \/ Resync
               \/ \E n \in Namespaces : InformerStep(n) \/ enqueue(n)
        PROVE  SummaryPending'
    <3>1. failed' = failed
      BY <1>i, <2>4, ClientEffect DEF UserDelete, Relist, Resync, InformerStep, enqueue, counters, process
    <3> QED BY <1>i, <1>2, <2>4, <3>1, SummaryKeptByOthers
  <2>5. ASSUME \/ Process \/ UpdateLabel \/ GetGlobal \/ FinishItem
               \/ \E n \in Namespaces : GetItem(n)
        PROVE  SummaryPending'
    <3>1. failed' = failed
      BY <2>5 DEF Process, UpdateLabel, GetGlobal, FinishItem, GetItem, counters
    <3> QED BY <1>i, <1>2, <2>5, <3>1, SummaryKeptByProcess, SummaryKeptByWorker
  <2>6. ASSUME UpdateGlobal
        PROVE  SummaryPending'
    <3>1. failed' = failed
      BY <2>6 DEF UpdateGlobal, counters
    <3>2. CASE UNCHANGED vars
      BY <2>3, <3>2
    <3>3. CASE ~GivesUp
      BY <1>i, <1>2, <2>6, <3>1, <3>3, SummaryKeptByUpdate
    <3> QED BY <3>2, <3>3
  <2>7. CASE Next
    <3>1. \/ ClientStep \/ UserDelete
          \/ \E n \in Namespaces : InformerStep(n) \/ enqueue(n) \/ GetItem(n)
          \/ Process \/ UpdateLabel \/ GetGlobal \/ UpdateGlobal \/ FinishItem
          \/ RequestFails \/ Relist \/ Resync \/ Restart
      BY <2>7 DEF Next, Step, WorkerStep, ClientStep
    <3> QED BY <2>1, <2>2, <2>4, <2>5, <2>6, <3>1
  <2> QED BY <2>3, <2>7
<1> QED BY <1>1, <1>2 DEF SummaryInv

\* It holds at the start.
LEMMA InitSummary ==
    ASSUME Init
    PROVE  SummaryInv
<1>1. /\ \A n \in Namespaces : store[n] = Absent
      /\ Hubs \subseteq Namespaces /\ Absent.label # Global
  BY PolicyAssumption DEF Init, Namespaces, Absent
<1>2. CopiesArePolicies /\ SummaryPending
  BY <1>1 DEF CopiesArePolicies, SummaryPending
<1> QED BY <1>2, InitGenuine, InitLabel DEF SummaryInv, LabelInv

\* SummaryCurrent follows from it.
LEMMA SummaryWhenQuiet ==
    ASSUME SummaryInv
    PROVE  SummaryCurrent
<1> SUFFICES ASSUME NEW h \in Hubs, Quiet(h), ~failed, store[h].label = Global,
                    store[h].status # NoStatus
             PROVE  Summed(h)
  BY DEF SummaryCurrent, Summed
<1>1. /\ stream[h] = <<>> /\ notify[h] = 0
      /\ h \notin queue.dirty /\ h \notin queue.processing
  BY DEF Quiet, Idle
<1>2. worker.pc # "idle" => worker.key # h
  BY <1>1 DEF SummaryInv, WorkSerialised
<1>3. ~(notify[h] > 0)
  BY <1>1
<1>4. ~Awaited(h) /\ ~Folding(h)
  BY <1>1, <1>2, <1>3 DEF Awaited, Folding
<1> QED BY <1>1, <1>4 DEF SummaryInv, SummaryPending

\* SummaryCurrent holds in every behaviour in which RetryOnConflict never returns a
\* conflict: as long as no request has failed since the server was started, the
\* summary is up to date with every hub the controller has finished with, whatever
\* users and the copies of other hubs do to the policy between updateGlobalHubPolicy's
\* read and its update, deleting it and creating it again included.
THEOREM SummaryOnceDone == Spec /\ [][~GivesUp]_vars => []SummaryCurrent
<1>1. Init => SummaryInv
  BY InitSummary
<1>2. SummaryInv /\ [Next]_vars /\ [~GivesUp]_vars => SummaryInv'
  BY NextSummary
<1>3. SummaryInv => SummaryCurrent
  BY SummaryWhenQuiet
<1> QED BY <1>1, <1>2, <1>3, PTL DEF Spec

\* Nothing is there before the first write.
NothingUnwritten ==
    writes = 0 =>
        \A n \in Namespaces : store[n] = Absent /\ cache[n] = Absent /\ stream[n] = <<>>

\* Every attempt that was refused has cost a write, and so has one that will be.
TriesLeft ==
    /\ worker.pc \in {"get", "update"} => Steps + 1 <= worker.tries + writes
    /\ worker.pc = "update" /\ worker.global.rv # store[Global].rv
          => Steps + 2 <= worker.tries + writes

\* The first write comes first.
LEMMA NextUnwritten ==
    ASSUME Typed, NothingUnwritten, [Next]_vars
    PROVE  NothingUnwritten'
<1>t. Global \in Namespaces /\ worker.key \in Namespaces /\ writes \in Nat
  <2>1. Global \in Namespaces /\ worker.key \in Namespaces /\ writes \in 0..MaxWrites
    BY DEF Typed, TypeOK, Namespaces
  <2> QED BY <2>1, PolicyAssumption
<1>1. CASE ClientStep \/ UserDelete
  <2>1. writes' = writes + 1
    BY <1>1, ClientEffect DEF UserDelete
  <2> QED BY <1>t, <2>1 DEF NothingUnwritten
<1>2. ASSUME ~ClientStep, ~UserDelete PROVE NothingUnwritten'
  <2>1. writes' = writes
    BY <1>2 DEF Next, Step, WorkerStep, ClientStep, InformerStep, enqueue,
                GetItem, Process, UpdateLabel, GetGlobal, UpdateGlobal, FinishItem,
                RequestFails, Relist, Resync, Restart, counters, vars
  <2> SUFFICES ASSUME writes = 0
               PROVE  \A n \in Namespaces : /\ store'[n] = Absent /\ cache'[n] = Absent
                                            /\ stream'[n] = <<>>
    BY <2>1 DEF NothingUnwritten
  <2>2. \A n \in Namespaces : store[n] = Absent /\ cache[n] = Absent /\ stream[n] = <<>>
    BY DEF NothingUnwritten
  <2>3. CASE Process
    <3>1. UNCHANGED <<store, stream, cache>>
      <4>1. cache[worker.key] = Absent /\ Absent.label # Global
        BY <1>t, <2>2, PolicyAssumption DEF Absent, Namespaces
      <4> QED BY <2>3, <4>1, ProcessCases
    <3> QED BY <2>2, <3>1
  <2>4. CASE Relist
    <3>1. /\ \A n \in Namespaces : stream'[n] = I!ReList(store[n], cache[n])
          /\ UNCHANGED <<store, cache>>
      BY <2>4 DEF Relist, server
    <3> QED BY <2>2, <3>1 DEF I!ReList
  <2>5. CASE Restart
    <3>1. /\ \A n \in Namespaces : stream'[n] = I!FirstList(store[n]) /\ cache'[n] = Absent
          /\ UNCHANGED store
      BY <2>5 DEF Restart, server
    <3> QED BY <2>2, <3>1 DEF I!FirstList
  <2>6. \A n \in Namespaces : ~InformerStep(n)
    BY <2>2 DEF InformerStep
  <2>7. CASE UpdateLabel
    <3>1. UNCHANGED <<store, stream, cache>>
      BY <1>t, <2>2, <2>7, UpdateLabelCases
    <3> QED BY <2>2, <3>1
  <2>8. CASE UpdateGlobal
    <3>1. UNCHANGED <<store, stream, cache>>
      BY <1>t, <2>2, <2>8, UpdateGlobalCases
    <3> QED BY <2>2, <3>1
  <2>9. CASE \/ \E n \in Namespaces : enqueue(n) \/ GetItem(n)
             \/ GetGlobal \/ FinishItem \/ RequestFails \/ Resync \/ UNCHANGED vars
    <3>1. UNCHANGED <<store, stream, cache>>
      BY <2>9 DEF enqueue, GetItem, GetGlobal, FinishItem, RequestFails, Resync, vars,
                  server, informer
    <3> QED BY <2>2, <3>1
  <2>10. CASE Next
    <3>1. \/ \E n \in Namespaces : enqueue(n) \/ GetItem(n)
          \/ Process \/ UpdateLabel \/ GetGlobal \/ UpdateGlobal \/ FinishItem
          \/ RequestFails \/ Relist \/ Resync \/ Restart
      BY <1>2, <2>6, <2>10 DEF Next, Step, WorkerStep, ClientStep
    <3> QED BY <2>3, <2>4, <2>5, <2>7, <2>8, <2>9, <3>1
  <2> QED BY <2>9, <2>10
<1> QED BY <1>1, <1>2

\* Attempts are left as long as writes are.
LEMMA NextTries ==
    ASSUME Typed, NothingUnwritten, TriesLeft, [Next]_vars
    PROVE  TriesLeft'
<1>t. /\ worker \in WorkerTypes /\ worker.key \in Namespaces /\ Global \in Namespaces
      /\ store \in [Namespaces -> Policies]
      /\ writes \in Nat /\ Steps \in Nat /\ worker.tries \in Nat
  <2>1. /\ worker \in WorkerTypes /\ Global \in Namespaces
        /\ store \in [Namespaces -> Policies] /\ writes \in 0..MaxWrites
    BY DEF Typed, TypeOK, WorkerTypes, Namespaces
  <2>2. worker.tries \in 0..Steps /\ worker.key \in Namespaces
    BY <2>1 DEF WorkerTypes
  <2> QED BY <2>1, <2>2, PolicyAssumption
<1>k. ASSUME UNCHANGED <<worker, store, writes>> PROVE TriesLeft'
  BY <1>k DEF TriesLeft
<1>d. ASSUME worker'.pc \notin {"get", "update"} PROVE TriesLeft'
  BY <1>d DEF TriesLeft
<1>1. CASE ClientStep \/ UserDelete
  <2>1. writes' = writes + 1 /\ UNCHANGED worker
    BY <1>1, ClientEffect DEF UserDelete
  <2>2. worker.pc \in {"get", "update"} => Steps + 2 <= worker.tries + writes'
    BY <1>t, <2>1 DEF TriesLeft
  <2>3. worker.pc \in {"get", "update"} => Steps + 1 <= worker.tries + writes'
    BY <1>t, <2>1 DEF TriesLeft
  <2> QED BY <2>1, <2>2, <2>3 DEF TriesLeft
<1>2. CASE Process
  <2> DEFINE o == cache[worker.key]
  <2>1. /\ worker.pc = "process" /\ UNCHANGED <<store, writes>>
        /\ \/ worker' = [worker EXCEPT !.pc = "done"]
           \/ worker' = [worker EXCEPT !.pc = "label",
                                       !.obj = [o EXCEPT !.label = worker.key]]
           \/ /\ o.label = Global
              /\ worker' = [worker EXCEPT !.pc = "get", !.obj = o, !.tries = Steps]
    BY <1>2, ProcessCases DEF counters
  <2>2. CASE worker' = [worker EXCEPT !.pc = "done"]
    BY <1>d, <1>t, <2>2 DEF WorkerTypes
  <2>3. CASE worker' = [worker EXCEPT !.pc = "label",
                                      !.obj = [o EXCEPT !.label = worker.key]]
    <3>1. worker'.pc = "label"
      BY <1>t, <2>3 DEF WorkerTypes
    <3> QED BY <1>d, <3>1
  <2>4. CASE /\ o.label = Global
             /\ worker' = [worker EXCEPT !.pc = "get", !.obj = o, !.tries = Steps]
    <3>1. o # Absent
      BY <2>4, PolicyAssumption DEF Absent, Namespaces
    <3>2. writes # 0
      BY <1>t, <3>1 DEF NothingUnwritten
    <3> HIDE DEF o
    <3>3. worker'.pc = "get" /\ worker'.tries = Steps
      BY <1>t, <2>4 DEF WorkerTypes
    <3>4. Steps + 1 <= Steps + writes'
      BY <1>t, <2>1, <3>2
    <3> QED BY <3>3, <3>4 DEF TriesLeft
  <2> QED BY <2>1, <2>2, <2>3, <2>4
<1>3. CASE GetGlobal
  <2> DEFINE g == store[Global]
  <2>1. worker.pc = "get" /\ worker.obj.label = Global
    BY <1>3 DEF GetGlobal, Typed, WorkerHolds
  <2>2. /\ UNCHANGED <<store, writes>>
        /\ worker' = IF g = Absent THEN [worker EXCEPT !.pc = "done"]
                     ELSE [worker EXCEPT !.pc = "update", !.global = g]
    BY <1>3, <2>1 DEF GetGlobal, server, counters
  <2> HIDE DEF g
  <2>3. CASE g = Absent
    BY <1>d, <1>t, <2>2, <2>3 DEF WorkerTypes
  <2>4. CASE g # Absent
    <3>1. worker' = [worker EXCEPT !.pc = "update", !.global = g]
      BY <2>2, <2>4
    <3>2. worker'.pc = "update" /\ worker'.tries = worker.tries /\ worker'.global = g
      BY <1>t, <3>1 DEF WorkerTypes
    <3> QED BY <2>1, <2>2, <2>4, <3>2 DEF TriesLeft, g
  <2> QED BY <2>3, <2>4
<1>4. CASE UpdateGlobal
  <2>1. /\ worker.pc = "update" /\ UNCHANGED writes
        /\ \/ worker' = [worker EXCEPT !.pc = "done"]
           \/ /\ store[Global].rv # worker.global.rv /\ UNCHANGED store
              /\ worker' = [worker EXCEPT !.pc = "get", !.tries = @ - 1]
    BY <1>4, UpdateGlobalCases DEF counters
  <2>2. CASE worker' = [worker EXCEPT !.pc = "done"]
    BY <1>d, <1>t, <2>2 DEF WorkerTypes
  <2>3. CASE /\ store[Global].rv # worker.global.rv /\ UNCHANGED store
             /\ worker' = [worker EXCEPT !.pc = "get", !.tries = @ - 1]
    <3>1. worker'.pc = "get" /\ worker'.tries = worker.tries - 1
      BY <1>t, <2>3 DEF WorkerTypes
    <3>2. Steps + 2 <= worker.tries + writes
      BY <2>1, <2>3 DEF TriesLeft
    <3>3. Steps + 1 <= (worker.tries - 1) + writes'
      BY <1>t, <2>1, <3>2
    <3> QED BY <3>1, <3>3 DEF TriesLeft
  <2> QED BY <2>1, <2>2, <2>3
<1>5. CASE \/ \E n \in Namespaces : InformerStep(n) \/ enqueue(n)
           \/ Relist \/ Resync \/ UNCHANGED vars
  BY <1>5, <1>k DEF InformerStep, enqueue, Relist, Resync, vars, server, counters
<1>6. CASE UpdateLabel \/ RequestFails
  <2>1. worker' = [worker EXCEPT !.pc = "done"]
    BY <1>6 DEF UpdateLabel, RequestFails
  <2>2. worker'.pc = "done"
    BY <1>t, <2>1 DEF WorkerTypes
  <2> QED BY <1>d, <2>2
<1>7. CASE FinishItem \/ Restart
  <2>1. worker'.pc = "idle"
    BY <1>7 DEF FinishItem, Restart, IdleWorker
  <2> QED BY <1>d, <2>1
<1>8. CASE \E n \in Namespaces : GetItem(n)
  <2>1. worker'.pc = "process"
    BY <1>8, QueueEffect
  <2> QED BY <1>d, <2>1
<1>9. CASE Next
  <2>1. \/ ClientStep \/ UserDelete
        \/ \E n \in Namespaces : InformerStep(n) \/ enqueue(n) \/ GetItem(n)
        \/ Process \/ UpdateLabel \/ GetGlobal \/ UpdateGlobal \/ FinishItem
        \/ RequestFails \/ Relist \/ Resync \/ Restart
    BY <1>9 DEF Next, Step, WorkerStep, ClientStep
  <2> QED BY <1>1, <1>2, <1>3, <1>4, <1>5, <1>6, <1>7, <1>8, <2>1
<1> QED BY <1>5, <1>9

\* RetryOnConflict never returns a conflict when there are no more writes than
\* attempts, deletions included: only users change the policy while the one worker
\* retries.
THEOREM RetriesSuffice ==
    ASSUME MaxWrites <= Steps
    PROVE  Spec => [][~GivesUp]_vars
<1> DEFINE Inv == Typed /\ NothingUnwritten /\ TriesLeft
<1>1. Init => Inv
  <2> SUFFICES ASSUME Init PROVE Inv
    OBVIOUS
  <2>1. worker.pc = "idle"
    BY DEF Init, IdleWorker
  <2>2. NothingUnwritten
    BY DEF Init, NothingUnwritten
  <2> QED BY <2>1, <2>2, InitTyped DEF TriesLeft
<1>2. Inv /\ [Next]_vars => Inv'
  BY NextTyped, NextUnwritten, NextTries
<1>3. Inv /\ [Next]_vars => [~GivesUp]_vars
  <2> SUFFICES ASSUME Inv, GivesUp PROVE FALSE
    OBVIOUS
  <2>1. /\ worker \in WorkerTypes /\ worker.tries \in Nat /\ writes \in 0..MaxWrites
        /\ {Steps, MaxWrites} \subseteq Nat
    <3>1. worker \in WorkerTypes /\ writes \in 0..MaxWrites
      BY DEF Typed, TypeOK, WorkerTypes
    <3>2. worker.tries \in 0..Steps
      BY <3>1 DEF WorkerTypes
    <3> QED BY <3>1, <3>2, PolicyAssumption
  <2>2. /\ worker.pc = "update" /\ store[Global].rv # worker.global.rv
        /\ worker'.pc = "done"
        /\ \/ worker' = [worker EXCEPT !.pc = "get", !.tries = @ - 1]
           \/ ~(store[Global] # Absent /\ worker.tries > 1)
    BY UpdateGlobalCases DEF GivesUp
  <2>3. ~(worker' = [worker EXCEPT !.pc = "get", !.tries = @ - 1])
    BY <2>1, <2>2 DEF WorkerTypes
  <2>4. store[Global] # Absent /\ Steps + 2 <= worker.tries + writes
    BY <2>2 DEF TriesLeft, GivesUp
  <2>5. ~(worker.tries > 1)
    BY <2>2, <2>3, <2>4
  <2> QED BY <2>1, <2>4, <2>5
<1> QED BY <1>1, <1>2, <1>3, PTL DEF Spec

\* SummaryCurrent holds of every behaviour with no more writes and deletions than
\* RetryOnConflict makes attempts (updateGlobalHubPolicy).
THEOREM SummaryWithinRetries ==
    ASSUME MaxWrites <= Steps
    PROVE  Spec => []SummaryCurrent
BY SummaryOnceDone, RetriesSuffice, PTL

===============================================================================
