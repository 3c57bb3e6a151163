------------------------------ MODULE Replication ------------------------------
(***************************************************************************)
(* What a syncer promises about every single write: the target of the      *)
(* replication follows the source.  It may lag behind and may leave        *)
(* contents out, but what it is given is always something the source held, *)
(* in the order in which the source held it, deletions included.           *)
(*                                                                         *)
(* trail[k] holds the contents of k that the target may still be given,    *)
(* oldest first; the last is what the source has.  SpecSyncer and          *)
(* StatusSyncer implement this specification.                              *)
(***************************************************************************)
EXTENDS Integers, Sequences

CONSTANTS
    Keys,      \* the objects that are replicated
    Absent     \* the content of an object that is not there

VARIABLES
    source,    \* the contents the objects have
    target,    \* the contents their copies have
    trail      \* the contents the copies may still be given

vars == <<source, target, trail>>

Init ==
    /\ source = [k \in Keys |-> Absent]
    /\ target = [k \in Keys |-> Absent]
    /\ trail = [k \in Keys |-> <<Absent>>]

\* t leaves out elements of s, but never the last: at says where in s the
\* other elements of t are.
LeavesOut(t, s) ==
    \/ t = s
    \/ /\ Len(t) \in 1..Len(s)
       /\ t[Len(t)] = s[Len(s)]
       /\ \E at \in [1..Len(t) - 1 -> 1..Len(s) - 1] :
             \A i \in 1..Len(t) - 1 :
                /\ t[i] = s[at[i]]
                /\ \A j \in 1..i - 1 : at[j] < at[i]

\* Only k changes.
Only(k, f, g) == g = [f EXCEPT ![k] = g[k]]

\* The source of k changes, or is written with the content that it has.
Change(k) ==
    /\ Only(k, source, source')
    /\ Only(k, trail, trail')
    /\ LeavesOut(trail'[k], Append(trail[k], source'[k]))
    /\ UNCHANGED target

\* The target is given the oldest content under way.
Give(k) ==
    /\ target' = [target EXCEPT ![k] = Head(trail[k])]
    /\ Only(k, trail, trail')
    /\ LeavesOut(trail'[k], trail[k])
    /\ UNCHANGED source

\* t is what remains of s once the source c has been read again, or not.
Overtaken(t, s, c) == LeavesOut(t, s) \/ LeavesOut(t, Append(s, c))

\* Contents under way are overtaken by newer ones or forgotten in a restart, and
\* the sources may be read again.
Refresh ==
    /\ UNCHANGED <<source, target>>
    /\ \A k \in Keys : Overtaken(trail'[k], trail[k], source[k])

Next ==
    \/ Refresh
    \/ \E k \in Keys : Give(k) \/ Change(k)

Spec == Init /\ [][Next]_vars

-------------------------------------------------------------------------------
(* What leaving out elements amounts to; the refinement proofs use it.     *)

\* An element put in front of a sequence.
LEMMA ConsElements ==
    ASSUME NEW S, NEW o \in S, NEW c \in Seq(S)
    PROVE  /\ <<o>> \o c \in Seq(S)
           /\ Len(c) \in Nat
           /\ Len(<<o>> \o c) = Len(c) + 1
           /\ (<<o>> \o c)[1] = o
           /\ \A i \in 1..Len(c) : (<<o>> \o c)[i + 1] = c[i]
OBVIOUS

\* An element put at the end of a sequence.
LEMMA AppendElements ==
    ASSUME NEW S, NEW s \in Seq(S), NEW e \in S
    PROVE  /\ Append(s, e) \in Seq(S)
           /\ Len(s) \in Nat
           /\ Len(Append(s, e)) = Len(s) + 1
           /\ \A i \in 1..Len(s) : Append(s, e)[i] = s[i]
           /\ Append(s, e)[Len(s) + 1] = e
OBVIOUS

\* A sequence may be left as it is.
LEMMA LeavesOutNothing == ASSUME NEW s PROVE LeavesOut(s, s)
BY DEF LeavesOut

\* The first element may be left out.
LEMMA LeavesOutFirst ==
    ASSUME NEW S, NEW o \in S, NEW c \in Seq(S), c # <<>>
    PROVE  LeavesOut(c, <<o>> \o c)
<1> DEFINE s == <<o>> \o c
           n == Len(c)
           at == [i \in 1..n - 1 |-> i + 1]
<1>1. /\ n \in Nat /\ n # 0
      /\ Len(s) = n + 1
      /\ \A i \in 1..n : s[i + 1] = c[i]
  BY ConsElements
<1> HIDE DEF s
<1>2. Len(c) \in 1..Len(s) /\ c[Len(c)] = s[Len(s)]
  BY <1>1
<1>3. at \in [1..Len(c) - 1 -> 1..Len(s) - 1]
  BY <1>1
<1>4. \A i \in 1..Len(c) - 1 : c[i] = s[at[i]] /\ \A j \in 1..i - 1 : at[j] < at[i]
  BY <1>1
<1> HIDE DEF n, at
<1> QED BY <1>2, <1>3, <1>4 DEF LeavesOut, s

\* All but the last element may be left out.
LEMMA LeavesOutButLast ==
    ASSUME NEW S, NEW s \in Seq(S), NEW u \in S
    PROVE  LeavesOut(<<u>>, Append(s, u))
<1> DEFINE t == <<u>>
           r == Append(s, u)
           at == [i \in 1..0 |-> 0]
<1>1. /\ Len(s) \in Nat
      /\ Len(r) = Len(s) + 1
      /\ r[Len(s) + 1] = u
      /\ Len(t) = 1
      /\ t[1] = u
  BY AppendElements
<1> HIDE DEF t, r
<1>2. Len(t) \in 1..Len(r) /\ t[Len(t)] = r[Len(r)]
  BY <1>1
<1>3. at \in [1..Len(t) - 1 -> 1..Len(r) - 1]
  BY <1>1
<1>4. \A i \in 1..Len(t) - 1 : t[i] = r[at[i]] /\ \A j \in 1..i - 1 : at[j] < at[i]
  BY <1>1
<1> QED BY <1>2, <1>3, <1>4 DEF LeavesOut, t, r

\* Everything between the first and the last element may be left out.
LEMMA LeavesOutBetween ==
    ASSUME NEW S, NEW s \in Seq(S), s # <<>>, NEW u \in S
    PROVE  LeavesOut(<<Head(s), u>>, Append(s, u))
<1> DEFINE t == <<Head(s), u>>
           r == Append(s, u)
           at == [i \in 1..1 |-> 1]
<1>1. /\ Len(s) \in Nat /\ Len(s) # 0
      /\ Len(r) = Len(s) + 1
      /\ r[1] = s[1]
      /\ r[Len(s) + 1] = u
      /\ Len(t) = 2
      /\ t[1] = s[1]
      /\ t[2] = u
  BY AppendElements
<1> HIDE DEF t, r
<1>2. Len(t) \in 1..Len(r) /\ t[Len(t)] = r[Len(r)]
  BY <1>1
<1>3. at \in [1..Len(t) - 1 -> 1..Len(r) - 1]
  BY <1>1
<1>4. \A i \in 1..Len(t) - 1 : t[i] = r[at[i]] /\ \A j \in 1..i - 1 : at[j] < at[i]
  BY <1>1
<1> QED BY <1>2, <1>3, <1>4 DEF LeavesOut, t, r

\* Leaving out elements twice is leaving out elements.
LEMMA LeavesOutTransitive ==
    ASSUME NEW S, NEW t \in Seq(S), NEW s \in Seq(S), NEW r \in Seq(S),
           LeavesOut(t, s), LeavesOut(s, r)
    PROVE  LeavesOut(t, r)
<1>1. CASE t = s \/ s = r
  BY <1>1
<1>2. CASE t # s /\ s # r
  <2> DEFINE Places(x, y, at) ==
                \A i \in 1..Len(x) - 1 : x[i] = y[at[i]] /\ \A j \in 1..i - 1 : at[j] < at[i]
  <2>1. PICK f \in [1..Len(t) - 1 -> 1..Len(s) - 1] : Places(t, s, f)
    BY <1>2 DEF LeavesOut
  <2>2. PICK g \in [1..Len(s) - 1 -> 1..Len(r) - 1] : Places(s, r, g)
    BY <1>2 DEF LeavesOut
  <2>3. /\ Len(t) \in 1..Len(s) /\ t[Len(t)] = s[Len(s)]
        /\ Len(s) \in 1..Len(r) /\ s[Len(s)] = r[Len(r)]
        /\ Len(t) \in Nat /\ Len(s) \in Nat /\ Len(r) \in Nat
    BY <1>2 DEF LeavesOut
  <2> DEFINE at == [i \in 1..Len(t) - 1 |-> g[f[i]]]
  <2>4. at \in [1..Len(t) - 1 -> 1..Len(r) - 1]
    OBVIOUS
  <2>5. \A i \in 1..Len(s) - 1, j \in 1..Len(s) - 1 : j < i => g[j] < g[i]
    BY <2>2, <2>3
  <2>6. ASSUME NEW i \in 1..Len(t) - 1
        PROVE  t[i] = r[at[i]] /\ \A j \in 1..i - 1 : at[j] < at[i]
    <3>1. t[i] = s[f[i]] /\ s[f[i]] = r[g[f[i]]]
      BY <2>1, <2>2
    <3>2. ASSUME NEW j \in 1..i - 1 PROVE at[j] < at[i]
      <4>1. j \in 1..Len(t) - 1 /\ f[j] < f[i]
        BY <2>1, <2>3
      <4> QED BY <2>5, <4>1
    <3> QED BY <3>1, <3>2
  <2> HIDE DEF at, Places
  <2>7. Len(t) \in 1..Len(r) /\ t[Len(t)] = r[Len(r)]
    BY <2>3
  <2> QED BY <2>4, <2>6, <2>7 DEF LeavesOut
<1> QED BY <1>1, <1>2

\* Elements may be left out behind a first one.
LEMMA LeavesOutBehind ==
    ASSUME NEW S, NEW o \in S, NEW t \in Seq(S), NEW s \in Seq(S), LeavesOut(t, s)
    PROVE  LeavesOut(<<o>> \o t, <<o>> \o s)
<1>1. CASE t = s
  BY <1>1, LeavesOutNothing
<1>2. CASE t # s
  <2> DEFINE a == <<o>> \o t
             b == <<o>> \o s
             m == Len(t)
             n == Len(s)
  <2>1. PICK f \in [1..m - 1 -> 1..n - 1] :
            \A i \in 1..m - 1 : t[i] = s[f[i]] /\ \A j \in 1..i - 1 : f[j] < f[i]
    BY <1>2 DEF LeavesOut
  <2>2. m \in 1..n /\ t[m] = s[n] /\ m \in Nat /\ n \in Nat
    BY <1>2 DEF LeavesOut
  <2>3. /\ Len(a) = m + 1 /\ a[1] = o /\ \A i \in 1..m : a[i + 1] = t[i]
        /\ Len(b) = n + 1 /\ b[1] = o /\ \A i \in 1..n : b[i + 1] = s[i]
    BY ConsElements
  <2> DEFINE at == [i \in 1..m |-> IF i = 1 THEN 1 ELSE f[i - 1] + 1]
  <2> HIDE DEF a, b, m, n
  <2>4. \A i \in 1..m : i = 1 \/ i - 1 \in 1..m - 1
    BY <2>2
  <2>5. \A i \in 1..m - 1 : f[i] \in 1..n - 1 /\ f[i] \in Nat /\ f[i] + 1 \in 1..n
    BY <2>2
  <2>6. at \in [1..m -> 1..n]
    BY <2>2, <2>4, <2>5
  <2>7. ASSUME NEW i \in 1..m
        PROVE  a[i] = b[at[i]] /\ \A j \in 1..i - 1 : at[j] < at[i]
    <3>1. CASE i = 1
      BY <2>2, <2>3, <3>1
    <3>2. CASE i # 1
      <4>1. i - 1 \in 1..m - 1 /\ at[i] = f[i - 1] + 1
        BY <2>4, <3>2
      <4>2. a[i] = t[i - 1] /\ t[i - 1] = s[f[i - 1]]
        <5>1. i - 1 \in 1..m /\ (i - 1) + 1 = i
          BY <2>2, <4>1
        <5>2. a[(i - 1) + 1] = t[i - 1]
          BY <2>3, <5>1
        <5> QED BY <2>1, <4>1, <5>1, <5>2
      <4>3. b[f[i - 1] + 1] = s[f[i - 1]]
        <5>1. f[i - 1] \in 1..n
          BY <2>2, <2>5, <4>1
        <5> QED BY <2>3, <5>1
      <4>4. ASSUME NEW j \in 1..i - 1 PROVE at[j] < at[i]
        <5>1. j \in 1..m /\ f[i - 1] \in Nat \ {0}
          BY <2>2, <2>5, <4>1
        <5>2. CASE j = 1
          BY <4>1, <5>1, <5>2
        <5>3. CASE j # 1
          <6>1. j - 1 \in 1..m - 1 /\ at[j] = f[j - 1] + 1 /\ j - 1 \in 1..(i - 1) - 1
            BY <2>4, <5>1, <5>3
          <6>2. f[j - 1] < f[i - 1]
            BY <2>1, <4>1, <6>1
          <6> QED BY <2>5, <4>1, <6>1, <6>2
        <5> QED BY <5>2, <5>3
      <4> QED BY <4>1, <4>2, <4>3, <4>4
    <3> QED BY <3>1, <3>2
  <2> HIDE DEF at
  <2>8. Len(a) \in 1..Len(b) /\ a[Len(a)] = b[Len(b)]
    BY <2>2, <2>3
  <2>9. Len(a) - 1 = m /\ Len(b) - 1 = n
    BY <2>2, <2>3
  <2> QED BY <2>6, <2>7, <2>8, <2>9 DEF LeavesOut, a, b
<1> QED BY <1>1, <1>2

-------------------------------------------------------------------------------
(* The contents under way as a line: the one that a worker holds in front  *)
(* of those that the cache has and will have.                              *)

\* The contents H in the hands of workers, at most one, come before those of the
\* cache c.
Line(H, c) ==
    IF \A o \in H : o = Head(c) THEN c ELSE <<CHOOSE o \in H : TRUE>> \o c

Single(H) == \A o, p \in H : o = p

\* Two sequences with the same elements are the same.
LEMMA SameSequence ==
    ASSUME NEW S, NEW s \in Seq(S), NEW t \in Seq(S), Len(s) = Len(t),
           \A i \in 1..Len(s) : s[i] = t[i]
    PROVE  s = t
OBVIOUS

\* What is left of a sequence without its head.
LEMMA TailElements ==
    ASSUME NEW S, NEW s \in Seq(S), s # <<>>
    PROVE  /\ Tail(s) \in Seq(S)
           /\ Len(s) \in Nat \ {0}
           /\ Len(Tail(s)) = Len(s) - 1
           /\ \A i \in 1..Len(s) - 1 : Tail(s)[i] = s[i + 1]
           /\ Head(s) = s[1] /\ Head(s) \in S
OBVIOUS

\* A sequence is its head in front of its tail.
LEMMA HeadInFront ==
    ASSUME NEW S, NEW s \in Seq(S), s # <<>>
    PROVE  Head(s) \in S /\ Tail(s) \in Seq(S) /\ s = <<Head(s)>> \o Tail(s)
<1>1. /\ Tail(s) \in Seq(S)
      /\ Len(s) \in Nat \ {0}
      /\ Len(Tail(s)) = Len(s) - 1
      /\ \A i \in 1..Len(s) - 1 : Tail(s)[i] = s[i + 1]
      /\ Head(s) = s[1]
  BY TailElements
<1>2. Head(s) \in S
  BY TailElements
<1> DEFINE r == <<Head(s)>> \o Tail(s)
<1>3. /\ r \in Seq(S)
      /\ Len(r) = Len(Tail(s)) + 1
      /\ r[1] = Head(s)
      /\ \A i \in 1..Len(Tail(s)) : r[i + 1] = Tail(s)[i]
  BY <1>1, <1>2, ConsElements
<1> HIDE DEF r
<1>4. ASSUME NEW i \in 1..Len(s) PROVE r[i] = s[i]
  <2>1. CASE i = 1
    BY <1>1, <1>3, <2>1
  <2>2. CASE i # 1
    <3>1. i - 1 \in 1..Len(s) - 1 /\ (i - 1) + 1 = i
      BY <1>1, <2>2
    <3> QED BY <1>1, <1>3, <3>1
  <2> QED BY <2>1, <2>2
<1>5. r = s
  BY <1>1, <1>3, <1>4, SameSequence
<1> QED BY <1>1, <1>2, <1>5 DEF r

\* It does not matter which end of a sequence is extended first.
LEMMA ConsAppend ==
    ASSUME NEW S, NEW o \in S, NEW c \in Seq(S), NEW u \in S
    PROVE  <<o>> \o Append(c, u) = Append(<<o>> \o c, u)
<1> DEFINE a == Append(c, u)
           p == <<o>> \o c
           q == <<o>> \o a
           r == Append(p, u)
<1>1. /\ a \in Seq(S) /\ Len(c) \in Nat /\ Len(a) = Len(c) + 1
      /\ \A i \in 1..Len(c) : a[i] = c[i]
      /\ a[Len(c) + 1] = u
  BY AppendElements
<1>2. /\ p \in Seq(S) /\ Len(p) = Len(c) + 1 /\ p[1] = o
      /\ \A i \in 1..Len(c) : p[i + 1] = c[i]
  BY ConsElements
<1> HIDE DEF a, p
<1>3. /\ q \in Seq(S) /\ Len(q) = Len(a) + 1 /\ q[1] = o
      /\ \A i \in 1..Len(a) : q[i + 1] = a[i]
  BY <1>1, ConsElements
<1>4. /\ r \in Seq(S) /\ Len(r) = Len(p) + 1
      /\ \A i \in 1..Len(p) : r[i] = p[i]
      /\ r[Len(p) + 1] = u
  BY <1>2, AppendElements
<1> HIDE DEF q, r
<1>5. ASSUME NEW i \in 1..Len(q) PROVE q[i] = r[i]
  <2>1. CASE i = 1
    BY <1>1, <1>2, <1>3, <1>4, <2>1
  <2>2. CASE i = Len(c) + 2
    <3>1. i - 1 = Len(c) + 1 /\ i - 1 \in 1..Len(a) /\ i = (i - 1) + 1 /\ i = Len(p) + 1
      BY <1>1, <1>2, <2>2
    <3> QED BY <1>1, <1>3, <1>4, <3>1
  <2>3. CASE i # 1 /\ i # Len(c) + 2
    <3>1. /\ i - 1 \in 1..Len(c) /\ i - 1 \in 1..Len(a) /\ i = (i - 1) + 1
          /\ i \in 1..Len(p)
      BY <1>1, <1>2, <1>3, <2>3
    <3>2. q[i] = a[i - 1] /\ r[i] = p[i] /\ p[i] = c[i - 1] /\ a[i - 1] = c[i - 1]
      BY <1>1, <1>2, <1>3, <1>4, <3>1
    <3> QED BY <3>2
  <2> QED BY <2>1, <2>2, <2>3
<1>6. q = r
  BY <1>1, <1>2, <1>3, <1>4, <1>5, SameSequence
<1> QED BY <1>6 DEF a, p, q, r

\* A line is the cache's contents, or what a worker holds in front of them.
LEMMA LineForms ==
    ASSUME NEW S, NEW H \in SUBSET S, Single(H), NEW c \in Seq(S), c # <<>>
    PROVE  /\ Head(c) \in S
           /\ Line(H, c) \in Seq(S) /\ Line(H, c) # <<>>
           /\ H = {} => Line(H, c) = c
           /\ \A o \in H : /\ o = Head(c) => Line(H, c) = c
                           /\ o # Head(c) => Line(H, c) = <<o>> \o c
                           /\ Head(Line(H, c)) = o
<1>1. Head(c) \in S
  BY HeadInFront
<1>2. CASE H = {}
  BY <1>1, <1>2 DEF Line
<1>3. CASE H # {}
  <2>1. PICK o \in H : TRUE
    BY <1>3
  <2>2. H = {o} /\ o \in S
    BY <2>1 DEF Single
  <2>3. (CHOOSE x \in H : TRUE) = o
    BY <2>2
  <2>4. CASE o = Head(c)
    BY <1>1, <2>2, <2>4 DEF Line
  <2>5. CASE o # Head(c)
    <3>1. Line(H, c) = <<o>> \o c
      BY <2>2, <2>3, <2>5 DEF Line
    <3> DEFINE r == <<o>> \o c
    <3>2. r \in Seq(S) /\ Len(r) = Len(c) + 1 /\ Len(c) \in Nat /\ r[1] = o
      BY <2>2, ConsElements
    <3> HIDE DEF r
    <3>3. r # <<>> /\ Head(r) = o
      BY <3>2
    <3> QED BY <1>1, <2>2, <2>5, <3>1, <3>2, <3>3 DEF r
  <2> QED BY <2>4, <2>5
<1> QED BY <1>2, <1>3

\* A change of the source comes last.
LEMMA LineAppend ==
    ASSUME NEW S, NEW H \in SUBSET S, Single(H), NEW c \in Seq(S), c # <<>>,
           NEW u \in S
    PROVE  Line(H, Append(c, u)) = Append(Line(H, c), u)
<1> DEFINE a == Append(c, u)
<1>1. /\ a \in Seq(S) /\ Len(c) \in Nat /\ Len(c) # 0 /\ Len(a) = Len(c) + 1
      /\ \A i \in 1..Len(c) : a[i] = c[i]
      /\ a[Len(c) + 1] = u
  BY AppendElements
<1> HIDE DEF a
<1>2. a # <<>> /\ Head(a) = Head(c)
  <2>1. Head(a) = a[1] /\ Head(c) = c[1]
    BY <1>1
  <2> QED BY <1>1, <2>1
<1>3. CASE \A o \in H : o = Head(c)
  BY <1>2, <1>3 DEF Line, a
<1>4. CASE ~\A o \in H : o = Head(c)
  <2>1. PICK o \in H : o # Head(c)
    BY <1>4
  <2>2. Line(H, c) = <<o>> \o c /\ Line(H, a) = <<o>> \o a /\ o \in S
    BY <1>1, <1>2, <2>1, LineForms
  <2>3. <<o>> \o a = Append(<<o>> \o c, u)
    BY <2>2, ConsAppend DEF a
  <2> QED BY <2>2, <2>3 DEF a
<1> QED BY <1>3, <1>4

\* Giving away what a worker holds leaves the cache's contents.
LEMMA LineGiven ==
    ASSUME NEW S, NEW H \in SUBSET S, Single(H), NEW c \in Seq(S), c # <<>>
    PROVE  LeavesOut(c, Line(H, c))
<1>1. CASE \A o \in H : o = Head(c)
  BY <1>1, LeavesOutNothing DEF Line
<1>2. CASE ~\A o \in H : o = Head(c)
  <2>1. PICK o \in H : o # Head(c)
    BY <1>2
  <2>2. Line(H, c) = <<o>> \o c /\ o \in S
    BY <2>1, LineForms
  <2> QED BY <2>2, LeavesOutFirst
<1> QED BY <1>1, <1>2

\* A line shortens with the contents of the cache.
LEMMA LineShortens ==
    ASSUME NEW S, NEW H \in SUBSET S, Single(H),
           NEW c \in Seq(S), c # <<>>, NEW b \in Seq(S), b # <<>>,
           LeavesOut(b, c),
           \/ Head(b) = Head(c)
           \/ b = Tail(c)
    PROVE  LeavesOut(Line(H, b), Line(H, c))
<1>1. /\ Line(H, c) \in Seq(S) /\ Line(H, b) \in Seq(S)
      /\ LeavesOut(c, Line(H, c))
  BY LineForms, LineGiven
<1>2. CASE \A o \in H : o = Head(b)
  <2>1. Line(H, b) = b
    BY <1>2 DEF Line
  <2> QED BY <1>1, <2>1, LeavesOutTransitive
<1>3. CASE ~\A o \in H : o = Head(b)
  <2>1. PICK o \in H : o # Head(b)
    BY <1>3
  <2>2. Line(H, b) = <<o>> \o b /\ o \in S
    BY <2>1, LineForms
  <2>3. CASE o # Head(c)
    <3>1. Line(H, c) = <<o>> \o c
      BY <2>1, <2>3, LineForms
    <3> QED BY <2>2, <3>1, LeavesOutBehind
  <2>4. CASE o = Head(c)
    <3>1. b = Tail(c) /\ Line(H, c) = c
      BY <2>1, <2>4, LineForms
    <3>2. c = <<o>> \o b
      BY <2>4, <3>1, HeadInFront
    <3> QED BY <2>2, <3>1, <3>2, LeavesOutNothing
  <2> QED BY <2>3, <2>4
<1> QED BY <1>2, <1>3

\* The numbers that f gives to the elements of a sequence.
Mapped(f, s) == [i \in 1..Len(s) |-> f[s[i]]]

\* A mapped sequence is as long, and its head is the number of the head.
LEMMA MappedElements ==
    ASSUME NEW S, NEW f \in [S -> Nat], NEW s \in Seq(S)
    PROVE  /\ Mapped(f, s) \in Seq(Nat)
           /\ Len(Mapped(f, s)) = Len(s)
           /\ \A i \in 1..Len(s) : Mapped(f, s)[i] = f[s[i]]
           /\ s # <<>> => Mapped(f, s) # <<>> /\ Head(Mapped(f, s)) = f[Head(s)]
<1> DEFINE m == Mapped(f, s)
<1>1. Len(s) \in Nat /\ \A i \in 1..Len(s) : s[i] \in S
  OBVIOUS
<1>2. m \in [1..Len(s) -> Nat] /\ \A i \in 1..Len(s) : m[i] = f[s[i]]
  BY <1>1 DEF Mapped
<1> HIDE DEF m
<1>3. m \in Seq(Nat) /\ Len(m) = Len(s)
  BY <1>1, <1>2
<1>4. ASSUME s # <<>> PROVE m # <<>> /\ Head(m) = f[Head(s)]
  <2>1. Len(s) \in Nat \ {0} /\ Head(s) = s[1]
    BY <1>4, TailElements
  <2>2. m # <<>>
    BY <1>3, <2>1
  <2>3. Head(m) = m[1]
    BY <1>3, <2>2, TailElements
  <2> QED BY <1>2, <2>1, <2>2, <2>3
<1> QED BY <1>2, <1>3, <1>4 DEF m

\* What is put at the end of a sequence is mapped with it.
LEMMA MappedAppend ==
    ASSUME NEW S, NEW f \in [S -> Nat], NEW s \in Seq(S), NEW u \in S
    PROVE  Mapped(f, Append(s, u)) = Append(Mapped(f, s), f[u])
<1> DEFINE a == Append(s, u)
           m == Mapped(f, s)
           p == Mapped(f, a)
           q == Append(m, f[u])
<1>1. /\ a \in Seq(S) /\ Len(s) \in Nat /\ Len(a) = Len(s) + 1
      /\ \A i \in 1..Len(s) : a[i] = s[i]
      /\ a[Len(s) + 1] = u
  BY AppendElements
<1>2. m \in Seq(Nat) /\ Len(m) = Len(s) /\ \A i \in 1..Len(s) : m[i] = f[s[i]]
  BY MappedElements
<1> HIDE DEF a, m
<1>3. p \in Seq(Nat) /\ Len(p) = Len(a) /\ \A i \in 1..Len(a) : p[i] = f[a[i]]
  BY <1>1, MappedElements
<1>4. /\ q \in Seq(Nat) /\ Len(q) = Len(m) + 1
      /\ \A i \in 1..Len(m) : q[i] = m[i]
      /\ q[Len(m) + 1] = f[u]
  BY <1>2, AppendElements
<1> HIDE DEF p, q
<1>5. ASSUME NEW i \in 1..Len(p) PROVE p[i] = q[i]
  <2>1. i \in 1..Len(s) \/ i = Len(s) + 1
    BY <1>1, <1>3
  <2> QED BY <1>1, <1>2, <1>3, <1>4, <2>1
<1>6. p = q
  BY <1>1, <1>2, <1>3, <1>4, <1>5, SameSequence
<1> QED BY <1>6 DEF a, m, p, q

\* Elements are left out of a mapped sequence where they are left out.
LEMMA MappedLeavesOut ==
    ASSUME NEW S, NEW f \in [S -> Nat], NEW s \in Seq(S), NEW t \in Seq(S),
           LeavesOut(t, s)
    PROVE  LeavesOut(Mapped(f, t), Mapped(f, s))
<1>1. CASE t = s
  BY <1>1, LeavesOutNothing
<1>2. CASE t # s
  <2> DEFINE a == Mapped(f, t)
             b == Mapped(f, s)
  <2>1. PICK at \in [1..Len(t) - 1 -> 1..Len(s) - 1] :
           \A i \in 1..Len(t) - 1 : t[i] = s[at[i]] /\ \A j \in 1..i - 1 : at[j] < at[i]
    BY <1>2 DEF LeavesOut
  <2>2. /\ Len(t) \in 1..Len(s) /\ t[Len(t)] = s[Len(s)]
        /\ Len(t) \in Nat /\ Len(s) \in Nat
    BY <1>2 DEF LeavesOut
  <2>3. /\ Len(a) = Len(t) /\ \A i \in 1..Len(t) : a[i] = f[t[i]]
        /\ Len(b) = Len(s) /\ \A i \in 1..Len(s) : b[i] = f[s[i]]
    <3>1. ASSUME NEW x \in Seq(S)
          PROVE  Len(Mapped(f, x)) = Len(x) /\ \A i \in 1..Len(x) : Mapped(f, x)[i] = f[x[i]]
      BY MappedElements
    <3>2. Len(a) = Len(t) /\ \A i \in 1..Len(t) : a[i] = f[t[i]]
      BY <3>1
    <3>3. Len(b) = Len(s) /\ \A i \in 1..Len(s) : b[i] = f[s[i]]
      BY <3>1
    <3> QED BY <3>2, <3>3
  <2> HIDE DEF a, b
  <2>4. Len(a) \in 1..Len(b) /\ a[Len(a)] = b[Len(b)]
    <3>1. Len(t) \in 1..Len(t) /\ Len(s) \in 1..Len(s)
      BY <2>2
    <3> QED BY <2>2, <2>3, <3>1
  <2>5. ASSUME NEW i \in 1..Len(t) - 1 PROVE i \in 1..Len(t) /\ at[i] \in 1..Len(s)
    <3> DEFINE m == Len(t)
               n == Len(s)
               x == at[i]
    <3>1. m \in Nat /\ n \in Nat /\ i \in 1..m - 1 /\ x \in 1..n - 1
      BY <2>2
    <3> HIDE DEF m, n, x
    <3>2. i \in 1..m /\ x \in 1..n
      BY <3>1
    <3> QED BY <3>2 DEF m, n, x
  <2>6. at \in [1..Len(a) - 1 -> 1..Len(b) - 1]
    BY <2>3
  <2>7. \A i \in 1..Len(a) - 1 : a[i] = b[at[i]] /\ \A j \in 1..i - 1 : at[j] < at[i]
    BY <2>1, <2>3, <2>5
  <2> QED BY <2>4, <2>6, <2>7 DEF LeavesOut, a, b
<1> QED BY <1>1, <1>2
================================================================================
