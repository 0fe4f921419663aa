-------------------------- MODULE AgentTurnProofs --------------------------
(***************************************************************************)
(* What one turn of the agent keeps whatever the conversation is, however  *)
(* large the bounds of the recoveries are and whatever the model answers.  *)
(***************************************************************************)
EXTENDS AgentTurn, SequenceTheorems, FiniteSetTheorems, WellFoundedInduction, TLAPS

-----------------------------------------------------------------------------
(* Numbers *)

LEMMA Least ==
  ASSUME NEW T \in SUBSET Nat, T # {} PROVE \E x \in T : \A y \in T : x <= y
<1>1. PICK x \in T : \A y \in T : ~ (<<y, x>> \in OpToRel(<, Nat))
  BY NatLessThanWellFounded, WFMin
<1>2. \A y \in T : ~ (y < x)
  BY <1>1 DEF OpToRel
<1> QED
  BY <1>2

\* What holds of every number up to n, when the first one that it does not hold of
\* cannot be: T is the numbers that it holds of.
LEMMA Upto ==
  ASSUME NEW n \in Nat, NEW T,
         \A k \in 1 .. n : (\A i \in 1 .. k - 1 : i \in T) => k \in T
  PROVE  \A k \in 1 .. n : k \in T
<1> SUFFICES ASSUME NEW k \in 1 .. n, k \notin T PROVE FALSE
  OBVIOUS
<1> DEFINE Bad == {i \in 1 .. n : i \notin T}
<1>1. Bad \in SUBSET Nat /\ Bad # {}
  OBVIOUS
<1>2. PICK x \in Bad : \A y \in Bad : x <= y
  BY <1>1, Least
<1>3. \A i \in 1 .. x - 1 : i \in T
  BY <1>2
<1> QED
  BY <1>2, <1>3

\* The latest of some numbers up to n.
LEMMA Latest ==
  ASSUME NEW n \in Nat, NEW T \in SUBSET (0 .. n), T # {}
  PROVE  \E x \in T : \A y \in T : y <= x
<1> DEFINE D == {n - x : x \in T}
<1>1. D \in SUBSET Nat /\ D # {}
  <2>1. \A x \in T : n - x \in Nat
    OBVIOUS
  <2> QED
    BY <2>1
<1>2. PICK d \in D : \A e \in D : d <= e
  BY <1>1, Least
<1>3. PICK x \in T : d = n - x
  BY <1>2
<1>4. ASSUME NEW y \in T PROVE y <= x
  <2>1. n - y \in D
    OBVIOUS
  <2>2. d <= n - y
    BY <1>2, <2>1
  <2> QED
    BY <1>3, <2>2
<1> QED
  BY <1>4

-----------------------------------------------------------------------------
(* FlattenSeq *)

\* The concatenations of the first parts of a list of lists.
Chain(f, s) ==
    f = [i \in 1 .. Len(s) |-> IF i = 1 THEN s[i] ELSE f[i - 1] \o s[i]]

LEMMA ChainExists ==
  ASSUME NEW S, NEW s \in Seq(Seq(S)), s # <<>> PROVE \E f : Chain(f, s)
<1> DEFINE n == Len(s)
           C(m) == \E f : f = [i \in 1 .. m |-> IF i = 1 THEN s[i] ELSE f[i - 1] \o s[i]]
           T == {m \in Nat : C(m)}
<1>1. n \in Nat /\ n > 0
  OBVIOUS
<1>2. C(1)
  <2> DEFINE g == [i \in 1 .. 1 |-> s[i]]
  <2>1. g = [i \in 1 .. 1 |-> IF i = 1 THEN s[i] ELSE g[i - 1] \o s[i]]
    OBVIOUS
  <2> QED
    BY <2>1
<1>3. ASSUME NEW k \in Nat, k > 1, C(k - 1) PROVE C(k)
  <2>1. PICK f : f = [i \in 1 .. k - 1 |-> IF i = 1 THEN s[i] ELSE f[i - 1] \o s[i]]
    BY <1>3
  <2> DEFINE g == [i \in 1 .. k |-> IF i = k THEN f[k - 1] \o s[k] ELSE f[i]]
  <2>2. \A i \in 1 .. k - 1 : g[i] = f[i]
    BY <1>3
  <2>3. \A i \in 1 .. k - 1 : f[i] = IF i = 1 THEN s[i] ELSE f[i - 1] \o s[i]
    BY <2>1
  <2>4. ASSUME NEW i \in 1 .. k PROVE g[i] = IF i = 1 THEN s[i] ELSE g[i - 1] \o s[i]
    <3>1. CASE i = k
      <4>1. i - 1 \in 1 .. k - 1 /\ i # 1
        BY <1>3, <3>1
      <4>2. g[i - 1] = f[i - 1]
        BY <4>1, <2>2
      <4> QED
        BY <3>1, <4>1, <4>2
    <3>2. CASE i # k
      <4>1. i \in 1 .. k - 1 /\ (i # 1 => i - 1 \in 1 .. k - 1)
        BY <1>3, <3>2
      <4> HIDE DEF g
      <4> QED
        BY <4>1, <2>2, <2>3
    <3> QED
      BY <3>1, <3>2
  <2>5. g = [i \in 1 .. k |-> IF i = 1 THEN s[i] ELSE g[i - 1] \o s[i]]
    <3>1. g = [i \in 1 .. k |-> g[i]]
      OBVIOUS
    <3> HIDE DEF g
    <3> QED
      BY <2>4, <3>1, Zenon
  <2> HIDE DEF g
  <2> QED
    BY <2>5
<1> HIDE DEF C
<1>4. ASSUME NEW k \in 1 .. n, \A i \in 1 .. k - 1 : i \in T PROVE k \in T
  <2>1. CASE k = 1
    BY <1>2, <2>1
  <2>2. CASE k > 1
    BY <1>3, <1>4, <2>2
  <2> QED
    BY <2>1, <2>2
<1>5. n \in T
  <2>1. \A k \in 1 .. n : (\A i \in 1 .. k - 1 : i \in T) => k \in T
    BY <1>4
  <2> HIDE DEF T, n
  <2>2. \A k \in 1 .. n : k \in T
    BY <1>1, <2>1, Upto
  <2> QED
    BY <1>1, <2>2
<1> QED
  BY <1>5 DEF Chain, C

LEMMA Flattened ==
  ASSUME NEW S, NEW s \in Seq(Seq(S)), s # <<>>
  PROVE  \E f : Chain(f, s) /\ FlattenSeq(s) = f[Len(s)]
<1> DEFINE f == CHOOSE g : g = [i \in 1 .. Len(s) |-> IF i = 1 THEN s[i] ELSE g[i - 1] \o s[i]]
<1>1. Chain(f, s)
  BY ChainExists, Zenon DEF Chain
<1>2. FlattenSeq(s) = f[Len(s)]
  BY DEF FlattenSeq
<1> QED
  BY <1>1, <1>2

\* Where the parts of a list of lists lie in their concatenation: the i-th one
\* comes after the first at[i] elements.
Layout(out, s, at) ==
    /\ \A i \in 1 .. Len(s) + 1 : at[i] \in Nat
    /\ at[1] = 0 /\ at[Len(s) + 1] = Len(out)
    /\ \A i \in 1 .. Len(s) : /\ at[i + 1] = at[i] + Len(s[i])
                              /\ at[i] + Len(s[i]) <= Len(out)
                              /\ \A k \in 1 .. Len(s[i]) : out[at[i] + k] = s[i][k]
    /\ \A p \in 1 .. Len(out) : \E i \in 1 .. Len(s) : \E k \in 1 .. Len(s[i]) : p = at[i] + k

LEMMA FlattenLayout ==
  ASSUME NEW S, NEW s \in Seq(Seq(S))
  PROVE  FlattenSeq(s) \in Seq(S) /\ \E at : Layout(FlattenSeq(s), s, at)
<1>1. CASE s = <<>>
  <2> DEFINE at == [i \in 1 .. 1 |-> 0]
  <2>1. FlattenSeq(s) = <<>> /\ Len(s) = 0
    BY <1>1 DEF FlattenSeq
  <2>2. Layout(<<>>, s, at)
    BY <2>1 DEF Layout
  <2> QED
    BY <2>1, <2>2
<1>2. CASE s # <<>>
  <2> DEFINE n == Len(s)
  <2>1. n \in Nat /\ n > 0 /\ \A i \in 1 .. n : s[i] \in Seq(S) /\ Len(s[i]) \in Nat
    BY <1>2
  <2>2. PICK f : Chain(f, s) /\ FlattenSeq(s) = f[n]
    BY <1>2, Flattened
  <2> DEFINE at == [i \in 1 .. n + 1 |-> IF i = 1 THEN 0 ELSE Len(f[i - 1])]
             Q(i) == /\ f[i] \in Seq(S) /\ at[i] \in Nat /\ Len(f[i]) = at[i] + Len(s[i])
                     /\ \A j \in 1 .. i : /\ at[j] \in Nat /\ at[j] + Len(s[j]) <= Len(f[i])
                                          /\ \A k \in 1 .. Len(s[j]) : f[i][at[j] + k] = s[j][k]
                     /\ \A p \in 1 .. Len(f[i]) :
                          \E j \in 1 .. i : \E k \in 1 .. Len(s[j]) : p = at[j] + k
             T == {i \in 1 .. n : Q(i)}
  <2>3. /\ f[1] = s[1] /\ at[1] = 0
        /\ \A i \in 2 .. n : f[i] = f[i - 1] \o s[i]
        /\ \A i \in 1 .. n : at[i + 1] = Len(f[i])
    <3>1. \A i \in 1 .. n : f[i] = IF i = 1 THEN s[i] ELSE f[i - 1] \o s[i]
      BY <2>1, <2>2 DEF Chain
    <3>2. \A i \in 1 .. n : (i + 1) - 1 = i /\ i + 1 # 1 /\ i + 1 \in 1 .. n + 1
      BY <2>1
    <3>3. 1 \in 1 .. n /\ 1 \in 1 .. n + 1 /\ \A i \in 2 .. n : i \in 1 .. n /\ i # 1
      BY <2>1
    <3> HIDE DEF n
    <3> QED
      BY <3>1, <3>2, <3>3
  <2> HIDE DEF at
  <2>4. Q(1)
    BY <2>1, <2>3
  <2>5. ASSUME NEW i \in 2 .. n, Q(i - 1) PROVE Q(i)
    <3> DEFINE g == f[i - 1]
               h == s[i]
    <3>1. /\ i - 1 \in 1 .. n /\ i \in 1 .. n /\ (i - 1) + 1 = i
      BY <2>1
    <3>2. g \in Seq(S) /\ h \in Seq(S) /\ f[i] = g \o h /\ at[i] = Len(g)
      BY <2>1, <2>3, <2>5, <3>1
    <3> HIDE DEF g, h
    <3>3. /\ f[i] \in Seq(S) /\ Len(f[i]) = Len(g) + Len(h) /\ Len(g) \in Nat /\ Len(h) \in Nat
          /\ \A p \in 1 .. Len(g) + Len(h) : f[i][p] = IF p <= Len(g) THEN g[p] ELSE h[p - Len(g)]
      BY <3>2, ConcatProperties
    <3>4. ASSUME NEW j \in 1 .. i
          PROVE  /\ at[j] \in Nat /\ at[j] + Len(s[j]) <= Len(f[i])
                 /\ \A k \in 1 .. Len(s[j]) : f[i][at[j] + k] = s[j][k]
      <4>1. CASE j = i
        <5>1. \A k \in 1 .. Len(h) : f[i][Len(g) + k] = h[k]
          <6> TAKE k \in 1 .. Len(h)
          <6>1. Len(g) + k \in 1 .. Len(g) + Len(h) /\ ~(Len(g) + k <= Len(g))
                /\ (Len(g) + k) - Len(g) = k
            BY <3>3
          <6> QED
            BY <3>3, <6>1
        <5>2. s[j] = h /\ at[j] = Len(g)
          BY <3>2, <4>1 DEF h
        <5> QED
          BY <3>3, <5>1, <5>2
      <4>2. CASE j \in 1 .. i - 1
        <5>1. /\ at[j] \in Nat /\ at[j] + Len(s[j]) <= Len(g)
              /\ \A k \in 1 .. Len(s[j]) : g[at[j] + k] = s[j][k]
          BY <2>5, <4>2 DEF g
        <5>2. Len(s[j]) \in Nat
          BY <2>1, <4>2
        <5>3. ASSUME NEW k \in 1 .. Len(s[j]) PROVE f[i][at[j] + k] = s[j][k]
          <6>1. at[j] + k \in 1 .. Len(g) + Len(h) /\ at[j] + k <= Len(g)
            <7>1. Len(g) \in Nat /\ Len(h) \in Nat /\ at[j] \in Nat
                  /\ at[j] + Len(s[j]) <= Len(g)
              BY <3>3, <5>1
            <7> HIDE DEF n
            <7> QED
              BY <7>1, <5>2
          <6> QED
            BY <3>3, <5>1, <6>1
        <5> QED
          BY <3>3, <5>1, <5>2, <5>3
      <4> QED
        BY <4>1, <4>2
    <3>5. ASSUME NEW p \in 1 .. Len(f[i])
          PROVE  \E j \in 1 .. i : \E k \in 1 .. Len(s[j]) : p = at[j] + k
      <4>1. CASE p <= Len(g)
        <5>1. p \in 1 .. Len(g)
          BY <3>3, <4>1
        <5>2. \E j \in 1 .. i - 1 : \E k \in 1 .. Len(s[j]) : p = at[j] + k
          BY <2>5, <5>1 DEF g
        <5>3. \A j \in 1 .. i - 1 : j \in 1 .. i
          BY <2>1
        <5> QED
          BY <5>2, <5>3
      <4>2. CASE p > Len(g)
        <5>1. p - Len(g) \in 1 .. Len(h) /\ p = at[i] + (p - Len(g))
          BY <3>2, <3>3, <4>2
        <5>2. i \in 1 .. i
          BY <2>1
        <5> QED
          BY <5>1, <5>2 DEF h
      <4>3. p \in Nat /\ Len(g) \in Nat
        BY <3>3
      <4> QED
        BY <4>1, <4>2, <4>3
    <3> QED
      BY <3>2, <3>3, <3>4, <3>5 DEF h
  <2>6. ASSUME NEW i \in 1 .. n, \A j \in 1 .. i - 1 : j \in T PROVE i \in T
    <3> HIDE DEF Q
    <3>1. CASE i = 1
      BY <2>4, <3>1
    <3>2. CASE i \in 2 .. n
      BY <2>5, <2>6, <3>2
    <3> QED
      BY <3>1, <3>2
  <2>7. n \in T
    <3>1. \A k \in 1 .. n : (\A j \in 1 .. k - 1 : j \in T) => k \in T
      BY <2>6
    <3> HIDE DEF T, n
    <3>2. \A k \in 1 .. n : k \in T
      BY <2>1, <3>1, Upto
    <3> QED
      BY <2>1, <3>2
  <2>8. Q(n) /\ \A i \in 1 .. n : Q(i)
    <3>1. \A k \in 1 .. n : (\A j \in 1 .. k - 1 : j \in T) => k \in T
      BY <2>6
    <3>2. \A k \in 1 .. n : k \in T
      <4> HIDE DEF T, n
      <4> QED
        BY <2>1, <3>1, Upto
    <3> HIDE DEF Q
    <3> QED
      BY <2>1, <3>2
  <2>9. \A i \in 1 .. n : at[i + 1] = at[i] + Len(s[i])
    BY <2>3, <2>8
  <2>10. Layout(f[n], s, at)
    <3>1. ASSUME NEW i \in 1 .. n + 1 PROVE at[i] \in Nat
      <4>1. CASE i = 1
        BY <2>3, <4>1
      <4>2. CASE i # 1
        <5>1. i - 1 \in 1 .. n /\ (i - 1) + 1 = i
          BY <2>1, <4>2
        <5>2. at[(i - 1) + 1] = Len(f[i - 1])
          BY <2>3, <5>1
        <5>3. f[i - 1] \in Seq(S)
          BY <2>8, <5>1
        <5> HIDE DEF n
        <5> QED
          BY <5>1, <5>2, <5>3
      <4> QED
        BY <4>1, <4>2
    <3>2. at[n + 1] = Len(f[n])
      BY <2>1, <2>3
    <3> QED
      BY <2>3, <2>8, <2>9, <3>1, <3>2 DEF Layout
  <2> QED
    BY <2>2, <2>8, <2>10
<1> QED
  BY <1>1, <1>2

-----------------------------------------------------------------------------
(* Bundles *)

LEMMA MessageTypes ==
  /\ Plain \in Messages /\ InternalUser \in Messages /\ InternalAssistant \in Messages
  /\ [InternalAssistant EXCEPT !.ckpt = TRUE] \in Messages
  /\ \A c \in Nat : ToolResult(c) \in Messages /\ UserPrompt(c) \in Messages
  /\ \A text \in BOOLEAN, calls \in Seq(Nat) : Assistant(text, calls) \in Messages
  /\ \A covered \in SUBSET Nat : Compaction(covered) \in Messages
  /\ \A m \in Messages : [m EXCEPT !.calls = <<>>] \in Messages
<1>1. <<>> \in Seq(Nat) /\ {} \in SUBSET Nat /\ 0 \in Nat
  OBVIOUS
<1>2. Plain \in Messages
  BY <1>1 DEF Plain, Messages
<1>3. InternalUser \in Messages /\ InternalAssistant \in Messages
  BY <1>2 DEF InternalUser, InternalAssistant, Messages
<1>4. [InternalAssistant EXCEPT !.ckpt = TRUE] \in Messages
  BY <1>3 DEF Messages
<1>5. \A c \in Nat : ToolResult(c) \in Messages /\ UserPrompt(c) \in Messages
  BY <1>2 DEF ToolResult, UserPrompt, Messages
<1>6. \A text \in BOOLEAN, calls \in Seq(Nat) : Assistant(text, calls) \in Messages
  <2> TAKE text \in BOOLEAN, calls \in Seq(Nat)
  <2>1. (calls # <<>>) \in BOOLEAN
    OBVIOUS
  <2> QED
    BY <1>2, <2>1 DEF Assistant, Messages
<1>7. \A covered \in SUBSET Nat : Compaction(covered) \in Messages
  BY <1>2 DEF Compaction, Messages
<1>8. \A m \in Messages : [m EXCEPT !.calls = <<>>] \in Messages
  BY <1>1 DEF Messages
<1> QED
  BY <1>2, <1>3, <1>4, <1>5, <1>6, <1>7, <1>8

LEMMA Roles ==
  /\ InternalUser.role = "user" /\ \A c : ToolResult(c).role = "tool" /\ ToolResult(c).ref = c
  /\ \A m \in Messages : [m EXCEPT !.calls = <<>>].role = m.role /\ [m EXCEPT !.calls = <<>>].calls = <<>>
BY DEF InternalUser, ToolResult, Plain, Messages

LEMMA ListFacts ==
  ASSUME NEW ms \in Seq(Messages)
  PROVE  /\ Len(ms) \in Nat /\ DOMAIN ms = 1 .. Len(ms)
         /\ \A i \in 1 .. Len(ms) : /\ ms[i] \in Messages /\ ms[i].calls \in Seq(Nat)
                                    /\ Len(ms[i].calls) \in Nat
                                    /\ DOMAIN ms[i].calls = 1 .. Len(ms[i].calls)
<1>1. Len(ms) \in Nat /\ DOMAIN ms = 1 .. Len(ms) /\ \A i \in 1 .. Len(ms) : ms[i] \in Messages
  OBVIOUS
<1>2. \A i \in 1 .. Len(ms) : ms[i].calls \in Seq(Nat)
  BY <1>1 DEF Messages
<1> QED
  BY <1>1, <1>2

\* As many tool messages follow as there are places up to the last of them.
LEMMA FollowingCounts ==
  ASSUME NEW ms \in Seq(Messages), NEW o \in 1 .. Len(ms), NEW n \in Nat
  PROVE  n <= Following(ms, o)
           <=> o + n <= Len(ms) /\ \A k \in 1 .. n : ms[o + k].role = "tool"
<1> DEFINE F == {j \in o + 1 .. Len(ms) : \A k \in o + 1 .. j : ms[k].role = "tool"}
<1>1. Len(ms) \in Nat /\ o \in Nat
  BY ListFacts
<1>2. IsFiniteSet(o + 1 .. Len(ms)) /\ F \in SUBSET (o + 1 .. Len(ms))
  <2>1. o + 1 \in Int /\ Len(ms) \in Int
    BY <1>1
  <2>2. IsFiniteSet(o + 1 .. Len(ms))
    BY <2>1, FS_Interval
  <2>3. F \in SUBSET (o + 1 .. Len(ms))
    OBVIOUS
  <2> QED
    BY <2>2, <2>3
<1>3. IsFiniteSet(F) /\ Cardinality(F) \in Nat
  BY <1>2, FS_Subset, FS_CardinalityType
<1>4. ASSUME o + n <= Len(ms), \A k \in 1 .. n : ms[o + k].role = "tool"
      PROVE  n <= Cardinality(F)
  <2>1. o + 1 .. o + n \in SUBSET F
    <3>1. ASSUME NEW k \in o + 1 .. o + n PROVE ms[k].role = "tool"
      <4>1. k - o \in 1 .. n /\ o + (k - o) = k
        BY <1>1
      <4> QED
        BY <1>4, <4>1
    <3>2. ASSUME NEW j \in o + 1 .. o + n PROVE j \in F
      <4>1. j \in o + 1 .. Len(ms) /\ \A k \in o + 1 .. j : k \in o + 1 .. o + n
        BY <1>1, <1>4
      <4> QED
        BY <3>1, <4>1
    <3> QED
      BY <3>2
  <2>2. Cardinality(o + 1 .. o + n) = n
    <3>1. Cardinality(o + 1 .. o + n) = IF o + 1 > o + n THEN 0 ELSE (o + n) - (o + 1) + 1
      BY <1>1, FS_Interval
    <3> QED
      BY <1>1, <3>1
  <2> HIDE DEF F
  <2>3. Cardinality(o + 1 .. o + n) <= Cardinality(F)
    BY <1>3, <2>1, FS_Subset
  <2> QED
    BY <2>2, <2>3
<1>5. ASSUME n <= Cardinality(F)
      PROVE  o + n <= Len(ms) /\ \A k \in 1 .. n : ms[o + k].role = "tool"
  <2>1. CASE n = 0
    BY <1>1, <2>1
  <2>2. CASE n > 0
    <3>1. \E j \in F : j >= o + n
      <4> SUFFICES ASSUME \A j \in F : j < o + n PROVE FALSE
        BY <1>1
      <4>1. F \in SUBSET (o + 1 .. o + n - 1)
        BY <1>1
      <4>2. /\ IsFiniteSet(o + 1 .. o + n - 1)
            /\ Cardinality(o + 1 .. o + n - 1)
                 = IF o + 1 > o + n - 1 THEN 0 ELSE (o + n - 1) - (o + 1) + 1
        <5>1. o + 1 \in Int /\ o + n - 1 \in Int
          BY <1>1
        <5> QED
          BY <5>1, FS_Interval
      <4>3. Cardinality(F) <= Cardinality(o + 1 .. o + n - 1)
        <5> HIDE DEF F
        <5> QED
          BY <4>1, <4>2, FS_Subset
      <4> HIDE DEF F
      <4> QED
        BY <1>1, <1>3, <1>5, <2>2, <4>2, <4>3
    <3>2. PICK j \in F : j >= o + n
      BY <3>1
    <3>3. \A k \in 1 .. n : o + k \in o + 1 .. j
      BY <1>1, <3>2
    <3> QED
      BY <1>1, <3>2, <3>3
  <2> QED
    BY <2>1, <2>2
<1> QED
  BY <1>4, <1>5 DEF Following

LEMMA BundleResults ==
  ASSUME NEW ms \in Seq(Messages), NEW o \in 1 .. Len(ms), ValidBundle(ms, o)
  PROVE  /\ HasCalls(ms[o]) /\ o + Len(ms[o].calls) <= Len(ms)
         /\ \A k \in 1 .. Len(ms[o].calls) : ms[o + k].role = "tool"
<1>1. HasCalls(ms[o]) /\ Len(ms[o].calls) <= Following(ms, o) /\ Len(ms[o].calls) \in Nat
  BY ListFacts DEF ValidBundle
<1> QED
  BY <1>1, FollowingCounts

\* The message before a run of tool messages is their owner.
LEMMA OwnerIs ==
  ASSUME NEW ms, NEW o \in Nat, NEW i \in Nat, 0 < o, o < i, ms[o].role # "tool",
         \A j \in o + 1 .. i - 1 : ms[j].role = "tool"
  PROVE  Owner(ms, i) = o
<1> DEFINE before == {j \in 1 .. i - 1 : ms[j].role # "tool"}
<1>1. o \in before /\ \A k \in before : k <= o
  OBVIOUS
<1>2. \A x \in before : (\A k \in before : k <= x) => x = o
  BY <1>1
<1> HIDE DEF before
<1>3. (CHOOSE j \in before : \A k \in before : k <= j) = o
  BY <1>1, <1>2
<1> QED
  BY <1>1, <1>3 DEF Owner, before

LEMMA OwnerPrecedes ==
  ASSUME NEW ms, NEW i \in Nat \ {0}, Owner(ms, i) # 0
  PROVE  /\ Owner(ms, i) \in 1 .. i - 1 /\ ms[Owner(ms, i)].role # "tool"
         /\ \A j \in Owner(ms, i) + 1 .. i - 1 : ms[j].role = "tool"
<1> DEFINE before == {j \in 1 .. i - 1 : ms[j].role # "tool"}
<1>1. before # {} /\ Owner(ms, i) = CHOOSE j \in before : \A k \in before : k <= j
  BY DEF Owner
<1>2. before \in SUBSET (0 .. i)
  OBVIOUS
<1>3. \E j \in before : \A k \in before : k <= j
  <2> HIDE DEF before
  <2> QED
    BY <1>1, <1>2, Latest
<1>4. Owner(ms, i) \in before /\ \A k \in before : k <= Owner(ms, i)
  <2> HIDE DEF before
  <2> QED
    BY <1>1, <1>3
<1> QED
  BY <1>4

\* The results of a bundle are in it, and nothing else is.
LEMMA BundleMembers ==
  ASSUME NEW ms \in Seq(Messages), NEW o \in 1 .. Len(ms), ValidBundle(ms, o),
         NEW k \in 1 .. Len(ms[o].calls)
  PROVE  o + k \in 1 .. Len(ms) /\ ms[o + k].role = "tool" /\ Owner(ms, o + k) = o
         /\ InBundle(ms, o + k)
<1>1. /\ HasCalls(ms[o]) /\ o + Len(ms[o].calls) <= Len(ms) /\ Len(ms[o].calls) \in Nat
      /\ \A l \in 1 .. Len(ms[o].calls) : ms[o + l].role = "tool"
  BY BundleResults, ListFacts
<1>2. o + k \in 1 .. Len(ms) /\ o \in Nat /\ o + k \in Nat /\ 0 < o /\ o < o + k /\ Len(ms) \in Nat
  BY <1>1, ListFacts
<1>3. ASSUME NEW j \in o + 1 .. (o + k) - 1 PROVE ms[j].role = "tool"
  <2> DEFINE c == Len(ms[o].calls)
  <2>1. c \in Nat /\ k \in 1 .. c /\ o \in Nat
    BY <1>1, <1>2
  <2> HIDE DEF c
  <2>2. j - o \in 1 .. c /\ o + (j - o) = j
    BY <2>1
  <2> QED
    BY <1>1, <2>2 DEF c
<1>4. Owner(ms, o + k) = o
  BY <1>1, <1>2, <1>3, OwnerIs DEF HasCalls
<1>5. (o + k) - o <= Len(ms[o].calls)
  BY <1>1, <1>2
<1> QED
  BY <1>1, <1>2, <1>4, <1>5 DEF InBundle

LEMMA MembersBundle ==
  ASSUME NEW ms \in Seq(Messages), NEW i \in 1 .. Len(ms), InBundle(ms, i)
  PROVE  \E o \in 1 .. i - 1 : /\ Owner(ms, i) = o /\ o \in 1 .. Len(ms) /\ ValidBundle(ms, o)
                               /\ i - o \in 1 .. Len(ms[o].calls)
<1>1. /\ Owner(ms, i) # 0 /\ i - Owner(ms, i) <= Len(ms[Owner(ms, i)].calls)
      /\ ValidBundle(ms, Owner(ms, i))
  BY DEF InBundle
<1>2. Owner(ms, i) \in 1 .. i - 1
  BY <1>1, OwnerPrecedes, ListFacts
<1>3. Owner(ms, i) \in 1 .. Len(ms) /\ Len(ms[Owner(ms, i)].calls) \in Nat
  BY <1>2, ListFacts
<1> QED
  BY <1>1, <1>2, <1>3

-----------------------------------------------------------------------------
(* The messages at some positions *)

\* Where the messages of ms at the positions in kept are in out: the i-th one comes
\* after at[i] others.
Places(out, ms, kept, at) ==
    /\ \A i \in 1 .. Len(ms) + 1 : at[i] \in Nat
    /\ at[1] = 0 /\ at[Len(ms) + 1] = Len(out)
    /\ \A i \in 1 .. Len(ms) : at[i + 1] = IF i \in kept THEN at[i] + 1 ELSE at[i]
    /\ \A i \in 1 .. Len(ms) :
          i \in kept => at[i] + 1 \in 1 .. Len(out) /\ out[at[i] + 1] = ms[i]
    /\ \A p \in 1 .. Len(out) : \E i \in 1 .. Len(ms) : i \in kept /\ p = at[i] + 1

LEMMA OnlyLayout ==
  ASSUME NEW ms \in Seq(Messages), NEW kept
  PROVE  Only(ms, kept) \in Seq(Messages) /\ \E at : Places(Only(ms, kept), ms, kept, at)
<1> DEFINE s == [i \in DOMAIN ms |-> IF i \in kept THEN <<ms[i]>> ELSE <<>>]
           out == Only(ms, kept)
<1>1. DOMAIN ms = 1 .. Len(ms) /\ Len(ms) \in Nat /\ \A i \in 1 .. Len(ms) : ms[i] \in Messages
  BY ListFacts
<1>2. <<>> \in Seq(Messages) /\ \A i \in 1 .. Len(ms) : <<ms[i]>> \in Seq(Messages)
  BY <1>1
<1>3. s \in Seq(Seq(Messages)) /\ Len(s) = Len(ms)
  BY <1>1, <1>2
<1>4. ASSUME NEW i \in 1 .. Len(ms)
      PROVE  Len(s[i]) = (IF i \in kept THEN 1 ELSE 0) /\ (i \in kept => s[i][1] = ms[i])
  BY <1>1
<1>5. out = FlattenSeq(s)
  BY DEF Only
<1> HIDE DEF s, out
<1>6. out \in Seq(Messages) /\ Len(out) \in Nat
  BY <1>3, <1>5, FlattenLayout
<1>7. PICK at : Layout(out, s, at)
  BY <1>3, <1>5, FlattenLayout
<1>8. \A i \in 1 .. Len(ms) : at[i] \in Nat /\ at[i + 1] = IF i \in kept THEN at[i] + 1 ELSE at[i]
  <2> TAKE i \in 1 .. Len(ms)
  <2>1. at[i] \in Nat /\ at[i + 1] = at[i] + Len(s[i])
    BY <1>1, <1>3, <1>7 DEF Layout
  <2>2. Len(s[i]) = IF i \in kept THEN 1 ELSE 0
    BY <1>4
  <2>3. CASE i \in kept
    BY <2>1, <2>2, <2>3
  <2>4. CASE i \notin kept
    BY <2>1, <2>2, <2>4
  <2> QED
    BY <2>3, <2>4
<1>9. ASSUME NEW i \in 1 .. Len(ms), i \in kept
      PROVE  at[i] + 1 \in 1 .. Len(out) /\ out[at[i] + 1] = ms[i]
  <2>1. at[i] \in Nat /\ at[i] + Len(s[i]) <= Len(out)
        /\ \A k \in 1 .. Len(s[i]) : out[at[i] + k] = s[i][k]
    BY <1>3, <1>7, <1>8 DEF Layout
  <2>2. Len(s[i]) = 1 /\ s[i][1] = ms[i]
    BY <1>4, <1>9
  <2> QED
    BY <1>6, <2>1, <2>2
<1>10. ASSUME NEW p \in 1 .. Len(out) PROVE \E i \in 1 .. Len(ms) : i \in kept /\ p = at[i] + 1
  <2>1. PICK i \in 1 .. Len(ms) : \E k \in 1 .. Len(s[i]) : p = at[i] + k
    <3>1. \E i \in 1 .. Len(s) : \E k \in 1 .. Len(s[i]) : p = at[i] + k
      BY <1>7, Zenon DEF Layout
    <3> QED
      BY <1>3, <3>1
  <2>2. PICK k \in 1 .. Len(s[i]) : p = at[i] + k
    BY <2>1
  <2>3. i \in kept /\ k = 1
    BY <1>4, <2>2
  <2> QED
    BY <2>2, <2>3
<1>11. /\ \A i \in 1 .. Len(ms) + 1 : at[i] \in Nat
       /\ at[1] = 0 /\ at[Len(ms) + 1] = Len(out)
  BY <1>3, <1>7 DEF Layout
<1>12. Places(out, ms, kept, at)
  BY <1>8, <1>9, <1>10, <1>11 DEF Places
<1> QED
  BY <1>6, <1>12 DEF out

-----------------------------------------------------------------------------
(* sanitizeMessagesForToolProtocol *)

\* A message becomes one message, or two.
LEMMA RepairedTypes ==
  ASSUME NEW ms \in Seq(Messages), NEW i \in 1 .. Len(ms)
  PROVE  /\ Repaired(ms, i) \in Seq(Messages)
         /\ Len(Repaired(ms, i)) \in {1, 2}
         /\ HasCalls(ms[i]) /\ ~ValidBundle(ms, i) =>
              Repaired(ms, i) = <<[ms[i] EXCEPT !.calls = <<>>], InternalUser>>
         /\ InBundle(ms, i) =>
              Repaired(ms, i) = <<ToolResult(ms[Owner(ms, i)].calls[i - Owner(ms, i)])>>
         /\ ms[i].role = "tool" /\ ~InBundle(ms, i) => Repaired(ms, i) = <<InternalUser>>
         /\ ms[i].role # "tool" /\ (HasCalls(ms[i]) => ValidBundle(ms, i)) =>
              Repaired(ms, i) = <<ms[i]>>
<1>1. ms[i] \in Messages
  BY ListFacts
<1>2. HasCalls(ms[i]) => ms[i].role # "tool"
  BY DEF HasCalls
<1>3. InBundle(ms, i) => ms[i].role = "tool"
  BY DEF InBundle
<1>4. InternalUser \in Messages
  BY MessageTypes
<1>5. CASE HasCalls(ms[i]) /\ ~ValidBundle(ms, i)
  <2>1. Repaired(ms, i) = <<[ms[i] EXCEPT !.calls = <<>>], InternalUser>>
    BY <1>2, <1>3, <1>5 DEF Repaired
  <2>2. [ms[i] EXCEPT !.calls = <<>>] \in Messages
    BY <1>1, MessageTypes
  <2> QED
    BY <1>2, <1>3, <1>4, <1>5, <2>1, <2>2
<1>6. CASE InBundle(ms, i)
  <2>1. Repaired(ms, i) = <<ToolResult(ms[Owner(ms, i)].calls[i - Owner(ms, i)])>>
    BY <1>2, <1>3, <1>6 DEF Repaired
  <2>2. PICK o \in 1 .. i - 1 : /\ Owner(ms, i) = o /\ o \in 1 .. Len(ms)
                                /\ i - o \in 1 .. Len(ms[o].calls)
    BY <1>6, MembersBundle
  <2>3. ms[o].calls[i - o] \in Nat
    BY <2>2, ListFacts
  <2>4. ToolResult(ms[o].calls[i - o]) \in Messages
    BY <2>3, MessageTypes
  <2> QED
    BY <1>2, <1>3, <1>6, <2>1, <2>2, <2>4
<1>7. CASE ms[i].role = "tool" /\ ~InBundle(ms, i)
  <2>1. Repaired(ms, i) = <<InternalUser>>
    BY <1>2, <1>7 DEF Repaired
  <2> QED
    BY <1>2, <1>4, <1>7, <2>1
<1>8. CASE ms[i].role # "tool" /\ (HasCalls(ms[i]) => ValidBundle(ms, i))
  <2>1. Repaired(ms, i) = <<ms[i]>>
    BY <1>3, <1>8 DEF Repaired
  <2> QED
    BY <1>1, <1>3, <1>8, <2>1
<1> QED
  BY <1>2, <1>5, <1>6, <1>7, <1>8

\* Every message of the repaired list is one that a message becomes.
LEMMA SanitizedLayout ==
  ASSUME NEW ms \in Seq(Messages)
  PROVE  /\ Sanitized(ms) \in Seq(Messages)
         /\ \E at : Layout(Sanitized(ms), [i \in DOMAIN ms |-> Repaired(ms, i)], at)
<1> DEFINE s == [i \in 1 .. Len(ms) |-> Repaired(ms, i)]
<1>1. DOMAIN ms = 1 .. Len(ms) /\ Len(ms) \in Nat
  BY ListFacts
<1>2. \A i \in 1 .. Len(ms) : Repaired(ms, i) \in Seq(Messages)
  BY RepairedTypes
<1>3. s \in Seq(Seq(Messages))
  BY <1>1, <1>2
<1> HIDE DEF s
<1>4. FlattenSeq(s) \in Seq(Messages) /\ \E at : Layout(FlattenSeq(s), s, at)
  BY <1>3, FlattenLayout
<1> QED
  BY <1>1, <1>4 DEF Sanitized, s

\* Whatever the conversation is, what goes to the provider has every result next to
\* its call and every call with its results.
LEMMA SanitizedIsReplaySafe ==
  ASSUME NEW ms \in Seq(Messages) PROVE ReplaySafe(Sanitized(ms))
<1> DEFINE out == Sanitized(ms)
           n == Len(ms)
           L(o) == Len(ms[o].calls)
<1>1. PICK at : Layout(out, [i \in DOMAIN ms |-> Repaired(ms, i)], at)
  BY SanitizedLayout
<1>2. out \in Seq(Messages) /\ Len(out) \in Nat /\ DOMAIN out = 1 .. Len(out)
      /\ n \in Nat /\ DOMAIN ms = 1 .. n
  BY SanitizedLayout, ListFacts
<1> HIDE DEF out
<1>3. ASSUME NEW i \in 1 .. n
      PROVE  /\ at[i] \in Nat /\ at[i + 1] = at[i] + Len(Repaired(ms, i))
             /\ at[i] + Len(Repaired(ms, i)) <= Len(out)
             /\ \A k \in 1 .. Len(Repaired(ms, i)) : out[at[i] + k] = Repaired(ms, i)[k]
  <2> DEFINE s == [j \in DOMAIN ms |-> Repaired(ms, j)]
  <2>1. Len(s) = n /\ s[i] = Repaired(ms, i) /\ i \in 1 .. n + 1
    BY <1>2
  <2>2. Layout(out, s, at)
    BY <1>1
  <2> HIDE DEF s
  <2> QED
    BY <2>1, <2>2 DEF Layout
<1>4. ASSUME NEW q \in 1 .. Len(out)
      PROVE  \E i \in 1 .. n : \E k \in 1 .. Len(Repaired(ms, i)) : q = at[i] + k
  <2> DEFINE s == [j \in DOMAIN ms |-> Repaired(ms, j)]
  <2>1. Len(s) = n /\ \A i \in 1 .. n : s[i] = Repaired(ms, i)
    BY <1>2
  <2>2. Layout(out, s, at)
    BY <1>1
  <2> HIDE DEF s
  <2> QED
    BY <2>1, <2>2 DEF Layout
<1>5. ASSUME NEW o \in 1 .. n, ValidBundle(ms, o)
      PROVE  /\ at[o] + 1 \in 1 .. Len(out) /\ out[at[o] + 1] = ms[o] /\ at[o] \in Nat
             /\ at[o] + 1 + L(o) <= Len(out)
             /\ \A k \in 1 .. L(o) : /\ at[o + k] = at[o] + k
                                     /\ out[at[o] + 1 + k] = ToolResult(ms[o].calls[k])
  <2>1. HasCalls(ms[o]) /\ ms[o].role # "tool" /\ Repaired(ms, o) = <<ms[o]>>
    BY <1>5, RepairedTypes DEF ValidBundle, HasCalls
  <2>2. /\ at[o] + 1 \in 1 .. Len(out) /\ out[at[o] + 1] = ms[o] /\ at[o + 1] = at[o] + 1
        /\ at[o] \in Nat
    <3>1. Len(<<ms[o]>>) = 1 /\ 1 \in 1 .. 1 /\ <<ms[o]>>[1] = ms[o]
      OBVIOUS
    <3>2. at[o] \in Nat /\ at[o + 1] = at[o] + 1 /\ at[o] + 1 <= Len(out)
      BY <1>3, <2>1, <3>1
    <3>3. out[at[o] + 1] = ms[o]
      BY <1>3, <2>1, <3>1
    <3> QED
      BY <1>2, <3>2, <3>3
  <2>3. L(o) \in Nat
    BY ListFacts
  <2>4. ASSUME NEW k \in 1 .. L(o)
        PROVE  /\ o + k \in 1 .. n /\ at[o + k] \in Nat /\ at[(o + k) + 1] = at[o + k] + 1
               /\ at[o + k] + 1 <= Len(out)
               /\ out[at[o + k] + 1] = ToolResult(ms[o].calls[k])
    <3>1. o + k \in 1 .. n /\ InBundle(ms, o + k) /\ Owner(ms, o + k) = o
      BY <1>5, BundleMembers
    <3>2. (o + k) - o = k
      BY <2>3
    <3>3. Repaired(ms, o + k) = <<ToolResult(ms[o].calls[k])>>
      BY <3>1, <3>2, RepairedTypes
    <3>4. \A x : Len(<<x>>) = 1 /\ 1 \in 1 .. 1 /\ <<x>>[1] = x
      OBVIOUS
    <3>5. Len(Repaired(ms, o + k)) = 1 /\ 1 \in 1 .. Len(Repaired(ms, o + k))
          /\ Repaired(ms, o + k)[1] = ToolResult(ms[o].calls[k])
      BY <3>3, <3>4
    <3> QED
      BY <1>3, <3>1, <3>5
  <2>5. ASSUME NEW k \in 1 .. L(o) PROVE at[o + k] = at[o] + k
    <3> DEFINE T == {j \in 1 .. L(o) : at[o + j] = at[o] + j}
    <3>1. ASSUME NEW j \in 1 .. L(o), \A i \in 1 .. j - 1 : i \in T PROVE j \in T
      <4>1. CASE j = 1
        BY <2>2, <4>1
      <4>2. CASE j # 1
        <5>1. j - 1 \in 1 .. L(o) /\ j - 1 \in 1 .. j - 1 /\ (o + (j - 1)) + 1 = o + j
          BY <2>3, <4>2
        <5>2. at[o + (j - 1)] = at[o] + (j - 1)
          BY <3>1, <5>1
        <5>3. at[o + j] = at[o + (j - 1)] + 1
          BY <2>4, <5>1
        <5>4. at[o + j] = at[o] + j
          BY <2>2, <2>3, <5>2, <5>3
        <5> QED
          BY <5>4
      <4> QED
        BY <4>1, <4>2
    <3>2. \A j \in 1 .. L(o) : (\A i \in 1 .. j - 1 : i \in T) => j \in T
      BY <3>1
    <3>3. \A j \in 1 .. L(o) : j \in T
      <4> HIDE DEF T, L
      <4> QED
        BY <2>3, <3>2, Upto
    <3> QED
      BY <3>3
  <2>6. at[o] + 1 + L(o) <= Len(out)
    <3>1. CASE L(o) = 0
      BY <2>2, <3>1
    <3>2. CASE L(o) > 0
      <4>1. L(o) \in 1 .. L(o)
        BY <2>3, <3>2
      <4>2. at[o + L(o)] = at[o] + L(o) /\ at[o + L(o)] + 1 <= Len(out)
        BY <2>4, <2>5, <4>1
      <4> HIDE DEF L
      <4> QED
        BY <1>2, <2>2, <2>3, <4>2
    <3> QED
      BY <2>3, <3>1, <3>2
  <2>7. ASSUME NEW k \in 1 .. L(o) PROVE out[at[o] + 1 + k] = ToolResult(ms[o].calls[k])
    <3>1. at[o] + 1 + k = at[o + k] + 1
      <4>1. k \in Nat /\ at[o + k] = at[o] + k /\ at[o] \in Nat
        BY <2>2, <2>3, <2>5
      <4> HIDE DEF L
      <4> QED
        BY <4>1
    <3> QED
      BY <2>4, <3>1
  <2> QED
    BY <2>2, <2>5, <2>6, <2>7
<1>6. ASSUME NEW o \in 1 .. n, ValidBundle(ms, o) PROVE ValidBundle(out, at[o] + 1)
  <2> DEFINE p == at[o] + 1
             calls == ms[o].calls
  <2>1. /\ p \in 1 .. Len(out) /\ out[p] = ms[o] /\ p + L(o) <= Len(out)
        /\ \A k \in 1 .. L(o) : out[p + k] = ToolResult(calls[k])
    BY <1>5, <1>6
  <2>2. HasCalls(ms[o]) /\ IsInjective(calls) /\ L(o) \in Nat /\ DOMAIN calls = 1 .. L(o)
    BY <1>6, ListFacts DEF ValidBundle
  <2> HIDE DEF p
  <2>3. \A k \in 1 .. L(o) : out[p + k].role = "tool" /\ out[p + k].ref = calls[k]
    BY <2>1 DEF ToolResult, Plain
  <2>4. L(o) <= Following(out, p)
    BY <1>2, <2>1, <2>2, <2>3, FollowingCounts
  <2>5. {out[p + k].ref : k \in DOMAIN calls} = ToSet(calls)
    BY <2>2, <2>3 DEF ToSet
  <2> QED
    BY <2>1, <2>2, <2>4, <2>5 DEF ValidBundle, p
<1>7. ASSUME NEW q \in DOMAIN out, out[q].role = "tool" PROVE InBundle(out, q)
  <2>0. PICK i \in 1 .. n : \E k \in 1 .. Len(Repaired(ms, i)) : q = at[i] + k
    BY <1>2, <1>4
  <2>1. PICK k \in 1 .. Len(Repaired(ms, i)) : q = at[i] + k
    BY <2>0
  <2>2. out[q] = Repaired(ms, i)[k]
    BY <1>3, <2>1
  <2>3. InBundle(ms, i) /\ k = 1
    <3>1. CASE HasCalls(ms[i]) /\ ~ValidBundle(ms, i)
      <4>1. Repaired(ms, i)[1].role = "assistant" /\ Repaired(ms, i)[2].role = "user"
        <5>1. Repaired(ms, i) = <<[ms[i] EXCEPT !.calls = <<>>], InternalUser>> /\ ms[i] \in Messages
          BY <3>1, RepairedTypes, ListFacts
        <5> DEFINE x == [ms[i] EXCEPT !.calls = <<>>]
        <5>2. x.role = "assistant" /\ x.calls = <<>> /\ InternalUser.role = "user"
          BY <3>1, <5>1, Roles DEF HasCalls
        <5>3. Repaired(ms, i) = <<x, InternalUser>>
          BY <5>1
        <5> HIDE DEF x
        <5> QED
          BY <5>2, <5>3
      <4>2. k = 1 \/ k = 2
        BY RepairedTypes
      <4> QED
        BY <1>7, <2>2, <4>1, <4>2
    <3>2. CASE InBundle(ms, i)
      BY <3>2, RepairedTypes
    <3>3. CASE ms[i].role = "tool" /\ ~InBundle(ms, i)
      <4>1. Repaired(ms, i) = <<InternalUser>> /\ k = 1
        BY <3>3, RepairedTypes
      <4> QED
        BY <1>7, <2>2, <4>1 DEF InternalUser, Plain
    <3>4. CASE ms[i].role # "tool" /\ (HasCalls(ms[i]) => ValidBundle(ms, i))
      <4>1. Repaired(ms, i) = <<ms[i]>> /\ k = 1
        BY <3>4, RepairedTypes
      <4> QED
        BY <1>7, <2>2, <3>4, <4>1
    <3> QED
      BY <3>1, <3>2, <3>3, <3>4
  <2>4. PICK o \in 1 .. i - 1 : /\ o \in 1 .. n /\ ValidBundle(ms, o) /\ i - o \in 1 .. L(o)
    BY <2>3, MembersBundle
  <2>5. /\ at[o] + 1 \in 1 .. Len(out) /\ out[at[o] + 1] = ms[o] /\ at[o] \in Nat
        /\ at[o + (i - o)] = at[o] + (i - o)
    BY <1>5, <2>4
  <2>6. q = (at[o] + 1) + (i - o) /\ i - o \in 1 .. Len(out[at[o] + 1].calls)
    <3>1. o + (i - o) = i
      BY <2>4
    <3>2. at[i] = at[o] + (i - o)
      BY <2>5, <3>1
    <3>3. i - o \in 1 .. Len(out[at[o] + 1].calls) /\ i - o \in Nat
      BY <2>4, <2>5
    <3> QED
      BY <2>1, <2>3, <2>5, <3>2, <3>3
  <2>7. ValidBundle(out, at[o] + 1)
    BY <1>6, <2>4
  <2>8. InBundle(out, (at[o] + 1) + (i - o))
    BY <1>2, <2>5, <2>6, <2>7, BundleMembers
  <2> QED
    BY <2>6, <2>8
<1>8. ASSUME NEW q \in DOMAIN out, HasCalls(out[q]) PROVE ValidBundle(out, q)
  <2>0. PICK i \in 1 .. n : \E k \in 1 .. Len(Repaired(ms, i)) : q = at[i] + k
    BY <1>2, <1>4
  <2>1. PICK k \in 1 .. Len(Repaired(ms, i)) : q = at[i] + k
    BY <2>0
  <2>2. out[q] = Repaired(ms, i)[k]
    BY <1>3, <2>1
  <2>3. ValidBundle(ms, i) /\ k = 1
    <3>1. CASE HasCalls(ms[i]) /\ ~ValidBundle(ms, i)
      <4>1. Repaired(ms, i)[1].calls = <<>> /\ Repaired(ms, i)[2].role = "user"
        <5>1. Repaired(ms, i) = <<[ms[i] EXCEPT !.calls = <<>>], InternalUser>> /\ ms[i] \in Messages
          BY <3>1, RepairedTypes, ListFacts
        <5> DEFINE x == [ms[i] EXCEPT !.calls = <<>>]
        <5>2. x.role = "assistant" /\ x.calls = <<>> /\ InternalUser.role = "user"
          BY <3>1, <5>1, Roles DEF HasCalls
        <5>3. Repaired(ms, i) = <<x, InternalUser>>
          BY <5>1
        <5> HIDE DEF x
        <5> QED
          BY <5>2, <5>3
      <4>2. k = 1 \/ k = 2
        BY RepairedTypes
      <4> QED
        BY <1>8, <2>2, <4>1, <4>2 DEF HasCalls
    <3>2. CASE InBundle(ms, i)
      <4>1. Repaired(ms, i) = <<ToolResult(ms[Owner(ms, i)].calls[i - Owner(ms, i)])>> /\ k = 1
        BY <3>2, RepairedTypes
      <4> QED
        BY <1>8, <2>2, <4>1, Roles DEF HasCalls
    <3>3. CASE ms[i].role = "tool" /\ ~InBundle(ms, i)
      <4>1. Repaired(ms, i) = <<InternalUser>> /\ k = 1
        BY <3>3, RepairedTypes
      <4> QED
        BY <1>8, <2>2, <4>1 DEF HasCalls, InternalUser, Plain
    <3>4. CASE ms[i].role # "tool" /\ (HasCalls(ms[i]) => ValidBundle(ms, i))
      <4>1. Repaired(ms, i) = <<ms[i]>> /\ k = 1
        BY <3>4, RepairedTypes
      <4> QED
        BY <1>8, <2>2, <3>4, <4>1
    <3> QED
      BY <3>1, <3>2, <3>3, <3>4
  <2>4. ValidBundle(out, at[i] + 1)
    BY <1>6, <2>3
  <2> QED
    BY <2>1, <2>3, <2>4
<1> QED
  BY <1>7, <1>8 DEF ReplaySafe, out


-----------------------------------------------------------------------------
(* Reductions give conversations *)

LEMMA NewestTypes ==
  ASSUME NEW ms \in Seq(Messages), NEW n \in 0 .. Len(ms)
  PROVE  Newest(ms, n) \in Seq(Messages)
<1>1. Len(ms) \in Nat /\ \A i \in 1 .. Len(ms) : ms[i] \in Messages
  BY ListFacts
<1>2. Len(ms) - n + 1 \in Int /\ Len(ms) \in Int
  BY <1>1
<1>3. \A i \in Len(ms) - n + 1 .. Len(ms) : ms[i] \in Messages
  BY <1>1
<1> QED
  BY <1>2, <1>3, SubSeqProperties DEF Newest

LEMMA PrefixTypes ==
  ASSUME NEW ms \in Seq(Messages), NEW n \in 0 .. Len(ms)
  PROVE  Prefix(ms, n) \in Seq(Messages) /\ Len(Prefix(ms, n)) = n
         /\ \A i \in 1 .. n : Prefix(ms, n)[i] = ms[i]
<1>1. Len(ms) \in Nat /\ \A i \in 1 .. Len(ms) : ms[i] \in Messages
  BY ListFacts
<1>2. 1 \in Int /\ n \in Int /\ \A i \in 1 .. n : ms[i] \in Messages
  BY <1>1
<1>3. /\ SubSeq(ms, 1, n) \in Seq(Messages)
      /\ Len(SubSeq(ms, 1, n)) = IF 1 <= n THEN n - 1 + 1 ELSE 0
      /\ \A i \in 1 .. n - 1 + 1 : SubSeq(ms, 1, n)[i] = ms[1 + i - 1]
  BY <1>2, SubSeqProperties
<1> QED
  BY <1>1, <1>3 DEF Prefix

LEMMA FromTypes ==
  ASSUME NEW ms \in Seq(Messages), NEW i \in 1 .. Len(ms) + 1
  PROVE  From(ms, i) \in Seq(Messages)
<1>1. Len(ms) \in Nat /\ \A k \in 1 .. Len(ms) : ms[k] \in Messages
  BY ListFacts
<1>2. i \in Int /\ Len(ms) \in Int /\ \A k \in i .. Len(ms) : ms[k] \in Messages
  BY <1>1
<1> QED
  BY <1>2, SubSeqProperties DEF From

LEMMA TrimmedTypes ==
  ASSUME NEW ms \in Seq(Messages), NEW n \in Nat
  PROVE  Trimmed(ms, n) \in Seq(Messages)
<1>1. CASE n < Len(ms)
  <2>1. n \in 0 .. Len(ms)
    BY <1>1, ListFacts
  <2>2. Newest(ms, n) \in Seq(Messages) /\ <<InternalAssistant>> \in Seq(Messages)
    BY <2>1, NewestTypes, MessageTypes
  <2> QED
    BY <1>1, <2>2, ConcatProperties DEF Trimmed
<1>2. CASE ~(n < Len(ms))
  BY <1>2 DEF Trimmed
<1> QED
  BY <1>1, <1>2

\* projectForProvider: whatever the conversation and the budget are, the provider
\* accepts what is sent.
LEMMA PayloadsAreSafe ==
  ASSUME NEW ms \in Seq(Messages), NEW n \in Nat PROVE ReplaySafe(Payload(ms, n))
<1>1. Sanitized(Sanitized(ms)) \in Seq(Messages)
  BY SanitizedLayout
<1>2. Trimmed(Sanitized(Sanitized(ms)), n) \in Seq(Messages)
  BY <1>1, TrimmedTypes
<1> QED
  BY <1>2, SanitizedIsReplaySafe DEF Payload

LEMMA TailStarts ==
  ASSUME NEW ms \in Seq(Messages), NEW n \in Nat PROVE TailStart(ms, n) \in 1 .. Len(ms) + 1
<1> DEFINE ends == RoundEnds(ms)
           older == {e \in ends : Cardinality({f \in ends : f > e}) >= n}
<1>1. Len(ms) \in Nat /\ ends \in SUBSET (1 .. Len(ms))
  BY ListFacts DEF RoundEnds
<1> HIDE DEF ends
<1>2. older \in SUBSET (0 .. Len(ms)) /\ older \in SUBSET (1 .. Len(ms))
  <2>1. \A e \in older : e \in ends
    BY Zenon
  <2> HIDE DEF older
  <2>2. \A e \in 1 .. Len(ms) : e \in 0 .. Len(ms)
    BY <1>1
  <2> QED
    BY <1>1, <2>1, <2>2
<1>3. TailStart(ms, n) = IF older = {} THEN 1 ELSE 1 + CHOOSE e \in older : \A f \in older : f <= e
  BY DEF TailStart, ends
<1> HIDE DEF older
<1>4. CASE older = {}
  BY <1>1, <1>3, <1>4
<1>5. CASE older # {}
  <2> DEFINE last == CHOOSE e \in older : \A f \in older : f <= e
  <2>1. last \in older
    BY <1>1, <1>2, <1>5, Latest
  <2>2. TailStart(ms, n) = 1 + last
    BY <1>3, <1>5
  <2> HIDE DEF last
  <2>3. last \in 1 .. Len(ms)
    BY <1>2, <2>1
  <2> QED
    BY <1>1, <2>2, <2>3
<1> QED
  BY <1>4, <1>5

LEMMA CompactedTypes ==
  ASSUME NEW ms \in Seq(Messages), NEW n \in Nat PROVE Compacted(ms, n) \in Seq(Messages)
<1> DEFINE start == TailStart(ms, n)
           covered == Standing(Prefix(ms, start - 1))
<1>1. start \in 1 .. Len(ms) + 1 /\ Len(ms) \in Nat
  BY TailStarts, ListFacts
<1> HIDE DEF start
<1>2. Prefix(ms, start - 1) \in Seq(Messages)
  BY <1>1, PrefixTypes
<1>3. covered \in SUBSET Nat
  <2> DEFINE ps == Prefix(ms, start - 1)
  <2>1. \A i \in DOMAIN ps : ps[i] \in Messages
    BY <1>2, ListFacts
  <2> HIDE DEF ps
  <2>2. \A i \in DOMAIN ps : ps[i].ref \in Nat /\ ps[i].covers \in SUBSET Nat
    BY <2>1 DEF Messages
  <2>3. Standing(ps) \in SUBSET Nat
    BY <2>2 DEF Standing
  <2> QED
    BY <2>3 DEF ps
<1>4. <<Compaction(covered)>> \in Seq(Messages) /\ From(ms, start) \in Seq(Messages)
  <2>1. Compaction(covered) \in Messages
    BY <1>3, MessageTypes
  <2> HIDE DEF covered
  <2> QED
    BY <1>1, <2>1, FromTypes
<1> HIDE DEF covered
<1>5. <<Compaction(covered)>> \o From(ms, start) \in Seq(Messages)
  BY <1>4, ConcatProperties
<1> QED
  BY <1>5, SanitizedLayout DEF Compacted, start, covered

LEMMA WithoutBundlesTypes ==
  ASSUME NEW ms \in Seq(Messages) PROVE WithoutBundles(ms).messages \in Seq(Messages)
<1> DEFINE gone == {i \in DOMAIN ms : \/ ValidBundle(ms, i)
                                      \/ ms[i].role = "tool" /\ Owner(ms, i) # 0
                                         /\ ValidBundle(ms, Owner(ms, i))}
<1>1. WithoutBundles(ms).messages = Only(ms, DOMAIN ms \ gone)
  BY DEF WithoutBundles
<1> HIDE DEF gone
<1> QED
  BY <1>1, OnlyLayout

LEMMA ToolHistoryCompactedTypes ==
  ASSUME NEW ms \in Seq(Messages), NEW tail \in Nat
  PROVE  ToolHistoryCompacted(ms, tail) \in Seq(Messages)
<1> DEFINE n == IF tail < Len(ms) THEN Len(ms) - tail ELSE 0
           head == WithoutBundles(Prefix(ms, n))
<1>1. n \in 0 .. Len(ms) /\ n + 1 \in 1 .. Len(ms) + 1
  BY ListFacts
<1>2. ToolHistoryCompacted(ms, tail) =
        IF Len(ms) > 2 /\ head.changed
        THEN head.messages \o <<InternalAssistant>> \o From(ms, n + 1)
        ELSE ms
  BY DEF ToolHistoryCompacted
<1> HIDE DEF n
<1>3. head.messages \in Seq(Messages)
  BY <1>1, PrefixTypes, WithoutBundlesTypes
<1>4. <<InternalAssistant>> \in Seq(Messages) /\ From(ms, n + 1) \in Seq(Messages)
  BY <1>1, FromTypes, MessageTypes
<1> HIDE DEF head
<1>5. head.messages \o <<InternalAssistant>> \o From(ms, n + 1) \in Seq(Messages)
  BY <1>3, <1>4, ConcatProperties
<1> QED
  BY <1>2, <1>5

LEMMA RecoveredTypes ==
  ASSUME NEW ms \in Seq(Messages), NEW tail \in Nat, NEW rs \in RecoveredHistories(ms, tail)
  PROVE  rs \in Seq(Messages)
<1>0. Len(ms) \in Nat
  BY ListFacts
<1>1. CASE Len(ms) <= 1
  BY <1>1 DEF RecoveredHistories
<1>2. CASE ~(Len(ms) <= 1)
  <2> DEFINE top == IF tail < Len(ms) THEN Len(ms) ELSE tail
  <2>1. \/ \E n \in tail .. top : rs = Trimmed(ms, n)
        \/ \E n \in {tail} \cap (0 .. Len(ms) - 3) : rs = <<InternalAssistant>> \o Newest(ms, n)
    BY <1>2 DEF RecoveredHistories
  <2>2. CASE \E n \in tail .. top : rs = Trimmed(ms, n)
    <3>1. PICK n \in tail .. top : rs = Trimmed(ms, n)
      BY <2>2
    <3>2. n \in Nat
      BY <1>0
    <3> QED
      BY <3>1, <3>2, TrimmedTypes
  <2>3. CASE \E n \in {tail} \cap (0 .. Len(ms) - 3) : rs = <<InternalAssistant>> \o Newest(ms, n)
    <3>1. PICK n \in 0 .. Len(ms) - 3 : rs = <<InternalAssistant>> \o Newest(ms, n)
      BY <2>3
    <3>2. n \in 0 .. Len(ms)
      BY <1>0
    <3>3. <<InternalAssistant>> \in Seq(Messages) /\ Newest(ms, n) \in Seq(Messages)
      BY <3>2, NewestTypes, MessageTypes
    <3> QED
      BY <3>1, <3>3, ConcatProperties
  <2> QED
    BY <2>1, <2>2, <2>3
<1> QED
  BY <1>1, <1>2

LEMMA SummaryTypes ==
  ASSUME NEW ms \in Seq(Messages), NEW at \in 1 .. Len(ms), NEW keep \in Nat
  PROVE  SummaryApplied(ms, at, keep) \in Seq(Messages)
<1> DEFINE n == IF Len(ms) - keep > at THEN keep ELSE Len(ms) - at
           note == [InternalAssistant EXCEPT !.ckpt = TRUE]
<1>1. n \in 0 .. Len(ms) /\ at \in 0 .. Len(ms)
  BY ListFacts
<1>2. SummaryApplied(ms, at, keep) = Sanitized(Prefix(ms, at) \o Newest(ms, n) \o <<note>>)
  BY DEF SummaryApplied
<1> HIDE DEF n
<1>3. Prefix(ms, at) \in Seq(Messages) /\ Newest(ms, n) \in Seq(Messages) /\ note \in Messages
  BY <1>1, PrefixTypes, NewestTypes, MessageTypes
<1> HIDE DEF note
<1>4. Prefix(ms, at) \o Newest(ms, n) \o <<note>> \in Seq(Messages)
  <2>1. <<note>> \in Seq(Messages)
    BY <1>3
  <2> QED
    BY <1>3, <2>1, ConcatProperties
<1> QED
  BY <1>2, <1>4, SanitizedLayout


-----------------------------------------------------------------------------
(* The counters of a turn *)

AtWork == {"prepare", "request", "tools", "hook", "before", "running", "insert", "finish"}
InTools == {"tools", "hook", "before", "running"}

\* Steps and retries stay within their bounds; a tool that is looked at is one of
\* the calls that are left.
CountersInv ==
    /\ pc \in AtWork \cup {"start", "ended"}
    /\ step \in 0 .. MaxSteps
    /\ pc \in AtWork => step < MaxSteps
    /\ retries \in [transport : 0 .. MaxTransport, overflow : 0 .. MaxOverflow, calm : BOOLEAN]
    /\ todo \in Seq(Nat)
    /\ pc \in {"hook", "before", "running"} => todo # <<>>
    /\ issued \in Nat

LEMMA Bounds ==
  /\ MaxSteps \in Nat /\ MaxSteps > 0 /\ KeepRounds \in Nat
  /\ MaxTransport \in Nat /\ MaxOverflow \in Nat /\ MaxProgress \in Nat /\ MaxRecovery \in Nat
  /\ KeepLatest \in Nat /\ CompactTail \in Nat /\ KeepRecent \in Nat /\ RecoveryTail \in Nat
BY AgentTurnAssumption

LEMMA CountersStart == AgentInit => CountersInv
<1> SUFFICES ASSUME AgentInit PROVE CountersInv
  OBVIOUS
<1>1. <<>> \in Seq(Nat)
  OBVIOUS
<1> QED
  BY <1>1, Bounds DEF AgentInit, CountersInv, NoRetries, AtWork

LEMMA TailTypes ==
  ASSUME NEW q \in Seq(Nat), q # <<>>
  PROVE  Tail(q) \in Seq(Nat) /\ Len(Tail(q)) = Len(q) - 1 /\ Head(q) \in Nat
         /\ Len(q) \in Nat /\ Len(q) > 0
OBVIOUS

\* A response has calls of its own.
LEMMA CallTypes ==
  ASSUME NEW n \in Nat, NEW first \in Nat
  PROVE  [k \in 1 .. n |-> FirstCall + first + k - 1] \in Seq(Nat)
<1>1. \A k \in 1 .. n : FirstCall + first + k - 1 \in Nat
  BY DEF FirstCall
<1> QED
  BY <1>1

LEMMA AnswerTypes ==
  ASSUME CountersInv, Answer
  PROVE  \E r \in Replies[step] : \E calls \in Seq(Nat) :
           /\ r.text \in BOOLEAN /\ r.calls \in Nat
           /\ calls = [k \in 1 .. r.calls |-> FirstCall + issued + k - 1]
           /\ reply' = r /\ todo' = calls /\ issued' = issued + r.calls
           /\ msgs' = Append(msgs, Assistant(r.text, calls))
           /\ pc = "request" /\ pc' = IF calls = <<>> THEN "finish" ELSE "tools"
           /\ UNCHANGED <<scope, step, ran, stopped, retries, closing, pending, waiting, reduced, reason>>
<1>1. PICK r \in Replies[step] :
        LET calls == [k \in 1 .. r.calls |-> FirstCall + issued + k - 1]
        IN  /\ reply' = r /\ todo' = calls /\ issued' = issued + r.calls
            /\ msgs' = Append(msgs, Assistant(r.text, calls))
            /\ pc = "request" /\ pc' = IF calls = <<>> THEN "finish" ELSE "tools"
            /\ UNCHANGED <<scope, step, ran, stopped, retries, closing, pending, waiting, reduced, reason>>
  BY DEF Answer
<1>2. step \in 0 .. MaxSteps - 1
  BY <1>1, Bounds DEF CountersInv, AtWork
<1>3. r.text \in BOOLEAN /\ r.calls \in Nat
  BY <1>2, AgentTurnAssumption
<1>4. [k \in 1 .. r.calls |-> FirstCall + issued + k - 1] \in Seq(Nat)
  BY <1>3, CallTypes DEF CountersInv
<1> QED
  BY <1>1, <1>3, <1>4

LEMMA CountersStep ==
  ASSUME CountersInv, [AgentNext]_vars PROVE CountersInv'
<1> USE DEF CountersInv, AtWork, loop, End
<1>1. CASE StartStep
  BY <1>1, Bounds DEF StartStep, NoRetries
<1>2. CASE Prepare
  BY <1>2 DEF Prepare
<1>3. CASE Answer
  BY <1>3, AnswerTypes
<1>4. CASE RequestCancelled \/ RequestFails
  BY <1>4 DEF RequestCancelled, RequestFails
<1>5. CASE TransportRetry
  <2>1. retries.transport + 1 \in 0 .. MaxTransport
    BY <1>5, Bounds DEF TransportRetry
  <2>2. retries' \in [transport : 0 .. MaxTransport, overflow : 0 .. MaxOverflow, calm : BOOLEAN]
    BY <1>5, <2>1 DEF TransportRetry
  <2> QED
    BY <1>5, <2>2 DEF TransportRetry
<1>6. CASE ToolIdUnknown
  <2>1. /\ pc = "request" /\ UNCHANGED <<todo, issued, retries>>
        /\ \/ pc' = "ended" /\ step' = step
           \/ pc' = "start" /\ step' = step + 1
    BY <1>6 DEF ToolIdUnknown
  <2> QED
    BY <2>1, Bounds
<1>7. CASE Overflow
  <2>1. /\ pc = "request" /\ UNCHANGED <<step, todo, issued>>
        /\ \/ pc' = "ended" /\ retries' = retries
           \/ /\ pc' = "prepare" /\ retries.overflow + 1 <= MaxOverflow
              /\ retries' = [retries EXCEPT !.overflow = @ + 1, !.calm = TRUE]
    <3>1. retries.overflow \in Nat /\ MaxOverflow \in Nat
      BY Bounds
    <3> QED
      BY <1>7, <3>1 DEF Overflow
  <2>2. retries' \in [transport : 0 .. MaxTransport, overflow : 0 .. MaxOverflow, calm : BOOLEAN]
    <3>1. CASE retries' = retries
      BY <3>1
    <3>2. CASE retries' # retries
      <4>1. retries.overflow + 1 \in 0 .. MaxOverflow
        BY <2>1, <3>2, Bounds
      <4>2. retries' = [retries EXCEPT !.overflow = retries.overflow + 1, !.calm = TRUE]
        BY <2>1, <3>2
      <4> QED
        BY <4>1, <4>2
    <3> QED
      BY <3>1, <3>2
  <2> QED
    BY <2>1, <2>2
<1>8. CASE NextTool \/ ToolAllowed \/ ToolStarts
  BY <1>8 DEF NextTool, ToolAllowed, ToolStarts
<1>9. CASE ToolBlocked \/ ToolEnds
  BY <1>9, TailTypes DEF ToolBlocked, ToolEnds
<1>10. CASE ToolsEnd \/ Insert
  BY <1>10 DEF ToolsEnd, Insert
<1>11. CASE RecoverFromMaxTokens
  <2>1. /\ pc = "finish" /\ UNCHANGED <<todo, issued, retries>>
        /\ \/ pc' = "ended" /\ step' = step
           \/ pc' = "start" /\ step' = step + 1
    BY <1>11 DEF RecoverFromMaxTokens
  <2> QED
    BY <2>1, Bounds
<1>12. CASE AskToContinue \/ FinishStep
  <2>1. /\ pc = "finish" /\ UNCHANGED <<todo, issued, retries>>
        /\ \/ pc' = "ended" /\ step' = step
           \/ pc' = "start" /\ step' = step + 1
    BY <1>12 DEF AskToContinue, FinishStep
  <2> QED
    BY <2>1, Bounds
<1>13. CASE Stop
  BY <1>13 DEF Stop
<1>14. CASE UNCHANGED vars
  BY <1>14 DEF vars
<1> QED
  BY <1>1, <1>2, <1>3, <1>4, <1>5, <1>6, <1>7, <1>8, <1>9, <1>10, <1>11, <1>12, <1>13, <1>14
  DEF AgentNext, Loop, Request, Tools, Over

LEMMA CountersAlways == AgentSpec => []CountersInv
BY CountersStart, CountersStep, PTL DEF AgentSpec

\* A stopped turn does not touch anything any more: between the last look at the
\* signal and the start of the tool there is no await.
THEOREM NoToolAfterStop == AgentSpec => StoppedTurnsDoNotAct
<1>1. [AgentNext]_vars => [stopped => ran' = ran]_vars
  BY DEF AgentNext, Loop, Request, Tools, Over, StartStep, Prepare, Answer, RequestCancelled,
         RequestFails, TransportRetry, ToolIdUnknown, Overflow, NextTool, ToolAllowed, ToolStarts,
         ToolBlocked, ToolEnds, ToolsEnd, Insert, RecoverFromMaxTokens, AskToContinue, FinishStep,
         Stop, loop, vars
<1> QED
  BY <1>1, PTL DEF AgentSpec, StoppedTurnsDoNotAct

-----------------------------------------------------------------------------
(* Every turn ends *)

LEMMA Lexicographic ==
  ASSUME NEW a1, NEW a2, NEW a3, NEW a4, NEW a5, NEW a6,
         NEW b1, NEW b2, NEW b3, NEW b4, NEW b5, NEW b6,
         \/ a1 < b1
         \/ a1 = b1 /\ a2 < b2
         \/ a1 = b1 /\ a2 = b2 /\ a3 < b3
         \/ a1 = b1 /\ a2 = b2 /\ a3 = b3 /\ a4 < b4
         \/ a1 = b1 /\ a2 = b2 /\ a3 = b3 /\ a4 = b4 /\ a5 < b5
         \/ a1 = b1 /\ a2 = b2 /\ a3 = b3 /\ a4 = b4 /\ a5 = b5 /\ a6 < b6
  PROVE  Lower(<<a1, a2, a3, a4, a5, a6>>, <<b1, b2, b3, b4, b5, b6>>)
<1> DEFINE a == <<a1, a2, a3, a4, a5, a6>>
           b == <<b1, b2, b3, b4, b5, b6>>
<1>1. /\ a[1] = a1 /\ a[2] = a2 /\ a[3] = a3 /\ a[4] = a4 /\ a[5] = a5 /\ a[6] = a6
      /\ b[1] = b1 /\ b[2] = b2 /\ b[3] = b3 /\ b[4] = b4 /\ b[5] = b5 /\ b[6] = b6
      /\ DOMAIN a = 1 .. 6
  OBVIOUS
<1> HIDE DEF a, b
<1>2. \/ a[1] < b[1]
      \/ a[1] = b[1] /\ a[2] < b[2]
      \/ a[1] = b[1] /\ a[2] = b[2] /\ a[3] < b[3]
      \/ a[1] = b[1] /\ a[2] = b[2] /\ a[3] = b[3] /\ a[4] < b[4]
      \/ a[1] = b[1] /\ a[2] = b[2] /\ a[3] = b[3] /\ a[4] = b[4] /\ a[5] < b[5]
      \/ a[1] = b[1] /\ a[2] = b[2] /\ a[3] = b[3] /\ a[4] = b[4] /\ a[5] = b[5] /\ a[6] < b[6]
  BY <1>1
<1>3. \E i \in 1 .. 6 : a[i] < b[i] /\ \A j \in 1 .. i - 1 : a[j] = b[j]
  <2>1. /\ \A j \in 1 .. 1 - 1 : FALSE
        /\ \A j \in 1 .. 2 - 1 : j = 1
        /\ \A j \in 1 .. 3 - 1 : j = 1 \/ j = 2
        /\ \A j \in 1 .. 4 - 1 : j = 1 \/ j = 2 \/ j = 3
        /\ \A j \in 1 .. 5 - 1 : j = 1 \/ j = 2 \/ j = 3 \/ j = 4
        /\ \A j \in 1 .. 6 - 1 : j = 1 \/ j = 2 \/ j = 3 \/ j = 4 \/ j = 5
    OBVIOUS
  <2>2. 1 \in 1 .. 6 /\ 2 \in 1 .. 6 /\ 3 \in 1 .. 6 /\ 4 \in 1 .. 6 /\ 5 \in 1 .. 6 /\ 6 \in 1 .. 6
    OBVIOUS
  <2> QED
    BY <1>2, <2>1, <2>2
<1>4. Lower(a, b)
  BY <1>1, <1>3 DEF Lower
<1> QED
  BY <1>4 DEF a, b

\* The parts of the rank.
Starting == IF pc = "start" THEN 1 ELSE 0
TransportLeft == MaxTransport - retries.transport
OverflowLeft == MaxOverflow - retries.overflow

LEMMA RankTypes ==
  ASSUME CountersInv
  PROVE  /\ MaxSteps - step \in Nat /\ Starting \in Nat /\ TransportLeft \in Nat
         /\ OverflowLeft \in Nat /\ Attempt \in Nat /\ Place \in Nat /\ Len(todo) \in Nat
<1>1. Len(todo) \in Nat
  BY DEF CountersInv
<1>2. Place \in Nat
  BY <1>1 DEF Place
<1>3. Attempt \in Nat /\ Starting \in Nat
  BY DEF Attempt, Starting
<1>4. MaxSteps - step \in Nat
  BY Bounds DEF CountersInv
<1>5. TransportLeft \in Nat /\ OverflowLeft \in Nat
  <2>1. retries.transport \in 0 .. MaxTransport /\ retries.overflow \in 0 .. MaxOverflow
    BY DEF CountersInv
  <2> QED
    BY <2>1, Bounds DEF TransportLeft, OverflowLeft
<1> QED
  BY <1>1, <1>2, <1>3, <1>4, <1>5

\* Which part of the rank a step lowers.
StepLeft == step' = step + 1
StartLeft == step' = step /\ pc = "start" /\ pc' # "start"
TransportUsed ==
    /\ step' = step /\ pc # "start" /\ pc' # "start"
    /\ retries.transport' = retries.transport + 1
OverflowUsed ==
    /\ step' = step /\ pc # "start" /\ pc' # "start"
    /\ retries.transport' = retries.transport
    /\ retries.overflow' = retries.overflow + 1
AttemptUsed ==
    /\ step' = step /\ pc # "start" /\ pc' # "start" /\ retries' = retries
    /\ \/ pc = "prepare" /\ pc' \in {"request", "ended"}
       \/ pc = "request" /\ pc' \in {"tools", "finish", "ended"}
PlaceLeft ==
    /\ step' = step /\ pc' # "start" /\ retries' = retries
    /\ \/ /\ pc \in {"tools", "hook", "before", "running"} /\ todo' = todo
          /\ \/ pc = "tools" /\ pc' \in {"hook", "ended", "insert", "finish"}
             \/ pc = "hook" /\ pc' = "before"
             \/ pc = "before" /\ pc' \in {"running", "ended"}
       \/ pc \in {"hook", "running"} /\ pc' = "tools" /\ Len(todo') = Len(todo) - 1
       \/ pc = "insert" /\ pc' = "finish"
       \/ pc = "finish" /\ pc' = "ended"

LEMMA StepUses ==
  ASSUME CountersInv, Loop
  PROVE  StepLeft \/ StartLeft \/ TransportUsed \/ OverflowUsed \/ AttemptUsed \/ PlaceLeft
<1> USE DEF End, loop
<1>1. CASE StartStep
  BY <1>1 DEF StartStep, StartLeft
<1>2. CASE Prepare
  BY <1>2 DEF Prepare, AttemptUsed
<1>3. CASE Answer
  BY <1>3, AnswerTypes DEF AttemptUsed
<1>4. CASE RequestCancelled \/ RequestFails
  BY <1>4 DEF RequestCancelled, RequestFails, AttemptUsed
<1>5. CASE TransportRetry
  <2>1. retries.transport' = retries.transport + 1
    BY <1>5 DEF TransportRetry, CountersInv
  <2> QED
    BY <1>5, <2>1 DEF TransportRetry, TransportUsed
<1>6. CASE ToolIdUnknown
  BY <1>6 DEF ToolIdUnknown, StepLeft, AttemptUsed
<1>7. CASE Overflow
  <2>1. /\ step' = step /\ pc = "request"
        /\ \/ pc' = "ended" /\ retries' = retries
           \/ pc' = "prepare" /\ retries' = [retries EXCEPT !.overflow = @ + 1, !.calm = TRUE]
    BY <1>7 DEF Overflow
  <2>2. CASE pc' = "prepare" /\ retries' = [retries EXCEPT !.overflow = @ + 1, !.calm = TRUE]
    <3>1. retries.transport' = retries.transport /\ retries.overflow' = retries.overflow + 1
      BY <2>2 DEF CountersInv
    <3> QED
      BY <2>1, <2>2, <3>1 DEF OverflowUsed
  <2>3. CASE pc' = "ended" /\ retries' = retries
    BY <2>1, <2>3 DEF AttemptUsed
  <2> QED
    BY <2>1, <2>2, <2>3
<1>8. CASE NextTool \/ ToolAllowed \/ ToolStarts
  BY <1>8 DEF NextTool, ToolAllowed, ToolStarts, PlaceLeft
<1>9. CASE ToolBlocked \/ ToolEnds
  BY <1>9, TailTypes DEF ToolBlocked, ToolEnds, PlaceLeft, CountersInv
<1>10. CASE ToolsEnd \/ Insert
  BY <1>10 DEF ToolsEnd, Insert, PlaceLeft
<1>11. CASE RecoverFromMaxTokens
  <2>1. /\ pc = "finish" /\ retries' = retries
        /\ \/ pc' = "ended" /\ step' = step
           \/ pc' = "start" /\ step' = step + 1
    BY <1>11 DEF RecoverFromMaxTokens
  <2> QED
    BY <2>1 DEF StepLeft, PlaceLeft
<1>12. CASE AskToContinue \/ FinishStep
  <2>1. /\ pc = "finish" /\ retries' = retries
        /\ \/ pc' = "ended" /\ step' = step
           \/ pc' = "start" /\ step' = step + 1
    BY <1>12 DEF AskToContinue, FinishStep
  <2> QED
    BY <2>1 DEF StepLeft, PlaceLeft
<1> QED
  BY <1>1, <1>2, <1>3, <1>4, <1>5, <1>6, <1>7, <1>8, <1>9, <1>10, <1>11, <1>12
  DEF Loop, Request, Tools

LEMMA LoopNearsTheEnd ==
  ASSUME CountersInv, CountersInv', Loop PROVE Lower(Rank', Rank)
<1>1. /\ MaxSteps - step \in Nat /\ Starting \in Nat /\ TransportLeft \in Nat
      /\ OverflowLeft \in Nat /\ Attempt \in Nat /\ Place \in Nat /\ Len(todo) \in Nat
  BY RankTypes
<1>2. /\ step \in Nat /\ MaxSteps \in Nat /\ MaxTransport \in Nat /\ MaxOverflow \in Nat
      /\ retries.transport \in Nat /\ retries.overflow \in Nat
      /\ step' \in Nat /\ retries.transport' \in Nat /\ retries.overflow' \in Nat
  BY Bounds DEF CountersInv
<1>3. \/ MaxSteps - step' < MaxSteps - step
      \/ MaxSteps - step' = MaxSteps - step /\ Starting' < Starting
      \/ MaxSteps - step' = MaxSteps - step /\ Starting' = Starting /\ TransportLeft' < TransportLeft
      \/ /\ MaxSteps - step' = MaxSteps - step /\ Starting' = Starting
         /\ TransportLeft' = TransportLeft /\ OverflowLeft' < OverflowLeft
      \/ /\ MaxSteps - step' = MaxSteps - step /\ Starting' = Starting
         /\ TransportLeft' = TransportLeft /\ OverflowLeft' = OverflowLeft /\ Attempt' < Attempt
      \/ /\ MaxSteps - step' = MaxSteps - step /\ Starting' = Starting
         /\ TransportLeft' = TransportLeft /\ OverflowLeft' = OverflowLeft
         /\ Attempt' = Attempt /\ Place' < Place
  <2>1. CASE StepLeft
    BY <1>2, <2>1 DEF StepLeft
  <2>2. CASE StartLeft
    BY <1>2, <2>2 DEF StartLeft, Starting
  <2>3. CASE TransportUsed
    BY <1>2, <2>3 DEF TransportUsed, Starting, TransportLeft
  <2>4. CASE OverflowUsed
    BY <1>2, <2>4 DEF OverflowUsed, Starting, TransportLeft, OverflowLeft
  <2>5. CASE AttemptUsed
    BY <1>2, <2>5 DEF AttemptUsed, Starting, TransportLeft, OverflowLeft, Attempt
  <2>6. CASE PlaceLeft
    <3>1. Place' < Place /\ Attempt' = Attempt
      BY <1>1, <2>6 DEF PlaceLeft, Place, Attempt
    <3>2. Starting' = Starting
      BY <2>6 DEF PlaceLeft, Starting
    <3> QED
      BY <2>6, <3>1, <3>2 DEF PlaceLeft, TransportLeft, OverflowLeft
  <2> QED
    BY <2>1, <2>2, <2>3, <2>4, <2>5, <2>6, StepUses
<1>4. Lower(<<MaxSteps - step', Starting', TransportLeft', OverflowLeft', Attempt', Place'>>,
            <<MaxSteps - step, Starting, TransportLeft, OverflowLeft, Attempt, Place>>)
  BY <1>3, Lexicographic
<1> QED
  BY <1>4 DEF Rank, Starting, TransportLeft, OverflowLeft

\* Every turn ends: each step of the loop, whatever fails, is retried, recovered or
\* continued, lowers the rank in the lexicographic order, and the rank is made of
\* natural numbers, so a turn has no endless run of steps.
THEOREM TurnsEnd ==
  AgentSpec => EveryStepNearsTheEnd /\ [](\A i \in DOMAIN Rank : Rank[i] \in Nat)
<1>1. CountersInv /\ CountersInv' /\ [AgentNext]_vars
        => [stopped' = stopped => Lower(Rank', Rank)]_vars
  <2> SUFFICES ASSUME CountersInv, CountersInv', AgentNext, stopped' = stopped, vars' # vars
               PROVE  Lower(Rank', Rank)
    OBVIOUS
  <2>1. Loop
    <3>1. ~Stop
      BY DEF Stop
    <3>2. ~Over
      BY DEF Over
    <3> QED
      BY <3>1, <3>2 DEF AgentNext
  <2> QED
    BY <2>1, LoopNearsTheEnd
<1>2. CountersInv => \A i \in DOMAIN Rank : Rank[i] \in Nat
  <2> SUFFICES ASSUME CountersInv PROVE \A i \in DOMAIN Rank : Rank[i] \in Nat
    OBVIOUS
  <2>1. Rank = <<MaxSteps - step, Starting, TransportLeft, OverflowLeft, Attempt, Place>>
    BY DEF Rank, Starting, TransportLeft, OverflowLeft
  <2> QED
    BY <2>1, RankTypes
<1> QED
  BY <1>1, <1>2, CountersAlways, PTL DEF AgentSpec, EveryStepNearsTheEnd

-----------------------------------------------------------------------------
(* Every request is acceptable *)

\* The messages are a conversation, and the place that the summary tool has asked
\* to cut at is one of them until the calls of the response are through.
ConversationInv ==
    /\ msgs \in Seq(Messages)
    /\ pending # None => pc \in InTools \cup {"ended"} /\ pending \in 1 .. Len(msgs)

LEMMA AppendMessage ==
  ASSUME NEW m \in Messages, ConversationInv
  PROVE  Append(msgs, m) \in Seq(Messages) /\ Len(Append(msgs, m)) = Len(msgs) + 1
         /\ Len(msgs) \in Nat
BY ListFacts DEF ConversationInv

LEMMA ConversationStart == AgentInit => ConversationInv
<1> SUFFICES ASSUME AgentInit PROVE ConversationInv
  OBVIOUS
<1>1. History \in Seq(Messages) /\ UserPrompt(TypedPrompt) \in Messages
  BY AgentTurnAssumption, MessageTypes DEF TypedPrompt, Replayed
<1>2. Append(History, UserPrompt(TypedPrompt)) \in Seq(Messages)
  BY <1>1
<1> QED
  BY <1>2 DEF AgentInit, ConversationInv

LEMMA ConversationStep ==
  ASSUME CountersInv, ConversationInv, [AgentNext]_vars PROVE ConversationInv'
<1> USE DEF loop, End, InTools
<1>0. msgs \in Seq(Messages)
  BY DEF ConversationInv
<1>1. CASE StartStep
  BY <1>1 DEF StartStep, ConversationInv
<1>2. CASE Prepare
  <2>1. msgs' = msgs \/ msgs' = Compacted(msgs, KeepRounds)
    BY <1>2 DEF Prepare
  <2>2. msgs' \in Seq(Messages)
    BY <1>0, <2>1, CompactedTypes, Bounds
  <2> QED
    BY <1>2, <2>2 DEF Prepare, ConversationInv
<1>3. CASE Answer
  <2>1. PICK r \in Replies[step] : \E calls \in Seq(Nat) :
               /\ r.text \in BOOLEAN
               /\ msgs' = Append(msgs, Assistant(r.text, calls))
               /\ pc = "request" /\ pending' = pending
    BY <1>3, AnswerTypes
  <2>2. PICK calls \in Seq(Nat) :
               /\ r.text \in BOOLEAN
               /\ msgs' = Append(msgs, Assistant(r.text, calls))
               /\ pc = "request" /\ pending' = pending
    BY <2>1
  <2>3. msgs' \in Seq(Messages)
    BY <1>0, <2>2, MessageTypes, AppendMessage
  <2> QED
    BY <2>2, <2>3 DEF ConversationInv
<1>4. CASE RequestCancelled \/ RequestFails
  <2>1. Assistant(TRUE, <<>>) \in Messages
    <3>1. <<>> \in Seq(Nat) /\ TRUE \in BOOLEAN
      OBVIOUS
    <3> QED
      BY <3>1, MessageTypes
  <2>2. msgs' \in Seq(Messages)
    BY <1>0, <1>4, <2>1, AppendMessage DEF RequestCancelled, RequestFails
  <2> QED
    BY <1>4, <2>2 DEF RequestCancelled, RequestFails, ConversationInv
<1>5. CASE TransportRetry
  BY <1>5 DEF TransportRetry, ConversationInv
<1>6. CASE ToolIdUnknown
  <2>1. msgs' \in Seq(Messages) /\ pc = "request" /\ pending' = pending
    BY <1>6, MessageTypes, AppendMessage DEF ToolIdUnknown
  <2> QED
    BY <2>1 DEF ConversationInv
<1>7. CASE Overflow
  <2>1. pc = "request" /\ pending' = pending
    BY <1>7 DEF Overflow
  <2>2. \/ msgs' = msgs
        \/ msgs' = Compacted(msgs, 1)
        \/ \E n \in {k \in DOMAIN msgs : k >= KeepLatest} \cup {Len(msgs)} :
              msgs' = Sanitized(Trimmed(msgs, n))
    BY <1>7 DEF Overflow
  <2>3. CASE msgs' = msgs \/ msgs' = Compacted(msgs, 1)
    BY <1>0, <2>1, <2>3, CompactedTypes DEF ConversationInv
  <2>4. CASE \E n \in {k \in DOMAIN msgs : k >= KeepLatest} \cup {Len(msgs)} :
               msgs' = Sanitized(Trimmed(msgs, n))
    <3>1. PICK n \in {k \in DOMAIN msgs : k >= KeepLatest} \cup {Len(msgs)} :
             msgs' = Sanitized(Trimmed(msgs, n))
      BY <2>4
    <3>2. n \in Nat
      BY <1>0, ListFacts
    <3>3. msgs' \in Seq(Messages)
      BY <1>0, <3>1, <3>2, TrimmedTypes, SanitizedLayout
    <3> QED
      BY <2>1, <3>3 DEF ConversationInv
  <2> QED
    BY <2>2, <2>3, <2>4
<1>8. CASE NextTool \/ ToolAllowed \/ ToolStarts
  BY <1>8 DEF NextTool, ToolAllowed, ToolStarts, ConversationInv
<1>9. CASE ToolBlocked \/ ToolEnds
  <2>1. pc \in {"hook", "running"} /\ pc' = "tools" /\ msgs' = Append(msgs, ToolResult(Head(todo)))
    BY <1>9 DEF ToolBlocked, ToolEnds
  <2>2. ToolResult(Head(todo)) \in Messages
    BY <2>1, TailTypes, MessageTypes DEF CountersInv
  <2>3. msgs' \in Seq(Messages) /\ Len(msgs') = Len(msgs) + 1 /\ Len(msgs) \in Nat
    BY <2>1, <2>2, AppendMessage
  <2>4. pending' = pending \/ pending' \in DOMAIN msgs
    BY <1>9 DEF ToolBlocked, ToolEnds
  <2>5. DOMAIN msgs = 1 .. Len(msgs)
    BY <1>0, ListFacts
  <2>6. pending' # None => pending' \in 1 .. Len(msgs)
    BY <2>4, <2>5 DEF ConversationInv
  <2> QED
    BY <2>1, <2>3, <2>6 DEF ConversationInv
<1>10. CASE ToolsEnd
  <2>1. /\ pending' = None
        /\ msgs' = IF pending = None THEN msgs ELSE SummaryApplied(msgs, pending, KeepRecent)
    BY <1>10 DEF ToolsEnd
  <2>2. msgs' \in Seq(Messages)
    BY <1>0, <2>1, SummaryTypes, Bounds DEF ConversationInv
  <2> QED
    BY <2>1, <2>2 DEF ConversationInv
<1>11. CASE Insert
  <2>1. pc = "insert" /\ pending' = pending
        /\ (msgs' = msgs \/ msgs' = Append(msgs, UserPrompt(InsertedPrompt)))
    BY <1>11 DEF Insert
  <2>2. UserPrompt(InsertedPrompt) \in Messages
    BY MessageTypes DEF InsertedPrompt
  <2>3. msgs' \in Seq(Messages)
    BY <1>0, <2>1, <2>2, AppendMessage
  <2> QED
    BY <2>1, <2>3 DEF ConversationInv
<1>12. CASE RecoverFromMaxTokens
  <2>1. pc = "finish" /\ pending' = pending
    BY <1>12 DEF RecoverFromMaxTokens
  <2>2. PICK ms \in RecoveredHistories(ToolHistoryCompacted(msgs, CompactTail), RecoveryTail) :
           msgs' = ms \/ msgs' = Append(ms, InternalUser)
    BY <1>12 DEF RecoverFromMaxTokens
  <2>3. ms \in Seq(Messages)
    BY <1>0, ToolHistoryCompactedTypes, RecoveredTypes, Bounds
  <2>4. msgs' \in Seq(Messages)
    BY <2>2, <2>3, MessageTypes, AppendProperties
  <2> QED
    BY <2>1, <2>4 DEF ConversationInv
<1>13. CASE AskToContinue
  <2>1. pc = "finish" /\ pending' = pending /\ (msgs' = msgs \/ msgs' = Append(msgs, Plain))
    BY <1>13 DEF AskToContinue
  <2>2. msgs' \in Seq(Messages)
    BY <1>0, <2>1, MessageTypes, AppendMessage
  <2> QED
    BY <2>1, <2>2 DEF ConversationInv
<1>14. CASE FinishStep
  BY <1>14 DEF FinishStep, ConversationInv
<1>15. CASE Stop
  BY <1>15 DEF Stop, ConversationInv
<1>16. CASE UNCHANGED vars
  BY <1>16 DEF vars, ConversationInv
<1> QED
  BY <1>1, <1>2, <1>3, <1>4, <1>5, <1>6, <1>7, <1>8, <1>9, <1>10, <1>11, <1>12, <1>13, <1>14,
     <1>15, <1>16 DEF AgentNext, Loop, Request, Tools, Over

\* However the conversation was compacted, trimmed, recovered, summarised or cut to
\* the budget, the provider accepts every request: each result follows its call,
\* and each call has its results.
THEOREM EveryRequestIsAcceptable == AgentSpec => []PayloadIsReplaySafe
<1>1. ConversationInv => PayloadIsReplaySafe
  <2> SUFFICES ASSUME ConversationInv, NEW n \in 1 .. Len(msgs)
               PROVE  ReplaySafe(Payload(msgs, n))
    BY DEF PayloadIsReplaySafe
  <2>1. msgs \in Seq(Messages) /\ n \in Nat
    BY ListFacts DEF ConversationInv
  <2> QED
    BY <2>1, PayloadsAreSafe
<1> QED
  BY <1>1, CountersAlways, ConversationStart, ConversationStep, PTL DEF AgentSpec

-----------------------------------------------------------------------------
(* Bundles that are kept together *)

LEMMA PlacesAscend ==
  ASSUME NEW out, NEW ms \in Seq(Messages), NEW kept, NEW at, Places(out, ms, kept, at),
         NEW i \in 1 .. Len(ms) + 1, NEW j \in i .. Len(ms) + 1
  PROVE  at[i] <= at[j]
<1> DEFINE n == j - i
           T == {k \in 0 .. n : at[i] <= at[i + k]}
<1>1. Len(ms) \in Nat /\ n \in Nat /\ i \in Nat /\ j = i + n /\ i > 0
  BY ListFacts
<1>2. ASSUME NEW k \in 1 .. n, \A l \in 1 .. k - 1 : l \in T PROVE k \in T
  <2>1. at[i] <= at[i + (k - 1)]
    <3>1. at[i] \in Nat
      BY DEF Places
    <3>2. CASE k = 1
      BY <1>1, <3>1, <3>2
    <3>3. CASE k > 1
      BY <1>2, <3>3
    <3> QED
      BY <3>2, <3>3
  <2>2. i + (k - 1) \in 1 .. Len(ms) /\ (i + (k - 1)) + 1 = i + k
    BY <1>1
  <2>3. at[i + k] \in {at[i + (k - 1)], at[i + (k - 1)] + 1} /\ at[i + (k - 1)] \in Nat /\ at[i] \in Nat
    <3> DEFINE l == i + (k - 1)
    <3>1. l \in 1 .. Len(ms) /\ l \in 1 .. Len(ms) + 1 /\ l + 1 = i + k
      BY <1>1, <2>2
    <3> HIDE DEF l
    <3>2. at[l + 1] = (IF l \in kept THEN at[l] + 1 ELSE at[l]) /\ at[l] \in Nat /\ at[i] \in Nat
      BY <3>1 DEF Places
    <3> QED
      BY <3>1, <3>2 DEF l
  <2> QED
    BY <2>1, <2>3
<1>3. CASE n = 0
  BY <1>1, <1>3 DEF Places
<1>4. CASE n > 0
  <2> HIDE DEF T, n
  <2>1. \A k \in 1 .. n : k \in T
    BY <1>1, <1>2, Upto
  <2>2. n \in T
    BY <1>1, <1>4, <2>1
  <2> QED
    BY <1>1, <2>2 DEF T
<1> QED
  BY <1>1, <1>3, <1>4

\* Messages that are kept one after another stay next to each other.
LEMMA PlacesRun ==
  ASSUME NEW out, NEW ms \in Seq(Messages), NEW kept, NEW at, Places(out, ms, kept, at),
         NEW i \in 1 .. Len(ms), NEW j \in i .. Len(ms), i .. j \subseteq kept
  PROVE  at[j] = at[i] + (j - i) /\ (at[i] + 1) + (j - i) \in 1 .. Len(out)
         /\ out[(at[i] + 1) + (j - i)] = ms[j]
<1> DEFINE n == j - i
<1>0. n \in Nat /\ i + n = j /\ i + n <= Len(ms) /\ \A k \in 0 .. n : i + k \in kept
  BY ListFacts
<1> HIDE DEF n
<1> DEFINE T == {k \in 0 .. n : at[i + k] = at[i] + k}
<1>1. Len(ms) \in Nat /\ i \in Nat /\ i > 0 /\ at[i] \in Nat
  BY ListFacts DEF Places
<1>2. ASSUME NEW k \in 1 .. n, \A l \in 1 .. k - 1 : l \in T PROVE k \in T
  <2>1. at[i + (k - 1)] = at[i] + (k - 1)
    <3>1. CASE k = 1
      BY <1>1, <3>1
    <3>2. CASE k > 1
      BY <1>2, <3>2
    <3> QED
      BY <3>1, <3>2
  <2>2. i + (k - 1) \in 1 .. Len(ms) /\ (i + (k - 1)) + 1 = i + k /\ i + (k - 1) \in kept
    <3>1. k - 1 \in 0 .. n
      BY <1>0, <1>1
    <3> QED
      BY <1>0, <1>1, <3>1
  <2>3. at[i + k] = at[i + (k - 1)] + 1
    BY <2>2 DEF Places
  <2> QED
    BY <1>1, <2>1, <2>3
<1>3. \A k \in 0 .. n : at[i + k] = at[i] + k
  <2>1. \A k \in 1 .. n : k \in T
    <3> HIDE DEF T
    <3> QED
      BY <1>0, <1>2, Upto
  <2> QED
    BY <1>0, <1>1, <2>1
<1>4. ASSUME NEW k \in 0 .. n
      PROVE  (at[i] + 1) + k \in 1 .. Len(out) /\ out[(at[i] + 1) + k] = ms[i + k]
  <2>1. i + k \in kept
    BY <1>0
  <2>2. i + k \in 1 .. Len(ms)
    BY <1>0, <1>1
  <2>3. at[i + k] + 1 \in 1 .. Len(out) /\ out[at[i + k] + 1] = ms[i + k]
    BY <2>1, <2>2 DEF Places
  <2>4. at[i + k] + 1 = (at[i] + 1) + k
    BY <1>1, <1>3
  <2> QED
    BY <2>3, <2>4
<1>5. n \in 0 .. n /\ n = j - i
  BY <1>0 DEF n
<1> QED
  BY <1>0, <1>3, <1>4, <1>5

\* A bundle that is copied as a whole is a bundle.
LEMMA BundleCopied ==
  ASSUME NEW ms \in Seq(Messages), NEW out \in Seq(Messages),
         NEW o \in 1 .. Len(ms), NEW q \in 1 .. Len(out), ValidBundle(ms, o),
         q + Len(ms[o].calls) <= Len(out),
         \A k \in 0 .. Len(ms[o].calls) : out[q + k] = ms[o + k]
  PROVE  ValidBundle(out, q)
<1> DEFINE n == Len(ms[o].calls)
<1>1. n \in Nat /\ DOMAIN ms[o].calls = 1 .. n /\ o \in Nat /\ q \in Nat
  BY ListFacts
<1>2. out[q] = ms[o]
  <2>1. 0 \in 0 .. n /\ q + 0 = q /\ o + 0 = o
    BY <1>1
  <2> QED
    BY <2>1
<1>3. \A k \in 1 .. n : out[q + k] = ms[o + k] /\ ms[o + k].role = "tool"
  BY <1>1, BundleResults
<1>4. n <= Following(out, q)
  <2>1. q + n <= Len(out) /\ \A k \in 1 .. n : out[q + k].role = "tool"
    BY <1>3
  <2> HIDE DEF n
  <2> QED
    BY <1>1, <2>1, FollowingCounts
<1>5. {out[q + k].ref : k \in 1 .. n} = {ms[o + k].ref : k \in 1 .. n}
  BY <1>3
<1>6. HasCalls(ms[o]) /\ IsInjective(ms[o].calls)
      /\ {ms[o + k].ref : k \in DOMAIN ms[o].calls} = ToSet(ms[o].calls)
  BY DEF ValidBundle
<1> QED
  BY <1>1, <1>2, <1>4, <1>5, <1>6 DEF ValidBundle

\* The sanitiser only puts the results of a conversation that is replay-safe into
\* the order of their calls.
LEMMA SanitizedSafe ==
  ASSUME NEW ms \in Seq(Messages), ReplaySafe(ms)
  PROVE  /\ Len(Sanitized(ms)) = Len(ms)
         /\ \A i \in 1 .. Len(ms) :
               /\ ms[i].role # "tool" => Sanitized(ms)[i] = ms[i]
               /\ ms[i].role = "tool" =>
                    Sanitized(ms)[i] = ToolResult(ms[Owner(ms, i)].calls[i - Owner(ms, i)])
<1> DEFINE out == Sanitized(ms)
           s == [i \in DOMAIN ms |-> Repaired(ms, i)]
<1>1. Len(ms) \in Nat /\ DOMAIN ms = 1 .. Len(ms)
  BY ListFacts
<1>2. PICK at : Layout(out, s, at)
  BY SanitizedLayout
<1>3. ASSUME NEW i \in 1 .. Len(ms)
      PROVE  /\ s[i] = Repaired(ms, i) /\ Len(s[i]) = 1
             /\ ms[i].role # "tool" => s[i][1] = ms[i]
             /\ ms[i].role = "tool" =>
                  s[i][1] = ToolResult(ms[Owner(ms, i)].calls[i - Owner(ms, i)])
  <2>1. ms[i].role = "tool" => InBundle(ms, i)
    BY <1>1 DEF ReplaySafe
  <2>2. HasCalls(ms[i]) => ValidBundle(ms, i)
    BY <1>1 DEF ReplaySafe
  <2>3. ms[i].role = "tool" =>
          Repaired(ms, i) = <<ToolResult(ms[Owner(ms, i)].calls[i - Owner(ms, i)])>>
    BY <2>1, RepairedTypes
  <2>4. ms[i].role # "tool" => Repaired(ms, i) = <<ms[i]>>
    BY <2>2, RepairedTypes
  <2> QED
    BY <1>1, <2>3, <2>4
<1>4. Len(s) = Len(ms)
  BY <1>1
<1> HIDE DEF s, out
<1> DEFINE T == {i \in 1 .. Len(ms) : at[i] = i - 1}
<1>5. /\ at[1] = 0 /\ at[Len(ms) + 1] = Len(out)
      /\ \A i \in 1 .. Len(ms) : at[i + 1] = at[i] + 1 /\ out[at[i] + 1] = s[i][1]
  <2>1. \A i \in 1 .. Len(ms) : /\ at[i + 1] = at[i] + Len(s[i])
                                /\ \A k \in 1 .. Len(s[i]) : out[at[i] + k] = s[i][k]
    BY <1>2, <1>4 DEF Layout
  <2>2. ASSUME NEW i \in 1 .. Len(ms) PROVE at[i + 1] = at[i] + 1 /\ out[at[i] + 1] = s[i][1]
    <3>1. 1 \in 1 .. Len(s[i]) /\ Len(s[i]) = 1
      BY <1>3
    <3> QED
      BY <2>1, <3>1
  <2> QED
    BY <1>2, <1>4, <2>2 DEF Layout
<1>6. ASSUME NEW i \in 1 .. Len(ms), \A j \in 1 .. i - 1 : j \in T PROVE i \in T
  <2>1. CASE i = 1
    BY <1>5, <2>1
  <2>2. CASE i > 1
    <3>1. i - 1 \in 1 .. Len(ms) /\ (i - 1) + 1 = i /\ i - 1 \in T
      BY <1>1, <1>6, <2>2
    <3>2. at[i] = at[i - 1] + 1
      BY <1>5, <3>1
    <3> QED
      BY <3>1, <3>2
  <2> QED
    BY <2>1, <2>2
<1>7. \A i \in 1 .. Len(ms) : at[i] = i - 1
  <2>1. \A i \in 1 .. Len(ms) : i \in T
    <3> HIDE DEF T
    <3> QED
      BY <1>1, <1>6, Upto
  <2> QED
    BY <2>1
<1>8. Len(out) = Len(ms)
  <2>1. CASE Len(ms) = 0
    BY <1>5, <2>1
  <2>2. CASE Len(ms) > 0
    <3>1. Len(ms) \in 1 .. Len(ms)
      BY <1>1, <2>2
    <3>2. at[Len(ms) + 1] = at[Len(ms)] + 1 /\ at[Len(ms)] = Len(ms) - 1
      BY <1>5, <1>7, <3>1
    <3> QED
      BY <1>1, <1>5, <3>2
  <2> QED
    BY <1>1, <2>1, <2>2
<1>9. ASSUME NEW i \in 1 .. Len(ms) PROVE out[i] = s[i][1]
  BY <1>5, <1>7
<1> QED
  BY <1>3, <1>8, <1>9 DEF out

-----------------------------------------------------------------------------
(* What a list of messages says was done *)

\* A message tells what call c did: it is its result, or a compaction that stands
\* for it.
Carries(m, c) == \/ m.role = "tool" /\ m.ref = c
                 \/ m.role = "assistant" /\ c \in m.covers
KnownIn(c, ms) == \E i \in DOMAIN ms : Carries(ms[i], c)

Bad(ms, i) == \/ ms[i].role = "tool" /\ ~InBundle(ms, i)
              \/ HasCalls(ms[i]) /\ ~ValidBundle(ms, i)

LEMMA SanitizedKnows ==
  ASSUME NEW ms \in Seq(Messages), ReplaySafe(ms), NEW c, KnownIn(c, ms)
  PROVE  KnownIn(c, Sanitized(ms))
<1>1. PICK i \in 1 .. Len(ms) : Carries(ms[i], c)
  BY ListFacts DEF KnownIn
<1>2. Sanitized(ms) \in Seq(Messages) /\ Len(Sanitized(ms)) = Len(ms)
      /\ DOMAIN Sanitized(ms) = 1 .. Len(ms) /\ DOMAIN ms = 1 .. Len(ms)
  BY SanitizedLayout, SanitizedSafe, ListFacts
<1>3. CASE ms[i].role # "tool"
  <2>1. Sanitized(ms)[i] = ms[i]
    BY <1>3, SanitizedSafe
  <2> QED
    BY <1>1, <1>2, <2>1 DEF KnownIn
<1>4. CASE ms[i].role = "tool"
  <2>1. ms[i].ref = c
    BY <1>1, <1>4 DEF Carries
  <2>2. InBundle(ms, i)
    BY <1>2, <1>4 DEF ReplaySafe
  <2>3. PICK o \in 1 .. i - 1 : /\ Owner(ms, i) = o /\ o \in 1 .. Len(ms) /\ ValidBundle(ms, o)
                                /\ i - o \in 1 .. Len(ms[o].calls)
    BY <2>2, MembersBundle
  <2> DEFINE calls == ms[o].calls
  <2>4. DOMAIN calls = 1 .. Len(calls) /\ Len(calls) \in Nat
    BY <2>3, ListFacts
  <2>5. {ms[o + k].ref : k \in 1 .. Len(calls)} = {calls[k] : k \in 1 .. Len(calls)}
    BY <2>3, <2>4 DEF ValidBundle, ToSet
  <2>6. o + (i - o) = i
    BY <2>3
  <2>7. c \in {ms[o + k].ref : k \in 1 .. Len(calls)}
    BY <2>1, <2>3, <2>6
  <2>8. PICK k \in 1 .. Len(calls) : c = calls[k]
    BY <2>5, <2>7
  <2>9. o + k \in 1 .. Len(ms) /\ ms[o + k].role = "tool" /\ Owner(ms, o + k) = o
    BY <2>3, BundleMembers
  <2>10. (o + k) - o = k
    BY <2>3, <2>4
  <2>11. Sanitized(ms)[o + k] = ToolResult(c)
    BY <2>8, <2>9, <2>10, SanitizedSafe
  <2>12. Carries(ToolResult(c), c)
    BY Roles DEF Carries
  <2> QED
    BY <1>2, <2>9, <2>11, <2>12 DEF KnownIn
<1> QED
  BY <1>3, <1>4

\* What comes before the first message that is not replay-safe.
LEMMA SafePrefixes ==
  ASSUME NEW ms \in Seq(Messages), NEW n \in 0 .. Len(ms), \A i \in 1 .. n : ~Bad(ms, i)
  PROVE  \E m \in n .. Len(ms) : /\ SafePrefix(ms) = Sanitized(Prefix(ms, m))
                                 /\ ReplaySafe(Prefix(ms, m))
<1> DEFINE bad == {i \in DOMAIN ms : \/ ms[i].role = "tool" /\ ~InBundle(ms, i)
                                     \/ HasCalls(ms[i]) /\ ~ValidBundle(ms, i)}
           m == IF bad = {} THEN Len(ms) ELSE (CHOOSE i \in bad : \A j \in bad : i <= j) - 1
           ps == Prefix(ms, m)
<1>1. DOMAIN ms = 1 .. Len(ms) /\ Len(ms) \in Nat
  BY ListFacts
<1>2. SafePrefix(ms) = Sanitized(ps)
  BY DEF SafePrefix, Prefix
<1>3. bad \in SUBSET Nat /\ \A i \in 1 .. Len(ms) : i \in bad <=> Bad(ms, i)
  BY <1>1 DEF Bad
<1>4. m \in n .. Len(ms) /\ (\A i \in 1 .. m : ~Bad(ms, i)) /\ (m < Len(ms) => Bad(ms, m + 1))
  <2>1. CASE bad = {}
    BY <1>1, <1>3, <2>1
  <2>2. CASE bad # {}
    <3>1. \E i \in bad : \A j \in bad : i <= j
      <4> HIDE DEF bad
      <4> QED
        BY <1>3, <2>2, Least
    <3>2. PICK f \in bad : (\A j \in bad : f <= j) /\ m = f - 1
      BY <2>2, <3>1
    <3>3. f \in 1 .. Len(ms) /\ Bad(ms, f) /\ \A i \in 1 .. f - 1 : ~Bad(ms, i)
      <4>1. f \in 1 .. Len(ms)
        BY <1>1
      <4> HIDE DEF bad
      <4> QED
        BY <1>1, <1>3, <3>2, <4>1
    <3>4. f > n
      BY <3>3
    <3> HIDE DEF bad, m
    <3> QED
      BY <1>1, <3>2, <3>3, <3>4
  <2> QED
    BY <2>1, <2>2
<1> HIDE DEF bad, m, ps
<1>5. m \in 0 .. Len(ms) /\ m \in Nat
  BY <1>1, <1>4
<1>6. ps \in Seq(Messages) /\ Len(ps) = m /\ \A i \in 1 .. m : ps[i] = ms[i]
  BY <1>5, PrefixTypes DEF ps
\* A bundle that begins in the prefix ends there.
<1>7. ASSUME NEW o \in 1 .. m, ValidBundle(ms, o) PROVE o + Len(ms[o].calls) <= m
  <2> DEFINE len == Len(ms[o].calls)
  <2>1. o \in 1 .. Len(ms)
    BY <1>1, <1>4
  <2>2. o + len <= Len(ms) /\ len \in Nat
    BY <1>7, <2>1, BundleResults, ListFacts
  <2>3. ASSUME o + len > m PROVE FALSE
    <3> DEFINE k == (m + 1) - o
    <3>1. k \in 1 .. len /\ m < Len(ms) /\ o + k = m + 1
      BY <1>1, <1>5, <2>1, <2>2, <2>3
    <3> HIDE DEF k
    <3>2. ms[o + k].role = "tool" /\ InBundle(ms, o + k)
      BY <1>7, <2>1, <3>1, BundleMembers
    <3> QED
      BY <1>4, <3>1, <3>2 DEF Bad, HasCalls
  <2> QED
    BY <1>5, <2>2, <2>3
<1>8. ASSUME NEW o \in 1 .. m, ValidBundle(ms, o) PROVE ValidBundle(ps, o)
  <2>1. o \in 1 .. Len(ms) /\ o \in 1 .. Len(ps) /\ o + Len(ms[o].calls) <= Len(ps)
    BY <1>1, <1>4, <1>6, <1>7, <1>8
  <2>2. Len(ms[o].calls) \in Nat
    BY <2>1, ListFacts
  <2>3. ASSUME NEW k \in 0 .. Len(ms[o].calls) PROVE ps[o + k] = ms[o + k]
    <3>1. o + k \in 1 .. m
      BY <1>6, <2>1, <2>2
    <3> QED
      BY <1>6, <3>1
  <2> QED
    BY <1>6, <1>8, <2>1, <2>3, BundleCopied
<1>9. ASSUME NEW i \in 1 .. m
      PROVE  (ps[i].role = "tool" => InBundle(ps, i)) /\ (HasCalls(ps[i]) => ValidBundle(ps, i))
  <2>1. ps[i] = ms[i] /\ i \in 1 .. Len(ms) /\ ~Bad(ms, i)
    BY <1>1, <1>4, <1>6
  <2>2. HasCalls(ps[i]) => ValidBundle(ps, i)
    BY <1>8, <2>1 DEF Bad
  <2>3. ASSUME ps[i].role = "tool" PROVE InBundle(ps, i)
    <3>1. InBundle(ms, i)
      BY <2>1, <2>3 DEF Bad
    <3>2. PICK o \in 1 .. i - 1 : /\ o \in 1 .. Len(ms) /\ ValidBundle(ms, o)
                                  /\ i - o \in 1 .. Len(ms[o].calls)
      BY <2>1, <3>1, MembersBundle
    <3>3. o \in 1 .. m /\ o \in 1 .. Len(ps) /\ o + (i - o) = i
      BY <1>5, <1>6, <3>2
    <3>4. ValidBundle(ps, o) /\ ps[o] = ms[o]
      BY <1>6, <1>8, <3>2, <3>3
    <3> QED
      BY <1>6, <3>2, <3>3, <3>4, BundleMembers
  <2> QED
    BY <2>2, <2>3
<1>10. ReplaySafe(ps)
  BY <1>6, <1>9, ListFacts DEF ReplaySafe
<1> QED
  BY <1>2, <1>4, <1>10 DEF ps

-----------------------------------------------------------------------------
(* The messages of the turn *)

\* The messages before o are whole bundles and others without calls; results have
\* no checkpoint ids, and results and calls are committed.
Sound(ms, o) ==
    \A i \in 1 .. o - 1 :
        /\ ms[i].role = "tool" => InBundle(ms, i) /\ ~ms[i].ckpt /\ IsCommitted(ms[i])
        /\ HasCalls(ms[i]) => /\ ValidBundle(ms, i) /\ i + Len(ms[i].calls) < o
                              /\ IsCommitted(ms[i])

\* The turn begins before o.
Begun(ms, o) == \E i \in 1 .. o - 1 : ms[i].ckpt

\* Positions of the messages that are committed.
Kept(ms) == {i \in DOMAIN ms : i >= TurnStart(ms, Len(History)) /\ IsCommitted(ms[i])}

\* A message of the turn before o tells what call c did.
Held(c, ms, o) == \E i \in Kept(ms) : i < o /\ Carries(ms[i], c)

LEMMA TurnStarts ==
  ASSUME NEW ms \in Seq(Messages), NEW o \in 1 .. Len(ms) + 1, Begun(ms, o), NEW baseline
  PROVE  /\ TurnStart(ms, baseline) \in 1 .. o - 1
         /\ ms[TurnStart(ms, baseline)].ckpt
         /\ \A j \in 1 .. TurnStart(ms, baseline) - 1 : ~ms[j].ckpt
<1> DEFINE own == {i \in DOMAIN ms : ms[i].ckpt}
<1>1. DOMAIN ms = 1 .. Len(ms) /\ Len(ms) \in Nat
  BY ListFacts
<1>2. PICK b \in 1 .. o - 1 : ms[b].ckpt
  BY DEF Begun
<1>3. b \in own /\ own \in SUBSET Nat
  BY <1>1, <1>2
<1>4. \E i \in own : \A j \in own : i <= j
  <2> HIDE DEF own
  <2> QED
    BY <1>3, Least
<1>5. PICK f \in own : (\A j \in own : f <= j) /\ TurnStart(ms, baseline) = f
  BY <1>3, <1>4 DEF TurnStart
<1>6. f \in 1 .. Len(ms) /\ ms[f].ckpt /\ f <= b
  BY <1>1, <1>3, <1>5
<1>7. ASSUME NEW j \in 1 .. f - 1 PROVE ~ms[j].ckpt
  BY <1>1, <1>5, <1>6
<1> QED
  BY <1>2, <1>5, <1>6, <1>7

\* A bundle is committed as a whole, or not at all.
LEMMA BundleKept ==
  ASSUME NEW ms \in Seq(Messages), NEW o \in 1 .. Len(ms) + 1, Sound(ms, o), Begun(ms, o),
         NEW p \in 1 .. Len(ms), ValidBundle(ms, p), p + Len(ms[p].calls) < o,
         NEW i \in 0 .. Len(ms[p].calls), p + i \in Kept(ms)
  PROVE  \A k \in 0 .. Len(ms[p].calls) : p + k \in Kept(ms)
<1> DEFINE first == TurnStart(ms, Len(History))
           n == Len(ms[p].calls)
<1>1. DOMAIN ms = 1 .. Len(ms) /\ Len(ms) \in Nat /\ n \in Nat
  BY ListFacts
<1>2. first \in 1 .. o - 1 /\ ms[first].ckpt
  BY TurnStarts
<1>3. HasCalls(ms[p]) /\ p + n <= Len(ms) /\ \A k \in 1 .. n : ms[p + k].role = "tool"
  BY BundleResults
<1>4. i \in 0 .. n /\ p + i \in Kept(ms) /\ p + n < o
  OBVIOUS
<1> HIDE DEF n
<1>5. ASSUME NEW k \in 1 .. n PROVE ~ms[p + k].ckpt /\ IsCommitted(ms[p + k])
  <2>1. p + k \in 1 .. o - 1 /\ ms[p + k].role = "tool"
    BY <1>1, <1>3, <1>4
  <2> QED
    BY <2>1 DEF Sound
<1>6. IsCommitted(ms[p])
  <2>1. p \in 1 .. o - 1
    BY <1>1, <1>4
  <2> QED
    BY <1>3, <2>1 DEF Sound
<1>7. p + i >= first
  BY <1>4 DEF Kept
<1> HIDE DEF first
<1>8. p >= first
  <2> SUFFICES ASSUME p < first PROVE FALSE
    BY <1>2
  <2> DEFINE k == first - p
  <2>1. k \in 1 .. n /\ p + k = first
    BY <1>1, <1>2, <1>4, <1>7
  <2> HIDE DEF k
  <2> QED
    BY <1>2, <1>5, <2>1
<1>9. ASSUME NEW k \in 0 .. n PROVE p + k \in Kept(ms)
  <2>1. p + k \in 1 .. Len(ms) /\ p + k >= first
    BY <1>1, <1>2, <1>3, <1>8
  <2>2. IsCommitted(ms[p + k])
    <3>1. CASE k = 0
      BY <1>6, <3>1
    <3>2. CASE k \in 1 .. n
      BY <1>5, <3>2
    <3> QED
      BY <1>1, <3>1, <3>2
  <2> QED
    BY <1>1, <2>1, <2>2 DEF Kept, first
<1> QED
  BY <1>9 DEF n

\* A message of the turn is as safe among the committed ones as it was.
LEMMA KeptIsSafe ==
  ASSUME NEW ms \in Seq(Messages), NEW o \in 1 .. Len(ms) + 1, Sound(ms, o), Begun(ms, o),
         NEW out \in Seq(Messages), NEW at, Places(out, ms, Kept(ms), at),
         NEW i \in Kept(ms), i < o
  PROVE  at[i] + 1 \in 1 .. Len(out) /\ out[at[i] + 1] = ms[i] /\ ~Bad(out, at[i] + 1)
<1>1. DOMAIN ms = 1 .. Len(ms) /\ Len(ms) \in Nat /\ i \in 1 .. Len(ms) /\ i \in 1 .. o - 1
  BY ListFacts DEF Kept
<1>2. at[i] + 1 \in 1 .. Len(out) /\ out[at[i] + 1] = ms[i] /\ at[i] \in Nat
  BY <1>1 DEF Places
\* What the bundles before o become.
<1>3. ASSUME NEW p \in 1 .. Len(ms), ValidBundle(ms, p), p + Len(ms[p].calls) < o,
             NEW j \in 0 .. Len(ms[p].calls), p + j \in Kept(ms)
      PROVE  /\ at[p] + 1 \in 1 .. Len(out) /\ ValidBundle(out, at[p] + 1)
             /\ out[at[p] + 1] = ms[p] /\ at[p + j] = at[p] + j /\ at[p] \in Nat
  <2> DEFINE n == Len(ms[p].calls)
  <2>1. n \in Nat /\ p + n <= Len(ms) /\ p \in Nat
    BY <1>3, BundleResults, ListFacts
  <2>2. \A k \in 0 .. n : p + k \in Kept(ms)
    BY <1>3, BundleKept
  <2>3. j \in 0 .. n
    OBVIOUS
  <2>4. ASSUME NEW k \in 0 .. n
        PROVE  /\ at[p + k] = at[p] + k
               /\ (at[p] + 1) + k \in 1 .. Len(out)
               /\ out[(at[p] + 1) + k] = ms[p + k]
    <3> HIDE DEF n
    <3> DEFINE l == p + k
    <3>1. l \in p .. Len(ms) /\ l - p = k /\ Len(ms) \in Nat
      BY <2>1, ListFacts
    <3>2. ASSUME NEW h \in p .. l PROVE h \in Kept(ms)
      <4>1. h - p \in 0 .. n /\ p + (h - p) = h
        BY <2>1
      <4> QED
        BY <2>2, <4>1
    <3> HIDE DEF l
    <3>3. p .. l \subseteq Kept(ms)
      BY <3>2
    <3>4. at[l] = at[p] + (l - p) /\ (at[p] + 1) + (l - p) \in 1 .. Len(out)
          /\ out[(at[p] + 1) + (l - p)] = ms[l]
      BY <3>1, <3>3, PlacesRun
    <3> QED
      BY <3>1, <3>4 DEF l
  <2>5. 0 \in 0 .. n /\ n \in 0 .. n /\ p + 0 = p
    BY <2>1
  <2>6. at[p] \in Nat /\ Len(out) \in Nat
    BY ListFacts DEF Places
  <2>7. at[p] + 1 \in 1 .. Len(out) /\ out[at[p] + 1] = ms[p] /\ (at[p] + 1) + n <= Len(out)
    <3> HIDE DEF n
    <3>1. at[p] + 1 + 0 \in 1 .. Len(out) /\ out[(at[p] + 1) + 0] = ms[p + 0]
      BY <2>4, <2>5
    <3>2. (at[p] + 1) + n \in 1 .. Len(out)
      BY <2>4, <2>5
    <3>3. (at[p] + 1) + 0 = at[p] + 1
      BY <2>6
    <3> QED
      BY <2>5, <2>6, <3>1, <3>2, <3>3
  <2>8. ValidBundle(out, at[p] + 1)
    BY <1>3, <2>4, <2>7, BundleCopied
  <2> HIDE DEF n
  <2> QED
    BY <2>3, <2>4, <2>6, <2>7, <2>8
<1>4. ASSUME HasCalls(ms[i]) PROVE ValidBundle(out, at[i] + 1)
  <2>1. ValidBundle(ms, i) /\ i + Len(ms[i].calls) < o
    BY <1>1, <1>4 DEF Sound
  <2>2. 0 \in 0 .. Len(ms[i].calls) /\ i + 0 = i
    BY <1>1, ListFacts
  <2> QED
    BY <1>1, <1>3, <2>1, <2>2
<1>5. ASSUME ms[i].role = "tool" PROVE InBundle(out, at[i] + 1)
  <2>1. InBundle(ms, i)
    BY <1>1, <1>5 DEF Sound
  <2>2. PICK p \in 1 .. i - 1 : /\ p \in 1 .. Len(ms) /\ ValidBundle(ms, p)
                                /\ i - p \in 1 .. Len(ms[p].calls)
    BY <1>1, <2>1, MembersBundle
  <2>3. p \in 1 .. o - 1 /\ HasCalls(ms[p])
    BY <1>1, <2>2 DEF ValidBundle
  <2>4. p + Len(ms[p].calls) < o
    BY <2>3 DEF Sound
  <2> DEFINE j == i - p
  <2>5. j \in 0 .. Len(ms[p].calls) /\ j \in 1 .. Len(ms[p].calls) /\ p + j = i
    BY <1>1, <2>2
  <2> HIDE DEF j
  <2>6. /\ at[p] + 1 \in 1 .. Len(out) /\ ValidBundle(out, at[p] + 1)
        /\ out[at[p] + 1] = ms[p] /\ at[i] = at[p] + j /\ at[p] \in Nat
    BY <1>3, <2>2, <2>4, <2>5
  <2>7. InBundle(out, (at[p] + 1) + j)
    BY <2>5, <2>6, BundleMembers
  <2>8. (at[p] + 1) + j = at[i] + 1
    BY <2>5, <2>6, <1>1
  <2> QED
    BY <2>7, <2>8
<1> QED
  BY <1>2, <1>4, <1>5 DEF Bad

\* What a message of the turn tells, the checkpoint tells.
LEMMA CheckpointKnows ==
  ASSUME NEW ms \in Seq(Messages), NEW o \in 1 .. Len(ms) + 1, Sound(ms, o), Begun(ms, o),
         NEW c, Held(c, ms, o)
  PROVE  KnownIn(c, Checkpoint(ms))
<1> DEFINE out == Turn(ms)
<1>1. out = Only(ms, Kept(ms))
  BY DEF Turn, Collected, Kept
<1> HIDE DEF out
<1>2. out \in Seq(Messages) /\ DOMAIN ms = 1 .. Len(ms) /\ Len(ms) \in Nat
      /\ DOMAIN out = 1 .. Len(out) /\ Len(out) \in Nat
  BY <1>1, OnlyLayout, ListFacts
<1>3. PICK at : Places(out, ms, Kept(ms), at)
  BY <1>1, OnlyLayout
<1>4. PICK i \in Kept(ms) : i < o /\ Carries(ms[i], c)
  BY DEF Held
<1>5. i \in 1 .. Len(ms) /\ at[i] + 1 \in 1 .. Len(out) /\ out[at[i] + 1] = ms[i] /\ at[i] \in Nat
  BY <1>2, <1>3, <1>4, KeptIsSafe DEF Kept, Places
<1>6. Progressed(out)
  BY <1>2, <1>4, <1>5 DEF Progressed, Carries
<1>7. at[o] \in Nat /\ at[i] + 1 <= at[o] /\ at[o] <= Len(out)
  <2>1. at[o] \in Nat /\ at[Len(ms) + 1] = Len(out) /\ at[i + 1] = at[i] + 1
    BY <1>3, <1>4, <1>5 DEF Places
  <2>2. i + 1 \in 1 .. Len(ms) + 1 /\ o \in i + 1 .. Len(ms) + 1
        /\ Len(ms) + 1 \in 1 .. Len(ms) + 1 /\ Len(ms) + 1 \in o .. Len(ms) + 1
    BY <1>2, <1>4, <1>5
  <2>3. at[i + 1] <= at[o] /\ at[o] <= at[Len(ms) + 1]
    BY <1>3, <2>2, PlacesAscend
  <2> QED
    BY <2>1, <2>3
<1>8. ASSUME NEW p \in 1 .. at[o] PROVE ~Bad(out, p)
  <2>1. p \in 1 .. Len(out)
    BY <1>2, <1>7
  <2>2. PICK j \in 1 .. Len(ms) : j \in Kept(ms) /\ p = at[j] + 1
    BY <1>3, <2>1 DEF Places
  <2>3. j < o
    <3> SUFFICES ASSUME j >= o PROVE FALSE
      BY <1>2
    <3>1. at[o] <= at[j] /\ at[j] \in Nat
      <4>1. j \in o .. Len(ms) + 1 /\ j \in 1 .. Len(ms) + 1
        BY <1>2
      <4>2. at[o] <= at[j]
        BY <1>3, <4>1, PlacesAscend
      <4>3. at[j] \in Nat
        BY <1>3, <4>1 DEF Places
      <4> QED
        BY <4>2, <4>3
    <3> QED
      BY <1>7, <2>2, <3>1
  <2> QED
    BY <1>2, <1>3, <2>2, <2>3, KeptIsSafe
<1>9. PICK m \in at[o] .. Len(out) : /\ SafePrefix(out) = Sanitized(Prefix(out, m))
                                     /\ ReplaySafe(Prefix(out, m))
  BY <1>2, <1>7, <1>8, SafePrefixes
<1>10. m \in 0 .. Len(out) /\ at[i] + 1 \in 1 .. m
  BY <1>2, <1>5, <1>7
<1>11. Prefix(out, m) \in Seq(Messages) /\ DOMAIN Prefix(out, m) = 1 .. m
       /\ Prefix(out, m)[at[i] + 1] = out[at[i] + 1]
  <2>1. /\ Prefix(out, m) \in Seq(Messages) /\ Len(Prefix(out, m)) = m
        /\ \A l \in 1 .. m : Prefix(out, m)[l] = out[l]
    BY <1>2, <1>10, PrefixTypes
  <2>2. DOMAIN Prefix(out, m) = 1 .. m
    BY <2>1, ListFacts
  <2> QED
    BY <1>10, <2>1, <2>2
<1>12. KnownIn(c, Prefix(out, m))
  BY <1>4, <1>5, <1>10, <1>11 DEF KnownIn
<1>13. KnownIn(c, SafePrefix(out))
  BY <1>9, <1>11, <1>12, SanitizedKnows
<1> QED
  BY <1>6, <1>13 DEF Checkpoint, out

\* The turn begins where it began while the checkpoint ids before o stay.
LEMMA SameStart ==
  ASSUME NEW ms \in Seq(Messages), NEW out \in Seq(Messages),
         NEW o \in 1 .. Len(ms) + 1, o \in 1 .. Len(out) + 1,
         \A i \in 1 .. o - 1 : out[i].ckpt = ms[i].ckpt, Begun(ms, o), NEW baseline
  PROVE  Begun(out, o) /\ TurnStart(out, baseline) = TurnStart(ms, baseline)
<1> DEFINE f == TurnStart(ms, baseline)
           g == TurnStart(out, baseline)
<1>1. Begun(out, o)
  BY DEF Begun
<1>2. f \in 1 .. o - 1 /\ ms[f].ckpt /\ \A j \in 1 .. f - 1 : ~ms[j].ckpt
  BY TurnStarts
<1>3. g \in 1 .. o - 1 /\ out[g].ckpt /\ \A j \in 1 .. g - 1 : ~out[j].ckpt
  BY <1>1, TurnStarts
<1> HIDE DEF f, g
<1>4. ms[g].ckpt /\ out[f].ckpt
  BY <1>2, <1>3
<1>5. ~(f < g) /\ ~(g < f)
  BY <1>2, <1>3, <1>4
<1> QED
  BY <1>1, <1>2, <1>3, <1>5 DEF f, g

\* What is before o depends on nothing else.
LEMMA SoundBelow ==
  ASSUME NEW ms \in Seq(Messages), NEW out \in Seq(Messages),
         NEW o \in 1 .. Len(ms) + 1, o \in 1 .. Len(out) + 1,
         \A i \in 1 .. o - 1 : out[i] = ms[i], Sound(ms, o)
  PROVE  Sound(out, o)
<1>1. DOMAIN ms = 1 .. Len(ms) /\ Len(ms) \in Nat /\ DOMAIN out = 1 .. Len(out) /\ Len(out) \in Nat
  BY ListFacts
<1>2. ASSUME NEW p \in 1 .. o - 1, ValidBundle(ms, p), p + Len(ms[p].calls) < o
      PROVE  ValidBundle(out, p)
  <2> DEFINE n == Len(ms[p].calls)
  <2>1. p \in 1 .. Len(ms) /\ p \in 1 .. Len(out)
    BY <1>1
  <2>2. n \in Nat
    BY <2>1, ListFacts
  <2>3. ASSUME NEW k \in 0 .. n PROVE out[p + k] = ms[p + k]
    <3>1. p + k \in 1 .. o - 1
      BY <1>1, <1>2, <2>2
    <3> QED
      BY <3>1
  <2>4. p + n <= Len(out)
    BY <1>1, <1>2, <2>2
  <2> QED
    BY <1>2, <2>1, <2>3, <2>4, BundleCopied
<1>3. ASSUME NEW i \in 1 .. o - 1, out[i].role = "tool"
      PROVE  InBundle(out, i) /\ ~out[i].ckpt /\ IsCommitted(out[i])
  <2>1. out[i] = ms[i] /\ i \in 1 .. Len(ms) /\ i \in Nat
    BY <1>1
  <2>2. InBundle(ms, i) /\ ~ms[i].ckpt /\ IsCommitted(ms[i])
    BY <1>3, <2>1 DEF Sound
  <2>3. PICK p \in 1 .. i - 1 : /\ p \in 1 .. Len(ms) /\ ValidBundle(ms, p)
                                /\ i - p \in 1 .. Len(ms[p].calls)
    BY <2>1, <2>2, MembersBundle
  <2>4. p \in 1 .. o - 1 /\ p \in 1 .. Len(out) /\ HasCalls(ms[p]) /\ out[p] = ms[p]
    BY <1>1, <2>1, <2>3 DEF ValidBundle
  <2>5. ValidBundle(out, p)
    BY <1>2, <2>3, <2>4 DEF Sound
  <2> DEFINE k == i - p
  <2>6. k \in 1 .. Len(out[p].calls) /\ p + k = i
    BY <2>1, <2>3, <2>4
  <2> HIDE DEF k
  <2>7. InBundle(out, i)
    BY <2>4, <2>5, <2>6, BundleMembers
  <2> QED
    BY <2>1, <2>2, <2>7
<1>4. ASSUME NEW i \in 1 .. o - 1, HasCalls(out[i])
      PROVE  ValidBundle(out, i) /\ i + Len(out[i].calls) < o /\ IsCommitted(out[i])
  <2>1. out[i] = ms[i]
    OBVIOUS
  <2>2. ValidBundle(ms, i) /\ i + Len(ms[i].calls) < o /\ IsCommitted(ms[i])
    BY <1>4, <2>1 DEF Sound
  <2> QED
    BY <1>2, <2>1, <2>2
<1>5. Sound(out, o)
  BY <1>3, <1>4 DEF Sound
<1> QED
  BY <1>5

LEMMA SameBelow ==
  ASSUME NEW ms \in Seq(Messages), NEW out \in Seq(Messages),
         NEW o \in 1 .. Len(ms) + 1, o \in 1 .. Len(out) + 1,
         \A i \in 1 .. o - 1 : out[i] = ms[i], Sound(ms, o), Begun(ms, o)
  PROVE  /\ Sound(out, o) /\ Begun(out, o)
         /\ TurnStart(out, Len(History)) = TurnStart(ms, Len(History))
         /\ \A c : Held(c, ms, o) => Held(c, out, o)
<1>1. DOMAIN ms = 1 .. Len(ms) /\ Len(ms) \in Nat /\ DOMAIN out = 1 .. Len(out) /\ Len(out) \in Nat
  BY ListFacts
<1>2. Begun(out, o) /\ TurnStart(out, Len(History)) = TurnStart(ms, Len(History))
  BY SameStart
<1>3. ASSUME NEW c, Held(c, ms, o) PROVE Held(c, out, o)
  <2>1. PICK i \in Kept(ms) : i < o /\ Carries(ms[i], c)
    BY <1>3 DEF Held
  <2>2. i \in 1 .. o - 1 /\ i \in 1 .. Len(out) /\ out[i] = ms[i]
    BY <1>1, <2>1 DEF Kept
  <2>3. i \in Kept(out)
    BY <1>1, <1>2, <2>1, <2>2 DEF Kept
  <2> QED
    BY <2>1, <2>2, <2>3 DEF Held
<1> QED
  BY <1>2, <1>3, SoundBelow

LEMMA SoundIsSafe ==
  ASSUME NEW ms \in Seq(Messages), Sound(ms, Len(ms) + 1) PROVE ReplaySafe(ms)
<1>1. DOMAIN ms = 1 .. (Len(ms) + 1) - 1
  BY ListFacts
<1> QED
  BY <1>1 DEF Sound, ReplaySafe

LEMMA SafeIsSound ==
  ASSUME NEW ms \in Seq(Messages), ReplaySafe(ms),
         \A i \in 1 .. Len(ms) : /\ ms[i].role = "tool" => ~ms[i].ckpt
                                 /\ ms[i].role = "tool" \/ HasCalls(ms[i]) => IsCommitted(ms[i])
  PROVE  Sound(ms, Len(ms) + 1)
<1>1. DOMAIN ms = 1 .. Len(ms) /\ Len(ms) \in Nat /\ (Len(ms) + 1) - 1 = Len(ms)
  BY ListFacts
<1>2. ASSUME NEW i \in 1 .. Len(ms), HasCalls(ms[i])
      PROVE  ValidBundle(ms, i) /\ i + Len(ms[i].calls) < Len(ms) + 1
  <2>1. ValidBundle(ms, i)
    BY <1>1, <1>2 DEF ReplaySafe
  <2>2. i + Len(ms[i].calls) <= Len(ms) /\ Len(ms[i].calls) \in Nat
    BY <2>1, BundleResults, ListFacts
  <2> QED
    BY <1>1, <2>1, <2>2
<1> QED
  BY <1>1, <1>2 DEF Sound, ReplaySafe

\* The sanitiser keeps the turn where it is, and what it tells.
LEMMA SanitizedHolds ==
  ASSUME NEW ms \in Seq(Messages), Sound(ms, Len(ms) + 1), Begun(ms, Len(ms) + 1)
  PROVE  /\ Sanitized(ms) \in Seq(Messages) /\ Len(Sanitized(ms)) = Len(ms)
         /\ Sound(Sanitized(ms), Len(ms) + 1) /\ Begun(Sanitized(ms), Len(ms) + 1)
         /\ \A c : Held(c, ms, Len(ms) + 1) => Held(c, Sanitized(ms), Len(ms) + 1)
<1> DEFINE out == Sanitized(ms)
           end == Len(ms) + 1
<1>1. ReplaySafe(ms)
  BY SoundIsSafe
<1>2. /\ out \in Seq(Messages) /\ ReplaySafe(out) /\ Len(out) = Len(ms) /\ Len(ms) \in Nat
      /\ DOMAIN ms = 1 .. Len(ms) /\ DOMAIN out = 1 .. Len(ms)
      /\ end \in 1 .. Len(ms) + 1 /\ end - 1 = Len(ms)
  BY <1>1, SanitizedLayout, SanitizedSafe, SanitizedIsReplaySafe, ListFacts
<1>3. ASSUME NEW i \in 1 .. Len(ms)
      PROVE  /\ out[i].role = ms[i].role
             /\ out[i].ckpt = ms[i].ckpt
             /\ ms[i].role = "tool" => ~out[i].ckpt /\ IsCommitted(out[i])
             /\ ms[i].role # "tool" => out[i] = ms[i]
             /\ IsCommitted(ms[i]) => IsCommitted(out[i])
  <2>1. CASE ms[i].role # "tool"
    BY <2>1, <1>1, SanitizedSafe
  <2>2. CASE ms[i].role = "tool"
    <3>1. out[i] = ToolResult(ms[Owner(ms, i)].calls[i - Owner(ms, i)])
      BY <2>2, <1>1, SanitizedSafe
    <3>2. \A c : /\ ToolResult(c).role = "tool" /\ ToolResult(c).ckpt = FALSE
                 /\ IsCommitted(ToolResult(c))
      BY DEF ToolResult, Plain, IsCommitted
    <3>3. ~ms[i].ckpt /\ ms[i].ckpt \in BOOLEAN
      BY <1>2, <2>2, ListFacts DEF Sound, Messages
    <3> HIDE DEF out
    <3> QED
      BY <2>2, <3>1, <3>2, <3>3
  <2> QED
    BY <2>1, <2>2
<1> HIDE DEF out
<1>4. Sound(out, end)
  <2>1. ASSUME NEW i \in 1 .. Len(ms)
        PROVE  /\ out[i].role = "tool" => ~out[i].ckpt
               /\ out[i].role = "tool" \/ HasCalls(out[i]) => IsCommitted(out[i])
    <3>1. HasCalls(out[i]) => out[i] = ms[i]
      BY <1>3 DEF HasCalls
    <3>2. HasCalls(ms[i]) => IsCommitted(ms[i])
      BY <1>2 DEF Sound
    <3> QED
      BY <1>3, <3>1, <3>2
  <2> QED
    BY <1>2, <2>1, SafeIsSound
<1>5. Begun(out, end) /\ TurnStart(out, Len(History)) = TurnStart(ms, Len(History))
  <2>1. \A i \in 1 .. end - 1 : out[i].ckpt = ms[i].ckpt
    BY <1>2, <1>3
  <2>2. end \in 1 .. Len(ms) + 1 /\ end \in 1 .. Len(out) + 1 /\ Begun(ms, end)
    BY <1>2
  <2> HIDE DEF end
  <2> QED
    BY <1>2, <2>1, <2>2, SameStart
<1>6. \A i \in Kept(ms) : i \in Kept(out)
  BY <1>2, <1>3, <1>5 DEF Kept
<1>7. ASSUME NEW c, Held(c, ms, end) PROVE Held(c, out, end)
  <2>1. PICK i \in Kept(ms) : Carries(ms[i], c)
    BY <1>7 DEF Held
  <2>2. i \in 1 .. Len(ms)
    BY <1>2, <2>1 DEF Kept
  <2>3. CASE ms[i].role # "tool"
    BY <1>2, <1>3, <1>6, <2>1, <2>2, <2>3 DEF Held
  <2>4. CASE ms[i].role = "tool"
    <3>1. InBundle(ms, i) /\ ms[i].ref = c
      BY <1>2, <2>1, <2>2, <2>4 DEF Sound, Carries
    <3>2. PICK o \in 1 .. i - 1 : /\ o \in 1 .. Len(ms) /\ ValidBundle(ms, o)
                                  /\ i - o \in 1 .. Len(ms[o].calls)
      BY <2>2, <3>1, MembersBundle
    <3> DEFINE calls == ms[o].calls
               l == i - o
    <3>3. DOMAIN calls = 1 .. Len(calls) /\ Len(calls) \in Nat /\ HasCalls(ms[o])
      BY <3>2, ListFacts DEF ValidBundle
    <3>4. l \in 1 .. Len(calls) /\ l \in 0 .. Len(calls) /\ o + l = i
      BY <2>2, <3>2
    <3>5. o + Len(calls) < end
      BY <1>2, <3>2, <3>3 DEF Sound
    <3> HIDE DEF l
    <3>6. \A k \in 0 .. Len(calls) : o + k \in Kept(ms)
      BY <1>2, <2>1, <3>2, <3>4, <3>5, BundleKept
    <3>7. {ms[o + k].ref : k \in 1 .. Len(calls)} = {calls[k] : k \in 1 .. Len(calls)}
      BY <3>2, <3>3 DEF ValidBundle, ToSet
    <3>8. c \in {ms[o + k].ref : k \in 1 .. Len(calls)}
      BY <3>1, <3>4
    <3>9. PICK k \in 1 .. Len(calls) : c = calls[k]
      BY <3>7, <3>8
    <3>10. o + k \in 1 .. Len(ms) /\ ms[o + k].role = "tool" /\ Owner(ms, o + k) = o
      BY <3>2, BundleMembers
    <3>11. (o + k) - o = k /\ k \in 0 .. Len(calls)
      BY <3>2, <3>3
    <3>12. out[o + k] = ToolResult(c)
      BY <1>1, <3>9, <3>10, <3>11, SanitizedSafe DEF out
    <3>13. Carries(ToolResult(c), c)
      BY Roles DEF Carries
    <3>14. o + k \in Kept(out) /\ o + k < end
      BY <1>2, <1>6, <3>6, <3>10, <3>11
    <3> QED
      BY <3>12, <3>13, <3>14 DEF Held
  <2> QED
    BY <2>3, <2>4
<1> QED
  BY <1>2, <1>4, <1>5, <1>7 DEF out

-----------------------------------------------------------------------------
(* Compactions *)

\* A compaction comes first, and nothing else stands for other messages.
Shaped(ms) ==
    \A i \in DOMAIN ms : /\ ms[i].mark = "summary" =>
                              i = 1 /\ ms[i].role = "assistant" /\ ms[i].calls = <<>>
                         /\ ms[i].covers # {} => ms[i].mark = "summary"

LEMMA FollowingType ==
  ASSUME NEW ms \in Seq(Messages), NEW o \in 1 .. Len(ms) PROVE Following(ms, o) \in Nat
<1> DEFINE F == {j \in o + 1 .. Len(ms) : \A k \in o + 1 .. j : ms[k].role = "tool"}
<1>1. o + 1 \in Int /\ Len(ms) \in Int
  BY ListFacts
<1>2. IsFiniteSet(o + 1 .. Len(ms))
  BY <1>1, FS_Interval
<1>3. F \in SUBSET (o + 1 .. Len(ms))
  OBVIOUS
<1> HIDE DEF F
<1>4. Cardinality(F) \in Nat
  BY <1>2, <1>3, FS_Subset, FS_CardinalityType
<1> QED
  BY <1>4 DEF Following, F

\* The newest rounds begin behind a bundle.
LEMMA TailBoundary ==
  ASSUME NEW ms \in Seq(Messages), NEW n \in Nat, TailStart(ms, n) \in 2 .. Len(ms)
  PROVE  ms[TailStart(ms, n)].role # "tool"
<1> DEFINE ends == RoundEnds(ms)
           older == {e \in ends : Cardinality({f \in ends : f > e}) >= n}
           start == TailStart(ms, n)
<1>1. DOMAIN ms = 1 .. Len(ms) /\ Len(ms) \in Nat
  BY ListFacts
<1>2. ends \in SUBSET (1 .. Len(ms))
  BY <1>1 DEF RoundEnds
<1>3. start = IF older = {} THEN 1 ELSE 1 + CHOOSE e \in older : \A f \in older : f <= e
  BY DEF TailStart
<1> HIDE DEF ends
<1>4. older # {} /\ older \in SUBSET (0 .. Len(ms))
  <2>1. older \in SUBSET (0 .. Len(ms))
    <3>1. older \in SUBSET ends
      OBVIOUS
    <3>2. \A i \in 1 .. Len(ms) : i \in 0 .. Len(ms)
      BY <1>1
    <3> HIDE DEF older
    <3> QED
      BY <1>2, <3>1, <3>2, Zenon
  <2>2. start # 1
    BY <1>1
  <2> HIDE DEF older, start
  <2> QED
    BY <1>3, <2>1, <2>2
<1>5. \E e \in older : \A f \in older : f <= e
  <2> HIDE DEF older
  <2> QED
    BY <1>1, <1>4, Latest
<1>6. PICK e \in older : start = 1 + e
  <2> HIDE DEF older, start
  <2> QED
    BY <1>3, <1>4, <1>5
<1>7. e \in ends
  OBVIOUS
<1>8. PICK a \in 1 .. e : e = a + Following(ms, a)
  BY <1>7 DEF ends, RoundEnds
<1> DEFINE n1 == Following(ms, a)
<1>9. a \in 1 .. Len(ms) /\ n1 \in Nat /\ e \in 1 .. Len(ms)
  <2>1. e \in 1 .. Len(ms) /\ a \in 1 .. Len(ms)
    BY <1>1, <1>2, <1>7
  <2> QED
    BY <2>1, FollowingType
<1>10. n1 <= Following(ms, a) /\ ~(n1 + 1 <= Following(ms, a)) /\ n1 + 1 \in Nat
  BY <1>9
<1> HIDE DEF start, older
<1> SUFFICES ASSUME ms[start].role = "tool" PROVE FALSE
  BY DEF start
<1>11. start = a + (n1 + 1) /\ start <= Len(ms) /\ start \in Nat
  BY <1>1, <1>6, <1>8, <1>9 DEF start
<1> HIDE DEF n1
<1>12. \A k \in 1 .. n1 : ms[a + k].role = "tool"
  BY <1>9, <1>10, FollowingCounts
<1>13. \A k \in 1 .. n1 + 1 : ms[a + k].role = "tool"
  <2> TAKE k \in 1 .. n1 + 1
  <2>1. CASE k = n1 + 1
    BY <1>11, <2>1
  <2>2. CASE k # n1 + 1
    <3>1. k \in 1 .. n1
      BY <1>9, <2>2
    <3> QED
      BY <1>12, <3>1
  <2> QED
    BY <2>1, <2>2
<1>14. n1 + 1 <= Following(ms, a)
  BY <1>9, <1>10, <1>11, <1>13, FollowingCounts
<1> QED
  BY <1>10, <1>14

\* A message, and what is left of a conversation from start on.
LEMMA TailLayout ==
  ASSUME NEW ms \in Seq(Messages), NEW start \in 2 .. Len(ms) + 1, NEW m \in Messages
  PROVE  LET xs == <<m>> \o From(ms, start)
             d == start - 2
         IN  /\ xs \in Seq(Messages) /\ Len(xs) + d = Len(ms) /\ Len(xs) \in Nat
             /\ xs[1] = m /\ \A i \in 2 .. Len(xs) : xs[i] = ms[i + d]
<1> DEFINE xs == <<m>> \o From(ms, start)
           d == start - 2
<1>1. Len(ms) \in Nat /\ d \in Nat /\ start = d + 2
  BY ListFacts
<1>2. /\ From(ms, start) \in Seq(Messages) /\ Len(From(ms, start)) = Len(ms) - (d + 1)
      /\ \A i \in 1 .. Len(ms) - (d + 1) : From(ms, start)[i] = ms[i + (d + 1)]
  <2>1. From(ms, start) \in Seq(Messages)
    BY <1>1, FromTypes
  <2>2. /\ Len(SubSeq(ms, start, Len(ms))) = IF start <= Len(ms) THEN Len(ms) - start + 1 ELSE 0
        /\ \A i \in 1 .. Len(ms) - start + 1 : SubSeq(ms, start, Len(ms))[i] = ms[start + i - 1]
    BY <1>1, SubSeqProperties
  <2>3. \A i \in 1 .. Len(ms) - start + 1 : start + i - 1 = i + (d + 1)
    BY <1>1
  <2>4. Len(ms) - start + 1 = Len(ms) - (d + 1) /\ (~(start <= Len(ms)) => Len(ms) - (d + 1) = 0)
    BY <1>1
  <2> QED
    BY <2>1, <2>2, <2>3, <2>4 DEF From
<1>3. /\ xs \in Seq(Messages) /\ Len(xs) + d = Len(ms) /\ Len(xs) \in Nat
      /\ xs[1] = m /\ \A i \in 2 .. Len(xs) : xs[i] = ms[i + d]
  <2> DEFINE fs == From(ms, start)
  <2>1. fs \in Seq(Messages) /\ Len(fs) \in Nat /\ Len(fs) = Len(ms) - (d + 1)
    BY <1>2
  <2>2. /\ xs \in Seq(Messages) /\ Len(xs) = 1 + Len(fs)
        /\ \A i \in 1 .. 1 + Len(fs) : xs[i] = IF i = 1 THEN m ELSE fs[i - 1]
    <3> HIDE DEF fs
    <3> DEFINE one == <<m>>
    <3>1. one \in Seq(Messages) /\ Len(one) = 1 /\ one[1] = m
      OBVIOUS
    <3>2. xs = one \o fs
      BY DEF fs
    <3> HIDE DEF one, xs
    <3>3. /\ xs \in Seq(Messages) /\ Len(xs) = Len(one) + Len(fs)
          /\ \A i \in 1 .. Len(one) + Len(fs) :
                xs[i] = IF i <= Len(one) THEN one[i] ELSE fs[i - Len(one)]
      BY <2>1, <3>1, <3>2, ConcatProperties
    <3>4. \A i \in 1 .. 1 + Len(fs) : i <= 1 <=> i = 1
      BY <2>1
    <3> QED
      BY <3>1, <3>3, <3>4
  <2>3. ASSUME NEW i \in 2 .. Len(xs) PROVE xs[i] = ms[i + d]
    <3>1. i - 1 \in 1 .. Len(ms) - (d + 1) /\ (i - 1) + (d + 1) = i + d /\ i \in 1 .. 1 + Len(fs) /\ i # 1
      BY <1>1, <2>1, <2>2
    <3>2. fs[i - 1] = ms[i + d]
      BY <1>2, <3>1
    <3> QED
      BY <2>2, <3>1, <3>2
  <2> QED
    BY <1>1, <2>1, <2>2, <2>3
<1> QED
  BY <1>3

\* A conversation that is sound is sound behind any message that is no result.
LEMMA TailIsSound ==
  ASSUME NEW ms \in Seq(Messages), Sound(ms, Len(ms) + 1),
         NEW start \in 2 .. Len(ms) + 1, start <= Len(ms) => ms[start].role # "tool",
         NEW m \in Messages, m.role # "tool", ~HasCalls(m)
  PROVE  Sound(<<m>> \o From(ms, start), Len(<<m>> \o From(ms, start)) + 1)
<1> DEFINE xs == <<m>> \o From(ms, start)
           d == start - 2
<1>1. DOMAIN ms = 1 .. Len(ms) /\ Len(ms) \in Nat /\ (Len(ms) + 1) - 1 = Len(ms) /\ d \in Nat
      /\ start = d + 2
  BY ListFacts
<1>3. /\ xs \in Seq(Messages) /\ Len(xs) + d = Len(ms) /\ Len(xs) \in Nat
      /\ xs[1] = m /\ \A i \in 2 .. Len(xs) : xs[i] = ms[i + d]
  BY TailLayout
<1> HIDE DEF xs
<1>4. DOMAIN xs = 1 .. Len(xs)
  BY <1>3, ListFacts
<1>5. ASSUME NEW p \in 2 .. Len(xs), ValidBundle(ms, p + d) PROVE ValidBundle(xs, p)
  <2> DEFINE n == Len(ms[p + d].calls)
  <2>1. p + d \in 1 .. Len(ms) /\ p \in 1 .. Len(xs)
    BY <1>1, <1>3
  <2>2. n \in Nat /\ (p + d) + n <= Len(ms)
    BY <1>5, <2>1, BundleResults, ListFacts
  <2>3. ASSUME NEW k \in 0 .. n PROVE xs[p + k] = ms[(p + d) + k]
    <3> HIDE DEF n
    <3>1. p + k \in 2 .. Len(xs) /\ (p + k) + d = (p + d) + k
      BY <1>1, <1>3, <2>2
    <3> QED
      BY <1>3, <3>1
  <2>4. p + n <= Len(xs)
    <3> HIDE DEF n
    <3> QED
      BY <1>1, <1>3, <2>2
  <2> QED
    BY <1>3, <1>5, <2>1, <2>3, <2>4, BundleCopied
<1>6. ASSUME NEW i \in 1 .. Len(xs)
      PROVE  /\ xs[i].role = "tool" => InBundle(xs, i) /\ ~xs[i].ckpt
             /\ HasCalls(xs[i]) => ValidBundle(xs, i)
             /\ xs[i].role = "tool" \/ HasCalls(xs[i]) => IsCommitted(xs[i])
  <2>1. CASE i = 1
    BY <1>3, <2>1
  <2>2. CASE i # 1
    <3>1. i \in 2 .. Len(xs) /\ xs[i] = ms[i + d] /\ i + d \in 1 .. Len(ms) /\ i + d \in Nat
      BY <1>1, <1>3, <2>2
    <3>2. /\ ms[i + d].role = "tool" =>
               InBundle(ms, i + d) /\ ~ms[i + d].ckpt /\ IsCommitted(ms[i + d])
          /\ HasCalls(ms[i + d]) => ValidBundle(ms, i + d) /\ IsCommitted(ms[i + d])
      BY <1>1, <3>1 DEF Sound
    <3>3. ASSUME ms[i + d].role = "tool" PROVE InBundle(xs, i)
      <4>1. PICK o \in 1 .. (i + d) - 1 : /\ o \in 1 .. Len(ms) /\ ValidBundle(ms, o)
                                          /\ (i + d) - o \in 1 .. Len(ms[o].calls)
        BY <3>1, <3>2, <3>3, MembersBundle
      <4>2. o >= start
        <5> SUFFICES ASSUME o < start PROVE FALSE
          BY <1>1
        <5> DEFINE k == start - o
        <5>1. Len(ms[o].calls) \in Nat /\ o \in Nat /\ o >= 1
          BY <4>1, ListFacts
        <5>2. i + d <= Len(ms) /\ start <= i + d /\ i + d <= o + Len(ms[o].calls)
          BY <1>1, <3>1, <4>1, <5>1
        <5>3. k \in 1 .. Len(ms[o].calls) /\ o + k = start /\ start <= Len(ms)
          <6>1. start \in Nat /\ d \in Nat /\ i \in Nat /\ Len(ms) \in Nat
            BY <1>1, <3>1
          <6> QED
            BY <5>1, <5>2, <6>1
        <5> HIDE DEF k
        <5>4. ms[o + k].role = "tool"
          BY <4>1, <5>3, BundleMembers
        <5> QED
          BY <5>3, <5>4
      <4> DEFINE p == o - d
                 l == i - p
      <4>3. p \in 2 .. Len(xs) /\ p + d = o
        BY <1>1, <1>3, <4>1, <4>2
      <4>4. ValidBundle(xs, p) /\ xs[p] = ms[o]
        <5> HIDE DEF p
        <5> QED
          BY <1>3, <1>5, <4>1, <4>3
      <4>5. l \in 1 .. Len(xs[p].calls) /\ p + l = i /\ p \in 1 .. Len(xs)
        <5>1. l = (i + d) - o
          BY <1>1, <3>1, <4>1
        <5> HIDE DEF p
        <5> QED
          BY <1>1, <3>1, <4>1, <4>3, <4>4, <5>1
      <4> HIDE DEF l, p
      <4> QED
        BY <1>3, <4>4, <4>5, BundleMembers
    <3> QED
      BY <1>5, <3>1, <3>2, <3>3
  <2> QED
    BY <2>1, <2>2
<1>7. ReplaySafe(xs)
  BY <1>4, <1>6 DEF ReplaySafe
<1>8. Sound(xs, Len(xs) + 1)
  BY <1>3, <1>6, <1>7, SafeIsSound
<1> QED
  BY <1>8 DEF xs

LEMMA SanitizedShape ==
  ASSUME NEW ms \in Seq(Messages), ReplaySafe(ms), Shaped(ms) PROVE Shaped(Sanitized(ms))
<1>1. DOMAIN ms = 1 .. Len(ms) /\ DOMAIN Sanitized(ms) = 1 .. Len(ms)
  BY SanitizedLayout, SanitizedSafe, ListFacts
<1>2. \A c : ToolResult(c).mark = "none" /\ ToolResult(c).covers = {}
  BY DEF ToolResult, Plain
<1>3. ASSUME NEW i \in 1 .. Len(ms)
      PROVE  \/ Sanitized(ms)[i] = ms[i]
             \/ Sanitized(ms)[i].mark = "none" /\ Sanitized(ms)[i].covers = {}
  BY <1>2, SanitizedSafe
<1> QED
  BY <1>1, <1>3 DEF Shaped

LEMMA OnlyShape ==
  ASSUME NEW ms \in Seq(Messages), NEW kept, Shaped(ms) PROVE Shaped(Only(ms, kept))
<1> DEFINE out == Only(ms, kept)
<1>1. out \in Seq(Messages)
  BY OnlyLayout
<1>2. PICK at : Places(out, ms, kept, at)
  BY OnlyLayout
<1> HIDE DEF out
<1>3. DOMAIN out = 1 .. Len(out) /\ DOMAIN ms = 1 .. Len(ms)
  BY <1>1, ListFacts
<1>4. ASSUME NEW p \in 1 .. Len(out)
      PROVE  \E i \in 1 .. Len(ms) : out[p] = ms[i] /\ (i = 1 => p = 1)
  <2>1. PICK i \in 1 .. Len(ms) : i \in kept /\ p = at[i] + 1
    BY <1>2 DEF Places
  <2>2. out[p] = ms[i] /\ at[1] = 0
    BY <1>2, <2>1 DEF Places
  <2> QED
    BY <2>1, <2>2
<1>5. Shaped(out)
  BY <1>3, <1>4 DEF Shaped
<1> QED
  BY <1>5 DEF out

LEMMA CheckpointShape ==
  ASSUME NEW ms \in Seq(Messages), Shaped(ms), Shaped(saved) PROVE Shaped(Checkpoint(ms))
<1> DEFINE out == Turn(ms)
<1>1. out \in Seq(Messages) /\ Shaped(out)
  BY OnlyLayout, OnlyShape DEF Turn, Collected
<1> HIDE DEF out
<1>2. 0 \in 0 .. Len(out) /\ \A i \in 1 .. 0 : ~Bad(out, i)
  BY <1>1, ListFacts
<1>3. PICK m \in 0 .. Len(out) : /\ SafePrefix(out) = Sanitized(Prefix(out, m))
                                 /\ ReplaySafe(Prefix(out, m))
  BY <1>1, <1>2, SafePrefixes
<1>4. /\ Prefix(out, m) \in Seq(Messages) /\ Len(Prefix(out, m)) = m
      /\ \A i \in 1 .. m : Prefix(out, m)[i] = out[i]
  BY <1>1, PrefixTypes
<1>5. Shaped(Prefix(out, m))
  <2>1. DOMAIN Prefix(out, m) = 1 .. m /\ DOMAIN out = 1 .. Len(out) /\ Len(out) \in Nat
    BY <1>1, <1>4, ListFacts
  <2>2. \A i \in 1 .. m : i \in 1 .. Len(out)
    BY <2>1
  <2> QED
    BY <1>1, <1>4, <2>1, <2>2 DEF Shaped
<1>6. Shaped(SafePrefix(out))
  BY <1>3, <1>4, <1>5, SanitizedShape
<1> QED
  BY <1>6 DEF Checkpoint, out

\* A compaction keeps the conversation sound and stands for what it replaces.
LEMMA CompactedHolds ==
  ASSUME NEW ms \in Seq(Messages), Sound(ms, Len(ms) + 1), Begun(ms, Len(ms) + 1), Shaped(ms),
         NEW n \in Nat, CanCompact(ms, n)
  PROVE  LET out == Compacted(ms, n)
         IN  /\ Sound(out, Len(out) + 1) /\ Begun(out, Len(out) + 1) /\ Shaped(out)
             /\ \A c \in Nat \ {0} : Held(c, ms, Len(ms) + 1) => Held(c, out, Len(out) + 1)
<1> DEFINE start == TailStart(ms, n)
           d == start - 2
           covered == Standing(Prefix(ms, start - 1))
           m == Compaction(covered)
           xs == <<m>> \o From(ms, start)
           out == Compacted(ms, n)
<1>1. DOMAIN ms = 1 .. Len(ms) /\ Len(ms) \in Nat /\ start \in 2 .. Len(ms) + 1 /\ start > 3
      /\ d \in Nat /\ start = d + 2 /\ start - 1 \in 0 .. Len(ms)
  <2>1. start \in 1 .. Len(ms) + 1 /\ start > 3
    BY TailStarts DEF CanCompact
  <2>2. DOMAIN ms = 1 .. Len(ms) /\ Len(ms) \in Nat
    BY ListFacts
  <2> HIDE DEF start
  <2> QED
    BY <2>1, <2>2
<1>2. start <= Len(ms) => ms[start].role # "tool"
  BY <1>1, TailBoundary
<1>3. out = Sanitized(xs)
  BY DEF Compacted
<1> HIDE DEF start, out
<1>4. /\ Prefix(ms, start - 1) \in Seq(Messages) /\ Len(Prefix(ms, start - 1)) = start - 1
      /\ \A i \in 1 .. start - 1 : Prefix(ms, start - 1)[i] = ms[i]
  BY <1>1, PrefixTypes
<1>5. covered = (UNION {{ms[i].ref} \cup ms[i].covers : i \in 1 .. start - 1}) \ {0}
  <2> DEFINE ps == Prefix(ms, start - 1)
  <2>1. DOMAIN ps = 1 .. start - 1
    BY <1>4, ListFacts
  <2>2. \A i \in 1 .. start - 1 : ps[i] = ms[i]
    BY <1>4
  <2> HIDE DEF ps
  <2>3. {{ps[i].ref} \cup ps[i].covers : i \in DOMAIN ps}
          = {{ms[i].ref} \cup ms[i].covers : i \in 1 .. start - 1}
    BY <2>1, <2>2
  <2> QED
    BY <2>3 DEF Standing, ps
<1>6. covered \in SUBSET Nat
  <2>1. ASSUME NEW i \in 1 .. start - 1 PROVE ms[i].ref \in Nat /\ ms[i].covers \in SUBSET Nat
    BY <1>1, ListFacts DEF Messages
  <2> HIDE DEF covered
  <2> QED
    BY <1>5, <2>1
<1> HIDE DEF covered
<1>7. /\ m \in Messages /\ m.role = "assistant" /\ m.calls = <<>> /\ m.ckpt = TRUE
      /\ m.mark = "summary" /\ m.covers = covered /\ IsCommitted(m) /\ ~HasCalls(m)
  BY <1>6, MessageTypes DEF Compaction, Plain, HasCalls, IsCommitted
<1> HIDE DEF m
<1>8. /\ xs \in Seq(Messages) /\ Len(xs) + d = Len(ms) /\ Len(xs) \in Nat
      /\ xs[1] = m /\ \A i \in 2 .. Len(xs) : xs[i] = ms[i + d]
  BY <1>1, <1>7, TailLayout
<1>9. Sound(xs, Len(xs) + 1)
  BY <1>1, <1>2, <1>7, TailIsSound
<1> HIDE DEF xs
<1>10. Len(xs) >= 1 /\ DOMAIN xs = 1 .. Len(xs)
  BY <1>1, <1>8, ListFacts
<1>11. Begun(xs, Len(xs) + 1)
  BY <1>7, <1>8, <1>10 DEF Begun
<1>12. TurnStart(xs, Len(History)) = 1
  <2>1. /\ TurnStart(xs, Len(History)) \in 1 .. Len(xs)
        /\ \A j \in 1 .. TurnStart(xs, Len(History)) - 1 : ~xs[j].ckpt
    <3>1. Len(xs) + 1 \in 1 .. Len(xs) + 1 /\ (Len(xs) + 1) - 1 = Len(xs)
      BY <1>8
    <3> QED
      BY <1>8, <1>11, <3>1, TurnStarts
  <2>2. xs[1].ckpt
    BY <1>7, <1>8
  <2> QED
    BY <2>1, <2>2
<1>13. Shaped(xs)
  <2>1. ASSUME NEW i \in 2 .. Len(xs) PROVE xs[i].mark # "summary" /\ xs[i].covers = {}
    <3>1. d \in Nat /\ i \in Nat /\ i >= 2 /\ i <= Len(xs) /\ Len(xs) \in Nat
          /\ Len(xs) + d = Len(ms)
      BY <1>1, <1>8
    <3>2. i + d \in 1 .. Len(ms) /\ i + d # 1
      BY <3>1
    <3>3. xs[i] = ms[i + d]
      BY <1>8
    <3> QED
      BY <1>1, <3>2, <3>3 DEF Shaped
  <2>2. \A i \in 1 .. Len(xs) : i = 1 \/ i \in 2 .. Len(xs)
    BY <1>8
  <2> QED
    BY <1>7, <1>8, <1>10, <2>1, <2>2 DEF Shaped
<1>14. ASSUME NEW c \in Nat \ {0}, Held(c, ms, Len(ms) + 1) PROVE Held(c, xs, Len(xs) + 1)
  <2>1. PICK i \in Kept(ms) : Carries(ms[i], c)
    BY <1>14 DEF Held
  <2>2. i \in 1 .. Len(ms) /\ IsCommitted(ms[i])
    BY <1>1, <2>1 DEF Kept
  <2>3. CASE i <= start - 1
    <3>1. i \in 1 .. start - 1
      BY <1>1, <2>2, <2>3
    <3>2. c \in {ms[i].ref} \cup ms[i].covers
      BY <2>1 DEF Carries
    <3>3. c \in UNION {{ms[l].ref} \cup ms[l].covers : l \in 1 .. start - 1}
      BY <3>1, <3>2
    <3>4. c \in covered
      BY <1>5, <3>3
    <3>5. Carries(xs[1], c)
      BY <1>7, <1>8, <3>4 DEF Carries
    <3>6. 1 \in Kept(xs) /\ 1 < Len(xs) + 1
      BY <1>7, <1>8, <1>10, <1>12 DEF Kept
    <3> QED
      BY <3>5, <3>6 DEF Held
  <2>4. CASE i >= start
    <3> DEFINE j == i - d
    <3>1. j \in 2 .. Len(xs) /\ j + d = i /\ j \in 1 .. Len(xs) /\ j < Len(xs) + 1
      BY <1>1, <1>8, <2>2, <2>4
    <3> HIDE DEF j
    <3>2. xs[j] = ms[i]
      BY <1>8, <3>1
    <3>3. j \in Kept(xs)
      BY <1>10, <1>12, <2>2, <3>1, <3>2 DEF Kept
    <3> QED
      BY <2>1, <3>1, <3>2, <3>3 DEF Held
  <2> QED
    BY <1>1, <2>2, <2>3, <2>4
<1>15. /\ Sound(out, Len(out) + 1) /\ Begun(out, Len(out) + 1) /\ Len(out) = Len(xs)
       /\ \A c : Held(c, xs, Len(xs) + 1) => Held(c, out, Len(out) + 1)
  BY <1>3, <1>8, <1>9, <1>11, SanitizedHolds
<1>16. Shaped(out)
  BY <1>3, <1>8, <1>9, <1>13, SoundIsSafe, SanitizedShape
<1> QED
  BY <1>14, <1>15, <1>16 DEF out

-----------------------------------------------------------------------------
(* What was done stays recorded *)

\* No bundle is open, and checkpoint sv and the turn in ms tell what was done.
SettledIn(ms, sv, did) ==
    /\ Sound(ms, Len(ms) + 1) /\ Begun(ms, Len(ms) + 1)
    /\ \A c \in did : Held(c, ms, Len(ms) + 1) /\ KnownIn(c, sv)

\* The message at o has calls, those in left are without result yet; what was done
\* before is told by the checkpoint and by the turn before o.
OpenedAt(ms, sv, did, left, o) ==
    LET calls == ms[o].calls
        n == Len(ms) - o
    IN  /\ HasCalls(ms[o]) /\ IsCommitted(ms[o]) /\ IsInjective(calls)
        /\ Len(calls) = n + Len(left)
        /\ \A k \in 1 .. Len(left) : left[k] = calls[n + k]
        /\ \A k \in 1 .. n : ms[o + k] = ToolResult(calls[k])
        /\ Sound(ms, o) /\ Begun(ms, o)
        /\ \A c \in did : \/ Held(c, ms, o) /\ KnownIn(c, sv)
                          \/ \E k \in 1 .. n : c = calls[k]

LEMMA AppendFacts ==
  ASSUME NEW ms \in Seq(Messages), NEW m \in Messages
  PROVE  /\ Append(ms, m) \in Seq(Messages) /\ Len(Append(ms, m)) = Len(ms) + 1 /\ Len(ms) \in Nat
         /\ DOMAIN ms = 1 .. Len(ms) /\ DOMAIN Append(ms, m) = 1 .. Len(ms) + 1
         /\ Append(ms, m)[Len(ms) + 1] = m
         /\ \A i \in 1 .. Len(ms) : Append(ms, m)[i] = ms[i]
BY ListFacts

LEMMA ShapedAppend ==
  ASSUME NEW ms \in Seq(Messages), Shaped(ms),
         NEW m \in Messages, m.mark # "summary", m.covers = {}
  PROVE  Shaped(Append(ms, m))
<1>1. \A i \in 1 .. Len(ms) + 1 : i \in 1 .. Len(ms) \/ i = Len(ms) + 1
  BY ListFacts
<1> QED
  BY <1>1, AppendFacts DEF Shaped

LEMMA SoundAppend ==
  ASSUME NEW ms \in Seq(Messages), Sound(ms, Len(ms) + 1),
         NEW m \in Messages, m.role # "tool", ~HasCalls(m)
  PROVE  Sound(Append(ms, m), Len(ms) + 2)
<1> DEFINE out == Append(ms, m)
           o == Len(ms) + 1
<1>1. /\ out \in Seq(Messages) /\ Len(out) = o /\ o \in Nat /\ DOMAIN ms = 1 .. Len(ms)
      /\ o \in 1 .. Len(ms) + 1 /\ o \in 1 .. Len(out) + 1 /\ o \in 1 .. o
      /\ out[o] = m /\ \A i \in 1 .. o - 1 : out[i] = ms[i]
      /\ Len(ms) + 2 = o + 1
  BY AppendFacts
<1> HIDE DEF out, o
<1>2. Sound(out, o)
  BY <1>1, SoundBelow DEF o
<1>3. ASSUME NEW i \in 1 .. (o + 1) - 1, i # o PROVE i \in 1 .. o - 1
  BY <1>1, <1>3
<1>4. \A i \in 1 .. o - 1 : HasCalls(out[i]) =>
              (i + Len(out[i].calls) < o => i + Len(out[i].calls) < o + 1)
  <2> TAKE i \in 1 .. o - 1
  <2>1. Len(out[i].calls) \in Nat
    BY <1>1, ListFacts
  <2> QED
    BY <1>1, <2>1
<1>5. Sound(out, o + 1)
  BY <1>1, <1>2, <1>3, <1>4 DEF Sound
<1> QED
  BY <1>1, <1>5 DEF out

LEMMA SettledAppend ==
  ASSUME NEW ms \in Seq(Messages), NEW sv, NEW did, SettledIn(ms, sv, did),
         NEW m \in Messages, m.role # "tool", ~HasCalls(m)
  PROVE  SettledIn(Append(ms, m), sv, did)
<1> DEFINE out == Append(ms, m)
           o == Len(ms) + 1
<1>1. /\ out \in Seq(Messages) /\ Len(out) = o /\ o \in Nat /\ DOMAIN ms = 1 .. Len(ms)
      /\ o \in 1 .. Len(ms) + 1 /\ o \in 1 .. Len(out) + 1 /\ o \in 1 .. o
      /\ \A i \in 1 .. o - 1 : out[i] = ms[i]
      /\ Len(ms) + 2 = o + 1
  BY AppendFacts
<1>2. Sound(ms, o) /\ Begun(ms, o) /\ \A c \in did : Held(c, ms, o) /\ KnownIn(c, sv)
  BY DEF SettledIn
<1>3. Sound(out, o + 1)
  BY <1>1, <1>2, SoundAppend
<1> HIDE DEF out, o
<1>4. Begun(out, o) /\ \A c : Held(c, ms, o) => Held(c, out, o)
  BY <1>1, <1>2, SameBelow
<1>5. Begun(out, o + 1)
  BY <1>1, <1>4 DEF Begun
<1>6. \A c : Held(c, out, o) => Held(c, out, o + 1)
  BY <1>1, ListFacts DEF Held, Kept
<1> QED
  BY <1>1, <1>2, <1>3, <1>4, <1>5, <1>6 DEF SettledIn, out

LEMMA SettledCheckpoint ==
  ASSUME NEW ms \in Seq(Messages), NEW did, NEW sv, SettledIn(ms, sv, did)
  PROVE  SettledIn(ms, Checkpoint(ms), did)
<1>1. Len(ms) + 1 \in 1 .. Len(ms) + 1
  BY ListFacts
<1> QED
  BY <1>1, CheckpointKnows DEF SettledIn

LEMMA SettledCompacted ==
  ASSUME NEW ms \in Seq(Messages), NEW did \in SUBSET (Nat \ {0}), NEW sv, SettledIn(ms, sv, did),
         Shaped(ms), NEW n \in Nat, CanCompact(ms, n)
  PROVE  SettledIn(Compacted(ms, n), sv, did) /\ Shaped(Compacted(ms, n))
BY CompactedHolds DEF SettledIn

LEMMA SettledSanitized ==
  ASSUME NEW ms \in Seq(Messages), NEW did, NEW sv, SettledIn(ms, sv, did), Shaped(ms)
  PROVE  SettledIn(Sanitized(ms), sv, did) /\ Shaped(Sanitized(ms))
BY SanitizedHolds, SoundIsSafe, SanitizedShape DEF SettledIn

LEMMA Opens ==
  ASSUME NEW ms \in Seq(Messages), NEW did, NEW sv, SettledIn(ms, sv, did),
         NEW text \in BOOLEAN, NEW calls \in Seq(Nat), calls # <<>>, IsInjective(calls)
  PROVE  OpenedAt(Append(ms, Assistant(text, calls)), sv, did, calls, Len(ms) + 1)
<1> DEFINE m == Assistant(text, calls)
           out == Append(ms, m)
           o == Len(ms) + 1
<1>1. m \in Messages /\ m.calls = calls /\ HasCalls(m) /\ IsCommitted(m)
  BY MessageTypes DEF Assistant, Plain, HasCalls, IsCommitted
<1> HIDE DEF m
<1>2. /\ out \in Seq(Messages) /\ Len(out) = o /\ o \in Nat
      /\ o \in 1 .. Len(ms) + 1 /\ o \in 1 .. Len(out) + 1
      /\ out[o] = m /\ \A i \in 1 .. o - 1 : out[i] = ms[i]
  BY <1>1, AppendFacts
<1>3. Sound(ms, o) /\ Begun(ms, o) /\ \A c \in did : Held(c, ms, o) /\ KnownIn(c, sv)
  BY DEF SettledIn
<1> HIDE DEF out, o
<1>4. Sound(out, o) /\ Begun(out, o) /\ \A c : Held(c, ms, o) => Held(c, out, o)
  BY <1>2, <1>3, SameBelow
<1>5. Len(calls) = (Len(out) - o) + Len(calls) /\ Len(out) - o = 0 /\ Len(calls) \in Nat
  BY <1>2
<1>6. \A k \in 1 .. Len(calls) : calls[k] = calls[(Len(out) - o) + k]
  BY <1>5
<1> QED
  BY <1>1, <1>2, <1>3, <1>4, <1>5, <1>6 DEF OpenedAt, out, o, m

LEMMA ResultArrives ==
  ASSUME NEW ms \in Seq(Messages), NEW did, NEW sv, NEW left \in Seq(Nat), left # <<>>,
         NEW o \in 1 .. Len(ms), OpenedAt(ms, sv, did, left, o)
  PROVE  OpenedAt(Append(ms, ToolResult(Head(left))), sv, did \cup {Head(left)}, Tail(left), o)
<1> DEFINE m == ToolResult(Head(left))
           out == Append(ms, m)
           calls == ms[o].calls
           n == Len(ms) - o
<1>1. /\ Head(left) \in Nat /\ Head(left) = left[1] /\ Len(left) \in Nat \ {0}
      /\ Len(Tail(left)) = Len(left) - 1 /\ \A k \in 1 .. Len(left) - 1 : Tail(left)[k] = left[k + 1]
  OBVIOUS
<1>2. m \in Messages
  BY <1>1, MessageTypes
<1>3. /\ out \in Seq(Messages) /\ Len(out) = Len(ms) + 1 /\ Len(ms) \in Nat
      /\ out[Len(ms) + 1] = m /\ \A i \in 1 .. Len(ms) : out[i] = ms[i]
  BY <1>2, AppendFacts
<1>4. /\ HasCalls(ms[o]) /\ IsCommitted(ms[o]) /\ IsInjective(calls)
      /\ Len(calls) = n + Len(left)
      /\ \A k \in 1 .. Len(left) : left[k] = calls[n + k]
      /\ \A k \in 1 .. n : ms[o + k] = ToolResult(calls[k])
      /\ Sound(ms, o) /\ Begun(ms, o)
      /\ \A c \in did : \/ Held(c, ms, o) /\ KnownIn(c, sv)
                        \/ \E k \in 1 .. n : c = calls[k]
  BY DEF OpenedAt
<1> HIDE DEF out
<1>5. n \in Nat /\ Len(out) - o = n + 1 /\ o + (n + 1) = Len(ms) + 1 /\ out[o] = ms[o]
      /\ o + n = Len(ms)
  <2>1. Len(ms) \in Nat /\ Len(out) = Len(ms) + 1 /\ o \in 1 .. Len(ms)
    BY <1>3
  <2>2. out[o] = ms[o]
    BY <1>3
  <2>3. o \in Nat /\ o <= Len(ms)
    BY <2>1
  <2>4. n \in Nat /\ o + n = Len(ms)
    BY <2>1, <2>3
  <2>5. Len(out) - o = n + 1 /\ o + (n + 1) = Len(ms) + 1
    BY <2>1, <2>3, <2>4
  <2> QED
    BY <2>2, <2>4, <2>5
<1> HIDE DEF n
<1>6. Sound(out, o) /\ Begun(out, o) /\ \A c : Held(c, ms, o) => Held(c, out, o)
  <2>1. Len(ms) \in Nat /\ Len(out) = Len(ms) + 1 /\ o \in Nat /\ o >= 1 /\ o <= Len(ms)
    BY <1>3
  <2>2. o \in 1 .. Len(ms) + 1 /\ o \in 1 .. Len(out) + 1 /\ \A i \in 1 .. o - 1 : i \in 1 .. Len(ms)
    BY <2>1
  <2>3. \A i \in 1 .. o - 1 : out[i] = ms[i]
    BY <1>3, <2>2
  <2> QED
    BY <1>3, <1>4, <2>2, <2>3, SameBelow
<1>7. calls[n + 1] = Head(left)
  BY <1>1, <1>4
<1>8. Len(calls) = (n + 1) + Len(Tail(left))
  BY <1>1, <1>4, <1>5
<1>9. ASSUME NEW k \in 1 .. Len(Tail(left)) PROVE Tail(left)[k] = calls[(n + 1) + k]
  <2>1. k \in 1 .. Len(left) - 1
    BY <1>1
  <2>2. k + 1 \in 1 .. Len(left) /\ n + (k + 1) = (n + 1) + k
    BY <1>1, <1>5, <2>1
  <2>3. Tail(left)[k] = left[k + 1] /\ left[k + 1] = calls[n + (k + 1)]
    BY <1>1, <1>4, <2>1, <2>2
  <2> QED
    BY <2>2, <2>3
<1>10. ASSUME NEW k \in 1 .. n + 1 PROVE out[o + k] = ToolResult(calls[k])
  <2>1. CASE k = n + 1
    BY <1>3, <1>5, <1>7, <2>1
  <2>2. CASE k # n + 1
    <3>1. k \in 1 .. n
      BY <1>5, <2>2
    <3>2. o + k \in 1 .. Len(ms)
      <4>1. k <= n /\ k \in Nat /\ o \in Nat /\ o > 0 /\ Len(ms) \in Nat /\ o + n = Len(ms)
        BY <1>3, <1>5, <3>1
      <4> QED
        BY ONLY <1>5, <4>1
    <3> QED
      BY <1>3, <1>4, <3>1, <3>2
  <2> QED
    BY <2>1, <2>2
<1>11. ASSUME NEW c \in did \cup {Head(left)}
       PROVE  (Held(c, out, o) /\ KnownIn(c, sv)) \/ \E k \in 1 .. n + 1 : c = calls[k]
  <2>1. CASE c = Head(left)
    <3>1. n + 1 \in 1 .. n + 1
      BY <1>5
    <3> QED
      BY <1>7, <2>1, <3>1
  <2>2. CASE c \in did
    <3>1. \A k \in 1 .. n : k \in 1 .. n + 1
      BY <1>5
    <3> QED
      BY <1>4, <1>6, <2>2, <3>1
  <2> QED
    BY <2>1, <2>2
<1> HIDE DEF calls
<1>12. calls = out[o].calls
  BY <1>5 DEF calls
<1>13. HasCalls(out[o]) /\ IsCommitted(out[o]) /\ IsInjective(calls)
  BY <1>4, <1>5
<1> DEFINE rest == Tail(left)
           all == did \cup {Head(left)}
<1>14. /\ Len(calls) = (Len(out) - o) + Len(rest)
       /\ \A k \in 1 .. Len(rest) : rest[k] = calls[(Len(out) - o) + k]
       /\ \A k \in 1 .. Len(out) - o : out[o + k] = ToolResult(calls[k])
       /\ \A c \in all : \/ Held(c, out, o) /\ KnownIn(c, sv)
                         \/ \E k \in 1 .. Len(out) - o : c = calls[k]
  BY <1>5, <1>8, <1>9, <1>10, <1>11
<1> HIDE DEF rest, all
<1>15. OpenedAt(out, sv, all, rest, o)
  BY <1>6, <1>12, <1>13, <1>14 DEF OpenedAt
<1> QED
  BY <1>15 DEF out, rest, all

LEMMA OpenedCheckpoint ==
  ASSUME NEW ms \in Seq(Messages), NEW did, NEW sv, NEW left,
         NEW o \in 1 .. Len(ms), OpenedAt(ms, sv, did, left, o)
  PROVE  OpenedAt(ms, Checkpoint(ms), did, left, o)
<1>1. o \in 1 .. Len(ms) + 1
  BY ListFacts
<1> QED
  BY <1>1, CheckpointKnows DEF OpenedAt

\* When the last result is there, the bundle is whole.
LEMMA Settles ==
  ASSUME NEW ms \in Seq(Messages), NEW did, NEW sv, NEW o \in 1 .. Len(ms),
         OpenedAt(ms, sv, did, <<>>, o)
  PROVE  SettledIn(ms, Checkpoint(ms), did)
<1> DEFINE calls == ms[o].calls
           n == Len(ms) - o
           end == Len(ms) + 1
<1>1. /\ DOMAIN ms = 1 .. Len(ms) /\ Len(ms) \in Nat /\ calls \in Seq(Nat)
      /\ DOMAIN calls = 1 .. Len(calls) /\ Len(calls) \in Nat
      /\ end - 1 = Len(ms) /\ end \in 1 .. Len(ms) + 1
  BY ListFacts
<1>2. /\ HasCalls(ms[o]) /\ IsCommitted(ms[o]) /\ IsInjective(calls)
      /\ Len(calls) = n + Len(<<>>)
      /\ \A k \in 1 .. n : ms[o + k] = ToolResult(calls[k])
      /\ Sound(ms, o) /\ Begun(ms, o)
      /\ \A c \in did : \/ Held(c, ms, o)
                        \/ \E k \in 1 .. n : c = calls[k]
  BY DEF OpenedAt
<1>3. n \in Nat /\ Len(calls) = n /\ o + n = Len(ms)
  BY <1>1, <1>2
<1> HIDE DEF n, calls
<1>4. \A k \in 1 .. n : /\ ms[o + k].role = "tool" /\ ms[o + k].ref = calls[k]
                        /\ ~ms[o + k].ckpt /\ IsCommitted(ms[o + k])
  BY <1>2 DEF ToolResult, Plain, IsCommitted
<1>5. ValidBundle(ms, o)
  <2>1. n <= Following(ms, o)
    BY <1>3, <1>4, FollowingCounts
  <2>2. {ms[o + k].ref : k \in 1 .. n} = {calls[k] : k \in 1 .. n}
    BY <1>4
  <2> QED
    BY <1>1, <1>2, <1>3, <2>1, <2>2 DEF ValidBundle, ToSet, calls
<1>6. ASSUME NEW i \in 1 .. Len(ms)
      PROVE  /\ ms[i].role = "tool" => InBundle(ms, i) /\ ~ms[i].ckpt /\ IsCommitted(ms[i])
             /\ HasCalls(ms[i]) => /\ ValidBundle(ms, i) /\ i + Len(ms[i].calls) < end
                                   /\ IsCommitted(ms[i])
  <2>1. CASE i < o
    <3>1. i \in 1 .. o - 1
      BY <1>1, <2>1
    <3>2. Len(ms[i].calls) \in Nat
      BY ListFacts
    <3> QED
      BY <1>1, <1>2, <3>1, <3>2 DEF Sound
  <2>2. CASE i = o
    <3>1. i + Len(ms[i].calls) < end
      BY <1>1, <1>3, <2>2 DEF calls
    <3> QED
      BY <1>2, <1>5, <2>2, <3>1 DEF HasCalls
  <2>3. CASE i > o
    <3> DEFINE k == i - o
    <3>1. k \in 1 .. n /\ o + k = i /\ k \in 1 .. Len(ms[o].calls)
      BY <1>1, <1>3, <2>3 DEF calls
    <3> HIDE DEF k
    <3>2. InBundle(ms, i)
      BY <1>5, <3>1, BundleMembers
    <3> QED
      BY <1>4, <3>1, <3>2 DEF HasCalls
  <2> QED
    BY <2>1, <2>2, <2>3
<1>7. Sound(ms, end)
  BY <1>1, <1>6 DEF Sound
<1>8. Begun(ms, end)
  BY <1>1, <1>2 DEF Begun
<1>9. \A k \in 1 .. n : o + k \in Kept(ms)
  <2>1. TurnStart(ms, Len(History)) \in 1 .. o - 1
    <3>1. o \in 1 .. Len(ms) + 1
      BY <1>1
    <3> QED
      BY <1>2, <3>1, TurnStarts
  <2> TAKE k \in 1 .. n
  <2>2. o + k \in 1 .. Len(ms) /\ o + k >= TurnStart(ms, Len(History))
    BY <1>1, <1>3, <2>1
  <2> QED
    BY <1>1, <1>4, <2>2 DEF Kept
<1>10. ASSUME NEW c \in did PROVE Held(c, ms, end)
  <2>1. CASE Held(c, ms, o)
    BY <1>1, <2>1 DEF Held, Kept
  <2>2. CASE \E k \in 1 .. n : c = calls[k]
    <3>1. PICK k \in 1 .. n : c = calls[k]
      BY <2>2
    <3>2. o + k \in Kept(ms) /\ o + k < end /\ Carries(ms[o + k], c)
      BY <1>1, <1>3, <1>4, <1>9, <3>1 DEF Carries
    <3> QED
      BY <3>2 DEF Held
  <2> QED
    BY <1>2, <2>1, <2>2
<1> QED
  BY <1>1, <1>7, <1>8, <1>10, CheckpointKnows DEF SettledIn

\* At the end every call that was started is told by the turn, and by the checkpoint
\* unless its result is there.
LeftIn(ms, sv, did) ==
    \A c \in did : \E i \in Kept(ms) :
        Carries(ms[i], c) /\ (KnownIn(c, sv) \/ ms[i].role = "tool")

LEMMA SettledIsLeft ==
  ASSUME NEW ms, NEW sv, NEW did, SettledIn(ms, sv, did) PROVE LeftIn(ms, sv, did)
BY DEF SettledIn, LeftIn, Held

LEMMA OpenedIsLeft ==
  ASSUME NEW ms \in Seq(Messages), NEW sv, NEW did, NEW left, NEW o \in 1 .. Len(ms),
         OpenedAt(ms, sv, did, left, o)
  PROVE  LeftIn(ms, sv, did)
<1> DEFINE calls == ms[o].calls
           n == Len(ms) - o
<1>1. DOMAIN ms = 1 .. Len(ms) /\ Len(ms) \in Nat /\ o \in 1 .. Len(ms) + 1
  BY ListFacts
<1>2. /\ \A k \in 1 .. n : ms[o + k] = ToolResult(calls[k])
      /\ Begun(ms, o)
      /\ \A c \in did : \/ Held(c, ms, o) /\ KnownIn(c, sv)
                        \/ \E k \in 1 .. n : c = calls[k]
  BY DEF OpenedAt
<1>3. TurnStart(ms, Len(History)) \in 1 .. o - 1
  BY <1>1, <1>2, TurnStarts
<1>4. n \in Nat /\ o + n = Len(ms)
  BY <1>1
<1> HIDE DEF n, calls
<1>5. ASSUME NEW k \in 1 .. n
      PROVE  o + k \in Kept(ms) /\ Carries(ms[o + k], calls[k]) /\ ms[o + k].role = "tool"
  <2>1. o + k \in 1 .. Len(ms) /\ o + k >= TurnStart(ms, Len(History))
    BY <1>1, <1>3, <1>4
  <2>2. IsCommitted(ms[o + k]) /\ ms[o + k].role = "tool" /\ ms[o + k].ref = calls[k]
    BY <1>2 DEF ToolResult, Plain, IsCommitted
  <2> QED
    BY <1>1, <2>1, <2>2 DEF Kept, Carries
<1>6. ASSUME NEW c \in did
      PROVE  \E i \in Kept(ms) : Carries(ms[i], c) /\ (KnownIn(c, sv) \/ ms[i].role = "tool")
  <2>1. CASE Held(c, ms, o) /\ KnownIn(c, sv)
    BY <2>1 DEF Held
  <2>2. CASE \E k \in 1 .. n : c = calls[k]
    BY <1>5, <2>2
  <2> QED
    BY <1>2, <2>1, <2>2
<1> QED
  BY <1>6 DEF LeftIn

LEMMA OpenedForLess ==
  ASSUME NEW ms, NEW sv, NEW did, NEW less \in SUBSET did, NEW left, NEW o,
         OpenedAt(ms, sv, did, left, o)
  PROVE  OpenedAt(ms, sv, less, left, o)
BY DEF OpenedAt

LEMMA CheckpointTypes ==
  ASSUME NEW ms \in Seq(Messages), saved \in Seq(Messages)
  PROVE  Checkpoint(ms) \in Seq(Messages)
<1> DEFINE out == Turn(ms)
<1>1. out \in Seq(Messages)
  BY OnlyLayout DEF Turn, Collected
<1> HIDE DEF out
<1>2. 0 \in 0 .. Len(out) /\ \A i \in 1 .. 0 : ~Bad(out, i)
  BY <1>1, ListFacts
<1>3. PICK m \in 0 .. Len(out) : SafePrefix(out) = Sanitized(Prefix(out, m))
  BY <1>1, <1>2, SafePrefixes
<1>4. SafePrefix(out) \in Seq(Messages)
  BY <1>1, <1>3, PrefixTypes, SanitizedLayout
<1> QED
  BY <1>4 DEF Checkpoint, out

RecordTypes ==
    /\ ran \in SUBSET (Nat \ {0})
    /\ todo \in Seq(Nat \ {0})
    /\ saved \in Seq(Messages)

Doing == IF pc = "running" THEN {Head(todo)} ELSE {}

\* What the turn did is told while nothing but compactions reduces it.
RecordInv ==
    reduced \subseteq {"compacted"} =>
        /\ Shaped(msgs) /\ Shaped(saved)
        /\ pc \in InTools => \E o \in 1 .. Len(msgs) : OpenedAt(msgs, saved, ran \ Doing, todo, o)
        /\ pc \notin InTools \cup {"ended"} => SettledIn(msgs, saved, ran)
        /\ pc = "ended" => LeftIn(msgs, saved, ran)

LEMMA CallNames ==
  ASSUME NEW n \in Nat, NEW first \in Nat
  PROVE  LET calls == [k \in 1 .. n |-> FirstCall + first + k - 1]
         IN  calls \in Seq(Nat \ {0}) /\ IsInjective(calls)
<1> DEFINE calls == [k \in 1 .. n |-> FirstCall + first + k - 1]
<1>1. \A k \in 1 .. n : FirstCall + first + k - 1 \in Nat \ {0}
  BY DEF FirstCall
<1>2. calls \in Seq(Nat \ {0})
  BY <1>1
<1>3. \A k, l \in 1 .. n : FirstCall + first + k - 1 = FirstCall + first + l - 1 => k = l
  BY DEF FirstCall
<1>4. IsInjective(calls)
  BY <1>3 DEF IsInjective
<1> QED
  BY <1>2, <1>4

LEMMA RecordTypesStep ==
  ASSUME CountersInv, ConversationInv, RecordTypes, ConversationInv', [AgentNext]_vars
  PROVE  RecordTypes'
<1> USE DEF loop, End, RecordTypes
<1>1. msgs \in Seq(Messages) /\ msgs' \in Seq(Messages)
  BY DEF ConversationInv
<1>2. Checkpoint(msgs) \in Seq(Messages) /\ Checkpoint(msgs') \in Seq(Messages)
  BY <1>1, CheckpointTypes
<1>3. todo # <<>> => Head(todo) \in Nat \ {0} /\ Tail(todo) \in Seq(Nat \ {0})
  OBVIOUS
<1>4. CASE Answer
  <2>1. PICK r \in Replies[step] : /\ todo' = [k \in 1 .. r.calls |-> FirstCall + issued + k - 1]
                                   /\ r.calls \in Nat
    BY <1>4, AnswerTypes
  <2>2. issued \in Nat
    BY DEF CountersInv
  <2>3. todo' \in Seq(Nat \ {0})
    BY <2>1, <2>2, CallNames
  <2>4. saved' \in {saved, Checkpoint(msgs')} /\ ran' = ran
    BY <1>4 DEF Answer
  <2> QED
    BY <1>2, <2>3, <2>4
<1>5. CASE ToolBlocked
  BY <1>2, <1>3, <1>5 DEF ToolBlocked, CountersInv
<1>6. CASE ToolStarts
  BY <1>3, <1>6 DEF ToolStarts, CountersInv
<1>7. CASE ToolEnds
  BY <1>3, <1>7 DEF ToolEnds, CountersInv
<1>8. CASE ToolsEnd \/ Insert \/ RequestFails
  BY <1>2, <1>8 DEF ToolsEnd, Insert, RequestFails
<1>9. CASE \/ StartStep \/ Prepare \/ RequestCancelled \/ ToolIdUnknown \/ TransportRetry \/ Overflow
           \/ NextTool \/ ToolAllowed \/ RecoverFromMaxTokens \/ AskToContinue \/ FinishStep
           \/ Stop \/ Over \/ UNCHANGED vars
  BY <1>9 DEF StartStep, Prepare, RequestCancelled, ToolIdUnknown, TransportRetry, Overflow,
              NextTool, ToolAllowed, RecoverFromMaxTokens, AskToContinue, FinishStep, Stop, Over, vars
<1> QED
  BY <1>4, <1>5, <1>6, <1>7, <1>8, <1>9 DEF AgentNext, Loop, Request, Tools

LEMMA RecordStart == AgentInit => RecordTypes /\ RecordInv
<1> SUFFICES ASSUME AgentInit PROVE RecordTypes /\ RecordInv
  OBVIOUS
<1> DEFINE m == UserPrompt(TypedPrompt)
<1>1. History \in Seq(Replayed) /\ ReplaySafe(History)
  BY AgentTurnAssumption
<1>2. History \in Seq(Messages) /\ m \in Messages
  BY <1>1, MessageTypes DEF TypedPrompt, Replayed
<1>3. /\ DOMAIN History = 1 .. Len(History) /\ Len(History) \in Nat
      /\ \A i \in 1 .. Len(History) : History[i] \in Replayed
  BY <1>1
<1>4. m.role # "tool" /\ ~HasCalls(m) /\ m.ckpt /\ m.mark # "summary" /\ m.covers = {}
  BY DEF UserPrompt, Plain, HasCalls
<1> HIDE DEF m
<1>5. Shaped(History)
  BY <1>3 DEF Shaped, Replayed
<1>6. Sound(History, Len(History) + 1)
  <2>1. \A i \in 1 .. Len(History) :
             /\ History[i].role = "tool" => ~History[i].ckpt
             /\ History[i].role = "tool" \/ HasCalls(History[i]) => IsCommitted(History[i])
    BY <1>3 DEF Replayed, HasCalls, IsCommitted
  <2> QED
    BY <1>1, <1>2, <2>1, SafeIsSound
<1>7. msgs = Append(History, m) /\ saved = <<>> /\ ran = {} /\ todo = <<>> /\ pc = "start"
  BY DEF AgentInit, m
<1>8. /\ Len(msgs) = Len(History) + 1 /\ (Len(msgs) + 1) - 1 = Len(History) + 1
      /\ Len(msgs) + 1 = Len(History) + 2 /\ msgs[Len(History) + 1] = m
  BY <1>2, <1>7, AppendFacts
<1>9. Shaped(msgs) /\ Shaped(saved)
  BY <1>2, <1>4, <1>5, <1>7, ShapedAppend DEF Shaped
<1>10. Sound(msgs, Len(msgs) + 1)
  BY <1>2, <1>4, <1>6, <1>7, <1>8, SoundAppend
<1>11. Begun(msgs, Len(msgs) + 1)
  <2>1. Len(History) + 1 \in 1 .. (Len(msgs) + 1) - 1
    BY <1>3, <1>8
  <2> QED
    BY <1>4, <1>8, <2>1 DEF Begun
<1>12. SettledIn(msgs, saved, ran)
  BY <1>7, <1>10, <1>11 DEF SettledIn
<1> QED
  BY <1>7, <1>9, <1>12 DEF RecordTypes, RecordInv, InTools

LEMMA StaysSettled ==
  ASSUME Shaped(msgs'), Shaped(saved'), pc' \notin InTools, SettledIn(msgs', saved', ran')
  PROVE  RecordInv'
BY SettledIsLeft DEF RecordInv

LEMMA StaysOpen ==
  ASSUME Shaped(msgs'), Shaped(saved'), pc' \in InTools,
         NEW o \in 1 .. Len(msgs'), OpenedAt(msgs', saved', (ran \ Doing)', todo', o)
  PROVE  RecordInv'
BY DEF RecordInv, InTools

\* A reduction other than a compaction stays known.
LEMMA ReductionsStay == [AgentNext]_vars => reduced \subseteq reduced'
BY DEF AgentNext, Loop, Request, Tools, Over, StartStep, Prepare, Answer, RequestCancelled,
       RequestFails, TransportRetry, ToolIdUnknown, Overflow, NextTool, ToolAllowed, ToolStarts,
       ToolBlocked, ToolEnds, ToolsEnd, Insert, RecoverFromMaxTokens, AskToContinue, FinishStep,
       Stop, Reduces, vars

\* Requests and the end of a step leave no bundle open.
LEMMA RecordRequests ==
  ASSUME CountersInv, ConversationInv, RecordTypes, RecordInv, reduced' \subseteq {"compacted"},
         \/ StartStep \/ Prepare \/ RequestCancelled \/ RequestFails \/ ToolIdUnknown
         \/ TransportRetry \/ Overflow \/ Insert \/ RecoverFromMaxTokens \/ AskToContinue \/ FinishStep
  PROVE  RecordInv'
<1> USE DEF loop, End
<1>1. msgs \in Seq(Messages) /\ saved \in Seq(Messages) /\ ran \in SUBSET (Nat \ {0})
  BY DEF ConversationInv, RecordTypes
<1>2. reduced \subseteq {"compacted"}
  BY ReductionsStay DEF AgentNext, Loop, Request, Tools
<1>3. pc \notin InTools \cup {"ended"} /\ pc' \notin InTools /\ ran' = ran
  BY DEF InTools, StartStep, Prepare, RequestCancelled, RequestFails, ToolIdUnknown, TransportRetry,
         Overflow, Insert, RecoverFromMaxTokens, AskToContinue, FinishStep
<1>4. Shaped(msgs) /\ Shaped(saved) /\ SettledIn(msgs, saved, ran)
  BY <1>2, <1>3 DEF RecordInv
<1>5. ASSUME NEW m \in Messages, m.role # "tool", m.calls = <<>>, m.mark # "summary", m.covers = {},
             msgs' = Append(msgs, m), saved' \in {saved, Checkpoint(msgs')}
      PROVE  RecordInv'
  <2>1. msgs' \in Seq(Messages) /\ Shaped(msgs')
    BY <1>1, <1>4, <1>5, ShapedAppend, AppendFacts
  <2>2. SettledIn(msgs', saved, ran)
    BY <1>1, <1>4, <1>5, SettledAppend DEF HasCalls
  <2>3. SettledIn(msgs', saved', ran) /\ Shaped(saved')
    BY <1>1, <1>4, <1>5, <2>1, <2>2, SettledCheckpoint, CheckpointShape
  <2> QED
    BY <1>3, <2>1, <2>3, StaysSettled
<1>6. ASSUME \/ msgs' = msgs
             \/ msgs' = Sanitized(msgs)
             \/ \E n \in Nat : CanCompact(msgs, n) /\ msgs' = Compacted(msgs, n),
             saved' = saved
      PROVE  RecordInv'
  <2>1. SettledIn(msgs', saved, ran) /\ Shaped(msgs')
    BY <1>1, <1>4, <1>6, SettledSanitized, SettledCompacted
  <2> QED
    BY <1>3, <1>4, <1>6, <2>1, StaysSettled
<1>7. CASE StartStep \/ RequestCancelled \/ TransportRetry \/ FinishStep
  <2>1. msgs' = msgs /\ saved' = saved
    BY <1>7 DEF StartStep, RequestCancelled, TransportRetry, FinishStep
  <2> QED
    BY <1>6, <2>1
<1>8. CASE Prepare
  <2>1. /\ saved' = saved
        /\ msgs' = msgs \/ (CanCompact(msgs, KeepRounds) /\ msgs' = Compacted(msgs, KeepRounds))
    BY <1>8 DEF Prepare
  <2> QED
    BY <1>6, <2>1, Bounds
<1>9. CASE Overflow
  <2>1. saved' = saved /\ 1 \in Nat
    BY <1>9 DEF Overflow
  <2>2. \/ msgs' = msgs
        \/ CanCompact(msgs, 1) /\ msgs' = Compacted(msgs, 1)
        \/ \E n \in {k \in DOMAIN msgs : k >= KeepLatest} \cup {Len(msgs)} :
              msgs' = Sanitized(Trimmed(msgs, n)) /\ ~(n < Len(msgs))
    BY <1>9 DEF Overflow, Reduces
  <2>3. \A n : ~(n < Len(msgs)) => Trimmed(msgs, n) = msgs
    BY DEF Trimmed
  <2> QED
    BY <1>6, <2>1, <2>2, <2>3
<1>10. CASE RequestFails
  <2>1. CASE msgs' = msgs /\ saved' = saved
    BY <1>6, <2>1
  <2>2. CASE msgs' = Append(msgs, Assistant(TRUE, <<>>)) /\ saved' = Checkpoint(msgs')
    <3> DEFINE m == Assistant(TRUE, <<>>)
    <3>1. <<>> \in Seq(Nat) /\ TRUE \in BOOLEAN
      OBVIOUS
    <3>2. m \in Messages
      BY <3>1, MessageTypes
    <3>3. m.role # "tool" /\ m.calls = <<>> /\ m.mark # "summary" /\ m.covers = {}
      BY DEF Assistant, Plain
    <3> QED
      BY <1>5, <2>2, <3>2, <3>3
  <2> QED
    BY <1>10, <2>1, <2>2 DEF RequestFails
<1>11. CASE Insert
  <2>1. CASE msgs' = msgs /\ saved' = saved
    BY <1>6, <2>1
  <2>2. CASE msgs' = Append(msgs, UserPrompt(InsertedPrompt)) /\ saved' = Checkpoint(msgs')
    <3> DEFINE m == UserPrompt(InsertedPrompt)
    <3>1. m \in Messages
      BY MessageTypes DEF InsertedPrompt
    <3>2. m.role # "tool" /\ m.calls = <<>> /\ m.mark # "summary" /\ m.covers = {}
      BY DEF UserPrompt, Plain
    <3> QED
      BY <1>5, <2>2, <3>1, <3>2
  <2> QED
    BY <1>11, <2>1, <2>2 DEF Insert
<1>12. \A m \in {Plain, InternalUser} :
           m \in Messages /\ m.role # "tool" /\ m.calls = <<>> /\ m.mark # "summary" /\ m.covers = {}
  <2>1. Plain.role # "tool" /\ Plain.calls = <<>> /\ Plain.mark # "summary" /\ Plain.covers = {}
    BY DEF Plain
  <2>2. /\ InternalUser.role # "tool" /\ InternalUser.calls = <<>>
        /\ InternalUser.mark # "summary" /\ InternalUser.covers = {}
    BY DEF InternalUser, Plain
  <2> QED
    BY <2>1, <2>2, MessageTypes
<1>13. CASE ToolIdUnknown \/ AskToContinue
  <2>1. /\ saved' = saved
        /\ msgs' = msgs \/ \E m \in {Plain, InternalUser} : msgs' = Append(msgs, m)
    BY <1>13 DEF ToolIdUnknown, AskToContinue
  <2> QED
    BY <1>5, <1>6, <1>12, <2>1
<1>14. CASE RecoverFromMaxTokens
  <2>1. saved' = saved /\ (msgs' = msgs \/ msgs' = Append(msgs, InternalUser))
    BY <1>14 DEF RecoverFromMaxTokens, Reduces
  <2> QED
    BY <1>5, <1>6, <1>12, <2>1
<1> QED
  BY <1>7, <1>8, <1>9, <1>10, <1>11, <1>13, <1>14

\* A response opens a bundle, or is checkpointed at once.
LEMMA RecordAnswer ==
  ASSUME CountersInv, ConversationInv, RecordTypes, RecordInv, reduced' \subseteq {"compacted"}, Answer
  PROVE  RecordInv'
<1>1. msgs \in Seq(Messages) /\ saved \in Seq(Messages) /\ issued \in Nat
  BY DEF ConversationInv, RecordTypes, CountersInv
<1>2. PICK r \in Replies[step] : \E calls \in Seq(Nat) :
           /\ r.text \in BOOLEAN /\ r.calls \in Nat
           /\ calls = [k \in 1 .. r.calls |-> FirstCall + issued + k - 1]
           /\ todo' = calls /\ msgs' = Append(msgs, Assistant(r.text, calls))
           /\ pc = "request" /\ pc' = IF calls = <<>> THEN "finish" ELSE "tools"
           /\ ran' = ran /\ reduced' = reduced
  BY AnswerTypes
<1> DEFINE calls == [k \in 1 .. r.calls |-> FirstCall + issued + k - 1]
           m == Assistant(r.text, calls)
<1>3. /\ r.text \in BOOLEAN /\ r.calls \in Nat /\ calls \in Seq(Nat)
      /\ todo' = calls /\ msgs' = Append(msgs, m)
      /\ pc = "request" /\ pc' = IF calls = <<>> THEN "finish" ELSE "tools"
      /\ ran' = ran /\ reduced' = reduced
  BY <1>2
<1>4. saved' = IF todo' = <<>> THEN Checkpoint(msgs') ELSE saved
  BY DEF Answer
<1>5. IsInjective(calls)
  BY <1>1, <1>3, CallNames
<1> HIDE DEF calls
<1>6. m \in Messages /\ m.role # "tool" /\ m.calls = calls /\ m.mark # "summary" /\ m.covers = {}
  BY <1>3, MessageTypes DEF Assistant, Plain
<1>7. Shaped(msgs) /\ Shaped(saved) /\ SettledIn(msgs, saved, ran)
  BY <1>3 DEF RecordInv, InTools
<1>8. /\ msgs' \in Seq(Messages) /\ Shaped(msgs') /\ Len(msgs') = Len(msgs) + 1
      /\ Len(msgs) + 1 \in 1 .. Len(msgs')
  <2>1. Len(msgs) \in Nat /\ Len(msgs') = Len(msgs) + 1
    BY <1>1, <1>3, <1>6, AppendFacts
  <2>2. msgs' \in Seq(Messages)
    BY <1>1, <1>3, <1>6, AppendFacts
  <2>3. Shaped(msgs')
    BY <1>1, <1>3, <1>6, <1>7, ShapedAppend
  <2> QED
    BY <2>1, <2>2, <2>3
<1>9. CASE calls = <<>>
  <2>1. SettledIn(msgs', saved, ran)
    BY <1>1, <1>3, <1>6, <1>7, <1>9, SettledAppend DEF HasCalls
  <2>2. SettledIn(msgs', saved', ran') /\ Shaped(saved')
    BY <1>1, <1>3, <1>4, <1>7, <1>8, <1>9, <2>1, SettledCheckpoint, CheckpointShape
  <2> QED
    BY <1>3, <1>8, <1>9, <2>2, StaysSettled DEF InTools
<1>10. CASE calls # <<>>
  <2>1. OpenedAt(msgs', saved, ran, calls, Len(msgs) + 1)
    BY <1>1, <1>3, <1>5, <1>7, <1>10, Opens
  <2>2. pc' = "tools" /\ saved' = saved
    BY <1>3, <1>4, <1>10
  <2>3. (ran \ Doing)' = ran /\ todo' = calls
    BY <1>3, <2>2 DEF Doing
  <2> QED
    BY <1>7, <1>8, <2>1, <2>2, <2>3, StaysOpen DEF InTools
<1> QED
  BY <1>9, <1>10

\* The calls of a response, one after another.
LEMMA RecordCalls ==
  ASSUME CountersInv, ConversationInv, RecordTypes, RecordInv, reduced' \subseteq {"compacted"},
         NextTool \/ ToolAllowed \/ ToolBlocked \/ ToolStarts \/ ToolEnds
  PROVE  RecordInv'
<1> USE DEF loop, End
<1>1. msgs \in Seq(Messages) /\ saved \in Seq(Messages) /\ todo \in Seq(Nat)
      /\ DOMAIN msgs = 1 .. Len(msgs)
  BY ListFacts DEF ConversationInv, RecordTypes
<1>2. reduced \subseteq {"compacted"}
  BY ReductionsStay DEF AgentNext, Loop, Request, Tools
<1>3. pc \in InTools /\ pc # "ended" /\ todo # <<>>
  BY DEF InTools, NextTool, ToolAllowed, ToolBlocked, ToolStarts, ToolEnds, CountersInv
<1>4. Shaped(msgs) /\ Shaped(saved)
  BY <1>2 DEF RecordInv
<1>5. PICK o \in 1 .. Len(msgs) : OpenedAt(msgs, saved, ran \ Doing, todo, o)
  BY <1>2, <1>3 DEF RecordInv
<1>6. CASE NextTool \/ ToolAllowed \/ ToolStarts
  <2>1. msgs' = msgs /\ saved' = saved /\ todo' = todo /\ pc # "running"
    BY <1>6 DEF NextTool, ToolAllowed, ToolStarts
  <2>2. OpenedAt(msgs, saved, ran, todo, o)
    BY <1>5, <2>1 DEF Doing
  <2>3. CASE pc' = "ended" /\ ran' = ran
    <3>1. LeftIn(msgs, saved, ran)
      BY <1>1, <2>2, OpenedIsLeft
    <3> QED
      BY <1>4, <2>1, <2>3, <3>1 DEF RecordInv, InTools
  <2>4. CASE pc' \in InTools /\ (ran \ Doing)' \subseteq ran
    <3>1. OpenedAt(msgs', saved', (ran \ Doing)', todo', o)
      BY <2>1, <2>2, <2>4, OpenedForLess
    <3> QED
      BY <1>4, <2>1, <2>4, <3>1, StaysOpen
  <2> QED
    BY <1>6, <2>3, <2>4 DEF NextTool, ToolAllowed, ToolStarts, InTools, Doing
<1>7. CASE ToolBlocked \/ ToolEnds
  <2> DEFINE m == ToolResult(Head(todo))
  <2>1. /\ pc' = "tools" /\ msgs' = Append(msgs, m) /\ todo' = Tail(todo) /\ ran' = ran
        /\ saved' \in {saved, Checkpoint(msgs')}
    BY <1>7 DEF ToolBlocked, ToolEnds
  <2>2. Head(todo) \in Nat
    BY <1>1, <1>3
  <2>3. m \in Messages /\ m.mark # "summary" /\ m.covers = {}
    BY <2>2, MessageTypes DEF ToolResult, Plain
  <2> HIDE DEF m
  <2>4. msgs' \in Seq(Messages) /\ Shaped(msgs') /\ o \in 1 .. Len(msgs')
    <3>1. Len(msgs) \in Nat /\ Len(msgs') = Len(msgs) + 1
      BY <1>1, <2>1, <2>3, AppendFacts
    <3> QED
      BY <1>1, <1>4, <2>1, <2>3, <3>1, ShapedAppend, AppendFacts
  <2>5. OpenedAt(msgs', saved, (ran \ Doing) \cup {Head(todo)}, todo', o)
    BY <1>1, <1>3, <1>5, <2>1, ResultArrives DEF m
  <2>6. ran \subseteq (ran \ Doing) \cup {Head(todo)}
    BY DEF Doing
  <2>7. OpenedAt(msgs', saved, ran, todo', o)
    BY <2>5, <2>6, OpenedForLess
  <2>8. OpenedAt(msgs', saved', ran, todo', o) /\ Shaped(saved')
    BY <1>4, <2>1, <2>4, <2>7, OpenedCheckpoint, CheckpointShape
  <2>9. (ran \ Doing)' = ran
    BY <2>1 DEF Doing
  <2> QED
    BY <2>1, <2>4, <2>8, <2>9, StaysOpen DEF InTools
<1> QED
  BY <1>6, <1>7

\* The last call is through: the bundle is whole and is checkpointed.
LEMMA RecordToolsEnd ==
  ASSUME CountersInv, ConversationInv, RecordTypes, RecordInv, reduced' \subseteq {"compacted"}, ToolsEnd
  PROVE  RecordInv'
<1>1. msgs \in Seq(Messages) /\ saved \in Seq(Messages)
  BY DEF ConversationInv, RecordTypes
<1>2. reduced \subseteq {"compacted"}
  BY ReductionsStay DEF AgentNext, Loop, Tools
<1>3. /\ pc = "tools" /\ todo = <<>> /\ saved' = Checkpoint(msgs') /\ pc' \in {"finish", "insert"}
      /\ ran' = ran /\ msgs' = msgs
  BY DEF ToolsEnd, Reduces
<1>4. Shaped(msgs) /\ Shaped(saved)
  BY <1>2 DEF RecordInv
<1>5. PICK o \in 1 .. Len(msgs) : OpenedAt(msgs, saved, ran \ Doing, todo, o)
  BY <1>2, <1>3 DEF RecordInv, InTools
<1>6. OpenedAt(msgs, saved, ran, <<>>, o)
  BY <1>3, <1>5 DEF Doing
<1>7. SettledIn(msgs, Checkpoint(msgs), ran)
  BY <1>1, <1>6, Settles
<1>8. Shaped(Checkpoint(msgs))
  BY <1>1, <1>4, CheckpointShape
<1> QED
  BY <1>3, <1>4, <1>7, <1>8, StaysSettled DEF InTools

LEMMA RecordStep ==
  ASSUME CountersInv, ConversationInv, RecordTypes, RecordInv, [AgentNext]_vars
  PROVE  RecordInv'
<1> SUFFICES ASSUME reduced' \subseteq {"compacted"} PROVE RecordInv'
  BY DEF RecordInv
<1>1. CASE \/ StartStep \/ Prepare \/ RequestCancelled \/ RequestFails \/ ToolIdUnknown
           \/ TransportRetry \/ Overflow \/ Insert \/ RecoverFromMaxTokens \/ AskToContinue \/ FinishStep
  BY <1>1, RecordRequests
<1>2. CASE Answer
  BY <1>2, RecordAnswer
<1>3. CASE NextTool \/ ToolAllowed \/ ToolBlocked \/ ToolStarts \/ ToolEnds
  BY <1>3, RecordCalls
<1>4. CASE ToolsEnd
  BY <1>4, RecordToolsEnd
<1>5. CASE Stop \/ Over \/ UNCHANGED vars
  <2>1. UNCHANGED <<msgs, saved, ran, pc, todo, reduced>>
    BY <1>5 DEF Stop, Over, vars, loop
  <2> QED
    BY <2>1 DEF RecordInv, Doing
<1> QED
  BY <1>1, <1>2, <1>3, <1>4, <1>5 DEF AgentNext, Loop, Request, Tools

LEMMA RecordAlways == AgentSpec => [](CountersInv /\ ConversationInv /\ RecordTypes /\ RecordInv)
<1>1. CountersInv /\ ConversationInv /\ RecordTypes /\ RecordInv /\ [AgentNext]_vars
      => (CountersInv /\ ConversationInv /\ RecordTypes /\ RecordInv)'
  BY CountersStep, ConversationStep, RecordTypesStep, RecordStep
<1> QED
  BY <1>1, CountersStart, ConversationStart, RecordStart, PTL DEF AgentSpec

\* When a tool starts, what every earlier call of the turn did can be recovered from
\* the checkpoint, unless the call is one of the same response.
THEOREM StepsAreDurable == AgentSpec => []EarlierStepsAreDurable
<1>1. ASSUME CountersInv, ConversationInv, RecordTypes, RecordInv PROVE EarlierStepsAreDurable
  <2> SUFFICES ASSUME pc = "running", reduced \subseteq {"compacted"}, NEW c \in ran
               PROVE  \/ c \in Results(saved) \cup Covered(saved)
                      \/ \E i \in DOMAIN msgs : /\ HasCalls(msgs[i])
                                                /\ c \in ToSet(msgs[i].calls)
                                                /\ Head(todo) \in ToSet(msgs[i].calls)
    BY DEF EarlierStepsAreDurable
  <2>1. msgs \in Seq(Messages) /\ todo \in Seq(Nat) /\ todo # <<>>
    BY <1>1 DEF ConversationInv, CountersInv
  <2>2. PICK o \in 1 .. Len(msgs) : OpenedAt(msgs, saved, ran \ Doing, todo, o)
    BY <1>1 DEF RecordInv, InTools
  <2> DEFINE calls == msgs[o].calls
             n == Len(msgs) - o
  <2>3. /\ HasCalls(msgs[o]) /\ Len(calls) = n + Len(todo)
        /\ \A k \in 1 .. Len(todo) : todo[k] = calls[n + k]
        /\ \A d \in ran \ Doing : \/ Held(d, msgs, o) /\ KnownIn(d, saved)
                                  \/ \E k \in 1 .. n : d = calls[k]
    BY <2>2 DEF OpenedAt
  <2>4. /\ o \in DOMAIN msgs /\ n \in Nat /\ DOMAIN calls = 1 .. Len(calls)
        /\ Len(todo) \in Nat \ {0} /\ Head(todo) = todo[1]
    BY <2>1, ListFacts
  <2> HIDE DEF calls, n
  <2>5. ToSet(calls) = {calls[k] : k \in 1 .. Len(calls)}
    BY <2>4 DEF ToSet
  <2>6. Head(todo) \in ToSet(calls) /\ \A k \in 1 .. n : calls[k] \in ToSet(calls)
    <3>1. n + 1 \in 1 .. Len(calls) /\ \A k \in 1 .. n : k \in 1 .. Len(calls)
      BY <2>3, <2>4
    <3>2. 1 \in 1 .. Len(todo)
      BY <2>4
    <3> QED
      BY <2>3, <2>4, <2>5, <3>1, <3>2
  <2>7. CASE c = Head(todo) \/ \E k \in 1 .. n : c = calls[k]
    BY <2>3, <2>4, <2>6, <2>7 DEF calls
  <2>8. CASE KnownIn(c, saved)
    BY <2>8 DEF KnownIn, Carries, Results, Covered
  <2>9. c \in Doing => c = Head(todo)
    BY DEF Doing
  <2> QED
    BY <2>3, <2>7, <2>8, <2>9
<1> QED
  BY <1>1, RecordAlways, PTL

-----------------------------------------------------------------------------
(* Reading back the events of a turn *)

\* Two messages that say the same about who wrote them and what they stand for.
Alike(a, b) == a.role = b.role /\ a.ref = b.ref /\ a.covers = b.covers /\ a.mark = b.mark

LEMMA CallsAdded ==
  ASSUME NEW xs \in Seq(Messages), NEW at \in 1 .. Len(xs), NEW calls \in Seq(Nat)
  PROVE  LET ys == [xs EXCEPT ![at].calls = @ \o calls]
         IN  /\ ys \in Seq(Messages) /\ Len(ys) = Len(xs)
             /\ \A p \in 1 .. Len(xs) : Alike(ys[p], xs[p])
<1> DEFINE m == [xs[at] EXCEPT !.calls = @ \o calls]
           ys == [xs EXCEPT ![at].calls = @ \o calls]
<1>1. /\ DOMAIN xs = 1 .. Len(xs) /\ Len(xs) \in Nat
      /\ \A p \in 1 .. Len(xs) : xs[p] \in Messages /\ xs[p].calls \in Seq(Nat)
  BY ListFacts
<1>2. m \in Messages /\ Alike(m, xs[at])
  <2>1. xs[at] \in Messages /\ xs[at].calls \o calls \in Seq(Nat)
    BY <1>1
  <2> QED
    BY <2>1 DEF Messages, Alike
<1>3. ys = [p \in 1 .. Len(xs) |-> IF p = at THEN m ELSE xs[p]]
  BY <1>1
<1> HIDE DEF m, ys
<1>4. ys \in Seq(Messages) /\ Len(ys) = Len(xs)
  BY <1>1, <1>2, <1>3
<1>5. \A p \in 1 .. Len(xs) : Alike(ys[p], xs[p])
  BY <1>2, <1>3 DEF Alike
<1> QED
  BY <1>4, <1>5 DEF ys

\* One message more: what was read stays, and at most the message comes behind it.
LEMMA ReadBackGrows ==
  ASSUME NEW acc, acc.out \in Seq(Messages), acc.at \in 0 .. Len(acc.out), NEW m \in Messages,
         m.mark = "summary" => m.role = "assistant" /\ m.calls = <<>>
  PROVE  LET r == ReadBack(acc, m)
         IN  /\ r.out \in Seq(Messages) /\ r.at \in 0 .. Len(r.out)
             /\ \/ Len(r.out) = Len(acc.out)
                \/ Len(r.out) = Len(acc.out) + 1 /\ Alike(r.out[Len(acc.out) + 1], m)
             /\ \A p \in 1 .. Len(acc.out) : Alike(r.out[p], acc.out[p])
             /\ m.role = "tool" \/ m.mark = "summary" => Len(r.out) = Len(acc.out) + 1
<1> DEFINE n == Len(acc.out)
           plain == [m EXCEPT !.calls = <<>>, !.ckpt = FALSE]
           own == [m EXCEPT !.ckpt = FALSE]
           next == Append(acc.out, plain)
           spoken == m.role = "assistant" /\ m.mark = "none" /\ m.text
           at == IF spoken THEN n + 1 ELSE acc.at
           r == ReadBack(acc, m)
           Good(out) == /\ out \in Seq(Messages)
                        /\ \/ Len(out) = n
                           \/ Len(out) = n + 1 /\ Alike(out[n + 1], m)
                        /\ \A p \in 1 .. n : Alike(out[p], acc.out[p])
<1>1. <<>> \in Seq(Nat) /\ n \in Nat
  BY ListFacts
<1>2. plain \in Messages /\ own \in Messages /\ Alike(plain, m) /\ Alike(own, m)
  BY <1>1 DEF Messages, Alike
<1>3. m.calls \in Seq(Nat)
  BY DEF Messages
<1> HIDE DEF plain, own
<1>4. Good(acc.out)
  BY <1>1 DEF Alike
<1>5. ASSUME NEW x \in {plain, own} PROVE Good(Append(acc.out, x)) /\ Len(Append(acc.out, x)) = n + 1
  <2>1. x \in Messages /\ Alike(x, m)
    BY <1>2
  <2>2. /\ Append(acc.out, x) \in Seq(Messages) /\ Len(Append(acc.out, x)) = n + 1
        /\ Append(acc.out, x)[n + 1] = x
        /\ \A p \in 1 .. n : Append(acc.out, x)[p] = acc.out[p]
    BY <2>1, AppendFacts
  <2> QED
    BY <2>1, <2>2 DEF Alike
<1>6. r = CASE m.role = "tool" -> [out |-> next, at |-> 0]
            [] m.role = "user" \/ m.mark = "summary" -> [out |-> next, at |-> acc.at]
            [] HasCalls(m) /\ at = 0 -> [out |-> Append(acc.out, own), at |-> n + 1]
            [] HasCalls(m) /\ at # 0 ->
                  [out |-> [(IF spoken THEN next ELSE acc.out) EXCEPT ![at].calls = @ \o m.calls],
                   at |-> at]
            [] OTHER -> [out |-> IF spoken THEN next ELSE acc.out, at |-> at]
  BY DEF ReadBack, plain, own
<1> HIDE DEF r
<1> DEFINE Goal == /\ Good(r.out) /\ r.at \in 0 .. Len(r.out)
                   /\ m.role = "tool" \/ m.mark = "summary" => Len(r.out) = n + 1
<1>7. ASSUME m.role = "tool" \/ m.role = "user" \/ m.mark = "summary" PROVE Goal
  <2>1. r.out = next /\ r.at \in {0, acc.at}
    <3>1. CASE m.role = "tool"
      <4>1. r = [out |-> next, at |-> 0]
        BY <1>6, <3>1 DEF HasCalls
      <4> QED
        BY <4>1
    <3>2. CASE m.role # "tool" /\ (m.role = "user" \/ m.mark = "summary")
      <4>1. r = [out |-> next, at |-> acc.at]
        BY <1>6, <3>2 DEF HasCalls
      <4> QED
        BY <4>1
    <3> QED
      BY <1>7, <3>1, <3>2
  <2>2. Good(next) /\ Len(next) = n + 1
    BY <1>5
  <2> QED
    BY <1>1, <2>1, <2>2
<1>8. ASSUME ~(m.role = "tool" \/ m.role = "user" \/ m.mark = "summary") PROVE Goal
  <2> DEFINE xs == IF spoken THEN next ELSE acc.out
  <2>1. Good(xs) /\ at \in 0 .. Len(xs)
    <3>1. CASE spoken
      BY <1>1, <1>5, <3>1
    <3>2. CASE ~spoken
      BY <1>4, <3>2
    <3> QED
      BY <3>1, <3>2
  <2>2. CASE HasCalls(m) /\ at = 0
    <3>1. r.out = Append(acc.out, own) /\ r.at = n + 1
      <4>1. r = [out |-> Append(acc.out, own), at |-> n + 1]
        BY <1>6, <1>8, <2>2
      <4> QED
        BY <4>1
    <3>2. Good(r.out) /\ Len(r.out) = n + 1
      BY <1>5, <3>1
    <3> QED
      BY <1>1, <1>8, <3>1, <3>2
  <2>3. CASE HasCalls(m) /\ at # 0
    <3> DEFINE ys == [xs EXCEPT ![at].calls = @ \o m.calls]
    <3>1. r.out = ys /\ r.at = at
      <4>1. r = [out |-> ys, at |-> at]
        BY <1>6, <1>8, <2>3
      <4> QED
        BY <4>1
    <3> HIDE DEF xs, at
    <3>2. at \in 1 .. Len(xs) /\ Len(xs) \in Nat
      BY <1>1, <2>1, <2>3
    <3>3. ys \in Seq(Messages) /\ Len(ys) = Len(xs) /\ \A p \in 1 .. Len(xs) : Alike(ys[p], xs[p])
      BY <1>3, <2>1, <3>2, CallsAdded
    <3> HIDE DEF ys
    <3>4. Good(ys)
      BY <1>1, <2>1, <3>3 DEF Alike
    <3>5. Good(r.out)
      BY <3>1, <3>4
    <3>6. r.at \in 0 .. Len(r.out)
      BY <3>1, <3>2, <3>3
    <3> QED
      BY <1>8, <3>5, <3>6
  <2>4. CASE ~HasCalls(m)
    <3>1. r.out = xs /\ r.at = at
      <4>1. r = [out |-> xs, at |-> at]
        BY <1>6, <1>8, <2>4
      <4> QED
        BY <4>1
    <3> HIDE DEF xs, at
    <3>2. Good(r.out) /\ r.at \in 0 .. Len(r.out)
      BY <2>1, <3>1
    <3> QED
      BY <1>8, <3>2
  <2> QED
    BY <2>2, <2>3, <2>4
<1>9. Goal
  BY <1>7, <1>8
<1> HIDE DEF n
<1>10. /\ r.out \in Seq(Messages) /\ r.at \in 0 .. Len(r.out)
       /\ \/ Len(r.out) = n
          \/ Len(r.out) = n + 1 /\ Alike(r.out[n + 1], m)
       /\ \A p \in 1 .. n : Alike(r.out[p], acc.out[p])
       /\ m.role = "tool" \/ m.mark = "summary" => Len(r.out) = n + 1
  BY <1>9
<1> QED
  BY <1>10 DEF r, n

\* The stages of reading back messages ms.
Reading(f, ms) ==
    f = [n \in 0 .. Len(ms) |->
            IF n = 0 THEN [out |-> <<>>, at |-> 0] ELSE ReadBack(f[n - 1], ms[n])]

LEMMA ReadingExists ==
  ASSUME NEW ms \in Seq(Messages) PROVE \E f : Reading(f, ms)
<1> DEFINE n == Len(ms)
           Stage(f, i) == IF i = 0 THEN [out |-> <<>>, at |-> 0] ELSE ReadBack(f[i - 1], ms[i])
           C(k) == \E f : f = [i \in 0 .. k |-> Stage(f, i)]
           T == {k \in Nat : C(k)}
<1>1. n \in Nat
  BY ListFacts
<1>2. C(0)
  <2> DEFINE g == [i \in 0 .. 0 |-> [out |-> <<>>, at |-> 0]]
  <2>1. g = [i \in 0 .. 0 |-> Stage(g, i)]
    OBVIOUS
  <2> HIDE DEF g
  <2> QED
    BY <2>1
<1>3. ASSUME NEW k \in Nat, k > 0, C(k - 1) PROVE C(k)
  <2>1. PICK f : f = [i \in 0 .. k - 1 |-> Stage(f, i)]
    BY <1>3
  <2> DEFINE g == [i \in 0 .. k |-> IF i = k THEN ReadBack(f[k - 1], ms[k]) ELSE f[i]]
  <2>2. \A i \in 0 .. k - 1 : g[i] = f[i]
    BY <1>3
  <2>3. g[k] = ReadBack(f[k - 1], ms[k])
    BY <1>3
  <2>4. g = [i \in 0 .. k |-> g[i]]
    OBVIOUS
  <2> HIDE DEF g
  <2>5. ASSUME NEW i \in 0 .. k PROVE g[i] = Stage(g, i)
    <3>1. CASE i = k
      <4>1. k - 1 \in 0 .. k - 1 /\ k # 0
        BY <1>3
      <4> QED
        BY <2>2, <2>3, <3>1, <4>1
    <3>2. CASE i # k
      <4>1. i \in 0 .. k - 1 /\ (i # 0 => i - 1 \in 0 .. k - 1)
        BY <1>3, <3>2
      <4>2. f[i] = Stage(f, i)
        BY <2>1, <4>1
      <4> QED
        BY <2>2, <4>1, <4>2
    <3> QED
      BY <3>1, <3>2
  <2> HIDE DEF Stage
  <2>6. g = [i \in 0 .. k |-> Stage(g, i)]
    BY <2>4, <2>5, Zenon
  <2> QED
    BY <2>6
<1> HIDE DEF C
<1>4. ASSUME NEW k \in 1 .. n, \A i \in 1 .. k - 1 : i \in T PROVE k \in T
  <2>1. CASE k = 1
    BY <1>2, <1>3, <2>1
  <2>2. CASE k > 1
    BY <1>3, <1>4, <2>2
  <2> QED
    BY <2>1, <2>2
<1>5. n \in T
  <2>1. \A k \in 1 .. n : (\A i \in 1 .. k - 1 : i \in T) => k \in T
    BY <1>4
  <2>2. 0 \in T
    BY <1>2
  <2> HIDE DEF T, n
  <2>3. \A k \in 1 .. n : k \in T
    BY <1>1, <2>1, Upto
  <2> QED
    BY <1>1, <2>2, <2>3
<1> QED
  BY <1>5 DEF Reading, C

LEMMA ReadBackStages ==
  ASSUME NEW ms \in Seq(Messages)
  PROVE  \E f : /\ ReadBackAll(ms) = f[Len(ms)].out
                /\ f[0] = [out |-> <<>>, at |-> 0]
                /\ \A n \in 1 .. Len(ms) : f[n] = ReadBack(f[n - 1], ms[n])
<1> DEFINE f == CHOOSE g : Reading(g, ms)
<1>1. Reading(f, ms)
  BY ReadingExists
<1>2. ReadBackAll(ms) = f[Len(ms)].out
  BY DEF ReadBackAll, Reading
<1> HIDE DEF f
<1>3. Len(ms) \in Nat
  BY ListFacts
<1>4. \A n \in 0 .. Len(ms) :
          f[n] = IF n = 0 THEN [out |-> <<>>, at |-> 0] ELSE ReadBack(f[n - 1], ms[n])
  BY <1>1, Zenon DEF Reading
<1>5. f[0] = [out |-> <<>>, at |-> 0]
  BY <1>3, <1>4
<1>6. \A n \in 1 .. Len(ms) : f[n] = ReadBack(f[n - 1], ms[n])
  <2>1. \A n \in 1 .. Len(ms) : n \in 0 .. Len(ms) /\ n # 0
    BY <1>3
  <2> QED
    BY <1>4, <2>1
<1> QED
  BY <1>2, <1>5, <1>6

\* Results and compactions are read back, a compaction as the first message.
LEMMA ReadBackKeeps ==
  ASSUME NEW ms \in Seq(Messages), Shaped(ms)
  PROVE  LET read == ReadBackAll(ms)
         IN  /\ read \in Seq(Messages)
             /\ \A p \in 1 .. Len(read) : read[p].mark = "summary" => p = 1
             /\ \A i \in 1 .. Len(ms) : ms[i].role = "tool" \/ ms[i].mark = "summary" =>
                    \E p \in 1 .. Len(read) : Alike(read[p], ms[i])
<1>1. PICK f : /\ ReadBackAll(ms) = f[Len(ms)].out
               /\ f[0] = [out |-> <<>>, at |-> 0]
               /\ \A n \in 1 .. Len(ms) : f[n] = ReadBack(f[n - 1], ms[n])
  BY ReadBackStages
<1>2. DOMAIN ms = 1 .. Len(ms) /\ Len(ms) \in Nat /\ \A i \in 1 .. Len(ms) : ms[i] \in Messages
  BY ListFacts
<1> DEFINE Read(k) == /\ f[k].out \in Seq(Messages) /\ f[k].at \in 0 .. Len(f[k].out)
                      /\ \A p \in 1 .. Len(f[k].out) : f[k].out[p].mark = "summary" => p = 1
                      /\ \A i \in 1 .. k : ms[i].role = "tool" \/ ms[i].mark = "summary" =>
                             \E p \in 1 .. Len(f[k].out) : Alike(f[k].out[p], ms[i])
           T == {k \in 0 .. Len(ms) : Read(k)}
<1>3. Read(0)
  <2>1. f[0].out = <<>> /\ f[0].at = 0
    BY <1>1
  <2>2. <<>> \in Seq(Messages) /\ Len(<<>>) = 0
    OBVIOUS
  <2> QED
    BY <2>1, <2>2
<1>4. ASSUME NEW k \in 1 .. Len(ms), Read(k - 1) PROVE Read(k)
  <2> DEFINE a == f[k - 1]
             n == Len(a.out)
             r == f[k]
             m == ms[k]
  <2>1. /\ a.out \in Seq(Messages) /\ a.at \in 0 .. n
        /\ \A p \in 1 .. n : a.out[p].mark = "summary" => p = 1
        /\ \A i \in 1 .. k - 1 : ms[i].role = "tool" \/ ms[i].mark = "summary" =>
               \E p \in 1 .. n : Alike(a.out[p], ms[i])
    BY <1>4
  <2>2. m \in Messages /\ (m.mark = "summary" => k = 1 /\ m.role = "assistant" /\ m.calls = <<>>)
    BY <1>2 DEF Shaped
  <2>3. r = ReadBack(a, m)
    BY <1>1
  <2> HIDE DEF a, r, m
  <2>4. /\ r.out \in Seq(Messages) /\ r.at \in 0 .. Len(r.out)
        /\ \/ Len(r.out) = n
           \/ Len(r.out) = n + 1 /\ Alike(r.out[n + 1], m)
        /\ \A p \in 1 .. n : Alike(r.out[p], a.out[p])
        /\ m.role = "tool" \/ m.mark = "summary" => Len(r.out) = n + 1
    BY <2>1, <2>2, <2>3, ReadBackGrows
  <2>5. n \in Nat /\ Len(r.out) \in Nat
    BY <2>1, <2>4, ListFacts
  <2>6. k = 1 => n = 0
    BY <1>1 DEF a
  <2> HIDE DEF n
  <2>7. ASSUME NEW p \in 1 .. Len(r.out), r.out[p].mark = "summary" PROVE p = 1
    <3>1. CASE p \in 1 .. n
      BY <2>1, <2>4, <2>7, <3>1 DEF Alike
    <3>2. CASE p = n + 1 /\ Alike(r.out[n + 1], m)
      BY <2>2, <2>6, <2>7, <3>2 DEF Alike
    <3> QED
      BY <2>4, <2>5, <3>1, <3>2
  <2>8. ASSUME NEW i \in 1 .. k, ms[i].role = "tool" \/ ms[i].mark = "summary"
        PROVE  \E p \in 1 .. Len(r.out) : Alike(r.out[p], ms[i])
    <3>1. CASE i = k
      <4>1. n + 1 \in 1 .. Len(r.out) /\ Alike(r.out[n + 1], m)
        BY <2>4, <2>5, <2>8, <3>1 DEF m
      <4> QED
        BY <3>1, <4>1 DEF m
    <3>2. CASE i # k
      <4>1. i \in 1 .. k - 1
        BY <1>2, <3>2
      <4>2. PICK p \in 1 .. n : Alike(a.out[p], ms[i])
        BY <2>1, <2>8, <4>1
      <4>3. p \in 1 .. Len(r.out)
        BY <2>4, <2>5
      <4> QED
        BY <2>4, <4>2, <4>3 DEF Alike
    <3> QED
      BY <3>1, <3>2
  <2> QED
    BY <2>4, <2>7, <2>8 DEF r
<1>5. ASSUME NEW k \in 1 .. Len(ms), \A i \in 1 .. k - 1 : i \in T PROVE k \in T
  <2> HIDE DEF Read
  <2>1. CASE k = 1
    BY <1>3, <1>4, <2>1
  <2>2. CASE k > 1
    <3>1. k - 1 \in 1 .. k - 1
      BY <2>2
    <3> QED
      BY <1>4, <1>5, <3>1
  <2> QED
    BY <2>1, <2>2
<1>6. Len(ms) \in T
  <2>1. \A k \in 1 .. Len(ms) : (\A i \in 1 .. k - 1 : i \in T) => k \in T
    BY <1>5
  <2>2. 0 \in T
    BY <1>2, <1>3
  <2> HIDE DEF T
  <2>3. \A k \in 1 .. Len(ms) : k \in T
    BY <1>2, <2>1, Upto
  <2> QED
    BY <1>2, <2>2, <2>3
<1>7. Read(Len(ms))
  BY <1>6
<1> QED
  BY <1>1, <1>7

\* The prompt that is put in is one of the user.
LEMMA RawPromptKeeps ==
  ASSUME NEW ms \in Seq(Messages), Shaped(ms), NEW prompt \in Nat, NEW c, KnownIn(c, ms)
  PROVE  LET events == WithRawPrompt(ms, prompt)
         IN  events \in Seq(Messages) /\ Shaped(events) /\ KnownIn(c, events)
<1> DEFINE events == WithRawPrompt(ms, prompt)
<1>1. DOMAIN ms = 1 .. Len(ms) /\ Len(ms) \in Nat /\ \A i \in 1 .. Len(ms) : ms[i] \in Messages
  BY ListFacts
<1>2. PICK u : events = [i \in 1 .. Len(ms) |-> IF i \in u THEN [ms[i] EXCEPT !.ref = prompt] ELSE ms[i]]
               /\ \A i \in u : i \in 1 .. Len(ms) /\ ms[i].role = "user"
  <2> DEFINE users == {i \in DOMAIN ms : ms[i].role = "user"}
             first == CHOOSE i \in users : \A v \in users : i <= v
             u == IF users = {} THEN {} ELSE {first}
  <2>1. users # {} => first \in users
    <3>1. users \in SUBSET Nat
      BY <1>1
    <3> HIDE DEF users
    <3> QED
      BY <3>1, Least
  <2>2. events = [i \in DOMAIN ms |-> IF users # {} /\ i = first THEN [ms[i] EXCEPT !.ref = prompt] ELSE ms[i]]
    BY DEF WithRawPrompt
  <2>3. \A i : i \in u <=> users # {} /\ i = first
    OBVIOUS
  <2>4. \A i \in u : i \in 1 .. Len(ms) /\ ms[i].role = "user"
    BY <1>1, <2>1
  <2> HIDE DEF u, events, users, first
  <2> QED
    BY <1>1, <2>2, <2>3, <2>4
<1> HIDE DEF events
<1>3. ASSUME NEW i \in 1 .. Len(ms)
      PROVE  /\ events[i] \in Messages
             /\ events[i].role = ms[i].role /\ events[i].calls = ms[i].calls
             /\ events[i].covers = ms[i].covers /\ events[i].mark = ms[i].mark
             /\ ms[i].role # "user" => events[i] = ms[i]
  <2>1. [ms[i] EXCEPT !.ref = prompt] \in Messages
    BY <1>1 DEF Messages
  <2> QED
    BY <1>1, <1>2, <2>1 DEF Messages
<1>4. events \in Seq(Messages) /\ DOMAIN events = 1 .. Len(ms)
  BY <1>1, <1>2, <1>3
<1>5. Shaped(events)
  BY <1>1, <1>3, <1>4 DEF Shaped
<1>6. KnownIn(c, events)
  BY <1>1, <1>3, <1>4 DEF KnownIn, Carries
<1> QED
  BY <1>4, <1>5, <1>6 DEF events

LEMMA KnownInPart ==
  ASSUME NEW a \in Seq(Messages), NEW b \in Seq(Messages), NEW d \in Seq(Messages), NEW c,
         KnownIn(c, b)
  PROVE  KnownIn(c, a \o b \o d)
<1>1. Len(a) \in Nat /\ Len(b) \in Nat /\ Len(d) \in Nat /\ DOMAIN b = 1 .. Len(b)
  OBVIOUS
<1>2. PICK i \in 1 .. Len(b) : Carries(b[i], c)
  BY <1>1 DEF KnownIn
<1>3. (a \o b) \in Seq(Messages) /\ Len(a \o b) = Len(a) + Len(b) /\ (a \o b)[Len(a) + i] = b[i]
  BY <1>1
<1> DEFINE ab == a \o b
<1> HIDE DEF ab
<1>4. ab \in Seq(Messages) /\ Len(ab) = Len(a) + Len(b) /\ ab[Len(a) + i] = b[i]
  BY <1>3 DEF ab
<1>5. Len(a) + i \in 1 .. Len(ab)
  BY <1>1, <1>4
<1>6. Len(a) + i \in DOMAIN (ab \o d) /\ (ab \o d)[Len(a) + i] = ab[Len(a) + i]
  BY <1>1, <1>4, <1>5
<1>7. KnownIn(c, ab \o d)
  BY <1>2, <1>4, <1>6 DEF KnownIn
<1> QED
  BY <1>7 DEF ab

\* What the committed messages of a turn tell, the next turn reads.
LEMMA ConversationKnows ==
  ASSUME NEW history \in Seq(Messages), NEW ms \in Seq(Messages), Shaped(ms), NEW prompt \in Nat,
         NEW answered \in BOOLEAN, NEW c, KnownIn(c, ms)
  PROVE  KnownIn(c, Conversation(history, ms, prompt, answered))
<1> DEFINE events == WithRawPrompt(ms, prompt)
           read == ReadBackAll(events)
           ofSummary == {i \in DOMAIN read : read[i].mark = "summary"}
           ofUser == {i \in DOMAIN read : read[i].role = "user"}
           summaries == Only(read, ofSummary)
           base == IF summaries = <<>> THEN history ELSE <<>>
           last == IF read # <<>> THEN read[Len(read)] ELSE Plain
           ending == IF ~answered \/ (last.role = "assistant" /\ ~HasCalls(last))
                      THEN <<>> ELSE <<Assistant(TRUE, <<>>)>>
           spoke == answered \/ \E i \in DOMAIN read : read[i].role = "assistant" /\ read[i].mark = "none"
           acted == \E i \in DOMAIN events : HasCalls(events[i]) \/ events[i].role = "tool"
           newest == IF summaries = <<>> THEN <<>> ELSE Newest(summaries, 1)
           answer == IF spoke THEN <<Assistant(TRUE, <<>>)>> ELSE <<>>
<1>1. events \in Seq(Messages) /\ Shaped(events) /\ KnownIn(c, events)
  BY RawPromptKeeps
<1>2. Conversation(history, ms, prompt, answered)
        = IF acted THEN base \o read \o ending ELSE base \o newest \o Only(read, ofUser) \o answer
  BY DEF Conversation
<1> HIDE DEF events
<1>3. /\ read \in Seq(Messages)
      /\ \A p \in 1 .. Len(read) : read[p].mark = "summary" => p = 1
      /\ \A i \in 1 .. Len(events) : events[i].role = "tool" \/ events[i].mark = "summary" =>
             \E p \in 1 .. Len(read) : Alike(read[p], events[i])
  BY <1>1, ReadBackKeeps
<1> HIDE DEF read
<1>4. DOMAIN read = 1 .. Len(read) /\ Len(read) \in Nat /\ DOMAIN events = 1 .. Len(events)
  BY <1>1, <1>3, ListFacts
<1>5. summaries \in Seq(Messages) /\ Only(read, ofUser) \in Seq(Messages)
  BY <1>3, OnlyLayout
<1>6. /\ <<Assistant(TRUE, <<>>)>> \in Seq(Messages) /\ <<>> \in Seq(Messages)
  <2>1. <<>> \in Seq(Nat) /\ TRUE \in BOOLEAN
    OBVIOUS
  <2>2. Assistant(TRUE, <<>>) \in Messages
    BY <2>1, MessageTypes
  <2>3. \A m \in Messages : <<m>> \in Seq(Messages)
    OBVIOUS
  <2>4. <<>> \in Seq(Messages)
    OBVIOUS
  <2> QED
    BY <2>2, <2>3, <2>4
<1>7. PICK i \in 1 .. Len(events) : Carries(events[i], c)
  BY <1>1, <1>4 DEF KnownIn
<1>8. events[i].role = "tool" \/ events[i].mark = "summary"
  BY <1>1, <1>4, <1>7 DEF Carries, Shaped
<1>9. PICK p \in 1 .. Len(read) : Alike(read[p], events[i])
  BY <1>3, <1>8
<1>10. Carries(read[p], c)
  BY <1>7, <1>9 DEF Carries, Alike
<1>11. CASE acted
  <2>1. KnownIn(c, read)
    BY <1>4, <1>10 DEF KnownIn
  <2>2. base \in Seq(Messages) /\ ending \in Seq(Messages)
    BY <1>6
  <2> HIDE DEF base, ending, acted
  <2>3. KnownIn(c, base \o read \o ending)
    BY <1>3, <2>1, <2>2, KnownInPart
  <2> QED
    BY <1>2, <1>11, <2>3
<1>12. CASE ~acted
  <2>1. events[i].mark = "summary"
    BY <1>4, <1>8, <1>12
  <2>2. p = 1 /\ 1 \in ofSummary /\ \A j \in 1 .. Len(read) : j \in ofSummary => j = 1
    BY <1>3, <1>4, <1>9, <2>1 DEF Alike
  <2> HIDE DEF ofSummary
  <2>3. PICK at : Places(summaries, read, ofSummary, at)
    BY <1>3, OnlyLayout
  <2> HIDE DEF summaries
  <2>4. /\ at[1] = 0 /\ 1 \in 1 .. Len(read)
        /\ \A j \in 1 .. Len(read) :
              j \in ofSummary => at[j] + 1 \in 1 .. Len(summaries) /\ summaries[at[j] + 1] = read[j]
        /\ \A q \in 1 .. Len(summaries) : \E j \in 1 .. Len(read) : j \in ofSummary /\ q = at[j] + 1
    BY <2>2, <2>3 DEF Places
  <2>5. Len(summaries) \in Nat /\ DOMAIN summaries = 1 .. Len(summaries)
    BY <1>5, ListFacts
  <2>6. 1 \in 1 .. Len(summaries) /\ summaries[1] = read[1]
    BY <2>2, <2>4
  <2>7. \A q \in 1 .. Len(summaries) : q = 1
    BY <2>2, <2>4
  <2>8. Len(summaries) = 1
    BY <2>5, <2>6, <2>7
  <2>9. newest \in Seq(Messages) /\ KnownIn(c, newest)
    <3>1. summaries # <<>>
      BY <2>8
    <3>2. newest = SubSeq(summaries, 1, 1)
      BY <2>8, <3>1 DEF Newest
    <3>3. /\ SubSeq(summaries, 1, 1) \in Seq(Messages) /\ DOMAIN SubSeq(summaries, 1, 1) = 1 .. 1
          /\ SubSeq(summaries, 1, 1)[1] = summaries[1]
      <4>1. /\ Len(SubSeq(summaries, 1, 1)) = 1
            /\ \A k \in 1 .. 1 : SubSeq(summaries, 1, 1)[k] = summaries[1 + k - 1]
        BY <1>5, <2>6
      <4>2. SubSeq(summaries, 1, 1) \in Seq(Messages)
        BY <1>5, <2>6
      <4> QED
        BY <4>1, <4>2
    <3>4. 1 \in 1 .. 1
      OBVIOUS
    <3> HIDE DEF newest
    <3>5. newest \in Seq(Messages) /\ 1 \in DOMAIN newest /\ newest[1] = summaries[1]
      BY <3>2, <3>3, <3>4
    <3> QED
      BY <1>10, <2>2, <2>6, <3>5 DEF KnownIn
  <2> DEFINE prompts == Only(read, ofUser)
  <2>10. base \in Seq(Messages) /\ answer \in Seq(Messages) /\ prompts \in Seq(Messages)
    BY <1>5, <1>6
  <2> HIDE DEF base, answer, prompts, newest, acted
  <2>11. KnownIn(c, base \o newest \o prompts)
    BY <2>9, <2>10, KnownInPart
  <2>12. KnownIn(c, (base \o newest \o prompts) \o answer)
    <3> DEFINE all == base \o newest \o prompts
    <3>1. all \in Seq(Messages)
      BY <2>9, <2>10
    <3> HIDE DEF all
    <3>2. KnownIn(c, <<>> \o all \o answer)
      BY <1>6, <2>10, <2>11, <3>1, KnownInPart DEF all
    <3>3. <<>> \o all = all
      BY <3>1
    <3> QED
      BY <3>2, <3>3 DEF all
  <2> QED
    BY <1>2, <1>12, <2>12 DEF prompts
<1> QED
  BY <1>11, <1>12

\* A result that the checkpoint does not hold is in the ledger of the side effects.
LEMMA LedgerHolds ==
  ASSUME NEW ms \in Seq(Messages), NEW sv \in Seq(Messages), NEW p \in 1 .. Len(ms),
         ms[p].role = "tool"
  PROVE  ms[p].ref \in Ledger(Preview(ms, sv)) \/ KnownIn(ms[p].ref, sv)
<1> DEFINE equal == {n \in 0 .. (IF Len(ms) < Len(sv) THEN Len(ms) ELSE Len(sv)) :
                         \A i \in 1 .. n : ms[i] = sv[i]}
           n == CHOOSE x \in equal : \A y \in equal : y <= x
           preview == From(ms, n + 1)
<1>1. Len(ms) \in Nat /\ Len(sv) \in Nat /\ DOMAIN sv = 1 .. Len(sv)
  BY ListFacts
<1>2. n \in equal
  <2>1. equal \in SUBSET (0 .. Len(ms))
    BY <1>1
  <2>2. 0 \in equal
    BY <1>1
  <2> HIDE DEF equal
  <2>3. \E x \in equal : \A y \in equal : y <= x
    BY <1>1, <2>1, <2>2, Latest
  <2> QED
    BY <2>3
<1>3. Preview(ms, sv) = preview
  BY DEF Preview
<1> HIDE DEF n
<1>4. n \in 0 .. Len(ms) /\ n <= Len(sv) /\ \A i \in 1 .. n : ms[i] = sv[i]
  BY <1>1, <1>2
<1>5. CASE p <= n
  <2>1. p \in 1 .. n /\ p \in 1 .. Len(sv)
    BY <1>1, <1>4, <1>5
  <2>2. p \in DOMAIN sv /\ Carries(sv[p], ms[p].ref)
    BY <1>1, <1>4, <2>1 DEF Carries
  <2> QED
    BY <2>2 DEF KnownIn
<1>6. CASE p > n
  <2>1. p \in n + 1 .. Len(ms) /\ n + 1 \in 1 .. Len(ms)
    BY <1>1, <1>4, <1>6
  <2>2. /\ preview \in Seq(Messages) /\ Len(preview) = Len(ms) - n
        /\ \A k \in 1 .. Len(ms) - n : preview[k] = ms[(n + 1) + k - 1]
    <3>1. /\ SubSeq(ms, n + 1, Len(ms)) \in Seq(Messages)
          /\ Len(SubSeq(ms, n + 1, Len(ms))) = Len(ms) - (n + 1) + 1
          /\ \A k \in 1 .. Len(ms) - (n + 1) + 1 : SubSeq(ms, n + 1, Len(ms))[k] = ms[(n + 1) + k - 1]
      BY <1>1, <1>4, <2>1
    <3>2. Len(ms) - (n + 1) + 1 = Len(ms) - n
      BY <1>1, <1>4
    <3> QED
      BY <3>1, <3>2 DEF From
  <2> DEFINE k == p - n
  <2>3. k \in 1 .. Len(ms) - n /\ (n + 1) + k - 1 = p
    BY <1>1, <1>4, <2>1
  <2> HIDE DEF k, preview
  <2>4. k \in DOMAIN preview /\ preview[k] = ms[p]
    BY <2>2, <2>3
  <2>5. preview[k].ref \in Ledger(preview)
    BY <2>4 DEF Ledger
  <2> QED
    BY <1>3, <2>4, <2>5
<1> QED
  BY <1>1, <1>4, <1>5, <1>6

\* Whatever a tool did in a turn that was at most compacted is read by the next turn
\* as a result or stands behind a compaction, or is in the ledger of the side effects.
THEOREM WorkIsRecorded == AgentSpec => []WorkIsAccounted
<1>1. ASSUME CountersInv, ConversationInv, RecordTypes, RecordInv PROVE WorkIsAccounted
  <2> SUFFICES ASSUME pc = "ended", reduced \subseteq {"compacted"}, NEW c \in ran
               PROVE  c \in Results(NextHistory) \cup Covered(NextHistory) \cup SideEffects
    BY DEF WorkIsAccounted
  <2>1. msgs \in Seq(Messages) /\ saved \in Seq(Messages) /\ Shaped(msgs) /\ Shaped(saved)
    BY <1>1 DEF ConversationInv, RecordTypes, RecordInv
  <2>2. PICK i \in Kept(msgs) : Carries(msgs[i], c) /\ (KnownIn(c, saved) \/ msgs[i].role = "tool")
    BY <1>1 DEF RecordInv, LeftIn
  <2> DEFINE turn == Turn(msgs)
  <2>3. turn = Only(msgs, Kept(msgs))
    BY DEF Turn, Collected, Kept
  <2> HIDE DEF turn
  <2>4. turn \in Seq(Messages) /\ Shaped(turn) /\ DOMAIN turn = 1 .. Len(turn)
    BY <2>1, <2>3, OnlyLayout, OnlyShape, ListFacts
  <2>5. PICK p \in 1 .. Len(turn) : turn[p] = msgs[i]
    <3>1. PICK at : Places(turn, msgs, Kept(msgs), at)
      BY <2>1, <2>3, OnlyLayout
    <3>2. i \in 1 .. Len(msgs)
      BY <2>1, ListFacts DEF Kept
    <3> QED
      BY <2>2, <3>1, <3>2 DEF Places
  <2>6. KnownIn(c, turn)
    BY <2>2, <2>4, <2>5 DEF KnownIn
  <2>7. KnownIn(c, Committed) \/ c \in SideEffects
    <3>1. CASE Completed
      BY <2>6, <3>1 DEF Committed, turn
    <3>2. CASE ~Completed /\ KnownIn(c, saved)
      BY <3>2 DEF Committed
    <3>3. CASE ~Completed /\ ~KnownIn(c, saved)
      <4>1. turn[p].role = "tool"
        BY <2>2, <2>5, <3>3
      <4>2. turn[p].ref = c
        BY <2>1, <2>2, <2>5, <4>1 DEF Carries
      <4>3. c \in Ledger(Preview(turn, saved))
        BY <2>1, <2>4, <3>3, <4>1, <4>2, LedgerHolds
      <4> QED
        BY <3>3, <4>3 DEF SideEffects, turn
    <3> QED
      BY <3>1, <3>2, <3>3
  <2>8. CASE KnownIn(c, Committed)
    <3>1. Committed \in Seq(Messages) /\ Shaped(Committed)
      BY <2>1, <2>4 DEF Committed, turn
    <3>2. Committed # <<>>
      BY <2>8 DEF KnownIn
    <3>3. History \in Seq(Messages) /\ TypedPrompt \in Nat
      BY AgentTurnAssumption DEF Replayed, TypedPrompt
    <3>4. Answered \in BOOLEAN
      BY DEF Answered
    <3>5. NextHistory = Conversation(History, Committed, TypedPrompt, Answered)
      BY <3>2 DEF NextHistory
    <3>6. KnownIn(c, NextHistory)
      BY <2>8, <3>1, <3>3, <3>4, <3>5, ConversationKnows
    <3> QED
      BY <3>6 DEF KnownIn, Carries, Results, Covered
  <2> QED
    BY <2>7, <2>8
<1> QED
  BY <1>1, RecordAlways, PTL

-----------------------------------------------------------------------------
(* What is selected of a conversation, message by message *)

LEMMA FlattenAppend ==
  ASSUME NEW S, NEW s \in Seq(Seq(S)), NEW x \in Seq(S)
  PROVE  FlattenSeq(Append(s, x)) = FlattenSeq(s) \o x
<1> DEFINE t == Append(s, x)
           n == Len(s)
<1>1. /\ t \in Seq(Seq(S)) /\ Len(t) = n + 1 /\ n \in Nat /\ t # <<>> /\ t[n + 1] = x
      /\ \A i \in 1 .. n : t[i] = s[i]
  BY AppendProperties
<1> HIDE DEF t
<1>2. PICK g : Chain(g, t) /\ FlattenSeq(t) = g[Len(t)]
  BY <1>1, Flattened
<1>3. \A i \in 1 .. n + 1 : g[i] = IF i = 1 THEN t[i] ELSE g[i - 1] \o t[i]
  BY <1>1, <1>2 DEF Chain
<1>4. CASE s = <<>>
  <2>1. FlattenSeq(s) = <<>>
    BY <1>4 DEF FlattenSeq
  <2>2. n = 0 /\ g[1] = x
    BY <1>1, <1>3, <1>4
  <2>3. <<>> \o x = x
    OBVIOUS
  <2> QED
    BY <1>1, <1>2, <2>1, <2>2, <2>3 DEF t
<1>5. CASE s # <<>>
  <2>1. PICK f : Chain(f, s) /\ FlattenSeq(s) = f[n]
    BY <1>5, Flattened
  <2>2. \A i \in 1 .. n : f[i] = IF i = 1 THEN s[i] ELSE f[i - 1] \o s[i]
    BY <2>1 DEF Chain
  <2>3. n > 0
    BY <1>5
  <2> DEFINE T == {k \in Nat : g[k] = f[k]}
  <2>4. ASSUME NEW k \in 1 .. n, \A i \in 1 .. k - 1 : i \in T PROVE k \in T
    <3>1. CASE k = 1
      BY <1>1, <1>3, <2>2, <3>1
    <3>2. CASE k # 1
      <4>1. k - 1 \in 1 .. k - 1 /\ k \in 1 .. n + 1
        BY <1>1, <3>2
      <4>2. g[k - 1] = f[k - 1]
        BY <2>4, <4>1
      <4> QED
        BY <1>1, <1>3, <2>2, <3>2, <4>1, <4>2
    <3> QED
      BY <3>1, <3>2
  <2>5. n \in T
    <3>1. \A k \in 1 .. n : (\A i \in 1 .. k - 1 : i \in T) => k \in T
      BY <2>4
    <3> HIDE DEF T
    <3>2. \A k \in 1 .. n : k \in T
      BY <1>1, <3>1, Upto
    <3> QED
      BY <1>1, <2>3, <3>2
  <2>6. n + 1 \in 1 .. n + 1 /\ n + 1 # 1 /\ (n + 1) - 1 = n
    BY <1>1, <2>3
  <2>7. g[n + 1] = g[n] \o x
    BY <1>1, <1>3, <2>6
  <2> QED
    BY <1>1, <1>2, <2>1, <2>5, <2>7 DEF t
<1> QED
  BY <1>4, <1>5

LEMMA OnlySame ==
  ASSUME NEW ms \in Seq(Messages), NEW a, NEW b, \A i \in 1 .. Len(ms) : i \in a <=> i \in b
  PROVE  Only(ms, a) = Only(ms, b)
<1>1. DOMAIN ms = 1 .. Len(ms)
  BY ListFacts
<1>2. [i \in DOMAIN ms |-> IF i \in a THEN <<ms[i]>> ELSE <<>>]
        = [i \in DOMAIN ms |-> IF i \in b THEN <<ms[i]>> ELSE <<>>]
  BY <1>1
<1> QED
  BY <1>2 DEF Only

LEMMA OnlyOfNone ==
  ASSUME NEW a PROVE Only(<<>>, a) = <<>>
<1>1. [i \in DOMAIN <<>> |-> IF i \in a THEN <<(<<>>)[i]>> ELSE <<>>] = <<>>
  OBVIOUS
<1> QED
  BY <1>1 DEF Only, FlattenSeq

LEMMA OnlyAppend ==
  ASSUME NEW ms \in Seq(Messages), NEW m \in Messages, NEW a
  PROVE  Only(Append(ms, m), a) = IF Len(ms) + 1 \in a THEN Append(Only(ms, a), m) ELSE Only(ms, a)
<1> DEFINE n == Len(ms)
           ns == Append(ms, m)
           s == [i \in DOMAIN ms |-> IF i \in a THEN <<ms[i]>> ELSE <<>>]
           t == [i \in DOMAIN ns |-> IF i \in a THEN <<ns[i]>> ELSE <<>>]
           x == IF n + 1 \in a THEN <<m>> ELSE <<>>
<1>1. /\ ns \in Seq(Messages) /\ Len(ns) = n + 1 /\ n \in Nat /\ DOMAIN ms = 1 .. n
      /\ DOMAIN ns = 1 .. n + 1 /\ ns[n + 1] = m /\ \A i \in 1 .. n : ns[i] = ms[i] /\ ms[i] \in Messages
  BY AppendFacts, ListFacts
<1> HIDE DEF ns, n
<1>2. /\ <<>> \in Seq(Messages) /\ \A y \in Messages : <<y>> \in Seq(Messages)
  OBVIOUS
<1>3. s \in Seq(Seq(Messages)) /\ Len(s) = n /\ DOMAIN s = 1 .. n /\ x \in Seq(Messages)
  BY <1>1, <1>2
<1>4. t = Append(s, x)
  <2>1. t \in Seq(Seq(Messages)) /\ Len(t) = n + 1
    BY <1>1, <1>2
  <2>2. Append(s, x) \in Seq(Seq(Messages)) /\ Len(Append(s, x)) = n + 1
        /\ Append(s, x)[n + 1] = x /\ \A i \in 1 .. n : Append(s, x)[i] = s[i]
    BY <1>3
  <2>3. t[n + 1] = x /\ \A i \in 1 .. n : t[i] = s[i]
    BY <1>1
  <2>4. \A i \in 1 .. n + 1 : i = n + 1 \/ i \in 1 .. n
    BY <1>1
  <2>5. \A i \in 1 .. n + 1 : t[i] = Append(s, x)[i]
    BY <2>2, <2>3, <2>4
  <2> HIDE DEF s, t, x
  <2> DEFINE u == Append(s, x)
  <2> HIDE DEF u
  <2>6. t = u
    <3>1. t \in Seq(Seq(Messages)) /\ u \in Seq(Seq(Messages)) /\ Len(t) = Len(u)
          /\ \A i \in 1 .. Len(t) : t[i] = u[i]
      BY <2>1, <2>2, <2>5 DEF u
    <3> QED
      BY <3>1, SeqEqual
  <2> QED
    BY <2>6 DEF u
<1>5. Only(ms, a) = FlattenSeq(s) /\ Only(ns, a) = FlattenSeq(t)
  BY DEF Only
<1>6. Only(ms, a) \in Seq(Messages)
  BY OnlyLayout
<1> HIDE DEF s, t
<1>7. Only(ns, a) = Only(ms, a) \o x
  BY <1>3, <1>4, <1>5, FlattenAppend
<1>8. CASE n + 1 \in a
  <2>1. Only(ms, a) \o <<m>> = Append(Only(ms, a), m)
    BY <1>6
  <2> QED
    BY <1>7, <1>8, <2>1 DEF ns, n
<1>9. CASE n + 1 \notin a
  <2>1. Only(ms, a) \o <<>> = Only(ms, a)
    BY <1>6
  <2> QED
    BY <1>7, <1>9, <2>1 DEF ns, n
<1> QED
  BY <1>8, <1>9

LEMMA PrefixSteps ==
  ASSUME NEW ms \in Seq(Messages)
  PROVE  /\ Prefix(ms, 0) = <<>> /\ Prefix(ms, Len(ms)) = ms
         /\ \A k \in 1 .. Len(ms) : /\ Prefix(ms, k - 1) \in Seq(Messages)
                                    /\ Len(Prefix(ms, k - 1)) = k - 1 /\ ms[k] \in Messages
                                    /\ Prefix(ms, k) = Append(Prefix(ms, k - 1), ms[k])
<1>1. Len(ms) \in Nat
  BY ListFacts
<1>2. Prefix(ms, 0) = <<>>
  <2>1. 0 \in 0 .. Len(ms) /\ <<>> \in Seq(Messages) /\ Len(<<>>) = 0
    BY <1>1
  <2>2. Prefix(ms, 0) \in Seq(Messages) /\ Len(Prefix(ms, 0)) = 0
    BY <2>1, PrefixTypes
  <2> QED
    BY <2>2
<1>3. Prefix(ms, Len(ms)) = ms
  <2>1. Len(ms) \in 0 .. Len(ms)
    BY <1>1
  <2> QED
    BY <2>1, PrefixTypes, SeqEqual
<1>4. ASSUME NEW k \in 1 .. Len(ms)
      PROVE  /\ Prefix(ms, k - 1) \in Seq(Messages) /\ Len(Prefix(ms, k - 1)) = k - 1 /\ ms[k] \in Messages
             /\ Prefix(ms, k) = Append(Prefix(ms, k - 1), ms[k])
  <2> DEFINE a == Prefix(ms, k)
             b == Prefix(ms, k - 1)
             c == Append(b, ms[k])
  <2>1. k \in 0 .. Len(ms) /\ k - 1 \in 0 .. Len(ms) /\ ms[k] \in Messages
    BY <1>1, ListFacts
  <2>2. a \in Seq(Messages) /\ Len(a) = k /\ \A i \in 1 .. k : a[i] = ms[i]
    BY <2>1, PrefixTypes
  <2>3. b \in Seq(Messages) /\ Len(b) = k - 1 /\ \A i \in 1 .. k - 1 : b[i] = ms[i]
    BY <2>1, PrefixTypes
  <2> HIDE DEF a, b
  <2>4. c \in Seq(Messages) /\ Len(c) = k /\ c[k] = ms[k] /\ \A i \in 1 .. k - 1 : c[i] = b[i]
    <3>1. (k - 1) + 1 = k
      BY <1>1
    <3> QED
      BY <2>1, <2>3, <3>1, AppendFacts
  <2> HIDE DEF c
  <2>5. \A i \in 1 .. k : i = k \/ i \in 1 .. k - 1
    BY <1>1
  <2>6. \A i \in 1 .. k : a[i] = c[i]
    BY <2>2, <2>3, <2>4, <2>5
  <2>7. a = c
    BY <2>2, <2>4, <2>6, SeqEqual
  <2> QED
    BY <2>1, <2>3, <2>7 DEF a, b, c
<1> QED
  BY <1>2, <1>3, <1>4

-----------------------------------------------------------------------------
(* The prompts of a conversation, message by message *)

Typed(m) == m.role = "user" /\ m.ref # 0

\* The prompts after a message.
With(ps, m) == IF Typed(m) THEN Append(ps, m.ref) ELSE ps

LEMMA PromptsOfNone == Prompts(<<>>) = <<>>
<1>1. Only(<<>>, {i \in DOMAIN <<>> : (<<>>)[i].role = "user" /\ (<<>>)[i].ref # 0}) = <<>>
  BY OnlyOfNone
<1> HIDE DEF Only
<1> QED
  BY <1>1 DEF Prompts

LEMMA PromptsTypes ==
  ASSUME NEW ms \in Seq(Messages) PROVE Prompts(ms) \in Seq(Nat)
<1> DEFINE a == {i \in DOMAIN ms : ms[i].role = "user" /\ ms[i].ref # 0}
           us == Only(ms, a)
<1>1. us \in Seq(Messages)
  BY OnlyLayout
<1> HIDE DEF a, us
<1>2. Len(us) \in Nat /\ DOMAIN us = 1 .. Len(us) /\ \A i \in 1 .. Len(us) : us[i].ref \in Nat
  BY <1>1, ListFacts DEF Messages
<1>3. [i \in DOMAIN us |-> us[i].ref] \in Seq(Nat)
  BY <1>2
<1> QED
  BY <1>3 DEF Prompts, us, a

LEMMA PromptsAppend ==
  ASSUME NEW ms \in Seq(Messages), NEW m \in Messages
  PROVE  Prompts(Append(ms, m)) = With(Prompts(ms), m)
<1> DEFINE ns == Append(ms, m)
           n == Len(ms)
           a == {i \in DOMAIN ms : ms[i].role = "user" /\ ms[i].ref # 0}
           b == {i \in DOMAIN ns : ns[i].role = "user" /\ ns[i].ref # 0}
           us == Only(ms, a)
           vs == Only(ns, b)
<1>1. /\ ns \in Seq(Messages) /\ Len(ns) = n + 1 /\ n \in Nat /\ DOMAIN ms = 1 .. n
      /\ DOMAIN ns = 1 .. n + 1 /\ ns[n + 1] = m /\ \A i \in 1 .. n : ns[i] = ms[i]
  BY AppendFacts
<1>2. Only(ns, b) = IF n + 1 \in b THEN Append(Only(ms, b), m) ELSE Only(ms, b)
  BY OnlyAppend
<1> HIDE DEF ns, n
<1>3. \A i \in 1 .. n : i \in a <=> i \in b
  BY <1>1
<1>4. n + 1 \in b <=> Typed(m)
  BY <1>1 DEF Typed
<1>5. Prompts(ms) = [i \in DOMAIN us |-> us[i].ref] /\ Prompts(ns) = [i \in DOMAIN vs |-> vs[i].ref]
  BY DEF Prompts
<1> HIDE DEF a, b
<1>6. Only(ms, b) = us
  BY <1>3, OnlySame DEF n
<1>7. us \in Seq(Messages)
  BY OnlyLayout
<1>8. vs = IF Typed(m) THEN Append(us, m) ELSE us
  BY <1>2, <1>4, <1>6
<1> HIDE DEF us, vs
<1>9. CASE Typed(m)
  <2>1. vs = Append(us, m)
    BY <1>8, <1>9
  <2> DEFINE k == Len(us)
             p == [i \in DOMAIN us |-> us[i].ref]
             q == [i \in DOMAIN vs |-> vs[i].ref]
             r == Append(p, m.ref)
  <2>2. /\ vs \in Seq(Messages) /\ k \in Nat /\ DOMAIN us = 1 .. k /\ DOMAIN vs = 1 .. k + 1
        /\ vs[k + 1] = m /\ \A i \in 1 .. k : vs[i] = us[i] /\ us[i].ref \in Nat
    BY <1>7, <2>1, AppendFacts, ListFacts DEF Messages
  <2>3. m.ref \in Nat
    BY DEF Messages
  <2> HIDE DEF k
  <2>4. p \in Seq(Nat) /\ Len(p) = k /\ \A i \in 1 .. k : p[i] = us[i].ref
    BY <2>2
  <2>5. q \in Seq(Nat) /\ Len(q) = k + 1 /\ \A i \in 1 .. k + 1 : q[i] = vs[i].ref
    <3>1. \A i \in 1 .. k + 1 : i = k + 1 \/ i \in 1 .. k
      BY <2>2
    <3>2. \A i \in 1 .. k + 1 : vs[i].ref \in Nat
      BY <2>2, <2>3, <3>1
    <3> QED
      BY <2>2, <3>2
  <2> HIDE DEF p, q
  <2>6. r \in Seq(Nat) /\ Len(r) = k + 1 /\ r[k + 1] = m.ref /\ \A i \in 1 .. k : r[i] = p[i]
    <3>1. /\ r \in Seq(Nat) /\ Len(r) = Len(p) + 1 /\ r[Len(p) + 1] = m.ref
          /\ \A i \in 1 .. Len(p) : r[i] = p[i]
      BY <2>3, <2>4, AppendProperties
    <3> HIDE DEF r
    <3> QED
      BY <2>4, <3>1
  <2> HIDE DEF r
  <2>7. \A i \in 1 .. k + 1 : i = k + 1 \/ i \in 1 .. k
    BY <2>2
  <2>8. \A i \in 1 .. k + 1 : q[i] = r[i]
    <3>1. k + 1 \in 1 .. k + 1 /\ \A i \in 1 .. k : i \in 1 .. k + 1
      BY <2>2
    <3>2. q[k + 1] = r[k + 1]
      <4>1. q[k + 1] = vs[k + 1].ref
        BY <2>5, <3>1
      <4>2. vs[k + 1] = m /\ r[k + 1] = m.ref
        BY <2>2, <2>6
      <4> QED
        BY ONLY <4>1, <4>2
    <3>3. ASSUME NEW i \in 1 .. k PROVE q[i] = r[i]
      <4>1. q[i] = vs[i].ref
        BY <2>5, <3>1
      <4>2. vs[i] = us[i]
        BY <2>2
      <4>3. r[i] = p[i] /\ p[i] = us[i].ref
        BY <2>4, <2>6
      <4> QED
        BY ONLY <4>1, <4>2, <4>3
    <3> QED
      BY <2>7, <3>2, <3>3
  <2>9. q = r
    BY <2>5, <2>6, <2>8, SeqEqual
  <2> QED
    BY <1>5, <1>9, <2>9 DEF With, p, q, r, ns
<1>10. CASE ~Typed(m)
  BY <1>5, <1>8, <1>10 DEF With, ns
<1> QED
  BY <1>9, <1>10

\* The last message of a longer conversation.
LEMMA PromptsStep ==
  ASSUME NEW ms \in Seq(Messages), NEW k \in 1 .. Len(ms)
  PROVE  Prompts(Prefix(ms, k)) = With(Prompts(Prefix(ms, k - 1)), ms[k])
BY PrefixSteps, PromptsAppend

LEMMA PromptsSame ==
  ASSUME NEW a \in Seq(Messages), NEW b \in Seq(Messages), Len(a) = Len(b),
         \A i \in 1 .. Len(a) : a[i].role = b[i].role /\ a[i].ref = b[i].ref
  PROVE  Prompts(a) = Prompts(b)
<1> DEFINE T == {k \in 0 .. Len(a) : Prompts(Prefix(a, k)) = Prompts(Prefix(b, k))}
<1>1. Len(a) \in Nat
  BY ListFacts
<1>2. 0 \in T
  BY <1>1, PrefixSteps
<1>3. ASSUME NEW k \in 1 .. Len(a), \A i \in 1 .. k - 1 : i \in T PROVE k \in T
  <2>1. k - 1 \in T
    <3>1. k - 1 = 0 \/ k - 1 \in 1 .. k - 1
      BY <1>1
    <3> QED
      BY <1>2, <1>3, <3>1
  <2>2. With(Prompts(Prefix(a, k - 1)), a[k]) = With(Prompts(Prefix(b, k - 1)), b[k])
    BY <2>1 DEF With, Typed
  <2>3. Prompts(Prefix(a, k)) = Prompts(Prefix(b, k))
    BY <2>2, PromptsStep
  <2> QED
    BY <1>1, <2>3
<1>4. \A k \in 1 .. Len(a) : k \in T
  <2>1. \A k \in 1 .. Len(a) : (\A i \in 1 .. k - 1 : i \in T) => k \in T
    BY <1>3
  <2> HIDE DEF T
  <2> QED
    BY <1>1, <2>1, Upto
<1>5. Len(a) \in T
  BY <1>1, <1>2, <1>4
<1> QED
  BY <1>5, PrefixSteps

\* What is left out has no prompt.
LEMMA PromptsOnly ==
  ASSUME NEW ms \in Seq(Messages), NEW a, \A i \in 1 .. Len(ms) : Typed(ms[i]) => i \in a
  PROVE  Prompts(Only(ms, a)) = Prompts(ms)
<1> DEFINE T == {k \in 0 .. Len(ms) : Prompts(Only(Prefix(ms, k), a)) = Prompts(Prefix(ms, k))}
<1>1. Len(ms) \in Nat
  BY ListFacts
<1>2. 0 \in T
  BY <1>1, PrefixSteps, OnlyOfNone
<1>3. ASSUME NEW k \in 1 .. Len(ms), \A i \in 1 .. k - 1 : i \in T PROVE k \in T
  <2>1. k - 1 \in T
    <3>1. k - 1 = 0 \/ k - 1 \in 1 .. k - 1
      BY <1>1
    <3> QED
      BY <1>2, <1>3, <3>1
  <2> DEFINE p == Prefix(ms, k - 1)
             o == Only(p, a)
  <2>2. p \in Seq(Messages) /\ Len(p) + 1 = k /\ ms[k] \in Messages /\ Prefix(ms, k) = Append(p, ms[k])
    BY <1>1, PrefixSteps
  <2>3. Prompts(o) = Prompts(p)
    BY <2>1
  <2> HIDE DEF p
  <2>4. Only(Prefix(ms, k), a) = IF k \in a THEN Append(o, ms[k]) ELSE o
    <3>1. Only(Append(p, ms[k]), a)
            = IF Len(p) + 1 \in a THEN Append(Only(p, a), ms[k]) ELSE Only(p, a)
      <4>1. p \in Seq(Messages) /\ ms[k] \in Messages
        BY <2>2
      <4> QED
        BY ONLY <4>1, OnlyAppend
    <3> QED
      BY <2>2, <3>1
  <2>5. o \in Seq(Messages)
    BY <2>2, OnlyLayout
  <2> HIDE DEF o
  <2>6. Prompts(Append(o, ms[k])) = With(Prompts(p), ms[k]) /\ Prompts(Append(p, ms[k])) = With(Prompts(p), ms[k])
    BY <2>2, <2>3, <2>5, PromptsAppend
  <2>7. k \notin a => With(Prompts(p), ms[k]) = Prompts(p)
    BY DEF With
  <2>8. Prompts(Only(Prefix(ms, k), a)) = Prompts(Prefix(ms, k))
    BY <2>2, <2>3, <2>4, <2>6, <2>7
  <2> QED
    BY <1>1, <2>8
<1>4. \A k \in 1 .. Len(ms) : k \in T
  <2>1. \A k \in 1 .. Len(ms) : (\A i \in 1 .. k - 1 : i \in T) => k \in T
    BY <1>3
  <2> HIDE DEF T
  <2> QED
    BY <1>1, <2>1, Upto
<1>5. Len(ms) \in T
  BY <1>1, <1>2, <1>4
<1> QED
  BY <1>5, PrefixSteps

LEMMA PromptsConcat ==
  ASSUME NEW a \in Seq(Messages), NEW b \in Seq(Messages)
  PROVE  Prompts(a \o b) = Prompts(a) \o Prompts(b)
<1> DEFINE T == {k \in 0 .. Len(b) : Prompts(a \o Prefix(b, k)) = Prompts(a) \o Prompts(Prefix(b, k))}
<1>1. Len(b) \in Nat
  BY ListFacts
<1>2. 0 \in T
  <2>1. a \o <<>> = a /\ Prompts(a) \o <<>> = Prompts(a)
    BY PromptsTypes, ConcatEmptySeq
  <2>2. Prompts(a \o Prefix(b, 0)) = Prompts(a) \o Prompts(Prefix(b, 0))
    <3>1. Prefix(b, 0) = <<>>
      BY PrefixSteps
    <3> QED
      BY <2>1, <3>1, PromptsOfNone
  <2>3. 0 \in 0 .. Len(b)
    BY <1>1
  <2> QED
    BY <2>2, <2>3
<1>3. ASSUME NEW k \in 1 .. Len(b), \A i \in 1 .. k - 1 : i \in T PROVE k \in T
  <2>1. k - 1 \in T
    <3>1. k - 1 = 0 \/ k - 1 \in 1 .. k - 1
      BY <1>1
    <3> QED
      BY <1>2, <1>3, <3>1
  <2> DEFINE p == Prefix(b, k - 1)
  <2>2. p \in Seq(Messages) /\ b[k] \in Messages /\ Prefix(b, k) = Append(p, b[k])
    BY <1>1, PrefixSteps
  <2>3. Prompts(a \o p) = Prompts(a) \o Prompts(p)
    BY <2>1
  <2> HIDE DEF p
  <2>4. a \o Append(p, b[k]) = Append(a \o p, b[k]) /\ a \o p \in Seq(Messages)
    <3>1. a \o p \in Seq(Messages) /\ <<b[k]>> \in Seq(Messages)
      BY <2>2
    <3>2. Append(p, b[k]) = p \o <<b[k]>> /\ Append(a \o p, b[k]) = (a \o p) \o <<b[k]>>
      BY <2>2, <3>1, AppendIsConcat
    <3>3. a \o (p \o <<b[k]>>) = (a \o p) \o <<b[k]>>
      BY <2>2, <3>1, ConcatAssociative
    <3> QED
      BY <3>1, <3>2, <3>3
  <2>5. Prompts(a \o Prefix(b, k)) = With(Prompts(a) \o Prompts(p), b[k])
    BY <2>2, <2>3, <2>4, PromptsAppend
  <2>6. Prompts(Prefix(b, k)) = With(Prompts(p), b[k])
    BY <2>2, PromptsAppend
  <2>7. With(Prompts(a) \o Prompts(p), b[k]) = Prompts(a) \o With(Prompts(p), b[k])
    <3> DEFINE x == Prompts(a)
               y == Prompts(p)
               z == b[k].ref
    <3>1. x \in Seq(Nat) /\ y \in Seq(Nat) /\ z \in Nat
      BY <2>2, PromptsTypes DEF Messages
    <3> HIDE DEF x, y, z
    <3>2. x \o y \in Seq(Nat) /\ <<z>> \in Seq(Nat)
      BY <3>1
    <3>3. Append(y, z) = y \o <<z>> /\ Append(x \o y, z) = (x \o y) \o <<z>>
      BY <3>1, <3>2, AppendIsConcat
    <3>4. x \o (y \o <<z>>) = (x \o y) \o <<z>>
      BY <3>1, <3>2, ConcatAssociative
    <3> QED
      BY <3>3, <3>4 DEF With, x, y, z
  <2>8. Prompts(a \o Prefix(b, k)) = Prompts(a) \o Prompts(Prefix(b, k))
    BY <2>5, <2>6, <2>7
  <2> QED
    BY <1>1, <2>8
<1>4. \A k \in 1 .. Len(b) : k \in T
  <2>1. \A k \in 1 .. Len(b) : (\A i \in 1 .. k - 1 : i \in T) => k \in T
    BY <1>3
  <2> HIDE DEF T
  <2> QED
    BY <1>1, <2>1, Upto
<1>5. Len(b) \in T
  BY <1>1, <1>2, <1>4
<1> QED
  BY <1>5, PrefixSteps

-----------------------------------------------------------------------------
(* The prompts of a turn are read back *)

LEMMA ReadBackStep ==
  ASSUME NEW acc, acc.out \in Seq(Messages), acc.at \in 0 .. Len(acc.out), NEW m \in Messages,
         m.mark # "summary", \A p \in 1 .. Len(acc.out) : acc.out[p].mark # "summary"
  PROVE  LET r == ReadBack(acc, m)
         IN  /\ r.out \in Seq(Messages) /\ r.at \in 0 .. Len(r.out)
             /\ \A p \in 1 .. Len(r.out) : r.out[p].mark # "summary"
             /\ Prompts(r.out) = With(Prompts(acc.out), m)
<1> DEFINE r == ReadBack(acc, m)
           n == Len(acc.out)
<1>1. /\ r.out \in Seq(Messages) /\ r.at \in 0 .. Len(r.out)
      /\ \/ Len(r.out) = n
         \/ Len(r.out) = n + 1 /\ Alike(r.out[n + 1], m)
      /\ \A p \in 1 .. n : Alike(r.out[p], acc.out[p])
  BY ReadBackGrows
<1>2. m.role = "user" => Len(r.out) = n + 1
  <2> SUFFICES ASSUME m.role = "user" PROVE Len(r.out) = n + 1
    OBVIOUS
  <2> DEFINE x == [m EXCEPT !.calls = <<>>, !.ckpt = FALSE]
  <2>1. r = [out |-> Append(acc.out, x), at |-> acc.at]
    BY DEF ReadBack, HasCalls
  <2>2. x \in Messages
    <3>1. <<>> \in Seq(Nat)
      OBVIOUS
    <3> QED
      BY <3>1 DEF Messages
  <2> HIDE DEF x
  <2>3. Len(Append(acc.out, x)) = n + 1
    BY <2>2, AppendFacts
  <2> HIDE DEF r
  <2> QED
    BY <2>1, <2>3
<1> HIDE DEF r
<1>3. n \in Nat
  BY ListFacts
<1>4. \A p \in 1 .. n + 1 : p = n + 1 \/ p \in 1 .. n
  BY <1>3
<1>5. \A p \in 1 .. Len(r.out) : r.out[p].mark # "summary"
  <2>1. \A p \in 1 .. n : r.out[p].mark # "summary"
    BY <1>1 DEF Alike
  <2> QED
    BY <1>1, <1>4, <2>1 DEF Alike
<1>6. CASE Len(r.out) = n
  <2>1. ~Typed(m)
    BY <1>2, <1>3, <1>6 DEF Typed
  <2>2. Prompts(r.out) = Prompts(acc.out)
    BY <1>1, <1>6, PromptsSame DEF Alike
  <2> QED
    BY <1>1, <1>5, <2>1, <2>2 DEF With, r
<1>7. CASE Len(r.out) = n + 1 /\ Alike(r.out[n + 1], m)
  <2> DEFINE p == Prefix(r.out, n)
             x == r.out[n + 1]
  <2>1. /\ p \in Seq(Messages) /\ Len(p) = n /\ x \in Messages
        /\ Prefix(r.out, n + 1) = Append(p, x) /\ Prefix(r.out, n + 1) = r.out
    <3>1. n + 1 \in 1 .. Len(r.out) /\ (n + 1) - 1 = n
      BY <1>3, <1>7
    <3> QED
      BY <1>1, <1>7, <3>1, PrefixSteps
  <2>2. \A i \in 1 .. n : p[i] = r.out[i]
    <3>1. n \in 0 .. Len(r.out)
      BY <1>3, <1>7
    <3> QED
      BY <1>1, <3>1, PrefixTypes
  <2> HIDE DEF p
  <2>3. Prompts(p) = Prompts(acc.out)
    <3>1. \A i \in 1 .. n : p[i].role = acc.out[i].role /\ p[i].ref = acc.out[i].ref
      BY <1>1, <2>2 DEF Alike
    <3> QED
      BY <2>1, <3>1, PromptsSame
  <2>4. Prompts(r.out) = With(Prompts(p), x)
    BY <2>1, PromptsAppend
  <2>5. With(Prompts(p), x) = With(Prompts(p), m)
    BY <1>7 DEF With, Typed, Alike
  <2> QED
    BY <1>1, <1>5, <2>3, <2>4, <2>5 DEF r
<1> QED
  BY <1>1, <1>6, <1>7

LEMMA ReadBackPrompts ==
  ASSUME NEW ms \in Seq(Messages), \A i \in 1 .. Len(ms) : ms[i].mark # "summary"
  PROVE  LET read == ReadBackAll(ms)
         IN  /\ read \in Seq(Messages) /\ \A p \in 1 .. Len(read) : read[p].mark # "summary"
             /\ Prompts(read) = Prompts(ms)
<1>1. PICK f : /\ ReadBackAll(ms) = f[Len(ms)].out
               /\ f[0] = [out |-> <<>>, at |-> 0]
               /\ \A n \in 1 .. Len(ms) : f[n] = ReadBack(f[n - 1], ms[n])
  BY ReadBackStages
<1> DEFINE Read(k) == /\ f[k].out \in Seq(Messages) /\ f[k].at \in 0 .. Len(f[k].out)
                      /\ \A p \in 1 .. Len(f[k].out) : f[k].out[p].mark # "summary"
                      /\ Prompts(f[k].out) = Prompts(Prefix(ms, k))
           T == {k \in 0 .. Len(ms) : Read(k)}
<1>2. Len(ms) \in Nat
  BY ListFacts
<1>3. Read(0)
  <2>1. f[0].out = <<>> /\ f[0].at = 0
    BY <1>1
  <2>2. <<>> \in Seq(Messages) /\ Len(<<>>) = 0
    OBVIOUS
  <2>3. Prefix(ms, 0) = <<>>
    BY PrefixSteps
  <2> QED
    BY <2>1, <2>2, <2>3
<1>4. ASSUME NEW k \in 1 .. Len(ms), Read(k - 1) PROVE Read(k)
  <2> DEFINE a == f[k - 1]
             m == ms[k]
  <2>1. /\ a.out \in Seq(Messages) /\ a.at \in 0 .. Len(a.out)
        /\ \A p \in 1 .. Len(a.out) : a.out[p].mark # "summary"
        /\ Prompts(a.out) = Prompts(Prefix(ms, k - 1))
    BY <1>4
  <2>2. m \in Messages /\ m.mark # "summary"
    BY ListFacts
  <2>3. f[k] = ReadBack(a, m) /\ Prompts(Prefix(ms, k)) = With(Prompts(Prefix(ms, k - 1)), m)
    BY <1>1, PromptsStep
  <2> HIDE DEF a, m
  <2>4. LET r == ReadBack(a, m)
        IN  /\ r.out \in Seq(Messages) /\ r.at \in 0 .. Len(r.out)
            /\ \A p \in 1 .. Len(r.out) : r.out[p].mark # "summary"
            /\ Prompts(r.out) = With(Prompts(a.out), m)
    BY <2>1, <2>2, ReadBackStep
  <2> QED
    BY <2>1, <2>3, <2>4
<1>5. ASSUME NEW k \in 1 .. Len(ms), \A i \in 1 .. k - 1 : i \in T PROVE k \in T
  <2> HIDE DEF Read
  <2>1. Read(k - 1)
    <3>1. k - 1 = 0 \/ k - 1 \in 1 .. k - 1
      BY <1>2
    <3> QED
      BY <1>3, <1>5, <3>1
  <2> QED
    BY <1>2, <1>4, <2>1
<1>6. Len(ms) \in T
  <2>1. \A k \in 1 .. Len(ms) : (\A i \in 1 .. k - 1 : i \in T) => k \in T
    BY <1>5
  <2>2. 0 \in T
    BY <1>2, <1>3
  <2> HIDE DEF T
  <2>3. \A k \in 1 .. Len(ms) : k \in T
    BY <1>2, <2>1, Upto
  <2> QED
    BY <1>2, <2>2, <2>3
<1>7. Read(Len(ms))
  BY <1>6
<1> QED
  BY <1>1, <1>7, PrefixSteps

LEMMA OnlyNone ==
  ASSUME NEW ms \in Seq(Messages), NEW a, \A i \in 1 .. Len(ms) : i \notin a
  PROVE  Only(ms, a) = <<>>
<1>1. PICK at : Places(Only(ms, a), ms, a, at)
  BY OnlyLayout
<1>2. Only(ms, a) \in Seq(Messages)
  BY OnlyLayout
<1>3. \A p \in 1 .. Len(Only(ms, a)) : FALSE
  BY <1>1 DEF Places
<1> QED
  BY <1>2, <1>3

LEMMA NoPrompt == Prompts(<<Assistant(TRUE, <<>>)>>) = <<>>
<1>1. <<>> \in Seq(Messages) /\ Assistant(TRUE, <<>>) \in Messages
  <2>1. <<>> \in Seq(Nat) /\ TRUE \in BOOLEAN /\ <<>> \in Seq(Messages)
    OBVIOUS
  <2> QED
    BY <2>1, MessageTypes
<1>2. ~Typed(Assistant(TRUE, <<>>))
  BY DEF Typed, Assistant, Plain
<1> HIDE DEF Assistant
<1>3. <<Assistant(TRUE, <<>>)>> = Append(<<>>, Assistant(TRUE, <<>>))
  BY <1>1
<1> QED
  BY <1>1, <1>2, <1>3, PromptsAppend, PromptsOfNone DEF With

\* A turn without compaction that begins with what the user typed.
LEMMA ConversationPrompts ==
  ASSUME NEW history \in Seq(Messages), NEW ms \in Seq(Messages), NEW prompt \in Nat,
         ms # <<>>, ms[1].role = "user", ms[1].ref = prompt,
         \A i \in 1 .. Len(ms) : ms[i].mark # "summary"
  PROVE  Prompts(Conversation(history, ms, prompt, TRUE)) = Prompts(history) \o Prompts(ms)
<1> DEFINE events == WithRawPrompt(ms, prompt)
           read == ReadBackAll(events)
           ofSummary == {i \in DOMAIN read : read[i].mark = "summary"}
           ofUser == {i \in DOMAIN read : read[i].role = "user"}
           summaries == Only(read, ofSummary)
           base == IF summaries = <<>> THEN history ELSE <<>>
           last == IF read # <<>> THEN read[Len(read)] ELSE Plain
           ending == IF ~TRUE \/ (last.role = "assistant" /\ ~HasCalls(last))
                      THEN <<>> ELSE <<Assistant(TRUE, <<>>)>>
           spoke == TRUE \/ \E i \in DOMAIN read : read[i].role = "assistant" /\ read[i].mark = "none"
           acted == \E i \in DOMAIN events : HasCalls(events[i]) \/ events[i].role = "tool"
           newest == IF summaries = <<>> THEN <<>> ELSE Newest(summaries, 1)
           answer == IF spoke THEN <<Assistant(TRUE, <<>>)>> ELSE <<>>
<1>1. events = ms
  <2> DEFINE users == {i \in DOMAIN ms : ms[i].role = "user"}
             first == CHOOSE u \in users : \A v \in users : u <= v
  <2>1. DOMAIN ms = 1 .. Len(ms) /\ Len(ms) \in Nat /\ 1 \in users
    BY ListFacts
  <2>2. \A v \in users : 1 <= v /\ v \in Nat
    BY <2>1
  <2> HIDE DEF users
  <2>3. first = 1
    <3>1. \E u \in users : \A v \in users : u <= v
      BY <2>1, <2>2
    <3>2. first \in users /\ \A v \in users : first <= v
      BY <3>1
    <3> QED
      BY <2>1, <2>2, <3>2
  <2>4. events = [i \in DOMAIN ms |-> IF users # {} /\ i = first THEN [ms[i] EXCEPT !.ref = prompt] ELSE ms[i]]
    BY DEF WithRawPrompt, users
  <2> HIDE DEF events, first
  <2>5. ms[1] \in Messages
    BY <2>1
  <2>6. [ms[1] EXCEPT !.ref = prompt] = ms[1]
    BY <2>5 DEF Messages
  <2>7. events = [i \in DOMAIN ms |-> ms[i]]
    BY <2>3, <2>4, <2>6
  <2> QED
    BY <2>1, <2>7
<1>2. Conversation(history, ms, prompt, TRUE)
        = IF acted THEN base \o read \o ending ELSE base \o newest \o Only(read, ofUser) \o answer
  BY DEF Conversation
<1> HIDE DEF events
<1>3. /\ read \in Seq(Messages) /\ \A p \in 1 .. Len(read) : read[p].mark # "summary"
      /\ Prompts(read) = Prompts(ms)
  BY <1>1, ReadBackPrompts
<1> HIDE DEF read
<1>4. summaries = <<>> /\ Only(read, ofUser) \in Seq(Messages)
  BY <1>3, OnlyNone, OnlyLayout
<1>5. base = history /\ newest = <<>> /\ answer = <<Assistant(TRUE, <<>>)>>
  BY <1>4
<1>6. Prompts(Only(read, ofUser)) = Prompts(ms)
  <2>1. \A i \in 1 .. Len(read) : Typed(read[i]) => i \in ofUser
    BY <1>3, ListFacts DEF Typed
  <2> HIDE DEF ofUser
  <2> QED
    BY <1>3, <2>1, PromptsOnly
<1>7. <<Assistant(TRUE, <<>>)>> \in Seq(Messages) /\ <<>> \in Seq(Messages)
  <2>1. <<>> \in Seq(Nat) /\ TRUE \in BOOLEAN /\ <<>> \in Seq(Messages)
    OBVIOUS
  <2>2. Assistant(TRUE, <<>>) \in Messages
    BY <2>1, MessageTypes
  <2>3. \A m \in Messages : <<m>> \in Seq(Messages)
    OBVIOUS
  <2> QED
    BY <2>1, <2>2, <2>3
<1>8. ending \in Seq(Messages) /\ Prompts(ending) = <<>>
  BY <1>7, NoPrompt, PromptsOfNone
<1> DEFINE h == Prompts(history)
           t == Prompts(ms)
<1>9. h \in Seq(Nat) /\ t \in Seq(Nat) /\ h \o t \in Seq(Nat) /\ (h \o t) \o <<>> = h \o t
  <2>1. h \in Seq(Nat) /\ t \in Seq(Nat)
    BY PromptsTypes
  <2> HIDE DEF h, t
  <2>2. h \o t \in Seq(Nat)
    BY <2>1
  <2> QED
    BY <2>1, <2>2, ConcatEmptySeq
<1>10. ASSUME NEW b \in Seq(Messages), NEW z \in Seq(Messages), Prompts(b) = t, Prompts(z) = <<>>
       PROVE  Prompts((history \o b) \o z) = h \o t
  <2>1. history \o b \in Seq(Messages)
    OBVIOUS
  <2>2. Prompts(history \o b) = h \o t
    BY <1>10, PromptsConcat
  <2>3. Prompts((history \o b) \o z) = Prompts(history \o b) \o Prompts(z)
    BY <2>1, PromptsConcat
  <2> QED
    BY <1>9, <1>10, <2>2, <2>3
<1> HIDE DEF h, t
<1>11. CASE acted
  <2>1. Conversation(history, ms, prompt, TRUE) = (history \o read) \o ending
    BY <1>2, <1>5, <1>11
  <2>2. Prompts((history \o read) \o ending) = h \o t
    BY <1>3, <1>8, <1>10 DEF t
  <2> QED
    BY <2>1, <2>2 DEF h, t
<1>12. CASE ~acted
  <2> DEFINE us == Only(read, ofUser)
             z == <<Assistant(TRUE, <<>>)>>
  <2>1. Conversation(history, ms, prompt, TRUE) = ((history \o <<>>) \o us) \o z
    BY <1>2, <1>5, <1>12
  <2>2. history \o <<>> = history
    BY ConcatEmptySeq
  <2>3. us \in Seq(Messages) /\ z \in Seq(Messages) /\ Prompts(us) = t /\ Prompts(z) = <<>>
    BY <1>4, <1>6, <1>7, NoPrompt DEF t
  <2> HIDE DEF us, z
  <2>4. Prompts((history \o us) \o z) = h \o t
    BY <1>10, <2>3
  <2> QED
    BY <2>1, <2>2, <2>4 DEF h, t
<1> QED
  BY <1>11, <1>12

-----------------------------------------------------------------------------
(* The prompts of an unreduced turn: its first message is what the user typed *)

Own == Len(History) + 1

TurnOf(ms, inserted) ==
    /\ Own <= Len(ms) /\ ms[Own] = UserPrompt(TypedPrompt)
    /\ \A i \in 1 .. Len(ms) : /\ i < Own => ~ms[i].ckpt
                               /\ i >= Own => ms[i].mark # "summary"
    /\ IF inserted
       THEN \E at \in Own + 1 .. Len(ms) :
               /\ ms[at] = UserPrompt(InsertedPrompt)
               /\ \A i \in Own + 1 .. Len(ms) : i # at => ~Typed(ms[i])
       ELSE \A i \in Own + 1 .. Len(ms) : ~Typed(ms[i])

PromptInv == reduced = {} => TurnOf(msgs, ~waiting)

LEMMA Histories ==
  /\ History \in Seq(Messages) /\ Len(History) \in Nat /\ Own \in Nat /\ Own > 0
  /\ \A i \in 1 .. Len(History) : ~History[i].ckpt
<1>1. History \in Seq(Replayed)
  BY AgentTurnAssumption
<1>2. History \in Seq(Messages) /\ \A i \in 1 .. Len(History) : ~History[i].ckpt
  BY <1>1 DEF Replayed
<1>3. Len(History) \in Nat
  BY <1>2, ListFacts
<1> QED
  BY <1>2, <1>3 DEF Own

LEMMA TurnAppend ==
  ASSUME NEW ms \in Seq(Messages), NEW x \in BOOLEAN, TurnOf(ms, x),
         NEW m \in Messages, ~Typed(m), m.mark # "summary"
  PROVE  TurnOf(Append(ms, m), x)
<1> DEFINE ns == Append(ms, m)
           n == Len(ms)
<1>1. /\ ns \in Seq(Messages) /\ Len(ns) = n + 1 /\ n \in Nat /\ ns[n + 1] = m
      /\ \A i \in 1 .. n : ns[i] = ms[i]
  BY AppendFacts
<1>2. Own \in Nat /\ Own > 0
  BY Histories
<1> HIDE DEF ns
<1>3. Own \in 1 .. n /\ \A i \in 1 .. n + 1 : i = n + 1 \/ i \in 1 .. n
  BY <1>1, <1>2 DEF TurnOf
<1>4. \A i \in Own + 1 .. n + 1 : i = n + 1 \/ i \in Own + 1 .. n
  BY <1>1, <1>2
<1>5. \A i \in Own + 1 .. n : i \in 1 .. n
  BY <1>1, <1>2
<1>6. \A i \in 1 .. n + 1 : (i < Own => ~ns[i].ckpt) /\ (i >= Own => ns[i].mark # "summary")
  <2>1. \A i \in 1 .. n : (i < Own => ~ns[i].ckpt) /\ (i >= Own => ns[i].mark # "summary")
    BY <1>1 DEF TurnOf
  <2>2. ~(n + 1 < Own)
    BY <1>1, <1>2, <1>3
  <2> QED
    BY <1>1, <1>3, <2>1, <2>2
<1>7. CASE x
  <2>1. PICK at \in Own + 1 .. n : /\ ms[at] = UserPrompt(InsertedPrompt)
                                   /\ \A i \in Own + 1 .. n : i # at => ~Typed(ms[i])
    BY <1>7 DEF TurnOf
  <2>2. at \in Own + 1 .. n + 1 /\ ns[at] = UserPrompt(InsertedPrompt)
    BY <1>1, <1>2, <1>5, <2>1
  <2>3. \A i \in Own + 1 .. n + 1 : i # at => ~Typed(ns[i])
    BY <1>1, <1>4, <1>5, <2>1
  <2>4. Own <= n + 1 /\ ns[Own] = UserPrompt(TypedPrompt)
    BY <1>1, <1>2, <1>3 DEF TurnOf
  <2> QED
    BY <1>1, <1>6, <1>7, <2>2, <2>3, <2>4 DEF TurnOf, ns
<1>8. CASE ~x
  <2>1. \A i \in Own + 1 .. n : ~Typed(ms[i])
    BY <1>8 DEF TurnOf
  <2>2. \A i \in Own + 1 .. n + 1 : ~Typed(ns[i])
    BY <1>1, <1>4, <1>5, <2>1
  <2>3. Own <= n + 1 /\ ns[Own] = UserPrompt(TypedPrompt)
    BY <1>1, <1>2, <1>3 DEF TurnOf
  <2> QED
    BY <1>1, <1>6, <1>8, <2>2, <2>3 DEF TurnOf, ns
<1> QED
  BY <1>7, <1>8

LEMMA TurnInserts ==
  ASSUME NEW ms \in Seq(Messages), TurnOf(ms, FALSE)
  PROVE  TurnOf(Append(ms, UserPrompt(InsertedPrompt)), TRUE)
<1> DEFINE m == UserPrompt(InsertedPrompt)
           ns == Append(ms, m)
           n == Len(ms)
<1>1. m \in Messages /\ m.mark = "none"
  <2>1. InsertedPrompt \in Nat
    BY DEF InsertedPrompt
  <2>2. m.mark = "none"
    BY DEF UserPrompt, Plain
  <2> QED
    BY <2>1, <2>2, MessageTypes
<1> HIDE DEF m
<1>2. /\ ns \in Seq(Messages) /\ Len(ns) = n + 1 /\ n \in Nat /\ ns[n + 1] = m
      /\ \A i \in 1 .. n : ns[i] = ms[i]
  BY <1>1, AppendFacts
<1>3. Own \in Nat /\ Own > 0
  BY Histories
<1> HIDE DEF ns
<1>4. Own \in 1 .. n /\ \A i \in 1 .. n + 1 : i = n + 1 \/ i \in 1 .. n
  BY <1>2, <1>3 DEF TurnOf
<1>5. \A i \in Own + 1 .. n + 1 : i # n + 1 => i \in Own + 1 .. n /\ i \in 1 .. n
  BY <1>2, <1>3
<1>6. \A i \in 1 .. n + 1 : (i < Own => ~ns[i].ckpt) /\ (i >= Own => ns[i].mark # "summary")
  <2>1. \A i \in 1 .. n : (i < Own => ~ns[i].ckpt) /\ (i >= Own => ns[i].mark # "summary")
    BY <1>2 DEF TurnOf
  <2>2. ~(n + 1 < Own)
    BY <1>2, <1>3, <1>4
  <2> QED
    BY <1>1, <1>2, <1>4, <2>1, <2>2
<1>7. n + 1 \in Own + 1 .. n + 1 /\ ns[n + 1] = m
  BY <1>2, <1>3, <1>4
<1>8. \A i \in Own + 1 .. n + 1 : i # n + 1 => ~Typed(ns[i])
  BY <1>2, <1>5 DEF TurnOf
<1>9. Own <= n + 1 /\ ns[Own] = UserPrompt(TypedPrompt)
  BY <1>2, <1>3, <1>4 DEF TurnOf
<1> QED
  BY <1>2, <1>6, <1>7, <1>8, <1>9 DEF TurnOf, ns, m

\* The sanitiser leaves everything but results as it is.
LEMMA TurnSanitized ==
  ASSUME NEW ms \in Seq(Messages), ReplaySafe(ms), NEW x \in BOOLEAN, TurnOf(ms, x)
  PROVE  TurnOf(Sanitized(ms), x)
<1> DEFINE ns == Sanitized(ms)
<1>1. /\ Len(ns) = Len(ms)
      /\ \A i \in 1 .. Len(ms) :
            /\ ms[i].role # "tool" => ns[i] = ms[i]
            /\ ms[i].role = "tool" => \E c : ns[i] = ToolResult(c)
  BY SanitizedSafe
<1> HIDE DEF ns
<1>2. Own \in Nat /\ Own > 0 /\ Len(ms) \in Nat
  BY Histories, ListFacts
<1>3. \A c : /\ ToolResult(c).role = "tool" /\ ToolResult(c).mark = "none" /\ ~ToolResult(c).ckpt
  BY DEF ToolResult, Plain
<1>4. \A c : UserPrompt(c).role = "user"
  BY DEF UserPrompt, Plain
<1>5. \A i \in 1 .. Len(ms) : /\ ~ms[i].ckpt => ~ns[i].ckpt
                              /\ ms[i].mark # "summary" => ns[i].mark # "summary"
                              /\ ~Typed(ms[i]) => ~Typed(ns[i])
                              /\ \A c : ms[i] = UserPrompt(c) => ns[i] = UserPrompt(c)
  <2> TAKE i \in 1 .. Len(ms)
  <2>1. CASE ms[i].role # "tool"
    BY <1>1, <2>1
  <2>2. CASE ms[i].role = "tool"
    <3>1. PICK c : ns[i] = ToolResult(c)
      BY <1>1, <2>2
    <3> QED
      BY <1>3, <1>4, <2>2, <3>1 DEF Typed
  <2> QED
    BY <2>1, <2>2
<1>6. Own \in 1 .. Len(ms) /\ \A i \in Own + 1 .. Len(ms) : i \in 1 .. Len(ms)
  BY <1>2 DEF TurnOf
<1>7. /\ Own <= Len(ns) /\ ns[Own] = UserPrompt(TypedPrompt)
      /\ \A i \in 1 .. Len(ns) : (i < Own => ~ns[i].ckpt) /\ (i >= Own => ns[i].mark # "summary")
  BY <1>1, <1>5, <1>6 DEF TurnOf
<1>8. CASE x
  <2>1. PICK at \in Own + 1 .. Len(ms) : /\ ms[at] = UserPrompt(InsertedPrompt)
                                         /\ \A i \in Own + 1 .. Len(ms) : i # at => ~Typed(ms[i])
    BY <1>8 DEF TurnOf
  <2>2. ns[at] = UserPrompt(InsertedPrompt) /\ \A i \in Own + 1 .. Len(ms) : i # at => ~Typed(ns[i])
    BY <1>5, <1>6, <2>1
  <2> QED
    BY <1>1, <1>7, <1>8, <2>2 DEF TurnOf, ns
<1>9. CASE ~x
  <2>1. \A i \in Own + 1 .. Len(ms) : ~Typed(ns[i])
    BY <1>5, <1>6, <1>9 DEF TurnOf
  <2> QED
    BY <1>1, <1>7, <1>9, <2>1 DEF TurnOf, ns
<1> QED
  BY <1>8, <1>9

LEMMA PromptStart == AgentInit => PromptInv
<1> SUFFICES ASSUME AgentInit PROVE TurnOf(msgs, FALSE)
  BY DEF AgentInit, PromptInv
<1> DEFINE m == UserPrompt(TypedPrompt)
<1>1. m \in Messages /\ m.mark = "none"
  <2>1. TypedPrompt \in Nat
    BY DEF TypedPrompt
  <2>2. m.mark = "none"
    BY DEF UserPrompt, Plain
  <2> QED
    BY <2>1, <2>2, MessageTypes
<1> HIDE DEF m
<1>2. msgs = Append(History, m)
  BY DEF AgentInit, m
<1>3. /\ Len(msgs) = Own /\ msgs[Own] = m /\ Own \in Nat /\ Len(History) \in Nat
      /\ \A i \in 1 .. Len(History) : msgs[i] = History[i]
  BY <1>1, <1>2, Histories, AppendFacts DEF Own
<1>4. \A i \in 1 .. Own : i # Own => i \in 1 .. Len(History)
  BY <1>3 DEF Own
<1>5. \A i \in 1 .. Own : (i < Own => ~msgs[i].ckpt) /\ (i >= Own => msgs[i].mark # "summary")
  <2> TAKE i \in 1 .. Own
  <2>1. CASE i = Own
    BY <1>1, <1>3, <2>1
  <2>2. CASE i # Own
    <3>1. i \in 1 .. Len(History) /\ i < Own
      BY <1>3, <1>4, <2>2
    <3> QED
      BY <1>3, <3>1, Histories
  <2> QED
    BY <2>1, <2>2
<1>6. \A i \in Own + 1 .. Len(msgs) : ~Typed(msgs[i])
  BY <1>3
<1> QED
  BY <1>3, <1>5, <1>6 DEF TurnOf, m

\* What the turn appends without asking anybody.
LEMMA OwnMessages ==
  /\ InternalUser \in Messages /\ ~Typed(InternalUser) /\ InternalUser.mark # "summary"
  /\ Plain \in Messages /\ ~Typed(Plain) /\ Plain.mark # "summary"
  /\ \A c \in Nat : ToolResult(c) \in Messages /\ ~Typed(ToolResult(c)) /\ ToolResult(c).mark # "summary"
  /\ \A text \in BOOLEAN, calls \in Seq(Nat) : /\ Assistant(text, calls) \in Messages
                                               /\ ~Typed(Assistant(text, calls))
                                               /\ Assistant(text, calls).mark # "summary"
<1>1. /\ ~Typed(InternalUser) /\ InternalUser.mark # "summary" /\ ~Typed(Plain) /\ Plain.mark # "summary"
      /\ \A c : ~Typed(ToolResult(c)) /\ ToolResult(c).mark # "summary"
      /\ \A text, calls : ~Typed(Assistant(text, calls)) /\ Assistant(text, calls).mark # "summary"
  BY DEF Typed, InternalUser, ToolResult, Assistant, Plain
<1> QED
  BY <1>1, MessageTypes

LEMMA PromptStep ==
  ASSUME CountersInv, ConversationInv, RecordTypes, RecordInv, PromptInv, [AgentNext]_vars
  PROVE  PromptInv'
<1> SUFFICES ASSUME reduced' = {} PROVE TurnOf(msgs', ~waiting')
  BY DEF PromptInv
<1>1. reduced = {} /\ (~waiting) \in BOOLEAN
  <2>1. reduced = {}
    BY ReductionsStay
  <2>2. (~waiting) \in BOOLEAN
    OBVIOUS
  <2> QED
    BY <2>1, <2>2
<1>2. TurnOf(msgs, ~waiting) /\ msgs \in Seq(Messages)
  BY <1>1 DEF PromptInv, ConversationInv
<1>3. \A how : ~Reduces(how)
  BY DEF Reduces
<1>4. ASSUME msgs' = msgs, waiting' = waiting PROVE TurnOf(msgs', ~waiting')
  BY <1>2, <1>4
<1>5. ASSUME NEW m \in Messages, ~Typed(m), m.mark # "summary", msgs' = Append(msgs, m), waiting' = waiting
      PROVE  TurnOf(msgs', ~waiting')
  BY <1>1, <1>2, <1>5, TurnAppend
<1>6. CASE UNCHANGED vars
  BY <1>4, <1>6 DEF vars
<1>7. CASE StartStep \/ RequestCancelled \/ TransportRetry \/ NextTool \/ ToolAllowed \/ ToolStarts
           \/ FinishStep \/ Stop \/ Over
  <2>1. msgs' = msgs /\ waiting' = waiting
    BY <1>7 DEF StartStep, RequestCancelled, TransportRetry, NextTool, ToolAllowed, ToolStarts,
       FinishStep, Stop, Over, vars
  <2> QED
    BY <1>4, <2>1
<1>8. CASE Prepare
  BY <1>3, <1>4, <1>8 DEF Prepare
<1>9. CASE Answer
  <2>1. PICK r \in Replies[step] : \E calls \in Seq(Nat) :
          r.text \in BOOLEAN /\ msgs' = Append(msgs, Assistant(r.text, calls)) /\ waiting' = waiting
    BY <1>9, AnswerTypes
  <2> QED
    BY <1>5, <2>1, OwnMessages
<1>10. CASE ToolIdUnknown
  <2>1. msgs' = Append(msgs, InternalUser) /\ waiting' = waiting
    BY <1>10 DEF ToolIdUnknown
  <2> QED
    BY <1>5, <2>1, OwnMessages
<1>11. CASE RequestFails
  <2>1. waiting' = waiting /\ (msgs' = msgs \/ msgs' = Append(msgs, Assistant(TRUE, <<>>)))
    BY <1>11 DEF RequestFails
  <2>2. <<>> \in Seq(Nat) /\ TRUE \in BOOLEAN
    OBVIOUS
  <2> QED
    BY <1>4, <1>5, <2>1, <2>2, OwnMessages
<1>12. CASE Overflow
  <2>1. waiting' = waiting /\ pc = "request"
    BY <1>12 DEF Overflow
  <2>2. msgs' = msgs \/ \E n \in {k \in DOMAIN msgs : k >= KeepLatest} \cup {Len(msgs)} :
                            ~(n < Len(msgs)) /\ msgs' = Sanitized(Trimmed(msgs, n))
    BY <1>3, <1>12 DEF Overflow
  <2>3. CASE msgs' = msgs
    BY <1>4, <2>1, <2>3
  <2>4. CASE \E n \in {k \in DOMAIN msgs : k >= KeepLatest} \cup {Len(msgs)} :
                 ~(n < Len(msgs)) /\ msgs' = Sanitized(Trimmed(msgs, n))
    <3>1. msgs' = Sanitized(msgs)
      BY <2>4 DEF Trimmed
    <3>2. ReplaySafe(msgs)
      BY <1>1, <1>2, <2>1, SoundIsSafe DEF RecordInv, InTools, SettledIn
    <3> QED
      BY <1>1, <1>2, <2>1, <3>1, <3>2, TurnSanitized
  <2> QED
    BY <2>2, <2>3, <2>4
<1>13. CASE ToolBlocked \/ ToolEnds
  <2>1. msgs' = Append(msgs, ToolResult(Head(todo))) /\ waiting' = waiting /\ pc \in {"hook", "running"}
    BY <1>13 DEF ToolBlocked, ToolEnds
  <2>2. Head(todo) \in Nat
    BY <2>1, TailTypes DEF CountersInv
  <2> QED
    BY <1>5, <2>1, <2>2, OwnMessages
<1>14. CASE ToolsEnd
  <2>1. waiting' = waiting /\ msgs' = msgs
    BY <1>3, <1>14 DEF ToolsEnd
  <2> QED
    BY <1>4, <2>1
<1>15. CASE Insert
  <2>1. CASE UNCHANGED <<msgs, saved, waiting>>
    BY <1>4, <2>1
  <2>2. CASE waiting /\ waiting' = FALSE /\ msgs' = Append(msgs, UserPrompt(InsertedPrompt))
    <3>1. TurnOf(msgs, FALSE)
      <4>1. (~waiting) = FALSE
        BY <2>2
      <4> QED
        BY <1>2, <4>1
    <3>2. TurnOf(msgs', TRUE)
      BY <1>2, <2>2, <3>1, TurnInserts
    <3>3. (~waiting') = TRUE
      BY <2>2
    <3> QED
      BY <3>2, <3>3
  <2> QED
    BY <1>15, <2>1, <2>2 DEF Insert
<1>16. CASE RecoverFromMaxTokens
  <2>1. waiting' = waiting /\ (msgs' = msgs \/ msgs' = Append(msgs, InternalUser))
    BY <1>3, <1>16 DEF RecoverFromMaxTokens
  <2> QED
    BY <1>4, <1>5, <2>1, OwnMessages
<1>17. CASE AskToContinue
  <2>1. waiting' = waiting /\ (msgs' = msgs \/ msgs' = Append(msgs, Plain))
    BY <1>17 DEF AskToContinue
  <2> QED
    BY <1>4, <1>5, <2>1, OwnMessages
<1> QED
  BY <1>6, <1>7, <1>8, <1>9, <1>10, <1>11, <1>12, <1>13, <1>14, <1>15, <1>16, <1>17
  DEF AgentNext, Loop, Request, Tools

LEMMA TurnBegins ==
  ASSUME NEW ms \in Seq(Messages), NEW x, TurnOf(ms, x)
  PROVE  \A i \in 1 .. Len(ms) : i \in Kept(ms) <=> i >= Own /\ IsCommitted(ms[i])
<1> DEFINE start == TurnStart(ms, Len(History))
<1>1. Own \in 1 .. Len(ms) /\ Len(ms) \in Nat /\ DOMAIN ms = 1 .. Len(ms)
  BY Histories, ListFacts DEF TurnOf
<1>2. ms[Own].ckpt
  <2>1. UserPrompt(TypedPrompt).ckpt
    BY DEF UserPrompt, Plain
  <2> QED
    BY <2>1 DEF TurnOf
<1>3. Begun(ms, Len(ms) + 1)
  <2>1. Own \in 1 .. (Len(ms) + 1) - 1
    BY <1>1
  <2> QED
    BY <1>2, <2>1 DEF Begun
<1>4. start \in 1 .. Len(ms) /\ ms[start].ckpt /\ \A j \in 1 .. start - 1 : ~ms[j].ckpt
  <2>1. Len(ms) + 1 \in 1 .. Len(ms) + 1 /\ (Len(ms) + 1) - 1 = Len(ms)
    BY <1>1
  <2> QED
    BY <1>3, <2>1, TurnStarts
<1>5. start = Own
  <2>1. ~(start < Own)
    BY <1>1, <1>4 DEF TurnOf
  <2>2. ~(Own < start)
    <3>1. Own < start => Own \in 1 .. start - 1
      BY <1>1, <1>4
    <3> QED
      BY <1>2, <1>4, <3>1
  <2> HIDE DEF start
  <2> QED
    BY <1>1, <1>4, <2>1, <2>2
<1> QED
  BY <1>1, <1>5 DEF Kept

LEMMA TwoPrompts == Append(<<TypedPrompt>>, InsertedPrompt) = <<TypedPrompt, InsertedPrompt>>
<1>1. ASSUME NEW p \in Nat, NEW q \in Nat, NEW s \in Seq(Nat), Len(s) = 1, s[1] = p,
             NEW v \in Seq(Nat), Len(v) = 2, v[1] = p, v[2] = q
      PROVE  Append(s, q) = v
  <2> DEFINE u == Append(s, q)
  <2>1. /\ u \in Seq(Nat) /\ Len(u) = Len(s) + 1 /\ u[Len(s) + 1] = q
        /\ \A i \in 1 .. Len(s) : u[i] = s[i]
    BY AppendProperties
  <2> HIDE DEF u
  <2>2. \A i \in 1 .. 2 : i = 1 \/ i = 2
    OBVIOUS
  <2>3. Len(u) = 2 /\ \A i \in 1 .. Len(u) : u[i] = v[i]
    BY <1>1, <2>1, <2>2
  <2>4. u = v
    BY <1>1, <2>1, <2>3, SeqEqual
  <2> QED
    BY <2>4 DEF u
<1>2. TypedPrompt \in Nat /\ InsertedPrompt \in Nat
  BY DEF TypedPrompt, InsertedPrompt
<1>3. /\ <<TypedPrompt>> \in Seq(Nat) /\ Len(<<TypedPrompt>>) = 1 /\ (<<TypedPrompt>>)[1] = TypedPrompt
      /\ <<TypedPrompt, InsertedPrompt>> \in Seq(Nat) /\ Len(<<TypedPrompt, InsertedPrompt>>) = 2
      /\ (<<TypedPrompt, InsertedPrompt>>)[1] = TypedPrompt
      /\ (<<TypedPrompt, InsertedPrompt>>)[2] = InsertedPrompt
  BY <1>2
<1> QED
  BY <1>1, <1>2, <1>3

LEMMA TurnPrompts ==
  ASSUME NEW ms \in Seq(Messages), NEW x \in BOOLEAN, TurnOf(ms, x)
  PROVE  LET turn == Turn(ms)
         IN  /\ turn \in Seq(Messages) /\ turn # <<>> /\ turn[1] = UserPrompt(TypedPrompt)
             /\ \A i \in 1 .. Len(turn) : turn[i].mark # "summary"
             /\ Prompts(turn) = IF x THEN <<TypedPrompt, InsertedPrompt>> ELSE <<TypedPrompt>>
<1> DEFINE n == Len(ms)
           a == Kept(ms)
           turn == Turn(ms)
           one == UserPrompt(TypedPrompt)
           two == UserPrompt(InsertedPrompt)
<1>1. turn = Only(ms, a)
  BY DEF Turn, Collected, Kept
<1>2. n \in Nat /\ Own \in 1 .. n /\ ms[Own] = one
  BY Histories, ListFacts DEF TurnOf
<1>3. \A i \in 1 .. n : i \in a <=> i >= Own /\ IsCommitted(ms[i])
  BY TurnBegins
<1>4. /\ one.ref = TypedPrompt /\ two.ref = InsertedPrompt
      /\ Typed(one) /\ Typed(two) /\ IsCommitted(one) /\ IsCommitted(two)
  BY DEF Typed, IsCommitted, UserPrompt, Plain, TypedPrompt, InsertedPrompt
<1> HIDE DEF one, two, a, turn
<1>5. PICK at \in Own + 1 .. n + 1 :
        /\ IF x THEN at <= n /\ ms[at] = two ELSE at = n + 1
        /\ \A i \in Own + 1 .. n : i # at => ~Typed(ms[i])
  <2>1. CASE x
    <3>1. PICK at \in Own + 1 .. n : ms[at] = two /\ \A i \in Own + 1 .. n : i # at => ~Typed(ms[i])
      BY <2>1 DEF TurnOf, two
    <3>2. at \in Own + 1 .. n + 1 /\ at <= n
      BY <1>2
    <3> QED
      BY <2>1, <3>1, <3>2
  <2>2. CASE ~x
    <3>1. n + 1 \in Own + 1 .. n + 1
      BY <1>2
    <3>2. \A i \in Own + 1 .. n : ~Typed(ms[i])
      BY <2>2 DEF TurnOf
    <3> QED
      BY <2>2, <3>1, <3>2
  <2> QED
    BY <2>1, <2>2
<1> DEFINE Part(k) == Only(Prefix(ms, k), a)
           Right(k) == IF k < Own THEN Part(k) = <<>>
                       ELSE /\ Part(k) # <<>> /\ Part(k)[1] = one
                            /\ Prompts(Part(k)) = IF k < at THEN <<TypedPrompt>>
                                                  ELSE <<TypedPrompt, InsertedPrompt>>
           T == {k \in 0 .. n : Right(k)}
<1>6. ASSUME NEW k \in 1 .. n
      PROVE  /\ Part(k - 1) \in Seq(Messages) /\ ms[k] \in Messages
             /\ Part(k) = IF k \in a THEN Append(Part(k - 1), ms[k]) ELSE Part(k - 1)
  <2> DEFINE p == Prefix(ms, k - 1)
             m == ms[k]
  <2>1. p \in Seq(Messages) /\ Len(p) + 1 = k /\ m \in Messages /\ Prefix(ms, k) = Append(p, m)
    BY <1>2, PrefixSteps
  <2>2. Only(p, a) \in Seq(Messages)
    BY <2>1, OnlyLayout
  <2> HIDE DEF p, m
  <2>3. Only(Append(p, m), a) = IF Len(p) + 1 \in a THEN Append(Only(p, a), m) ELSE Only(p, a)
    <3>1. p \in Seq(Messages) /\ m \in Messages
      BY <2>1
    <3> QED
      BY ONLY <3>1, OnlyAppend
  <2> QED
    BY <2>1, <2>2, <2>3 DEF p, m
<1>7. Right(0)
  <2>1. Part(0) = <<>>
    BY PrefixSteps, OnlyOfNone
  <2> QED
    BY <1>2, <2>1
<1>8. ASSUME NEW k \in 1 .. n, Right(k - 1) PROVE Right(k)
  <2> DEFINE o == Part(k - 1)
             m == ms[k]
  <2>1. o \in Seq(Messages) /\ m \in Messages /\ Part(k) = IF k \in a THEN Append(o, m) ELSE o
    BY <1>6
  <2>2. IF k - 1 < Own THEN o = <<>>
        ELSE /\ o # <<>> /\ o[1] = one
             /\ Prompts(o) = IF k - 1 < at THEN <<TypedPrompt>> ELSE <<TypedPrompt, InsertedPrompt>>
    BY <1>8
  <2>3. k \in a <=> k >= Own /\ IsCommitted(m)
    BY <1>3
  <2> HIDE DEF o, m
  <2>4. Prompts(Append(o, m)) = With(Prompts(o), m)
    BY <2>1, PromptsAppend
  <2>5. CASE k < Own
    BY <1>2, <2>1, <2>2, <2>3, <2>5
  <2>6. CASE k = Own
    <3>1. o = <<>> /\ m = one /\ k < at
      BY <1>2, <2>2, <2>6 DEF m
    <3>2. Part(k) = Append(<<>>, one)
      BY <1>2, <1>4, <2>1, <2>3, <2>6, <3>1
    <3>3. Prompts(Part(k)) = Append(<<>>, TypedPrompt)
      BY <1>4, <2>4, <3>1, <3>2, PromptsOfNone DEF With
    <3>4. Append(<<>>, one) = <<one>> /\ Append(<<>>, TypedPrompt) = <<TypedPrompt>>
      OBVIOUS
    <3>5. <<one>> # <<>> /\ (<<one>>)[1] = one
      OBVIOUS
    <3> HIDE DEF Part
    <3> QED
      BY <1>2, <2>6, <3>1, <3>2, <3>3, <3>4, <3>5
  <2>7. CASE k > Own
    <3>1. /\ o # <<>> /\ o[1] = one /\ ~(k < Own)
          /\ Prompts(o) = IF k - 1 < at THEN <<TypedPrompt>> ELSE <<TypedPrompt, InsertedPrompt>>
      BY <1>2, <2>2, <2>7
    <3>2. Append(o, m) # <<>> /\ Append(o, m)[1] = one
      <4>1. Len(o) \in Nat /\ 1 \in 1 .. Len(o)
        BY <2>1, <3>1
      <4>2. Append(o, m)[1] = o[1] /\ Len(Append(o, m)) = Len(o) + 1
        BY <2>1, <4>1, AppendFacts
      <4> QED
        BY <3>1, <4>1, <4>2
    <3>3. Part(k) # <<>> /\ Part(k)[1] = one
      BY <2>1, <3>1, <3>2
    <3>4. CASE k = at
      <4>1. m = two /\ k \in a
        BY <1>2, <1>4, <1>5, <2>3, <2>7, <3>4 DEF m
      <4>2. Prompts(Part(k)) = Append(<<TypedPrompt>>, InsertedPrompt)
        <5>1. k - 1 < at
          BY <1>2, <3>4
        <5>2. Prompts(o) = <<TypedPrompt>> /\ Part(k) = Append(o, m)
          BY <2>1, <3>1, <4>1, <5>1
        <5> HIDE DEF Part
        <5> QED
          BY <1>4, <2>4, <4>1, <5>2 DEF With
      <4>3. Append(<<TypedPrompt>>, InsertedPrompt) = <<TypedPrompt, InsertedPrompt>>
        BY TwoPrompts
      <4> HIDE DEF Part
      <4> QED
        BY <1>2, <3>1, <3>3, <3>4, <4>2, <4>3
    <3>5. CASE k # at
      <4>1. ~Typed(m) /\ (k - 1 < at <=> k < at)
        BY <1>2, <1>5, <2>7, <3>5 DEF m
      <4>2. Prompts(Part(k)) = Prompts(o)
        BY <2>1, <2>4, <4>1 DEF With
      <4> HIDE DEF Part
      <4> QED
        BY <3>1, <3>3, <4>1, <4>2
    <3> QED
      BY <3>4, <3>5
  <2> QED
    BY <1>2, <2>5, <2>6, <2>7
<1>9. Right(n)
  <2>1. ASSUME NEW k \in 1 .. n, \A i \in 1 .. k - 1 : i \in T PROVE k \in T
    <3> HIDE DEF Right
    <3>1. Right(k - 1)
      <4>1. k - 1 = 0 \/ k - 1 \in 1 .. k - 1
        BY <1>2
      <4> QED
        BY <1>7, <2>1, <4>1
    <3> QED
      BY <1>2, <1>8, <3>1
  <2>2. \A k \in 1 .. n : (\A i \in 1 .. k - 1 : i \in T) => k \in T
    BY <2>1
  <2> HIDE DEF T, n
  <2>3. \A k \in 1 .. n : k \in T
    BY <1>2, <2>2, Upto
  <2>4. n \in 1 .. n
    BY <1>2
  <2> HIDE DEF Right
  <2> QED
    BY <2>3, <2>4 DEF T
<1>10. Part(n) = turn
  BY <1>1, PrefixSteps
<1>11. /\ turn # <<>> /\ turn[1] = one
       /\ Prompts(turn) = IF x THEN <<TypedPrompt, InsertedPrompt>> ELSE <<TypedPrompt>>
  <2>1. ~(n < Own) /\ (n < at <=> ~x)
    BY <1>2, <1>5
  <2> HIDE DEF Part
  <2> QED
    BY <1>9, <1>10, <2>1
<1>12. turn \in Seq(Messages) /\ \A i \in 1 .. Len(turn) : turn[i].mark # "summary"
  <2>1. PICK f : Places(turn, ms, a, f)
    BY <1>1, OnlyLayout
  <2>2. \A i \in 1 .. Len(turn) : \E j \in 1 .. n : j \in a /\ turn[i] = ms[j]
    BY <2>1 DEF Places
  <2>3. \A j \in 1 .. n : j \in a => ms[j].mark # "summary"
    BY <1>3 DEF TurnOf
  <2> QED
    BY <1>1, <2>2, <2>3, OnlyLayout
<1> QED
  BY <1>11, <1>12 DEF turn, one

\* When a turn that was not reduced completes, the next turn reads back what the user
\* typed, and what was put in while it ran, word for word and in order.
THEOREM PromptsStay == AgentSpec => []PromptsAreKept
<1>1. ASSUME ConversationInv, PromptInv PROVE PromptsAreKept
  <2> SUFFICES ASSUME Completed, reduced = {} PROVE Prompts(NextHistory) = Asked
    BY DEF PromptsAreKept
  <2> DEFINE turn == Turn(msgs)
             asked == IF ~waiting THEN <<TypedPrompt, InsertedPrompt>> ELSE <<TypedPrompt>>
  <2>1. msgs \in Seq(Messages) /\ TurnOf(msgs, ~waiting)
    BY <1>1 DEF ConversationInv, PromptInv
  <2>2. (~waiting) \in BOOLEAN
    OBVIOUS
  <2>3. /\ turn \in Seq(Messages) /\ turn # <<>> /\ turn[1] = UserPrompt(TypedPrompt)
        /\ \A i \in 1 .. Len(turn) : turn[i].mark # "summary"
        /\ Prompts(turn) = asked
    BY <2>1, <2>2, TurnPrompts
  <2>4. Committed = turn /\ Answered = TRUE
    BY DEF Committed, Answered
  <2> HIDE DEF turn
  <2>5. NextHistory = Conversation(History, turn, TypedPrompt, TRUE)
    BY <2>3, <2>4 DEF NextHistory
  <2>6. turn[1].role = "user" /\ turn[1].ref = TypedPrompt /\ TypedPrompt \in Nat
    <3>1. UserPrompt(TypedPrompt).role = "user" /\ UserPrompt(TypedPrompt).ref = TypedPrompt
      BY DEF UserPrompt, Plain
    <3> QED
      BY <2>3, <3>1 DEF TypedPrompt
  <2>7. Prompts(NextHistory) = Prompts(History) \o asked
    <3>1. Prompts(Conversation(History, turn, TypedPrompt, TRUE)) = Prompts(History) \o Prompts(turn)
      BY <2>3, <2>6, ConversationPrompts, Histories
    <3> HIDE DEF asked
    <3> QED
      BY <2>3, <2>5, <3>1
  <2>8. asked = IF waiting THEN <<TypedPrompt>> ELSE <<TypedPrompt, InsertedPrompt>>
    OBVIOUS
  <2> QED
    BY <2>7, <2>8 DEF Asked
<1>2. AgentInit => PromptInv
  BY PromptStart
<1>3. CountersInv /\ ConversationInv /\ RecordTypes /\ RecordInv /\ PromptInv /\ [AgentNext]_vars => PromptInv'
  BY PromptStep
<1> QED
  BY <1>1, <1>2, <1>3, RecordAlways, PTL DEF AgentSpec

-----------------------------------------------------------------------------
(* Lists of whole bundles *)

\* A list that is replay-safe on its own is so as a part of another.
LEMMA CopyIsSafe ==
  ASSUME NEW ms \in Seq(Messages), NEW out \in Seq(Messages), NEW d \in Nat, ReplaySafe(ms),
         d + Len(ms) <= Len(out), \A i \in 1 .. Len(ms) : out[d + i] = ms[i]
  PROVE  \A i \in 1 .. Len(ms) : ~Bad(out, d + i)
<1>1. /\ DOMAIN ms = 1 .. Len(ms) /\ Len(ms) \in Nat /\ DOMAIN out = 1 .. Len(out) /\ Len(out) \in Nat
      /\ \A i \in 1 .. Len(ms) : Len(ms[i].calls) \in Nat
  BY ListFacts
<1>2. ASSUME NEW o \in 1 .. Len(ms), ValidBundle(ms, o)
      PROVE  ValidBundle(out, d + o) /\ d + o \in 1 .. Len(out)
  <2>1. o + Len(ms[o].calls) <= Len(ms)
    BY <1>2, BundleResults
  <2> DEFINE l == Len(ms[o].calls)
  <2>2. d + o \in 1 .. Len(out) /\ (d + o) + l <= Len(out)
    <3>1. l \in Nat /\ o + l <= Len(ms) /\ o \in Nat /\ o >= 1
      BY <1>1, <2>1
    <3> HIDE DEF l
    <3> QED
      BY <1>1, <3>1
  <2>3. ASSUME NEW k \in 0 .. Len(ms[o].calls) PROVE out[(d + o) + k] = ms[o + k]
    <3>1. o + k \in 1 .. Len(ms) /\ d + (o + k) = (d + o) + k
      BY <1>1, <2>1
    <3> QED
      BY <3>1
  <2> QED
    BY <1>2, <2>2, <2>3, BundleCopied
<1>3. ASSUME NEW i \in 1 .. Len(ms), ms[i].role = "tool" PROVE InBundle(out, d + i)
  <2>1. InBundle(ms, i)
    BY <1>1, <1>3 DEF ReplaySafe
  <2>2. PICK o \in 1 .. i - 1 : /\ o \in 1 .. Len(ms) /\ ValidBundle(ms, o)
                                /\ i - o \in 1 .. Len(ms[o].calls)
    BY <2>1, MembersBundle
  <2>3. ValidBundle(out, d + o) /\ d + o \in 1 .. Len(out) /\ out[d + o] = ms[o]
    BY <1>2, <2>2
  <2>4. InBundle(out, (d + o) + (i - o))
    BY <2>2, <2>3, BundleMembers
  <2>5. (d + o) + (i - o) = d + i
    BY <2>2
  <2> QED
    BY <2>4, <2>5
<1>4. ASSUME NEW i \in 1 .. Len(ms), HasCalls(ms[i]) PROVE ValidBundle(out, d + i)
  BY <1>1, <1>2, <1>4 DEF ReplaySafe
<1>5. ASSUME NEW i \in 1 .. Len(ms) PROVE ~Bad(out, d + i)
  <2>1. out[d + i] = ms[i]
    OBVIOUS
  <2> QED
    BY <1>3, <1>4, <2>1 DEF Bad
<1> QED
  BY <1>5

LEMMA NotBadIsSafe ==
  ASSUME NEW ms \in Seq(Messages), \A i \in 1 .. Len(ms) : ~Bad(ms, i) PROVE ReplaySafe(ms)
BY ListFacts DEF Bad, ReplaySafe

LEMMA SafeIsNotBad ==
  ASSUME NEW ms \in Seq(Messages), ReplaySafe(ms) PROVE \A i \in 1 .. Len(ms) : ~Bad(ms, i)
BY ListFacts DEF Bad, ReplaySafe

LEMMA ConcatSafe ==
  ASSUME NEW a \in Seq(Messages), NEW b \in Seq(Messages), ReplaySafe(a), ReplaySafe(b)
  PROVE  a \o b \in Seq(Messages) /\ ReplaySafe(a \o b)
<1> DEFINE c == a \o b
<1>1. /\ c \in Seq(Messages) /\ Len(c) = Len(a) + Len(b) /\ Len(a) \in Nat /\ Len(b) \in Nat
      /\ \A i \in 1 .. Len(a) : c[0 + i] = a[i]
      /\ \A i \in 1 .. Len(b) : c[Len(a) + i] = b[i]
  OBVIOUS
<1> HIDE DEF c
<1>2. \A i \in 1 .. Len(a) : ~Bad(c, 0 + i)
  <2>1. 0 \in Nat /\ 0 + Len(a) <= Len(c)
    BY <1>1
  <2> QED
    BY <1>1, <2>1, CopyIsSafe
<1>3. \A i \in 1 .. Len(b) : ~Bad(c, Len(a) + i)
  BY <1>1, CopyIsSafe
<1>4. ASSUME NEW i \in 1 .. Len(c) PROVE ~Bad(c, i)
  <2>1. CASE i <= Len(a)
    <3>1. i \in 1 .. Len(a) /\ 0 + i = i
      BY <1>1, <2>1
    <3> QED
      BY <1>2, <3>1
  <2>2. CASE i > Len(a)
    <3>1. i - Len(a) \in 1 .. Len(b) /\ Len(a) + (i - Len(a)) = i
      BY <1>1, <2>2
    <3> QED
      BY <1>3, <3>1
  <2> QED
    BY <1>1, <2>1, <2>2
<1> QED
  BY <1>1, <1>4, NotBadIsSafe DEF c

LEMMA OneIsSafe ==
  ASSUME NEW m \in Messages, m.role # "tool", ~HasCalls(m)
  PROVE  <<m>> \in Seq(Messages) /\ ReplaySafe(<<m>>)
<1>1. <<m>> \in Seq(Messages) /\ \A i \in DOMAIN <<m>> : <<m>>[i] = m
  OBVIOUS
<1> QED
  BY <1>1 DEF ReplaySafe

LEMMA NoneIsSafe == <<>> \in Seq(Messages) /\ ReplaySafe(<<>>)
BY DEF ReplaySafe

LEMMA AppendSafe ==
  ASSUME NEW ms \in Seq(Messages), ReplaySafe(ms), NEW m \in Messages, m.role # "tool", ~HasCalls(m)
  PROVE  ReplaySafe(Append(ms, m))
<1>1. Append(ms, m) = ms \o <<m>>
  OBVIOUS
<1> QED
  BY <1>1, OneIsSafe, ConcatSafe

\* A bundle alone
LEMMA BundleIsSafe ==
  ASSUME NEW b \in Seq(Messages), Len(b) > 0, ValidBundle(b, 1), Len(b) = 1 + Len(b[1].calls)
  PROVE  ReplaySafe(b)
<1>1. DOMAIN b = 1 .. Len(b) /\ Len(b) \in Nat /\ 1 \in 1 .. Len(b) /\ Len(b[1].calls) \in Nat
  BY ListFacts
<1>2. b[1].role # "tool" /\ HasCalls(b[1])
  BY <1>1, BundleResults DEF HasCalls
<1>3. ASSUME NEW i \in 1 .. Len(b), i # 1 PROVE b[i].role = "tool" /\ InBundle(b, i)
  <2>1. i - 1 \in 1 .. Len(b[1].calls) /\ 1 + (i - 1) = i
    BY <1>1, <1>3
  <2> QED
    BY <1>1, <2>1, BundleMembers
<1> QED
  BY <1>1, <1>2, <1>3 DEF ReplaySafe, HasCalls

\* What follows a message without calls, or a bundle, is no result.
LEMMA AfterPlain ==
  ASSUME NEW ms \in Seq(Messages), ReplaySafe(ms), NEW n \in 1 .. Len(ms) - 1,
         ms[n].role # "tool", ~HasCalls(ms[n])
  PROVE  ms[n + 1].role # "tool"
<1> SUFFICES ASSUME ms[n + 1].role = "tool" PROVE FALSE
  OBVIOUS
<1>1. DOMAIN ms = 1 .. Len(ms) /\ Len(ms) \in Nat /\ n + 1 \in 1 .. Len(ms)
  BY ListFacts
<1>2. InBundle(ms, n + 1)
  BY <1>1 DEF ReplaySafe
<1>3. PICK o \in 1 .. (n + 1) - 1 : Owner(ms, n + 1) = o /\ ValidBundle(ms, o)
  BY <1>1, <1>2, MembersBundle
<1>4. Owner(ms, n + 1) = n
  BY <1>1, OwnerIs
<1> QED
  BY <1>3, <1>4 DEF ValidBundle

LEMMA AfterBundle ==
  ASSUME NEW ms \in Seq(Messages), ReplaySafe(ms), NEW o \in 1 .. Len(ms), ValidBundle(ms, o),
         NEW n, n = o + Len(ms[o].calls), n < Len(ms)
  PROVE  ms[n + 1].role # "tool"
<1> SUFFICES ASSUME ms[n + 1].role = "tool" PROVE FALSE
  OBVIOUS
<1>1. DOMAIN ms = 1 .. Len(ms) /\ Len(ms) \in Nat /\ Len(ms[o].calls) \in Nat
  BY ListFacts
<1>2. n \in Nat /\ n + 1 \in 1 .. Len(ms) /\ n + 1 \in Nat
  BY <1>1
<1>3. InBundle(ms, n + 1)
  BY <1>1, <1>2 DEF ReplaySafe
<1>4. PICK p \in 1 .. (n + 1) - 1 : /\ Owner(ms, n + 1) = p
                                    /\ (n + 1) - p \in 1 .. Len(ms[p].calls)
  BY <1>2, <1>3, MembersBundle
<1>5. ASSUME NEW j \in o + 1 .. (n + 1) - 1 PROVE ms[j].role = "tool"
  <2>1. j - o \in 1 .. Len(ms[o].calls) /\ o + (j - o) = j
    BY <1>1, <1>2
  <2>2. ms[o + (j - o)].role = "tool"
    BY <2>1, BundleMembers
  <2> QED
    BY <2>1, <2>2
<1>6. ms[o].role # "tool"
  BY BundleResults DEF HasCalls
<1>7. Owner(ms, n + 1) = o
  BY <1>1, <1>2, <1>5, <1>6, OwnerIs
<1> QED
  BY <1>1, <1>2, <1>4, <1>7

-----------------------------------------------------------------------------
(* Reading back the messages of a turn one by one *)

Bare(m) == [m EXCEPT !.calls = <<>>, !.ckpt = FALSE]
Spoken(m) == m.role = "assistant" /\ m.mark = "none"

LEMMA BareTypes ==
  ASSUME NEW m \in Messages
  PROVE  /\ Bare(m) \in Messages /\ Bare(m).role = m.role /\ Bare(m).ref = m.ref
         /\ Bare(m).calls = <<>> /\ ~HasCalls(Bare(m))
<1>1. <<>> \in Seq(Nat)
  OBVIOUS
<1> QED
  BY <1>1 DEF Bare, Messages, HasCalls

\* Calls that join the last message of a list
LEMMA CallsAttached ==
  ASSUME NEW c \in Seq(Messages), NEW x \in Messages, x.calls = <<>>, NEW calls \in Seq(Nat)
  PROVE  \E y \in Messages : /\ [Append(c, x) EXCEPT ![Len(c) + 1].calls = @ \o calls] = Append(c, y)
                             /\ y.role = x.role /\ y.calls = calls
<1> DEFINE n == Len(c) + 1
           xs == Append(c, x)
           y == [x EXCEPT !.calls = calls]
           ys == [xs EXCEPT ![n].calls = @ \o calls]
           zs == Append(c, y)
<1>1. y \in Messages /\ y.role = x.role /\ y.calls = calls
  BY DEF Messages
<1>2. /\ xs \in Seq(Messages) /\ DOMAIN xs = 1 .. n /\ xs[n] = x /\ n \in 1 .. n
      /\ \A i \in 1 .. Len(c) : xs[i] = c[i]
  BY AppendFacts
<1>3. /\ zs \in Seq(Messages) /\ DOMAIN zs = 1 .. n /\ zs[n] = y
      /\ \A i \in 1 .. Len(c) : zs[i] = c[i]
  BY <1>1, AppendFacts
<1>4. x.calls \o calls = calls
  OBVIOUS
<1>5. [xs[n] EXCEPT !.calls = @ \o calls] = y
  BY <1>2, <1>4
<1> HIDE DEF y, xs, zs
<1>6. ys = [i \in 1 .. n |-> IF i = n THEN y ELSE xs[i]]
  BY <1>2, <1>5
<1>7. ASSUME NEW i \in 1 .. n PROVE (IF i = n THEN y ELSE xs[i]) = zs[i]
  <2>1. i = n \/ i \in 1 .. Len(c)
    BY ListFacts
  <2> QED
    BY <1>2, <1>3, <2>1
<1>8. zs = [i \in 1 .. n |-> zs[i]]
  BY <1>3
<1>9. ys = zs
  BY <1>6, <1>7, <1>8
<1> QED
  BY <1>1, <1>9 DEF ys, xs, zs

\* One message more: a result, another message without calls, and calls.
LEMMA ReadResult ==
  ASSUME NEW acc, NEW m, m.role = "tool", m.mark # "summary"
  PROVE  ReadBack(acc, m) = [out |-> Append(acc.out, Bare(m)), at |-> 0]
BY DEF ReadBack, Bare, HasCalls

LEMMA ReadNote ==
  ASSUME NEW acc, NEW m, \/ m.role = "user"
                         \/ m.mark = "summary" /\ m.role = "assistant" /\ m.calls = <<>>
  PROVE  ReadBack(acc, m) = [out |-> Append(acc.out, Bare(m)), at |-> acc.at]
BY DEF ReadBack, Bare, HasCalls

LEMMA ReadAnswer ==
  ASSUME NEW acc, NEW m, m.role = "assistant", m.mark # "summary", ~HasCalls(m), m.text \in BOOLEAN
  PROVE  ReadBack(acc, m) = IF m.mark = "none" /\ m.text
                            THEN [out |-> Append(acc.out, Bare(m)), at |-> Len(acc.out) + 1]
                            ELSE [out |-> acc.out, at |-> acc.at]
<1>1. CASE m.mark = "none" /\ m.text
  BY <1>1 DEF ReadBack, Bare, HasCalls
<1>2. CASE ~(m.mark = "none" /\ m.text)
  BY <1>2 DEF ReadBack, Bare, HasCalls
<1> QED
  BY <1>1, <1>2

LEMMA ReadCalls ==
  ASSUME NEW acc, acc.out \in Seq(Messages), NEW m \in Messages, HasCalls(m), m.mark = "none",
         NEW c \in Seq(Messages),
         \/ acc.at = 0 /\ acc.out = c
         \/ \E x \in Messages : /\ acc.out = Append(c, x) /\ acc.at = Len(c) + 1
                                /\ x.role = "assistant" /\ x.calls = <<>>
  PROVE  \E k \in {c, acc.out} : \E y \in Messages :
            /\ ReadBack(acc, m).out = Append(k, y) /\ ReadBack(acc, m).at = Len(k) + 1
            /\ y.role = "assistant" /\ y.calls = m.calls
<1> DEFINE r == ReadBack(acc, m)
<1>1. m.calls \in Seq(Nat) /\ m.role = "assistant" /\ m.text \in BOOLEAN /\ Len(acc.out) \in Nat
      /\ Len(c) \in Nat
  BY DEF HasCalls, Messages
<1>2. CASE m.text
  <2> DEFINE n == Len(acc.out)
             next == Append(acc.out, Bare(m))
             ys == [next EXCEPT ![n + 1].calls = @ \o m.calls]
  <2>1. r = [out |-> ys, at |-> n + 1]
    <3>1. n + 1 # 0
      BY <1>1
    <3> QED
      BY <1>1, <1>2, <3>1 DEF ReadBack, Bare, HasCalls
  <2>2. Bare(m) \in Messages /\ Bare(m).calls = <<>> /\ Bare(m).role = "assistant"
    BY <1>1, BareTypes
  <2>3. PICK y \in Messages : /\ ys = Append(acc.out, y)
                              /\ y.role = Bare(m).role /\ y.calls = m.calls
    BY ZenonT(20), <1>1, <2>2, CallsAttached
  <2> HIDE DEF ys, r
  <2> QED
    BY <2>1, <2>2, <2>3 DEF r
<1>3. CASE ~m.text /\ acc.at = 0 /\ acc.out = c
  <2> DEFINE y == [m EXCEPT !.ckpt = FALSE]
  <2>1. y \in Messages /\ y.role = "assistant" /\ y.calls = m.calls
    BY <1>1 DEF Messages
  <2>2. r = [out |-> Append(acc.out, y), at |-> Len(acc.out) + 1]
    BY <1>1, <1>3 DEF ReadBack, HasCalls
  <2> HIDE DEF r, y
  <2> QED
    BY <1>3, <2>1, <2>2 DEF r
<1>4. CASE ~m.text /\ acc.at # 0
  <2>1. PICK x \in Messages : /\ acc.out = Append(c, x) /\ acc.at = Len(c) + 1
                              /\ x.role = "assistant" /\ x.calls = <<>>
    BY <1>4
  <2> DEFINE ys == [acc.out EXCEPT ![acc.at].calls = @ \o m.calls]
  <2>2. r = [out |-> ys, at |-> acc.at]
    BY <1>1, <1>4 DEF ReadBack, HasCalls
  <2>3. PICK y \in Messages : /\ [Append(c, x) EXCEPT ![Len(c) + 1].calls = @ \o m.calls] = Append(c, y)
                              /\ y.role = x.role /\ y.calls = m.calls
    BY ZenonT(20), <1>1, <2>1, CallsAttached
  <2>4. ys = Append(c, y)
    BY <2>1, <2>3
  <2> HIDE DEF ys, r
  <2> QED
    BY <2>1, <2>2, <2>3, <2>4 DEF r
<1> QED
  BY <1>1, <1>2, <1>3, <1>4

\* Whatever was said before the message at j, a tool has answered since.
Late(ms, j) ==
    \A i \in 1 .. j - 1 : Spoken(ms[i]) => \E t \in i + 1 .. j - 1 : ms[t].role = "tool"

\* Messages that are read back as they are: nobody speaks between an answer and
\* calls without text that follow it.
Orderly(ms) ==
    /\ ReplaySafe(ms) /\ Shaped(ms)
    /\ \A j \in 1 .. Len(ms) : /\ ms[j].role = "tool" \/ HasCalls(ms[j]) => ms[j].mark = "none"
                               /\ ms[j].role = "user" => Late(ms, j)

\* Reading back n messages of ms has led to acc: no assistant can be joined, or the
\* last message can, or a bundle is being read.
Rested(ms, n) == n < Len(ms) => ms[n + 1].role # "tool"
Closed(acc, ms, n) == acc.out \in Seq(Messages) /\ ReplaySafe(acc.out) /\ acc.at = 0 /\ Rested(ms, n)
Joinable(acc, ms, n) ==
    /\ Rested(ms, n)
    /\ \E c \in Seq(Messages), x \in Messages :
          /\ acc.out = Append(c, x) /\ acc.at = Len(c) + 1 /\ ReplaySafe(c)
          /\ x.role = "assistant" /\ x.calls = <<>>
    /\ \E i \in 1 .. n : Spoken(ms[i]) /\ \A t \in i + 1 .. n : ms[t].role # "tool"
InBatch(acc, ms, n) ==
    \E c \in Seq(Messages), b \in Seq(Messages), o \in 1 .. n :
        /\ acc.out = c \o b /\ ReplaySafe(c)
        /\ ValidBundle(ms, o) /\ n - o < Len(ms[o].calls)
        /\ Len(b) = 1 + (n - o) /\ b[1].role = "assistant" /\ b[1].calls = ms[o].calls
        /\ \A k \in 1 .. n - o : b[1 + k].role = "tool" /\ b[1 + k].ref = ms[o + k].ref

LEMMA RestsAfter ==
  ASSUME NEW ms \in Seq(Messages), ReplaySafe(ms), NEW n \in 1 .. Len(ms),
         ms[n].role # "tool", ~HasCalls(ms[n])
  PROVE  Rested(ms, n)
<1>1. n < Len(ms) => n \in 1 .. Len(ms) - 1
  BY ListFacts
<1> QED
  BY <1>1, AfterPlain DEF Rested

LEMMA JoinableIsSafe ==
  ASSUME NEW acc, NEW ms, NEW n, Joinable(acc, ms, n)
  PROVE  acc.out \in Seq(Messages) /\ ReplaySafe(acc.out)
<1>1. PICK c \in Seq(Messages), x \in Messages :
          /\ acc.out = Append(c, x) /\ ReplaySafe(c)
          /\ x.role = "assistant" /\ x.calls = <<>>
  BY DEF Joinable
<1>2. x.role # "tool" /\ ~HasCalls(x)
  BY <1>1 DEF HasCalls
<1> QED
  BY <1>1, <1>2, AppendSafe, AppendFacts

\* A message without calls, when no bundle is being read
LEMMA PlainIsRead ==
  ASSUME NEW ms \in Seq(Messages), Orderly(ms), NEW n \in 0 .. Len(ms) - 1, NEW acc,
         Closed(acc, ms, n) \/ Joinable(acc, ms, n), ~HasCalls(ms[n + 1])
  PROVE  LET r == ReadBack(acc, ms[n + 1])
         IN  Closed(r, ms, n + 1) \/ Joinable(r, ms, n + 1)
<1> DEFINE m == ms[n + 1]
           r == ReadBack(acc, m)
<1>1. /\ n \in Nat /\ Len(ms) \in Nat /\ n + 1 \in 1 .. Len(ms) /\ n < Len(ms) /\ DOMAIN ms = 1 .. Len(ms)
      /\ m \in Messages /\ (n + 1) - 1 = n
  BY ListFacts
<1>2. ReplaySafe(ms) /\ m.role # "tool"
  BY <1>1 DEF Orderly, Closed, Joinable, Rested
<1>3. Rested(ms, n + 1)
  BY <1>1, <1>2, RestsAfter
<1>4. /\ m.role \in {"user", "assistant"} /\ m.text \in BOOLEAN
      /\ m.mark = "summary" => n = 0 /\ m.role = "assistant" /\ m.calls = <<>>
      /\ m.role = "user" => Late(ms, n + 1)
  <2>1. m.role \in {"user", "assistant"} /\ m.text \in BOOLEAN
    BY <1>1, <1>2 DEF Messages
  <2>2. m.mark = "summary" => n + 1 = 1 /\ m.role = "assistant" /\ m.calls = <<>>
    BY <1>1 DEF Orderly, Shaped
  <2>3. m.role = "user" => Late(ms, n + 1)
    BY <1>1 DEF Orderly
  <2> QED
    BY <1>1, <2>1, <2>2, <2>3
<1>5. acc.out \in Seq(Messages) /\ ReplaySafe(acc.out)
  BY JoinableIsSafe DEF Closed
<1>6. Bare(m) \in Messages /\ Bare(m).role = m.role /\ Bare(m).calls = <<>> /\ ~HasCalls(Bare(m))
  BY <1>1, BareTypes
<1>7. CASE m.role = "user" \/ m.mark = "summary"
  <2>1. r = [out |-> Append(acc.out, Bare(m)), at |-> acc.at]
    BY <1>4, <1>7, ReadNote
  <2>2. Closed(acc, ms, n)
    <3>1. ASSUME Joinable(acc, ms, n) PROVE FALSE
      <4>1. PICK i \in 1 .. n : Spoken(ms[i]) /\ \A t \in i + 1 .. n : ms[t].role # "tool"
        BY <3>1 DEF Joinable
      <4>2. m.role = "user"
        BY <1>1, <1>4, <1>7, <4>1
      <4>3. \E t \in i + 1 .. n : ms[t].role = "tool"
        BY <1>1, <1>4, <4>1, <4>2 DEF Late
      <4> QED
        BY <4>1, <4>3
    <3> QED
      BY <3>1
  <2>3. Append(acc.out, Bare(m)) \in Seq(Messages) /\ ReplaySafe(Append(acc.out, Bare(m)))
    BY <1>2, <1>5, <1>6, AppendSafe, AppendFacts
  <2> HIDE DEF r, m
  <2> QED
    BY <1>3, <2>1, <2>2, <2>3 DEF Closed, r, m
<1>8. CASE m.role = "assistant" /\ m.mark # "summary" /\ m.mark = "none" /\ m.text
  <2>1. r = [out |-> Append(acc.out, Bare(m)), at |-> Len(acc.out) + 1]
    BY <1>4, <1>8, ReadAnswer
  <2>2. n + 1 \in 1 .. n + 1 /\ Spoken(ms[n + 1]) /\ \A t \in (n + 1) + 1 .. n + 1 : ms[t].role # "tool"
    BY <1>1, <1>8 DEF Spoken
  <2> HIDE DEF r, m
  <2>3. Joinable(r, ms, n + 1)
    BY <1>3, <1>5, <1>6, <1>8, <2>1, <2>2 DEF Joinable
  <2> QED
    BY <2>3 DEF r, m
<1>9. CASE m.role = "assistant" /\ m.mark # "summary" /\ ~(m.mark = "none" /\ m.text)
  <2>1. r = [out |-> acc.out, at |-> acc.at]
    BY <1>4, <1>9, ReadAnswer
  <2>2. ASSUME NEW i \in 1 .. n, \A t \in i + 1 .. n : ms[t].role # "tool"
        PROVE  i \in 1 .. n + 1 /\ \A t \in i + 1 .. n + 1 : ms[t].role # "tool"
    <3>1. \A t \in i + 1 .. n + 1 : t \in i + 1 .. n \/ t = n + 1
      BY <1>1
    <3> QED
      BY <1>1, <1>2, <2>2, <3>1
  <2> HIDE DEF r, m
  <2>3. CASE Closed(acc, ms, n)
    BY <1>3, <2>1, <2>3 DEF Closed, r, m
  <2>4. CASE Joinable(acc, ms, n)
    <3>1. PICK i \in 1 .. n : Spoken(ms[i]) /\ \A t \in i + 1 .. n : ms[t].role # "tool"
      BY <2>4 DEF Joinable
    <3>2. \E j \in 1 .. n + 1 : Spoken(ms[j]) /\ \A t \in j + 1 .. n + 1 : ms[t].role # "tool"
      BY <2>2, <3>1
    <3>3. Joinable(r, ms, n + 1)
      BY <1>3, <2>1, <2>4, <3>2 DEF Joinable
    <3> QED
      BY <3>3 DEF r, m
  <2> QED
    BY <2>3, <2>4
<1> QED
  BY <1>4, <1>7, <1>8, <1>9

\* Calls, when no bundle is being read
LEMMA CallsAreRead ==
  ASSUME NEW ms \in Seq(Messages), Orderly(ms), NEW n \in 0 .. Len(ms) - 1, NEW acc,
         Closed(acc, ms, n) \/ Joinable(acc, ms, n), HasCalls(ms[n + 1])
  PROVE  InBatch(ReadBack(acc, ms[n + 1]), ms, n + 1)
<1> DEFINE m == ms[n + 1]
           r == ReadBack(acc, m)
           o == n + 1
<1>1. /\ n \in Nat /\ Len(ms) \in Nat /\ o \in 1 .. Len(ms) /\ DOMAIN ms = 1 .. Len(ms)
      /\ m \in Messages /\ o \in 1 .. o /\ o - o = 0
      /\ DOMAIN m.calls = 1 .. Len(m.calls) /\ Len(m.calls) \in Nat /\ m.calls \in Seq(Nat)
  BY ListFacts
<1>2. ValidBundle(ms, o) /\ m.mark = "none" /\ m.calls # <<>>
  BY <1>1 DEF Orderly, ReplaySafe, HasCalls
<1>3. o - o < Len(m.calls)
  BY <1>1, <1>2
<1>4. acc.out \in Seq(Messages) /\ ReplaySafe(acc.out)
  BY JoinableIsSafe DEF Closed
<1>5. \E c \in Seq(Messages) :
          /\ ReplaySafe(c)
          /\ \/ acc.at = 0 /\ acc.out = c
             \/ \E x \in Messages : /\ acc.out = Append(c, x) /\ acc.at = Len(c) + 1
                                    /\ x.role = "assistant" /\ x.calls = <<>>
  BY <1>4 DEF Closed, Joinable
<1>6. PICK c \in Seq(Messages) :
          /\ ReplaySafe(c)
          /\ \/ acc.at = 0 /\ acc.out = c
             \/ \E x \in Messages : /\ acc.out = Append(c, x) /\ acc.at = Len(c) + 1
                                    /\ x.role = "assistant" /\ x.calls = <<>>
  BY <1>5
<1>7. PICK k \in {c, acc.out} : \E y \in Messages :
            /\ r.out = Append(k, y) /\ r.at = Len(k) + 1
            /\ y.role = "assistant" /\ y.calls = m.calls
  <2>1. HasCalls(m)
    BY <1>2 DEF HasCalls, ValidBundle
  <2> HIDE DEF m
  <2> QED
    BY <1>1, <1>2, <1>4, <1>6, <2>1, ReadCalls DEF r
<1>8. PICK y \in Messages : r.out = Append(k, y) /\ y.role = "assistant" /\ y.calls = m.calls
  BY <1>7
<1> DEFINE b == <<y>>
<1>9. /\ k \in Seq(Messages) /\ ReplaySafe(k) /\ b \in Seq(Messages) /\ r.out = k \o b
      /\ Len(b) = 1 + (o - o) /\ b[1] = y
  BY <1>1, <1>4, <1>6, <1>8
<1>10. \A t \in 1 .. o - o : b[1 + t].role = "tool" /\ b[1 + t].ref = ms[o + t].ref
  BY <1>1
<1> HIDE DEF r, b
<1>11. b[1].role = "assistant" /\ b[1].calls = ms[o].calls
  BY <1>8, <1>9
<1> HIDE DEF o
<1>12. InBatch(r, ms, o)
  <2>1. o - o < Len(ms[o].calls)
    BY <1>3 DEF o
  <2> QED
    BY <1>1, <1>2, <1>9, <1>10, <1>11, <2>1 DEF InBatch
<1> QED
  BY <1>12 DEF r, o

LEMMA AppendToConcat ==
  ASSUME NEW a \in Seq(Messages), NEW b \in Seq(Messages), NEW x \in Messages
  PROVE  Append(a \o b, x) = a \o Append(b, x)
<1>1. Append(b, x) = b \o <<x>> /\ Append(a \o b, x) = (a \o b) \o <<x>> /\ <<x>> \in Seq(Messages)
  OBVIOUS
<1>2. (a \o b) \o <<x>> = a \o (b \o <<x>>)
  BY <1>1
<1> QED
  BY <1>1, <1>2

\* A result, which comes only while a bundle is being read
LEMMA ResultIsRead ==
  ASSUME NEW ms \in Seq(Messages), Orderly(ms), NEW n \in 0 .. Len(ms) - 1, NEW acc,
         InBatch(acc, ms, n)
  PROVE  LET r == ReadBack(acc, ms[n + 1])
         IN  Closed(r, ms, n + 1) \/ InBatch(r, ms, n + 1)
<1> DEFINE m == ms[n + 1]
           r == ReadBack(acc, m)
<1>1. /\ n \in Nat /\ Len(ms) \in Nat /\ n + 1 \in 1 .. Len(ms) /\ DOMAIN ms = 1 .. Len(ms)
      /\ m \in Messages /\ ReplaySafe(ms)
  BY ListFacts DEF Orderly
<1>2. PICK c \in Seq(Messages), b \in Seq(Messages), o \in 1 .. n :
        /\ acc.out = c \o b /\ ReplaySafe(c)
        /\ ValidBundle(ms, o) /\ n - o < Len(ms[o].calls)
        /\ Len(b) = 1 + (n - o) /\ b[1].role = "assistant" /\ b[1].calls = ms[o].calls
        /\ \A k \in 1 .. n - o : b[1 + k].role = "tool" /\ b[1 + k].ref = ms[o + k].ref
  BY DEF InBatch
<1> DEFINE calls == ms[o].calls
           d == n - o
           x == Bare(m)
           e == Append(b, x)
<1>3. /\ o \in 1 .. Len(ms) /\ d \in Nat /\ n = o + d /\ calls \in Seq(Nat) /\ Len(calls) \in Nat
      /\ DOMAIN calls = 1 .. Len(calls) /\ d + 1 \in 1 .. Len(calls) /\ o + (d + 1) = n + 1
      /\ o \in 1 .. n + 1 /\ (n + 1) - o = d + 1
  <2>1. o \in 1 .. Len(ms) /\ d \in Nat /\ n = o + d /\ o + (d + 1) = n + 1
        /\ o \in 1 .. n + 1 /\ (n + 1) - o = d + 1
    BY <1>1
  <2>2. calls \in Seq(Nat) /\ Len(calls) \in Nat /\ DOMAIN calls = 1 .. Len(calls)
    BY <2>1, ListFacts
  <2>3. d < Len(calls)
    BY <1>2
  <2> HIDE DEF d, calls
  <2> QED
    BY <2>1, <2>2, <2>3
<1>4. m.role = "tool"
  <2>1. ms[o + (d + 1)].role = "tool"
    BY <1>2, <1>3, BundleMembers
  <2> QED
    BY <1>3, <2>1
<1>5. m.mark # "summary"
  BY <1>1, <1>4 DEF Orderly
<1>6. r = [out |-> Append(acc.out, x), at |-> 0]
  BY <1>4, <1>5, ReadResult
<1>7. x \in Messages /\ x.role = "tool" /\ x.ref = m.ref
  BY <1>1, <1>4, BareTypes
<1> HIDE DEF r, m, x
<1>8. /\ e \in Seq(Messages) /\ Len(e) = 1 + (d + 1) /\ e[1] = b[1] /\ e[1 + (d + 1)] = x
      /\ \A k \in 1 .. d : e[1 + k] = b[1 + k]
      /\ r.out = c \o e /\ r.at = 0
  <2>1. /\ e \in Seq(Messages) /\ Len(e) = Len(b) + 1 /\ e[Len(b) + 1] = x
        /\ \A i \in 1 .. Len(b) : e[i] = b[i]
    BY <1>7, AppendFacts
  <2>2. Len(b) = 1 + d /\ d \in Nat
    BY <1>2, <1>3
  <2>3. Append(c \o b, x) = c \o e
    <3>1. x \in Messages
      BY <1>7
    <3> QED
      BY <3>1, AppendToConcat
  <2> HIDE DEF e, d
  <2>4. /\ 1 \in 1 .. Len(b) /\ \A k \in 1 .. d : 1 + k \in 1 .. Len(b)
        /\ Len(b) + 1 = 1 + (d + 1)
    BY <2>2
  <2>5. e \in Seq(Messages) /\ Len(e) = 1 + (d + 1) /\ e[1] = b[1] /\ e[1 + (d + 1)] = x
    BY <2>1, <2>4
  <2>6. \A k \in 1 .. d : e[1 + k] = b[1 + k]
    BY <2>1, <2>4
  <2>7. r.out = c \o e /\ r.at = 0
    BY <1>2, <1>6, <2>3
  <2> QED
    BY <2>5, <2>6, <2>7
<1> HIDE DEF e
<1>9. ASSUME NEW k \in 1 .. d + 1 PROVE e[1 + k].role = "tool" /\ e[1 + k].ref = ms[o + k].ref
  <2>1. CASE k = d + 1
    BY <1>3, <1>7, <1>8, <2>1 DEF m
  <2>2. CASE k # d + 1
    <3>1. k \in 1 .. d
      BY <1>3, <2>2
    <3> QED
      BY <1>2, <1>8, <3>1
  <2> QED
    BY <2>1, <2>2
<1>10. e[1].role = "assistant" /\ e[1].calls = calls
  BY <1>2, <1>8
<1>11. CASE d + 1 < Len(calls)
  <2>1. InBatch(r, ms, n + 1)
    <3>1. Len(e) = 1 + ((n + 1) - o) /\ (n + 1) - o < Len(calls)
      BY <1>3, <1>8, <1>11
    <3>2. \A k \in 1 .. (n + 1) - o : e[1 + k].role = "tool" /\ e[1 + k].ref = ms[o + k].ref
      BY <1>3, <1>9
    <3>3. e[1].role = "assistant" /\ e[1].calls = ms[o].calls /\ (n + 1) - o < Len(ms[o].calls)
      BY <1>10, <3>1
    <3> HIDE DEF d, calls
    <3> QED
      <4>1. /\ e \in Seq(Messages) /\ r.out = c \o e /\ ReplaySafe(c) /\ ValidBundle(ms, o)
            /\ o \in 1 .. n + 1
        BY <1>2, <1>3, <1>8
      <4> QED
        BY <3>1, <3>2, <3>3, <4>1 DEF InBatch
  <2> QED
    BY <2>1 DEF r, m
<1>12. CASE d + 1 = Len(calls)
  <2>1. ValidBundle(e, 1)
    <3>1. 1 \in 1 .. Len(e) /\ 1 + Len(calls) <= Len(e) /\ Len(e) \in Nat
      BY <1>3, <1>8, <1>12
    <3>2. Len(calls) <= Following(e, 1)
      BY <1>3, <1>8, <1>9, <1>12, <3>1, FollowingCounts
    <3>3. HasCalls(ms[o]) /\ IsInjective(calls) /\ {ms[o + k].ref : k \in DOMAIN calls} = ToSet(calls)
      BY <1>2 DEF ValidBundle
    <3>4. {e[1 + k].ref : k \in DOMAIN calls} = {ms[o + k].ref : k \in DOMAIN calls}
      <4>1. DOMAIN calls = 1 .. d + 1
        BY <1>3, <1>12
      <4> HIDE DEF calls, d
      <4> QED
        BY <1>9, <4>1
    <3>5. HasCalls(e[1])
      BY <1>10, <3>3 DEF HasCalls
    <3> HIDE DEF calls
    <3> QED
      BY <1>10, <3>2, <3>3, <3>4, <3>5 DEF ValidBundle
  <2>2. ReplaySafe(e)
    <3>1. Len(e) = 1 + Len(e[1].calls) /\ Len(e) > 0
      <4>1. Len(e[1].calls) = Len(calls)
        BY <1>10
      <4> HIDE DEF calls, d
      <4> QED
        BY <1>3, <1>8, <1>12, <4>1
    <3> QED
      BY <1>8, <2>1, <3>1, BundleIsSafe
  <2>3. r.out \in Seq(Messages) /\ ReplaySafe(r.out)
    BY <1>2, <1>8, <2>2, ConcatSafe
  <2>4. Rested(ms, n + 1)
    <3>1. n + 1 = o + Len(ms[o].calls)
      BY <1>3, <1>12
    <3> QED
      BY <1>1, <1>2, <1>3, <3>1, AfterBundle DEF Rested
  <2>5. Closed(r, ms, n + 1)
    BY <1>8, <2>3, <2>4 DEF Closed
  <2> QED
    BY <2>5 DEF r, m
<1> QED
  <2>1. d + 1 < Len(calls) \/ d + 1 = Len(calls)
    <3>1. \A p, q \in Nat : p \in 1 .. q => p < q \/ p = q
      OBVIOUS
    <3>2. d + 1 \in Nat /\ d + 1 \in 1 .. Len(calls) /\ Len(calls) \in Nat
      BY <1>3
    <3> HIDE DEF d, calls
    <3> QED
      BY <3>1, <3>2
  <2> QED
    BY <1>11, <1>12, <2>1

\* What is read back can be sent.
LEMMA ReadBackSafe ==
  ASSUME NEW ms \in Seq(Messages), Orderly(ms)
  PROVE  ReadBackAll(ms) \in Seq(Messages) /\ ReplaySafe(ReadBackAll(ms))
<1>1. Len(ms) \in Nat /\ DOMAIN ms = 1 .. Len(ms)
  BY ListFacts
<1>2. PICK f : /\ ReadBackAll(ms) = f[Len(ms)].out
               /\ f[0] = [out |-> <<>>, at |-> 0]
               /\ \A n \in 1 .. Len(ms) : f[n] = ReadBack(f[n - 1], ms[n])
  BY ReadBackStages
<1> DEFINE Stage(n) == Closed(f[n], ms, n) \/ Joinable(f[n], ms, n) \/ InBatch(f[n], ms, n)
           T == {n \in 0 .. Len(ms) : Stage(n)}
<1>3. Stage(0)
  <2>1. Rested(ms, 0)
    <3> SUFFICES ASSUME 0 < Len(ms), ms[1].role = "tool" PROVE FALSE
      BY DEF Rested
    <3>1. 1 \in 1 .. Len(ms) /\ InBundle(ms, 1)
      BY <1>1 DEF Orderly, ReplaySafe
    <3>2. \E o \in 1 .. 1 - 1 : Owner(ms, 1) = o
      BY <3>1, MembersBundle
    <3> QED
      BY <3>2
  <2>2. Closed(f[0], ms, 0)
    BY <1>2, <2>1, NoneIsSafe DEF Closed
  <2> QED
    BY <2>2
<1>4. ASSUME NEW n \in 0 .. Len(ms) - 1, Stage(n) PROVE Stage(n + 1)
  <2>1. n + 1 \in 1 .. Len(ms) /\ (n + 1) - 1 = n
    BY <1>1
  <2>2. f[n + 1] = ReadBack(f[n], ms[n + 1])
    BY <1>2, <2>1
  <2>3. CASE InBatch(f[n], ms, n)
    BY <2>2, <2>3, ResultIsRead
  <2>4. CASE (Closed(f[n], ms, n) \/ Joinable(f[n], ms, n)) /\ ~HasCalls(ms[n + 1])
    BY <2>2, <2>4, PlainIsRead
  <2>5. CASE (Closed(f[n], ms, n) \/ Joinable(f[n], ms, n)) /\ HasCalls(ms[n + 1])
    BY <2>2, <2>5, CallsAreRead
  <2> QED
    BY <1>4, <2>3, <2>4, <2>5
<1> HIDE DEF Stage
<1>5. \A k \in 1 .. Len(ms) : k \in T
  <2>1. ASSUME NEW k \in 1 .. Len(ms), \A i \in 1 .. k - 1 : i \in T PROVE k \in T
    <3>1. Stage(k - 1)
      <4>1. CASE k = 1
        BY <1>3, <4>1
      <4>2. CASE k # 1
        <5>1. k - 1 \in 1 .. k - 1
          BY <1>1, <4>2
        <5> QED
          BY <2>1, <5>1
      <4> QED
        BY <4>1, <4>2
    <3>2. k - 1 \in 0 .. Len(ms) - 1 /\ (k - 1) + 1 = k /\ k \in 0 .. Len(ms)
      BY <1>1
    <3>3. Stage((k - 1) + 1)
      BY <1>4, <3>1, <3>2
    <3> QED
      BY <3>2, <3>3
  <2> HIDE DEF T
  <2> QED
    BY <1>1, <2>1, Upto
<1>6. Stage(Len(ms))
  <2>1. CASE Len(ms) = 0
    BY <1>3, <2>1
  <2>2. CASE Len(ms) # 0
    BY <1>1, <1>5, <2>2
  <2> QED
    BY <2>1, <2>2
<1>7. ~InBatch(f[Len(ms)], ms, Len(ms))
  <2> SUFFICES ASSUME NEW o \in 1 .. Len(ms), ValidBundle(ms, o), Len(ms) - o < Len(ms[o].calls)
               PROVE  FALSE
    BY DEF InBatch
  <2>1. o + Len(ms[o].calls) <= Len(ms) /\ Len(ms[o].calls) \in Nat
    BY BundleResults, ListFacts
  <2> QED
    BY <1>1, <2>1
<1> QED
  BY <1>2, <1>6, <1>7, JoinableIsSafe DEF Stage, Closed

-----------------------------------------------------------------------------
(* The prompts of the events, and turns without tools *)

\* A list that differs from a replay-safe one in the texts of the user only
LEMMA SameTools ==
  ASSUME NEW ms \in Seq(Messages), NEW out \in Seq(Messages), ReplaySafe(ms), Len(out) = Len(ms),
         \A i \in 1 .. Len(ms) : /\ out[i].role = ms[i].role
                                 /\ ms[i].role # "user" => out[i] = ms[i]
  PROVE  ReplaySafe(out)
<1>1. /\ DOMAIN ms = 1 .. Len(ms) /\ Len(ms) \in Nat /\ DOMAIN out = 1 .. Len(ms)
      /\ \A i \in 1 .. Len(ms) : Len(ms[i].calls) \in Nat
  BY ListFacts
<1>2. ASSUME NEW o \in 1 .. Len(ms), ValidBundle(ms, o) PROVE ValidBundle(out, o)
  <2>1. o + Len(ms[o].calls) <= Len(out) /\ Len(ms[o].calls) \in Nat
    BY <1>1, <1>2, BundleResults
  <2>2. ASSUME NEW k \in 0 .. Len(ms[o].calls) PROVE out[o + k] = ms[o + k]
    <3>1. CASE k = 0
      BY <1>2, <3>1 DEF ValidBundle, HasCalls
    <3>2. CASE k # 0
      <4>1. k \in 1 .. Len(ms[o].calls)
        BY <2>1, <3>2
      <4>2. o + k \in 1 .. Len(ms) /\ ms[o + k].role = "tool"
        BY <1>2, <4>1, BundleMembers
      <4> QED
        BY <4>2
    <3> QED
      BY <3>1, <3>2
  <2> QED
    BY <1>1, <1>2, <2>1, <2>2, BundleCopied
<1>3. ASSUME NEW i \in 1 .. Len(ms) PROVE ~Bad(out, i)
  <2>1. ASSUME out[i].role = "tool" PROVE InBundle(out, i)
    <3>1. ms[i].role = "tool" /\ InBundle(ms, i)
      BY <1>1, <2>1 DEF ReplaySafe
    <3>2. PICK o \in 1 .. i - 1 : /\ o \in 1 .. Len(ms) /\ ValidBundle(ms, o)
                                  /\ i - o \in 1 .. Len(ms[o].calls)
      BY <3>1, MembersBundle
    <3>3. ValidBundle(out, o) /\ out[o] = ms[o]
      BY <1>2, <3>2 DEF ValidBundle, HasCalls
    <3>4. o \in 1 .. Len(out) /\ i - o \in 1 .. Len(out[o].calls) /\ o + (i - o) = i
      BY <3>2, <3>3
    <3>5. InBundle(out, o + (i - o))
      BY <3>3, <3>4, BundleMembers
    <3> QED
      BY <3>4, <3>5
  <2>2. ASSUME HasCalls(out[i]) PROVE ValidBundle(out, i)
    <3>1. HasCalls(ms[i])
      BY <2>2 DEF HasCalls
    <3> QED
      BY <1>1, <1>2, <3>1 DEF ReplaySafe
  <2> QED
    BY <2>1, <2>2 DEF Bad
<1> QED
  BY <1>1, <1>3, NotBadIsSafe

LEMMA RawPrompts ==
  ASSUME NEW ms \in Seq(Messages), NEW prompt \in Nat
  PROVE  LET events == WithRawPrompt(ms, prompt)
         IN  /\ events \in Seq(Messages) /\ Len(events) = Len(ms)
             /\ \A i \in 1 .. Len(ms) :
                   /\ events[i].role = ms[i].role /\ events[i].calls = ms[i].calls
                   /\ events[i].covers = ms[i].covers /\ events[i].mark = ms[i].mark
                   /\ ms[i].role # "user" => events[i] = ms[i]
<1> DEFINE events == WithRawPrompt(ms, prompt)
           users == {i \in DOMAIN ms : ms[i].role = "user"}
           first == CHOOSE i \in users : \A v \in users : i <= v
<1>1. DOMAIN ms = 1 .. Len(ms) /\ Len(ms) \in Nat /\ \A i \in 1 .. Len(ms) : ms[i] \in Messages
  BY ListFacts
<1>2. users # {} => first \in users
  <2>1. users \in SUBSET Nat
    BY <1>1
  <2> HIDE DEF users
  <2> QED
    BY <2>1, Least
<1>3. events = [i \in DOMAIN ms |-> IF users # {} /\ i = first THEN [ms[i] EXCEPT !.ref = prompt] ELSE ms[i]]
  BY DEF WithRawPrompt
<1>4. users # {} => ms[first].role = "user"
  BY <1>2
<1> HIDE DEF users, first, events
<1>5. ASSUME NEW i \in 1 .. Len(ms)
      PROVE  /\ events[i] \in Messages
             /\ events[i].role = ms[i].role /\ events[i].calls = ms[i].calls
             /\ events[i].covers = ms[i].covers /\ events[i].mark = ms[i].mark
             /\ ms[i].role # "user" => events[i] = ms[i]
  <2>1. [ms[i] EXCEPT !.ref = prompt] \in Messages
    BY <1>1 DEF Messages
  <2>2. events[i] = IF users # {} /\ i = first THEN [ms[i] EXCEPT !.ref = prompt] ELSE ms[i]
    BY <1>1, <1>3
  <2> QED
    BY <1>1, <1>4, <2>1, <2>2 DEF Messages
<1>6. events \in Seq(Messages) /\ Len(events) = Len(ms)
  <2>1. events = [i \in 1 .. Len(ms) |-> events[i]]
    BY <1>1, <1>3
  <2> QED
    BY <1>1, <1>5, <2>1
<1> QED
  BY <1>5, <1>6 DEF events

LEMMA EventsAreOrderly ==
  ASSUME NEW ms \in Seq(Messages), NEW prompt \in Nat, Orderly(ms)
  PROVE  Orderly(WithRawPrompt(ms, prompt))
<1> DEFINE events == WithRawPrompt(ms, prompt)
<1>1. /\ events \in Seq(Messages) /\ Len(events) = Len(ms)
      /\ \A i \in 1 .. Len(ms) :
            /\ events[i].role = ms[i].role /\ events[i].calls = ms[i].calls
            /\ events[i].covers = ms[i].covers /\ events[i].mark = ms[i].mark
            /\ ms[i].role # "user" => events[i] = ms[i]
  BY RawPrompts
<1> HIDE DEF events
<1>2. DOMAIN ms = 1 .. Len(ms) /\ DOMAIN events = 1 .. Len(ms) /\ Len(ms) \in Nat
  BY <1>1, ListFacts
<1>3. ReplaySafe(events)
  BY <1>1, SameTools DEF Orderly
<1>4. Shaped(events)
  BY <1>1, <1>2 DEF Orderly, Shaped
<1>5. ASSUME NEW j \in 1 .. Len(ms), events[j].role = "user" PROVE Late(events, j)
  <2>1. Late(ms, j)
    BY <1>1, <1>5 DEF Orderly
  <2>2. \A i \in 1 .. j - 1 : i \in 1 .. Len(ms) /\ \A t \in i + 1 .. j - 1 : t \in 1 .. Len(ms)
    BY <1>2
  <2> QED
    BY <1>1, <2>1, <2>2 DEF Late, Spoken
<1>6. \A j \in 1 .. Len(ms) : events[j].role = "tool" \/ HasCalls(events[j]) => events[j].mark = "none"
  BY <1>1 DEF Orderly, HasCalls
<1> QED
  BY <1>1, <1>3, <1>4, <1>5, <1>6 DEF Orderly, events

\* Messages without calls and results
Quiet(ms) == \A i \in 1 .. Len(ms) : ms[i].role # "tool" /\ ~HasCalls(ms[i])

LEMMA QuietIsSafe ==
  ASSUME NEW ms \in Seq(Messages), Quiet(ms) PROVE ReplaySafe(ms)
BY ListFacts DEF Quiet, ReplaySafe

LEMMA QuietAppend ==
  ASSUME NEW ms \in Seq(Messages), Quiet(ms), NEW m \in Messages, m.role # "tool", ~HasCalls(m)
  PROVE  Quiet(Append(ms, m))
<1>1. \A i \in 1 .. Len(ms) + 1 : i \in 1 .. Len(ms) \/ i = Len(ms) + 1
  BY ListFacts
<1> QED
  BY <1>1, AppendFacts DEF Quiet

LEMMA QuietOnly ==
  ASSUME NEW ms \in Seq(Messages), Quiet(ms), NEW kept
  PROVE  Only(ms, kept) \in Seq(Messages) /\ Quiet(Only(ms, kept))
<1>1. Only(ms, kept) \in Seq(Messages)
  BY OnlyLayout
<1>2. PICK at : Places(Only(ms, kept), ms, kept, at)
  BY OnlyLayout
<1>3. \A p \in 1 .. Len(Only(ms, kept)) : \E i \in 1 .. Len(ms) : Only(ms, kept)[p] = ms[i]
  BY <1>2 DEF Places
<1> QED
  BY <1>1, <1>3 DEF Quiet

LEMMA QuietNewest ==
  ASSUME NEW ms \in Seq(Messages), Quiet(ms), ms # <<>>
  PROVE  Newest(ms, 1) \in Seq(Messages) /\ Quiet(Newest(ms, 1))
<1>1. Len(ms) \in Nat \ {0} /\ 1 \in 0 .. Len(ms) /\ (Len(ms) - 1) + 1 \in 1 .. Len(ms)
  OBVIOUS
<1>2. Newest(ms, 1) \in Seq(Messages)
  BY <1>1, NewestTypes
<1>3. \A i \in 1 .. Len(Newest(ms, 1)) : \E j \in 1 .. Len(ms) : Newest(ms, 1)[i] = ms[j]
  BY <1>1 DEF Newest
<1> QED
  BY <1>2, <1>3 DEF Quiet

LEMMA ReadBackQuiet ==
  ASSUME NEW ms \in Seq(Messages), Quiet(ms), Shaped(ms)
  PROVE  ReadBackAll(ms) \in Seq(Messages) /\ Quiet(ReadBackAll(ms))
<1>1. Len(ms) \in Nat /\ DOMAIN ms = 1 .. Len(ms)
  BY ListFacts
<1>2. PICK f : /\ ReadBackAll(ms) = f[Len(ms)].out
               /\ f[0] = [out |-> <<>>, at |-> 0]
               /\ \A n \in 1 .. Len(ms) : f[n] = ReadBack(f[n - 1], ms[n])
  BY ReadBackStages
<1> DEFINE Stage(n) == f[n].out \in Seq(Messages) /\ Quiet(f[n].out)
           T == {n \in 0 .. Len(ms) : Stage(n)}
<1>3. Stage(0)
  <2>1. f[0].out = <<>> /\ <<>> \in Seq(Messages)
    BY <1>2
  <2> QED
    BY <2>1 DEF Quiet
<1>4. ASSUME NEW n \in 1 .. Len(ms), Stage(n - 1) PROVE Stage(n)
  <2> DEFINE m == ms[n]
             acc == f[n - 1]
  <2>1. /\ m \in Messages /\ m.role # "tool" /\ ~HasCalls(m) /\ m.role \in {"user", "assistant"}
        /\ m.text \in BOOLEAN /\ f[n] = ReadBack(acc, m)
        /\ m.mark = "summary" => m.role = "assistant" /\ m.calls = <<>>
    <3>1. m \in Messages /\ m.role # "tool" /\ ~HasCalls(m)
      BY ListFacts DEF Quiet
    <3>2. m.mark = "summary" => m.role = "assistant" /\ m.calls = <<>>
      BY <1>1 DEF Shaped
    <3> QED
      BY <1>2, <3>1, <3>2 DEF Messages
  <2>2. Bare(m) \in Messages /\ Bare(m).role # "tool" /\ ~HasCalls(Bare(m))
    BY <2>1, BareTypes
  <2>3. Append(acc.out, Bare(m)) \in Seq(Messages) /\ Quiet(Append(acc.out, Bare(m)))
    BY <1>4, <2>2, QuietAppend, AppendFacts
  <2> HIDE DEF m, acc
  <2>4. f[n].out \in {acc.out, Append(acc.out, Bare(m))}
    <3>1. CASE m.role = "user" \/ m.mark = "summary"
      <4>1. f[n] = [out |-> Append(acc.out, Bare(m)), at |-> acc.at]
        BY <2>1, <3>1, ReadNote
      <4> QED
        BY <4>1
    <3>2. CASE ~(m.role = "user" \/ m.mark = "summary")
      <4>1. f[n] = IF m.mark = "none" /\ m.text
                   THEN [out |-> Append(acc.out, Bare(m)), at |-> Len(acc.out) + 1]
                   ELSE [out |-> acc.out, at |-> acc.at]
        BY <2>1, <3>2, ReadAnswer
      <4> QED
        BY <4>1
    <3> QED
      BY <3>1, <3>2
  <2> QED
    BY <1>4, <2>3, <2>4 DEF acc
<1> HIDE DEF Stage
<1>5. \A k \in 1 .. Len(ms) : k \in T
  <2>1. ASSUME NEW k \in 1 .. Len(ms), \A i \in 1 .. k - 1 : i \in T PROVE k \in T
    <3>1. Stage(k - 1)
      <4>1. CASE k = 1
        BY <1>3, <4>1
      <4>2. CASE k # 1
        <5>1. k - 1 \in 1 .. k - 1
          BY <1>1, <4>2
        <5> QED
          BY <2>1, <5>1
      <4> QED
        BY <4>1, <4>2
    <3>2. k \in 0 .. Len(ms)
      BY <1>1
    <3> QED
      BY <1>4, <3>1, <3>2
  <2> HIDE DEF T
  <2> QED
    BY <1>1, <2>1, Upto
<1>6. Stage(Len(ms))
  <2>1. CASE Len(ms) = 0
    BY <1>3, <2>1
  <2>2. CASE Len(ms) # 0
    BY <1>1, <1>5, <2>2
  <2> QED
    BY <2>1, <2>2
<1> QED
  BY <1>2, <1>6 DEF Stage

-----------------------------------------------------------------------------
(* Where the results that are read back come from *)

\* The results in ms are of calls in a.
Heard(ms, a) == \A i \in 1 .. Len(ms) : ms[i].role = "tool" => ms[i].ref \in a

LEMMA HeardIsResults ==
  ASSUME NEW ms \in Seq(Messages), NEW a PROVE Heard(ms, a) <=> Results(ms) \subseteq a
BY ListFacts DEF Heard, Results

LEMMA HeardConcat ==
  ASSUME NEW x \in Seq(Messages), NEW y \in Seq(Messages), NEW a, Heard(x, a), Heard(y, a)
  PROVE  x \o y \in Seq(Messages) /\ Heard(x \o y, a)
<1>1. /\ Len(x) \in Nat /\ Len(y) \in Nat /\ x \o y \in Seq(Messages) /\ Len(x \o y) = Len(x) + Len(y)
      /\ \A i \in 1 .. Len(x) + Len(y) : (x \o y)[i] = IF i <= Len(x) THEN x[i] ELSE y[i - Len(x)]
  OBVIOUS
<1>2. ASSUME NEW i \in 1 .. Len(x) + Len(y), (x \o y)[i].role = "tool" PROVE (x \o y)[i].ref \in a
  <2>1. CASE i <= Len(x)
    <3>1. i \in 1 .. Len(x) /\ (x \o y)[i] = x[i]
      BY <1>1, <2>1
    <3> QED
      BY <1>2, <3>1 DEF Heard
  <2>2. CASE i > Len(x)
    <3>1. i - Len(x) \in 1 .. Len(y) /\ (x \o y)[i] = y[i - Len(x)]
      BY <1>1, <2>2
    <3> QED
      BY <1>2, <3>1 DEF Heard
  <2> QED
    BY <1>1, <2>1, <2>2
<1> QED
  BY <1>1, <1>2 DEF Heard

LEMMA HeardPart ==
  ASSUME NEW ms, NEW out, NEW a, Heard(ms, a),
         \A p \in 1 .. Len(out) : \E i \in 1 .. Len(ms) : out[p] = ms[i]
  PROVE  Heard(out, a)
BY DEF Heard

LEMMA HeardOnly ==
  ASSUME NEW ms \in Seq(Messages), NEW a, Heard(ms, a), NEW kept
  PROVE  Heard(Only(ms, kept), a)
<1>1. PICK at : Places(Only(ms, kept), ms, kept, at)
  BY OnlyLayout
<1>2. \A p \in 1 .. Len(Only(ms, kept)) : \E i \in 1 .. Len(ms) : Only(ms, kept)[p] = ms[i]
  BY <1>1 DEF Places
<1> QED
  BY <1>2, HeardPart

LEMMA HeardNewest ==
  ASSUME NEW ms \in Seq(Messages), NEW a, Heard(ms, a), NEW n \in 0 .. Len(ms)
  PROVE  Heard(Newest(ms, n), a)
<1>1. \A i \in 1 .. Len(Newest(ms, n)) : \E j \in 1 .. Len(ms) : Newest(ms, n)[i] = ms[j]
  <2>1. Len(ms) \in Nat
    BY ListFacts
  <2>2. Len(Newest(ms, n)) = n /\ \A i \in 1 .. n : Newest(ms, n)[i] = ms[(Len(ms) - n) + i]
    BY <2>1 DEF Newest
  <2>3. \A i \in 1 .. n : (Len(ms) - n) + i \in 1 .. Len(ms)
    BY <2>1
  <2> QED
    BY <2>2, <2>3
<1> QED
  BY <1>1, HeardPart

\* The sanitiser makes up no result.
LEMMA HeardSanitized ==
  ASSUME NEW ms \in Seq(Messages), NEW a, Heard(ms, a)
  PROVE  Heard(Sanitized(ms), a)
<1> DEFINE s == [i \in DOMAIN ms |-> Repaired(ms, i)]
           out == Sanitized(ms)
<1>1. DOMAIN ms = 1 .. Len(ms) /\ Len(ms) \in Nat /\ Len(s) = Len(ms)
      /\ \A i \in 1 .. Len(ms) : s[i] = Repaired(ms, i)
  BY ListFacts
<1>2. out \in Seq(Messages)
  BY SanitizedLayout
<1>3. PICK at : Layout(out, s, at)
  BY SanitizedLayout
<1> HIDE DEF out, s
<1>4. ASSUME NEW p \in 1 .. Len(out), out[p].role = "tool" PROVE out[p].ref \in a
  <2>1. PICK i \in 1 .. Len(ms) : \E k \in 1 .. Len(s[i]) : p = at[i] + k
    BY <1>1, <1>3 DEF Layout
  <2>a. PICK k \in 1 .. Len(s[i]) : p = at[i] + k
    BY <2>1
  <2>b. out[at[i] + k] = s[i][k]
    BY <1>1, <1>3, <2>a DEF Layout
  <2>2. k \in 1 .. Len(Repaired(ms, i)) /\ out[p] = Repaired(ms, i)[k]
    BY <1>1, <2>a, <2>b
  <2>3. CASE InBundle(ms, i)
    <3> DEFINE o == Owner(ms, i)
    <3>1. Repaired(ms, i) = <<ToolResult(ms[o].calls[i - o])>>
      BY <2>3, RepairedTypes
    <3>2. o \in 1 .. Len(ms) /\ ValidBundle(ms, o) /\ i - o \in 1 .. Len(ms[o].calls)
      BY <2>3, MembersBundle
    <3> HIDE DEF o
    <3>3. ms[o].calls[i - o] \in {ms[o + j].ref : j \in 1 .. Len(ms[o].calls)}
      <4>1. DOMAIN ms[o].calls = 1 .. Len(ms[o].calls)
        BY <3>2, ListFacts
      <4> QED
        BY <3>2, <4>1 DEF ValidBundle, ToSet
    <3>4. PICK j \in 1 .. Len(ms[o].calls) : ms[o].calls[i - o] = ms[o + j].ref
      BY <3>3
    <3>5. o + j \in 1 .. Len(ms) /\ ms[o + j].role = "tool"
      BY <3>2, BundleMembers
    <3>6. ms[o].calls[i - o] \in a
      BY <3>4, <3>5 DEF Heard
    <3>7. out[p] = ToolResult(ms[o].calls[i - o])
      BY <2>2, <3>1
    <3> QED
      BY <3>6, <3>7 DEF ToolResult, Plain
  <2>4. CASE ~InBundle(ms, i) /\ ms[i].role = "tool"
    <3>1. Repaired(ms, i) = <<InternalUser>>
      BY <2>4, RepairedTypes
    <3>2. out[p] = InternalUser
      BY <2>2, <3>1
    <3> QED
      BY <1>4, <3>2, Roles
  <2>5. CASE ms[i].role # "tool" /\ HasCalls(ms[i]) /\ ~ValidBundle(ms, i)
    <3>1. Repaired(ms, i) = <<[ms[i] EXCEPT !.calls = <<>>], InternalUser>>
      BY <2>5, RepairedTypes
    <3>2. out[p] = [ms[i] EXCEPT !.calls = <<>>] \/ out[p] = InternalUser
      BY <2>2, <3>1
    <3>3. [ms[i] EXCEPT !.calls = <<>>].role = ms[i].role
      BY ListFacts, Roles
    <3> QED
      BY <1>4, <2>5, <3>2, <3>3, Roles
  <2>6. CASE ms[i].role # "tool" /\ (HasCalls(ms[i]) => ValidBundle(ms, i))
    <3>1. Repaired(ms, i) = <<ms[i]>>
      BY <2>6, RepairedTypes
    <3>2. out[p] = ms[i]
      BY <2>2, <3>1
    <3> QED
      BY <1>4, <2>6, <3>2
  <2> QED
    BY <2>3, <2>4, <2>5, <2>6
<1> QED
  BY <1>4 DEF Heard, out

LEMMA HeardReadBack ==
  ASSUME NEW ms \in Seq(Messages), Shaped(ms), NEW a, Heard(ms, a)
  PROVE  Heard(ReadBackAll(ms), a)
<1>1. Len(ms) \in Nat /\ DOMAIN ms = 1 .. Len(ms)
  BY ListFacts
<1>2. PICK f : /\ ReadBackAll(ms) = f[Len(ms)].out
               /\ f[0] = [out |-> <<>>, at |-> 0]
               /\ \A n \in 1 .. Len(ms) : f[n] = ReadBack(f[n - 1], ms[n])
  BY ReadBackStages
<1> DEFINE Stage(n) == /\ f[n].out \in Seq(Messages) /\ f[n].at \in 0 .. Len(f[n].out)
                       /\ Heard(f[n].out, a)
           T == {n \in 0 .. Len(ms) : Stage(n)}
<1>3. Stage(0)
  <2>1. f[0].out = <<>> /\ <<>> \in Seq(Messages) /\ f[0].at = 0 /\ Len(<<>>) = 0
    BY <1>2
  <2> QED
    BY <2>1 DEF Heard
<1>4. ASSUME NEW n \in 1 .. Len(ms), Stage(n - 1) PROVE Stage(n)
  <2> DEFINE m == ms[n]
             acc == f[n - 1]
             r == f[n]
  <2>1. /\ m \in Messages /\ r = ReadBack(acc, m)
        /\ m.mark = "summary" => m.role = "assistant" /\ m.calls = <<>>
        /\ m.role = "tool" => m.ref \in a
    BY <1>1, <1>2, ListFacts DEF Shaped, Heard
  <2>2. acc.out \in Seq(Messages) /\ acc.at \in 0 .. Len(acc.out) /\ Heard(acc.out, a)
        /\ Len(acc.out) \in Nat
    BY <1>4, ListFacts
  <2> HIDE DEF m, acc, r
  <2>3. /\ r.out \in Seq(Messages) /\ r.at \in 0 .. Len(r.out)
        /\ \/ Len(r.out) = Len(acc.out)
           \/ Len(r.out) = Len(acc.out) + 1 /\ Alike(r.out[Len(acc.out) + 1], m)
        /\ \A p \in 1 .. Len(acc.out) : Alike(r.out[p], acc.out[p])
    BY <2>1, <2>2, ReadBackGrows
  <2>4. ASSUME NEW p \in 1 .. Len(r.out), r.out[p].role = "tool" PROVE r.out[p].ref \in a
    <3>1. p \in 1 .. Len(acc.out) \/ (p = Len(acc.out) + 1 /\ Alike(r.out[p], m))
      BY <2>2, <2>3
    <3>2. CASE p \in 1 .. Len(acc.out)
      BY <2>2, <2>3, <2>4, <3>2 DEF Heard, Alike
    <3>3. CASE Alike(r.out[p], m)
      BY <2>1, <2>4, <3>3 DEF Alike
    <3> QED
      BY <3>1, <3>2, <3>3
  <2> QED
    BY <2>3, <2>4 DEF Heard, r
<1> HIDE DEF Stage
<1>5. \A k \in 1 .. Len(ms) : k \in T
  <2>1. ASSUME NEW k \in 1 .. Len(ms), \A i \in 1 .. k - 1 : i \in T PROVE k \in T
    <3>1. Stage(k - 1)
      <4>1. CASE k = 1
        BY <1>3, <4>1
      <4>2. CASE k # 1
        <5>1. k - 1 \in 1 .. k - 1
          BY <1>1, <4>2
        <5> QED
          BY <2>1, <5>1
      <4> QED
        BY <4>1, <4>2
    <3>2. k \in 0 .. Len(ms)
      BY <1>1
    <3> QED
      BY <1>4, <3>1, <3>2
  <2> HIDE DEF T
  <2> QED
    BY <1>1, <2>1, Upto
<1>6. Stage(Len(ms))
  <2>1. CASE Len(ms) = 0
    BY <1>3, <2>1
  <2>2. CASE Len(ms) # 0
    BY <1>1, <1>5, <2>2
  <2> QED
    BY <2>1, <2>2
<1> QED
  BY <1>2, <1>6 DEF Stage

LEMMA AnswerTypesAlone ==
  /\ <<Assistant(TRUE, <<>>)>> \in Seq(Messages) /\ <<>> \in Seq(Messages)
  /\ Quiet(<<Assistant(TRUE, <<>>)>>) /\ Quiet(<<>>)
<1>1. <<>> \in Seq(Nat) /\ TRUE \in BOOLEAN
  OBVIOUS
<1>2. Assistant(TRUE, <<>>) \in Messages
  BY <1>1, MessageTypes
<1>3. \A m \in Messages : <<m>> \in Seq(Messages) /\ Len(<<m>>) = 1 /\ <<m>>[1] = m
  OBVIOUS
<1>4. <<>> \in Seq(Messages) /\ Len(<<>>) = 0
  OBVIOUS
<1>5. Assistant(TRUE, <<>>).role # "tool" /\ ~HasCalls(Assistant(TRUE, <<>>))
  BY DEF Assistant, Plain, HasCalls
<1>6. \A m \in Messages : m.role # "tool" /\ ~HasCalls(m) => Quiet(<<m>>)
  BY <1>3 DEF Quiet
<1>7. Quiet(<<>>)
  BY <1>4 DEF Quiet
<1> QED
  BY <1>2, <1>3, <1>4, <1>5, <1>6, <1>7

LEMMA QuietIsHeard ==
  ASSUME NEW ms, Quiet(ms), NEW a PROVE Heard(ms, a)
BY DEF Quiet, Heard

LEMMA ConversationSafe ==
  ASSUME NEW history \in Seq(Messages), ReplaySafe(history), NEW ms \in Seq(Messages), Orderly(ms),
         NEW prompt \in Nat, NEW answered \in BOOLEAN
  PROVE  ReplaySafe(Conversation(history, ms, prompt, answered))
<1> DEFINE events == WithRawPrompt(ms, prompt)
           read == ReadBackAll(events)
           ofSummary == {i \in DOMAIN read : read[i].mark = "summary"}
           ofUser == {i \in DOMAIN read : read[i].role = "user"}
           summaries == Only(read, ofSummary)
           base == IF summaries = <<>> THEN history ELSE <<>>
           last == IF read # <<>> THEN read[Len(read)] ELSE Plain
           ending == IF ~answered \/ (last.role = "assistant" /\ ~HasCalls(last))
                      THEN <<>> ELSE <<Assistant(TRUE, <<>>)>>
           spoke == answered \/ \E i \in DOMAIN read : read[i].role = "assistant" /\ read[i].mark = "none"
           acted == \E i \in DOMAIN events : HasCalls(events[i]) \/ events[i].role = "tool"
           newest == IF summaries = <<>> THEN <<>> ELSE Newest(summaries, 1)
           answer == IF spoke THEN <<Assistant(TRUE, <<>>)>> ELSE <<>>
<1>1. events \in Seq(Messages) /\ Orderly(events)
  BY RawPrompts, EventsAreOrderly
<1>2. Conversation(history, ms, prompt, answered)
        = IF acted THEN base \o read \o ending ELSE base \o newest \o Only(read, ofUser) \o answer
  BY DEF Conversation
<1> HIDE DEF events
<1>3. read \in Seq(Messages) /\ ReplaySafe(read)
  BY <1>1, ReadBackSafe
<1>4. ReplaySafe(<<Assistant(TRUE, <<>>)>>) /\ ReplaySafe(<<>>)
  BY AnswerTypesAlone, QuietIsSafe
<1>5. base \in Seq(Messages) /\ ReplaySafe(base) /\ ending \in Seq(Messages) /\ ReplaySafe(ending)
      /\ answer \in Seq(Messages) /\ ReplaySafe(answer)
  BY <1>4, AnswerTypesAlone
<1>6. CASE acted
  <2> HIDE DEF base, read, ending, acted
  <2>1. base \o read \in Seq(Messages) /\ ReplaySafe(base \o read)
    BY <1>3, <1>5, ConcatSafe
  <2>2. ReplaySafe((base \o read) \o ending)
    BY <1>5, <2>1, ConcatSafe
  <2> QED
    BY <1>2, <1>6, <2>2
<1>7. CASE ~acted
  <2>1. Quiet(events)
    BY <1>1, <1>7, ListFacts DEF Quiet
  <2>2. Quiet(read)
    BY <1>1, <2>1, ReadBackQuiet DEF Orderly
  <2> HIDE DEF read, ofSummary, ofUser
  <2>3. /\ Only(read, ofUser) \in Seq(Messages) /\ Quiet(Only(read, ofUser))
        /\ summaries \in Seq(Messages) /\ Quiet(summaries)
    BY <1>3, <2>2, QuietOnly
  <2> HIDE DEF summaries
  <2>4. newest \in Seq(Messages) /\ Quiet(newest)
    BY <2>3, QuietNewest, AnswerTypesAlone
  <2>5. ReplaySafe(Only(read, ofUser)) /\ ReplaySafe(newest)
    BY <2>3, <2>4, QuietIsSafe
  <2> HIDE DEF base, newest, answer, acted
  <2>6. base \o newest \in Seq(Messages) /\ ReplaySafe(base \o newest)
    BY <1>5, <2>4, <2>5, ConcatSafe
  <2>7. (base \o newest) \o Only(read, ofUser) \in Seq(Messages)
        /\ ReplaySafe((base \o newest) \o Only(read, ofUser))
    BY <2>3, <2>5, <2>6, ConcatSafe
  <2>8. ReplaySafe(((base \o newest) \o Only(read, ofUser)) \o answer)
    BY <1>5, <2>7, ConcatSafe
  <2> QED
    BY <1>2, <1>7, <2>8
<1> QED
  BY <1>6, <1>7

LEMMA ConversationHeard ==
  ASSUME NEW history \in Seq(Messages), NEW a, Heard(history, a),
         NEW ms \in Seq(Messages), Shaped(ms), Heard(ms, a),
         NEW prompt \in Nat, NEW answered \in BOOLEAN
  PROVE  /\ Conversation(history, ms, prompt, answered) \in Seq(Messages)
         /\ Heard(Conversation(history, ms, prompt, answered), a)
<1> DEFINE events == WithRawPrompt(ms, prompt)
           read == ReadBackAll(events)
           ofSummary == {i \in DOMAIN read : read[i].mark = "summary"}
           ofUser == {i \in DOMAIN read : read[i].role = "user"}
           summaries == Only(read, ofSummary)
           base == IF summaries = <<>> THEN history ELSE <<>>
           last == IF read # <<>> THEN read[Len(read)] ELSE Plain
           ending == IF ~answered \/ (last.role = "assistant" /\ ~HasCalls(last))
                      THEN <<>> ELSE <<Assistant(TRUE, <<>>)>>
           spoke == answered \/ \E i \in DOMAIN read : read[i].role = "assistant" /\ read[i].mark = "none"
           acted == \E i \in DOMAIN events : HasCalls(events[i]) \/ events[i].role = "tool"
           newest == IF summaries = <<>> THEN <<>> ELSE Newest(summaries, 1)
           answer == IF spoke THEN <<Assistant(TRUE, <<>>)>> ELSE <<>>
<1>1. events \in Seq(Messages) /\ Shaped(events) /\ Heard(events, a)
  <2>1. /\ events \in Seq(Messages) /\ Len(events) = Len(ms)
        /\ \A i \in 1 .. Len(ms) :
              /\ events[i].role = ms[i].role /\ events[i].calls = ms[i].calls
              /\ events[i].covers = ms[i].covers /\ events[i].mark = ms[i].mark
              /\ ms[i].role # "user" => events[i] = ms[i]
    BY RawPrompts
  <2> HIDE DEF events
  <2>2. DOMAIN ms = 1 .. Len(ms) /\ DOMAIN events = 1 .. Len(ms)
    BY <2>1, ListFacts
  <2>3. Heard(events, a)
    BY <2>1 DEF Heard
  <2> QED
    BY <2>1, <2>2, <2>3 DEF Shaped
<1>2. Conversation(history, ms, prompt, answered)
        = IF acted THEN base \o read \o ending ELSE base \o newest \o Only(read, ofUser) \o answer
  BY DEF Conversation
<1> HIDE DEF events
<1>3. read \in Seq(Messages) /\ Heard(read, a)
  BY <1>1, HeardReadBack, ReadBackKeeps
<1>4. Heard(<<Assistant(TRUE, <<>>)>>, a) /\ Heard(<<>>, a)
  BY AnswerTypesAlone, QuietIsHeard
<1>5. base \in Seq(Messages) /\ Heard(base, a) /\ ending \in Seq(Messages) /\ Heard(ending, a)
      /\ answer \in Seq(Messages) /\ Heard(answer, a)
  BY <1>4, AnswerTypesAlone
<1>6. CASE acted
  <2> HIDE DEF base, read, ending, acted
  <2>1. base \o read \in Seq(Messages) /\ Heard(base \o read, a)
    BY <1>3, <1>5, HeardConcat
  <2>2. (base \o read) \o ending \in Seq(Messages) /\ Heard((base \o read) \o ending, a)
    BY <1>5, <2>1, HeardConcat
  <2> QED
    BY <1>2, <1>6, <2>2
<1>7. CASE ~acted
  <2> HIDE DEF read, ofSummary, ofUser
  <2>3. /\ Only(read, ofUser) \in Seq(Messages) /\ Heard(Only(read, ofUser), a)
        /\ summaries \in Seq(Messages) /\ Heard(summaries, a)
    BY <1>3, OnlyLayout, HeardOnly
  <2> HIDE DEF summaries
  <2>4. newest \in Seq(Messages) /\ Heard(newest, a)
    <3>1. CASE summaries = <<>>
      BY <1>4, <3>1, AnswerTypesAlone
    <3>2. CASE summaries # <<>>
      <4>1. 1 \in 0 .. Len(summaries)
        BY <2>3, <3>2
      <4> QED
        BY <2>3, <3>2, <4>1, NewestTypes, HeardNewest
    <3> QED
      BY <3>1, <3>2
  <2> HIDE DEF base, newest, answer, acted
  <2>6. base \o newest \in Seq(Messages) /\ Heard(base \o newest, a)
    BY <1>5, <2>4, HeardConcat
  <2>7. (base \o newest) \o Only(read, ofUser) \in Seq(Messages)
        /\ Heard((base \o newest) \o Only(read, ofUser), a)
    BY <2>3, <2>6, HeardConcat
  <2>8. ((base \o newest) \o Only(read, ofUser)) \o answer \in Seq(Messages)
        /\ Heard(((base \o newest) \o Only(read, ofUser)) \o answer, a)
    BY <1>5, <2>7, HeardConcat
  <2> QED
    BY <1>2, <1>7, <2>8
<1> QED
  BY <1>6, <1>7

-----------------------------------------------------------------------------
(* The order of a conversation *)

Said(m) == m.role = "user" /\ m.mark # "internal"

\* The typed prompt comes later, and the turn does not begin before it unless with a compaction.
Old(ms, j) ==
    \E l \in j .. Len(ms) : /\ ms[l] = UserPrompt(TypedPrompt)
                            /\ \A i \in 1 .. l - 1 : ms[i].ckpt => ms[i].mark = "summary"

Ordered(ms) ==
    \A j \in 1 .. Len(ms) : /\ HasCalls(ms[j]) => ms[j].ckpt \/ Old(ms, j)
                            /\ Said(ms[j]) => Late(ms, j) \/ Old(ms, j)

LEMMA LateSame ==
  ASSUME NEW ms, NEW out, NEW j \in Nat, \A i \in 1 .. j - 1 : out[i] = ms[i], Late(ms, j)
  PROVE  Late(out, j)
BY DEF Late

LEMMA OrderedAppend ==
  ASSUME NEW ms \in Seq(Messages), Ordered(ms), NEW m \in Messages, HasCalls(m) => m.ckpt,
         Said(m) => Late(ms, Len(ms) + 1)
  PROVE  Ordered(Append(ms, m))
<1> DEFINE out == Append(ms, m)
<1>1. /\ Len(out) = Len(ms) + 1 /\ Len(ms) \in Nat /\ out[Len(ms) + 1] = m
      /\ \A i \in 1 .. Len(ms) : out[i] = ms[i]
  BY AppendFacts
<1> HIDE DEF out
<1>2. ASSUME NEW j \in 1 .. Len(ms), Old(ms, j) PROVE Old(out, j)
  <2>1. PICK l \in j .. Len(ms) : /\ ms[l] = UserPrompt(TypedPrompt)
                                  /\ \A i \in 1 .. l - 1 : ms[i].ckpt => ms[i].mark = "summary"
    BY <1>2 DEF Old
  <2>2. l \in j .. Len(out) /\ l \in 1 .. Len(ms) /\ \A i \in 1 .. l - 1 : i \in 1 .. Len(ms)
    BY <1>1
  <2> QED
    BY <1>1, <2>1, <2>2 DEF Old
<1>3. ASSUME NEW j \in 1 .. Len(ms) + 1, Late(ms, j) PROVE Late(out, j)
  <2>1. \A i \in 1 .. j - 1 : out[i] = ms[i]
    BY <1>1
  <2> QED
    BY <1>3, <2>1, LateSame
<1>4. ASSUME NEW j \in 1 .. Len(out)
      PROVE  /\ HasCalls(out[j]) => out[j].ckpt \/ Old(out, j)
             /\ Said(out[j]) => Late(out, j) \/ Old(out, j)
  <2>1. CASE j \in 1 .. Len(ms)
    BY <1>1, <1>2, <1>3, <2>1 DEF Ordered
  <2>2. CASE j = Len(ms) + 1
    BY <1>1, <1>3, <2>2
  <2> QED
    BY <1>1, <2>1, <2>2
<1> QED
  BY <1>4 DEF Ordered, out

LEMMA SanitizedKeeps ==
  ASSUME NEW ms \in Seq(Messages), \A i \in 1 .. Len(ms) : HasCalls(ms[i]) => ValidBundle(ms, i)
  PROVE  /\ Len(Sanitized(ms)) = Len(ms)
         /\ \A i \in 1 .. Len(ms) :
               /\ ms[i].role # "tool" => Sanitized(ms)[i] = ms[i]
               /\ InBundle(ms, i) =>
                    Sanitized(ms)[i] = ToolResult(ms[Owner(ms, i)].calls[i - Owner(ms, i)])
               /\ ms[i].role = "tool" /\ ~InBundle(ms, i) => Sanitized(ms)[i] = InternalUser
<1> DEFINE out == Sanitized(ms)
           s == [i \in DOMAIN ms |-> Repaired(ms, i)]
<1>1. Len(ms) \in Nat /\ DOMAIN ms = 1 .. Len(ms)
  BY ListFacts
<1>2. PICK at : Layout(out, s, at)
  BY SanitizedLayout
<1>3. ASSUME NEW i \in 1 .. Len(ms)
      PROVE  /\ s[i] = Repaired(ms, i) /\ Len(s[i]) = 1
             /\ ms[i].role # "tool" => s[i][1] = ms[i]
             /\ InBundle(ms, i) =>
                  s[i][1] = ToolResult(ms[Owner(ms, i)].calls[i - Owner(ms, i)])
             /\ ms[i].role = "tool" /\ ~InBundle(ms, i) => s[i][1] = InternalUser
  <2>1. InBundle(ms, i) =>
          Repaired(ms, i) = <<ToolResult(ms[Owner(ms, i)].calls[i - Owner(ms, i)])>>
    BY RepairedTypes
  <2>2. ms[i].role = "tool" /\ ~InBundle(ms, i) => Repaired(ms, i) = <<InternalUser>>
    BY RepairedTypes
  <2>3. ms[i].role # "tool" => Repaired(ms, i) = <<ms[i]>>
    BY RepairedTypes
  <2>4. ms[i].role # "tool" => ~InBundle(ms, i)
    BY DEF InBundle
  <2> QED
    BY <1>1, <2>1, <2>2, <2>3, <2>4
<1>4. Len(s) = Len(ms)
  BY <1>1
<1> HIDE DEF s, out
<1> DEFINE T == {i \in 1 .. Len(ms) : at[i] = i - 1}
<1>5. /\ at[1] = 0 /\ at[Len(ms) + 1] = Len(out)
      /\ \A i \in 1 .. Len(ms) : at[i + 1] = at[i] + 1 /\ out[at[i] + 1] = s[i][1]
  <2>1. \A i \in 1 .. Len(ms) : /\ at[i + 1] = at[i] + Len(s[i])
                                /\ \A k \in 1 .. Len(s[i]) : out[at[i] + k] = s[i][k]
    BY <1>2, <1>4 DEF Layout
  <2>2. ASSUME NEW i \in 1 .. Len(ms) PROVE at[i + 1] = at[i] + 1 /\ out[at[i] + 1] = s[i][1]
    <3>1. 1 \in 1 .. Len(s[i]) /\ Len(s[i]) = 1
      BY <1>3
    <3> QED
      BY <2>1, <3>1
  <2> QED
    BY <1>2, <1>4, <2>2 DEF Layout
<1>6. ASSUME NEW i \in 1 .. Len(ms), \A j \in 1 .. i - 1 : j \in T PROVE i \in T
  <2>1. CASE i = 1
    BY <1>5, <2>1
  <2>2. CASE i > 1
    <3>1. i - 1 \in 1 .. Len(ms) /\ (i - 1) + 1 = i /\ i - 1 \in T
      BY <1>1, <1>6, <2>2
    <3>2. at[i] = at[i - 1] + 1
      BY <1>5, <3>1
    <3> QED
      BY <3>1, <3>2
  <2> QED
    BY <2>1, <2>2
<1>7. \A i \in 1 .. Len(ms) : at[i] = i - 1
  <2>1. \A i \in 1 .. Len(ms) : i \in T
    <3> HIDE DEF T
    <3> QED
      BY <1>1, <1>6, Upto
  <2> QED
    BY <2>1
<1>8. Len(out) = Len(ms)
  <2>1. CASE Len(ms) = 0
    BY <1>5, <2>1
  <2>2. CASE Len(ms) > 0
    <3>1. Len(ms) \in 1 .. Len(ms)
      BY <1>1, <2>2
    <3>2. at[Len(ms) + 1] = at[Len(ms)] + 1 /\ at[Len(ms)] = Len(ms) - 1
      BY <1>5, <1>7, <3>1
    <3> QED
      BY <1>1, <1>5, <3>2
  <2> QED
    BY <1>1, <2>1, <2>2
<1>9. ASSUME NEW i \in 1 .. Len(ms) PROVE out[i] = s[i][1]
  BY <1>5, <1>7
<1> QED
  BY <1>3, <1>8, <1>9 DEF out

\* Results that have lost their calls become notes; the order is as good as before when no
\* answer precedes them.
LEMMA SanitizedIsOrdered ==
  ASSUME NEW ms \in Seq(Messages), Shaped(ms), Ordered(ms),
         \A i \in 1 .. Len(ms) : HasCalls(ms[i]) => ValidBundle(ms, i) /\ IsCommitted(ms[i]),
         \A t \in 1 .. Len(ms) : ms[t].role = "tool" /\ ~InBundle(ms, t) =>
             \A i \in 1 .. t - 1 : ~Spoken(ms[i])
  PROVE  LET out == Sanitized(ms)
         IN  /\ out \in Seq(Messages) /\ Sound(out, Len(out) + 1) /\ Shaped(out) /\ Ordered(out)
<1> DEFINE out == Sanitized(ms)
<1>1. out \in Seq(Messages) /\ ReplaySafe(out)
  BY SanitizedLayout, SanitizedIsReplaySafe
<1>2. /\ Len(out) = Len(ms)
      /\ \A i \in 1 .. Len(ms) :
            /\ ms[i].role # "tool" => out[i] = ms[i]
            /\ InBundle(ms, i) =>
                  out[i] = ToolResult(ms[Owner(ms, i)].calls[i - Owner(ms, i)])
            /\ ms[i].role = "tool" /\ ~InBundle(ms, i) => out[i] = InternalUser
  BY SanitizedKeeps
<1>3. Len(ms) \in Nat /\ DOMAIN ms = 1 .. Len(ms) /\ DOMAIN out = 1 .. Len(ms)
  BY <1>1, <1>2, ListFacts
<1> HIDE DEF out
<1>4. \A c : /\ ToolResult(c).role = "tool" /\ ~ToolResult(c).ckpt /\ ToolResult(c).mark = "none"
             /\ ToolResult(c).covers = {}
  BY DEF ToolResult, Plain
<1>5. /\ InternalUser.role = "user" /\ ~InternalUser.ckpt /\ InternalUser.mark = "internal"
      /\ InternalUser.covers = {}
  BY DEF InternalUser, Plain
<1>6. ASSUME NEW i \in 1 .. Len(ms)
      PROVE  \/ ms[i].role # "tool" /\ out[i] = ms[i]
             \/ /\ ms[i].role = "tool" /\ InBundle(ms, i) /\ out[i].role = "tool"
                /\ ~out[i].ckpt /\ out[i].mark = "none" /\ out[i].covers = {}
             \/ /\ ms[i].role = "tool" /\ ~InBundle(ms, i) /\ out[i].role = "user"
                /\ ~out[i].ckpt /\ out[i].mark = "internal" /\ out[i].covers = {}
  <2>1. CASE ms[i].role # "tool"
    BY <1>2, <2>1
  <2>2. CASE ms[i].role = "tool" /\ InBundle(ms, i)
    BY <1>2, <1>4, <2>2
  <2>3. CASE ms[i].role = "tool" /\ ~InBundle(ms, i)
    BY <1>2, <1>5, <2>3
  <2> QED
    BY <2>1, <2>2, <2>3
<1>7. Sound(out, Len(out) + 1)
  <2>1. ASSUME NEW i \in 1 .. Len(out)
        PROVE  /\ out[i].role = "tool" => ~out[i].ckpt
               /\ out[i].role = "tool" \/ HasCalls(out[i]) => IsCommitted(out[i])
    <3>1. out[i].role = "tool" => ~out[i].ckpt /\ out[i].mark = "none"
      BY <1>2, <1>6
    <3>2. HasCalls(out[i]) => out[i] = ms[i]
      BY <1>2, <1>6 DEF HasCalls
    <3> QED
      BY <1>2, <3>1, <3>2 DEF IsCommitted
  <2> QED
    BY <1>1, <2>1, SafeIsSound
<1>8. Shaped(out)
  <2>1. ASSUME NEW i \in 1 .. Len(ms)
        PROVE  /\ out[i].mark = "summary" => i = 1 /\ out[i].role = "assistant" /\ out[i].calls = <<>>
               /\ out[i].covers # {} => out[i].mark = "summary"
    <3>1. /\ ms[i].mark = "summary" => i = 1 /\ ms[i].role = "assistant" /\ ms[i].calls = <<>>
          /\ ms[i].covers # {} => ms[i].mark = "summary"
      BY <1>3 DEF Shaped
    <3> QED
      BY <1>6, <3>1
  <2> QED
    BY <1>3, <2>1 DEF Shaped
<1>9. ASSUME NEW j \in 1 .. Len(ms), Old(ms, j) PROVE Old(out, j)
  <2>1. PICK l \in j .. Len(ms) : /\ ms[l] = UserPrompt(TypedPrompt)
                                  /\ \A i \in 1 .. l - 1 : ms[i].ckpt => ms[i].mark = "summary"
    BY <1>9 DEF Old
  <2>2. l \in 1 .. Len(ms) /\ \A i \in 1 .. l - 1 : i \in 1 .. Len(ms)
    BY <1>3
  <2>3. out[l] = ms[l]
    BY <1>6, <2>1, <2>2 DEF UserPrompt, Plain
  <2>4. \A i \in 1 .. l - 1 : out[i].ckpt => out[i].mark = "summary"
    BY <1>6, <2>1, <2>2
  <2> QED
    BY <1>2, <2>1, <2>3, <2>4 DEF Old
<1>10. ASSUME NEW j \in 1 .. Len(ms), Late(ms, j) PROVE Late(out, j)
  <2>1. ASSUME NEW i \in 1 .. j - 1, Spoken(out[i])
        PROVE  \E t \in i + 1 .. j - 1 : out[t].role = "tool"
    <3>1. i \in 1 .. Len(ms)
      BY <1>3
    <3>2. Spoken(ms[i])
      BY <1>6, <2>1, <3>1 DEF Spoken
    <3>3. PICK t \in i + 1 .. j - 1 : ms[t].role = "tool"
      BY <1>10, <3>2 DEF Late
    <3>4. t \in 1 .. Len(ms) /\ i \in 1 .. t - 1
      BY <1>3
    <3>5. InBundle(ms, t)
      BY <3>2, <3>3, <3>4
    <3> QED
      BY <1>6, <3>3, <3>4, <3>5
  <2> QED
    BY <2>1 DEF Late
<1>11. ASSUME NEW j \in 1 .. Len(ms)
       PROVE  /\ HasCalls(out[j]) => out[j].ckpt \/ Old(out, j)
              /\ Said(out[j]) => Late(out, j) \/ Old(out, j)
  <2>1. HasCalls(out[j]) \/ Said(out[j]) => out[j] = ms[j]
    BY <1>6 DEF HasCalls, Said
  <2> QED
    BY <1>9, <1>10, <2>1 DEF Ordered
<1> QED
  BY <1>1, <1>2, <1>7, <1>8, <1>11 DEF Ordered, out

\* The conversation of a turn that is only cut at its beginning, results of calls in a.
Tidy(ms, a) == Shaped(ms) /\ Ordered(ms) /\ Heard(ms, a)

LEMMA CutIsTidy ==
  ASSUME NEW ms \in Seq(Messages), NEW a, Tidy(ms, a), Sound(ms, Len(ms) + 1),
         NEW start \in 2 .. Len(ms) + 1,
         NEW h \in Messages, h.role = "assistant", h.mark # "none", h.calls = <<>>,
         h.ckpt => h.mark = "summary", h.covers # {} => h.mark = "summary"
  PROVE  LET out == Sanitized(<<h>> \o From(ms, start))
         IN  Tidy(out, a) /\ Sound(out, Len(out) + 1)
<1> DEFINE xs == <<h>> \o From(ms, start)
           d == start - 2
<1>1. DOMAIN ms = 1 .. Len(ms) /\ Len(ms) \in Nat /\ (Len(ms) + 1) - 1 = Len(ms) /\ d \in Nat
      /\ start = d + 2
  BY ListFacts
<1>2. /\ xs \in Seq(Messages) /\ Len(xs) + d = Len(ms) /\ Len(xs) \in Nat
      /\ xs[1] = h /\ \A i \in 2 .. Len(xs) : xs[i] = ms[i + d]
  BY TailLayout
<1> HIDE DEF xs
<1>3. DOMAIN xs = 1 .. Len(xs)
  BY <1>2, ListFacts
<1> HIDE DEF d
<1>4. ASSUME NEW i \in 1 .. Len(xs)
      PROVE  \/ i = 1 /\ xs[i] = h
             \/ i \in 2 .. Len(xs) /\ i + d \in 2 .. Len(ms) /\ xs[i] = ms[i + d]
  BY <1>1, <1>2
<1>5. ASSUME NEW p \in 2 .. Len(xs), ValidBundle(ms, p + d) PROVE ValidBundle(xs, p)
  <2> DEFINE n == Len(ms[p + d].calls)
  <2>1. p + d \in 1 .. Len(ms) /\ p \in 1 .. Len(xs)
    BY <1>1, <1>2
  <2>2. n \in Nat /\ (p + d) + n <= Len(ms)
    BY <1>5, <2>1, BundleResults, ListFacts
  <2>3. ASSUME NEW k \in 0 .. n PROVE xs[p + k] = ms[(p + d) + k]
    <3> HIDE DEF n
    <3>1. p + k \in 2 .. Len(xs) /\ (p + k) + d = (p + d) + k
      BY <1>1, <1>2, <2>2
    <3> QED
      BY <1>2, <3>1
  <2>4. p + n <= Len(xs)
    <3> HIDE DEF n
    <3> QED
      BY <1>1, <1>2, <2>2
  <2> QED
    BY <1>2, <1>5, <2>1, <2>3, <2>4, BundleCopied
<1>6. ~HasCalls(h) /\ ~Spoken(h) /\ ~Said(h) /\ h.role # "tool"
  BY DEF HasCalls, Spoken, Said
<1>7. ASSUME NEW i \in 1 .. Len(xs), HasCalls(xs[i])
      PROVE  ValidBundle(xs, i) /\ IsCommitted(xs[i])
  <2>1. i \in 2 .. Len(xs) /\ i + d \in 1 .. Len(ms) /\ xs[i] = ms[i + d]
    BY <1>1, <1>4, <1>6, <1>7
  <2>2. ValidBundle(ms, i + d) /\ IsCommitted(ms[i + d])
    BY <1>1, <1>7, <2>1 DEF Sound
  <2> QED
    BY <1>5, <2>1, <2>2
<1>8. ASSUME NEW t \in 1 .. Len(xs), xs[t].role = "tool", ~InBundle(xs, t),
             NEW i \in 1 .. t - 1, Spoken(xs[i])
      PROVE  FALSE
  <2>1. t \in 2 .. Len(xs) /\ t + d \in 1 .. Len(ms) /\ xs[t] = ms[t + d] /\ t + d \in Nat
    BY <1>1, <1>4, <1>6, <1>8
  <2>2. i \in 2 .. Len(xs) /\ i + d \in 1 .. Len(ms) /\ xs[i] = ms[i + d] /\ i + d < t + d
    <3>1. i \in 1 .. Len(xs)
      BY <1>2
    <3>2. i \in 2 .. Len(xs) /\ i + d \in 1 .. Len(ms) /\ xs[i] = ms[i + d]
      BY <1>1, <1>4, <1>6, <1>8, <3>1
    <3>3. i < t /\ i \in Nat /\ t \in Nat /\ d \in Nat
      BY <1>1
    <3> QED
      BY <3>2, <3>3
  <2>3. InBundle(ms, t + d)
    BY <1>1, <1>8, <2>1 DEF Sound
  <2>4. PICK o \in 1 .. (t + d) - 1 : /\ Owner(ms, t + d) = o /\ o \in 1 .. Len(ms) /\ ValidBundle(ms, o)
                                      /\ (t + d) - o \in 1 .. Len(ms[o].calls)
    BY <2>1, <2>3, MembersBundle
  <2>5. \A j \in o + 1 .. (t + d) - 1 : ms[j].role = "tool"
    BY <2>1, <2>4, OwnerPrecedes
  <2>6. i + d <= o
    <3> SUFFICES ASSUME i + d > o PROVE FALSE
      BY <2>2, <2>4
    <3>1. i + d \in o + 1 .. (t + d) - 1
      BY <2>1, <2>2, <2>4
    <3>2. ms[i + d].role = "tool"
      BY <2>5, <3>1
    <3> QED
      BY <1>8, <2>2, <3>2 DEF Spoken
  <2> DEFINE p == o - d
             k == t - p
  <2>7. p \in 2 .. Len(xs) /\ p + d = o /\ p \in 1 .. Len(xs) /\ k = (t + d) - o /\ p + k = t
    <3>1. d \in Nat /\ o \in Nat /\ t \in Nat /\ i >= 2 /\ i \in Nat /\ o < t + d /\ t <= Len(xs)
          /\ Len(xs) \in Nat
      BY <1>1, <1>2, <2>1, <2>2, <2>4
    <3> QED
      BY <2>6, <3>1
  <2> HIDE DEF p, k
  <2>8. ValidBundle(xs, p) /\ xs[p] = ms[o]
    BY <1>2, <1>5, <2>4, <2>7
  <2>9. k \in 1 .. Len(xs[p].calls)
    BY <2>4, <2>7, <2>8
  <2>10. InBundle(xs, p + k)
    BY <1>2, <2>7, <2>8, <2>9, BundleMembers
  <2> QED
    BY <1>8, <2>7, <2>10
<1>9. Shaped(xs)
  <2>1. ASSUME NEW i \in 1 .. Len(xs)
        PROVE  /\ xs[i].mark = "summary" => i = 1 /\ xs[i].role = "assistant" /\ xs[i].calls = <<>>
               /\ xs[i].covers # {} => xs[i].mark = "summary"
    <3>1. CASE i = 1 /\ xs[i] = h
      BY <3>1
    <3>2. CASE i + d \in 2 .. Len(ms) /\ xs[i] = ms[i + d]
      <4>1. i + d \in 1 .. Len(ms) /\ i + d # 1
        BY <3>2
      <4> QED
        BY <1>1, <3>2, <4>1 DEF Tidy, Shaped
    <3> QED
      BY <1>4, <3>1, <3>2
  <2> QED
    BY <1>3, <2>1 DEF Shaped
<1>10. ASSUME NEW j \in 2 .. Len(xs), Old(ms, j + d) PROVE Old(xs, j)
  <2>1. PICK l \in j + d .. Len(ms) : /\ ms[l] = UserPrompt(TypedPrompt)
                                      /\ \A i \in 1 .. l - 1 : ms[i].ckpt => ms[i].mark = "summary"
    BY <1>10 DEF Old
  <2> DEFINE q == l - d
  <2>2. q \in j .. Len(xs) /\ q + d = l /\ q \in 2 .. Len(xs)
    BY <1>1, <1>2
  <2> HIDE DEF q
  <2>3. xs[q] = UserPrompt(TypedPrompt)
    BY <1>2, <2>1, <2>2
  <2>4. ASSUME NEW i \in 1 .. q - 1, xs[i].ckpt PROVE xs[i].mark = "summary"
    <3>1. i \in 1 .. Len(xs)
      BY <1>2, <2>2
    <3>2. CASE i = 1 /\ xs[i] = h
      BY <2>4, <3>2
    <3>3. CASE i + d \in 2 .. Len(ms) /\ xs[i] = ms[i + d]
      <4>1. i + d \in 1 .. l - 1
        BY <1>1, <2>2, <3>3
      <4> QED
        BY <2>1, <2>4, <3>3, <4>1
    <3> QED
      BY <1>4, <3>1, <3>2, <3>3
  <2> QED
    BY <2>2, <2>3, <2>4 DEF Old
<1>11. ASSUME NEW j \in 2 .. Len(xs), Late(ms, j + d) PROVE Late(xs, j)
  <2>1. ASSUME NEW i \in 1 .. j - 1, Spoken(xs[i])
        PROVE  \E t \in i + 1 .. j - 1 : xs[t].role = "tool"
    <3>1. i \in 1 .. Len(xs)
      BY <1>2
    <3>2. xs[i] = ms[i + d] /\ i + d \in 1 .. (j + d) - 1
      <4>1. xs[i] = ms[i + d] /\ i + d \in 2 .. Len(ms)
        BY <1>4, <1>6, <2>1, <3>1
      <4> QED
        BY <1>1, <4>1
    <3>3. PICK t \in (i + d) + 1 .. (j + d) - 1 : ms[t].role = "tool"
      BY <1>11, <2>1, <3>2 DEF Late
    <3> DEFINE q == t - d
    <3>4. q \in i + 1 .. j - 1 /\ q + d = t /\ q \in 2 .. Len(xs)
      BY <1>1, <1>2
    <3> HIDE DEF q
    <3>5. xs[q] = ms[t]
      BY <1>2, <3>4
    <3> QED
      BY <3>3, <3>4, <3>5
  <2> QED
    BY <2>1 DEF Late
<1>12. Ordered(xs)
  <2>1. ASSUME NEW j \in 1 .. Len(xs)
        PROVE  /\ HasCalls(xs[j]) => xs[j].ckpt \/ Old(xs, j)
               /\ Said(xs[j]) => Late(xs, j) \/ Old(xs, j)
    <3>1. CASE j = 1 /\ xs[j] = h
      BY <1>6, <3>1
    <3>2. CASE j \in 2 .. Len(xs) /\ j + d \in 2 .. Len(ms) /\ xs[j] = ms[j + d]
      <4>1. j + d \in 1 .. Len(ms)
        BY <3>2
      <4>2. /\ HasCalls(xs[j]) => xs[j].ckpt \/ Old(ms, j + d)
            /\ Said(xs[j]) => Late(ms, j + d) \/ Old(ms, j + d)
        BY <3>2, <4>1 DEF Tidy, Ordered
      <4> QED
        BY <1>10, <1>11, <3>2, <4>2
    <3> QED
      BY <1>4, <3>1, <3>2
  <2> QED
    BY <2>1 DEF Ordered
<1>13. Heard(xs, a)
  <2>1. ASSUME NEW i \in 1 .. Len(xs), xs[i].role = "tool" PROVE xs[i].ref \in a
    <3>1. i + d \in 1 .. Len(ms) /\ xs[i] = ms[i + d]
      BY <1>4, <1>6, <2>1
    <3> QED
      BY <2>1, <3>1 DEF Tidy, Heard
  <2> QED
    BY <2>1 DEF Heard
<1>14. LET out == Sanitized(xs)
       IN  Tidy(out, a) /\ Sound(out, Len(out) + 1)
  <2>1. \A t \in 1 .. Len(xs) : xs[t].role = "tool" /\ ~InBundle(xs, t) =>
             \A i \in 1 .. t - 1 : ~Spoken(xs[i])
    BY <1>8
  <2>2. LET out == Sanitized(xs)
        IN  /\ out \in Seq(Messages) /\ Sound(out, Len(out) + 1) /\ Shaped(out) /\ Ordered(out)
    BY <1>2, <1>7, <1>9, <1>12, <2>1, SanitizedIsOrdered
  <2>3. Heard(Sanitized(xs), a)
    BY <1>2, <1>13, HeardSanitized
  <2> QED
    BY <2>2, <2>3 DEF Tidy
<1> QED
  BY <1>14 DEF xs

\* A compaction, and a trim to the newest messages, keep it tidy.
LEMMA CompactedIsTidy ==
  ASSUME NEW ms \in Seq(Messages), NEW a, Tidy(ms, a), Sound(ms, Len(ms) + 1),
         NEW n \in Nat, CanCompact(ms, n)
  PROVE  Tidy(Compacted(ms, n), a) /\ Sound(Compacted(ms, n), Len(Compacted(ms, n)) + 1)
<1> DEFINE start == TailStart(ms, n)
           covered == Standing(Prefix(ms, start - 1))
           h == Compaction(covered)
<1>1. start \in 2 .. Len(ms) + 1 /\ Len(ms) \in Nat /\ start - 1 \in 0 .. Len(ms)
  <2>1. start \in 1 .. Len(ms) + 1 /\ start > 3 /\ Len(ms) \in Nat
    BY TailStarts, ListFacts DEF CanCompact
  <2> HIDE DEF start
  <2> QED
    BY <2>1
<1>2. Compacted(ms, n) = Sanitized(<<h>> \o From(ms, start))
  BY DEF Compacted
<1> HIDE DEF start
<1>3. Prefix(ms, start - 1) \in Seq(Messages)
  BY <1>1, PrefixTypes
<1>4. covered \in SUBSET Nat
  <2> DEFINE ps == Prefix(ms, start - 1)
  <2>1. \A i \in DOMAIN ps : ps[i] \in Messages
    BY <1>3, ListFacts
  <2> HIDE DEF ps
  <2>2. \A i \in DOMAIN ps : ps[i].ref \in Nat /\ ps[i].covers \in SUBSET Nat
    BY <2>1 DEF Messages
  <2>3. Standing(ps) \in SUBSET Nat
    BY <2>2 DEF Standing
  <2> QED
    BY <2>3 DEF ps
<1> HIDE DEF covered
<1>5. h \in Messages /\ h.role = "assistant" /\ h.mark = "summary" /\ h.calls = <<>>
  BY <1>4, MessageTypes DEF Compaction, Plain
<1> HIDE DEF h
<1> QED
  BY <1>1, <1>2, <1>5, CutIsTidy

LEMMA TrimmedIsTidy ==
  ASSUME NEW ms \in Seq(Messages), NEW a, Tidy(ms, a), Sound(ms, Len(ms) + 1), NEW n \in 0 .. Len(ms)
  PROVE  LET out == Sanitized(Trimmed(ms, n))
         IN  Tidy(out, a) /\ Sound(out, Len(out) + 1)
<1>1. Len(ms) \in Nat /\ DOMAIN ms = 1 .. Len(ms) /\ (Len(ms) + 1) - 1 = Len(ms)
  BY ListFacts
<1>2. CASE n < Len(ms)
  <2> DEFINE start == Len(ms) - n + 1
             h == InternalAssistant
  <2>1. start \in 2 .. Len(ms) + 1
    BY <1>1, <1>2
  <2>2. Trimmed(ms, n) = <<h>> \o From(ms, start)
    BY <1>2 DEF Trimmed, Newest, From
  <2>3. h \in Messages /\ h.role = "assistant" /\ h.mark = "internal" /\ h.calls = <<>> /\ ~h.ckpt
        /\ h.covers = {}
    BY MessageTypes DEF InternalAssistant, Plain
  <2> HIDE DEF start, h
  <2>4. LET out == Sanitized(<<h>> \o From(ms, start))
        IN  Tidy(out, a) /\ Sound(out, Len(out) + 1)
    BY <2>1, <2>3, CutIsTidy
  <2> QED
    BY <2>2, <2>4
<1>3. CASE ~(n < Len(ms))
  <2>1. Trimmed(ms, n) = ms
    BY <1>3 DEF Trimmed
  <2>2. \A i \in 1 .. Len(ms) : /\ HasCalls(ms[i]) => ValidBundle(ms, i) /\ IsCommitted(ms[i])
                                /\ ms[i].role = "tool" => InBundle(ms, i)
    BY <1>1 DEF Sound
  <2>3. LET out == Sanitized(ms)
        IN  /\ out \in Seq(Messages) /\ Sound(out, Len(out) + 1) /\ Shaped(out) /\ Ordered(out)
    BY <2>2, SanitizedIsOrdered DEF Tidy
  <2>4. Heard(Sanitized(ms), a)
    BY HeardSanitized DEF Tidy
  <2> QED
    BY <2>1, <2>3, <2>4 DEF Tidy
<1> QED
  BY <1>2, <1>3

LEMMA TidyAppend ==
  ASSUME NEW ms \in Seq(Messages), NEW a, Tidy(ms, a), NEW m \in Messages,
         m.mark # "summary", m.covers = {}, HasCalls(m) => m.ckpt,
         Said(m) => Late(ms, Len(ms) + 1), m.role = "tool" => m.ref \in a
  PROVE  Tidy(Append(ms, m), a)
<1>1. Shaped(Append(ms, m)) /\ Ordered(Append(ms, m))
  BY ShapedAppend, OrderedAppend DEF Tidy
<1>2. /\ Len(Append(ms, m)) = Len(ms) + 1 /\ Len(ms) \in Nat /\ Append(ms, m)[Len(ms) + 1] = m
      /\ \A i \in 1 .. Len(ms) : Append(ms, m)[i] = ms[i]
  BY AppendFacts
<1>3. Heard(Append(ms, m), a)
  <2>1. \A i \in 1 .. Len(ms) + 1 : i \in 1 .. Len(ms) \/ i = Len(ms) + 1
    BY <1>2
  <2> QED
    BY <1>2, <2>1 DEF Tidy, Heard
<1> QED
  BY <1>1, <1>3 DEF Tidy

LEMMA TidyForMore ==
  ASSUME NEW ms, NEW a, NEW b, a \subseteq b, Tidy(ms, a) PROVE Tidy(ms, b)
BY DEF Tidy, Heard

-----------------------------------------------------------------------------
(* What is committed can be read back *)

\* What is committed and can be read back.
Fit(ms, a) ==
    /\ ReplaySafe(ms) /\ Shaped(ms) /\ Heard(ms, a)
    /\ \A i \in 1 .. Len(ms) : IsCommitted(ms[i])
    /\ \A j \in 1 .. Len(ms) : ms[j].role = "user" =>
          Late(ms, j) \/ \E l \in j .. Len(ms) : ms[l] = UserPrompt(TypedPrompt)

LEMMA KeptOn ==
  ASSUME NEW ms \in Seq(Messages), NEW i \in Kept(ms), NEW j \in i .. Len(ms), IsCommitted(ms[j])
  PROVE  j \in Kept(ms)
<1> DEFINE start == TurnStart(ms, Len(History))
<1>1. DOMAIN ms = 1 .. Len(ms) /\ Len(ms) \in Nat /\ Len(History) \in Nat
  BY ListFacts, Histories
<1>2. start \in Nat
  <2> DEFINE own == {x \in DOMAIN ms : ms[x].ckpt}
  <2>1. CASE own = {}
    BY <1>1, <2>1 DEF TurnStart
  <2>2. CASE own # {}
    <3>1. own \in SUBSET Nat
      BY <1>1
    <3> HIDE DEF own
    <3>2. \E x \in own : \A y \in own : x <= y
      BY <2>2, <3>1, Least
    <3>3. (CHOOSE x \in own : \A y \in own : x <= y) \in own
      BY <3>2
    <3>4. start = CHOOSE x \in own : \A y \in own : x <= y
      BY <2>2 DEF TurnStart, own
    <3> QED
      BY <3>1, <3>3, <3>4
  <2> QED
    BY <2>1, <2>2
<1>3. i \in 1 .. Len(ms) /\ i >= start
  BY <1>1 DEF Kept
<1> HIDE DEF start
<1>4. j \in 1 .. Len(ms) /\ j >= start
  BY <1>1, <1>2, <1>3
<1> QED
  BY <1>1, <1>4 DEF Kept, start

LEMMA UsersOfTurn ==
  ASSUME NEW ms \in Seq(Messages), Ordered(ms), NEW o \in 1 .. Len(ms) + 1,
         o <= Len(ms) => ms[o].ckpt /\ ms[o].mark # "summary" /\ ms[o].role # "user",
         \A t \in 1 .. Len(ms) : ms[t].role = "tool" => IsCommitted(ms[t]),
         NEW out, NEW at, Places(out, ms, Kept(ms), at),
         NEW j \in 1 .. Len(out), out[j].role = "user"
  PROVE  \/ Late(out, j)
         \/ Begun(ms, o) /\ \E l \in j .. at[o] : out[l] = UserPrompt(TypedPrompt)
<1>1. DOMAIN ms = 1 .. Len(ms) /\ Len(ms) \in Nat
  BY ListFacts
<1>2. /\ \A i \in 1 .. Len(ms) + 1 : at[i] \in Nat
      /\ \A i \in 1 .. Len(ms) : i \in Kept(ms) =>
            at[i + 1] = at[i] + 1 /\ at[i] + 1 \in 1 .. Len(out) /\ out[at[i] + 1] = ms[i]
      /\ \A p \in 1 .. Len(out) : \E i \in 1 .. Len(ms) : i \in Kept(ms) /\ p = at[i] + 1
  BY DEF Places
<1>3. PICK i \in 1 .. Len(ms) : i \in Kept(ms) /\ j = at[i] + 1
  BY <1>2
<1>4. out[j] = ms[i] /\ at[i] \in Nat /\ IsCommitted(ms[i])
  BY <1>1, <1>2, <1>3 DEF Kept
<1>5. Late(ms, i) \/ Old(ms, i)
  BY <1>4 DEF Ordered, Said, IsCommitted
<1>6. CASE Late(ms, i)
  <2>1. ASSUME NEW p \in 1 .. j - 1, Spoken(out[p])
        PROVE  \E t \in p + 1 .. j - 1 : out[t].role = "tool"
    <3>1. p \in 1 .. Len(out) /\ p < j /\ p \in Nat
      BY <1>3, <1>4
    <3>2. PICK k \in 1 .. Len(ms) : k \in Kept(ms) /\ p = at[k] + 1
      BY <1>2, <3>1
    <3>3. Spoken(ms[k]) /\ at[k] \in Nat
      BY <1>2, <2>1, <3>2
    <3>4. k < i
      <4> SUFFICES ASSUME k >= i PROVE FALSE
        BY <1>1
      <4>1. i \in 1 .. Len(ms) + 1 /\ k \in i .. Len(ms) + 1
        BY <1>1
      <4>2. at[i] <= at[k]
        BY <4>1, PlacesAscend
      <4> QED
        BY <1>3, <1>4, <3>1, <3>2, <3>3, <4>2
    <3>5. k \in 1 .. i - 1
      BY <1>1, <3>4
    <3>6. PICK t \in k + 1 .. i - 1 : ms[t].role = "tool"
      BY <1>6, <3>3, <3>5 DEF Late
    <3>7. t \in 1 .. Len(ms) /\ t \in k .. Len(ms)
      BY <1>1, <3>5
    <3>8. t \in Kept(ms)
      BY <3>2, <3>6, <3>7, KeptOn
    <3>9. at[k + 1] = at[k] + 1 /\ at[t + 1] = at[t] + 1 /\ out[at[t] + 1] = ms[t] /\ at[t] \in Nat
      <4>1. t \in 1 .. Len(ms) + 1
        BY <1>1, <3>7
      <4> QED
        BY <1>2, <3>2, <3>7, <3>8, <4>1
    <3>10. at[k + 1] <= at[t] /\ at[t + 1] <= at[i]
      <4>1. k + 1 \in 1 .. Len(ms) + 1 /\ t \in k + 1 .. Len(ms) + 1
            /\ t + 1 \in 1 .. Len(ms) + 1 /\ i \in t + 1 .. Len(ms) + 1
        BY <1>1, <3>5
      <4> QED
        BY <4>1, PlacesAscend
    <3> DEFINE q == at[t] + 1
    <3>11. q \in p + 1 .. j - 1
      <4>1. at[k] + 1 <= at[t] /\ at[t] + 1 <= at[i]
        BY <3>9, <3>10
      <4>2. at[k] \in Nat /\ at[t] \in Nat /\ at[i] \in Nat /\ p = at[k] + 1 /\ j = at[i] + 1
        BY <1>3, <1>4, <3>2, <3>3, <3>9
      <4>3. \A x, y, z \in Nat : x + 1 <= y /\ y + 1 <= z => y + 1 \in (x + 1) + 1 .. (z + 1) - 1
        OBVIOUS
      <4>4. at[t] + 1 \in (at[k] + 1) + 1 .. (at[i] + 1) - 1
        BY <4>1, <4>2, <4>3
      <4> QED
        BY <4>2, <4>4
    <3>12. out[q].role = "tool"
      BY <3>6, <3>9
    <3> QED
      BY <3>11, <3>12
  <2> QED
    BY <2>1 DEF Late
<1>7. CASE Old(ms, i)
  <2>1. PICK l \in i .. Len(ms) : /\ ms[l] = UserPrompt(TypedPrompt)
                                  /\ \A k \in 1 .. l - 1 : ms[k].ckpt => ms[k].mark = "summary"
    BY <1>7 DEF Old
  <2>2. ms[l].role = "user" /\ ms[l].ckpt /\ IsCommitted(ms[l])
    BY <2>1 DEF UserPrompt, Plain, IsCommitted
  <2>3. l \in Kept(ms) /\ l \in 1 .. Len(ms)
    BY <1>1, <1>3, <2>2, KeptOn
  <2>4. l < o
    <3> SUFFICES ASSUME o <= l PROVE FALSE
      BY <1>1, <2>3
    <3>1. o <= Len(ms)
      BY <1>1, <2>3
    <3>2. o # l
      BY <2>2, <3>1
    <3>3. o \in 1 .. l - 1
      BY <1>1, <2>3, <3>2
    <3> QED
      BY <2>1, <3>1, <3>3
  <2>5. Begun(ms, o)
    <3>1. l \in 1 .. o - 1
      BY <1>1, <2>3, <2>4
    <3> QED
      BY <2>2, <3>1 DEF Begun
  <2> DEFINE q == at[l] + 1
  <2>6. at[l + 1] = at[l] + 1 /\ out[q] = ms[l] /\ at[l] \in Nat
    <3>1. l \in 1 .. Len(ms) + 1
      BY <1>1, <2>3
    <3> QED
      BY <1>2, <2>3, <3>1
  <2>7. at[i] <= at[l] /\ at[l + 1] <= at[o] /\ at[o] \in Nat
    <3>1. i \in 1 .. Len(ms) + 1 /\ l \in i .. Len(ms) + 1
          /\ l + 1 \in 1 .. Len(ms) + 1 /\ o \in l + 1 .. Len(ms) + 1
      BY <1>1, <2>3, <2>4
    <3>2. at[i] <= at[l] /\ at[l + 1] <= at[o]
      BY <3>1, PlacesAscend
    <3> QED
      BY <1>2, <3>2
  <2>8. q \in j .. at[o]
    <3>1. \A x, y, z \in Nat : x <= y /\ y + 1 <= z => y + 1 \in x + 1 .. z
      OBVIOUS
    <3> QED
      BY <1>3, <1>4, <2>6, <2>7, <3>1
  <2>9. out[q] = UserPrompt(TypedPrompt)
    BY <2>1, <2>6
  <2> HIDE DEF q
  <2> QED
    BY <2>5, <2>8, <2>9
<1> QED
  BY <1>5, <1>6, <1>7

\* The kept messages before o are not bad.
LEMMA KeptBelow ==
  ASSUME NEW ms \in Seq(Messages), NEW o \in 1 .. Len(ms) + 1, Sound(ms, o), Begun(ms, o),
         NEW out \in Seq(Messages), NEW at, Places(out, ms, Kept(ms), at)
  PROVE  /\ at[o] \in 0 .. Len(out)
         /\ \A p \in 1 .. at[o] : ~Bad(out, p)
<1>1. DOMAIN ms = 1 .. Len(ms) /\ Len(ms) \in Nat /\ Len(out) \in Nat
  BY ListFacts
<1>2. at[o] \in Nat /\ at[o] <= Len(out)
  <2>1. at[o] \in Nat /\ at[Len(ms) + 1] = Len(out)
    BY DEF Places
  <2>2. Len(ms) + 1 \in 1 .. Len(ms) + 1 /\ Len(ms) + 1 \in o .. Len(ms) + 1
    BY <1>1
  <2>3. at[o] <= at[Len(ms) + 1]
    BY <2>2, PlacesAscend
  <2> QED
    BY <2>1, <2>3
<1>3. ASSUME NEW p \in 1 .. at[o] PROVE ~Bad(out, p)
  <2>1. p \in 1 .. Len(out)
    BY <1>1, <1>2
  <2>2. PICK j \in 1 .. Len(ms) : j \in Kept(ms) /\ p = at[j] + 1
    BY <2>1 DEF Places
  <2>3. j < o
    <3> SUFFICES ASSUME j >= o PROVE FALSE
      BY <1>1
    <3>1. j \in o .. Len(ms) + 1 /\ j \in 1 .. Len(ms) + 1
      BY <1>1
    <3>2. at[o] <= at[j]
      BY <3>1, PlacesAscend
    <3>3. at[j] \in Nat
      BY <3>1 DEF Places
    <3> QED
      BY <1>2, <2>2, <3>2, <3>3
  <2> QED
    BY <2>2, <2>3, KeptIsSafe
<1> QED
  BY <1>1, <1>2, <1>3

LEMMA TurnFacts ==
  ASSUME NEW ms \in Seq(Messages), NEW a, Shaped(ms), Heard(ms, a)
  PROVE  /\ Turn(ms) \in Seq(Messages) /\ Shaped(Turn(ms)) /\ Heard(Turn(ms), a)
         /\ \A p \in 1 .. Len(Turn(ms)) : IsCommitted(Turn(ms)[p])
         /\ \E at : Places(Turn(ms), ms, Kept(ms), at)
<1>1. Turn(ms) = Only(ms, Kept(ms))
  BY DEF Turn, Collected, Kept
<1>2. PICK at : Places(Only(ms, Kept(ms)), ms, Kept(ms), at)
  BY OnlyLayout
<1>3. Only(ms, Kept(ms)) \in Seq(Messages) /\ Shaped(Only(ms, Kept(ms))) /\ Heard(Only(ms, Kept(ms)), a)
  BY OnlyLayout, OnlyShape, HeardOnly
<1>4. \A p \in 1 .. Len(Only(ms, Kept(ms))) : IsCommitted(Only(ms, Kept(ms))[p])
  <2> TAKE p \in 1 .. Len(Only(ms, Kept(ms)))
  <2>1. PICK i \in 1 .. Len(ms) : i \in Kept(ms) /\ p = at[i] + 1
    BY <1>2 DEF Places
  <2>2. Only(ms, Kept(ms))[p] = ms[i]
    BY <1>2, <2>1 DEF Places
  <2> QED
    BY <2>1, <2>2 DEF Kept
<1> QED
  BY <1>1, <1>2, <1>3, <1>4

LEMMA CheckpointIsFit ==
  ASSUME NEW ms \in Seq(Messages), NEW a, Tidy(ms, a), Fit(saved, a),
         NEW o \in 1 .. Len(ms) + 1, Sound(ms, o),
         o <= Len(ms) => ms[o].ckpt /\ ms[o].mark # "summary" /\ ms[o].role # "user",
         \A t \in 1 .. Len(ms) : ms[t].role = "tool" => IsCommitted(ms[t])
  PROVE  Fit(Checkpoint(ms), a)
<1> DEFINE out == Turn(ms)
<1>1. /\ out \in Seq(Messages) /\ Shaped(out) /\ Heard(out, a)
      /\ \A p \in 1 .. Len(out) : IsCommitted(out[p])
  BY TurnFacts DEF Tidy
<1>2. PICK at : Places(out, ms, Kept(ms), at)
  BY TurnFacts DEF Tidy
<1> HIDE DEF out
<1>3. Len(out) \in Nat /\ DOMAIN out = 1 .. Len(out)
  BY <1>1, ListFacts
<1>4. PICK m \in 0 .. Len(out) : /\ SafePrefix(out) = Sanitized(Prefix(out, m))
                                 /\ ReplaySafe(Prefix(out, m))
                                 /\ Begun(ms, o) => at[o] <= m
  <2>1. CASE Begun(ms, o)
    <3>1. at[o] \in 0 .. Len(out) /\ \A p \in 1 .. at[o] : ~Bad(out, p)
      BY <1>1, <1>2, <2>1, KeptBelow
    <3>2. PICK m \in at[o] .. Len(out) : /\ SafePrefix(out) = Sanitized(Prefix(out, m))
                                         /\ ReplaySafe(Prefix(out, m))
      BY <1>1, <3>1, SafePrefixes
    <3>3. m \in 0 .. Len(out) /\ at[o] <= m
      BY <1>3, <3>1
    <3> QED
      BY <3>2, <3>3
  <2>2. CASE ~Begun(ms, o)
    <3>1. 0 \in 0 .. Len(out) /\ \A p \in 1 .. 0 : ~Bad(out, p)
      BY <1>3
    <3> QED
      BY <1>1, <2>2, <3>1, SafePrefixes
  <2> QED
    BY <2>1, <2>2
<1> DEFINE ps == Prefix(out, m)
           ss == Sanitized(ps)
<1>5. ps \in Seq(Messages) /\ Len(ps) = m /\ DOMAIN ps = 1 .. m /\ \A i \in 1 .. m : ps[i] = out[i]
  <2>1. ps \in Seq(Messages) /\ Len(ps) = m /\ \A i \in 1 .. m : ps[i] = out[i]
    BY <1>1, PrefixTypes
  <2> QED
    BY <2>1, ListFacts
<1>6. ReplaySafe(ps) /\ SafePrefix(out) = ss
  BY <1>4
<1> HIDE DEF ps
<1>7. \A i \in 1 .. m : i \in 1 .. Len(out)
  BY <1>3
<1>8. Shaped(ps) /\ Heard(ps, a)
  BY <1>1, <1>3, <1>5, <1>7 DEF Shaped, Heard
<1>9. ss \in Seq(Messages) /\ ReplaySafe(ss) /\ Shaped(ss) /\ Heard(ss, a)
  BY <1>5, <1>6, <1>8, SanitizedLayout, SanitizedIsReplaySafe, SanitizedShape, HeardSanitized
<1>10. /\ Len(ss) = m
       /\ \A i \in 1 .. m :
             /\ ps[i].role # "tool" => ss[i] = ps[i]
             /\ ps[i].role = "tool" => ss[i] = ToolResult(ps[Owner(ps, i)].calls[i - Owner(ps, i)])
  BY <1>5, <1>6, SanitizedSafe
<1> HIDE DEF ss
<1>11. ASSUME NEW i \in 1 .. m
       PROVE  \/ out[i].role # "tool" /\ ss[i] = out[i]
              \/ out[i].role = "tool" /\ ss[i].role = "tool" /\ ss[i].mark = "none"
  <2>1. \A c : ToolResult(c).role = "tool" /\ ToolResult(c).mark = "none"
    BY DEF ToolResult, Plain
  <2> QED
    BY <1>5, <1>10, <2>1
<1>12. ASSUME NEW i \in 1 .. Len(ss) PROVE IsCommitted(ss[i])
  BY <1>1, <1>7, <1>10, <1>11 DEF IsCommitted
<1>13. ASSUME NEW j \in 1 .. Len(ss), ss[j].role = "user"
       PROVE  Late(ss, j) \/ \E l \in j .. Len(ss) : ss[l] = UserPrompt(TypedPrompt)
  <2>1. out[j].role = "user" /\ j \in 1 .. m /\ j \in 1 .. Len(out)
    BY <1>7, <1>10, <1>11, <1>13
  <2>2. \/ Late(out, j)
        \/ Begun(ms, o) /\ \E l \in j .. at[o] : out[l] = UserPrompt(TypedPrompt)
    BY <1>2, <2>1, UsersOfTurn DEF Tidy
  <2>3. CASE Late(out, j)
    <3>1. ASSUME NEW p \in 1 .. j - 1, Spoken(ss[p])
          PROVE  \E t \in p + 1 .. j - 1 : ss[t].role = "tool"
      <4>1. p \in 1 .. m
        BY <1>3, <2>1
      <4>2. Spoken(out[p])
        BY <1>11, <3>1, <4>1 DEF Spoken
      <4>3. PICK t \in p + 1 .. j - 1 : out[t].role = "tool"
        BY <2>3, <4>2 DEF Late
      <4>4. t \in 1 .. m
        BY <1>3, <2>1
      <4> QED
        BY <1>11, <4>3, <4>4
    <3> QED
      BY <3>1 DEF Late
  <2>4. CASE Begun(ms, o) /\ \E l \in j .. at[o] : out[l] = UserPrompt(TypedPrompt)
    <3>1. PICK l \in j .. at[o] : out[l] = UserPrompt(TypedPrompt)
      BY <2>4
    <3>2. l \in j .. m /\ l \in 1 .. m
      <4>1. at[o] <= m /\ at[o] \in Nat /\ m \in Nat /\ j \in Nat /\ j >= 1
        BY <1>2, <1>3, <1>4, <2>1, <2>4 DEF Places
      <4> QED
        BY <4>1
    <3>3. ss[l] = out[l]
      BY <1>11, <3>1, <3>2 DEF UserPrompt, Plain
    <3> QED
      BY <1>10, <3>1, <3>2, <3>3
  <2> QED
    BY <2>2, <2>3, <2>4
<1>14. Fit(ss, a)
  BY <1>9, <1>12, <1>13 DEF Fit
<1> QED
  BY <1>6, <1>14 DEF Checkpoint, out

LEMMA TurnIsFit ==
  ASSUME NEW ms \in Seq(Messages), NEW a, Tidy(ms, a), Sound(ms, Len(ms) + 1)
  PROVE  Fit(Turn(ms), a)
<1> DEFINE out == Turn(ms)
           o == Len(ms) + 1
<1>1. /\ out \in Seq(Messages) /\ Shaped(out) /\ Heard(out, a)
      /\ \A p \in 1 .. Len(out) : IsCommitted(out[p])
  BY TurnFacts DEF Tidy
<1>2. PICK at : Places(out, ms, Kept(ms), at)
  BY TurnFacts DEF Tidy
<1> HIDE DEF out
<1>3. Len(out) \in Nat /\ DOMAIN out = 1 .. Len(out) /\ DOMAIN ms = 1 .. Len(ms) /\ Len(ms) \in Nat
      /\ o \in 1 .. Len(ms) + 1 /\ o - 1 = Len(ms) /\ ~(o <= Len(ms))
  BY <1>1, ListFacts
<1>4. Sound(ms, o) /\ at[o] = Len(out)
  BY <1>2 DEF Places
<1> HIDE DEF o
<1>5. \A t \in 1 .. Len(ms) : ms[t].role = "tool" => IsCommitted(ms[t])
  BY <1>3, <1>4 DEF Sound
<1>6. ReplaySafe(out)
  <2>1. CASE Begun(ms, o)
    <3>1. \A p \in 1 .. Len(out) : ~Bad(out, p)
      BY <1>1, <1>2, <1>3, <1>4, <2>1, KeptBelow
    <3> QED
      BY <1>1, <3>1, NotBadIsSafe
  <2>2. CASE ~Begun(ms, o)
    <3>1. ASSUME NEW i \in 1 .. Len(ms) PROVE ~HasCalls(ms[i])
      <4> SUFFICES ASSUME HasCalls(ms[i]) PROVE FALSE
        OBVIOUS
      <4>1. ms[i].ckpt \/ Old(ms, i)
        BY DEF Tidy, Ordered
      <4>2. ~ms[i].ckpt
        BY <1>3, <2>2 DEF Begun
      <4>3. PICK l \in i .. Len(ms) : ms[l] = UserPrompt(TypedPrompt)
        BY <4>1, <4>2 DEF Old
      <4>4. l \in 1 .. o - 1 /\ ms[l].ckpt
        BY <1>3, <4>3 DEF UserPrompt, Plain
      <4> QED
        BY <2>2, <4>4 DEF Begun
    <3>2. ASSUME NEW i \in 1 .. Len(ms) PROVE ms[i].role # "tool"
      <4> SUFFICES ASSUME ms[i].role = "tool" PROVE FALSE
        OBVIOUS
      <4>1. InBundle(ms, i)
        BY <1>3, <1>4 DEF Sound
      <4>2. PICK p \in 1 .. Len(ms) : ValidBundle(ms, p)
        BY <4>1, MembersBundle
      <4> QED
        BY <3>1, <4>2 DEF ValidBundle
    <3>3. Quiet(out)
      <4>1. \A p \in 1 .. Len(out) : \E i \in 1 .. Len(ms) : out[p] = ms[i]
        BY <1>2 DEF Places
      <4> QED
        BY <3>1, <3>2, <4>1 DEF Quiet
    <3> QED
      BY <1>1, <3>3, QuietIsSafe
  <2> QED
    BY <2>1, <2>2
<1>7. ASSUME NEW j \in 1 .. Len(out), out[j].role = "user"
      PROVE  Late(out, j) \/ \E l \in j .. Len(out) : out[l] = UserPrompt(TypedPrompt)
  <2>1. \/ Late(out, j)
        \/ Begun(ms, o) /\ \E l \in j .. at[o] : out[l] = UserPrompt(TypedPrompt)
    BY <1>2, <1>3, <1>5, <1>7, UsersOfTurn DEF Tidy
  <2> QED
    BY <1>4, <2>1
<1> QED
  BY <1>1, <1>6, <1>7 DEF Fit, out

LEMMA FitIsOrderly ==
  ASSUME NEW ms \in Seq(Messages), NEW a, Fit(ms, a),
         \A i, j \in DOMAIN ms : i < j /\ Spoken(ms[i]) => ms[j] # UserPrompt(TypedPrompt)
  PROVE  Orderly(ms)
<1>1. DOMAIN ms = 1 .. Len(ms) /\ Len(ms) \in Nat
  BY ListFacts
<1>2. ASSUME NEW j \in 1 .. Len(ms), ms[j].role = "tool" \/ HasCalls(ms[j]) PROVE ms[j].mark = "none"
  <2>1. ms[j].mark # "internal"
    BY DEF Fit, IsCommitted
  <2>2. ms[j].mark = "summary" => ms[j].role = "assistant" /\ ms[j].calls = <<>>
    BY <1>1 DEF Fit, Shaped
  <2>3. ms[j].mark # "summary"
    BY <1>2, <2>2 DEF HasCalls
  <2>4. ms[j].mark \in {"none", "internal", "summary"}
    BY <1>1, ListFacts DEF Messages
  <2> QED
    BY <2>1, <2>3, <2>4
<1>3. ASSUME NEW j \in 1 .. Len(ms), ms[j].role = "user" PROVE Late(ms, j)
  <2>1. CASE \E l \in j .. Len(ms) : ms[l] = UserPrompt(TypedPrompt)
    <3>1. PICK l \in j .. Len(ms) : ms[l] = UserPrompt(TypedPrompt)
      BY <2>1
    <3>2. \A i \in 1 .. j - 1 : i \in DOMAIN ms /\ l \in DOMAIN ms /\ i < l
      BY <1>1
    <3> QED
      BY <3>1, <3>2 DEF Late
  <2> QED
    BY <1>3, <2>1 DEF Fit
<1> QED
  BY <1>2, <1>3 DEF Fit, Orderly

-----------------------------------------------------------------------------
(* A response whose calls are processed *)

\* The message at o waits for the results of the calls in left.
OpenAt(ms, left, o) ==
    LET calls == ms[o].calls
        n == Len(ms) - o
    IN  /\ HasCalls(ms[o]) /\ ms[o].mark = "none" /\ ms[o].ckpt /\ IsInjective(calls)
        /\ Len(calls) = n + Len(left)
        /\ \A k \in 1 .. Len(left) : left[k] = calls[n + k]
        /\ \A k \in 1 .. n : ms[o + k] = ToolResult(calls[k])
        /\ Sound(ms, o)

LEMMA CallsOpen ==
  ASSUME NEW ms \in Seq(Messages), Sound(ms, Len(ms) + 1),
         NEW text \in BOOLEAN, NEW calls \in Seq(Nat), calls # <<>>, IsInjective(calls)
  PROVE  OpenAt(Append(ms, Assistant(text, calls)), calls, Len(ms) + 1)
<1> DEFINE m == Assistant(text, calls)
           out == Append(ms, m)
           o == Len(ms) + 1
<1>1. m \in Messages /\ m.calls = calls /\ HasCalls(m) /\ m.mark = "none" /\ m.ckpt
  BY MessageTypes DEF Assistant, Plain, HasCalls
<1> HIDE DEF m
<1>2. /\ out \in Seq(Messages) /\ Len(out) = o /\ o \in Nat
      /\ o \in 1 .. Len(ms) + 1 /\ o \in 1 .. Len(out) + 1
      /\ out[o] = m /\ \A i \in 1 .. o - 1 : out[i] = ms[i]
  BY <1>1, AppendFacts
<1>3. Sound(ms, o)
  OBVIOUS
<1> HIDE DEF out, o
<1>4. Sound(out, o)
  BY <1>2, <1>3, SoundBelow
<1>5. Len(calls) = (Len(out) - o) + Len(calls) /\ Len(out) - o = 0 /\ Len(calls) \in Nat
  BY <1>2
<1>6. \A k \in 1 .. Len(calls) : calls[k] = calls[(Len(out) - o) + k]
  BY <1>5
<1> QED
  BY <1>1, <1>2, <1>4, <1>5, <1>6 DEF OpenAt, out, o, m

LEMMA ResultIsTaken ==
  ASSUME NEW ms \in Seq(Messages), NEW left \in Seq(Nat), left # <<>>,
         NEW o \in 1 .. Len(ms), OpenAt(ms, left, o)
  PROVE  OpenAt(Append(ms, ToolResult(Head(left))), Tail(left), o)
<1> DEFINE m == ToolResult(Head(left))
           out == Append(ms, m)
           calls == ms[o].calls
           n == Len(ms) - o
<1>1. /\ Head(left) \in Nat /\ Head(left) = left[1] /\ Len(left) \in Nat \ {0}
      /\ Len(Tail(left)) = Len(left) - 1 /\ \A k \in 1 .. Len(left) - 1 : Tail(left)[k] = left[k + 1]
  OBVIOUS
<1>2. m \in Messages
  BY <1>1, MessageTypes
<1>3. /\ out \in Seq(Messages) /\ Len(out) = Len(ms) + 1 /\ Len(ms) \in Nat
      /\ out[Len(ms) + 1] = m /\ \A i \in 1 .. Len(ms) : out[i] = ms[i]
  BY <1>2, AppendFacts
<1>4. /\ HasCalls(ms[o]) /\ ms[o].mark = "none" /\ ms[o].ckpt /\ IsInjective(calls)
      /\ Len(calls) = n + Len(left)
      /\ \A k \in 1 .. Len(left) : left[k] = calls[n + k]
      /\ \A k \in 1 .. n : ms[o + k] = ToolResult(calls[k])
      /\ Sound(ms, o)
  BY DEF OpenAt
<1> HIDE DEF out
<1>5. n \in Nat /\ Len(out) - o = n + 1 /\ o + (n + 1) = Len(ms) + 1 /\ out[o] = ms[o]
      /\ o + n = Len(ms)
  <2>1. Len(ms) \in Nat /\ Len(out) = Len(ms) + 1 /\ o \in 1 .. Len(ms)
    BY <1>3
  <2>2. out[o] = ms[o]
    BY <1>3
  <2>3. o \in Nat /\ o <= Len(ms)
    BY <2>1
  <2>4. n \in Nat /\ o + n = Len(ms)
    BY <2>1, <2>3
  <2>5. Len(out) - o = n + 1 /\ o + (n + 1) = Len(ms) + 1
    BY <2>1, <2>3, <2>4
  <2> QED
    BY <2>2, <2>4, <2>5
<1> HIDE DEF n
<1>6. Sound(out, o)
  <2>1. Len(ms) \in Nat /\ Len(out) = Len(ms) + 1 /\ o \in Nat /\ o >= 1 /\ o <= Len(ms)
    BY <1>3
  <2>2. o \in 1 .. Len(ms) + 1 /\ o \in 1 .. Len(out) + 1 /\ \A i \in 1 .. o - 1 : i \in 1 .. Len(ms)
    BY <2>1
  <2>3. \A i \in 1 .. o - 1 : out[i] = ms[i]
    BY <1>3, <2>2
  <2> QED
    BY <1>3, <1>4, <2>2, <2>3, SoundBelow
<1>7. calls[n + 1] = Head(left)
  <2>1. 1 \in 1 .. Len(left)
    BY <1>1
  <2> QED
    BY <1>1, <1>4, <2>1
<1>8. Len(calls) = (n + 1) + Len(Tail(left))
  BY <1>1, <1>4, <1>5
<1>9. ASSUME NEW k \in 1 .. Len(Tail(left)) PROVE Tail(left)[k] = calls[(n + 1) + k]
  <2>1. k \in 1 .. Len(left) - 1
    BY <1>1
  <2>2. k + 1 \in 1 .. Len(left) /\ n + (k + 1) = (n + 1) + k
    BY <1>1, <1>5, <2>1
  <2>3. Tail(left)[k] = left[k + 1] /\ left[k + 1] = calls[n + (k + 1)]
    BY <1>1, <1>4, <2>1, <2>2
  <2> QED
    BY <2>2, <2>3
<1>10. ASSUME NEW k \in 1 .. n + 1 PROVE out[o + k] = ToolResult(calls[k])
  <2>1. CASE k = n + 1
    BY <1>3, <1>5, <1>7, <2>1
  <2>2. CASE k # n + 1
    <3>1. k \in 1 .. n
      BY <1>5, <2>2
    <3>2. o + k \in 1 .. Len(ms)
      <4>1. k <= n /\ k \in Nat /\ o \in Nat /\ o > 0 /\ Len(ms) \in Nat /\ o + n = Len(ms)
        BY <1>3, <1>5, <3>1
      <4> QED
        BY ONLY <1>5, <4>1
    <3> QED
      BY <1>3, <1>4, <3>1, <3>2
  <2> QED
    BY <2>1, <2>2
<1> HIDE DEF calls
<1>11. calls = out[o].calls
  BY <1>5 DEF calls
<1>12. HasCalls(out[o]) /\ out[o].mark = "none" /\ out[o].ckpt /\ IsInjective(calls)
  BY <1>4, <1>5
<1> DEFINE rest == Tail(left)
<1>13. /\ Len(calls) = (Len(out) - o) + Len(rest)
       /\ \A k \in 1 .. Len(rest) : rest[k] = calls[(Len(out) - o) + k]
       /\ \A k \in 1 .. Len(out) - o : out[o + k] = ToolResult(calls[k])
  BY <1>5, <1>8, <1>9, <1>10
<1> HIDE DEF rest
<1>14. OpenAt(out, rest, o)
  BY <1>6, <1>11, <1>12, <1>13 DEF OpenAt
<1> QED
  BY <1>14 DEF out, rest

LEMMA BundleCloses ==
  ASSUME NEW ms \in Seq(Messages), NEW o \in 1 .. Len(ms), OpenAt(ms, <<>>, o)
  PROVE  Sound(ms, Len(ms) + 1) /\ ms # <<>> /\ ms[Len(ms)].role = "tool"
<1> DEFINE calls == ms[o].calls
           n == Len(ms) - o
           end == Len(ms) + 1
<1>1. /\ DOMAIN ms = 1 .. Len(ms) /\ Len(ms) \in Nat /\ calls \in Seq(Nat)
      /\ DOMAIN calls = 1 .. Len(calls) /\ Len(calls) \in Nat
      /\ end - 1 = Len(ms) /\ end \in 1 .. Len(ms) + 1
  BY ListFacts
<1>2. /\ HasCalls(ms[o]) /\ IsCommitted(ms[o]) /\ IsInjective(calls)
      /\ Len(calls) = n + Len(<<>>)
      /\ \A k \in 1 .. n : ms[o + k] = ToolResult(calls[k])
      /\ Sound(ms, o)
  BY DEF OpenAt, IsCommitted
<1>3. n \in Nat /\ Len(calls) = n /\ o + n = Len(ms)
  <2>1. n \in Nat /\ o + n = Len(ms)
    BY <1>1
  <2>2. Len(<<>>) = 0
    OBVIOUS
  <2> HIDE DEF n
  <2> QED
    BY <1>2, <2>1, <2>2
<1>4. n \in 1 .. n
  <2>1. calls # <<>>
    BY <1>2 DEF HasCalls
  <2> HIDE DEF n, calls
  <2>2. Len(calls) # 0
    BY <1>1, <2>1
  <2> QED
    BY <1>3, <2>2
<1> HIDE DEF n, calls
<1>5. \A k \in 1 .. n : /\ ms[o + k].role = "tool" /\ ms[o + k].ref = calls[k]
                        /\ ~ms[o + k].ckpt /\ IsCommitted(ms[o + k])
  BY <1>2 DEF ToolResult, Plain, IsCommitted
<1>6. ValidBundle(ms, o)
  <2>1. n <= Following(ms, o)
    <3>1. o + n <= Len(ms) /\ n \in Nat
      <4>1. o + n = Len(ms) /\ Len(ms) \in Nat
        BY <1>1, <1>3
      <4> QED
        BY <1>3, <4>1
    <3>2. \A k \in 1 .. n : ms[o + k].role = "tool"
      BY <1>5
    <3> QED
      BY <3>1, <3>2, FollowingCounts
  <2>2. {ms[o + k].ref : k \in 1 .. n} = {calls[k] : k \in 1 .. n}
    BY <1>5
  <2> QED
    BY <1>1, <1>2, <1>3, <2>1, <2>2 DEF ValidBundle, ToSet, calls
<1>7. ASSUME NEW i \in 1 .. Len(ms)
      PROVE  /\ ms[i].role = "tool" => InBundle(ms, i) /\ ~ms[i].ckpt /\ IsCommitted(ms[i])
             /\ HasCalls(ms[i]) => /\ ValidBundle(ms, i) /\ i + Len(ms[i].calls) < end
                                   /\ IsCommitted(ms[i])
  <2>1. CASE i < o
    <3>1. i \in 1 .. o - 1
      BY <1>1, <2>1
    <3>2. Len(ms[i].calls) \in Nat
      BY ListFacts
    <3> QED
      BY <1>1, <1>2, <3>1, <3>2 DEF Sound
  <2>2. CASE i = o
    <3>1. i + Len(ms[i].calls) < end
      BY <1>1, <1>3, <2>2 DEF calls
    <3> QED
      BY <1>2, <1>6, <2>2, <3>1 DEF HasCalls
  <2>3. CASE i > o
    <3> DEFINE k == i - o
    <3>1. k \in 1 .. n /\ o + k = i /\ k \in 1 .. Len(ms[o].calls)
      BY <1>1, <1>3, <2>3 DEF calls
    <3> HIDE DEF k
    <3>2. InBundle(ms, i)
      BY <1>6, <3>1, BundleMembers
    <3> QED
      BY <1>5, <3>1, <3>2 DEF HasCalls
  <2> QED
    BY <2>1, <2>2, <2>3
<1>8. Sound(ms, end)
  BY <1>1, <1>7 DEF Sound
<1>9. ms[Len(ms)].role = "tool"
  BY <1>3, <1>4, <1>5
<1> QED
  BY <1>1, <1>8, <1>9

LEMMA OpenIsFit ==
  ASSUME NEW ms \in Seq(Messages), NEW a, Tidy(ms, a), Fit(saved, a), NEW left, NEW o \in 1 .. Len(ms),
         OpenAt(ms, left, o)
  PROVE  Fit(Checkpoint(ms), a)
<1>1. Len(ms) \in Nat
  BY ListFacts
<1>2. /\ HasCalls(ms[o]) /\ ms[o].mark = "none" /\ ms[o].ckpt
      /\ \A k \in 1 .. Len(ms) - o : ms[o + k] = ToolResult(ms[o].calls[k])
      /\ Sound(ms, o)
  BY DEF OpenAt
<1>3. ASSUME NEW t \in 1 .. Len(ms), ms[t].role = "tool" PROVE IsCommitted(ms[t])
  <2>1. CASE t < o
    <3>1. t \in 1 .. o - 1
      BY <1>1, <2>1
    <3> QED
      BY <1>2, <1>3, <3>1 DEF Sound
  <2>2. CASE t = o
    BY <1>2, <1>3, <2>2 DEF HasCalls
  <2>3. CASE t > o
    <3> DEFINE k == t - o
    <3>1. k \in 1 .. Len(ms) - o /\ o + k = t
      BY <1>1, <2>3
    <3> HIDE DEF k
    <3>2. ms[t] = ToolResult(ms[o].calls[k])
      BY <1>2, <3>1
    <3> QED
      BY <3>2 DEF ToolResult, Plain, IsCommitted
  <2> QED
    BY <1>1, <2>1, <2>2, <2>3
<1>4. ms[o].ckpt /\ ms[o].mark # "summary" /\ ms[o].role # "user"
  BY <1>2 DEF HasCalls
<1>5. o \in 1 .. Len(ms) + 1
  BY <1>1
<1> QED
  BY <1>2, <1>3, <1>4, <1>5, CheckpointIsFit

LEMMA SoundIsFit ==
  ASSUME NEW ms \in Seq(Messages), NEW a, Tidy(ms, a), Fit(saved, a), Sound(ms, Len(ms) + 1)
  PROVE  Fit(Checkpoint(ms), a)
<1> DEFINE o == Len(ms) + 1
<1>1. Len(ms) \in Nat /\ o \in 1 .. Len(ms) + 1 /\ ~(o <= Len(ms)) /\ o - 1 = Len(ms)
  BY ListFacts
<1>2. Sound(ms, o)
  OBVIOUS
<1> HIDE DEF o
<1>3. \A t \in 1 .. Len(ms) : ms[t].role = "tool" => IsCommitted(ms[t])
  BY <1>1, <1>2 DEF Sound
<1> QED
  BY <1>1, <1>2, <1>3, CheckpointIsFit

LEMMA FitForMore ==
  ASSUME NEW ms, NEW a, NEW b, a \subseteq b, Fit(ms, a) PROVE Fit(ms, b)
BY DEF Fit, Heard

-----------------------------------------------------------------------------
(* The next turn can send what it reads back *)

\* The calls there have been: of earlier turns with results, and all of this turn.
Ours == Results(History) \cup (FirstCall .. FirstCall + issued - 1)

InScope == scope = "session" /\ reduced \subseteq {"compacted", "trimmed"}

\* While the conversation of a session is only cut at its beginning, it is in an order that
\* can be read back.
OrderInv ==
    InScope =>
        /\ Tidy(msgs, Ours) /\ Fit(saved, Ours)
        /\ \A k \in 1 .. Len(todo) : todo[k] \in Ours
        /\ pc \in InTools => \E o \in 1 .. Len(msgs) : OpenAt(msgs, todo, o)
        /\ pc \notin InTools \cup {"ended"} => Sound(msgs, Len(msgs) + 1)
        /\ pc = "insert" => msgs # <<>> /\ msgs[Len(msgs)].role = "tool"
        /\ pc = "ended" /\ Completed => Sound(msgs, Len(msgs) + 1)

LEMMA ScopeStays == [AgentNext]_vars => scope' = scope
BY DEF AgentNext, Loop, Request, Tools, Over, StartStep, Prepare, Answer, RequestCancelled,
       RequestFails, TransportRetry, ToolIdUnknown, Overflow, NextTool, ToolAllowed, ToolStarts,
       ToolBlocked, ToolEnds, ToolsEnd, Insert, RecoverFromMaxTokens, AskToContinue, FinishStep,
       Stop, vars

LEMMA InScopeStays ==
  ASSUME [AgentNext]_vars, InScope' PROVE InScope
BY ScopeStays, ReductionsStay DEF InScope

LEMMA OrderStart == AgentInit => OrderInv
<1> SUFFICES ASSUME AgentInit PROVE OrderInv
  OBVIOUS
<1> DEFINE m == UserPrompt(TypedPrompt)
<1>1. History \in Seq(Replayed) /\ ReplaySafe(History)
  BY AgentTurnAssumption
<1>2. History \in Seq(Messages) /\ m \in Messages
  BY <1>1, MessageTypes DEF TypedPrompt, Replayed
<1>3. /\ DOMAIN History = 1 .. Len(History) /\ Len(History) \in Nat
      /\ \A i \in 1 .. Len(History) : History[i] \in Replayed
  BY <1>1
<1>4. m.role # "tool" /\ ~HasCalls(m) /\ m.mark # "summary" /\ m.covers = {}
  BY DEF UserPrompt, Plain, HasCalls
<1>5. msgs = Append(History, m) /\ saved = <<>> /\ todo = <<>> /\ pc = "start"
  BY DEF AgentInit
<1>6. /\ Len(msgs) = Len(History) + 1 /\ Len(msgs) + 1 = Len(History) + 2
      /\ msgs[Len(History) + 1] = m /\ \A i \in 1 .. Len(History) : msgs[i] = History[i]
      /\ msgs \in Seq(Messages)
  BY <1>2, <1>3, <1>5, AppendFacts
<1>7. Shaped(msgs)
  <2>1. Shaped(History)
    BY <1>3 DEF Shaped, Replayed
  <2> HIDE DEF m
  <2> QED
    BY <1>2, <1>4, <1>5, <2>1, ShapedAppend
<1>8. Sound(msgs, Len(msgs) + 1)
  <2>1. \A i \in 1 .. Len(History) :
             /\ History[i].role = "tool" => ~History[i].ckpt
             /\ History[i].role = "tool" \/ HasCalls(History[i]) => IsCommitted(History[i])
    BY <1>3 DEF Replayed, HasCalls, IsCommitted
  <2>2. Sound(History, Len(History) + 1)
    BY <1>1, <1>2, <2>1, SafeIsSound
  <2> HIDE DEF m
  <2> QED
    BY <1>2, <1>4, <1>5, <1>6, <2>2, SoundAppend
<1>9. Ordered(msgs)
  <2>1. ASSUME NEW j \in 1 .. Len(msgs) PROVE Old(msgs, j)
    <3> DEFINE l == Len(History) + 1
    <3>1. l \in j .. Len(msgs) /\ msgs[l] = UserPrompt(TypedPrompt)
      BY <1>3, <1>6
    <3>2. \A i \in 1 .. l - 1 : i \in 1 .. Len(History)
      BY <1>3
    <3>3. \A i \in 1 .. l - 1 : ~msgs[i].ckpt
      BY <1>3, <1>6, <3>2 DEF Replayed
    <3> HIDE DEF l
    <3> QED
      BY <3>1, <3>3 DEF Old
  <2> QED
    BY <2>1 DEF Ordered
<1>10. Heard(msgs, Ours)
  <2>1. Heard(History, Results(History))
    BY <1>2, HeardIsResults
  <2>2. ASSUME NEW i \in 1 .. Len(msgs), msgs[i].role = "tool" PROVE msgs[i].ref \in Ours
    <3>1. i # Len(History) + 1
      BY <1>4, <1>6, <2>2
    <3>2. i \in 1 .. Len(History)
      BY <1>3, <1>6, <3>1
    <3>3. msgs[i].ref \in Results(History)
      BY <1>6, <2>1, <2>2, <3>2 DEF Heard
    <3> QED
      BY <3>3 DEF Ours
  <2> QED
    BY <2>2 DEF Heard
<1>11. Fit(saved, Ours)
  <2>1. ReplaySafe(<<>>) /\ Len(<<>>) = 0
    BY NoneIsSafe
  <2> QED
    BY <1>5, <2>1 DEF Fit, Shaped, Heard
<1>12. \A k \in 1 .. Len(todo) : todo[k] \in Ours
  BY <1>5
<1> QED
  BY <1>5, <1>7, <1>8, <1>9, <1>10, <1>11, <1>12 DEF OrderInv, Tidy, InTools

\* Requests and the end of a step leave no bundle open.
LEMMA OrderRequests ==
  ASSUME CountersInv, ConversationInv, RecordTypes, OrderInv, InScope, InScope',
         \/ StartStep \/ Prepare \/ RequestCancelled \/ RequestFails \/ ToolIdUnknown
         \/ TransportRetry \/ Overflow \/ Insert \/ RecoverFromMaxTokens \/ AskToContinue \/ FinishStep
  PROVE  OrderInv'
<1> USE DEF loop, End
<1>1. msgs \in Seq(Messages) /\ saved \in Seq(Messages)
  BY DEF ConversationInv, RecordTypes
<1>2. /\ pc \notin InTools \cup {"ended"} /\ pc' \notin InTools /\ pc' # "insert"
      /\ todo' = todo /\ issued' = issued
  BY DEF InTools, StartStep, Prepare, RequestCancelled, RequestFails, ToolIdUnknown, TransportRetry,
         Overflow, Insert, RecoverFromMaxTokens, AskToContinue, FinishStep
<1>3. Tidy(msgs, Ours) /\ Fit(saved, Ours) /\ Sound(msgs, Len(msgs) + 1)
      /\ \A k \in 1 .. Len(todo) : todo[k] \in Ours
  BY <1>2 DEF OrderInv
<1>4. Ours' = Ours
  BY <1>2 DEF Ours
<1>5. ASSUME Tidy(msgs', Ours), Fit(saved', Ours), Sound(msgs', Len(msgs') + 1) PROVE OrderInv'
  BY <1>2, <1>3, <1>4, <1>5 DEF OrderInv
<1>6. ASSUME NEW m \in Messages, m.role # "tool", m.calls = <<>>, m.mark # "summary", m.covers = {},
             Said(m) => Late(msgs, Len(msgs) + 1),
             msgs' = Append(msgs, m), saved' \in {saved, Checkpoint(msgs')}
      PROVE  OrderInv'
  <2>1. msgs' \in Seq(Messages) /\ Len(msgs') = Len(msgs) + 1 /\ Len(msgs) \in Nat
    BY <1>1, <1>6, AppendFacts
  <2>2. ~HasCalls(m)
    BY <1>6 DEF HasCalls
  <2>3. Tidy(msgs', Ours)
    BY <1>1, <1>3, <1>6, <2>2, TidyAppend
  <2>4. Sound(msgs', Len(msgs) + 2) /\ Len(msgs) + 2 = Len(msgs') + 1
    BY <1>1, <1>3, <1>6, <2>1, <2>2, SoundAppend
  <2>5. Sound(msgs', Len(msgs') + 1)
    BY <2>4
  <2>6. Fit(saved', Ours)
    BY <1>3, <1>6, <2>1, <2>3, <2>5, SoundIsFit
  <2> QED
    BY <1>5, <2>3, <2>5, <2>6
<1>7. ASSUME \/ msgs' = msgs
             \/ \E n \in 0 .. Len(msgs) : msgs' = Sanitized(Trimmed(msgs, n))
             \/ \E n \in Nat : CanCompact(msgs, n) /\ msgs' = Compacted(msgs, n),
             saved' = saved
      PROVE  OrderInv'
  <2>1. Tidy(msgs', Ours) /\ Sound(msgs', Len(msgs') + 1)
    BY <1>1, <1>3, <1>7, TrimmedIsTidy, CompactedIsTidy
  <2> QED
    BY <1>3, <1>5, <1>7, <2>1
<1>8. CASE StartStep \/ RequestCancelled \/ TransportRetry \/ FinishStep
  <2>1. msgs' = msgs /\ saved' = saved
    BY <1>8 DEF StartStep, RequestCancelled, TransportRetry, FinishStep
  <2> QED
    BY <1>7, <2>1
<1>9. CASE Prepare
  <2>1. /\ saved' = saved
        /\ msgs' = msgs \/ (CanCompact(msgs, KeepRounds) /\ msgs' = Compacted(msgs, KeepRounds))
    BY <1>9 DEF Prepare
  <2> QED
    BY <1>7, <2>1, Bounds
<1>10. CASE Overflow
  <2>1. saved' = saved /\ 1 \in Nat
    BY <1>10 DEF Overflow
  <2>2. \/ msgs' = msgs
        \/ CanCompact(msgs, 1) /\ msgs' = Compacted(msgs, 1)
        \/ \E n \in {k \in DOMAIN msgs : k >= KeepLatest} \cup {Len(msgs)} :
              msgs' = Sanitized(Trimmed(msgs, n))
    BY <1>10 DEF Overflow
  <2>3. {k \in DOMAIN msgs : k >= KeepLatest} \cup {Len(msgs)} \subseteq 0 .. Len(msgs)
    BY <1>1, ListFacts
  <2> QED
    BY <1>7, <2>1, <2>2, <2>3
<1>11. CASE RequestFails
  <2>1. CASE msgs' = msgs /\ saved' = saved
    BY <1>7, <2>1
  <2>2. CASE msgs' = Append(msgs, Assistant(TRUE, <<>>)) /\ saved' = Checkpoint(msgs')
    <3> DEFINE m == Assistant(TRUE, <<>>)
    <3>1. <<>> \in Seq(Nat) /\ TRUE \in BOOLEAN
      OBVIOUS
    <3>2. m \in Messages
      BY <3>1, MessageTypes
    <3>3. m.role = "assistant" /\ m.calls = <<>> /\ m.mark # "summary" /\ m.covers = {}
      BY DEF Assistant, Plain
    <3> HIDE DEF m
    <3>4. ~Said(m)
      BY <3>3 DEF Said
    <3> QED
      BY <1>6, <2>2, <3>2, <3>3, <3>4 DEF m
  <2> QED
    BY <1>11, <2>1, <2>2 DEF RequestFails
<1>12. CASE Insert
  <2>1. CASE msgs' = msgs /\ saved' = saved
    BY <1>7, <2>1
  <2>2. CASE msgs' = Append(msgs, UserPrompt(InsertedPrompt)) /\ saved' = Checkpoint(msgs')
    <3> DEFINE m == UserPrompt(InsertedPrompt)
    <3>1. m \in Messages
      BY MessageTypes DEF InsertedPrompt
    <3>2. m.role # "tool" /\ m.calls = <<>> /\ m.mark # "summary" /\ m.covers = {}
      BY DEF UserPrompt, Plain
    <3>3. msgs # <<>> /\ msgs[Len(msgs)].role = "tool"
      BY <1>12 DEF Insert, OrderInv
    <3>4. Late(msgs, Len(msgs) + 1)
      <4>1. Len(msgs) \in Nat /\ (Len(msgs) + 1) - 1 = Len(msgs)
        BY <1>1, ListFacts
      <4>2. ASSUME NEW i \in 1 .. Len(msgs), Spoken(msgs[i])
            PROVE  \E t \in i + 1 .. Len(msgs) : msgs[t].role = "tool"
        <5>1. i # Len(msgs)
          BY <3>3, <4>2 DEF Spoken
        <5>2. \A n \in Nat : \A x \in 1 .. n : x # n => n \in x + 1 .. n
          OBVIOUS
        <5>3. Len(msgs) \in i + 1 .. Len(msgs)
          BY <4>1, <5>1, <5>2
        <5> QED
          BY <3>3, <5>3
      <4> QED
        BY <4>1, <4>2 DEF Late
    <3> QED
      BY <1>6, <2>2, <3>1, <3>2, <3>4
  <2> QED
    BY <1>12, <2>1, <2>2 DEF Insert
<1>13. /\ InternalUser \in Messages /\ InternalUser.role # "tool" /\ InternalUser.calls = <<>>
       /\ InternalUser.mark # "summary" /\ InternalUser.covers = {} /\ ~Said(InternalUser)
  BY MessageTypes DEF InternalUser, Plain, Said
<1>14. CASE ToolIdUnknown
  <2>1. saved' = saved /\ msgs' = Append(msgs, InternalUser)
    BY <1>14 DEF ToolIdUnknown
  <2> QED
    BY <1>6, <1>13, <2>1
<1>15. CASE RecoverFromMaxTokens
  <2>1. saved' = saved /\ (msgs' = msgs \/ msgs' = Append(msgs, InternalUser))
    <3>1. PICK ms : /\ ms = msgs \/ Reduces("recovered")
                    /\ msgs' = ms \/ msgs' = Append(ms, InternalUser)
      BY <1>15 DEF RecoverFromMaxTokens
    <3>2. ms = msgs
      BY <3>1 DEF Reduces, InScope
    <3>3. saved' = saved
      BY <1>15 DEF RecoverFromMaxTokens
    <3> QED
      BY <3>1, <3>2, <3>3
  <2> QED
    BY <1>6, <1>7, <1>13, <2>1
<1>16. CASE AskToContinue
  BY <1>16 DEF AskToContinue, IsPromise, InScope
<1> QED
  BY <1>8, <1>9, <1>10, <1>11, <1>12, <1>14, <1>15, <1>16

\* A response opens a bundle, or is checkpointed at once.
LEMMA OrderAnswer ==
  ASSUME CountersInv, ConversationInv, RecordTypes, OrderInv, InScope, Answer
  PROVE  OrderInv'
<1>1. msgs \in Seq(Messages) /\ saved \in Seq(Messages) /\ issued \in Nat
  BY DEF ConversationInv, RecordTypes, CountersInv
<1>2. PICK r \in Replies[step] : \E calls \in Seq(Nat) :
           /\ r.text \in BOOLEAN /\ r.calls \in Nat
           /\ calls = [k \in 1 .. r.calls |-> FirstCall + issued + k - 1]
           /\ todo' = calls /\ issued' = issued + r.calls
           /\ msgs' = Append(msgs, Assistant(r.text, calls))
           /\ pc = "request" /\ pc' = IF calls = <<>> THEN "finish" ELSE "tools"
  BY AnswerTypes
<1> DEFINE calls == [k \in 1 .. r.calls |-> FirstCall + issued + k - 1]
           m == Assistant(r.text, calls)
<1>3. /\ r.text \in BOOLEAN /\ r.calls \in Nat /\ calls \in Seq(Nat)
      /\ todo' = calls /\ issued' = issued + r.calls /\ msgs' = Append(msgs, m)
      /\ pc = "request" /\ pc' = IF calls = <<>> THEN "finish" ELSE "tools"
  BY <1>2
<1>4. saved' = IF todo' = <<>> THEN Checkpoint(msgs') ELSE saved
  BY DEF Answer
<1>5. IsInjective(calls)
  BY <1>1, <1>3, CallNames
<1>6. Ours \subseteq Ours' /\ \A k \in 1 .. Len(calls) : calls[k] \in Ours'
  <2>1. Ours' = Results(History) \cup (FirstCall .. FirstCall + (issued + r.calls) - 1)
    BY <1>3 DEF Ours
  <2>2. FirstCall .. FirstCall + issued - 1 \subseteq FirstCall .. FirstCall + (issued + r.calls) - 1
    <3>1. issued \in Nat /\ r.calls \in Nat
      BY <1>1, <1>3
    <3>2. \A x, y, z \in Nat : x .. x + y - 1 \subseteq x .. x + (y + z) - 1
      OBVIOUS
    <3> QED
      BY <3>1, <3>2 DEF FirstCall
  <2>3. ASSUME NEW k \in 1 .. Len(calls)
        PROVE  calls[k] \in FirstCall .. FirstCall + (issued + r.calls) - 1
    <3>1. Len(calls) = r.calls /\ calls[k] = FirstCall + issued + k - 1
      BY <1>3
    <3> HIDE DEF calls
    <3>2. k \in 1 .. r.calls
      BY <3>1
    <3>3. \A x, y \in Nat : \A z \in 1 .. y :
             FirstCall + x + z - 1 \in FirstCall .. FirstCall + (x + y) - 1
      BY DEF FirstCall
    <3>4. FirstCall + issued + k - 1 \in FirstCall .. FirstCall + (issued + r.calls) - 1
      BY <1>1, <1>3, <3>2, <3>3
    <3> QED
      BY <3>1, <3>4
  <2> HIDE DEF calls
  <2> QED
    BY <2>1, <2>2, <2>3 DEF Ours
<1> HIDE DEF calls
<1>7. /\ m \in Messages /\ m.role = "assistant" /\ m.calls = calls /\ m.mark # "summary"
      /\ m.covers = {}
      /\ HasCalls(m) => m.ckpt
  BY <1>3, MessageTypes DEF Assistant, Plain, HasCalls
<1>8. ~Said(m) /\ m.role # "tool"
  BY <1>7 DEF Said
<1>9. Tidy(msgs, Ours') /\ Fit(saved, Ours') /\ Sound(msgs, Len(msgs) + 1)
  <2>1. Tidy(msgs, Ours) /\ Fit(saved, Ours) /\ Sound(msgs, Len(msgs) + 1)
    BY <1>3 DEF OrderInv, InTools
  <2> QED
    BY <1>6, <2>1, TidyForMore, FitForMore
<1> HIDE DEF m
<1>10. /\ msgs' \in Seq(Messages) /\ Len(msgs') = Len(msgs) + 1 /\ Len(msgs) \in Nat
       /\ Len(msgs) + 1 \in 1 .. Len(msgs')
  <2>1. Len(msgs) \in Nat /\ Len(msgs') = Len(msgs) + 1 /\ msgs' \in Seq(Messages)
    BY <1>1, <1>3, <1>7, AppendFacts
  <2> QED
    BY <2>1
<1>11. Tidy(msgs', Ours')
  BY <1>1, <1>3, <1>7, <1>8, <1>9, TidyAppend
<1>12. CASE calls = <<>>
  <2>1. Sound(msgs', Len(msgs) + 2) /\ Len(msgs) + 2 = Len(msgs') + 1
    BY <1>1, <1>3, <1>7, <1>8, <1>9, <1>10, <1>12, SoundAppend DEF HasCalls
  <2>2. Sound(msgs', Len(msgs') + 1)
    BY <2>1
  <2>3. Fit(saved', Ours')
    BY <1>3, <1>4, <1>9, <1>10, <1>11, <1>12, <2>2, SoundIsFit
  <2>4. \A k \in 1 .. Len(todo') : todo'[k] \in Ours'
    BY <1>3, <1>6
  <2> QED
    BY <1>3, <1>11, <1>12, <2>2, <2>3, <2>4 DEF OrderInv, InTools
<1>13. CASE calls # <<>>
  <2>1. OpenAt(msgs', todo', Len(msgs) + 1)
    BY <1>1, <1>3, <1>5, <1>9, <1>13, CallsOpen DEF m
  <2>2. pc' = "tools" /\ saved' = saved
    BY <1>3, <1>4, <1>13
  <2>3. \A k \in 1 .. Len(todo') : todo'[k] \in Ours'
    BY <1>3, <1>6
  <2> QED
    BY <1>9, <1>10, <1>11, <2>1, <2>2, <2>3 DEF OrderInv, InTools
<1> QED
  BY <1>12, <1>13

\* The calls of a response, one after another.
LEMMA OrderCalls ==
  ASSUME CountersInv, ConversationInv, RecordTypes, OrderInv, InScope,
         NextTool \/ ToolAllowed \/ ToolBlocked \/ ToolStarts \/ ToolEnds
  PROVE  OrderInv'
<1> USE DEF loop, End
<1>1. msgs \in Seq(Messages) /\ saved \in Seq(Messages) /\ todo \in Seq(Nat)
      /\ DOMAIN msgs = 1 .. Len(msgs)
  BY ListFacts DEF ConversationInv, RecordTypes
<1>2. pc \in InTools /\ todo # <<>> /\ issued' = issued
  BY DEF InTools, NextTool, ToolAllowed, ToolBlocked, ToolStarts, ToolEnds, CountersInv
<1>3. Ours' = Ours
  BY <1>2 DEF Ours
<1>4. Tidy(msgs, Ours) /\ Fit(saved, Ours) /\ \A k \in 1 .. Len(todo) : todo[k] \in Ours
  BY DEF OrderInv
<1>5. PICK o \in 1 .. Len(msgs) : OpenAt(msgs, todo, o)
  BY <1>2 DEF OrderInv
<1>6. CASE NextTool \/ ToolAllowed \/ ToolStarts
  <2>1. /\ msgs' = msgs /\ saved' = saved /\ todo' = todo
        /\ \/ pc' \in InTools
           \/ pc' = "ended" /\ reason' = "cancelled"
    <3>1. CASE NextTool
      BY <3>1 DEF NextTool, InTools
    <3>2. CASE ToolAllowed
      BY <3>2 DEF ToolAllowed, InTools
    <3>3. CASE ToolStarts
      BY <3>3 DEF ToolStarts, InTools
    <3> QED
      BY <1>6, <3>1, <3>2, <3>3
  <2>2. pc' = "ended" => ~Completed'
    BY <2>1 DEF Completed, InTools
  <2>3. pc' \in InTools \cup {"ended"} /\ pc' # "insert"
    BY <2>1 DEF InTools
  <2> QED
    BY <1>3, <1>4, <1>5, <2>1, <2>2, <2>3 DEF OrderInv
<1>7. CASE ToolBlocked \/ ToolEnds
  <2> DEFINE m == ToolResult(Head(todo))
  <2>1. /\ pc' = "tools" /\ msgs' = Append(msgs, m) /\ todo' = Tail(todo)
        /\ saved' \in {saved, Checkpoint(msgs')}
    BY <1>7 DEF ToolBlocked, ToolEnds
  <2>2. Head(todo) \in Nat /\ Head(todo) = todo[1] /\ Len(todo) \in Nat \ {0}
        /\ Len(Tail(todo)) = Len(todo) - 1 /\ \A k \in 1 .. Len(todo) - 1 : Tail(todo)[k] = todo[k + 1]
    BY <1>1, <1>2
  <2>3. m \in Messages /\ m.role = "tool" /\ m.ref = Head(todo) /\ m.mark # "summary" /\ m.covers = {}
    BY <2>2, MessageTypes DEF ToolResult, Plain
  <2>4. ~HasCalls(m) /\ ~Said(m)
    BY <2>3 DEF HasCalls, Said
  <2>5. Head(todo) \in Ours
    BY <1>4, <2>2
  <2> HIDE DEF m
  <2>6. Tidy(msgs', Ours)
    BY <1>1, <1>4, <2>1, <2>3, <2>4, <2>5, TidyAppend
  <2>7. msgs' \in Seq(Messages) /\ o \in 1 .. Len(msgs')
    <3>1. Len(msgs) \in Nat /\ Len(msgs') = Len(msgs) + 1 /\ msgs' \in Seq(Messages)
      BY <1>1, <2>1, <2>3, AppendFacts
    <3> QED
      BY <3>1
  <2>8. OpenAt(msgs', todo', o)
    BY <1>1, <1>2, <1>5, <2>1, ResultIsTaken DEF m
  <2>9. Fit(saved', Ours)
    BY <1>4, <2>1, <2>6, <2>7, <2>8, OpenIsFit
  <2>10. \A k \in 1 .. Len(todo') : todo'[k] \in Ours
    <3> TAKE k \in 1 .. Len(todo')
    <3>1. k \in 1 .. Len(todo) - 1 /\ k + 1 \in 1 .. Len(todo)
      BY <2>1, <2>2
    <3> QED
      BY <1>4, <2>1, <2>2, <3>1
  <2> QED
    BY <1>3, <2>1, <2>6, <2>7, <2>8, <2>9, <2>10 DEF OrderInv, InTools
<1> QED
  BY <1>6, <1>7

\* The last call is through: the bundle is whole and is checkpointed.
LEMMA OrderToolsEnd ==
  ASSUME CountersInv, ConversationInv, RecordTypes, OrderInv, InScope, InScope', ToolsEnd
  PROVE  OrderInv'
<1>1. msgs \in Seq(Messages) /\ saved \in Seq(Messages)
  BY DEF ConversationInv, RecordTypes
<1>2. /\ pc = "tools" /\ todo = <<>> /\ saved' = Checkpoint(msgs') /\ pc' \in {"finish", "insert"}
      /\ msgs' = msgs /\ todo' = todo /\ issued' = issued
  BY DEF ToolsEnd, Reduces, InScope
<1>3. Ours' = Ours
  BY <1>2 DEF Ours
<1>4. Tidy(msgs, Ours) /\ Fit(saved, Ours) /\ \A k \in 1 .. Len(todo) : todo[k] \in Ours
  BY DEF OrderInv
<1>5. PICK o \in 1 .. Len(msgs) : OpenAt(msgs, <<>>, o)
  BY <1>2 DEF OrderInv, InTools
<1>6. Sound(msgs, Len(msgs) + 1) /\ msgs # <<>> /\ msgs[Len(msgs)].role = "tool"
  BY <1>1, <1>5, BundleCloses
<1>7. Fit(Checkpoint(msgs), Ours)
  BY <1>1, <1>4, <1>6, SoundIsFit
<1> QED
  BY <1>2, <1>3, <1>4, <1>6, <1>7 DEF OrderInv, InTools

LEMMA OrderStep ==
  ASSUME CountersInv, ConversationInv, RecordTypes, OrderInv, [AgentNext]_vars PROVE OrderInv'
<1> SUFFICES ASSUME InScope' PROVE OrderInv'
  BY DEF OrderInv
<1>0. InScope
  BY InScopeStays
<1>1. CASE \/ StartStep \/ Prepare \/ RequestCancelled \/ RequestFails \/ ToolIdUnknown
           \/ TransportRetry \/ Overflow \/ Insert \/ RecoverFromMaxTokens \/ AskToContinue \/ FinishStep
  BY <1>0, <1>1, OrderRequests
<1>2. CASE Answer
  BY <1>0, <1>2, OrderAnswer
<1>3. CASE NextTool \/ ToolAllowed \/ ToolBlocked \/ ToolStarts \/ ToolEnds
  BY <1>0, <1>3, OrderCalls
<1>4. CASE ToolsEnd
  BY <1>0, <1>4, OrderToolsEnd
<1>5. CASE Stop \/ Over \/ UNCHANGED vars
  <2>1. UNCHANGED <<scope, msgs, saved, pc, todo, issued, reduced, reason>>
    BY <1>5 DEF Stop, Over, vars, loop
  <2>2. Ours' = Ours
    BY <2>1 DEF Ours
  <2> QED
    BY <2>1, <2>2 DEF OrderInv, InScope, Completed
<1> QED
  BY <1>1, <1>2, <1>3, <1>4, <1>5 DEF AgentNext, Loop, Request, Tools

\* However it ends, the next turn of a session can send what it reads back.
THEOREM NextTurnCanSend == AgentSpec => []ReplayIsSafe
<1>1. ASSUME ConversationInv, RecordTypes, OrderInv PROVE ReplayIsSafe
  <2> SUFFICES ASSUME pc = "ended", InScope
               PROVE  /\ AnswersBefore \/ ReplaySafe(NextHistory)
                      /\ Results(NextHistory) \subseteq Ours
    BY DEF ReplayIsSafe, InScope, Ours
  <2>1. msgs \in Seq(Messages) /\ saved \in Seq(Messages) /\ Tidy(msgs, Ours) /\ Fit(saved, Ours)
    BY <1>1 DEF ConversationInv, RecordTypes, OrderInv
  <2>2. Committed \in Seq(Messages) /\ Fit(Committed, Ours)
    <3>1. CASE Completed
      <4>1. Sound(msgs, Len(msgs) + 1)
        BY <1>1, <3>1 DEF OrderInv
      <4>2. Turn(msgs) \in Seq(Messages) /\ Fit(Turn(msgs), Ours)
        BY <2>1, <4>1, TurnFacts, TurnIsFit DEF Tidy
      <4> QED
        BY <3>1, <4>2 DEF Committed
    <3>2. CASE ~Completed
      BY <2>1, <3>2 DEF Committed
    <3> QED
      BY <3>1, <3>2
  <2>3. History \in Seq(Messages) /\ ReplaySafe(History) /\ Heard(History, Ours)
    <3>1. History \in Seq(Messages) /\ ReplaySafe(History)
      BY AgentTurnAssumption, Histories
    <3>2. Results(History) \subseteq Ours
      BY DEF Ours
    <3> QED
      BY <3>1, <3>2, HeardIsResults
  <2>4. CASE Committed = <<>>
    <3>1. NextHistory = History
      BY <2>4 DEF NextHistory
    <3> QED
      BY <2>3, <3>1, HeardIsResults
  <2>5. CASE Committed # <<>>
    <3>1. NextHistory = Conversation(History, Committed, TypedPrompt, Answered)
      BY <2>5 DEF NextHistory
    <3>2. Answered \in BOOLEAN /\ TypedPrompt \in Nat
      BY DEF Answered, TypedPrompt
    <3>3. NextHistory \in Seq(Messages) /\ Heard(NextHistory, Ours)
      BY <2>2, <2>3, <3>1, <3>2, ConversationHeard DEF Fit
    <3>4. Results(NextHistory) \subseteq Ours
      BY <3>3, HeardIsResults
    <3>5. ASSUME ~AnswersBefore PROVE ReplaySafe(NextHistory)
      <4>1. \A i, j \in DOMAIN Committed :
               i < j /\ Spoken(Committed[i]) => Committed[j] # UserPrompt(TypedPrompt)
        BY <3>5 DEF AnswersBefore, Spoken
      <4>2. Orderly(Committed)
        BY <2>2, <4>1, FitIsOrderly
      <4> QED
        BY <2>2, <2>3, <3>1, <3>2, <4>2, ConversationSafe
    <3> QED
      BY <3>4, <3>5
  <2> QED
    BY <2>4, <2>5
<1>2. AgentInit => OrderInv
  BY OrderStart
<1>3. CountersInv /\ ConversationInv /\ RecordTypes /\ RecordInv /\ OrderInv /\ [AgentNext]_vars => OrderInv'
  BY OrderStep
<1> QED
  BY <1>1, <1>2, <1>3, RecordAlways, PTL DEF AgentSpec
=============================================================================
