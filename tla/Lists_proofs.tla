--------------------------- MODULE Lists_proofs ---------------------------
(***************************************************************************)
(* Lemmas about lists and about functions defined by recursion on numbers.  *)
(* They are induction over data in the one form that the provers take: a    *)
(* set of numbers that is not empty has a least element.                    *)
(***************************************************************************)
EXTENDS Integers, Lists, WellFoundedInduction, TLAPS

\* Induction, in the form the provers can use: a set of numbers has a least element.
LEMMA Least ==
  ASSUME NEW T \in SUBSET Nat, T # {}
  PROVE \E n \in T : \A m \in T : n <= m
<1>1. PICK n \in T : \A m \in T : <<m, n>> \notin OpToRel(<, Nat)
  BY NatLessThanWellFounded, WFMin, Zenon
<1>2. \A m \in T : ~ (m < n)
  BY <1>1 DEF OpToRel
<1> QED BY <1>2

\* Concatenating lists, one after the other.
LEMMA FlatSteps ==
  ASSUME NEW S, NEW seqs \in Seq(Seq(S))
  PROVE  \E g \in [0..Len(seqs) -> Seq(S)] :
            /\ g[0] = <<>>
            /\ \A i \in 1..Len(seqs) : g[i] = g[i - 1] \o seqs[i]
            /\ FlattenSeq(seqs) = g[Len(seqs)]
<1> DEFINE N == Len(seqs)
           Sat(g, n) == g = [i \in 1..n |-> IF i = 1 THEN seqs[i] ELSE g[i - 1] \o seqs[i]]
           T == {n \in 1..N : ~ \E g : Sat(g, n) /\ g[n] \in Seq(S)}
<1>1. CASE N = 0
  <2>1. FlattenSeq(seqs) = seqs
    BY <1>1 DEF FlattenSeq
  <2>2. seqs = <<>>
    BY <1>1
  <2> DEFINE e == [i \in 0..0 |-> <<>>]
  <2>3. e[0] = <<>> /\ e \in [0..0 -> Seq(S)]
    OBVIOUS
  <2> HIDE DEF e
  <2>4. 1..0 = {}
    OBVIOUS
  <2> QED BY <1>1, <2>1, <2>2, <2>3, <2>4
<1>2. CASE N # 0
  <2>0. N \in Nat /\ \A i \in 1..N : seqs[i] \in Seq(S)
    OBVIOUS
  <2>1. T = {}
    <3> HIDE DEF Sat, N
    <3> SUFFICES ASSUME T # {} PROVE FALSE
      OBVIOUS
    <3>1. T \in SUBSET Nat
      BY <2>0
    <3>2. PICK n \in T : \A m \in T : n <= m
      BY <3>1, Least
    <3>3. n \in 1..N /\ n \in Nat /\ n >= 1
      BY <2>0
    <3>4. n # 1
      <4> DEFINE g == [i \in 1..1 |-> seqs[1]]
      <4>1. g[1] = seqs[1]
        OBVIOUS
      <4>2. Sat(g, 1)
        BY DEF Sat
      <4>3. g[1] \in Seq(S)
        BY <4>1, <2>0, <3>3
      <4> HIDE DEF g
      <4> QED BY <4>2, <4>3
    <3>5. n - 1 \in 1..N /\ n - 1 \notin T
      BY <3>2, <3>3, <3>4, <2>0, SMTT(30)
    <3>6. PICK g : Sat(g, n - 1) /\ g[n - 1] \in Seq(S)
      BY <3>5
    <3> DEFINE p == g[n - 1] \o seqs[n]
    <3>p. p = g[n - 1] \o seqs[n]
      OBVIOUS
    <3> HIDE DEF p
    <3> DEFINE h == [i \in 1..n |-> IF i = n THEN p ELSE g[i]]
    <3>h. h[n] = p /\ h[n - 1] = g[n - 1]
      BY <3>3, <3>4
    <3>7. \A i \in 1..n : h[i] = IF i = 1 THEN seqs[i] ELSE h[i - 1] \o seqs[i]
      <4>1. \A i \in 1..(n - 1) : h[i] = IF i = 1 THEN seqs[i] ELSE h[i - 1] \o seqs[i]
        <5> SUFFICES ASSUME NEW i \in 1..(n - 1) PROVE h[i] = IF i = 1 THEN seqs[i] ELSE h[i - 1] \o seqs[i]
          OBVIOUS
        <5>1. i # n /\ i \in 1..n /\ (i # 1 => i - 1 \in 1..n /\ i - 1 # n)
          BY <3>3
        <5>2. g[i] = IF i = 1 THEN seqs[i] ELSE g[i - 1] \o seqs[i]
          BY <3>6 DEF Sat
        <5> QED BY <5>1, <5>2
      <4>2. h[n] = g[n - 1] \o seqs[n] /\ h[n - 1] = g[n - 1]
        BY <3>h, <3>p
      <4>3. \A i \in 1..n : i \in 1..(n - 1) \/ i = n
        BY <3>3
      <4> HIDE DEF h
      <4> QED BY <4>1, <4>2, <4>3, <3>4
    <3>8. h[n] \in Seq(S)
      <4>1. seqs[n] \in Seq(S) /\ g[n - 1] \in Seq(S)
        BY <3>6, <2>0, <3>3
      <4>2. p \in Seq(S)
        BY <4>1, <3>p
      <4> QED BY <4>2, <3>h
    <3>9. Sat(h, n)
      BY <3>7 DEF Sat
    <3> HIDE DEF h
    <3> QED BY <3>8, <3>9
  <2>2. PICK g : Sat(g, N) /\ g[N] \in Seq(S)
    <3>1. N \in 1..N
      BY <1>2, <2>0
    <3> QED BY <3>1, <2>1
  <2> DEFINE F == CHOOSE f : Sat(f, N)
  <2>3. FlattenSeq(seqs) = F[N]
    BY <1>2 DEF FlattenSeq
  <2>4. Sat(F, N)
    BY <2>2
  <2> HIDE DEF F
  <2> DEFINE U == {n \in 1..N : F[n] \notin Seq(S)}
  <2>5. U = {}
    <3> HIDE DEF N
    <3> SUFFICES ASSUME U # {} PROVE FALSE
      OBVIOUS
    <3>1. U \in SUBSET Nat
      BY <2>0
    <3>2. PICK n \in U : \A m \in U : n <= m
      BY <3>1, Least
    <3>3. n \in 1..N /\ n \in Nat /\ n >= 1
      BY <2>0
    <3>4. F[n] = IF n = 1 THEN seqs[n] ELSE F[n - 1] \o seqs[n]
      BY <2>4, <3>3
    <3>5. n # 1
      BY <3>4, <3>3, <2>0
    <3>6. F[n - 1] \in Seq(S)
      BY <3>2, <3>3, <3>5, <2>0
    <3>7. F[n - 1] \o seqs[n] \in Seq(S)
      BY <3>6, <2>0, <3>3
    <3> QED BY <3>4, <3>5, <3>7
  <2> DEFINE G == [i \in 0..N |-> IF i = 0 THEN <<>> ELSE F[i]]
  <2>6. N \in 1..N
    BY <1>2, <2>0
  <2>7. G \in [0..N -> Seq(S)]
    BY <2>0, <2>5
  <2>8. G[0] = <<>> /\ G[N] = F[N]
    BY <2>0, <2>6
  <2>9. ASSUME NEW i \in 1..N PROVE G[i] = G[i - 1] \o seqs[i]
    <3>1. F[i] = IF i = 1 THEN seqs[i] ELSE F[i - 1] \o seqs[i]
      BY <2>4
    <3>2. G[i] = F[i] /\ G[i - 1] = IF i = 1 THEN <<>> ELSE F[i - 1]
      BY <2>0
    <3>3. <<>> \o seqs[i] = seqs[i]
      BY <2>0
    <3> QED BY <3>1, <3>2, <3>3
  <2> HIDE DEF G
  <2> QED BY <2>3, <2>7, <2>8, <2>9
<1> QED BY <1>1, <1>2

\* Concatenating lists with elements of S gives a list with elements of S.
LEMMA Flat ==
  ASSUME NEW S, NEW seqs \in Seq(Seq(S))
  PROVE  FlattenSeq(seqs) \in Seq(S)
<1>1. PICK g \in [0..Len(seqs) -> Seq(S)] : FlattenSeq(seqs) = g[Len(seqs)]
  BY FlatSteps
<1>2. Len(seqs) \in 0..Len(seqs)
  OBVIOUS
<1> QED BY <1>1, <1>2

\* A list, part by part none or one of the elements of another: a filtered list.
LEMMA Filtered ==
  ASSUME NEW s, s \in Seq(Range(s)), NEW parts, parts \in [DOMAIN s -> {<<>>} \cup {<<x>> : x \in Range(s)}]
  PROVE  FlattenSeq(parts) \in Seq(Range(s))
<1>1. DOMAIN s = 1..Len(s) /\ Len(s) \in Nat
  OBVIOUS
<1>2. {<<>>} \cup {<<x>> : x \in Range(s)} \subseteq Seq(Range(s))
  <2>1. \A x \in Range(s) : <<x>> \in Seq(Range(s))
    OBVIOUS
  <2>2. <<>> \in Seq(Range(s))
    OBVIOUS
  <2> QED BY <2>1, <2>2
<1>3. parts \in Seq(Seq(Range(s)))
  BY <1>1, <1>2
<1> QED BY <1>3, Flat

\* The elements of a list that is known to have elements of S only.
LEMMA ListOf ==
  ASSUME NEW S, NEW s \in Seq(S)
  PROVE  s \in Seq(Range(s)) /\ Range(s) \subseteq S
<1>1. DOMAIN s = 1..Len(s) /\ Len(s) \in Nat /\ \A i \in 1..Len(s) : s[i] \in S
  OBVIOUS
<1>2. Range(s) \subseteq S
  BY <1>1 DEF Range
<1>3. \A i \in 1..Len(s) : s[i] \in Range(s)
  BY <1>1 DEF Range
<1>4. s = [i \in 1..Len(s) |-> s[i]]
  BY <1>1
<1>5. s \in [1..Len(s) -> Range(s)]
  BY <1>3, <1>4
<1>6. s \in Seq(Range(s))
  BY <1>1, <1>5
<1> QED BY <1>2, <1>6

LEMMA ListFacts ==
  ASSUME NEW s, IsList(s)
  PROVE  /\ Len(s) \in Nat /\ DOMAIN s = 1..Len(s)
         /\ \A i \in DOMAIN s : s[i] \in Range(s)
         /\ s = [i \in 1..Len(s) |-> s[i]]
<1>1. Len(s) \in Nat /\ DOMAIN s = 1..Len(s) /\ s \in [1..Len(s) -> Range(s)]
  BY DEF IsList
<1> QED BY <1>1 DEF Range

LEMMA FunctionIsList ==
  ASSUME NEW n \in Nat, NEW s, s = [i \in 1..n |-> s[i]]
  PROVE  IsList(s) /\ Len(s) = n /\ DOMAIN s = 1..n
<1>1. DOMAIN s = 1..n
  OBVIOUS
<1>2. s \in [1..n -> Range(s)]
  BY <1>1 DEF Range
<1>3. s \in Seq(Range(s))
  BY <1>2
<1> QED BY <1>1, <1>3 DEF IsList

LEMMA Empty == IsList(<<>>) /\ Range(<<>>) = {} /\ Len(<<>>) = 0
<1>1. DOMAIN <<>> = {} /\ Len(<<>>) = 0
  OBVIOUS
<1> QED BY <1>1 DEF IsList, Range

LEMMA Single == ASSUME NEW x PROVE IsList(<<x>>) /\ Range(<<x>>) = {x} /\ Len(<<x>>) = 1
<1>1. DOMAIN <<x>> = {1} /\ <<x>>[1] = x /\ Len(<<x>>) = 1
  OBVIOUS
<1>2. Range(<<x>>) = {x}
  BY <1>1 DEF Range
<1> QED BY <1>1, <1>2 DEF IsList

LEMMA Concat ==
  ASSUME NEW s, NEW t, IsList(s), IsList(t)
  PROVE  /\ IsList(s \o t) /\ Len(s \o t) = Len(s) + Len(t)
         /\ Range(s \o t) = Range(s) \cup Range(t)
         /\ \A i \in 1..Len(s) : (s \o t)[i] = s[i]
         /\ \A i \in 1..Len(t) : (s \o t)[Len(s) + i] = t[i]
<1> DEFINE V == Range(s) \cup Range(t)
           c == s \o t
<1>0. s \in Seq(V) /\ t \in Seq(V)
  BY DEF IsList
<1>1. /\ DOMAIN s = 1..Len(s) /\ DOMAIN t = 1..Len(t) /\ Len(s) \in Nat /\ Len(t) \in Nat
  BY <1>0
<1>2. c \in Seq(V) /\ Len(c) = Len(s) + Len(t)
  BY <1>0
<1>3. \A i \in 1..Len(s) : c[i] = s[i]
  BY <1>0
<1>4. \A i \in 1..Len(t) : c[Len(s) + i] = t[i]
  BY <1>0
<1>6. ASSUME NEW i \in 1..(Len(s) + Len(t))
      PROVE  i \in 1..Len(s) \/ \E j \in 1..Len(t) : i = Len(s) + j
  <2>1. CASE i > Len(s)
    <3>1. i - Len(s) \in 1..Len(t) /\ i = Len(s) + (i - Len(s))
      BY <1>1, <2>1
    <3> QED BY <3>1
  <2> QED BY <2>1, <1>1
<1>7. \A j \in 1..Len(t) : Len(s) + j \in 1..(Len(s) + Len(t))
  BY <1>1
<1>8. \A i \in 1..Len(s) : i \in 1..(Len(s) + Len(t))
  BY <1>1
<1> HIDE DEF c, V
<1>5. DOMAIN c = 1..(Len(s) + Len(t))
  BY <1>2
<1>9. Range(c) = Range(s) \cup Range(t)
  <2>1. ASSUME NEW x \in Range(c) PROVE x \in Range(s) \cup Range(t)
    <3>1. PICK i \in 1..(Len(s) + Len(t)) : x = c[i]
      BY <1>5, <2>1 DEF Range
    <3>2. CASE i \in 1..Len(s)
      BY <3>1, <3>2, <1>3, <1>1 DEF Range
    <3>3. ASSUME NEW j \in 1..Len(t), i = Len(s) + j PROVE x \in Range(t)
      BY <3>1, <3>3, <1>4, <1>1 DEF Range
    <3> QED BY <3>2, <3>3, <1>6
  <2>2. ASSUME NEW x \in Range(s) PROVE x \in Range(c)
    BY <2>2, <1>1, <1>3, <1>5, <1>8 DEF Range
  <2>3. ASSUME NEW x \in Range(t) PROVE x \in Range(c)
    <3>1. PICK j \in 1..Len(t) : x = t[j]
      BY <1>1, <2>3 DEF Range
    <3> QED BY <3>1, <1>4, <1>5, <1>7 DEF Range
  <2> QED BY <2>1, <2>2, <2>3
<1>10. IsList(c)
  BY <1>2, <1>9 DEF V, IsList
<1> QED BY <1>2, <1>3, <1>4, <1>9, <1>10 DEF c

\* A list of lists, concatenated: part i follows at off[i - 1], and nothing else is there.
Offsets(off, seqs, all) ==
    /\ off \in [0..Len(seqs) -> Nat]
    /\ off[0] = 0 /\ off[Len(seqs)] = Len(all)
    /\ \A i \in 1..Len(seqs) :
          /\ off[i] = off[i - 1] + Len(seqs[i])
          /\ \A k \in 1..Len(seqs[i]) :
                off[i - 1] + k \in DOMAIN all /\ all[off[i - 1] + k] = seqs[i][k]
    /\ \A m \in DOMAIN all : \E i \in 1..Len(seqs) : \E k \in 1..Len(seqs[i]) : m = off[i - 1] + k

LEMMA FlatOffsets ==
  ASSUME NEW seqs, IsList(seqs), \A i \in DOMAIN seqs : IsList(seqs[i])
  PROVE  IsList(FlattenSeq(seqs)) /\ \E off : Offsets(off, seqs, FlattenSeq(seqs))
<1> DEFINE S == UNION {Range(seqs[i]) : i \in DOMAIN seqs}
           N == Len(seqs)
<1>1. N \in Nat /\ DOMAIN seqs = 1..N /\ seqs = [i \in 1..N |-> seqs[i]]
  BY ListFacts
<1>2. \A i \in 1..N : seqs[i] \in Seq(S)
  <2> SUFFICES ASSUME NEW i \in 1..N PROVE seqs[i] \in Seq(S)
    OBVIOUS
  <2>1. seqs[i] \in Seq(Range(seqs[i])) /\ Range(seqs[i]) \subseteq S
    BY <1>1 DEF IsList
  <2> HIDE DEF S
  <2> QED BY <2>1
<1> HIDE DEF S, N
<1>3. seqs \in Seq(Seq(S))
  <2>1. seqs \in [1..N -> Seq(S)]
    BY <1>1, <1>2
  <2> QED BY <1>1, <2>1
<1>4. PICK g \in [0..N -> Seq(S)] :
         /\ g[0] = <<>>
         /\ \A i \in 1..N : g[i] = g[i - 1] \o seqs[i]
         /\ FlattenSeq(seqs) = g[N]
  BY <1>3, FlatSteps DEF N
<1> DEFINE off == [i \in 0..N |-> Len(g[i])]
<1>5. \A i \in 0..N : g[i] \in Seq(S) /\ Len(g[i]) \in Nat
  BY <1>4
<1>6. off \in [0..N -> Nat] /\ \A i \in 0..N : off[i] = Len(g[i])
  BY <1>5
<1> HIDE DEF off
<1>7. ASSUME NEW i \in 0..N
      PROVE  IsList(g[i]) /\ DOMAIN g[i] = 1..off[i]
  BY <1>5, <1>6, ListOf DEF IsList
<1>8. ASSUME NEW i \in 1..N
      PROVE  /\ i - 1 \in 0..N /\ i \in 0..N
             /\ Len(seqs[i]) \in Nat
             /\ off[i] = off[i - 1] + Len(seqs[i])
             /\ \A m \in 1..off[i - 1] : g[i][m] = g[i - 1][m]
             /\ \A k \in 1..Len(seqs[i]) : g[i][off[i - 1] + k] = seqs[i][k]
  <2>1. i - 1 \in 0..N /\ i \in 0..N
    BY <1>1
  <2>2. IsList(g[i - 1]) /\ IsList(seqs[i]) /\ g[i] = g[i - 1] \o seqs[i]
    BY <2>1, <1>7, <1>4, <1>1
  <2>3. off[i] = Len(g[i]) /\ off[i - 1] = Len(g[i - 1])
    BY <2>1, <1>6
  <2>4. Len(seqs[i]) \in Nat
    BY <2>2, ListFacts
  <2> DEFINE c == g[i - 1] \o seqs[i]
             a == g[i - 1]
             b == seqs[i]
  <2>a. IsList(a) /\ IsList(b) /\ c = a \o b
    BY <2>2
  <2> HIDE DEF a, b, c
  <2>b. /\ Len(c) = Len(a) + Len(b)
        /\ \A m \in 1..Len(a) : c[m] = a[m]
        /\ \A k \in 1..Len(b) : c[Len(a) + k] = b[k]
    BY <2>a, Concat
  <2>5. /\ Len(c) = Len(g[i - 1]) + Len(seqs[i])
        /\ \A m \in 1..Len(g[i - 1]) : c[m] = g[i - 1][m]
        /\ \A k \in 1..Len(seqs[i]) : c[Len(g[i - 1]) + k] = seqs[i][k]
    BY <2>b DEF a, b
  <2>6. g[i] = c
    BY <2>2 DEF c
  <2> HIDE DEF c
  <2> QED BY <2>1, <2>3, <2>4, <2>5, <2>6
\* Later concatenations leave the earlier elements alone.
<1>9. ASSUME NEW i \in 0..N, NEW j \in i..N
      PROVE  off[i] <= off[j] /\ \A m \in 1..off[i] : g[j][m] = g[i][m]
  <2> DEFINE T == {n \in i..N : ~(off[i] <= off[n] /\ \A m \in 1..off[i] : g[n][m] = g[i][m])}
  <2> SUFFICES ASSUME T # {} PROVE FALSE
    OBVIOUS
  <2>1. T \in SUBSET Nat
    BY <1>1
  <2>2. PICK n \in T : \A k \in T : n <= k
    BY <2>1, Least
  <2>3. n # i
    BY <1>6, <2>2
  <2>4. n \in 1..N /\ n - 1 \in i..N /\ n - 1 \notin T
    BY <2>2, <2>3, <1>1, SMTT(30)
  <2>5. off[i] <= off[n - 1] /\ \A m \in 1..off[i] : g[n - 1][m] = g[i][m]
    BY <2>4
  <2>6. /\ off[n] = off[n - 1] + Len(seqs[n]) /\ Len(seqs[n]) \in Nat
        /\ \A m \in 1..off[n - 1] : g[n][m] = g[n - 1][m]
    BY <2>4, <1>8
  <2>7. off[i] \in Nat /\ off[n - 1] \in Nat
    BY <2>4, <1>6, <1>1
  <2>8. off[i] <= off[n]
    BY <2>5, <2>6, <2>7
  <2>9. \A m \in 1..off[i] : g[n][m] = g[i][m]
    BY <2>5, <2>6, <2>7
  <2> QED BY <2>2, <2>8, <2>9
<1>10. N \in 0..N /\ 0 \in 0..N
  BY <1>1
<1>11. IsList(g[N]) /\ DOMAIN g[N] = 1..off[N] /\ off[N] = Len(g[N])
  BY <1>7, <1>10, <1>6
<1>12. ASSUME NEW i \in 1..N, NEW k \in 1..Len(seqs[i])
       PROVE  off[i - 1] + k \in DOMAIN g[N] /\ g[N][off[i - 1] + k] = seqs[i][k]
  <2>1. N \in i..N /\ i \in 0..N /\ off[i] \in Nat /\ off[i - 1] \in Nat /\ off[N] \in Nat
    BY <1>1, <1>6, <1>8
  <2>2. off[i] <= off[N] /\ \A m \in 1..off[i] : g[N][m] = g[i][m]
    BY <2>1, <1>9
  <2>3. off[i] = off[i - 1] + Len(seqs[i]) /\ Len(seqs[i]) \in Nat /\ g[i][off[i - 1] + k] = seqs[i][k]
    BY <1>8
  <2>4. off[i - 1] + k \in 1..off[i] /\ off[i - 1] + k \in 1..off[N]
    <3> DEFINE x == off[i - 1]
               y == off[i]
               z == off[N]
               n == Len(seqs[i])
    <3>1. x \in Nat /\ y \in Nat /\ z \in Nat /\ n \in Nat /\ y = x + n /\ y <= z /\ k \in 1..n
      BY <2>1, <2>2, <2>3
    <3> HIDE DEF x, y, z, n
    <3>2. x + k \in 1..y /\ x + k \in 1..z
      BY <3>1
    <3> QED BY <3>2 DEF x, y, z
  <2> QED BY <2>2, <2>3, <2>4, <1>11
<1>13. ASSUME NEW m \in 1..off[N]
       PROVE  \E i \in 1..N : \E k \in 1..Len(seqs[i]) : m = off[i - 1] + k
  <2> DEFINE T == {n \in 0..N : m <= off[n]}
  <2>1. T \in SUBSET Nat /\ N \in T
    BY <1>1, <1>6
  <2>2. PICK n \in T : \A k \in T : n <= k
    BY <2>1, Least
  <2>3. off[0] = 0
    BY <1>4, <1>6, <1>10
  <2>4. n # 0 /\ n \in 1..N
    BY <2>2, <2>3, <1>1
  <2>5. n - 1 \in 0..N /\ n - 1 \notin T
    BY <2>2, <2>4, <1>1, SMTT(30)
  <2>6. m <= off[n] /\ ~(m <= off[n - 1])
    BY <2>2, <2>5
  <2>7. off[n] = off[n - 1] + Len(seqs[n]) /\ Len(seqs[n]) \in Nat /\ off[n - 1] \in Nat /\ m \in Nat
    BY <2>4, <2>5, <1>8, <1>6, <1>10
  <2>8. m - off[n - 1] \in 1..Len(seqs[n]) /\ m = off[n - 1] + (m - off[n - 1])
    BY <2>6, <2>7
  <2> QED BY <2>4, <2>8
<1>14. off[0] = 0
  BY <1>4, <1>6, <1>10
<1>15. \A i \in 1..N : off[i] = off[i - 1] + Len(seqs[i])
  BY <1>8
<1> DEFINE all == g[N]
<1>16. /\ off[0] = 0 /\ off[N] = Len(all) /\ IsList(all)
       /\ \A i \in 1..N : /\ off[i] = off[i - 1] + Len(seqs[i])
                          /\ \A k \in 1..Len(seqs[i]) : /\ off[i - 1] + k \in DOMAIN all
                                                         /\ all[off[i - 1] + k] = seqs[i][k]
       /\ \A m \in DOMAIN all : \E i \in 1..N : \E k \in 1..Len(seqs[i]) : m = off[i - 1] + k
  BY <1>11, <1>12, <1>13, <1>14, <1>15
<1>17. all = FlattenSeq(seqs)
  BY <1>4
<1> HIDE DEF all
<1>18. Offsets(off, seqs, all)
  BY <1>16, <1>6 DEF N, Offsets
<1> QED BY <1>16, <1>17, <1>18

LEMMA FlatRange ==
  ASSUME NEW seqs, IsList(seqs), \A i \in DOMAIN seqs : IsList(seqs[i])
  PROVE  /\ IsList(FlattenSeq(seqs))
         /\ Range(FlattenSeq(seqs)) = UNION {Range(seqs[i]) : i \in DOMAIN seqs}
<1> DEFINE all == FlattenSeq(seqs)
<1>0. IsList(all)
  BY FlatOffsets
<1>a. PICK off : Offsets(off, seqs, all)
  BY FlatOffsets
<1>1. /\ IsList(all)
      /\ \A i \in 1..Len(seqs) : \A k \in 1..Len(seqs[i]) :
              off[i - 1] + k \in DOMAIN all /\ all[off[i - 1] + k] = seqs[i][k]
      /\ \A m \in DOMAIN all :
            \E i \in 1..Len(seqs) : \E k \in 1..Len(seqs[i]) : m = off[i - 1] + k
  BY <1>0, <1>a DEF Offsets
<1>2. DOMAIN seqs = 1..Len(seqs) /\ \A i \in 1..Len(seqs) : DOMAIN seqs[i] = 1..Len(seqs[i])
  BY ListFacts
<1> HIDE DEF all
<1>3. ASSUME NEW x \in Range(all) PROVE \E i \in DOMAIN seqs : x \in Range(seqs[i])
  <2>1. PICK m \in DOMAIN all : x = all[m]
    BY <1>3 DEF Range
  <2>2. PICK i \in 1..Len(seqs) : \E k \in 1..Len(seqs[i]) : m = off[i - 1] + k
    BY <1>1
  <2>3. PICK k \in 1..Len(seqs[i]) : m = off[i - 1] + k
    BY <2>2
  <2>4. x = seqs[i][k]
    BY <2>1, <2>3, <1>1
  <2> QED BY <2>4, <1>2 DEF Range
<1>4. ASSUME NEW i \in DOMAIN seqs, NEW x \in Range(seqs[i]) PROVE x \in Range(all)
  <2>1. PICK k \in 1..Len(seqs[i]) : x = seqs[i][k]
    BY <1>2, <1>4 DEF Range
  <2> QED BY <2>1, <1>1, <1>2 DEF Range
<1>5. Range(all) = UNION {Range(seqs[i]) : i \in DOMAIN seqs}
  BY <1>3, <1>4
<1> QED BY <1>1, <1>5 DEF all

\* A filtered list holds the elements of the list that pass.
LEMMA Kept ==
  ASSUME NEW s, IsList(s), NEW Q
  PROVE  LET kept == FlattenSeq([i \in DOMAIN s |-> IF s[i] \in Q THEN <<s[i]>> ELSE <<>>])
         IN  IsList(kept) /\ Range(kept) = Range(s) \cap Q
<1> DEFINE parts == [i \in DOMAIN s |-> IF s[i] \in Q THEN <<s[i]>> ELSE <<>>]
<1>1. DOMAIN s = 1..Len(s) /\ Len(s) \in Nat
  BY ListFacts
<1>2. parts = [i \in 1..Len(s) |-> parts[i]] /\ DOMAIN parts = DOMAIN s
  BY <1>1
<1>3. \A i \in DOMAIN s : IsList(parts[i]) /\ Range(parts[i]) = {s[i]} \cap Q
  BY Empty, Single
<1> HIDE DEF parts
<1>4. IsList(parts)
  BY <1>1, <1>2, FunctionIsList
<1>5. /\ IsList(FlattenSeq(parts))
      /\ Range(FlattenSeq(parts)) = UNION {Range(parts[i]) : i \in DOMAIN parts}
  BY <1>2, <1>3, <1>4, FlatRange
<1>6. UNION {Range(parts[i]) : i \in DOMAIN parts} = UNION {{s[i]} \cap Q : i \in DOMAIN s}
  BY <1>2, <1>3
<1>7. UNION {{s[i]} \cap Q : i \in DOMAIN s} = Range(s) \cap Q
  BY DEF Range
<1> QED BY <1>5, <1>6, <1>7 DEF parts

IsRun(r, n, S, s0, G) ==
  r \in [0..n -> S] /\ r[0] = s0 /\ \A i \in 1..n : r[i] = G[<<i, r[i - 1]>>]

\* A function defined by recursion on numbers exists, whatever the step.
LEMMA Recursion ==
  ASSUME NEW n \in Nat, NEW S, NEW s0 \in S, NEW G \in [(1..n) \X S -> S]
  PROVE  \E r : IsRun(r, n, S, s0, G)
<1> DEFINE Sat(r, m) == /\ r \in [0..m -> S] /\ r[0] = s0
                        /\ \A i \in 1..m : r[i] = G[<<i, r[i - 1]>>]
           T == {m \in 0..n : ~ \E r : Sat(r, m)}
<1> SUFFICES T = {}
  <2>1. n \in 0..n
    OBVIOUS
  <2> QED BY <2>1 DEF IsRun
<1> SUFFICES ASSUME T # {} PROVE FALSE
  OBVIOUS
<1> HIDE DEF Sat
<1>1. PICK m \in T : \A k \in T : m <= k
  <2>1. T \in SUBSET Nat
    OBVIOUS
  <2> QED BY <2>1, Least
<1>2. m # 0
  <2> DEFINE r == [i \in 0..0 |-> s0]
  <2>1. r \in [0..0 -> S] /\ r[0] = s0
    OBVIOUS
  <2> HIDE DEF r
  <2>2. Sat(r, 0)
    BY <2>1 DEF Sat
  <2> QED BY <2>2
<1>3. m \in 1..n /\ m - 1 \in 0..n /\ m - 1 \notin T
  BY <1>1, <1>2, SMTT(30)
<1>4. PICK r : Sat(r, m - 1)
  BY <1>3
<1>5. r \in [0..(m - 1) -> S] /\ r[0] = s0 /\ \A i \in 1..(m - 1) : r[i] = G[<<i, r[i - 1]>>]
  BY <1>4 DEF Sat
<1> DEFINE new == G[<<m, r[m - 1]>>]
           q == [i \in 0..m |-> IF i = m THEN new ELSE r[i]]
<1>6. new \in S
  BY <1>3, <1>5
<1>7. new = G[<<m, r[m - 1]>>]
  OBVIOUS
<1> HIDE DEF new
<1>8. q \in [0..m -> S] /\ q[0] = s0
  BY <1>2, <1>3, <1>5, <1>6
<1>9. \A i \in 1..m : q[i] = G[<<i, q[i - 1]>>]
  <2> SUFFICES ASSUME NEW i \in 1..m PROVE q[i] = G[<<i, q[i - 1]>>]
    OBVIOUS
  <2>1. q[i - 1] = r[i - 1]
    BY <1>3
  <2>2. CASE i = m
    <3>1. q[i] = new
      BY <2>2, <1>3
    <3> QED BY <2>1, <2>2, <3>1, <1>7
  <2>3. CASE i # m
    <3>1. i \in 1..(m - 1) /\ q[i] = r[i]
      BY <2>3, <1>3
    <3> QED BY <2>1, <3>1, <1>5
  <2> QED BY <2>2, <2>3
<1> HIDE DEF q
<1>10. Sat(q, m)
  BY <1>8, <1>9 DEF Sat
<1> QED BY <1>1, <1>10


\* Each element of B in a list has one of A before it.
Before(s, A, B) == \A i \in DOMAIN s : s[i] \in B => \E j \in DOMAIN s : j < i /\ s[j] \in A

LEMMA BeforeFlat ==
  ASSUME NEW seqs, IsList(seqs), NEW A, NEW B, \A i \in DOMAIN seqs : IsList(seqs[i]) /\ Before(seqs[i], A, B)
  PROVE  Before(FlattenSeq(seqs), A, B)
<1> DEFINE all == FlattenSeq(seqs)
<1>1. PICK off : Offsets(off, seqs, all)
  BY FlatOffsets
<1> HIDE DEF all
<1>2. DOMAIN seqs = 1..Len(seqs) /\ Len(seqs) \in Nat
  BY ListFacts
<1> SUFFICES ASSUME NEW m \in DOMAIN all, all[m] \in B PROVE \E j \in DOMAIN all : j < m /\ all[j] \in A
  BY DEF Before, all
<1>3. PICK i \in 1..Len(seqs) : \E k \in 1..Len(seqs[i]) : m = off[i - 1] + k
  BY <1>1 DEF Offsets
<1>4. PICK k \in 1..Len(seqs[i]) : m = off[i - 1] + k
  BY <1>3
<1>5. off[i - 1] \in Nat
  <2>1. i - 1 \in 0..Len(seqs)
    BY <1>2
  <2> QED BY <1>1, <2>1 DEF Offsets
<1>6. IsList(seqs[i]) /\ Before(seqs[i], A, B) /\ DOMAIN seqs[i] = 1..Len(seqs[i]) /\ Len(seqs[i]) \in Nat
  BY <1>2, ListFacts
<1>7. \A q \in 1..Len(seqs[i]) : off[i - 1] + q \in DOMAIN all /\ all[off[i - 1] + q] = seqs[i][q]
  BY <1>1 DEF Offsets
<1>8. seqs[i][k] \in B
  BY <1>4, <1>7
<1>9. PICK q \in 1..Len(seqs[i]) : q < k /\ seqs[i][q] \in A
  BY <1>6, <1>8 DEF Before
<1>10. off[i - 1] + q < m
  BY <1>4, <1>5, <1>6, <1>9
<1> QED BY <1>7, <1>9, <1>10

LEMMA BeforeKept ==
  ASSUME NEW s, IsList(s), NEW Q, NEW A, A \subseteq Q, NEW B, Before(s, A, B)
  PROVE  Before(FlattenSeq([i \in DOMAIN s |-> IF s[i] \in Q THEN <<s[i]>> ELSE <<>>]), A, B)
<1> DEFINE parts == [i \in DOMAIN s |-> IF s[i] \in Q THEN <<s[i]>> ELSE <<>>]
           all == FlattenSeq(parts)
<1>1. DOMAIN s = 1..Len(s) /\ Len(s) \in Nat
  BY ListFacts
<1>2. \A i \in DOMAIN s : /\ IsList(parts[i])
                          /\ s[i] \in Q => Len(parts[i]) = 1 /\ parts[i][1] = s[i]
                          /\ s[i] \notin Q => Len(parts[i]) = 0
  BY Single, Empty
<1>3. parts = [i \in 1..Len(s) |-> parts[i]]
  BY <1>1
<1> HIDE DEF parts
<1>4. IsList(parts) /\ Len(parts) = Len(s) /\ DOMAIN parts = 1..Len(s)
  BY <1>1, <1>3, FunctionIsList
<1>5. PICK off : Offsets(off, parts, all)
  BY <1>1, <1>2, <1>4, FlatOffsets
<1> HIDE DEF all
<1> SUFFICES ASSUME NEW m \in DOMAIN all, all[m] \in B PROVE \E j \in DOMAIN all : j < m /\ all[j] \in A
  BY DEF Before, all, parts
<1>6. PICK i \in 1..Len(s) : \E k \in 1..Len(parts[i]) : m = off[i - 1] + k
  BY <1>4, <1>5 DEF Offsets
<1>a. \A n \in 1..Len(s) : \A k \in 1..Len(parts[n]) :
         off[n - 1] + k \in DOMAIN all /\ all[off[n - 1] + k] = parts[n][k]
  BY <1>4, <1>5 DEF Offsets
<1>b. PICK k \in 1..Len(parts[i]) : m = off[i - 1] + k
  BY <1>6
<1>c. s[i] \in Q
  <2>1. s[i] \notin Q => Len(parts[i]) = 0
    BY <1>1, <1>2
  <2> QED BY <2>1
<1>d. Len(parts[i]) = 1 /\ parts[i][1] = s[i]
  BY <1>1, <1>2, <1>c
<1>7. m = off[i - 1] + 1 /\ 1 \in 1..Len(parts[i])
  <2>1. k = 1
    BY <1>d
  <2> QED BY <2>1, <1>b
<1>8. all[m] = s[i]
  BY <1>a, <1>d, <1>7
<1>9. PICK j \in 1..Len(s) : j < i /\ s[j] \in A
  BY <1>1, <1>8 DEF Before
<1>10. Len(parts[j]) = 1 /\ parts[j][1] = s[j]
  BY <1>1, <1>2, <1>9
<1> DEFINE q == off[j - 1] + 1
<1>11. q \in DOMAIN all /\ all[q] = s[j] /\ off[j] = off[j - 1] + 1
  <2>1. 1 \in 1..Len(parts[j])
    BY <1>10
  <2>2. off[j] = off[j - 1] + Len(parts[j])
    BY <1>4, <1>5 DEF Offsets
  <2> QED BY <1>a, <1>10, <2>1, <2>2
<1>12. off \in [0..Len(s) -> Nat] /\ \A n \in 1..Len(s) : off[n] = off[n - 1] + Len(parts[n]) /\ Len(parts[n]) \in Nat
  <2>1. \A n \in 1..Len(s) : Len(parts[n]) \in Nat
    BY <1>1, <1>2, ListFacts
  <2> QED BY <2>1, <1>4, <1>5 DEF Offsets
<1>13. \A n \in j..Len(s) : off[j] <= off[n]
  <2> DEFINE T == {n \in j..Len(s) : ~(off[j] <= off[n])}
  <2> SUFFICES ASSUME T # {} PROVE FALSE
    OBVIOUS
  <2>1. T \in SUBSET Nat
    BY <1>1
  <2>2. PICK n \in T : \A x \in T : n <= x
    BY <2>1, Least
  <2>3. off[j] \in Nat /\ n # j
    <3>1. j \in 0..Len(s)
      BY <1>1
    <3>2. off[j] \in Nat
      BY <1>12, <3>1
    <3>3. off[j] <= off[j]
      BY <3>2
    <3> QED BY <2>2, <3>2, <3>3
  <2>4. n \in 1..Len(s) /\ n - 1 \in j..Len(s) /\ n - 1 \notin T
    BY <1>1, <2>2, <2>3
  <2>5. off[n - 1] \in Nat /\ off[n] = off[n - 1] + Len(parts[n]) /\ Len(parts[n]) \in Nat /\ off[j] <= off[n - 1]
    <3>1. n - 1 \in 0..Len(s)
      BY <1>1, <2>4
    <3> QED BY <1>12, <2>4, <3>1
  <2> HIDE DEF T
  <2>6. off[j] <= off[n]
    BY <2>3, <2>5
  <2> QED BY <2>2, <2>6 DEF T
<1>14. i - 1 \in j..Len(s) /\ i - 1 \in 0..Len(s) /\ j - 1 \in 0..Len(s)
  BY <1>1, <1>9
<1>15. off[j] <= off[i - 1] /\ off[i - 1] \in Nat /\ off[j - 1] \in Nat
  BY <1>12, <1>13, <1>14
<1>16. q < m
  BY <1>7, <1>11, <1>15
<1> QED BY <1>9, <1>11, <1>16
============================================================================
