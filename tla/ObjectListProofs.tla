-------------------------- MODULE ObjectListProofs --------------------------
(***************************************************************************)
(* The lists of the user interface, for any objects, shapes, tabs, targets,*)
(* layouts and heights of the terminal.                                    *)
(*                                                                         *)
(* ListInv is inductive: the view is typed, lists no object twice and has  *)
(* the node of every object it lists, and a list has an open dropdown only *)
(* for an object that offers targets.  From it follow the five properties: *)
(* the slice of visible_objects is in bounds, the selection follows its    *)
(* object through every frame and stays on the screen, the keys down and up*)
(* are reverses, and every channel of a node is on one row and on one bar. *)
(*                                                                         *)
(* The recursive functions of the model (group_channels, page_down, the    *)
(* rows used) are reasoned about with NatSet, induction stated by sets, and*)
(* Iterates, by which their values exist.                                  *)
(***************************************************************************)
EXTENDS ObjectList, FiniteSetTheorems, WellFoundedInduction, TLAPS

-----------------------------------------------------------------------------
(* Induction on the naturals, by sets, and functions defined by recursion. *)

LEMMA LeastNumber ==
    ASSUME NEW T, T \subseteq Nat, T # {}
    PROVE  Least(T) \in T /\ \A y \in T : Least(T) <= y
<1> DEFINE R == OpToRel(<, Nat)
<1>1. IsWellFoundedOn(R, Nat)
  BY NatLessThanWellFounded
<1> HIDE DEF R
<1>2. PICK x \in T : \A y \in T : ~(<<y, x>> \in R)
  BY <1>1, WFMin
<1>3. \A y \in T : ~(y < x)
  BY <1>2 DEF R, OpToRel
<1>4. \A y \in T : x <= y
  BY <1>3
<1> QED
  BY <1>4 DEF Least

LEMMA NatSet ==
    ASSUME NEW S, 0 \in S, \A n \in Nat : n \in S => n + 1 \in S
    PROVE  Nat \subseteq S
<1> SUFFICES ASSUME Nat \ S # {} PROVE FALSE
  OBVIOUS
<1> DEFINE x == Least(Nat \ S)
<1>1. x \in Nat \ S /\ \A y \in Nat \ S : x <= y
  BY LeastNumber
<1> HIDE DEF x
<1>2. x - 1 \in Nat /\ x - 1 \in S
  BY <1>1
<1>3. (x - 1) + 1 \in S
  BY <1>2
<1> QED
  BY <1>1, <1>2, <1>3

(* Iterating a step from a start: the values exist, whatever the step.     *)
Steps(T) == [Nat -> [T -> T]]

Iterated(T, a, step, n) ==
    {f \in [0 .. n -> T] : f[0] = a /\ \A i \in 1 .. n : f[i] = step[i][f[i - 1]]}

LEMMA Iterates ==
    ASSUME NEW T, NEW a \in T, NEW step \in Steps(T), NEW n \in Nat
    PROVE  Iterated(T, a, step, n) # {}
<1>0. step \in [Nat -> [T -> T]]
  BY DEF Steps
<1> DEFINE Good(m, f) == f \in [0 .. m -> T] /\ f[0] = a /\ \A i \in 1 .. m : f[i] = step[i][f[i - 1]]
           S == {m \in Nat : \E f : Good(m, f)}
<1>1. 0 \in S
  <2>1. Good(0, [i \in 0 .. 0 |-> a])
    OBVIOUS
  <2> QED
    BY <2>1
<1>2. ASSUME NEW m \in Nat, m \in S PROVE m + 1 \in S
  <2>1. PICK f : Good(m, f)
    BY <1>2
  <2> DEFINE g == [i \in 0 .. m + 1 |-> IF i = m + 1 THEN step[m + 1][f[m]] ELSE f[i]]
  <2>2. f[m] \in T /\ step[m + 1][f[m]] \in T
    BY <1>0, <2>1
  <2>3. g \in [0 .. m + 1 -> T]
    BY <2>1, <2>2
  <2>4. g[0] = a
    BY <2>1
  <2>5. \A i \in 1 .. m + 1 : g[i] = step[i][g[i - 1]]
    BY <2>1
  <2>6. Good(m + 1, g)
    BY <2>3, <2>4, <2>5
  <2> HIDE DEF Good, g
  <2> QED
    BY <2>6
<1>3. n \in S
  <2> HIDE DEF S
  <2> QED
    BY <1>1, <1>2, NatSet
<1> QED
  BY <1>3 DEF Iterated

-----------------------------------------------------------------------------
(* Sequences without repetition, and the order of the view.                *)
Distinct(s) == \A i, j \in DOMAIN s : s[i] = s[j] => i = j

LEMMA DistinctConcat ==
    ASSUME NEW A, NEW B, A \cap B = {}, NEW s \in Seq(A), NEW w \in Seq(B),
           Distinct(s), Distinct(w)
    PROVE  s \o w \in Seq(A \cup B) /\ Distinct(s \o w)
<1> DEFINE r == s \o w
<1>1. /\ Len(s) \in Nat /\ Len(w) \in Nat /\ Len(r) = Len(s) + Len(w)
      /\ DOMAIN s = 1 .. Len(s) /\ DOMAIN w = 1 .. Len(w) /\ DOMAIN r = 1 .. Len(s) + Len(w)
      /\ \A i \in 1 .. Len(s) : r[i] = s[i] /\ s[i] \in A
      /\ \A i \in 1 .. Len(w) : r[Len(s) + i] = w[i] /\ w[i] \in B
      /\ r \in Seq(A \cup B)
  OBVIOUS
<1> HIDE DEF r
<1>2. ASSUME NEW i \in DOMAIN r, NEW j \in DOMAIN r, r[i] = r[j] PROVE i = j
  <2>1. CASE i <= Len(s) /\ j <= Len(s)
    BY <1>1, <1>2, <2>1 DEF Distinct
  <2>2. CASE i <= Len(s) /\ j > Len(s)
    <3>1. i \in 1 .. Len(s) /\ j - Len(s) \in 1 .. Len(w) /\ r[Len(s) + (j - Len(s))] = r[j]
      BY <1>1, <2>2
    <3>2. r[i] \in A /\ r[j] \in B
      BY <1>1, <3>1
    <3> QED
      BY <1>2, <3>2
  <2>3. CASE i > Len(s) /\ j <= Len(s)
    <3>1. j \in 1 .. Len(s) /\ i - Len(s) \in 1 .. Len(w) /\ r[Len(s) + (i - Len(s))] = r[i]
      BY <1>1, <2>3
    <3>2. r[j] \in A /\ r[i] \in B
      BY <1>1, <3>1
    <3> QED
      BY <1>2, <3>2
  <2>4. CASE i > Len(s) /\ j > Len(s)
    <3>1. /\ j - Len(s) \in 1 .. Len(w) /\ r[Len(s) + (j - Len(s))] = r[j]
          /\ i - Len(s) \in 1 .. Len(w) /\ r[Len(s) + (i - Len(s))] = r[i]
      BY <1>1, <2>4
    <3>2. w[i - Len(s)] = w[j - Len(s)]
      BY <1>1, <1>2, <3>1
    <3>3. i - Len(s) = j - Len(s)
      BY <1>1, <3>1, <3>2 DEF Distinct
    <3> QED
      BY <1>1, <3>3
  <2> QED
    BY <1>1, <2>1, <2>2, <2>3, <2>4
<1> QED
  BY <1>1, <1>2 DEF Distinct, r

LEMMA AscendingSeq ==
    ASSUME NEW S, IsFiniteSet(S), S \subseteq Nat
    PROVE  Ascending(S) \in Seq(S) /\ Distinct(Ascending(S))
<1> DEFINE n == Cardinality(S)
           Upto(x) == {other \in S : other <= x}
           rank == [x \in S |-> Cardinality(Upto(x))]
<1>1. n \in Nat /\ IsFiniteSet(1 .. n) /\ Cardinality(1 .. n) = n
  BY FS_CardinalityType, FS_Interval
<1>2. \A x \in S : IsFiniteSet(Upto(x)) /\ rank[x] \in 1 .. n
  <2> SUFFICES ASSUME NEW x \in S PROVE IsFiniteSet(Upto(x)) /\ rank[x] \in 1 .. n
    OBVIOUS
  <2>1. Upto(x) \in SUBSET S /\ x \in Upto(x)
    OBVIOUS
  <2> HIDE DEF Upto
  <2>2. IsFiniteSet(Upto(x)) /\ Cardinality(Upto(x)) <= n /\ Cardinality(Upto(x)) \in Nat
    BY <2>1, FS_Subset, FS_CardinalityType
  <2>3. Cardinality(Upto(x)) # 0
    BY <2>1, <2>2, FS_EmptySet
  <2> QED
    BY <1>1, <2>2, <2>3
<1>3. ASSUME NEW x \in S, NEW y \in S, x < y PROVE rank[x] # rank[y]
  <2>0. x \in Nat /\ y \in Nat /\ \A z \in S : z \in Nat
    OBVIOUS
  <2>1. (\A z \in Upto(x) : z \in Upto(y)) /\ y \in Upto(y) /\ y \notin Upto(x)
    BY <1>3, <2>0
  <2>2. IsFiniteSet(Upto(y))
    BY <1>2
  <2> HIDE DEF Upto
  <2>3. Upto(x) \in SUBSET Upto(y)
    BY <2>1
  <2>4. Cardinality(Upto(y)) # Cardinality(Upto(x))
    BY <2>1, <2>2, <2>3, FS_Subset
  <2> QED
    BY <2>4
<1>4. rank \in Injection(S, 1 .. n)
  <2>1. rank \in [S -> 1 .. n]
    BY <1>2
  <2>2. ASSUME NEW x \in S, NEW y \in S, rank[x] = rank[y] PROVE x = y
    <3> HIDE DEF rank
    <3> QED
      BY <1>3, <2>2
  <2> HIDE DEF rank
  <2> QED
    BY <2>1, <2>2 DEF Injection, IsInjective
<1>5. rank \in Surjection(S, 1 .. n)
  <2> HIDE DEF rank
  <2> QED
    BY <1>1, <1>4, FS_Injection
<1> DEFINE At(i) == CHOOSE id \in S : Cardinality({other \in S : other <= id}) = i
<1>6. \A i \in 1 .. n : At(i) \in S /\ rank[At(i)] = i
  <2> SUFFICES ASSUME NEW i \in 1 .. n PROVE At(i) \in S /\ rank[At(i)] = i
    OBVIOUS
  <2>1. \E id \in S : rank[id] = i
    <3> HIDE DEF rank
    <3> QED
      BY <1>5 DEF Surjection
  <2> QED
    BY <2>1
<1>7. Ascending(S) = [i \in 1 .. n |-> At(i)]
  BY DEF Ascending
<1> HIDE DEF At, rank
<1>8. Ascending(S) \in Seq(S)
  BY <1>1, <1>6, <1>7
<1>9. Distinct(Ascending(S))
  BY <1>6, <1>7 DEF Distinct
<1> QED
  BY <1>8, <1>9

LEMMA OrderSeq ==
    ASSUME NEW S, IsFiniteSet(S), S \subseteq Nat
    PROVE  Order(S) \in Seq(S) /\ Distinct(Order(S))
<1> DEFINE last == S \cap hidden.permanent
           middle == (S \cap hidden.instance) \ last
           rest == S \ (middle \cup last)
<1>1. /\ IsFiniteSet(rest) /\ IsFiniteSet(middle) /\ IsFiniteSet(last)
      /\ rest \cap middle = {} /\ (rest \cup middle) \cap last = {}
      /\ rest \cup middle \cup last = S
  BY FS_Subset
<1>2. Order(S) = (Ascending(rest) \o Ascending(middle)) \o Ascending(last)
  BY DEF Order
<1> HIDE DEF last, middle, rest
<1>3. /\ Ascending(rest) \in Seq(rest) /\ Distinct(Ascending(rest))
      /\ Ascending(middle) \in Seq(middle) /\ Distinct(Ascending(middle))
      /\ Ascending(last) \in Seq(last) /\ Distinct(Ascending(last))
  BY <1>1, AscendingSeq
<1>4. /\ Ascending(rest) \o Ascending(middle) \in Seq(rest \cup middle)
      /\ Distinct(Ascending(rest) \o Ascending(middle))
  BY <1>1, <1>3, DistinctConcat
<1> DEFINE front == Ascending(rest) \o Ascending(middle)
<1> HIDE DEF front
<1>5. front \o Ascending(last) \in Seq(S) /\ Distinct(front \o Ascending(last))
  BY <1>1, <1>3, <1>4, DistinctConcat DEF front
<1> QED
  BY <1>2, <1>5 DEF front

-----------------------------------------------------------------------------
(* group_channels: every channel is in one group, once.                    *)
Pairs(D) == {p \in D \X D : p[1] # p[2]}

Groups(D) == {<<i>> : i \in D} \cup Pairs(D)

Scans(D) == [paired : SUBSET D, groups : Seq(Groups(D))]

ScanStep(ps, i, s) ==
    LET free == Partners(ps, i, s.paired)
        j == Least(free)
    IN  IF i \in s.paired THEN s
        ELSE IF free = {} THEN [paired |-> s.paired, groups |-> Append(s.groups, <<i>>)]
        ELSE [paired |-> s.paired \cup {i, j},
              groups |-> Append(s.groups,
                             IF IsLeftOf(ps[i], ps[j]) THEN <<i, j>> ELSE <<j, i>>)]

LEMMA PartnersFacts ==
    ASSUME NEW ps \in Seq(STRING), NEW i, NEW P, Partners(ps, i, P) # {}
    PROVE  /\ Least(Partners(ps, i, P)) \in DOMAIN ps \ (P \cup {i})
           /\ LET j == Least(Partners(ps, i, P))
              IN  IsLeftOf(ps[i], ps[j]) \/ IsLeftOf(ps[j], ps[i])
<1>1. Partners(ps, i, P) \subseteq Nat
  BY DEF Partners
<1>2. Least(Partners(ps, i, P)) \in Partners(ps, i, P)
  BY <1>1, LeastNumber
<1> QED
  BY <1>2 DEF Partners

LEMMA ScanStepType ==
    ASSUME NEW ps \in Seq(STRING), NEW i \in DOMAIN ps, NEW s \in Scans(DOMAIN ps)
    PROVE  ScanStep(ps, i, s) \in Scans(DOMAIN ps)
<1> DEFINE D == DOMAIN ps
           free == Partners(ps, i, s.paired)
           j == Least(free)
<1>0. s.paired \in SUBSET D /\ s.groups \in Seq(Groups(D)) /\ i \in D
  BY DEF Scans
<1>1. free # {} => j \in D \ {i}
  BY PartnersFacts
<1>2. ScanStep(ps, i, s) =
        IF i \in s.paired THEN s
        ELSE IF free = {} THEN [paired |-> s.paired, groups |-> Append(s.groups, <<i>>)]
        ELSE [paired |-> s.paired \cup {i, j},
              groups |-> Append(s.groups,
                             IF IsLeftOf(ps[i], ps[j]) THEN <<i, j>> ELSE <<j, i>>)]
  BY DEF ScanStep
<1> HIDE DEF free, j, D
<1>3. <<i>> \in Groups(D) /\ (j \in D \ {i} => <<i, j>> \in Groups(D) /\ <<j, i>> \in Groups(D))
  BY <1>0 DEF Groups, Pairs
<1>4. \A g \in Groups(D) : Append(s.groups, g) \in Seq(Groups(D))
  BY <1>0
<1>5. CASE i \in s.paired
  BY <1>2, <1>5 DEF D
<1>6. CASE i \notin s.paired /\ free = {}
  <2> DEFINE r == [paired |-> s.paired, groups |-> Append(s.groups, <<i>>)]
  <2>1. r \in Scans(D)
    BY <1>0, <1>3, <1>4 DEF Scans
  <2> HIDE DEF r
  <2> QED
    BY <1>2, <1>6, <2>1 DEF D, r
<1>7. CASE i \notin s.paired /\ free # {}
  <2> DEFINE g == IF IsLeftOf(ps[i], ps[j]) THEN <<i, j>> ELSE <<j, i>>
             r == [paired |-> s.paired \cup {i, j}, groups |-> Append(s.groups, g)]
  <2>1. g \in Groups(D) /\ j \in D \ {i}
    BY <1>1, <1>3, <1>7
  <2> HIDE DEF g
  <2>2. r \in Scans(D)
    BY <1>0, <1>4, <2>1 DEF Scans
  <2> HIDE DEF r
  <2> QED
    BY <1>2, <1>7, <2>2 DEF D, r, g
<1> QED
  BY <1>5, <1>6, <1>7

LEMMA GroupsByScan ==
    ASSUME NEW ps \in Seq(STRING)
    PROVE  \E f \in [0 .. Len(ps) -> Scans(DOMAIN ps)] :
               /\ f[0] = [paired |-> {}, groups |-> <<>>]
               /\ \A i \in 1 .. Len(ps) : f[i] = ScanStep(ps, i, f[i - 1])
               /\ GroupChannels(ps) = f[Len(ps)].groups
<1> DEFINE n == Len(ps)
           T == Scans(DOMAIN ps)
           a == [paired |-> {}, groups |-> <<>>]
           step == [i \in Nat |-> [s \in T |-> IF i \in DOMAIN ps THEN ScanStep(ps, i, s) ELSE s]]
           Is(f) == f = [i \in 0 .. n |->
                            IF i = 0 THEN [paired |-> {}, groups |-> <<>>]
                            ELSE LET s == f[i - 1]
                                     free == Partners(ps, i, s.paired)
                                     j == Least(free)
                                 IN  IF i \in s.paired THEN s
                                     ELSE IF free = {}
                                     THEN [paired |-> s.paired, groups |-> Append(s.groups, <<i>>)]
                                     ELSE [paired |-> s.paired \cup {i, j},
                                           groups |-> Append(s.groups,
                                               IF IsLeftOf(ps[i], ps[j]) THEN <<i, j>> ELSE <<j, i>>)]]
<1>1. n \in Nat /\ DOMAIN ps = 1 .. n
  OBVIOUS
<1>2. a \in T
  BY DEF Scans
<1>3. step \in [Nat -> [T -> T]]
  BY ScanStepType
<1>4. \A f : Is(f) <=> f = [i \in 0 .. n |-> IF i = 0 THEN a ELSE ScanStep(ps, i, f[i - 1])]
  BY DEF ScanStep
<1>5. PICK g \in [0 .. n -> T] : g[0] = a /\ \A i \in 1 .. n : g[i] = step[i][g[i - 1]]
  <2>1. n \in Nat /\ a \in T /\ step \in Steps(T)
    BY <1>1, <1>2, <1>3 DEF Steps
  <2> HIDE DEF n, T, a, step
  <2>2. Iterated(T, a, step, n) # {}
    BY <2>1, Iterates
  <2> QED
    BY <2>2 DEF Iterated
<1>6. \A i \in 1 .. n : g[i] = ScanStep(ps, i, g[i - 1])
  <2> SUFFICES ASSUME NEW i \in 1 .. n PROVE g[i] = ScanStep(ps, i, g[i - 1])
    OBVIOUS
  <2>1. i \in Nat /\ i \in DOMAIN ps /\ g[i - 1] \in T
    BY <1>1, <1>5
  <2>2. step[i][g[i - 1]] = ScanStep(ps, i, g[i - 1])
    BY <2>1
  <2> QED
    BY <1>5, <2>2
<1>7. Is(g)
  <2> DEFINE e(i) == IF i = 0 THEN a ELSE ScanStep(ps, i, g[i - 1])
  <2> HIDE DEF Is, T, a, n
  <2>1. \A i \in 0 .. n : g[i] = e(i)
    BY <1>1, <1>5, <1>6
  <2> HIDE DEF e
  <2>2. g = [i \in 0 .. n |-> e(i)]
    BY <1>5, <2>1
  <2> QED
    BY <1>4, <2>2 DEF e
<1> DEFINE f == CHOOSE f : Is(f)
<1>8. GroupChannels(ps) = f[n].groups
  BY DEF GroupChannels
<1>9. Is(f)
  <2> HIDE DEF Is
  <2> QED
    BY <1>7
<1>10. DOMAIN f = 0 .. n /\ f[0] = a /\ \A i \in 1 .. n : f[i] = ScanStep(ps, i, f[i - 1])
  <2> HIDE DEF f, Is, a
  <2>1. f = [i \in 0 .. n |-> IF i = 0 THEN a ELSE ScanStep(ps, i, f[i - 1])]
    BY <1>4, <1>9
  <2> QED
    BY <1>1, <2>1
<1>11. \A k \in 0 .. n : f[k] \in T
  <2> DEFINE S == {k \in Nat : k <= n => f[k] \in T}
  <2> HIDE DEF f, T, a, Is
  <2>1. 0 \in S
    BY <1>2, <1>10
  <2>2. ASSUME NEW k \in Nat, k \in S PROVE k + 1 \in S
    <3>1. CASE k + 1 <= n
      <4>1. f[k] \in T /\ f[k + 1] = ScanStep(ps, k + 1, f[k]) /\ k + 1 \in DOMAIN ps
        BY <1>1, <1>10, <2>2, <3>1
      <4>2. f[k + 1] \in T
        BY <4>1, ScanStepType DEF T
      <4> QED
        BY <4>2
    <3>2. CASE ~(k + 1 <= n)
      BY <3>2
    <3> QED
      BY <3>1, <3>2
  <2>3. Nat \subseteq S
    <3> HIDE DEF S
    <3> QED
      BY <2>1, <2>2, NatSet
  <2> QED
    BY <1>1, <2>3
<1>12. f \in [0 .. n -> T]
  <2> HIDE DEF f, T, Is
  <2>1. f = [k \in 0 .. n |-> f[k]]
    BY <1>4, <1>9
  <2> QED
    BY <1>11, <2>1
<1> HIDE DEF f, Is
<1> QED
  BY <1>8, <1>10, <1>12

-----------------------------------------------------------------------------
(* Group channels, step by step.                                           *)

Holds(gs, c) == \E i \in DOMAIN gs : \E m \in DOMAIN gs[i] : gs[i][m] = c

Once(gs) ==
    \A i, j \in DOMAIN gs : \A m \in DOMAIN gs[i], n \in DOMAIN gs[j] :
        gs[i][m] = gs[j][n] => i = j /\ m = n

LEMMA GroupFacts ==
    ASSUME NEW D, NEW g \in Groups(D)
    PROVE  /\ Len(g) \in {1, 2} /\ DOMAIN g = 1 .. Len(g)
           /\ \A m \in DOMAIN g : g[m] \in D
           /\ \A m, n \in DOMAIN g : g[m] = g[n] => m = n
<1>1. CASE g \in {<<i>> : i \in D}
  BY <1>1
<1>2. CASE g \in Pairs(D)
  <2>1. PICK a \in D, b \in D : g = <<a, b>> /\ a # b
    BY <1>2 DEF Pairs
  <2>2. Len(g) = 2 /\ DOMAIN g = 1 .. 2 /\ g[1] = a /\ g[2] = b
    BY <2>1
  <2> QED
    BY <2>1, <2>2
<1> QED
  BY <1>1, <1>2 DEF Groups

LEMMA AppendGroup ==
    ASSUME NEW D, NEW gs \in Seq(Groups(D)), Once(gs), NEW g \in Groups(D),
           \A m \in DOMAIN g : ~Holds(gs, g[m])
    PROVE  /\ Once(Append(gs, g))
           /\ \A c : Holds(Append(gs, g), c) <=> Holds(gs, c) \/ \E m \in DOMAIN g : g[m] = c
<1> DEFINE r == Append(gs, g)
           n == Len(gs)
<1>1. /\ n \in Nat /\ DOMAIN gs = 1 .. n /\ DOMAIN r = 1 .. n + 1
      /\ \A i \in 1 .. n : r[i] = gs[i]
      /\ r[n + 1] = g
  OBVIOUS
<1> HIDE DEF r, n
<1>2. \A i \in DOMAIN r : i \in DOMAIN gs \/ i = n + 1
  BY <1>1
<1>3. \A i \in DOMAIN gs : i \in DOMAIN r /\ r[i] = gs[i]
  BY <1>1
<1>4. n + 1 \in DOMAIN r
  BY <1>1
<1>5. ASSUME NEW i \in DOMAIN r, NEW j \in DOMAIN r, NEW a \in DOMAIN r[i], NEW b \in DOMAIN r[j],
             r[i][a] = r[j][b]
      PROVE  i = j /\ a = b
  <2>1. CASE i \in DOMAIN gs /\ j \in DOMAIN gs
    <3>1. r[i] = gs[i] /\ r[j] = gs[j]
      BY <1>3, <2>1
    <3> QED
      BY <1>5, <2>1, <3>1 DEF Once
  <2>2. CASE i \in DOMAIN gs /\ j = n + 1
    <3>1. r[i] = gs[i] /\ r[j] = g
      BY <1>1, <1>3, <2>2
    <3>2. Holds(gs, g[b]) /\ b \in DOMAIN g
      BY <1>5, <2>2, <3>1 DEF Holds
    <3> QED
      BY <3>2
  <2>3. CASE i = n + 1 /\ j \in DOMAIN gs
    <3>1. r[i] = g /\ r[j] = gs[j]
      BY <1>1, <1>3, <2>3
    <3>2. Holds(gs, g[a]) /\ a \in DOMAIN g
      BY <1>5, <2>3, <3>1 DEF Holds
    <3> QED
      BY <3>2
  <2>4. CASE i = n + 1 /\ j = n + 1
    <3>1. r[i] = g /\ r[j] = g
      BY <1>1, <2>4
    <3> QED
      BY <1>5, <2>4, <3>1, GroupFacts
  <2> QED
    BY <1>2, <2>1, <2>2, <2>3, <2>4
<1>6. ASSUME NEW c PROVE Holds(r, c) <=> Holds(gs, c) \/ \E m \in DOMAIN g : g[m] = c
  <2>1. Holds(r, c) => Holds(gs, c) \/ \E m \in DOMAIN g : g[m] = c
    BY <1>1, <1>2, <1>3 DEF Holds
  <2>2. Holds(gs, c) => Holds(r, c)
    BY <1>3 DEF Holds
  <2>3. (\E m \in DOMAIN g : g[m] = c) => Holds(r, c)
    BY <1>1, <1>4 DEF Holds
  <2> QED
    BY <2>1, <2>2, <2>3
<1> QED
  BY <1>5, <1>6 DEF Once, r

(* The scan up to channel k: the channels up to k and the ones paired with *)
(* them are in a group, once, and no channel left alone could be paired.   *)
Scanned(ps, k, s) ==
    /\ s \in Scans(DOMAIN ps)
    /\ Once(s.groups)
    /\ \A c \in DOMAIN ps : Holds(s.groups, c) <=> c <= k \/ c \in s.paired
    /\ \A c \in DOMAIN ps : c <= k /\ c \notin s.paired => Partners(ps, c, s.paired) = {}

LEMMA ScanStepOK ==
    ASSUME NEW ps \in Seq(STRING), NEW k \in Nat, k + 1 \in DOMAIN ps,
           NEW s, Scanned(ps, k, s)
    PROVE  Scanned(ps, k + 1, ScanStep(ps, k + 1, s))
<1> DEFINE D == DOMAIN ps
           i == k + 1
           free == Partners(ps, i, s.paired)
           j == Least(free)
           r == ScanStep(ps, i, s)
<1>0. /\ D \subseteq Nat /\ i \in D /\ i \in Nat
      /\ s \in Scans(D) /\ s.paired \in SUBSET D /\ s.groups \in Seq(Groups(D))
      /\ Once(s.groups)
      /\ \A c \in D : Holds(s.groups, c) <=> c <= k \/ c \in s.paired
      /\ \A c \in D : c <= k /\ c \notin s.paired => Partners(ps, c, s.paired) = {}
      /\ \A c \in D : c <= i <=> c <= k \/ c = i
  BY DEF Scanned, Scans
<1>1. r \in Scans(D)
  BY <1>0, ScanStepType
<1>2. r = IF i \in s.paired THEN s
          ELSE IF free = {} THEN [paired |-> s.paired, groups |-> Append(s.groups, <<i>>)]
          ELSE [paired |-> s.paired \cup {i, j},
                groups |-> Append(s.groups,
                               IF IsLeftOf(ps[i], ps[j]) THEN <<i, j>> ELSE <<j, i>>)]
  BY DEF ScanStep
<1>3. ~(i <= k)
  BY <1>0
<1>4. free # {} => /\ j \in D /\ j \notin s.paired /\ j # i
                   /\ IsLeftOf(ps[i], ps[j]) \/ IsLeftOf(ps[j], ps[i])
  BY PartnersFacts
<1> HIDE DEF free, r, j, D
<1>5. CASE i \in s.paired
  <2>1. r = s
    BY <1>2, <1>5
  <2> QED
    BY <1>0, <1>5, <2>1 DEF Scanned, r, D
<1>6. CASE i \notin s.paired /\ free = {}
  <2>1. r.paired = s.paired /\ r.groups = Append(s.groups, <<i>>)
    BY <1>2, <1>6
  <2>2. <<i>> \in Groups(D) /\ \A m \in DOMAIN <<i>> : <<i>>[m] = i
    BY <1>0 DEF Groups
  <2>3. ~Holds(s.groups, i)
    BY <1>0, <1>3, <1>6
  <2> DEFINE g == <<i>>
  <2>4. g \in Groups(D) /\ 1 \in DOMAIN g /\ g[1] = i /\ \A m \in DOMAIN g : g[m] = i
    BY <2>2
  <2> HIDE DEF g
  <2>5. \A m \in DOMAIN g : ~Holds(s.groups, g[m])
    BY <2>3, <2>4
  <2>6. /\ Once(Append(s.groups, g))
        /\ \A c : Holds(Append(s.groups, g), c)
                    <=> Holds(s.groups, c) \/ \E m \in DOMAIN g : g[m] = c
    BY <1>0, <2>4, <2>5, AppendGroup
  <2>7. Once(r.groups) /\ \A c : Holds(r.groups, c) <=> Holds(s.groups, c) \/ c = i
    BY <2>1, <2>4, <2>6 DEF g
  <2>8. \A c \in D : Holds(r.groups, c) <=> c <= i \/ c \in r.paired
    BY <1>0, <2>1, <2>7
  <2>9. \A c \in D : c <= i /\ c \notin r.paired => Partners(ps, c, r.paired) = {}
    BY <1>0, <1>6, <2>1 DEF free
  <2> QED
    BY <1>1, <2>7, <2>8, <2>9 DEF Scanned, r, D
<1>7. CASE i \notin s.paired /\ free # {}
  <2> DEFINE g == IF IsLeftOf(ps[i], ps[j]) THEN <<i, j>> ELSE <<j, i>>
  <2>1. r.paired = s.paired \cup {i, j} /\ r.groups = Append(s.groups, g)
    BY <1>2, <1>7
  <2>2. ~(j <= k)
    <3> SUFFICES ASSUME j <= k PROVE FALSE
      OBVIOUS
    <3>1. Partners(ps, j, s.paired) = {}
      BY <1>0, <1>4, <1>7
    <3>2. i \in Partners(ps, j, s.paired)
      BY <1>0, <1>4, <1>7 DEF Partners, D
    <3> QED
      BY <3>1, <3>2
  <2>3. ~Holds(s.groups, i) /\ ~Holds(s.groups, j)
    BY <1>0, <1>3, <1>4, <1>7, <2>2
  <2>4. /\ g \in Groups(D) /\ DOMAIN g = 1 .. 2
        /\ (g[1] = i /\ g[2] = j) \/ (g[1] = j /\ g[2] = i)
    <3>1. <<i, j>> \in Groups(D) /\ <<j, i>> \in Groups(D)
      BY <1>0, <1>4, <1>7 DEF Groups, Pairs
    <3>2. g = <<i, j>> \/ g = <<j, i>>
      OBVIOUS
    <3> HIDE DEF g
    <3>3. CASE g = <<i, j>>
      BY <3>1, <3>3
    <3>4. CASE g = <<j, i>>
      BY <3>1, <3>4
    <3> QED
      BY <3>2, <3>3, <3>4
  <2> HIDE DEF g
  <2>5. \A m \in DOMAIN g : ~Holds(s.groups, g[m])
    BY <2>3, <2>4
  <2>6. /\ Once(Append(s.groups, g))
        /\ \A c : Holds(Append(s.groups, g), c)
                    <=> Holds(s.groups, c) \/ \E m \in DOMAIN g : g[m] = c
    BY <1>0, <2>4, <2>5, AppendGroup
  <2>7. Once(r.groups) /\ \A c : Holds(r.groups, c) <=> Holds(s.groups, c) \/ c \in {i, j}
    BY <2>1, <2>4, <2>6
  <2>8. \A c \in D : Holds(r.groups, c) <=> c <= i \/ c \in r.paired
    BY <1>0, <2>1, <2>7
  <2>9. \A c \in D : c <= i /\ c \notin r.paired => Partners(ps, c, r.paired) = {}
    <3>1. \A c : Partners(ps, c, r.paired) \subseteq Partners(ps, c, s.paired)
      BY <2>1 DEF Partners
    <3> QED
      BY <1>0, <2>1, <3>1
  <2> QED
    BY <1>1, <2>7, <2>8, <2>9 DEF Scanned, r, D
<1> QED
  BY <1>5, <1>6, <1>7

(* group_channels puts every channel into one group, and there once: a     *)
(* partner is never taken twice and no channel is dropped, however often a *)
(* position is reported.                                                   *)
THEOREM GroupsPartition ==
    ASSUME NEW ps \in Seq(STRING)
    PROVE  /\ GroupChannels(ps) \in Seq(Groups(DOMAIN ps))
           /\ Once(GroupChannels(ps))
           /\ \A c \in DOMAIN ps : Holds(GroupChannels(ps), c)
<1> DEFINE n == Len(ps)
<1>0. n \in Nat /\ DOMAIN ps = 1 .. n
  OBVIOUS
<1>1. PICK f \in [0 .. n -> Scans(DOMAIN ps)] :
          /\ f[0] = [paired |-> {}, groups |-> <<>>]
          /\ \A i \in 1 .. n : f[i] = ScanStep(ps, i, f[i - 1])
          /\ GroupChannels(ps) = f[n].groups
  BY GroupsByScan
<1> HIDE DEF n
<1> DEFINE S == {k \in Nat : k <= n => Scanned(ps, k, f[k])}
<1>2. 0 \in S
  <2>0. 0 \in 0 .. n
    BY <1>0
  <2>1. f[0] \in Scans(DOMAIN ps) /\ f[0].groups = <<>> /\ f[0].paired = {}
    <3>1. f[0] \in Scans(DOMAIN ps)
      BY <1>1, <2>0
    <3>2. f[0].groups = <<>> /\ f[0].paired = {}
      BY <1>1
    <3> QED
      BY <3>1, <3>2
  <2>2. Once(f[0].groups) /\ \A c : ~Holds(f[0].groups, c)
    BY <2>1 DEF Once, Holds
  <2>3. \A c \in DOMAIN ps : ~(c <= 0)
    BY <1>0
  <2>4. Scanned(ps, 0, f[0])
    BY <2>1, <2>2, <2>3 DEF Scanned
  <2> QED
    BY <2>4
<1>3. ASSUME NEW k \in Nat, k \in S PROVE k + 1 \in S
  <2>1. CASE k + 1 <= n
    <3>1. Scanned(ps, k, f[k]) /\ k + 1 \in DOMAIN ps /\ f[k + 1] = ScanStep(ps, k + 1, f[k])
      BY <1>0, <1>1, <1>3, <2>1
    <3>2. Scanned(ps, k + 1, f[k + 1])
      BY <3>1, ScanStepOK
    <3> QED
      BY <3>2
  <2>2. CASE ~(k + 1 <= n)
    BY <2>2
  <2> QED
    BY <2>1, <2>2
<1>4. Nat \subseteq S
  <2> HIDE DEF S
  <2> QED
    BY <1>2, <1>3, NatSet
<1>5. Scanned(ps, n, f[n])
  BY <1>0, <1>4
<1>6. /\ f[n].groups \in Seq(Groups(DOMAIN ps)) /\ Once(f[n].groups)
      /\ \A c \in DOMAIN ps : Holds(f[n].groups, c)
  BY <1>0, <1>5 DEF Scanned, Scans
<1> QED
  BY <1>1, <1>6

-----------------------------------------------------------------------------
(* The rows and the bars of a node.                                        *)

LEMMA AloneFacts ==
    ASSUME NEW P, NEW x \in P, \A y \in P : y = x
    PROVE  Cardinality(P) = 1
<1>1. P = {x}
  OBVIOUS
<1> QED
  BY <1>1, FS_Singleton

LEMMA PressedApart == Press # PressOrDrag /\ {"right"} # PressOrDrag /\ {"scroll"} # PressOrDrag
<1>1. "drag" \in PressOrDrag /\ "drag" \notin Press /\ "drag" \notin {"right"} /\ "drag" \notin {"scroll"}
  BY DEF Press, PressOrDrag
<1> QED
  BY <1>1

LEMMA AreaFacts ==
    ASSUME NEW id, NEW row, NEW by, NEW channel, NEW does, NEW of
    PROVE  /\ Area(id, row, by, channel, does, of).by = by
           /\ Area(id, row, by, channel, does, of).row = row
           /\ Area(id, row, by, channel, does, of).channel = channel
           /\ Area(id, row, by, channel, does, of).of = of
BY DEF Area

Bar(id, row, c) == Area(id, row, PressOrDrag, c, "SetChannelAbsoluteVolume", c)

(* The rows of a node are groups of its channels, each channel once.       *)
Covering(D, gs) == gs \in Seq(Groups(D)) /\ Once(gs) /\ \A c \in D : Holds(gs, c)

LEMMA Singles == ASSUME NEW n \in Nat PROVE Covering(1 .. n, [c \in 1 .. n |-> <<c>>])
<1> DEFINE gs == [c \in 1 .. n |-> <<c>>]
<1>1. \A c \in 1 .. n : <<c>> \in Groups(1 .. n)
  BY DEF Groups
<1>2. gs \in Seq(Groups(1 .. n))
  BY <1>1
<1>3. DOMAIN gs = 1 .. n /\ \A i \in 1 .. n : gs[i] = <<i>>
  OBVIOUS
<1>4. \A i \in 1 .. n : DOMAIN gs[i] = {1} /\ gs[i][1] = i
  BY <1>3
<1> HIDE DEF gs
<1>5. Once(gs)
  BY <1>3, <1>4 DEF Once
<1>6. \A c \in 1 .. n : Holds(gs, c)
  BY <1>3, <1>4 DEF Holds
<1> QED
  BY <1>2, <1>5, <1>6 DEF Covering, gs

Agrees(n) == n.positions = None \/ Len(n.positions) = Len(n.volumes)

LEMMA NodeFacts ==
    ASSUME NEW n \in NodeShape, Agrees(n)
    PROVE  /\ Len(n.volumes) \in Nat /\ DOMAIN n.volumes = 1 .. Len(n.volumes)
           /\ n.positions # None =>
                 n.positions \in Seq(STRING) /\ DOMAIN n.positions = DOMAIN n.volumes
           /\ n.positions # None => Covering(DOMAIN n.volumes, GroupChannels(n.positions))
<1>1. n.volumes \in Seq(Nat) /\ n.positions \in Seq(STRING) \cup {None}
  BY DEF NodeShape
<1>2. Len(n.volumes) \in Nat /\ DOMAIN n.volumes = 1 .. Len(n.volumes)
  BY <1>1
<1>3. n.positions # None =>
          n.positions \in Seq(STRING) /\ DOMAIN n.positions = DOMAIN n.volumes
  BY <1>1, <1>2 DEF Agrees
<1>4. n.positions # None => Covering(DOMAIN n.volumes, GroupChannels(n.positions))
  BY <1>3, GroupsPartition DEF Covering
<1> QED
  BY <1>2, <1>3, <1>4

LEMMA RowsCover ==
    ASSUME NEW n \in NodeShape, Agrees(n), NEW cs
    PROVE  Covering(DOMAIN n.volumes, DisplayRows(cs, n))
BY NodeFacts, Singles DEF DisplayRows

LEMMA Displays ==
    ASSUME NEW cs, NEW n
    PROVE  /\ VolumeDisplay(cs, n) \in {"Unified", "Stacked", "Radiating"}
           /\ VolumeDisplay(cs, n) = "Radiating" => SinglePair(n)
BY DEF VolumeDisplay

LEMMA ShownOnce ==
    ASSUME NEW n \in NodeShape, Agrees(n), NEW cs, NEW c \in DOMAIN n.volumes
    PROVE  Once(ShownIn(cs, n)) /\ Holds(ShownIn(cs, n), c)
<1>1. CASE VolumeDisplay(cs, n) = "Unified"
  <2> DEFINE all == [d \in DOMAIN n.volumes |-> d]
             shown == <<all>>
  <2>1. ShownIn(cs, n) = shown
    BY <1>1 DEF ShownIn
  <2>2. DOMAIN shown = {1} /\ shown[1] = all
    OBVIOUS
  <2>3. DOMAIN all = DOMAIN n.volumes /\ \A d \in DOMAIN all : all[d] = d
    OBVIOUS
  <2> HIDE DEF all, shown
  <2>4. Once(shown)
    BY <2>2, <2>3 DEF Once
  <2>5. Holds(shown, c)
    BY <2>2, <2>3 DEF Holds
  <2> QED
    BY <2>1, <2>4, <2>5
<1>2. CASE VolumeDisplay(cs, n) = "Radiating"
  <2>1. ShownIn(cs, n) = GroupChannels(n.positions)
    BY <1>2 DEF ShownIn
  <2>2. n.positions # None
    BY <1>2, Displays DEF SinglePair
  <2> QED
    BY <2>1, <2>2, NodeFacts DEF Covering
<1>3. CASE VolumeDisplay(cs, n) = "Stacked"
  <2>1. ShownIn(cs, n) = DisplayRows(cs, n)
    BY <1>3 DEF ShownIn
  <2> QED
    BY <2>1, RowsCover DEF Covering
<1> QED
  BY <1>1, <1>2, <1>3, Displays

LEMMA PlacedOnce ==
    ASSUME NEW shown, Once(shown), NEW c, Holds(shown, c)
    PROVE  Cardinality({p \in UNION {{i} \X DOMAIN shown[i] : i \in DOMAIN shown} :
                            shown[p[1]][p[2]] = c}) = 1
<1> DEFINE places == UNION {{i} \X DOMAIN shown[i] : i \in DOMAIN shown}
           P == {p \in places : shown[p[1]][p[2]] = c}
<1>0. PICK i \in DOMAIN shown : \E m \in DOMAIN shown[i] : shown[i][m] = c
  BY DEF Holds
<1>1. PICK m \in DOMAIN shown[i] : shown[i][m] = c
  BY <1>0
<1>2. <<i, m>> \in P
  BY <1>1
<1>3. ASSUME NEW p \in P PROVE p = <<i, m>>
  <2>1. PICK j \in DOMAIN shown : p \in {j} \X DOMAIN shown[j]
    BY <1>3
  <2>2. PICK k \in DOMAIN shown[j] : p = <<j, k>>
    BY <2>1
  <2>3. shown[j][k] = c
    BY <1>3, <2>2
  <2>4. j = i /\ k = m
    BY <1>1, <2>3 DEF Once
  <2> QED
    BY <2>2, <2>4
<1> HIDE DEF P
<1>4. Cardinality(P) = 1
  BY <1>2, <1>3, AloneFacts
<1> QED
  BY <1>4 DEF P

(* The bars of the rows.                                                   *)
LEMMA StackedBars ==
    ASSUME NEW n \in NodeShape, Agrees(n), NEW cs, NEW id, NEW a
    PROVE  LET rows == DisplayRows(cs, n)
           IN  a \in StackedAreas(cs, id, n) /\ a.by = PressOrDrag
               <=> \E i \in DOMAIN rows : \E m \in DOMAIN rows[i] : a = Bar(id, i, rows[i][m] - 1)
<1> DEFINE rows == DisplayRows(cs, n)
           radiating == cs.view # "Channels" /\ cs.split = "Radiating"
           Row(i) == CASE Len(rows[i]) = 2 -> PairRowAreas(id, i, rows[i])
                       [] Len(rows[i]) = 1 /\ radiating -> LoneRowAreas(id, i, rows[i][1] - 1)
                       [] OTHER -> ChannelRowAreas(id, i, rows[i][1] - 1)
<1>1. StackedAreas(cs, id, n) = HeaderAreas(id) \cup UNION {Row(i) : i \in DOMAIN rows}
  BY DEF StackedAreas
<1>2. \A i \in DOMAIN rows : rows[i] \in Groups(DOMAIN n.volumes)
  <2>1. rows \in Seq(Groups(DOMAIN n.volumes))
    BY RowsCover DEF Covering
  <2> QED
    BY <2>1
<1>3. \A c, i : \A b \in ChannelAreas(id, i, c) : b.by = PressOrDrag <=> b = Bar(id, i, c)
  BY PressedApart, AreaFacts DEF ChannelAreas, Bar
<1>4. \A c, i : Bar(id, i, c) \in ChannelAreas(id, i, c) /\ Bar(id, i, c).by = PressOrDrag
  BY AreaFacts DEF ChannelAreas, Bar
<1>5. \A b \in HeaderAreas(id) : b.by # PressOrDrag
  BY PressedApart, AreaFacts DEF HeaderAreas
<1>6. ASSUME NEW i \in DOMAIN rows
      PROVE  a \in Row(i) /\ a.by = PressOrDrag
             <=> \E m \in DOMAIN rows[i] : a = Bar(id, i, rows[i][m] - 1)
  <2>1. Len(rows[i]) \in {1, 2} /\ DOMAIN rows[i] = 1 .. Len(rows[i])
    BY <1>2, <1>6, GroupFacts
  <2> HIDE DEF rows, radiating
  <2>2. CASE Len(rows[i]) = 1
    <3>1. Row(i) = ChannelAreas(id, i, rows[i][1] - 1) /\ DOMAIN rows[i] = {1}
      BY <2>1, <2>2 DEF LoneRowAreas, ChannelRowAreas
    <3> QED
      BY <1>3, <1>4, <3>1
  <2>3. CASE Len(rows[i]) = 2
    <3>1. /\ Row(i) = ChannelAreas(id, i, rows[i][1] - 1) \cup ChannelAreas(id, i, rows[i][2] - 1)
          /\ DOMAIN rows[i] = {1, 2}
      BY <2>1, <2>3 DEF PairRowAreas
    <3> HIDE DEF Row
    <3> QED
      BY <1>3, <1>4, <3>1
  <2> QED
    BY <2>1, <2>2, <2>3
<1> HIDE DEF Row, rows
<1>7. a \in StackedAreas(cs, id, n) /\ a.by = PressOrDrag
      <=> \E i \in DOMAIN rows : a \in Row(i) /\ a.by = PressOrDrag
  BY <1>1, <1>5
<1> QED
  BY <1>6, <1>7 DEF rows

(* The bars of a node.                                                     *)
Bars(cs, id, n) == {a \in NodeAreas(cs, id, n) : a.by = PressOrDrag}

LEMMA BarsOfDisplay ==
    ASSUME NEW n \in NodeShape, Agrees(n), NEW cs, NEW id
    PROVE  /\ VolumeDisplay(cs, n) = "Stacked" =>
                \A a : a \in Bars(cs, id, n) <=>
                    \E i \in DOMAIN DisplayRows(cs, n) : \E m \in DOMAIN DisplayRows(cs, n)[i] :
                        a = Bar(id, i, DisplayRows(cs, n)[i][m] - 1)
           /\ VolumeDisplay(cs, n) = "Unified" =>
                Bars(cs, id, n) = {Area(id, 0, PressOrDrag, None, "SetAbsoluteVolume", None)}
           /\ VolumeDisplay(cs, n) = "Radiating" =>
                Bars(cs, id, n) =
                    {Area(id, 0, PressOrDrag, None, "SetChannelAbsoluteVolume",
                          GroupChannels(n.positions)[1][k] - 1) :
                        k \in DOMAIN GroupChannels(n.positions)[1]}
<1>1. \A b \in WholeAreas(id) : b.by # PressOrDrag
  BY PressedApart, AreaFacts DEF WholeAreas
<1>2. \A b \in HeaderAreas(id) : b.by # PressOrDrag
  BY PressedApart, AreaFacts DEF HeaderAreas
<1>3. CASE VolumeDisplay(cs, n) = "Stacked"
  <2>1. NodeAreas(cs, id, n) = WholeAreas(id) \cup StackedAreas(cs, id, n)
    BY <1>3 DEF NodeAreas
  <2>2. \A a : a \in Bars(cs, id, n) <=> a \in StackedAreas(cs, id, n) /\ a.by = PressOrDrag
    BY <1>1, <2>1 DEF Bars
  <2>3. ASSUME NEW a
        PROVE  a \in StackedAreas(cs, id, n) /\ a.by = PressOrDrag
               <=> \E i \in DOMAIN DisplayRows(cs, n) : \E m \in DOMAIN DisplayRows(cs, n)[i] :
                        a = Bar(id, i, DisplayRows(cs, n)[i][m] - 1)
    BY StackedBars
  <2> QED
    BY <1>3, <2>2, <2>3
<1>4. CASE VolumeDisplay(cs, n) = "Unified"
  <2>1. NodeAreas(cs, id, n) = WholeAreas(id) \cup (HeaderAreas(id) \cup VolumeAreas(id))
    BY <1>4 DEF NodeAreas, BarAreas
  <2>2. Area(id, 0, Press, None, "ToggleMute", None).by # PressOrDrag
        /\ Area(id, 0, PressOrDrag, None, "SetAbsoluteVolume", None).by = PressOrDrag
    BY PressedApart, AreaFacts
  <2>3. Bars(cs, id, n) = {Area(id, 0, PressOrDrag, None, "SetAbsoluteVolume", None)}
    BY <1>1, <1>2, <2>1, <2>2 DEF Bars, VolumeAreas
  <2> QED
    BY <1>4, <2>3
<1>5. CASE VolumeDisplay(cs, n) = "Radiating"
  <2> DEFINE pair == GroupChannels(n.positions)[1]
             Half(k) == Area(id, 0, PressOrDrag, None, "SetChannelAbsoluteVolume", pair[k] - 1)
             halves == {Half(k) : k \in DOMAIN pair}
  <2>1. NodeAreas(cs, id, n) = WholeAreas(id) \cup (HeaderAreas(id) \cup StereoAreas(id, pair))
    BY <1>5 DEF NodeAreas, BarAreas
  <2>2. StereoAreas(id, pair) = {Area(id, 0, Press, None, "ToggleMute", None)} \cup halves
    BY DEF StereoAreas
  <2>3. Area(id, 0, Press, None, "ToggleMute", None).by # PressOrDrag
    BY PressedApart, AreaFacts
  <2>4. \A k : Half(k).by = PressOrDrag
    BY AreaFacts
  <2> HIDE DEF Half
  <2>5. \A b \in halves : b.by = PressOrDrag
    BY <2>4
  <2> HIDE DEF halves
  <2>6. Bars(cs, id, n) = halves
    BY <1>1, <1>2, <2>1, <2>2, <2>3, <2>5 DEF Bars
  <2>7. Bars(cs, id, n) =
            {Area(id, 0, PressOrDrag, None, "SetChannelAbsoluteVolume",
                  GroupChannels(n.positions)[1][k] - 1) :
                k \in DOMAIN GroupChannels(n.positions)[1]}
    BY <2>6 DEF halves, Half, pair
  <2> QED
    BY <1>5, <2>7
<1> QED
  BY <1>3, <1>4, <1>5, Displays

LEMMA BarChannels ==
    ASSUME NEW n \in NodeShape, Agrees(n), NEW cs, NEW id
    PROVE  \A a \in Bars(cs, id, n) : a.channel \in {a.of, None}
<1>1. CASE VolumeDisplay(cs, n) = "Unified"
  BY <1>1, BarsOfDisplay, AreaFacts
<1>2. CASE VolumeDisplay(cs, n) = "Radiating"
  <2> DEFINE pair == GroupChannels(n.positions)[1]
             Half(k) == Area(id, 0, PressOrDrag, None, "SetChannelAbsoluteVolume", pair[k] - 1)
  <2>1. Bars(cs, id, n) = {Half(k) : k \in DOMAIN pair}
    BY <1>2, BarsOfDisplay
  <2>2. \A k : Half(k).channel = None
    BY AreaFacts
  <2> HIDE DEF Half
  <2> QED
    BY <2>1, <2>2
<1>3. CASE VolumeDisplay(cs, n) = "Stacked"
  <2> DEFINE rows == DisplayRows(cs, n)
  <2>1. \A a : a \in Bars(cs, id, n) <=>
            \E i \in DOMAIN rows : \E m \in DOMAIN rows[i] : a = Bar(id, i, rows[i][m] - 1)
    BY <1>3, BarsOfDisplay
  <2>2. \A i, d : Bar(id, i, d).of = d /\ Bar(id, i, d).channel = d
    BY AreaFacts DEF Bar
  <2> QED
    BY <2>1, <2>2
<1> QED
  BY <1>1, <1>2, <1>3, Displays

LEMMA BarOnce ==
    ASSUME NEW n \in NodeShape, Agrees(n), NEW cs, NEW id, NEW c \in DOMAIN n.volumes
    PROVE  Cardinality({a \in Bars(cs, id, n) : a.of \in {c - 1, None}}) = 1
<1> DEFINE P == {a \in Bars(cs, id, n) : a.of \in {c - 1, None}}
<1>0. /\ DOMAIN n.volumes = 1 .. Len(n.volumes) /\ Len(n.volumes) \in Nat
      /\ \A d \in DOMAIN n.volumes : d \in Nat /\ d - 1 \in Nat /\ d - 1 # None
      /\ \A d, e \in DOMAIN n.volumes : d - 1 = e - 1 => d = e
  BY NodeFacts, IdAssumption
<1>1. CASE VolumeDisplay(cs, n) = "Unified"
  <2> DEFINE bar == Area(id, 0, PressOrDrag, None, "SetAbsoluteVolume", None)
  <2>1. Bars(cs, id, n) = {bar} /\ bar.of = None /\ bar.channel = None
    BY <1>1, BarsOfDisplay, AreaFacts
  <2> HIDE DEF bar
  <2>2. bar \in P /\ \A y \in P : y = bar
    BY <2>1
  <2> HIDE DEF P
  <2>3. Cardinality(P) = 1
    BY <2>2, AloneFacts
  <2> QED
    BY <2>3 DEF P
<1>2. CASE VolumeDisplay(cs, n) = "Radiating"
  <2> DEFINE gs == GroupChannels(n.positions)
             Half(k) == Area(id, 0, PressOrDrag, None, "SetChannelAbsoluteVolume", gs[1][k] - 1)
  <2>1. Bars(cs, id, n) = {Half(k) : k \in DOMAIN gs[1]}
    BY <1>2, BarsOfDisplay
  <2>2. \A k : Half(k).of = gs[1][k] - 1 /\ Half(k).channel = None
    BY AreaFacts
  <2>3. SinglePair(n) /\ n.positions # None
    BY <1>2, Displays DEF SinglePair
  <2>4. Covering(DOMAIN n.volumes, gs) /\ Len(gs) = 1
    BY <2>3, NodeFacts DEF SinglePair
  <2> HIDE DEF gs, Half
  <2>5. gs \in Seq(Groups(DOMAIN n.volumes)) /\ DOMAIN gs = {1} /\ gs[1] \in Groups(DOMAIN n.volumes)
    <3> DEFINE G == Groups(DOMAIN n.volumes)
    <3>1. gs \in Seq(G)
      BY <2>4 DEF Covering
    <3> HIDE DEF G
    <3>2. DOMAIN gs = {1} /\ gs[1] \in G
      BY <2>4, <3>1
    <3> QED
      BY <3>1, <3>2 DEF G
  <2>6. \A k \in DOMAIN gs[1] : gs[1][k] \in DOMAIN n.volumes
    BY <2>5, GroupFacts
  <2>7. PICK k \in DOMAIN gs[1] : gs[1][k] = c
    BY <2>4, <2>5 DEF Covering, Holds
  <2>8. Half(k) \in P
    BY <2>1, <2>2, <2>7
  <2>9. ASSUME NEW y \in P PROVE y = Half(k)
    <3>1. PICK m \in DOMAIN gs[1] : y = Half(m)
      BY <2>1, <2>9
    <3>2. gs[1][m] = c
      BY <1>0, <2>2, <2>6, <2>9, <3>1
    <3>3. m = k
      BY <2>4, <2>5, <2>7, <3>2 DEF Covering, Once
    <3> QED
      BY <3>1, <3>3
  <2> HIDE DEF P
  <2>10. Cardinality(P) = 1
    BY <2>8, <2>9, AloneFacts
  <2> QED
    BY <2>10 DEF P
<1>3. CASE VolumeDisplay(cs, n) = "Stacked"
  <2> DEFINE rows == DisplayRows(cs, n)
  <2>1. \A a : a \in Bars(cs, id, n) <=>
            \E i \in DOMAIN rows : \E m \in DOMAIN rows[i] : a = Bar(id, i, rows[i][m] - 1)
    BY <1>3, BarsOfDisplay
  <2>2. Covering(DOMAIN n.volumes, rows)
    BY RowsCover
  <2> HIDE DEF rows
  <2>3. \A i \in DOMAIN rows : \A m \in DOMAIN rows[i] : rows[i][m] \in DOMAIN n.volumes
    <3>1. \A i \in DOMAIN rows : rows[i] \in Groups(DOMAIN n.volumes)
      BY <2>2 DEF Covering
    <3> QED
      BY <3>1, GroupFacts
  <2>4. \A i, d : Bar(id, i, d).of = d /\ Bar(id, i, d).channel = d
    BY AreaFacts DEF Bar
  <2>5. PICK i \in DOMAIN rows : \E m \in DOMAIN rows[i] : rows[i][m] = c
    BY <2>2 DEF Covering, Holds
  <2>6. Bar(id, i, c - 1) \in P
    BY <2>1, <2>4, <2>5
  <2>7. ASSUME NEW y \in P PROVE y = Bar(id, i, c - 1)
    <3>1. PICK j \in DOMAIN rows : \E k \in DOMAIN rows[j] : y = Bar(id, j, rows[j][k] - 1)
      BY <2>1, <2>7
    <3>2. PICK k \in DOMAIN rows[j] : y = Bar(id, j, rows[j][k] - 1)
      BY <3>1
    <3>3. rows[j][k] = c
      BY <1>0, <2>3, <2>4, <2>7, <3>2
    <3>4. j = i
      BY <2>2, <2>5, <3>3 DEF Covering, Once
    <3> QED
      BY <3>2, <3>3, <3>4
  <2> HIDE DEF P
  <2>8. Cardinality(P) = 1
    BY <2>6, <2>7, AloneFacts
  <2> QED
    BY <2>8 DEF P
<1> QED
  BY <1>1, <1>2, <1>3, Displays

-----------------------------------------------------------------------------
(* The invariant.                                                          *)

(* A view: of every object listed it has the node.                         *)
Views == [node : [Id -> NodeShape \cup {None}], ids : [Tab -> Seq(Id)]]

ViewOK(v) ==
    /\ v \in Views
    /\ \A t \in Tab : Distinct(Ids(v, t))
    /\ \A t \in Tab : \A i \in DOMAIN Ids(v, t) : v.node[Ids(v, t)[i]] # None

(* A list: a dropdown is open for an object that offers targets.           *)
ListOK(l) ==
    /\ l \in List
    /\ l.index = None <=> l.owner = None
    /\ l.owner # None => TargetCount[l.owner] # 0

ListInv ==
    /\ TypeOK
    /\ ViewOK(view)
    /\ \A t \in Tab : ListOK(lists[t])

-----------------------------------------------------------------------------
LEMMA NoneFacts == None \notin Nat /\ None \notin Id /\ Id \subseteq Nat /\ IsFiniteSet(Id)
BY IdAssumption

LEMMA GreatestNumber ==
    ASSUME NEW S, IsFiniteSet(S), S \subseteq Nat, S # {}
    PROVE  \E x \in S : \A y \in S : y <= x
<1> DEFINE Above(x) == {y \in S : y > x}
           sizes == {Cardinality(Above(x)) : x \in S}
<1>1. \A x \in S : IsFiniteSet(Above(x)) /\ Cardinality(Above(x)) \in Nat
  <2> SUFFICES ASSUME NEW x \in S PROVE IsFiniteSet(Above(x)) /\ Cardinality(Above(x)) \in Nat
    OBVIOUS
  <2>1. Above(x) \in SUBSET S
    OBVIOUS
  <2> HIDE DEF Above
  <2> QED
    BY <2>1, FS_Subset, FS_CardinalityType
<1>2. sizes \subseteq Nat /\ sizes # {}
  <2> HIDE DEF Above
  <2> QED
    BY <1>1
<1>3. PICK x \in S : \A y \in S : Cardinality(Above(x)) <= Cardinality(Above(y))
  <2> HIDE DEF Above
  <2>1. Least(sizes) \in sizes /\ \A y \in sizes : Least(sizes) <= y
    BY <1>2, LeastNumber
  <2> QED
    BY <2>1
<1>4. ASSUME NEW y \in S, ~(y <= x) PROVE FALSE
  <2>1. y \in Above(x) /\ y \notin Above(y) /\ \A z \in Above(y) : z \in Above(x)
    BY <1>4
  <2>2. IsFiniteSet(Above(x)) /\ Cardinality(Above(x)) \in Nat /\ Cardinality(Above(y)) \in Nat
    BY <1>1
  <2>3. Cardinality(Above(x)) <= Cardinality(Above(y))
    BY <1>3
  <2> HIDE DEF Above
  <2>4. Above(y) \in SUBSET Above(x) /\ Above(y) # Above(x)
    BY <2>1
  <2>5. Cardinality(Above(y)) <= Cardinality(Above(x)) /\ Cardinality(Above(y)) # Cardinality(Above(x))
    BY <2>2, <2>4, FS_Subset
  <2> QED
    BY <2>2, <2>3, <2>5
<1> QED
  BY <1>4

LEMMA LastIndexType == Id # {} => LastIndex \in Nat /\ LastIndex > 0
<1> SUFFICES ASSUME Id # {} PROVE LastIndex \in Nat /\ LastIndex > 0
  OBVIOUS
<1> DEFINE C == {TargetCount[id] : id \in Id}
           m == CHOOSE n \in C : \A id \in Id : TargetCount[id] <= n
<1>1. C \subseteq Nat /\ C # {} /\ IsFiniteSet(C)
  <2> DEFINE F == [id \in Id |-> TargetCount[id]]
  <2>1. F \in Surjection(Id, C)
    BY DEF Surjection
  <2>2. IsFiniteSet(C)
    <3> HIDE DEF F, C
    <3> QED
      BY <2>1, NoneFacts, FS_Surjection
  <2> QED
    BY <2>2, TargetAssumption
<1>2. \E x \in C : \A y \in C : y <= x
  <2> HIDE DEF C
  <2> QED
    BY <1>1, GreatestNumber
<1>3. \E x \in C : \A id \in Id : TargetCount[id] <= x
  BY <1>2
<1>4. m \in C
  BY <1>3
<1>5. LastIndex = 1 + m
  BY DEF LastIndex
<1> HIDE DEF m, C
<1> QED
  BY <1>1, <1>4, <1>5

-----------------------------------------------------------------------------
(* View.                                                                   *)
LEMMA IdsFacts ==
    ASSUME NEW v, ViewOK(v), NEW t \in Tab
    PROVE  /\ Ids(v, t) \in Seq(Id) /\ Len(Ids(v, t)) \in Nat
           /\ DOMAIN Ids(v, t) = 1 .. Len(Ids(v, t))
           /\ \A i \in DOMAIN Ids(v, t) :
                 Ids(v, t)[i] \in Id /\ v.node[Ids(v, t)[i]] \in NodeShape
           /\ Distinct(Ids(v, t))
<1>1. Ids(v, t) \in Seq(Id) /\ v.node \in [Id -> NodeShape \cup {None}]
  BY DEF ViewOK, Views, Ids
<1> DEFINE ids == Ids(v, t)
<1>2. ids \in Seq(Id) /\ Distinct(ids) /\ \A i \in DOMAIN ids : v.node[ids[i]] # None
  BY <1>1 DEF ViewOK
<1> HIDE DEF ids
<1> QED
  BY <1>1, <1>2 DEF ids

LEMMA ViewOfOK == TypeOK => ViewOK(ViewOf)
<1> SUFFICES ASSUME TypeOK PROVE ViewOK(ViewOf)
  OBVIOUS
<1> DEFINE S(t) == {id \in InTab[t] : nodes[id] # None}
<1>1. \A t \in Tab : InTab[t] \subseteq Id
  BY TabAssumption DEF Tab
<1>2. \A t \in Tab : IsFiniteSet(S(t)) /\ S(t) \subseteq Nat /\ S(t) \subseteq Id
  BY <1>1, NoneFacts, FS_Subset
<1>3. ViewOf.node = nodes /\ ViewOf.ids = [t \in Tab |-> Order(S(t))]
      /\ ViewOf = [node |-> nodes, ids |-> [t \in Tab |-> Order(S(t))]]
  BY DEF ViewOf
<1>4. \A t \in Tab : Ids(ViewOf, t) = Order(S(t))
  BY <1>3 DEF Ids
<1>5. \A t \in Tab : \A id \in S(t) : nodes[id] # None
  OBVIOUS
<1> HIDE DEF S
<1>6. \A t \in Tab : Order(S(t)) \in Seq(S(t)) /\ Distinct(Order(S(t)))
  BY <1>2, OrderSeq
<1>7. \A t \in Tab : Order(S(t)) \in Seq(Id)
  BY <1>2, <1>6
<1>8. [t \in Tab |-> Order(S(t))] \in [Tab -> Seq(Id)]
  BY <1>7
<1>9. ViewOf \in Views
  BY <1>3, <1>8 DEF Views, TypeOK
<1>10. \A t \in Tab : \A i \in DOMAIN Order(S(t)) : nodes[Order(S(t))[i]] # None
  <2> SUFFICES ASSUME NEW t \in Tab, NEW i \in DOMAIN Order(S(t)) PROVE Order(S(t))[i] \in S(t)
    BY <1>5
  <2> QED
    BY <1>6
<1> QED
  BY <1>3, <1>4, <1>6, <1>9, <1>10 DEF ViewOK

LEMMA PositionFacts ==
    ASSUME NEW v, ViewOK(v), NEW t \in Tab, NEW id
    PROVE  /\ Position(v, t, id) \in Nat \cup {None}
           /\ Position(v, t, id) # None <=> \E i \in DOMAIN Ids(v, t) : Ids(v, t)[i] = id
           /\ Position(v, t, id) # None =>
                /\ Position(v, t, id) \in Nat /\ Position(v, t, id) < Len(Ids(v, t))
                /\ Ids(v, t)[Position(v, t, id) + 1] = id
           /\ \A i \in DOMAIN Ids(v, t) : Ids(v, t)[i] = id => Position(v, t, id) = i - 1
<1> DEFINE ids == Ids(v, t)
           at == CHOOSE i \in DOMAIN ids : ids[i] = id
<1>1. Len(ids) \in Nat /\ DOMAIN ids = 1 .. Len(ids) /\ Distinct(ids)
  BY IdsFacts
<1>2. Position(v, t, id) = IF \E i \in DOMAIN ids : ids[i] = id THEN at - 1 ELSE None
  BY DEF Position
<1>3. (\E i \in DOMAIN ids : ids[i] = id) => at \in DOMAIN ids /\ ids[at] = id
  OBVIOUS
<1> HIDE DEF ids, at
<1>4. (\E i \in DOMAIN ids : ids[i] = id) =>
        /\ at \in Nat /\ at - 1 \in Nat /\ at - 1 < Len(ids) /\ at - 1 # None /\ (at - 1) + 1 = at
        /\ Position(v, t, id) = at - 1
  BY <1>1, <1>2, <1>3, NoneFacts
<1>5. \A i \in DOMAIN ids : ids[i] = id => i = at
  BY <1>1, <1>3 DEF Distinct
<1> QED
  BY <1>2, <1>3, <1>4, <1>5 DEF ids

LEMMA IdAtType ==
    ASSUME NEW v, ViewOK(v), NEW t \in Tab, NEW i \in Nat
    PROVE  IdAt(v, t, i) \in Id \cup {None}
<1> DEFINE ids == Ids(v, t)
<1>1. Len(ids) \in Nat /\ DOMAIN ids = 1 .. Len(ids) /\ \A k \in DOMAIN ids : ids[k] \in Id
  BY IdsFacts
<1>2. IdAt(v, t, i) = IF i < Len(ids) THEN ids[i + 1] ELSE None
  BY DEF IdAt
<1> HIDE DEF ids
<1> QED
  BY <1>1, <1>2

LEMMA MonusType == \A a, b \in Nat : Monus(a, b) \in Nat
BY DEF Monus

LEMMA NeighbourType ==
    ASSUME NEW v, ViewOK(v), NEW t \in Tab, NEW id
    PROVE  NextId(v, t, id) \in Id \cup {None} /\ PreviousId(v, t, id) \in Id \cup {None}
<1> DEFINE i == Position(v, t, id)
<1>1. i \in Nat \cup {None}
  BY PositionFacts
<1>2. NextId(v, t, id) = IF id = None THEN IdAt(v, t, 0) ELSE IF i = None THEN None ELSE IdAt(v, t, i + 1)
  BY DEF NextId
<1>3. PreviousId(v, t, id) =
        IF id = None THEN IdAt(v, t, 0) ELSE IF i = None THEN None ELSE IdAt(v, t, Monus(i, 1))
  BY DEF PreviousId
<1> HIDE DEF i
<1>4. i # None => i + 1 \in Nat /\ Monus(i, 1) \in Nat
  BY <1>1 DEF Monus
<1> QED
  BY <1>1, <1>2, <1>3, <1>4, IdAtType

LEMMA CountType ==
    ASSUME NEW v, ViewOK(v), NEW id \in Id
    PROVE  ChannelCount(v, id) \in Nat
<1>1. v.node[id] \in NodeShape \cup {None}
  BY DEF ViewOK, Views
<1>2. v.node[id] # None => v.node[id].volumes \in Seq(Nat)
  BY <1>1 DEF NodeShape
<1> QED
  BY <1>2 DEF ChannelCount

LEMMA InitialType ==
    ASSUME NEW v, ViewOK(v), NEW l, NEW id \in Id \cup {None}, NEW fromEnd
    PROVE  InitialChannel(v, l, id, fromEnd) \in Nat \cup {None}
<1>1. id # None => ChannelCount(v, id) \in Nat
  BY CountType
<1> QED
  BY <1>1 DEF InitialChannel

-----------------------------------------------------------------------------
(* ObjectList.                                                             *)
LEMMA ListFields ==
    ASSUME NEW l \in List
    PROVE  /\ l.top \in Nat /\ l.selected \in Id \cup {None} /\ l.channel \in Nat \cup {None}
           /\ l.view \in ChannelView /\ l.index \in Nat \cup {None} /\ l.owner \in Id \cup {None}
           /\ l.page \in Nat
BY DEF List

LEMMA ClosedOK == ASSUME NEW l \in List PROVE ListOK(Closed(l))
<1> DEFINE r == Closed(l)
<1>1. r \in List /\ r.index = None /\ r.owner = None
  BY DEF Closed, List
<1> HIDE DEF r
<1> QED
  BY <1>1 DEF ListOK, r

LEMMA SameList ==
    ASSUME NEW l \in List, NEW r \in List,
           l.top = r.top, l.selected = r.selected, l.channel = r.channel, l.view = r.view,
           l.index = r.index, l.owner = r.owner, l.page = r.page
    PROVE  l = r
BY DEF List

(* What select() makes of a list.                                          *)
IsSelection(r, l, id, c) ==
    /\ r \in List
    /\ r.selected = id /\ r.channel = c /\ r.index = None /\ r.owner = None
    /\ r.top = l.top /\ r.view = l.view /\ r.page = l.page

LEMMA SelectOK ==
    ASSUME NEW v, ViewOK(v), NEW l \in List, NEW id \in Id \cup {None}, NEW fromEnd
    PROVE  /\ ListOK(Select(v, l, id, fromEnd))
           /\ IsSelection(Select(v, l, id, fromEnd), l, id, InitialChannel(v, l, id, fromEnd))
<1> DEFINE c == InitialChannel(v, l, id, fromEnd)
           m == [l EXCEPT !.selected = id, !.channel = c]
           r == Select(v, l, id, fromEnd)
<1>1. c \in Nat \cup {None}
  BY InitialType
<1>2. r = Closed(m)
  BY DEF Select
<1> HIDE DEF c, r
<1>3. /\ m \in List /\ m.selected = id /\ m.channel = c
      /\ m.top = l.top /\ m.view = l.view /\ m.page = l.page
  BY <1>1 DEF List
<1> HIDE DEF m
<1>4. /\ Closed(m) \in List
      /\ Closed(m).selected = m.selected /\ Closed(m).channel = m.channel
      /\ Closed(m).index = None /\ Closed(m).owner = None
      /\ Closed(m).top = m.top /\ Closed(m).view = m.view /\ Closed(m).page = m.page
  BY <1>3 DEF Closed, List
<1>5. ListOK(Closed(m))
  BY <1>3, ClosedOK
<1> QED
  BY <1>2, <1>3, <1>4, <1>5 DEF c, r, IsSelection

LEMMA SelectSomeOK ==
    ASSUME NEW v, ViewOK(v), NEW l, ListOK(l), NEW id \in Id \cup {None}, NEW fromEnd
    PROVE  ListOK(SelectSome(v, l, id, fromEnd))
BY SelectOK DEF SelectSome, ListOK

LEMMA IndexOK ==
    ASSUME NEW l, ListOK(l), l.index # None, NEW i \in Nat
    PROVE  ListOK([l EXCEPT !.index = i])
<1> DEFINE r == [l EXCEPT !.index = i]
<1>1. r \in List /\ r.index = i /\ r.owner = l.owner
  BY DEF ListOK, List
<1> HIDE DEF r
<1> QED
  BY <1>1, NoneFacts DEF ListOK, r

LEMMA OpenFacts ==
    ASSUME NEW l, ListOK(l), l.index # None
    PROVE  /\ l.index \in Nat /\ l.owner \in Id /\ TargetCount[l.owner] \in Nat \ {0}
           /\ LastIndex \in Nat
<1>1. l.index \in Nat /\ l.owner \in Id /\ TargetCount[l.owner] # 0
  BY ListFields DEF ListOK
<1> QED
  BY <1>1, TargetAssumption, LastIndexType

LEMMA StepIndexOK ==
    ASSUME NEW l, ListOK(l), l.index # None, NEW up
    PROVE  ListOK(StepIndex(l, up))
<1> DEFINE i == IF up THEN Monus(l.index, 1)
                ELSE IF l.index < LastIndex THEN l.index + 1 ELSE l.index
<1>1. i \in Nat
  <2>1. l.index \in Nat /\ LastIndex \in Nat
    BY OpenFacts
  <2>2. Monus(l.index, 1) \in Nat /\ l.index + 1 \in Nat
    BY <2>1 DEF Monus
  <2> QED
    BY <2>1, <2>2
<1>2. StepIndex(l, up) = [l EXCEPT !.index = i]
  BY DEF StepIndex, ListOK, List
<1> HIDE DEF i
<1> QED
  BY <1>1, <1>2, IndexOK

LEMMA ChannelOK ==
    ASSUME NEW l, ListOK(l), NEW c \in Nat \cup {None}
    PROVE  ListOK([l EXCEPT !.channel = c])
<1> DEFINE r == [l EXCEPT !.channel = c]
<1>1. r \in List /\ r.index = l.index /\ r.owner = l.owner
  BY DEF ListOK, List
<1> HIDE DEF r
<1> QED
  BY <1>1 DEF ListOK, r

LEMMA SelectedOK ==
    ASSUME NEW l, ListOK(l), NEW id \in Id
    PROVE  ListOK([l EXCEPT !.selected = id])
<1> DEFINE r == [l EXCEPT !.selected = id]
<1>1. r \in List /\ r.index = l.index /\ r.owner = l.owner
  BY DEF ListOK, List
<1> HIDE DEF r
<1> QED
  BY <1>1 DEF ListOK, r

LEMMA DownOK ==
    ASSUME NEW v, ViewOK(v), NEW t \in Tab, NEW l, ListOK(l)
    PROVE  ListOK(Down(v, t, l))
<1>1. NextId(v, t, l.selected) \in Id \cup {None}
  BY NeighbourType
<1>2. ListOK(SelectSome(v, l, NextId(v, t, l.selected), FALSE))
  BY <1>1, SelectSomeOK
<1>3. l.channel \in Nat \cup {None}
  BY ListFields DEF ListOK
<1>4. l.channel # None => ListOK([l EXCEPT !.channel = l.channel + 1])
  BY <1>3, ChannelOK
<1>5. [l EXCEPT !.channel = @ + 1] = [l EXCEPT !.channel = l.channel + 1]
  BY DEF ListOK, List
<1> QED
  BY <1>2, <1>4, <1>5, StepIndexOK DEF Down

LEMMA UpOK ==
    ASSUME NEW v, ViewOK(v), NEW t \in Tab, NEW l, ListOK(l)
    PROVE  ListOK(Up(v, t, l))
<1>1. PreviousId(v, t, l.selected) \in Id \cup {None}
  BY NeighbourType
<1>2. ListOK(SelectSome(v, l, PreviousId(v, t, l.selected), TRUE))
  BY <1>1, SelectSomeOK
<1>3. l.channel \in Nat \cup {None}
  BY ListFields DEF ListOK
<1>4. l.channel \notin {None, 0} => ListOK([l EXCEPT !.channel = l.channel - 1])
  <2>1. l.channel \notin {None, 0} => l.channel - 1 \in Nat \cup {None}
    BY <1>3
  <2> QED
    BY <2>1, ChannelOK
<1>5. [l EXCEPT !.channel = @ - 1] = [l EXCEPT !.channel = l.channel - 1]
  BY DEF ListOK, List
<1> QED
  BY <1>2, <1>4, <1>5, StepIndexOK DEF Up

LEMMA PagedType ==
    ASSUME NEW v, ViewOK(v), NEW t \in Tab, NEW l, ListOK(l), NEW up
    PROVE  Paged(v, t, l, up) \in Id \cup {None}
<1> DEFINE n == IF l.page = 0 THEN 1 ELSE l.page
           T == Id \cup {None}
           Neighbour(id) == IF up THEN PreviousId(v, t, id) ELSE NextId(v, t, id)
           Walk(id) == IF Neighbour(id) = None THEN id ELSE Neighbour(id)
           step == [i \in Nat |-> [id \in T |-> Walk(id)]]
           a == l.selected
           Is(f) == f = [i \in 0 .. n |->
                           IF i = 0 THEN l.selected
                           ELSE LET id == IF up THEN PreviousId(v, t, f[i - 1])
                                          ELSE NextId(v, t, f[i - 1])
                                IN  IF id = None THEN f[i - 1] ELSE id]
<1>1. a \in T /\ n \in Nat
  BY ListFields DEF ListOK
<1>2. \A id \in T : Walk(id) \in T
  BY NeighbourType
<1>3. \A f : Is(f) <=> f = [i \in 0 .. n |-> IF i = 0 THEN a ELSE Walk(f[i - 1])]
  OBVIOUS
<1>4. Paged(v, t, l, up) = (CHOOSE f : Is(f))[n]
  BY DEF Paged
<1> HIDE DEF T, n, a, Walk, Neighbour
<1>5. step \in Steps(T)
  BY <1>2 DEF Steps
<1>6. PICK g \in [0 .. n -> T] : g[0] = a /\ \A i \in 1 .. n : g[i] = step[i][g[i - 1]]
  <2> HIDE DEF step, Is
  <2>1. Iterated(T, a, step, n) # {}
    BY <1>1, <1>5, Iterates
  <2> QED
    BY <2>1 DEF Iterated
<1>7. \A i \in 1 .. n : g[i] = Walk(g[i - 1])
  <2> SUFFICES ASSUME NEW i \in 1 .. n PROVE g[i] = Walk(g[i - 1])
    OBVIOUS
  <2>1. i \in Nat /\ g[i - 1] \in T
    BY <1>1, <1>6
  <2>2. step[i][g[i - 1]] = Walk(g[i - 1])
    BY <2>1
  <2> QED
    BY <1>6, <2>2
<1>8. Is(g)
  <2> DEFINE e(i) == IF i = 0 THEN a ELSE Walk(g[i - 1])
  <2> HIDE DEF Is
  <2>1. \A i \in 0 .. n : g[i] = e(i)
    BY <1>1, <1>6, <1>7
  <2> HIDE DEF e
  <2>2. g = [i \in 0 .. n |-> e(i)]
    BY <1>6, <2>1
  <2> QED
    BY <1>3, <2>2 DEF e
<1> DEFINE f == CHOOSE f : Is(f)
<1>9. Is(f)
  <2> HIDE DEF Is
  <2> QED
    BY <1>8
<1>10. f[0] = a /\ \A i \in 1 .. n : f[i] = Walk(f[i - 1])
  <2> HIDE DEF f, Is
  <2>1. f = [i \in 0 .. n |-> IF i = 0 THEN a ELSE Walk(f[i - 1])]
    BY <1>3, <1>9
  <2> QED
    BY <1>1, <2>1
<1>11. \A k \in 0 .. n : f[k] \in T
  <2> DEFINE S == {k \in Nat : k <= n => f[k] \in T}
  <2> HIDE DEF f, Is, step
  <2>1. 0 \in S
    BY <1>1, <1>10
  <2>2. ASSUME NEW k \in Nat, k \in S PROVE k + 1 \in S
    <3>1. CASE k + 1 <= n
      <4>1. f[k] \in T /\ f[k + 1] = Walk(f[k])
        BY <1>1, <1>10, <2>2, <3>1
      <4> QED
        BY <1>2, <4>1
    <3>2. CASE ~(k + 1 <= n)
      BY <3>2
    <3> QED
      BY <3>1, <3>2
  <2>3. Nat \subseteq S
    <3> HIDE DEF S
    <3> QED
      BY <2>1, <2>2, NatSet
  <2> QED
    BY <1>1, <2>3
<1> HIDE DEF f, Is
<1>12. f[n] \in T
  BY <1>1, <1>11
<1> QED
  BY <1>4, <1>12 DEF f, T

LEMMA PagesOK ==
    ASSUME NEW v, ViewOK(v), NEW t \in Tab, NEW l, ListOK(l)
    PROVE  /\ ListOK(PageDown(v, t, l)) /\ ListOK(PageUp(v, t, l))
           /\ ListOK(First(v, t, l)) /\ ListOK(Last(v, t, l))
<1>1. ListOK(PageDown(v, t, l)) /\ ListOK(PageUp(v, t, l))
  BY StepIndexOK, SelectSomeOK, PagedType DEF PageDown, PageUp
<1>2. IdAt(v, t, 0) \in Id \cup {None} /\ IdAt(v, t, Monus(Len(Ids(v, t)), 1)) \in Id \cup {None}
  <2>1. Monus(Len(Ids(v, t)), 1) \in Nat
    BY IdsFacts, MonusType
  <2> QED
    BY <2>1, IdAtType
<1>3. ListOK(First(v, t, l)) /\ ListOK(Last(v, t, l))
  BY <1>2, IndexOK, OpenFacts, SelectSomeOK DEF First, Last
<1> QED
  BY <1>1, <1>3

LEMMA SelectViewOK ==
    ASSUME NEW v, ViewOK(v), NEW l, ListOK(l), NEW cv \in ChannelView
    PROVE  ListOK(SelectView(v, l, cv))
<1> DEFINE c == InitialChannel(v, [l EXCEPT !.view = cv], l.selected, FALSE)
           r == [l EXCEPT !.view = cv, !.channel = c]
<1>1. l.selected \in Id \cup {None} /\ l \in List
  BY ListFields DEF ListOK
<1>2. c \in Nat \cup {None}
  BY <1>1, InitialType
<1>3. SelectView(v, l, cv) = r
  BY DEF SelectView
<1> HIDE DEF c
<1>4. r \in List /\ r.index = l.index /\ r.owner = l.owner
  BY <1>1, <1>2 DEF List
<1> HIDE DEF r
<1> QED
  BY <1>3, <1>4 DEF ListOK

LEMMA CycleViewOK ==
    ASSUME NEW v, ViewOK(v), NEW l, ListOK(l)
    PROVE  ListOK(CycleView(v, l))
<1> DEFINE at == {i \in DOMAIN ViewCycle : ViewCycle[i] = l.view}
           cv == IF ViewCycle = <<>> THEN "Unified"
                 ELSE IF at = {} THEN ViewCycle[1]
                 ELSE ViewCycle[(Least(at) % Len(ViewCycle)) + 1]
<1>1. ViewCycle \in Seq(ChannelView) /\ "Unified" \in ChannelView
  BY ViewAssumption DEF ChannelView
<1>2. Len(ViewCycle) \in Nat /\ DOMAIN ViewCycle = 1 .. Len(ViewCycle)
      /\ (ViewCycle # <<>> => Len(ViewCycle) > 0)
      /\ \A i \in 1 .. Len(ViewCycle) : ViewCycle[i] \in ChannelView
  BY <1>1
<1>3. at \subseteq Nat
  BY <1>2
<1>4. at # {} => Least(at) \in Nat
  <2> HIDE DEF at
  <2> QED
    BY <1>3, LeastNumber
<1>5. CycleView(v, l) = SelectView(v, l, cv)
  BY DEF CycleView
<1> HIDE DEF at
<1>6. ViewCycle # <<>> /\ at # {} => (Least(at) % Len(ViewCycle)) + 1 \in 1 .. Len(ViewCycle)
  <2> DEFINE x == Least(at)
             n == Len(ViewCycle)
  <2>1. ASSUME ViewCycle # <<>>, at # {} PROVE x \in Nat /\ n \in Nat /\ n > 0
    BY <1>2, <1>4, <2>1
  <2> HIDE DEF x, n
  <2>2. x \in Nat /\ n \in Nat /\ n > 0 => (x % n) + 1 \in 1 .. n
    OBVIOUS
  <2> QED
    BY <2>1, <2>2 DEF x, n
<1>7. cv \in ChannelView
  BY <1>1, <1>2, <1>6
<1> HIDE DEF cv
<1> QED
  BY <1>5, <1>7, SelectViewOK

LEMMA ReleaseOK ==
    ASSUME NEW v, ViewOK(v), NEW t \in Tab, NEW l, ListOK(l), NEW id
    PROVE  ListOK(ReleaseHidden(v, t, l, id))
<1> DEFINE next == NextId(v, t, id)
           previous == PreviousId(v, t, id)
           to == IF next \notin {None, id} THEN next ELSE IF previous # id THEN previous ELSE None
<1>1. to \in Id \cup {None} /\ l \in List
  BY NeighbourType DEF ListOK
<1>2. ReleaseHidden(v, t, l, id) = Select(v, l, to, FALSE)
  BY DEF ReleaseHidden
<1> HIDE DEF to
<1>3. ListOK(Select(v, l, to, FALSE))
  BY <1>1, SelectOK
<1> QED
  BY <1>2, <1>3

LEMMA ActivateOK ==
    ASSUME NEW v, ViewOK(v), NEW t, NEW l, ListOK(l), NEW i \in 0 .. LastIndex
    PROVE  ListOK(Activate(v, t, l, i))
<1> DEFINE r == [l EXCEPT !.index = i, !.owner = l.selected]
<1>1. CASE Activate(v, t, l, i) = Closed(l)
  BY <1>1, ClosedOK DEF ListOK
<1>2. CASE Activate(v, t, l, i) = l
  BY <1>2
<1>3. CASE Activate(v, t, l, i) = r /\ l.selected # None /\ TargetCount[l.selected] # 0
  <2>1. l.selected \in Id /\ i \in Nat
    BY <1>3, ListFields, LastIndexType DEF ListOK
  <2>2. r \in List /\ r.index = i /\ r.owner = l.selected
    BY <2>1 DEF ListOK, List
  <2> HIDE DEF r
  <2> QED
    BY <1>3, <2>1, <2>2, NoneFacts DEF ListOK
<1> QED
  BY <1>1, <1>2, <1>3 DEF Activate

-----------------------------------------------------------------------------
(* update() and render().                                                  *)

LEMMA VisibleCountType ==
    ASSUME NEW v, ViewOK(v), NEW t \in Tab, NEW l \in List, NEW rows
    PROVE  VisibleCount(v, t, l, rows) \in Nat
<1> DEFINE heights == ItemHeights(v, t, l)
           used == Used(heights)
<1>1. Monus(Len(Ids(v, t)), l.top) \in Nat
  BY IdsFacts, ListFields, MonusType
<1>2. heights \in Seq({heights[i] : i \in DOMAIN heights})
  BY <1>1 DEF ItemHeights
<1>3. Len(heights) \in Nat
  BY <1>2
<1> HIDE DEF heights, used
<1>4. IsFiniteSet({k \in 1 .. Len(heights) : used[k] <= rows})
  <2>1. IsFiniteSet(1 .. Len(heights))
    BY <1>3, FS_Interval
  <2>2. {k \in 1 .. Len(heights) : used[k] <= rows} \subseteq 1 .. Len(heights)
    OBVIOUS
  <2> QED
    BY <2>1, <2>2, FS_Subset
<1>5. Cardinality({k \in 1 .. Len(heights) : used[k] <= rows}) \in Nat
  BY <1>4, FS_CardinalityType
<1> QED
  BY <1>5 DEF VisibleCount, heights, used

(* The list update() reconciles with the view, before it moves the top.    *)
Kept(v, t, l) == IF Position(v, t, l.selected) # None THEN l
                 ELSE Select(v, l, NextId(v, t, None), FALSE)

LEMMA KeptOK ==
    ASSUME NEW v, ViewOK(v), NEW t \in Tab, NEW l, ListOK(l)
    PROVE  /\ ListOK(Kept(v, t, l))
           /\ Kept(v, t, l).top = l.top /\ Kept(v, t, l).view = l.view
           /\ Position(v, t, l.selected) # None => Kept(v, t, l) = l
           /\ Position(v, t, l.selected) = None =>
                /\ Kept(v, t, l).selected = IF Ids(v, t) = <<>> THEN None ELSE Ids(v, t)[1]
                /\ Kept(v, t, l).index = None
<1>1. CASE Position(v, t, l.selected) # None
  BY <1>1 DEF Kept
<1>2. CASE Position(v, t, l.selected) = None
  <2> DEFINE id == NextId(v, t, None)
             r == Select(v, l, id, FALSE)
  <2>1. id \in Id \cup {None} /\ l \in List
    BY NeighbourType DEF ListOK
  <2>2. Kept(v, t, l) = r
    BY <1>2 DEF Kept
  <2>3. id = IF Ids(v, t) = <<>> THEN None ELSE Ids(v, t)[1]
    <3>1. Ids(v, t) \in Seq(Id) /\ Len(Ids(v, t)) \in Nat
      BY IdsFacts
    <3>2. 0 < Len(Ids(v, t)) <=> Ids(v, t) # <<>>
      BY <3>1
    <3> QED
      BY <3>2 DEF NextId, IdAt
  <2> HIDE DEF id
  <2>4. ListOK(r) /\ r.selected = id /\ r.index = None /\ r.top = l.top /\ r.view = l.view
    <3>1. ListOK(r) /\ IsSelection(r, l, id, InitialChannel(v, l, id, FALSE))
      BY <2>1, SelectOK
    <3> HIDE DEF r
    <3> QED
      BY <3>1 DEF IsSelection
  <2> QED
    BY <1>2, <2>2, <2>3, <2>4
<1> QED
  BY <1>1, <1>2

(* Where update() leaves the top.                                          *)
TopOf(v, t, s) ==
    LET at == Position(v, t, s.selected)
        len == Len(Ids(v, t))
        count == VisibleCount(v, t, s, UpdateRows)
        top == IF s.top >= len THEN Monus(len, count) ELSE s.top
    IN  IF at = None THEN top
        ELSE IF at >= top + count THEN Monus(at, Monus(count, 1))
        ELSE IF at < top THEN at ELSE top

(* update() leaves the viewport within the list, whatever it was before,   *)
(* and changes nothing else of the list it reconciled.                     *)
THEOREM UpdateInBounds ==
    ASSUME NEW v, ViewOK(v), NEW t \in Tab, NEW l, ListOK(l)
    PROVE  LET s == Kept(v, t, l)
               u == Update(v, t, l)
           IN  /\ ListOK(u) /\ u.top = TopOf(v, t, s) /\ u.top <= Len(Ids(v, t))
               /\ u.selected = s.selected /\ u.channel = s.channel /\ u.view = s.view
               /\ u.index = s.index /\ u.owner = s.owner
<1> DEFINE s == Kept(v, t, l)
           at == Position(v, t, s.selected)
           len == Len(Ids(v, t))
           count == VisibleCount(v, t, s, UpdateRows)
           top == IF s.top >= len THEN Monus(len, count) ELSE s.top
           last == TopOf(v, t, s)
           u == [s EXCEPT !.page = count, !.top = last]
<1>1. ListOK(s) /\ s \in List /\ s.top \in Nat
  BY KeptOK, ListFields DEF ListOK
<1>2. len \in Nat
  BY IdsFacts
<1>3. count \in Nat
  <2> HIDE DEF s
  <2> QED
    BY <1>1, VisibleCountType
<1>4. at # None => at \in Nat /\ at < len
  <2> HIDE DEF s
  <2> QED
    BY PositionFacts
<1>5. Update(v, t, l) = u
  BY DEF Update, Kept, TopOf
<1>6. last = IF at = None THEN top
             ELSE IF at >= top + count THEN Monus(at, Monus(count, 1))
             ELSE IF at < top THEN at ELSE top
  BY DEF TopOf
<1> HIDE DEF s, at, len, count, last
<1>7. top \in Nat /\ top <= len
  BY <1>1, <1>2, <1>3 DEF Monus
<1> HIDE DEF top
<1>8. last \in Nat /\ last <= len
  BY <1>2, <1>3, <1>4, <1>6, <1>7 DEF Monus
<1>9. /\ u \in List /\ u.top = last /\ u.selected = s.selected /\ u.channel = s.channel
      /\ u.view = s.view /\ u.index = s.index /\ u.owner = s.owner
  BY <1>1, <1>3, <1>8 DEF List
<1> HIDE DEF u
<1>10. ListOK(u)
  BY <1>1, <1>9 DEF ListOK
<1> QED
  BY <1>5, <1>8, <1>9, <1>10 DEF last, s, len

LEMMA RenderedOK ==
    ASSUME NEW v, NEW t, NEW l, ListOK(l)
    PROVE  LET r == Rendered(v, t, l)
           IN  /\ ListOK(r) /\ r.top = l.top /\ r.selected = l.selected
               /\ r.channel = l.channel /\ r.view = l.view
               /\ r.index = None <=> l.index = None
<1> DEFINE last == TargetCount[l.owner] - 1
           r == [l EXCEPT !.index = last]
<1>1. CASE Rendered(v, t, l) = l
  BY <1>1
<1>2. CASE Rendered(v, t, l) = r /\ l.index # None
  <2>1. last \in Nat
    BY <1>2, OpenFacts
  <2>2. ListOK(r)
    <3> HIDE DEF last
    <3> QED
      BY <1>2, <2>1, IndexOK
  <2>3. r.index = last /\ r.top = l.top /\ r.selected = l.selected
        /\ r.channel = l.channel /\ r.view = l.view
    BY DEF ListOK, List
  <2> HIDE DEF r, last
  <2> QED
    BY <1>2, <2>1, <2>2, <2>3, NoneFacts
<1> QED
  BY <1>1, <1>2 DEF Rendered

-----------------------------------------------------------------------------
(* Mouse areas.                                                            *)
LEMMA AreaType ==
    ASSUME NEW id \in Id, NEW row \in Nat, NEW by \in SUBSET Button,
           NEW channel \in Nat \cup {None}, NEW does \in Deed, NEW of \in Nat \cup {None}
    PROVE  Area(id, row, by, channel, does, of) \in MouseArea
BY DEF Area, MouseArea

LEMMA ButtonsAndDeeds ==
    /\ Press \in SUBSET Button /\ PressOrDrag \in SUBSET Button
    /\ {"right"} \in SUBSET Button /\ {"scroll"} \in SUBSET Button
    /\ "nothing" \in Deed /\ "SetDefault" \in Deed /\ "SetRelativeVolume" \in Deed
    /\ "ActivateDropdown" \in Deed /\ "ToggleMute" \in Deed
    /\ "SetAbsoluteVolume" \in Deed /\ "SetChannelAbsoluteVolume" \in Deed
BY DEF Press, PressOrDrag, Button, Deed

LEMMA SmallAreas ==
    ASSUME NEW id \in Id
    PROVE  /\ WholeAreas(id) \subseteq MouseArea /\ HeaderAreas(id) \subseteq MouseArea
           /\ VolumeAreas(id) \subseteq MouseArea
<1>1. /\ Area(id, 0, Press, None, "nothing", None) \in MouseArea
      /\ Area(id, 0, {"right"}, None, "SetDefault", None) \in MouseArea
      /\ Area(id, 0, {"scroll"}, None, "SetRelativeVolume", None) \in MouseArea
  BY ButtonsAndDeeds, AreaType
<1>2. /\ Area(id, 0, Press, None, "ActivateDropdown", None) \in MouseArea
      /\ Area(id, 0, Press, None, "ToggleMute", None) \in MouseArea
      /\ Area(id, 0, PressOrDrag, None, "SetAbsoluteVolume", None) \in MouseArea
  BY ButtonsAndDeeds, AreaType
<1> QED
  BY <1>1, <1>2 DEF WholeAreas, HeaderAreas, VolumeAreas

LEMMA ChannelAreasType ==
    ASSUME NEW id \in Id, NEW row \in Nat, NEW c \in Nat
    PROVE  ChannelAreas(id, row, c) \subseteq MouseArea
<1>1. /\ Area(id, row, Press, c, "ToggleMute", None) \in MouseArea
      /\ Area(id, row, PressOrDrag, c, "SetChannelAbsoluteVolume", c) \in MouseArea
  BY ButtonsAndDeeds, AreaType
<1> QED
  BY <1>1 DEF ChannelAreas

LEMMA PositionsFacts ==
    ASSUME NEW n \in NodeShape
    PROVE  /\ Len(n.volumes) \in Nat /\ DOMAIN n.volumes = 1 .. Len(n.volumes)
           /\ n.positions # None =>
                /\ n.positions \in Seq(STRING) /\ DOMAIN n.positions \subseteq Nat \ {0}
                /\ GroupChannels(n.positions) \in Seq(Groups(DOMAIN n.positions))
<1>1. n.volumes \in Seq(Nat) /\ n.positions \in Seq(STRING) \cup {None}
  BY DEF NodeShape
<1>2. n.positions # None =>
          n.positions \in Seq(STRING) /\ DOMAIN n.positions \subseteq Nat \ {0}
  BY <1>1
<1> QED
  BY <1>1, <1>2, GroupsPartition

LEMMA GroupNumbers ==
    ASSUME NEW D, D \subseteq Nat \ {0}, NEW g \in Groups(D)
    PROVE  /\ Len(g) \in {1, 2} /\ DOMAIN g = 1 .. Len(g)
           /\ \A m \in DOMAIN g : g[m] - 1 \in Nat
<1>1. \A d \in D : d - 1 \in Nat
  OBVIOUS
<1>2. Len(g) \in {1, 2} /\ DOMAIN g = 1 .. Len(g) /\ \A m \in DOMAIN g : g[m] \in D
  BY GroupFacts
<1> QED
  BY <1>1, <1>2

LEMMA DisplayRowsType ==
    ASSUME NEW n \in NodeShape, NEW cs
    PROVE  /\ Len(DisplayRows(cs, n)) \in Nat
           /\ DOMAIN DisplayRows(cs, n) = 1 .. Len(DisplayRows(cs, n))
           /\ \A i \in DOMAIN DisplayRows(cs, n) :
                /\ Len(DisplayRows(cs, n)[i]) \in {1, 2}
                /\ DOMAIN DisplayRows(cs, n)[i] = 1 .. Len(DisplayRows(cs, n)[i])
                /\ \A m \in DOMAIN DisplayRows(cs, n)[i] : DisplayRows(cs, n)[i][m] - 1 \in Nat
<1> DEFINE rows == DisplayRows(cs, n)
<1>1. \E D : D \subseteq Nat \ {0} /\ rows \in Seq(Groups(D))
  <2>1. CASE rows = [c \in DOMAIN n.volumes |-> <<c>>]
    <3> DEFINE k == Len(n.volumes)
    <3>1. k \in Nat /\ DOMAIN n.volumes = 1 .. k
      BY PositionsFacts
    <3> HIDE DEF k
    <3>2. rows \in Seq(Groups(1 .. k))
      BY <2>1, <3>1, Singles DEF Covering
    <3>3. 1 .. k \subseteq Nat \ {0}
      BY <3>1
    <3> QED
      BY <3>2, <3>3
  <2>2. CASE n.positions # None /\ rows = GroupChannels(n.positions)
    BY <2>2, PositionsFacts
  <2> QED
    BY <2>1, <2>2 DEF DisplayRows
<1>2. PICK D : D \subseteq Nat \ {0} /\ rows \in Seq(Groups(D))
  BY <1>1
<1> HIDE DEF rows
<1> DEFINE G == Groups(D)
<1>3. rows \in Seq(G) /\ \A g \in G : /\ Len(g) \in {1, 2} /\ DOMAIN g = 1 .. Len(g)
                                      /\ \A m \in DOMAIN g : g[m] - 1 \in Nat
  BY <1>2, GroupNumbers
<1> HIDE DEF G
<1>4. Len(rows) \in Nat /\ DOMAIN rows = 1 .. Len(rows) /\ \A i \in DOMAIN rows : rows[i] \in G
  BY <1>3
<1> QED
  BY <1>3, <1>4 DEF rows

LEMMA StackedType ==
    ASSUME NEW n \in NodeShape, NEW cs, NEW id \in Id
    PROVE  StackedAreas(cs, id, n) \subseteq MouseArea
<1> DEFINE rows == DisplayRows(cs, n)
           radiating == cs.view # "Channels" /\ cs.split = "Radiating"
           Row(i) == CASE Len(rows[i]) = 2 -> PairRowAreas(id, i, rows[i])
                       [] Len(rows[i]) = 1 /\ radiating -> LoneRowAreas(id, i, rows[i][1] - 1)
                       [] OTHER -> ChannelRowAreas(id, i, rows[i][1] - 1)
<1>1. StackedAreas(cs, id, n) = HeaderAreas(id) \cup UNION {Row(i) : i \in DOMAIN rows}
  BY DEF StackedAreas
<1>2. Len(rows) \in Nat /\ DOMAIN rows = 1 .. Len(rows)
      /\ \A i \in DOMAIN rows : /\ Len(rows[i]) \in {1, 2} /\ DOMAIN rows[i] = 1 .. Len(rows[i])
                                /\ \A m \in DOMAIN rows[i] : rows[i][m] - 1 \in Nat
  BY DisplayRowsType
<1> HIDE DEF rows, radiating
<1>3. ASSUME NEW i \in DOMAIN rows PROVE Row(i) \subseteq MouseArea
  <2>1. i \in Nat /\ Len(rows[i]) \in {1, 2} /\ DOMAIN rows[i] = 1 .. Len(rows[i])
        /\ rows[i][1] - 1 \in Nat
        /\ (Len(rows[i]) = 2 => rows[i][2] - 1 \in Nat)
    BY <1>2
  <2>2. CASE Len(rows[i]) = 1
    <3>1. Row(i) = ChannelAreas(id, i, rows[i][1] - 1)
      BY <2>2 DEF LoneRowAreas, ChannelRowAreas
    <3> HIDE DEF Row
    <3> QED
      BY <2>1, <3>1, ChannelAreasType
  <2>3. CASE Len(rows[i]) = 2
    <3>1. Row(i) = ChannelAreas(id, i, rows[i][1] - 1) \cup ChannelAreas(id, i, rows[i][2] - 1)
      BY <2>3 DEF PairRowAreas
    <3> HIDE DEF Row
    <3>2. ChannelAreas(id, i, rows[i][1] - 1) \subseteq MouseArea
      BY <2>1, ChannelAreasType
    <3>3. ChannelAreas(id, i, rows[i][2] - 1) \subseteq MouseArea
      BY <2>1, <2>3, ChannelAreasType
    <3> QED
      BY <3>1, <3>2, <3>3
  <2> QED
    BY <2>1, <2>2, <2>3
<1> HIDE DEF Row
<1> QED
  BY <1>1, <1>3, SmallAreas

LEMMA StereoType ==
    ASSUME NEW n \in NodeShape, SinglePair(n), NEW id \in Id
    PROVE  StereoAreas(id, GroupChannels(n.positions)[1]) \subseteq MouseArea
<1> DEFINE gs == GroupChannels(n.positions)
           pair == gs[1]
<1>1. n.positions # None /\ Len(gs) = 1
  BY DEF SinglePair
<1>2. PICK D : D \subseteq Nat \ {0} /\ gs \in Seq(Groups(D))
  BY <1>1, PositionsFacts
<1> HIDE DEF gs
<1>3. pair \in Groups(D)
  BY <1>1, <1>2
<1> HIDE DEF pair
<1>4. \A k \in DOMAIN pair : pair[k] - 1 \in Nat
  BY <1>2, <1>3, GroupNumbers
<1>5. Area(id, 0, Press, None, "ToggleMute", None) \in MouseArea
  BY ButtonsAndDeeds, AreaType
<1>6. \A k \in DOMAIN pair :
        Area(id, 0, PressOrDrag, None, "SetChannelAbsoluteVolume", pair[k] - 1) \in MouseArea
  BY <1>4, ButtonsAndDeeds, AreaType
<1>7. StereoAreas(id, pair) \subseteq MouseArea
  BY <1>5, <1>6 DEF StereoAreas
<1> QED
  BY <1>7 DEF pair, gs

LEMMA NodeAreasType ==
    ASSUME NEW n \in NodeShape, NEW cs, NEW id \in Id
    PROVE  NodeAreas(cs, id, n) \subseteq MouseArea
<1>1. VolumeDisplay(cs, n) = "Radiating" => BarAreas(cs, id, n) \subseteq MouseArea
  BY Displays, StereoType DEF BarAreas
<1>2. VolumeDisplay(cs, n) # "Radiating" => BarAreas(cs, id, n) \subseteq MouseArea
  BY SmallAreas DEF BarAreas
<1> QED
  BY <1>1, <1>2, SmallAreas, StackedType DEF NodeAreas

LEMMA RowsDrawnFacts ==
    ASSUME NEW v, ViewOK(v), NEW t \in Tab, NEW l \in List
    PROVE  \A i \in DOMAIN RowsDrawn(v, t, l) :
               /\ RowsDrawn(v, t, l)[i] \in Id
               /\ v.node[RowsDrawn(v, t, l)[i]] \in NodeShape
<1> DEFINE ids == Ids(v, t)
           n == VisibleCount(v, t, l, RenderRows) + 1
           end == IF l.top + n < Len(ids) THEN l.top + n ELSE Len(ids)
<1>1. /\ Len(ids) \in Nat /\ DOMAIN ids = 1 .. Len(ids)
      /\ \A i \in DOMAIN ids : ids[i] \in Id /\ v.node[ids[i]] \in NodeShape
  BY IdsFacts
<1>2. l.top \in Nat /\ n \in Nat
  BY ListFields, VisibleCountType
<1>3. RowsDrawn(v, t, l) = [i \in 1 .. Monus(end, l.top) |-> ids[l.top + i]]
  BY DEF RowsDrawn
<1> HIDE DEF ids, n
<1>4. end \in Nat /\ end <= Len(ids)
  BY <1>1, <1>2
<1> HIDE DEF end
<1>5. \A i \in 1 .. Monus(end, l.top) : l.top + i \in DOMAIN ids
  BY <1>1, <1>2, <1>4 DEF Monus
<1> QED
  BY <1>1, <1>3, <1>5

LEMMA MouseAreasType ==
    ASSUME NEW v, ViewOK(v), NEW t \in Tab, NEW l \in List
    PROVE  MouseAreas(v, t, l) \in [areas : SUBSET MouseArea, open : BOOLEAN]
<1> DEFINE rows == RowsDrawn(v, t, l)
           ids == {rows[i] : i \in DOMAIN rows}
           areas == UNION {NodeAreas(ChannelState(l), id, v.node[id]) : id \in ids}
           open == l.index # None /\ l.selected \in ids
<1>1. \A id \in ids : id \in Id /\ v.node[id] \in NodeShape
  BY RowsDrawnFacts
<1>2. MouseAreas(v, t, l) = [areas |-> areas, open |-> open]
  BY DEF MouseAreas
<1> HIDE DEF ids, rows
<1>3. areas \subseteq MouseArea
  BY <1>1, NodeAreasType
<1>4. open \in BOOLEAN
  OBVIOUS
<1> HIDE DEF areas, open
<1> QED
  BY <1>2, <1>3, <1>4

LEMMA ActedOK ==
    ASSUME ViewOK(view), TypeOK, NEW l, ListOK(l), NEW a \in MouseArea, NEW i \in 0 .. LastIndex
    PROVE  ListOK(Acted(l, a, i))
<1> DEFINE s == SelectObject(l, a.id)
           c == IF a.channel = None THEN s ELSE SelectChannel(s, a.channel)
<1>1. a.id \in Id /\ a.channel \in Nat \cup {None}
  BY DEF MouseArea
<1>2. ListOK(s)
  BY <1>1, SelectedOK DEF SelectObject
<1> HIDE DEF s
<1>3. ListOK(c)
  BY <1>1, <1>2, ChannelOK DEF SelectChannel
<1>4. Acted(l, a, i) = IF a.does = "ActivateDropdown" THEN Activate(view, tab, c, i) ELSE c
  BY DEF Acted, s
<1> HIDE DEF c
<1> QED
  BY <1>3, <1>4, ActivateOK

-----------------------------------------------------------------------------
(* The steps.                                                              *)

LEMMA InitOK == Init => ListInv
<1> SUFFICES ASSUME Init PROVE ListInv
  OBVIOUS
<1>1. 1 \in Tab
  BY TabAssumption DEF Tab
<1> DEFINE l == NewList(InitialView)
<1>2. l \in List /\ l.index = None /\ l.owner = None
  BY ViewAssumption DEF NewList, List
<1> HIDE DEF l
<1>3. ListOK(l)
  BY <1>2 DEF ListOK
<1>4. lists = [t \in Tab |-> l]
  BY DEF Init, l
<1>5. nodes \in [Id -> NodeShape \cup {None}] /\ hidden \in [instance : SUBSET Id, permanent : SUBSET Id]
  BY DEF Init
<1>6. view = [node |-> nodes, ids |-> [t \in Tab |-> <<>>]]
  BY DEF Init
<1>7. [t \in Tab |-> <<>>] \in [Tab -> Seq(Id)]
  OBVIOUS
<1>8. view \in Views
  BY <1>5, <1>6, <1>7 DEF Views
<1>9. \A t \in Tab : Ids(view, t) = <<>>
  BY <1>6 DEF Ids
<1>10. ViewOK(view)
  BY <1>8, <1>9 DEF ViewOK, Distinct
<1>11. drawn \in [areas : SUBSET MouseArea, open : BOOLEAN]
  BY DEF Init
<1>12. dirty \in BOOLEAN /\ area \in Nat /\ tab \in Tab /\ batch \in Nat
  BY <1>1, ScreenAssumption DEF Init
<1>13. lists \in [Tab -> List]
  BY <1>2, <1>4
<1>14. TypeOK
  BY <1>5, <1>8, <1>11, <1>12, <1>13 DEF TypeOK, Views
<1> QED
  BY <1>3, <1>4, <1>10, <1>14 DEF ListInv

(* Whatever a step does, these are the parts of the invariant.             *)
LEMMA InvParts ==
    ASSUME nodes' \in [Id -> NodeShape \cup {None}],
           hidden' \in [instance : SUBSET Id, permanent : SUBSET Id],
           dirty' \in BOOLEAN, area' \in Nat, tab' \in Tab, batch' \in Nat,
           drawn' \in [areas : SUBSET MouseArea, open : BOOLEAN],
           ViewOK(view'), DOMAIN lists' = Tab, \A t \in Tab : ListOK(lists'[t]),
           lists' = [t \in Tab |-> lists'[t]]
    PROVE  ListInv'
<1>1. lists' \in [Tab -> List]
  BY DEF ListOK
<1>2. view' \in Views
  BY DEF ViewOK
<1>3. TypeOK'
  BY <1>1, <1>2 DEF TypeOK, Views, Tab
<1>4. ViewOK(view)'
  BY DEF ViewOK, Ids, Tab, Distinct
<1>5. (\A t \in Tab : ListOK(lists[t]))'
  BY DEF ListOK, Tab
<1> QED
  BY <1>3, <1>4, <1>5 DEF ListInv

(* What a frame makes of the current list.                                 *)
LEMMA FrameFacts ==
    ASSUME ListInv, Frame
    PROVE  LET was == lists[tab]
               is == lists'[tab]
               s == Kept(view', tab, was)
           IN  /\ ListInv' /\ tab \in Tab /\ ListOK(was) /\ ViewOK(view')
               /\ ListOK(is) /\ is.top = TopOf(view', tab, s) /\ is.top <= Len(Ids(view', tab))
               /\ is.selected = s.selected /\ is.channel = s.channel /\ is.view = s.view
               /\ is.index = None <=> s.index = None
<1> DEFINE v == IF dirty THEN ViewOf ELSE view
           was == lists[tab]
           s == Kept(v, tab, was)
           u == Update(v, tab, was)
           r == Rendered(v, tab, u)
<1>1. /\ view' = v /\ lists' = [lists EXCEPT ![tab] = r]
      /\ batch' = 0 /\ tab' = tab /\ dirty' = FALSE /\ nodes' = nodes /\ hidden' = hidden
      /\ area' = area /\ drawn' = MouseAreas(v, tab, u)
  BY DEF Frame
<1>2. ViewOK(v) /\ tab \in Tab /\ ListOK(was)
  BY ViewOfOK DEF ListInv, TypeOK
<1> HIDE DEF v, was
<1>3. /\ ListOK(u) /\ u.top = TopOf(v, tab, s) /\ u.top <= Len(Ids(v, tab))
      /\ u.selected = s.selected /\ u.channel = s.channel /\ u.view = s.view
      /\ u.index = s.index
  BY <1>2, UpdateInBounds
<1> HIDE DEF u, s
<1>4. /\ ListOK(r) /\ r.top = u.top /\ r.selected = u.selected
      /\ r.channel = u.channel /\ r.view = u.view
      /\ r.index = None <=> u.index = None
  BY <1>3, RenderedOK
<1> HIDE DEF r
<1>5. /\ DOMAIN lists' = Tab /\ lists'[tab] = r /\ lists' = [t \in Tab |-> lists'[t]]
      /\ \A t \in Tab : ListOK(lists'[t])
  BY <1>1, <1>2, <1>4 DEF ListInv, TypeOK
<1>6. drawn' \in [areas : SUBSET MouseArea, open : BOOLEAN]
  BY <1>1, <1>2, <1>3, MouseAreasType DEF ListOK
<1>7. ListInv'
  BY <1>1, <1>2, <1>5, <1>6, InvParts DEF ListInv, TypeOK
<1> QED
  BY <1>1, <1>2, <1>3, <1>4, <1>5, <1>7 DEF was, s

(* An event leaves the view as it is and changes at most the current list. *)
LEMMA EventOK ==
    ASSUME ListInv, Handled, view' = view, drawn' = drawn, tab' \in Tab, area' \in Nat,
           nodes' \in [Id -> NodeShape \cup {None}],
           hidden' \in [instance : SUBSET Id, permanent : SUBSET Id], dirty' \in BOOLEAN,
           \/ lists' = lists
           \/ \E l : ListOK(l) /\ lists' = [lists EXCEPT ![tab] = l]
    PROVE  ListInv' /\ batch' = batch + 1
<1>1. /\ DOMAIN lists' = Tab /\ lists' = [t \in Tab |-> lists'[t]]
      /\ \A t \in Tab : ListOK(lists'[t])
  <2>1. CASE lists' = lists
    BY <2>1 DEF ListInv, TypeOK
  <2>2. ASSUME NEW l, ListOK(l), lists' = [lists EXCEPT ![tab] = l]
        PROVE  /\ DOMAIN lists' = Tab /\ lists' = [t \in Tab |-> lists'[t]]
               /\ \A t \in Tab : ListOK(lists'[t])
    BY <2>2 DEF ListInv, TypeOK
  <2> QED
    BY <2>1, <2>2
<1>2. batch' = batch + 1 /\ batch' \in Nat
  BY DEF Handled, ListInv, TypeOK
<1>3. ViewOK(view') /\ drawn' \in [areas : SUBSET MouseArea, open : BOOLEAN]
  BY DEF ListInv, TypeOK
<1> QED
  BY <1>1, <1>2, <1>3, InvParts

LEMMA OnListOK ==
    ASSUME ListInv, NEW l, ListOK(l), OnList(l)
    PROVE  ListInv' /\ batch' = batch + 1
<1>1. /\ Handled /\ tab' = tab /\ view' = view /\ drawn' = drawn /\ area' = area
      /\ nodes' = nodes /\ hidden' = hidden /\ dirty' = dirty
      /\ lists' = [lists EXCEPT ![tab] = l]
  BY DEF OnList, StateUnchanged
<1> QED
  BY <1>1, EventOK DEF ListInv, TypeOK

LEMMA ToggleOK ==
    ASSUME ListInv, Handled, tab' = tab, view' = view, drawn' = drawn, area' = area,
           nodes' = nodes, dirty' = TRUE,
           NEW l, ListOK(l), l.selected \in Hideable,
           \/ /\ lists' = lists
              /\ \/ hidden' = [hidden EXCEPT !.instance = @ \ {l.selected}]
                 \/ hidden' = [hidden EXCEPT !.permanent = @ \ {l.selected}]
           \/ /\ lists' = [lists EXCEPT ![tab] = ReleaseHidden(view, tab, l, l.selected)]
              /\ \/ hidden' = [hidden EXCEPT !.instance = @ \cup {l.selected}]
                 \/ hidden' = [hidden EXCEPT !.permanent = @ \cup {l.selected}]
    PROVE  ListInv' /\ batch' = batch + 1
<1>1. l.selected \in Id
  BY ScreenAssumption
<1>2. hidden' \in [instance : SUBSET Id, permanent : SUBSET Id]
  <2> DEFINE H == [instance : SUBSET Id, permanent : SUBSET Id]
  <2>1. hidden \in H
    BY DEF ListInv, TypeOK
  <2>2. \A x \in SUBSET Id : [hidden EXCEPT !.instance = x] \in H /\ [hidden EXCEPT !.permanent = x] \in H
    BY <2>1
  <2>3. /\ hidden.instance \ {l.selected} \in SUBSET Id
        /\ hidden.instance \cup {l.selected} \in SUBSET Id
        /\ hidden.permanent \ {l.selected} \in SUBSET Id
        /\ hidden.permanent \cup {l.selected} \in SUBSET Id
    BY <1>1, <2>1
  <2>4. \E x \in SUBSET Id : \/ hidden' = [hidden EXCEPT !.instance = x]
                             \/ hidden' = [hidden EXCEPT !.permanent = x]
    BY <2>1, <2>3
  <2> HIDE DEF H
  <2>5. hidden' \in H
    BY <2>2, <2>4
  <2> QED
    BY <2>5 DEF H
<1>3. ListOK(ReleaseHidden(view, tab, l, l.selected))
  BY ReleaseOK DEF ListInv, TypeOK
<1>4. lists' = lists \/ \E m : ListOK(m) /\ lists' = [lists EXCEPT ![tab] = m]
  BY <1>3
<1>5. /\ tab' \in Tab /\ area' \in Nat /\ nodes' \in [Id -> NodeShape \cup {None}]
      /\ dirty' \in BOOLEAN
  BY DEF ListInv, TypeOK
<1> QED
  BY <1>2, <1>4, <1>5, EventOK

LEMMA EventsOK ==
    ASSUME ListInv, Event
    PROVE  ListInv' /\ batch' = batch + 1
<1> DEFINE l == lists[tab]
<1>0. ListOK(l) /\ ViewOK(view) /\ tab \in Tab /\ TypeOK
  BY DEF ListInv, TypeOK
<1>1. ASSUME NEW id \in Id, NEW shape \in (Shapes[id] \cup {None}) \ {nodes[id]},
             ObjectChanged(id, shape)
      PROVE  ListInv' /\ batch' = batch + 1
  <2>1. shape \in NodeShape \cup {None}
    BY ShapeAssumption
  <2>2. /\ Handled /\ tab' = tab /\ view' = view /\ lists' = lists /\ drawn' = drawn
        /\ area' = area /\ hidden' = hidden /\ dirty' = TRUE
        /\ nodes' = [nodes EXCEPT ![id] = shape]
    BY <1>1 DEF ObjectChanged
  <2>3. nodes' \in [Id -> NodeShape \cup {None}]
    BY <2>1, <2>2 DEF ListInv, TypeOK
  <2> QED
    BY <2>2, <2>3, EventOK DEF ListInv, TypeOK
<1>2. CASE PeaksDirty
  <2>1. /\ Handled /\ tab' = tab /\ view' = view /\ lists' = lists /\ drawn' = drawn
        /\ area' = area /\ hidden' = hidden /\ dirty' = FALSE /\ nodes' = nodes
    BY <1>2 DEF PeaksDirty
  <2> QED
    BY <2>1, EventOK DEF ListInv, TypeOK
<1>3. ASSUME NEW h \in Areas, Resize(h)
      PROVE  ListInv' /\ batch' = batch + 1
  <2>1. /\ Handled /\ tab' = tab /\ view' = view /\ lists' = lists /\ drawn' = drawn
        /\ area' \in Nat /\ hidden' = hidden /\ dirty' = dirty /\ nodes' = nodes
    BY <1>3, ScreenAssumption DEF Resize
  <2> QED
    BY <2>1, EventOK DEF ListInv, TypeOK
<1>4. ASSUME NEW t \in Tab, SelectTab(t)
      PROVE  ListInv' /\ batch' = batch + 1
  <2>1. /\ Handled /\ tab' \in Tab /\ view' = view /\ lists' = lists /\ drawn' = drawn
        /\ area' = area /\ hidden' = hidden /\ dirty' = dirty /\ nodes' = nodes
    BY <1>4 DEF SelectTab, StateUnchanged
  <2> QED
    BY <2>1, EventOK DEF ListInv, TypeOK
<1> HIDE DEF l
<1>5. CASE Move(l)
  BY <1>0, <1>5, DownOK, UpOK, PagesOK, OnListOK DEF Move
<1>6. CASE Dropdown(l)
  <2>1. \A i \in 0 .. LastIndex : ListOK(Activate(view, tab, l, i))
    BY <1>0, ActivateOK
  <2>2. ListOK(Closed(l))
    BY <1>0, ClosedOK DEF ListOK
  <2> QED
    BY <1>6, <2>1, <2>2, OnListOK DEF Dropdown
<1>7. CASE ViewKey(l)
  <2>1. ListOK(CycleView(view, l)) /\ \A cv \in ViewKeys : ListOK(SelectView(view, l, cv))
    BY <1>0, CycleViewOK, SelectViewOK, ViewAssumption
  <2> QED
    BY <1>7, <2>1, OnListOK DEF ViewKey
<1>8. CASE ToggleHiddenInstance(l)
  BY <1>0, <1>8, ToggleOK DEF ToggleHiddenInstance
<1>9. CASE ToggleHiddenPermanent(l)
  BY <1>0, <1>9, ToggleOK DEF ToggleHiddenPermanent
<1>10. CASE Click(l)
  <2>1. ASSUME NEW a \in drawn.areas, NEW i \in 0 .. LastIndex, OnList(Acted(l, a, i))
        PROVE  ListInv' /\ batch' = batch + 1
    <3>1. a \in MouseArea
      BY <1>0 DEF TypeOK
    <3>2. ListOK(Acted(l, a, i))
      BY <1>0, <3>1, ActedOK
    <3> QED
      BY <2>1, <3>2, OnListOK
  <2>2. CASE PressDropdown(l)
    <3>1. ListOK(Closed(l)) /\ ListOK(Up(view, tab, l)) /\ ListOK(Down(view, tab, l))
      BY <1>0, ClosedOK, UpOK, DownOK DEF ListOK
    <3> QED
      BY <2>2, <3>1, OnListOK DEF PressDropdown
  <2> QED
    BY <1>10, <2>1, <2>2 DEF Click
<1> QED
  BY <1>1, <1>2, <1>3, <1>4, <1>5, <1>6, <1>7, <1>8, <1>9, <1>10 DEF Event, l

LEMMA StepOK == ListInv /\ [Next]_vars => ListInv'
<1> SUFFICES ASSUME ListInv, [Next]_vars PROVE ListInv'
  OBVIOUS
<1>1. CASE Frame
  BY <1>1, FrameFacts
<1>2. CASE Event
  BY <1>2, EventsOK
<1>3. CASE UNCHANGED vars
  <2>1. /\ nodes' = nodes /\ hidden' = hidden /\ dirty' = dirty /\ view' = view /\ area' = area
        /\ tab' = tab /\ lists' = lists /\ drawn' = drawn /\ batch' = batch
    BY <1>3 DEF vars
  <2> QED
    BY <2>1, InvParts DEF ListInv, TypeOK
<1> QED
  BY <1>1, <1>2, <1>3 DEF Next

(* A step that ends a batch is a frame.                                    *)
LEMMA FramedIsFrame ==
    ASSUME ListInv, Next, Framed
    PROVE  Frame
<1>1. ~Event
  <2> SUFFICES ASSUME Event PROVE FALSE
    OBVIOUS
  <2>1. batch' = batch + 1 /\ batch \in Nat
    BY EventsOK DEF ListInv, TypeOK
  <2> QED
    BY <2>1 DEF Framed
<1> QED
  BY <1>1 DEF Next

(* The lists and the view stay well formed, whatever events and frames     *)
(* follow each other.                                                      *)
THEOREM ListInductive == Spec => []ListInv
<1>1. Init => ListInv
  BY InitOK
<1>2. ListInv /\ [Next]_vars => ListInv'
  BY StepOK
<1> QED
  BY <1>1, <1>2, PTL DEF Spec

(* No frame slices the list past its end: a panic in visible_objects.  The *)
(* top of a list is a number at any time, and update() brings it back into *)
(* the list it is given.                                                   *)
THEOREM SliceSafe == Spec => SliceInBounds
<1>1. ListInv /\ [Next]_vars => [Framed => lists'[tab].top <= Len(Ids(view', tab))]_vars
  <2> SUFFICES ASSUME ListInv, Next, Framed PROVE lists'[tab].top <= Len(Ids(view', tab))
    OBVIOUS
  <2>1. Frame
    BY FramedIsFrame
  <2> QED
    BY <2>1, FrameFacts
<1> QED
  BY <1>1, ListInductive, PTL DEF Spec, SliceInBounds

(* A selection and its open dropdown survive every frame that still lists  *)
(* the object; otherwise the first object is selected and it is closed.    *)
THEOREM FollowsObject == Spec => SelectionFollowsObject
<1> DEFINE Follows ==
        LET was == lists[tab]
            is == lists'[tab]
            ids == Ids(view', tab)
        IN  IF \E i \in DOMAIN ids : ids[i] = was.selected
            THEN is.selected = was.selected /\ (is.index = None <=> was.index = None)
            ELSE /\ is.selected = IF ids = <<>> THEN None ELSE ids[1]
                 /\ is.index = None
<1>1. ASSUME ListInv, Next, Framed PROVE Follows
  <2> DEFINE was == lists[tab]
             is == lists'[tab]
             v == view'
             s == Kept(v, tab, was)
  <2>1. Frame
    BY <1>1, FramedIsFrame
  <2>2. /\ tab \in Tab /\ ListOK(was) /\ ViewOK(v)
        /\ is.selected = s.selected
        /\ is.index = None <=> s.index = None
    BY <1>1, <2>1, FrameFacts
  <2>3. Follows <=>
          IF \E i \in DOMAIN Ids(v, tab) : Ids(v, tab)[i] = was.selected
          THEN is.selected = was.selected /\ (is.index = None <=> was.index = None)
          ELSE /\ is.selected = IF Ids(v, tab) = <<>> THEN None ELSE Ids(v, tab)[1]
               /\ is.index = None
    OBVIOUS
  <2> HIDE DEF Follows, was, is, v
  <2>4. /\ Position(v, tab, was.selected) # None
             <=> \E i \in DOMAIN Ids(v, tab) : Ids(v, tab)[i] = was.selected
    BY <2>2, PositionFacts
  <2>5. /\ Position(v, tab, was.selected) # None => s = was
        /\ Position(v, tab, was.selected) = None =>
             /\ s.selected = IF Ids(v, tab) = <<>> THEN None ELSE Ids(v, tab)[1]
             /\ s.index = None
    BY <2>2, KeptOK
  <2>6. CASE Position(v, tab, was.selected) # None
    <3>1. is.selected = was.selected /\ (is.index = None <=> was.index = None)
      BY <2>2, <2>5, <2>6
    <3> QED
      BY <2>3, <2>4, <2>6, <3>1
  <2>7. CASE Position(v, tab, was.selected) = None
    <3>1. /\ is.selected = IF Ids(v, tab) = <<>> THEN None ELSE Ids(v, tab)[1]
          /\ is.index = None
      BY <2>2, <2>5, <2>7
    <3> QED
      BY <2>3, <2>4, <2>7, <3>1
  <2> QED
    BY <2>6, <2>7
<1>2. ListInv /\ [Next]_vars => [Framed => Follows]_vars
  BY <1>1
<1> QED
  BY <1>2, ListInductive, PTL DEF Spec, SelectionFollowsObject

LEMMA NeighboursReverse ==
    ASSUME NEW v, ViewOK(v), NEW t \in Tab, NEW id \in Id, Position(v, t, id) # None,
           NextId(v, t, id) # None
    PROVE  PreviousId(v, t, NextId(v, t, id)) = id
<1> DEFINE ids == Ids(v, t)
           i == Position(v, t, id)
           next == NextId(v, t, id)
<1>1. /\ Len(ids) \in Nat /\ DOMAIN ids = 1 .. Len(ids)
      /\ i \in Nat /\ i < Len(ids) /\ ids[i + 1] = id
  BY IdsFacts, PositionFacts
<1>2. next = IdAt(v, t, i + 1)
  BY NoneFacts DEF NextId
<1>3. IdAt(v, t, i + 1) = IF i + 1 < Len(ids) THEN ids[i + 2] ELSE None
  <2>1. (i + 1) + 1 = i + 2
    BY <1>1
  <2> HIDE DEF i
  <2> QED
    BY <2>1 DEF IdAt
<1> HIDE DEF i
<1>4. i + 1 < Len(ids) /\ next = ids[i + 2] /\ i + 2 \in DOMAIN ids /\ next # None
  BY <1>1, <1>2, <1>3
<1>5. Position(v, t, next) = (i + 2) - 1
  <2> HIDE DEF next
  <2> QED
    BY <1>4, PositionFacts
<1>6. Position(v, t, next) = i + 1 /\ i + 1 # None /\ Monus(i + 1, 1) = i
  BY <1>1, <1>5, NoneFacts DEF Monus
<1>7. PreviousId(v, t, next) = IdAt(v, t, i)
  <2> HIDE DEF next
  <2> QED
    BY <1>4, <1>6 DEF PreviousId
<1>8. IdAt(v, t, i) = id
  BY <1>1 DEF IdAt
<1> QED
  BY <1>7, <1>8

LEMMA UpDown ==
    ASSUME NEW v, ViewOK(v), NEW t \in Tab, NEW l, ListOK(l), l.index = None,
           Position(v, t, l.selected) # None, CursorFits(v, l), Down(v, t, l) # l
    PROVE  Up(v, t, Down(v, t, l)) = l
<1> DEFINE below == Down(v, t, l)
           count == ChannelCount(v, l.selected)
           next == NextId(v, t, l.selected)
<1>1. l \in List /\ l.channel \in Nat \cup {None} /\ l.owner = None
  BY ListFields DEF ListOK
<1>2. l.selected \in Id /\ count \in Nat
  <2>1. \E i \in DOMAIN Ids(v, t) : Ids(v, t)[i] = l.selected
    BY PositionFacts
  <2>2. l.selected \in Id
    BY <2>1, IdsFacts
  <2> QED
    BY <2>2, CountType
<1>3. CASE l.channel # None /\ l.channel + 1 < count
  <2>1. below = [l EXCEPT !.channel = @ + 1]
    BY <1>2, <1>3, NoneFacts DEF Down
  <2>2. /\ below \in List /\ below.channel = l.channel + 1
        /\ below.top = l.top /\ below.selected = l.selected /\ below.view = l.view
        /\ below.index = l.index /\ below.owner = l.owner /\ below.page = l.page
    BY <1>1, <1>3, <2>1 DEF List
  <2> HIDE DEF below
  <2>3. below.channel \notin {None, 0} /\ below.channel - 1 = l.channel
    BY <1>1, <1>3, <2>2, NoneFacts
  <2>4. Up(v, t, below) = [below EXCEPT !.channel = @ - 1]
    BY <2>2, <2>3 DEF Up
  <2> DEFINE r == Up(v, t, below)
  <2>5. /\ r \in List /\ r.channel = l.channel
        /\ r.top = l.top /\ r.selected = l.selected /\ r.view = l.view
        /\ r.index = l.index /\ r.owner = l.owner /\ r.page = l.page
    BY <1>1, <2>2, <2>3, <2>4 DEF List
  <2> HIDE DEF r
  <2>6. r = l
    BY <1>1, <2>5, SameList
  <2> QED
    BY <2>6 DEF r, below
<1>4. CASE ~(l.channel # None /\ l.channel + 1 < count)
  <2>1. below = SelectSome(v, l, next, FALSE)
    BY <1>2, <1>4, NoneFacts DEF Down
  <2>2. next # None
    BY <2>1 DEF SelectSome
  <2>3. below = Select(v, l, next, FALSE) /\ next \in Id
    BY <2>1, <2>2, NeighbourType DEF SelectSome
  <2>4. PreviousId(v, t, next) = l.selected
    BY <1>2, <2>2, NeighboursReverse
  <2> HIDE DEF next, below
  <2>5. IsSelection(below, l, next, InitialChannel(v, l, next, FALSE)) /\ ListOK(below)
    BY <1>1, <2>3, SelectOK
  <2>6. InitialChannel(v, l, next, FALSE) \in {None, 0}
    BY <2>3, NoneFacts DEF InitialChannel
  <2>7. /\ below \in List /\ below.selected = next /\ below.channel \in {None, 0}
        /\ below.index = None /\ below.owner = None
        /\ below.top = l.top /\ below.view = l.view /\ below.page = l.page
    BY <2>5, <2>6 DEF IsSelection
  <2> DEFINE r == Up(v, t, below)
             c == InitialChannel(v, below, l.selected, TRUE)
  <2>8. r = Select(v, below, l.selected, TRUE)
    <3>1. r = SelectSome(v, below, PreviousId(v, t, below.selected), TRUE)
      BY <2>7 DEF Up
    <3> QED
      BY <1>2, <2>4, <2>7, <3>1, NoneFacts DEF SelectSome
  <2>9. c = l.channel
    <3>1. c = IF l.view # "Channels" THEN None
              ELSE IF count <= 1 THEN None ELSE count - 1
      BY <1>2, <2>7, NoneFacts DEF InitialChannel
    <3>2. IF l.view = "Channels" /\ count > 1
          THEN l.channel # None /\ l.channel < count ELSE l.channel = None
      BY DEF CursorFits
    <3> HIDE DEF count, c
    <3> QED
      BY <1>1, <1>2, <1>4, <3>1, <3>2
  <2> HIDE DEF c, r
  <2>10. IsSelection(r, below, l.selected, c)
    BY <1>2, <2>7, <2>8, SelectOK DEF c
  <2>11. /\ r \in List /\ r.channel = l.channel
         /\ r.top = l.top /\ r.selected = l.selected /\ r.view = l.view
         /\ r.index = l.index /\ r.owner = l.owner /\ r.page = l.page
    BY <1>1, <2>7, <2>9, <2>10 DEF IsSelection
  <2>12. r = l
    BY <1>1, <2>11, SameList
  <2> QED
    BY <2>12 DEF r, below
<1> QED
  BY <1>3, <1>4

(* up() undoes down(), across objects and across the channels of one: the  *)
(* object before the next one is the one it came from, because none is     *)
(* listed twice, and it is entered at its last channel.                    *)
THEOREM KeysReverse == Spec => []UpUndoesDown
<1>1. ListInv => UpUndoesDown
  BY UpDown DEF ListInv, UpUndoesDown
<1> QED
  BY <1>1, ListInductive, PTL

(* Every channel of every node of the view is on one row and one bar sets  *)
(* it, in every view and split style.                                      *)
THEOREM NothingOffScreen == Spec => []RowsCoverChannels
<1>1. ListInv => RowsCoverChannels
  <2> SUFFICES ASSUME ListInv, NEW id \in {i \in Id : view.node[i] # None},
                      NEW cs \in {ChannelState(lists[t]) : t \in Tab}
               PROVE  LET n == view.node[id]
                          shown == ShownIn(cs, n)
                          places == UNION {{i} \X DOMAIN shown[i] : i \in DOMAIN shown}
                          bars == {a \in NodeAreas(cs, id, n) : a.by = PressOrDrag}
                      IN  n.positions = None \/ Len(n.positions) = Len(n.volumes)
                          => /\ \A c \in DOMAIN n.volumes :
                                  /\ Cardinality({p \in places : shown[p[1]][p[2]] = c}) = 1
                                  /\ Cardinality({a \in bars : a.of \in {c - 1, None}}) = 1
                             /\ \A a \in bars : a.channel \in {a.of, None}
    BY DEF RowsCoverChannels
  <2> DEFINE n == view.node[id]
             shown == ShownIn(cs, n)
             places == UNION {{i} \X DOMAIN shown[i] : i \in DOMAIN shown}
             bars == {a \in NodeAreas(cs, id, n) : a.by = PressOrDrag}
  <2>1. n \in NodeShape
    BY DEF ListInv, TypeOK
  <2>2. bars = Bars(cs, id, n)
    BY DEF Bars
  <2> HIDE DEF n
  <2>3. ASSUME Agrees(n), NEW c \in DOMAIN n.volumes
        PROVE  /\ Cardinality({p \in places : shown[p[1]][p[2]] = c}) = 1
               /\ Cardinality({a \in bars : a.of \in {c - 1, None}}) = 1
    <3>1. Once(shown) /\ Holds(shown, c)
      BY <2>1, <2>3, ShownOnce
    <3> HIDE DEF shown
    <3>2. Cardinality({p \in places : shown[p[1]][p[2]] = c}) = 1
      BY <3>1, PlacedOnce
    <3> QED
      BY <2>1, <2>2, <2>3, <3>2, BarOnce
  <2>4. ASSUME Agrees(n) PROVE \A a \in bars : a.channel \in {a.of, None}
    BY <2>1, <2>2, <2>4, BarChannels
  <2> QED
    BY <2>3, <2>4 DEF n, Agrees
<1> QED
  BY <1>1, ListInductive, PTL

-----------------------------------------------------------------------------
(* Rows of one height.                                                     *)

LEMMA MulStep == ASSUME NEW k \in Nat, NEW d \in Nat PROVE (k + 1) * d = k * d + d /\ k * d \in Nat
OBVIOUS

LEMMA MulLess == ASSUME NEW k \in Nat, NEW x \in Nat, k <= x, NEW d \in Nat PROVE k * d <= x * d
<1>1. x * d = k * d + (x - k) * d /\ (x - k) * d \in Nat /\ k * d \in Nat
  OBVIOUS
<1> QED
  BY <1>1

LEMMA HeightType ==
    ASSUME NEW n \in NodeShape, NEW cs, NEW compact
    PROVE  NodeHeight(cs, n, compact) \in Nat
BY DisplayRowsType DEF NodeHeight

LEMMA SpacingType == Spacing \in {2, 3}
BY DEF Spacing

LEMMA UsedUniform ==
    ASSUME NEW heights, NEW h \in Nat, Len(heights) \in Nat,
           \A i \in 1 .. Len(heights) : heights[i] = h
    PROVE  \A k \in 0 .. Len(heights) : Used(heights)[k] = k * (h + Spacing)
<1> DEFINE n == Len(heights)
           d == h + Spacing
           Is(f) == f = [k \in 0 .. n |-> IF k = 0 THEN 0 ELSE f[k - 1] + heights[k] + Spacing]
           g == [k \in 0 .. n |-> k * d]
           f == CHOOSE f : Is(f)
<1>1. Used(heights) = f
  BY DEF Used
<1>2. d \in Nat /\ n \in Nat /\ Spacing \in Nat
  BY SpacingType
<1>3. \A k \in 1 .. n : heights[k] = h
  OBVIOUS
<1>4. Is(g)
  <2> DEFINE e(k) == IF k = 0 THEN 0 ELSE g[k - 1] + heights[k] + Spacing
  <2>1. ASSUME NEW k \in 0 .. n PROVE k * d = e(k)
    <3>1. CASE k = 0
      <4>1. 0 * d = 0
        BY <1>2
      <4> QED
        BY <3>1, <4>1
    <3>2. CASE k # 0
      <4>1. k - 1 \in Nat /\ k - 1 \in 0 .. n /\ k = (k - 1) + 1 /\ k \in 1 .. n
        BY <1>2, <3>2
      <4>2. g[k - 1] = (k - 1) * d
        BY <4>1
      <4>3. k * d = (k - 1) * d + d /\ (k - 1) * d \in Nat
        <5> DEFINE j == k - 1
        <5>1. j \in Nat /\ k = j + 1
          BY <4>1
        <5> HIDE DEF j, d
        <5>2. (j + 1) * d = j * d + d /\ j * d \in Nat
          BY <1>2, <5>1, MulStep
        <5> QED
          BY <5>1, <5>2 DEF j
      <4>4. e(k) = (k - 1) * d + h + Spacing
        BY <1>3, <3>2, <4>1, <4>2
      <4> QED
        BY <1>2, <4>3, <4>4
    <3> QED
      BY <3>1, <3>2
  <2> HIDE DEF e
  <2>2. g = [k \in 0 .. n |-> e(k)]
    BY <2>1
  <2> HIDE DEF g
  <2> QED
    BY <2>2 DEF e
<1>5. Is(f)
  <2> HIDE DEF Is
  <2> QED
    BY <1>4
<1>6. f[0] = 0 /\ \A k \in 1 .. n : f[k] = f[k - 1] + h + Spacing
  <2> HIDE DEF f
  <2>1. f = [k \in 0 .. n |-> IF k = 0 THEN 0 ELSE f[k - 1] + heights[k] + Spacing]
    BY <1>5
  <2> QED
    BY <1>2, <1>3, <2>1
<1> DEFINE S == {k \in Nat : k <= n => f[k] = k * d}
<1> HIDE DEF f, Is, g, d, n
<1>7. 0 \in S
  BY <1>2, <1>6
<1>8. ASSUME NEW k \in Nat, k \in S PROVE k + 1 \in S
  <2>1. CASE k + 1 <= n
    <3>1. f[k] = k * d /\ f[k + 1] = f[k] + h + Spacing
      BY <1>2, <1>6, <1>8, <2>1
    <3>2. (k + 1) * d = k * d + d /\ k * d \in Nat
      BY <1>2, MulStep
    <3>3. f[k + 1] = (k + 1) * d
      BY <1>2, <3>1, <3>2 DEF d
    <3> QED
      BY <3>3
  <2>2. CASE ~(k + 1 <= n)
    BY <1>2, <2>2
  <2> QED
    BY <2>1, <2>2
<1>9. Nat \subseteq S
  <2> HIDE DEF S
  <2> QED
    BY <1>7, <1>8, NatSet
<1>10. \A k \in 0 .. n : f[k] = k * d
  BY <1>2, <1>9
<1> QED
  BY <1>1, <1>10 DEF n, d

(* c of m rows of d lines each fit.                                        *)
Fitting(c, m, d, rows) == c \in Nat /\ c <= m /\ \A k \in 1 .. m : k <= c <=> k * d <= rows

LEMMA FittingPrefix ==
    ASSUME NEW m \in Nat, NEW d \in Nat, NEW rows \in Nat
    PROVE  Fitting(Cardinality({k \in 1 .. m : k * d <= rows}), m, d, rows)
<1> DEFINE P == {k \in 1 .. m : k * d <= rows}
           c == Cardinality(P)
<1>1. IsFiniteSet(P) /\ P \subseteq Nat
  <2>1. IsFiniteSet(1 .. m) /\ P \subseteq 1 .. m
    BY FS_Interval
  <2> QED
    BY <2>1, FS_Subset
<1>2. CASE P = {}
  <2>1. c = 0
    <3> HIDE DEF P
    <3> QED
      BY <1>2, FS_EmptySet
  <2>2. \A k \in 1 .. m : k <= c <=> k * d <= rows
    <3> SUFFICES ASSUME NEW k \in 1 .. m PROVE ~(k <= c) /\ ~(k * d <= rows)
      OBVIOUS
    <3>1. ~(k * d <= rows)
      BY <1>2
    <3> HIDE DEF c
    <3> QED
      BY <2>1, <3>1
  <2> HIDE DEF c, P
  <2>3. c \in Nat /\ c <= m
    BY <2>1
  <2> QED
    BY <2>2, <2>3 DEF c, P, Fitting
<1>3. CASE P # {}
  <2>1. PICK x \in P : \A y \in P : y <= x
    <3> HIDE DEF P
    <3> QED
      BY <1>1, <1>3, GreatestNumber
  <2>2. x \in 1 .. m /\ x * d <= rows
    BY <2>1
  <2>3. \A k \in 1 .. m : k <= x => k * d <= rows
    <3> SUFFICES ASSUME NEW k \in 1 .. m, k <= x PROVE k * d <= rows
      OBVIOUS
    <3>1. k * d <= x * d
      BY <2>2, MulLess
    <3>2. k * d \in Nat /\ x * d \in Nat
      BY <2>2, MulStep
    <3> QED
      BY <2>2, <3>1, <3>2
  <2>4. \A k \in 1 .. m : k * d <= rows => k <= x
    BY <2>1
  <2>5. P = 1 .. x
    BY <2>2, <2>3, <2>4
  <2>6. c = x
    <3>1. Cardinality(1 .. x) = x
      BY <2>2, FS_Interval
    <3> QED
      BY <2>5, <3>1
  <2> HIDE DEF P, c
  <2>7. c \in Nat /\ c <= m
    BY <2>2, <2>6
  <2>8. \A k \in 1 .. m : k <= c <=> k * d <= rows
    BY <2>3, <2>4, <2>6
  <2> QED
    BY <2>7, <2>8 DEF c, P, Fitting
<1> QED
  BY <1>2, <1>3

(* Rows of one height h: how many fit, and what the rows up to one use.    *)
Uniform(heights, h) ==
    /\ h \in Nat /\ Len(heights) \in Nat /\ DOMAIN heights = 1 .. Len(heights)
    /\ \A i \in 1 .. Len(heights) : heights[i] = h

LEMMA CountUniform ==
    ASSUME NEW v, NEW t, NEW l, NEW rows \in Nat, NEW h, Uniform(ItemHeights(v, t, l), h)
    PROVE  Fitting(VisibleCount(v, t, l, rows), Len(ItemHeights(v, t, l)), h + Spacing, rows)
<1> DEFINE heights == ItemHeights(v, t, l)
           m == Len(heights)
           used == Used(heights)
           d == h + Spacing
           c == VisibleCount(v, t, l, rows)
<1>1. m \in Nat /\ h \in Nat /\ d \in Nat /\ \A i \in 1 .. m : heights[i] = h
  BY SpacingType DEF Uniform
<1>2. \A k \in 1 .. m : used[k] = k * d
  <2> HIDE DEF heights
  <2> QED
    BY <1>1, UsedUniform
<1>3. c = Cardinality({k \in 1 .. m : used[k] <= rows})
  BY DEF VisibleCount
<1> HIDE DEF used, d, m
<1>4. {k \in 1 .. m : used[k] <= rows} = {k \in 1 .. m : k * d <= rows}
  BY <1>2
<1>5. c = Cardinality({k \in 1 .. m : k * d <= rows})
  BY <1>3, <1>4
<1> HIDE DEF c
<1>6. Fitting(c, m, d, rows)
  BY <1>1, <1>5, FittingPrefix
<1> QED
  BY <1>6 DEF c, d, m

(* Where update() puts the top: the selected row and those above it on the *)
(* screen fit.                                                             *)
TopAt(at, len, old, count) ==
    LET top == IF old >= len THEN Monus(len, count) ELSE old
    IN  IF at >= top + count THEN Monus(at, Monus(count, 1))
        ELSE IF at < top THEN at ELSE top

LEMMA TopFits ==
    ASSUME NEW at \in Nat, NEW len \in Nat, at < len, NEW old \in Nat,
           NEW rows \in Nat, NEW d \in Nat, d <= rows,
           NEW count, Fitting(count, Monus(len, old), d, rows),
           NEW new, new = TopAt(at, len, old, count)
    PROVE  new \in Nat /\ new <= at /\ ((at - new) + 1) * d <= rows
<1>0. /\ 1 * d = d /\ count \in Nat /\ count <= Monus(len, old)
      /\ \A k \in 1 .. Monus(len, old) : k <= count <=> k * d <= rows
  BY DEF Fitting
<1>1. CASE old >= len
  <2>1. Monus(len, old) = 0 /\ count = 0 /\ Monus(len, count) = len
    BY <1>0, <1>1 DEF Monus
  <2>2. new = at
    BY <1>1, <2>1 DEF TopAt
  <2>3. (at - new) + 1 = 1
    BY <2>2
  <2> QED
    BY <1>0, <2>2, <2>3
<1>2. CASE old < len
  <2>1. Monus(len, old) = len - old /\ 1 \in 1 .. Monus(len, old)
    BY <1>2 DEF Monus
  <2>2. count >= 1 /\ count \in 1 .. Monus(len, old)
    BY <1>0, <2>1
  <2>3. count * d <= rows
    BY <1>0, <2>2
  <2>4. new = IF at >= old + count THEN Monus(at, Monus(count, 1))
              ELSE IF at < old THEN at ELSE old
    BY <1>2 DEF TopAt
  <2>5. CASE at >= old + count
    <3>1. new = at - (count - 1) /\ new \in Nat
      BY <2>2, <2>4, <2>5 DEF Monus
    <3>2. (at - new) + 1 = count /\ new <= at
      BY <2>2, <3>1
    <3> QED
      BY <2>3, <3>1, <3>2
  <2>6. CASE at < old
    <3>1. new = at /\ (at - new) + 1 = 1
      BY <2>2, <2>4, <2>6
    <3> QED
      BY <1>0, <3>1
  <2>7. CASE old <= at /\ at < old + count
    <3>1. new = old
      BY <2>2, <2>4, <2>7
    <3>2. (at - new) + 1 \in 1 .. Monus(len, old) /\ (at - new) + 1 <= count
      BY <1>0, <2>1, <2>7, <3>1
    <3>3. ((at - new) + 1) * d <= rows
      BY <1>0, <3>2
    <3> QED
      BY <2>7, <3>1, <3>3
  <2> QED
    BY <2>2, <2>5, <2>6, <2>7
<1> QED
  BY <1>1, <1>2

LEMMA OnScreen ==
    ASSUME NEW v, NEW t, NEW l, NEW h,
           Uniform(ItemHeights(v, t, [l EXCEPT !.top = 0]), h),
           NEW at \in Nat, at < Len(ItemHeights(v, t, [l EXCEPT !.top = 0])),
           at = Position(v, t, l.selected),
           l.top \in Nat, l.top <= at, area \in Nat,
           ((at - l.top) + 1) * (h + Spacing) <= UpdateRows
    PROVE  SelectionOnScreen(v, t, l)
<1> DEFINE heights == ItemHeights(v, t, [l EXCEPT !.top = 0])
           n == Len(heights)
           top == l.top
           above == {i \in DOMAIN heights : top < i /\ i <= at}
           d == h + Spacing
           Is(f) == f = [i \in 0 .. n |-> IF i = 0 THEN 0
                           ELSE f[i - 1] + IF i \in above THEN heights[i] + Spacing ELSE 0]
           f == CHOOSE f : Is(f)
           Rows(i) == IF i <= top THEN 0 ELSE IF i <= at THEN i - top ELSE at - top
           g == [i \in 0 .. n |-> Rows(i) * d]
<1>0. Uniform(heights, h) /\ at < n /\ ((at - top) + 1) * d <= UpdateRows /\ top \in Nat /\ top <= at
  OBVIOUS
<1>A. SelectionOnScreen(v, t, l) <=> top <= at /\ f[n] + heights[at + 1] <= RenderRows
  BY DEF SelectionOnScreen
<1> HIDE DEF heights, top
<1>1. /\ n \in Nat /\ h \in Nat /\ d \in Nat /\ Spacing \in {2, 3} /\ d >= 2
      /\ DOMAIN heights = 1 .. n /\ \A i \in 1 .. n : heights[i] = h
  BY <1>0, SpacingType DEF Uniform
<1>2. \A i \in 1 .. n : (IF i \in above THEN heights[i] + Spacing ELSE 0)
                            = IF top < i /\ i <= at THEN d ELSE 0
  <2> SUFFICES ASSUME NEW i \in 1 .. n
               PROVE  (IF i \in above THEN heights[i] + Spacing ELSE 0)
                          = IF top < i /\ i <= at THEN d ELSE 0
    OBVIOUS
  <2>0. i \in DOMAIN heights
    BY <1>1
  <2>1. i \in above <=> top < i /\ i <= at
    BY <2>0
  <2>2. heights[i] = h
    BY <1>1
  <2> HIDE DEF above
  <2> QED
    BY <2>1, <2>2
<1> HIDE DEF n, d, above
<1>3. \A i \in 0 .. n : Rows(i) \in Nat
  BY <1>0, <1>1
<1>4. \A i \in 1 .. n : Rows(i) = Rows(i - 1) + IF top < i /\ i <= at THEN 1 ELSE 0
  <2> SUFFICES ASSUME NEW i \in 1 .. n
               PROVE  Rows(i) = Rows(i - 1) + IF top < i /\ i <= at THEN 1 ELSE 0
    OBVIOUS
  <2>0. i \in Nat /\ i >= 1 /\ top \in Nat /\ at \in Nat /\ top <= at
    BY <1>0, <1>1
  <2>1. CASE i <= top
    BY <2>0, <2>1
  <2>2. CASE top < i /\ i <= at
    <3>1. Rows(i) = i - top
      BY <2>0, <2>2
    <3>2. Rows(i - 1) = (i - 1) - top
      BY <2>0, <2>2
    <3> HIDE DEF Rows
    <3> QED
      BY <2>0, <2>2, <3>1, <3>2
  <2>3. CASE i > at
    BY <2>0, <2>3
  <2> QED
    BY <2>0, <2>1, <2>2, <2>3
<1>5. \A i \in 1 .. n : Rows(i) * d = Rows(i - 1) * d + IF top < i /\ i <= at THEN d ELSE 0
  <2> SUFFICES ASSUME NEW i \in 1 .. n
               PROVE  Rows(i) * d = Rows(i - 1) * d + IF top < i /\ i <= at THEN d ELSE 0
    OBVIOUS
  <2> DEFINE a == Rows(i)
             b == Rows(i - 1)
  <2>1. a \in Nat /\ b \in Nat /\ a = b + IF top < i /\ i <= at THEN 1 ELSE 0
    <3>1. i - 1 \in 0 .. n /\ i \in 0 .. n
      BY <1>1
    <3> HIDE DEF Rows
    <3> QED
      BY <1>3, <1>4, <3>1
  <2> HIDE DEF Rows, a, b
  <2>2. (b + 1) * d = b * d + d /\ b * d \in Nat
    BY <1>1, <2>1, MulStep
  <2>3. a * d = b * d + IF top < i /\ i <= at THEN d ELSE 0
    <3>1. CASE top < i /\ i <= at
      <4>1. a = b + 1
        BY <2>1, <3>1
      <4> QED
        BY <2>2, <3>1, <4>1
    <3>2. CASE ~(top < i /\ i <= at)
      <4>1. a = b
        BY <2>1, <3>2
      <4> QED
        BY <2>2, <3>2, <4>1
    <3> QED
      BY <3>1, <3>2
  <2> QED
    BY <2>3 DEF a, b
<1>6. \A i \in 0 .. n : Rows(i) * d \in Nat
  <2> HIDE DEF Rows
  <2> QED
    BY <1>1, <1>3, MulStep
<1>7. Is(g)
  <2> DEFINE e(i) == IF i = 0 THEN 0
                     ELSE g[i - 1] + IF i \in above THEN heights[i] + Spacing ELSE 0
  <2>1. ASSUME NEW i \in 0 .. n PROVE Rows(i) * d = e(i)
    <3>1. CASE i = 0
      <4>1. Rows(i) = 0 /\ 0 * d = 0
        BY <1>0, <1>1, <3>1
      <4> QED
        BY <3>1, <4>1
    <3>2. CASE i # 0
      <4>1. i \in 1 .. n /\ i - 1 \in 0 .. n
        BY <1>1, <3>2
      <4> HIDE DEF Rows
      <4>2. g[i - 1] = Rows(i - 1) * d
        BY <4>1
      <4> HIDE DEF g
      <4>3. e(i) = Rows(i - 1) * d + IF top < i /\ i <= at THEN d ELSE 0
        BY <1>2, <3>2, <4>1, <4>2
      <4> QED
        BY <1>5, <4>1, <4>3
    <3> QED
      BY <3>1, <3>2
  <2> HIDE DEF e, Rows
  <2>2. g = [i \in 0 .. n |-> e(i)]
    BY <2>1
  <2> HIDE DEF g
  <2> QED
    BY <2>2 DEF e
<1>8. Is(f)
  <2> HIDE DEF Is
  <2> QED
    BY <1>7
<1>9. f[0] = 0 /\ \A i \in 1 .. n : f[i] = f[i - 1] + IF i \in above THEN heights[i] + Spacing ELSE 0
  <2> HIDE DEF f
  <2>1. f = [i \in 0 .. n |-> IF i = 0 THEN 0
                ELSE f[i - 1] + IF i \in above THEN heights[i] + Spacing ELSE 0]
    BY <1>8
  <2>2. \A i \in 0 .. n : f[i] = IF i = 0 THEN 0
                ELSE f[i - 1] + IF i \in above THEN heights[i] + Spacing ELSE 0
    BY <2>1
  <2>3. 0 \in 0 .. n /\ \A i \in 1 .. n : i \in 0 .. n /\ i # 0
    BY <1>1
  <2> QED
    BY <2>2, <2>3
<1> HIDE DEF f, Is, g
<1>10. \A i \in 0 .. n : f[i] = Rows(i) * d
  <2> DEFINE S == {i \in Nat : i <= n => f[i] = Rows(i) * d}
  <2>1. 0 \in S
    <3>1. Rows(0) = 0 /\ 0 * d = 0
      BY <1>0, <1>1
    <3> HIDE DEF Rows
    <3> QED
      BY <1>9, <3>1
  <2> HIDE DEF Rows
  <2>2. ASSUME NEW i \in Nat, i \in S PROVE i + 1 \in S
    <3>1. CASE i + 1 <= n
      <4>0. i + 1 \in 1 .. n /\ (i + 1) - 1 = i /\ i <= n
        <5>1. n \in Nat
          BY <1>1
        <5> QED
          BY <3>1, <5>1
      <4>1. f[i] = Rows(i) * d /\ i + 1 \in 1 .. n /\ (i + 1) - 1 = i
        BY <2>2, <4>0
      <4>2. f[i + 1] = Rows(i + 1) * d
        <5> DEFINE j == i + 1
        <5>1. j \in 1 .. n /\ j - 1 = i
          BY <4>1
        <5> HIDE DEF j
        <5>2. f[j] = f[j - 1] + IF top < j /\ j <= at THEN d ELSE 0
          BY <1>2, <1>9, <5>1
        <5>3. Rows(j) * d = Rows(j - 1) * d + IF top < j /\ j <= at THEN d ELSE 0
          BY <1>5, <5>1
        <5>4. f[j - 1] = Rows(j - 1) * d
          BY <4>1, <5>1
        <5>5. f[j] = Rows(j) * d
          BY <5>2, <5>3, <5>4
        <5> QED
          BY <5>5 DEF j
      <4> QED
        BY <4>2
    <3>2. CASE ~(i + 1 <= n)
      BY <1>1, <3>2
    <3> QED
      BY <3>1, <3>2
  <2>3. Nat \subseteq S
    <3> HIDE DEF S
    <3> QED
      BY <2>1, <2>2, NatSet
  <2> QED
    BY <1>1, <2>3
<1>11. f[n] = (at - top) * d /\ heights[at + 1] = h
  <2>1. at + 1 \in 1 .. n /\ n \in 0 .. n /\ at < n /\ top <= at
    BY <1>0, <1>1
  <2>2. Rows(n) = at - top
    BY <1>0, <1>1, <2>1
  <2> HIDE DEF Rows
  <2> QED
    BY <1>1, <1>10, <2>1, <2>2
<1>12. ((at - top) + 1) * d = (at - top) * d + d /\ (at - top) * d \in Nat
  <2>1. at - top \in Nat
    BY <1>0
  <2> QED
    BY <1>1, <2>1, MulStep
<1>13. f[n] + heights[at + 1] <= RenderRows
  <2>1. f[n] + d <= UpdateRows /\ f[n] \in Nat
    BY <1>0, <1>11, <1>12
  <2>2. d = h + Spacing
    BY DEF d
  <2> QED
    BY <1>1, <1>11, <2>1, <2>2 DEF UpdateRows, RenderRows, Monus
<1> QED
  BY <1>0, <1>A, <1>13

Height(v, t, cv, j) ==
    NodeHeight([view |-> cv, imbalance |-> Imbalance, split |-> Split], v.node[Ids(v, t)[j]], Compact)

LEMMA HeightsFacts ==
    ASSUME NEW v, ViewOK(v), NEW t \in Tab, NEW l \in List
    PROVE  LET heights == ItemHeights(v, t, l)
               len == Len(Ids(v, t))
           IN  /\ Len(heights) = Monus(len, l.top) /\ Len(heights) \in Nat
               /\ DOMAIN heights = 1 .. Len(heights)
               /\ \A i \in 1 .. Len(heights) :
                    /\ l.top + i \in 1 .. len
                    /\ heights[i] = Height(v, t, l.view, l.top + i)
                    /\ heights[i] \in Nat
<1> DEFINE ids == Ids(v, t)
           len == Len(ids)
           m == Monus(len, l.top)
           H(j) == Height(v, t, l.view, j)
           heights == ItemHeights(v, t, l)
<1>1. /\ len \in Nat /\ DOMAIN ids = 1 .. len /\ l.top \in Nat
      /\ \A j \in 1 .. len : v.node[ids[j]] \in NodeShape
  BY IdsFacts, ListFields
<1>2. heights = [i \in 1 .. m |-> H(l.top + i)]
  BY DEF ItemHeights, Height, ChannelState
<1>3. \A j \in 1 .. len : H(j) \in Nat
  BY <1>1, HeightType DEF Height
<1> HIDE DEF H, ids, len
<1>4. m \in Nat /\ \A i \in 1 .. m : l.top + i \in 1 .. len
  BY <1>1 DEF Monus
<1> HIDE DEF m, heights
<1>5. heights \in [1 .. m -> Nat]
  BY <1>2, <1>3, <1>4
<1>6. Len(heights) = m /\ DOMAIN heights = 1 .. m
  <2>1. heights \in Seq(Nat) /\ DOMAIN heights = 1 .. m
    BY <1>4, <1>5
  <2> QED
    BY <1>4, <2>1
<1>7. \A i \in 1 .. m : heights[i] = H(l.top + i)
  BY <1>2
<1> QED
  BY <1>3, <1>4, <1>6, <1>7 DEF m, len, ids, H, heights

LEMMA FrameOnScreen ==
    ASSUME NEW v, ViewOK(v), NEW t \in Tab, NEW s, ListOK(s), NEW l, ListOK(l),
           l.top = TopOf(v, t, s), l.selected = s.selected, l.view = s.view,
           Position(v, t, l.selected) # None, area \in Nat,
           \A i \in DOMAIN ItemHeights(v, t, [l EXCEPT !.top = 0]) :
               /\ ItemHeights(v, t, [l EXCEPT !.top = 0])[i] = ItemHeights(v, t, [l EXCEPT !.top = 0])[1]
               /\ ItemHeights(v, t, [l EXCEPT !.top = 0])[i] + Spacing <= UpdateRows
    PROVE  SelectionOnScreen(v, t, l)
<1> DEFINE z == [l EXCEPT !.top = 0]
           all == ItemHeights(v, t, z)
           some == ItemHeights(v, t, s)
           len == Len(Ids(v, t))
           at == Position(v, t, l.selected)
           h == all[1]
           d == h + Spacing
           count == VisibleCount(v, t, s, UpdateRows)
<1>1. s \in List /\ l \in List /\ s.top \in Nat /\ l.top \in Nat
  BY ListFields DEF ListOK
<1>2. z \in List /\ z.top = 0 /\ z.view = s.view
  BY <1>1 DEF List
<1>3. len \in Nat /\ at \in Nat /\ at < len
  BY IdsFacts, PositionFacts
<1>4. \A i \in DOMAIN all : all[i] = h /\ all[i] + Spacing <= UpdateRows
  OBVIOUS
<1>5. /\ Len(all) = Monus(len, 0) /\ Len(all) \in Nat
      /\ DOMAIN all = 1 .. Len(all)
      /\ \A i \in 1 .. Len(all) : all[i] = Height(v, t, s.view, 0 + i) /\ all[i] \in Nat
  <2> HIDE DEF z
  <2> QED
    BY <1>2, HeightsFacts
<1>6. /\ Len(some) = Monus(len, s.top) /\ Len(some) \in Nat
      /\ DOMAIN some = 1 .. Len(some)
      /\ \A i \in 1 .. Len(some) :
            s.top + i \in 1 .. len /\ some[i] = Height(v, t, s.view, s.top + i)
  BY <1>1, HeightsFacts
<1> HIDE DEF all, some, len, at
<1>7. Len(all) = len /\ 1 \in DOMAIN all
  BY <1>3, <1>5 DEF Monus
<1>8. h \in Nat /\ d \in Nat /\ d <= UpdateRows
  BY <1>4, <1>5, <1>7, SpacingType
<1>9. \A j \in 1 .. len : Height(v, t, s.view, j) = h
  <2> SUFFICES ASSUME NEW j \in 1 .. len PROVE Height(v, t, s.view, j) = h
    OBVIOUS
  <2>1. 0 + j = j /\ j \in DOMAIN all
    BY <1>3, <1>5, <1>7
  <2> QED
    BY <1>4, <1>5, <1>7, <2>1
<1>10. Uniform(all, h) /\ Uniform(some, h)
  <2> HIDE DEF h
  <2>1. Uniform(all, h)
    BY <1>4, <1>5, <1>8 DEF Uniform
  <2>2. Uniform(some, h)
    BY <1>6, <1>8, <1>9 DEF Uniform
  <2> QED
    BY <2>1, <2>2
<1>11. UpdateRows \in Nat
  BY MonusType DEF UpdateRows
<1> HIDE DEF h
<1>12. Fitting(count, Monus(len, s.top), d, UpdateRows)
  BY <1>6, <1>10, <1>11, CountUniform DEF some
<1>13. l.top = TopAt(at, len, s.top, count)
  BY <1>3, NoneFacts DEF TopOf, TopAt, at, len
<1> HIDE DEF d, count
<1>14. l.top <= at /\ ((at - l.top) + 1) * d <= UpdateRows
  <2> DEFINE old == s.top
             new == l.top
             rows == UpdateRows
  <2>1. /\ at \in Nat /\ len \in Nat /\ at < len /\ old \in Nat /\ rows \in Nat
        /\ d \in Nat /\ d <= rows
    BY <1>1, <1>3, <1>8, <1>11
  <2>2. Fitting(count, Monus(len, old), d, rows) /\ new = TopAt(at, len, old, count)
    BY <1>12, <1>13
  <2> HIDE DEF old, new, rows
  <2>3. new <= at /\ ((at - new) + 1) * d <= rows
    BY <2>1, <2>2, TopFits
  <2> QED
    BY <2>3 DEF new, rows
<1>15. SelectionOnScreen(v, t, l)
  <2>1. Uniform(ItemHeights(v, t, [l EXCEPT !.top = 0]), h)
        /\ at < Len(ItemHeights(v, t, [l EXCEPT !.top = 0]))
    BY <1>3, <1>7, <1>10 DEF all
  <2> QED
    BY <1>1, <1>3, <1>14, <2>1, OnScreen DEF d, at
<1> QED
  BY <1>15

(* Where all rows have one height and one of them fits, the selected row is*)
(* drawn whole after every frame: the rows update() counts as fitting are  *)
(* a prefix, and it puts the top so that the selected one is among them.   *)
THEOREM SelectionStaysOnScreen == Spec => UniformOnScreen
<1> DEFINE Shown ==
        LET l == lists'[tab]
            heights == ItemHeights(view', tab, [l EXCEPT !.top = 0])
        IN  l.selected # None
            /\ (\A i \in DOMAIN heights :
                    heights[i] = heights[1] /\ heights[i] + Spacing <= UpdateRows)
            => SelectionOnScreen(view', tab, l)
<1>1. ASSUME ListInv, Next, Framed PROVE Shown
  <2> DEFINE was == lists[tab]
             l == lists'[tab]
             v == view'
             s == Kept(v, tab, was)
             heights == ItemHeights(v, tab, [l EXCEPT !.top = 0])
             Fits == \A i \in DOMAIN heights :
                        heights[i] = heights[1] /\ heights[i] + Spacing <= UpdateRows
  <2>1. Frame
    BY <1>1, FramedIsFrame
  <2>2. /\ tab \in Tab /\ ListOK(was) /\ ViewOK(v) /\ ListOK(l)
        /\ l.top = TopOf(v, tab, s) /\ l.selected = s.selected /\ l.view = s.view
    BY <1>1, <2>1, FrameFacts
  <2>3. area \in Nat
    BY <1>1 DEF ListInv, TypeOK
  <2>4. Shown <=> (l.selected # None /\ Fits => SelectionOnScreen(v, tab, l))
    OBVIOUS
  <2> HIDE DEF Shown, was, l, v
  <2>5. ListOK(s)
    BY <2>2, KeptOK
  <2>6. l.selected # None => Position(v, tab, l.selected) # None
    <3>1. CASE Position(v, tab, was.selected) # None
      BY <2>2, <3>1, KeptOK
    <3>2. CASE Position(v, tab, was.selected) = None
      <4>1. s.selected = IF Ids(v, tab) = <<>> THEN None ELSE Ids(v, tab)[1]
        BY <2>2, <3>2, KeptOK
      <4>2. Ids(v, tab) # <<>> => 1 \in DOMAIN Ids(v, tab)
        BY <2>2, IdsFacts
      <4> HIDE DEF s
      <4>3. ASSUME l.selected # None PROVE Position(v, tab, l.selected) # None
        <5>1. \E i \in DOMAIN Ids(v, tab) : Ids(v, tab)[i] = l.selected
          BY <2>2, <4>1, <4>2, <4>3
        <5> QED
          BY <2>2, <5>1, PositionFacts
      <4> QED
        BY <4>3
    <3> QED
      BY <3>1, <3>2
  <2>7. ASSUME l.selected # None, Fits PROVE SelectionOnScreen(v, tab, l)
    <3>1. Position(v, tab, l.selected) # None
      BY <2>6, <2>7
    <3> HIDE DEF s
    <3> QED
      BY <2>2, <2>3, <2>5, <2>7, <3>1, FrameOnScreen
  <2> QED
    BY <2>4, <2>7
<1>2. ListInv /\ [Next]_vars => [Framed => Shown]_vars
  BY <1>1
<1> QED
  BY <1>2, ListInductive, PTL DEF Spec, UniformOnScreen
=============================================================================
