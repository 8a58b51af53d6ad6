-------------------------- MODULE RunVerdictProofs --------------------------
(***************************************************************************)
(* The graph of a run and its pending calls, when the repositories share   *)
(* their objects: what the descendants of a subtask are, what every step   *)
(* keeps of the graph, and the few forms a step can have.  From them, why  *)
(* the verdict on a run can be trusted, for every plan, every repair       *)
(* budget and every number of infrastructure errors: when the calls have   *)
(* returned nothing is left that should have run, a success is clean, and  *)
(* the run keeps the promise of RunLifecycle.                              *)
(***************************************************************************)
EXTENDS RunOrchestrationProofs, WellFoundedInduction

-----------------------------------------------------------------------------
(* What is reached from a subtask, however the graph is shaped *)

\* A set of natural numbers has a least element.
LEMMA LeastNatural ==
  ASSUME NEW T \in SUBSET Nat, T # {}
  PROVE  \E m \in T : \A k \in T : m <= k
<1>1. IsWellFoundedOn({ss \in Nat \X Nat : ss[1] < ss[2]}, Nat)
  BY NatLessThanWellFounded DEF OpToRel
<1> DEFINE R == {ss \in Nat \X Nat : ss[1] < ss[2]}
<1>2. \A x, y \in Nat : <<x, y>> \in R <=> x < y
  OBVIOUS
<1>3. IsWellFoundedOn(R, Nat)
  BY <1>1
<1> HIDE DEF R
<1>4. \E x \in T : \A y \in T : ~(<<y, x>> \in R)
  BY <1>3, WFMin
<1>5. PICK m \in T : \A y \in T : ~(<<y, m>> \in R)
  BY <1>4
<1>6. \A y \in T : m <= y
  <2>1. \A y \in T : ~(y < m)
    BY <1>2, <1>5
  <2> QED BY <2>1
<1> QED BY <1>6

\* What holds 0 and, with a number, its successor, holds all of them.
LEMMA NaturalSet ==
  ASSUME NEW K, 0 \in K, \A n \in Nat : n \in K => n + 1 \in K
  PROVE  Nat \subseteq K
<1> SUFFICES ASSUME Nat \ K # {} PROVE FALSE
  OBVIOUS
<1>1. PICK m \in Nat \ K : \A k \in Nat \ K : m <= k
  <2>1. Nat \ K \in SUBSET Nat
    OBVIOUS
  <2> QED BY <2>1, LeastNatural
<1>2. m # 0 /\ m - 1 \in Nat
  BY <1>1
<1>3. m - 1 \in K
  BY <1>1, <1>2
<1>4. (m - 1) + 1 = m
  BY <1>1
<1> QED BY <1>1, <1>2, <1>3, <1>4

\* h[k]: what is in A or reached from it over N in at most k steps.
Spreads(h, X, A, N) ==
  /\ h \in [Nat -> SUBSET X]
  /\ h[0] = A
  /\ \A k \in Nat : h[k + 1] = {x \in X : \E d \in h[k] : x = d \/ x \in N[d]}

\* There is one for every start and every relation.
LEMMA SpreadExists ==
  ASSUME NEW X, NEW A \in SUBSET X, NEW N \in [X -> SUBSET X]
  PROVE  \E h : Spreads(h, X, A, N)
<1> DEFINE Closed(U) ==
             /\ \A a \in A : <<0, a>> \in U
             /\ \A k \in Nat : \A d, x \in X :
                  <<k, d>> \in U /\ (x = d \/ x \in N[d]) => <<k + 1, x>> \in U
           P == {p \in Nat \X X : \A U \in SUBSET (Nat \X X) : Closed(U) => p \in U}
           h == [k \in Nat |-> {x \in X : <<k, x>> \in P}]
           V == {p \in P : \/ p[1] = 0 /\ p[2] \in A
                           \/ \E k \in Nat : \E d \in X :
                                /\ <<k, d>> \in P /\ p[1] = k + 1
                                /\ p[2] = d \/ p[2] \in N[d]}
<1>1. Closed(P)
  <2>1. \A a \in A : <<0, a>> \in P
    OBVIOUS
  <2>2. ASSUME NEW k \in Nat, NEW d \in X, NEW x \in X, <<k, d>> \in P, x = d \/ x \in N[d]
        PROVE  <<k + 1, x>> \in P
    <3>1. ASSUME NEW U \in SUBSET (Nat \X X), Closed(U) PROVE <<k + 1, x>> \in U
      <4>1. <<k, d>> \in U
        BY <2>2, <3>1
      <4> QED BY <2>2, <3>1, <4>1
    <3>2. <<k + 1, x>> \in Nat \X X
      OBVIOUS
    <3> HIDE DEF Closed
    <3> QED BY <3>1, <3>2
  <2> HIDE DEF P
  <2> QED BY <2>1, <2>2
<1>2. P \in SUBSET (Nat \X X)
  OBVIOUS
<1>3. \A U \in SUBSET (Nat \X X) : Closed(U) => P \subseteq U
  <2> HIDE DEF Closed
  <2> QED OBVIOUS
<1> HIDE DEF P
<1>4. Closed(V)
  <2>1. ASSUME NEW a \in A PROVE <<0, a>> \in V
    <3>1. <<0, a>> \in P
      BY <1>1
    <3> QED BY <3>1
  <2>2. ASSUME NEW k \in Nat, NEW d \in X, NEW x \in X, <<k, d>> \in V, x = d \/ x \in N[d]
        PROVE  <<k + 1, x>> \in V
    <3>1. <<k, d>> \in P
      BY <2>2
    <3>2. <<k + 1, x>> \in P
      BY <1>1, <2>2, <3>1
    <3> QED BY <2>2, <3>1, <3>2
  <2> HIDE DEF V
  <2> QED BY <2>1, <2>2
<1>5. P \subseteq V
  <2>1. V \in SUBSET (Nat \X X)
    BY <1>2
  <2> HIDE DEF V, Closed
  <2> QED BY <1>3, <1>4, <2>1
<1>6. h \in [Nat -> SUBSET X]
  OBVIOUS
<1>7. h[0] = A
  <2>1. ASSUME NEW x \in X, <<0, x>> \in P PROVE x \in A
    <3> DEFINE p == <<0, x>>
    <3>1. p \in V /\ p[1] = 0 /\ p[2] = x
      BY <1>5, <2>1
    <3>2. \A k \in Nat : p[1] # k + 1
      BY <3>1
    <3> HIDE DEF p
    <3> QED BY <3>1, <3>2
  <2>2. \A a \in A : <<0, a>> \in P
    BY <1>1
  <2> QED BY <2>1, <2>2
<1>8. ASSUME NEW k \in Nat
      PROVE  h[k + 1] = {x \in X : \E d \in h[k] : x = d \/ x \in N[d]}
  <2>1. ASSUME NEW x \in X, <<k + 1, x>> \in P
        PROVE  \E d \in X : <<k, d>> \in P /\ (x = d \/ x \in N[d])
    <3> DEFINE p == <<k + 1, x>>
    <3>1. p[1] = k + 1 /\ p[1] # 0 /\ p[2] = x
      OBVIOUS
    <3>4. p \in V
      <4> HIDE DEF V
      <4> QED BY <1>5, <2>1
    <3> HIDE DEF p
    <3>2. PICK j \in Nat, d \in X : /\ <<j, d>> \in P /\ k + 1 = j + 1
                                    /\ x = d \/ x \in N[d]
      BY <3>1, <3>4
    <3>3. j = k
      BY <3>2
    <3> QED BY <3>2, <3>3
  <2>2. \A x, d \in X : <<k, d>> \in P /\ (x = d \/ x \in N[d]) => <<k + 1, x>> \in P
    BY <1>1
  <2>3. k + 1 \in Nat
    OBVIOUS
  <2> QED BY <2>1, <2>2, <2>3
<1> HIDE DEF h
<1> QED BY <1>6, <1>7, <1>8 DEF Spreads

\* What Descendants collects is a spread from s to what depends on it.
LEMMA DescendantsSpread ==
  ASSUME NEW q, IsGraph(q), NEW s \in 1 .. Len(q)
  PROVE  \E h : /\ Spreads(h, 1 .. Len(q), {s},
                            [d \in 1 .. Len(q) |-> {x \in 1 .. Len(q) : d \in q[x].deps}])
                /\ Descendants(q, s) = {x \in 1 .. Len(q) :
                                          \E d \in h[Len(q)] : d \in q[x].deps}
<1> DEFINE X == 1 .. Len(q)
           Below(d) == {c \in X : d \in q[c].deps}
           N == [d \in X |-> Below(d)]
           Eqn(f) == f = [k \in Nat |-> IF k = 0 THEN {s}
                                        ELSE UNION {{d} \cup Below(d) : d \in f[k - 1]}]
           D == CHOOSE f : Eqn(f)
<1>0. Len(q) \in Nat
  BY DEF IsGraph
<1>1. PICK h : Spreads(h, X, {s}, N)
  <2> DEFINE A == {s}
  <2>1. N \in [X -> SUBSET X] /\ A \in SUBSET X
    OBVIOUS
  <2> HIDE DEF A, N, X
  <2>2. \E h : Spreads(h, X, A, N)
    BY <2>1, SpreadExists
  <2> QED BY <2>2 DEF A
<1>2. Eqn(h)
  <2>1. ASSUME NEW k \in Nat, k # 0
        PROVE  h[k] = UNION {{d} \cup Below(d) : d \in h[k - 1]}
    <3>1. k - 1 \in Nat /\ (k - 1) + 1 = k
      BY <2>1
    <3>2. h[k] = {x \in X : \E d \in h[k - 1] : x = d \/ x \in N[d]}
      BY <1>1, <3>1 DEF Spreads
    <3>3. h[k - 1] \subseteq X
      BY <1>1, <3>1 DEF Spreads
    <3>4. \A d \in X : N[d] = Below(d)
      OBVIOUS
    <3> HIDE DEF N, Below
    <3>5. h[k] \subseteq UNION {{d} \cup Below(d) : d \in h[k - 1]}
      BY <3>2, <3>3, <3>4
    <3>6. UNION {{d} \cup Below(d) : d \in h[k - 1]} \subseteq h[k]
      <4>1. \A d \in X : Below(d) \subseteq X
        BY DEF Below
      <4> QED BY <3>2, <3>3, <3>4, <4>1
    <3> QED BY <3>5, <3>6
  <2> QED BY <1>1, <2>1 DEF Spreads
<1>3. Eqn(D)
  <2> HIDE DEF Eqn
  <2> QED BY <1>2
<1>4. Descendants(q, s) = UNION {Below(d) : d \in D[Len(q)]}
  BY DEF Descendants
<1>5. /\ D[0] = {s}
      /\ \A k \in Nat : D[k + 1] = UNION {{d} \cup Below(d) : d \in D[k]}
  <2> HIDE DEF D, Below
  <2>1. \A k \in Nat : D[k] = IF k = 0 THEN {s} ELSE UNION {{d} \cup Below(d) : d \in D[k - 1]}
    <3>1. D = [k \in Nat |-> IF k = 0 THEN {s} ELSE UNION {{d} \cup Below(d) : d \in D[k - 1]}]
      BY <1>3
    <3> HIDE DEF Eqn
    <3> QED BY <3>1
  <2>2. \A k \in Nat : k + 1 \in Nat /\ k + 1 # 0 /\ (k + 1) - 1 = k
    OBVIOUS
  <2> QED BY <2>1, <2>2
<1> HIDE DEF D
<1>6. \A k \in Nat : D[k] \subseteq X
  <2> DEFINE K == {k \in Nat : D[k] \subseteq X}
  <2>1. 0 \in K
    BY <1>5
  <2>2. \A k \in Nat : k \in K => k + 1 \in K
    BY <1>5
  <2> HIDE DEF K
  <2>3. Nat \subseteq K
    BY <2>1, <2>2, NaturalSet
  <2> QED BY <2>3 DEF K
<1>7. \A k \in Nat : D[k + 1] = {x \in X : \E d \in D[k] : x = d \/ x \in N[d]}
  <2>1. \A d, x \in X : x \in N[d] <=> d \in q[x].deps
    OBVIOUS
  <2>2. \A k \in Nat : D[k + 1] = {x \in X : \E d \in D[k] : x = d \/ d \in q[x].deps}
    BY <1>5, <1>6
  <2> HIDE DEF N, X
  <2> QED BY <1>6, <2>1, <2>2
<1>8. D = [k \in Nat |-> D[k]]
  BY <1>3 DEF D
<1>9. D \in [Nat -> SUBSET X]
  BY <1>6, <1>8
<1>10. Descendants(q, s) = {x \in X : \E d \in D[Len(q)] : d \in q[x].deps}
  BY <1>4
<1>11. Spreads(D, X, {s}, N)
  BY <1>5, <1>7, <1>9 DEF Spreads
<1> QED BY <1>10, <1>11

\* A spread only grows, and what closes it holds all of it.
LEMMA SpreadBounds ==
  ASSUME NEW h, NEW X, NEW A, NEW N, Spreads(h, X, A, N)
  PROVE  /\ \A k \in Nat : A \subseteq h[k] /\ h[k] \subseteq X /\ h[k] \subseteq h[k + 1]
         /\ \A U : A \subseteq U /\ (\A d \in U \cap X : N[d] \cap X \subseteq U)
                  => \A k \in Nat : h[k] \subseteq U
<1>1. \A k \in Nat : h[k] \subseteq X /\ h[k] \subseteq h[k + 1]
  BY DEF Spreads
<1>2. \A k \in Nat : A \subseteq h[k]
  <2> DEFINE K == {k \in Nat : A \subseteq h[k]}
  <2>1. 0 \in K
    BY DEF Spreads
  <2>2. \A k \in Nat : k \in K => k + 1 \in K
    BY <1>1
  <2> HIDE DEF K
  <2>3. Nat \subseteq K
    BY <2>1, <2>2, NaturalSet
  <2> QED BY <2>3 DEF K
<1>3. ASSUME NEW U, A \subseteq U, \A d \in U \cap X : N[d] \cap X \subseteq U
      PROVE  \A k \in Nat : h[k] \subseteq U
  <2> DEFINE K == {k \in Nat : h[k] \subseteq U}
  <2>1. 0 \in K
    BY <1>3 DEF Spreads
  <2>2. \A k \in Nat : k \in K => k + 1 \in K
    BY <1>1, <1>3 DEF Spreads
  <2> HIDE DEF K
  <2>3. Nat \subseteq K
    BY <2>1, <2>2, NaturalSet
  <2> QED BY <2>3 DEF K
<1> QED BY <1>1, <1>2, <1>3

\* It is complete after as many steps as there are elements.
LEMMA SpreadSaturates ==
  ASSUME NEW h, NEW n \in Nat, NEW A, NEW N, Spreads(h, 1 .. n, A, N)
  PROVE  h[n + 1] = h[n]
<1>0. /\ IsFiniteSet(1 .. n) /\ Cardinality(1 .. n) = n
  BY FS_Interval
<1>1. \A k \in Nat : h[k] \subseteq 1 .. n /\ h[k] \subseteq h[k + 1]
  BY SpreadBounds
<1>2. \A k \in Nat : /\ IsFiniteSet(h[k]) /\ Cardinality(h[k]) \in Nat
                     /\ Cardinality(h[k]) = n => h[k] = 1 .. n
                     /\ Cardinality(h[k]) <= n
  <2> SUFFICES ASSUME NEW k \in Nat
               PROVE  /\ IsFiniteSet(h[k]) /\ Cardinality(h[k]) \in Nat
                      /\ Cardinality(h[k]) = n => h[k] = 1 .. n
                      /\ Cardinality(h[k]) <= n
    OBVIOUS
  <2>1. h[k] \in SUBSET (1 .. n)
    BY <1>1
  <2> QED BY <1>0, <2>1, FS_Subset, FS_CardinalityType
<1> DEFINE K == {k \in Nat : Cardinality(h[k]) >= k \/ h[k + 1] = h[k]}
<1>3. 0 \in K
  BY <1>2
<1>4. ASSUME NEW k \in Nat, k \in K PROVE k + 1 \in K
  <2>1. CASE h[k + 1] = h[k]
    <3>1. /\ k + 1 \in Nat
          /\ h[k + 1] = {x \in 1 .. n : \E d \in h[k] : x = d \/ x \in N[d]}
          /\ h[(k + 1) + 1] = {x \in 1 .. n : \E d \in h[k + 1] : x = d \/ x \in N[d]}
      BY DEF Spreads
    <3>2. h[(k + 1) + 1] = h[k + 1]
      BY <2>1, <3>1
    <3> QED BY <3>1, <3>2
  <2>2. CASE h[k + 1] # h[k] /\ Cardinality(h[k]) >= k
    <3>0. k + 1 \in Nat
      OBVIOUS
    <3>1. IsFiniteSet(h[k + 1]) /\ h[k] \in SUBSET h[k + 1]
      BY <1>1, <1>2, <3>0
    <3>2. Cardinality(h[k]) <= Cardinality(h[k + 1]) /\ Cardinality(h[k]) # Cardinality(h[k + 1])
      BY <2>2, <3>1, FS_Subset
    <3>3. Cardinality(h[k]) \in Nat /\ Cardinality(h[k + 1]) \in Nat
      BY <1>2, <3>0
    <3>4. Cardinality(h[k + 1]) >= k + 1
      BY <2>2, <3>2, <3>3
    <3> QED BY <3>0, <3>4
  <2> QED BY <1>4, <2>1, <2>2
<1>5. Nat \subseteq K
  <2> HIDE DEF K
  <2> QED BY <1>3, <1>4, NaturalSet
<1>6. CASE Cardinality(h[n]) >= n
  <2>1. /\ n + 1 \in Nat
        /\ Cardinality(h[n]) \in Nat /\ Cardinality(h[n]) <= n
        /\ Cardinality(h[n]) = n => h[n] = 1 .. n
    BY <1>2
  <2>2. h[n] = 1 .. n
    BY <1>6, <2>1
  <2>3. h[n] \subseteq h[n + 1] /\ h[n + 1] \subseteq 1 .. n
    BY <1>1, <2>1
  <2> QED BY <2>2, <2>3
<1> QED BY <1>5, <1>6

\* What depends on s or on an element of U is in U.
ClosedBelow(q, s, U) ==
  \A p \in 1 .. Len(q) : \A d \in q[p].deps : d = s \/ d \in U => p \in U

\* The descendants of s are the least such set.
LEMMA DescendantsAre ==
  ASSUME NEW q, IsGraph(q), NEW s \in 1 .. Len(q)
  PROVE  /\ Descendants(q, s) \subseteq 1 .. Len(q)
         /\ ClosedBelow(q, s, Descendants(q, s))
         /\ \A U : ClosedBelow(q, s, U) => Descendants(q, s) \subseteq U
         /\ \A p \in Descendants(q, s) :
              \E d \in q[p].deps : d = s \/ d \in Descendants(q, s)
<1> DEFINE n == Len(q)
           X == 1 .. n
           N == [d \in X |-> {x \in X : d \in q[x].deps}]
           DS == Descendants(q, s)
<1>0. n \in Nat /\ \A x \in X : q[x].deps \subseteq X
  BY DEF IsGraph
<1>1. PICK h : Spreads(h, X, {s}, N) /\ DS = {x \in X : \E d \in h[n] : d \in q[x].deps}
  BY DescendantsSpread
<1> DEFINE A == {s}
<1>14. Spreads(h, X, A, N)
  BY <1>1
<1>15. N \in [X -> SUBSET X]
  OBVIOUS
<1>2. h[n + 1] = h[n]
  <2> HIDE DEF A, N, n
  <2> QED BY <1>0, <1>14, SpreadSaturates
<1> HIDE DEF DS
<1>16. /\ \A k \in Nat : A \subseteq h[k] /\ h[k] \subseteq X /\ h[k] \subseteq h[k + 1]
       /\ \A U : A \subseteq U /\ (\A d \in U \cap X : N[d] \cap X \subseteq U)
                 => \A k \in Nat : h[k] \subseteq U
  <2> HIDE DEF A, N, X
  <2> QED BY <1>14, SpreadBounds
<1>3. \A k \in Nat : s \in h[k] /\ h[k] \subseteq X
  BY <1>16
<1>4. \A d \in h[n] : \A x \in X : d \in q[x].deps => x \in h[n]
  BY <1>0, <1>1, <1>2, <1>3 DEF Spreads
<1>5. ClosedBelow(q, s, DS)
  <2> SUFFICES ASSUME NEW p \in X, NEW d \in q[p].deps, d = s \/ d \in DS PROVE p \in DS
    BY DEF ClosedBelow
  <2>1. d \in h[n]
    BY <1>0, <1>1, <1>3, <1>4
  <2> QED BY <1>1, <2>1
<1>6. ASSUME NEW U, ClosedBelow(q, s, U) PROVE DS \subseteq U
  <2> DEFINE V == U \cup {s}
  <2>1. \A d \in V \cap X : N[d] \cap X \subseteq V
    BY <1>6 DEF ClosedBelow
  <2>2. A \subseteq V
    OBVIOUS
  <2> HIDE DEF V, N, A, X
  <2>3. h[n] \subseteq V
    BY <1>0, <1>16, <2>1, <2>2
  <2> QED BY <1>1, <1>6, <2>3 DEF ClosedBelow, V, X
<1>7. ASSUME NEW p \in DS PROVE \E d \in q[p].deps : d = s \/ d \in DS
  <2>1. PICK d \in h[n] : d \in q[p].deps
    BY <1>1
  <2> DEFINE V == DS \cup {s}
  <2>2. \A x \in V \cap X : N[x] \cap X \subseteq V
    BY <1>5 DEF ClosedBelow
  <2>3. A \subseteq V
    OBVIOUS
  <2> HIDE DEF V, N, A, X
  <2>4. h[n] \subseteq V
    BY <1>0, <1>16, <2>2, <2>3
  <2> QED BY <2>1, <2>4 DEF V
<1> QED BY <1>1, <1>5, <1>6, <1>7 DEF DS

\* What a rework can target lies in every set that holds the dependencies of
\* the reviewer and of its own members.
LEMMA ReworkTargetsWithin ==
  ASSUME NEW q, IsGraph(q), NEW s \in 1 .. Len(q), NEW t \in ReworkTargets(q, s),
         NEW U, q[s].deps \subseteq U, \A d \in U \cap (1 .. Len(q)) : q[d].deps \subseteq U
  PROVE  t \in U /\ t \in 1 .. Len(q) /\ q[t].role \in Makers
<1> DEFINE X == 1 .. Len(q)
           N == [d \in X |-> q[d].deps]
           Eqn(f) == f = [k \in Nat |-> IF k = 0 THEN q[s].deps
                                        ELSE UNION {{d} \cup q[d].deps : d \in f[k - 1]}]
           W == CHOOSE f : Eqn(f)
<1>0. Len(q) \in Nat /\ \A d \in X : q[d].deps \subseteq X
  BY DEF IsGraph
<1>1. PICK h : Spreads(h, X, q[s].deps, N)
  <2> DEFINE A == q[s].deps
  <2>1. N \in [X -> SUBSET X] /\ A \in SUBSET X
    BY <1>0
  <2> HIDE DEF A, N, X
  <2>2. \E h : Spreads(h, X, A, N)
    BY <2>1, SpreadExists
  <2> QED BY <2>2 DEF A
<1>2. Eqn(h)
  <2>1. ASSUME NEW k \in Nat, k # 0
        PROVE  h[k] = UNION {{d} \cup q[d].deps : d \in h[k - 1]}
    <3>1. k - 1 \in Nat /\ (k - 1) + 1 = k
      BY <2>1
    <3>2. h[k] = {x \in X : \E d \in h[k - 1] : x = d \/ x \in N[d]}
      BY <1>1, <3>1 DEF Spreads
    <3>3. h[k - 1] \subseteq X
      BY <1>1, <3>1 DEF Spreads
    <3>4. \A d \in X : N[d] = q[d].deps
      OBVIOUS
    <3> HIDE DEF N
    <3>5. h[k] \subseteq UNION {{d} \cup q[d].deps : d \in h[k - 1]}
      BY <3>2, <3>3, <3>4
    <3>6. UNION {{d} \cup q[d].deps : d \in h[k - 1]} \subseteq h[k]
      BY <1>0, <3>2, <3>3, <3>4
    <3> QED BY <3>5, <3>6
  <2> QED BY <1>1, <2>1 DEF Spreads
<1>3. Eqn(W)
  <2> HIDE DEF Eqn
  <2> QED BY <1>2
<1>4. Within(q, s) = W
  BY DEF Within
<1>5. /\ W[0] = q[s].deps
      /\ \A k \in Nat : W[k + 1] = UNION {{d} \cup q[d].deps : d \in W[k]}
  <2> HIDE DEF W
  <2>1. \A k \in Nat : W[k] = IF k = 0 THEN q[s].deps ELSE UNION {{d} \cup q[d].deps : d \in W[k - 1]}
    <3>1. W = [k \in Nat |-> IF k = 0 THEN q[s].deps ELSE UNION {{d} \cup q[d].deps : d \in W[k - 1]}]
      BY <1>3
    <3> HIDE DEF Eqn
    <3> QED BY <3>1
  <2>2. \A k \in Nat : k + 1 \in Nat /\ k + 1 # 0 /\ (k + 1) - 1 = k
    OBVIOUS
  <2> QED BY <2>1, <2>2
<1> HIDE DEF W
<1>6. \A k \in Nat : W[k] \subseteq U \cap X
  <2> DEFINE K == {k \in Nat : W[k] \subseteq U \cap X}
  <2>1. 0 \in K
    BY <1>0, <1>5
  <2>2. \A k \in Nat : k \in K => k + 1 \in K
    BY <1>0, <1>5
  <2> HIDE DEF K
  <2>3. Nat \subseteq K
    BY <2>1, <2>2, NaturalSet
  <2> QED BY <2>3 DEF K
<1>7. PICK k \in 0 .. Len(q) : t \in Within(q, s)[k] /\ q[t].role \in Makers /\ t \in 1 .. Len(q)
  BY DEF ReworkTargets
<1>8. k \in Nat
  BY <1>0
<1> QED BY <1>4, <1>6, <1>7, <1>8

\* In a graph that grows the old subtasks keep their descendants.
LEMMA DescendantsExtend ==
  ASSUME NEW q, IsGraph(q), NEW r, IsGraph(r), Lineage(q, r), NEW f \in 1 .. Len(q)
  PROVE  Descendants(r, f) \cap (1 .. Len(q)) = Descendants(q, f)
<1>0. /\ Len(q) \in Nat /\ Len(r) \in Nat /\ Len(q) <= Len(r)
      /\ 1 .. Len(q) \subseteq 1 .. Len(r) /\ f \in 1 .. Len(r)
  BY DEF IsGraph, Lineage
<1>1. \A p \in 1 .. Len(q) : r[p].deps = q[p].deps /\ q[p].deps \subseteq 1 .. Len(q)
  BY DEF Lineage, SameLineage, IsGraph
<1>2. Descendants(q, f) \subseteq Descendants(r, f) /\ Descendants(q, f) \subseteq 1 .. Len(q)
  <2> DEFINE U == Descendants(r, f)
  <2>1. ClosedBelow(r, f, U)
    BY <1>0, DescendantsAre
  <2>2. ClosedBelow(q, f, U)
    BY <1>0, <1>1, <2>1 DEF ClosedBelow
  <2> HIDE DEF U
  <2>3. Descendants(q, f) \subseteq U /\ Descendants(q, f) \subseteq 1 .. Len(q)
    BY <2>2, DescendantsAre
  <2> QED BY <2>3 DEF U
<1>3. Descendants(r, f) \cap (1 .. Len(q)) \subseteq Descendants(q, f)
  <2> DEFINE U == Descendants(q, f) \cup ((1 .. Len(r)) \ (1 .. Len(q)))
  <2>1. ClosedBelow(q, f, Descendants(q, f))
    BY DescendantsAre
  <2>2. ClosedBelow(r, f, U)
    BY <1>0, <1>1, <2>1 DEF ClosedBelow
  <2>3. U \cap (1 .. Len(q)) \subseteq Descendants(q, f)
    OBVIOUS
  <2> HIDE DEF U
  <2>4. Descendants(r, f) \subseteq U
    BY <1>0, <2>2, DescendantsAre
  <2> QED BY <2>3, <2>4
<1> QED BY <1>2, <1>3

-----------------------------------------------------------------------------
(* A failure that is told *)

\* A step in which no except clause raises: the orchestrator hears of every
\* failure.
HeardNext == Next /\ ~CaughtRaises

LEMMA HeardIsNext == [HeardNext]_vars => [Next]_vars
BY DEF HeardNext

LEMMA HeardSteps == [Next]_vars /\ [~CaughtRaises]_vars => [HeardNext]_vars
BY DEF HeardNext

-----------------------------------------------------------------------------
(* The graph *)

\* A subtask whose execution has begun, or was scheduled.
Begun(q, p) == q[p].status \notin {"queued", "ready", "cancelled"}

\* A subtask comes after what it depends on: in the chains also by its place.
Ordered(q) ==
  \A p \in 1 .. Len(q) : \A d \in q[p].deps :
    q[d].attempt <= q[p].attempt /\ (q[p].attempt > 0 => d < p)

\* Only failures of repairable roles are repaired.
RepairsFailures(q) ==
  \A p \in 1 .. Len(q) :
    q[p].repaired => q[p].status = "failed" /\ q[p].role \in Repairable

\* What was scheduled depends on what was executed.
BegunOnEnded(q) ==
  \A p \in 1 .. Len(q) :
    Begun(q, p) => \A d \in q[p].deps : q[d].status \in {"succeeded", "failed"}

\* Nothing waits for what was cancelled or is repaired.
NothingWaits(q) ==
  \A p \in 1 .. Len(q) : \A d \in q[p].deps :
    q[d].status = "cancelled" \/ q[d].repaired => q[p].status \in Finished

\* What was cancelled depended on a failure.
CancelledBelowFailure(q) ==
  \A p \in 1 .. Len(q) :
    q[p].status = "cancelled" =>
      \E f \in 1 .. Len(q) : q[f].status = "failed" /\ p \in Descendants(q, f)

\* What a chain covers could still be repaired when the chain was made.
CoversRepairable(q) ==
  \A p \in 1 .. Len(q) :
    LET z == q[p].source
    IN  z # 0 => /\ z \in 1 .. Len(q) /\ q[z].role \in Repairable
                 /\ q[z].repaired \/ q[z].attempt < MaxRepairAttempts

\* What was repaired has a chain.
RepairsCovered(q) ==
  \A p \in 1 .. Len(q) : q[p].repaired => \E s \in 1 .. Len(q) : q[s].source = p

\* Only a reviewer objects and succeeds all the same.
Objects(x) == x.verdict = "fail" \/ x.decision = "rework"

ReviewersObject(q) ==
  \A p \in 1 .. Len(q) :
    q[p].status = "succeeded" /\ Objects(q[p]) => q[p].role = "reviewer"

GraphInv(q) ==
  /\ IsGraph(q)
  /\ Ordered(q) /\ RepairsFailures(q) /\ BegunOnEnded(q)
  /\ NothingWaits(q) /\ CancelledBelowFailure(q) /\ CoversRepairable(q)
  /\ RepairsCovered(q) /\ ReviewersObject(q)

\* The execution of k changes its status only, and its result.
Runs(q, r, k) ==
  /\ IsGraph(r) /\ Len(r) = Len(q) /\ k \in 1 .. Len(q)
  /\ \A p \in 1 .. Len(q) : p # k => r[p] = q[p]
  /\ Executed(q[k], r[k])
  /\ Begun(q, k) /\ Begun(r, k)
  /\ q[k].status \in {"succeeded", "failed"} => r[k].status \in {"succeeded", "failed"}
  /\ q[k].status = "failed" => r[k].status = "failed"
  /\ r[k].status = "succeeded" /\ Objects(r[k]) => r[k].role = "reviewer"

\* The set holds what the subtasks in deps depend on, and what its own
\* members depend on.
Upstream(q, deps, U) ==
  /\ \A d \in deps : q[d].deps \subseteq U
  /\ \A d \in U \cap (1 .. Len(q)) : q[d].deps \subseteq U

\* A chain is added that starts from deps; what depends on x, unless x is 0,
\* is cancelled.
Chained(q, r, x, deps) ==
  /\ IsGraph(r) /\ Len(r) = Len(q) + 3
  /\ \A k \in 1 .. Len(q) :
       /\ r[k].role = q[k].role /\ r[k].deps = q[k].deps
       /\ r[k].attempt = q[k].attempt /\ r[k].source = q[k].source
       /\ r[k].verdict = q[k].verdict /\ r[k].decision = q[k].decision
       /\ r[k].repaired <=> (q[k].repaired \/ k = x)
       /\ r[k].reworked <=> (q[k].reworked \/ (x = 0 /\ k \in deps))
       /\ r[k].status = IF x # 0 /\ k \in Descendants(q, x) /\ q[k].status \notin Finished
                        THEN "cancelled" ELSE q[k].status
  /\ deps \subseteq 1 .. Len(q) /\ \A d \in deps : q[d].status = "succeeded"
  /\ \E role, attempt, sources :
       /\ ChainAt(r, Len(q), role, deps, attempt, sources)
       /\ attempt \in Nat \ {0} /\ \A d \in deps : q[d].attempt <= attempt
       /\ \A i \in 1 .. 3 :
            \/ sources[i] = 0
            \/ /\ sources[i] \in 1 .. Len(q) /\ q[sources[i]].role \in Repairable
               /\ sources[i] = x \/ q[sources[i]].attempt < MaxRepairAttempts
               /\ x = 0 => \A U : Upstream(q, deps, U) => sources[i] \in U
       /\ x # 0 => sources[1] = x
  /\ \/ x = 0
     \/ x \in 1 .. Len(q) /\ q[x].status = "failed" /\ q[x].role \in Repairable

\* Ready subtasks are scheduled, or put back.
Schedules(q, r) ==
  /\ IsGraph(r) /\ Len(r) = Len(q)
  /\ \A s \in 1 .. Len(q) : AllButStatus(q[s], r[s])
  /\ \A s \in 1 .. Len(q) : s \notin Ready(q) => r[s].status = q[s].status
  /\ \A s \in Ready(q) : r[s].status \in {"ready", "assigned"}

\* Executing, scheduling and repairing keep the invariant of the graph.
LEMMA RunsGraph ==
  ASSUME NEW q, GraphInv(q), NEW r, NEW k, Runs(q, r, k)
  PROVE  GraphInv(r) /\ Lineage(q, r)
<1>0. IsGraph(q) /\ IsGraph(r) /\ Len(q) \in Nat /\ Len(r) = Len(q)
  BY DEF GraphInv, Runs, IsGraph
<1>1. \A p \in 1 .. Len(q) :
        /\ r[p].role = q[p].role /\ r[p].deps = q[p].deps
        /\ r[p].attempt = q[p].attempt /\ r[p].source = q[p].source
        /\ r[p].repaired = q[p].repaired
        /\ q[p].status \in {"succeeded", "failed"} => r[p].status \in {"succeeded", "failed"}
        /\ q[p].status = "failed" => r[p].status = "failed"
        /\ q[p].status = "cancelled" <=> r[p].status = "cancelled"
        /\ Begun(q, p) <=> Begun(r, p)
  BY DEF Runs, Executed, Begun
<1>2. \A p \in 1 .. Len(q) : q[p].deps \subseteq 1 .. Len(q)
  BY <1>0 DEF IsGraph
<1>3. Lineage(q, r)
  BY <1>0, <1>1 DEF Lineage, SameLineage
<1>4. Ordered(r) /\ RepairsFailures(r)
  BY <1>0, <1>1, <1>2 DEF Ordered, RepairsFailures, GraphInv
<1>5. BegunOnEnded(r)
  BY <1>0, <1>1, <1>2 DEF BegunOnEnded, GraphInv
<1>6. NothingWaits(r)
  BY <1>0, <1>1, <1>2 DEF NothingWaits, GraphInv, Finished
<1>7. CancelledBelowFailure(r)
  BY <1>0, <1>1, <1>3, DescendantsExtend DEF CancelledBelowFailure, GraphInv
<1>8. CoversRepairable(r)
  BY <1>0, <1>1 DEF CoversRepairable, GraphInv
<1>9. RepairsCovered(r)
  BY <1>0, <1>1 DEF RepairsCovered, GraphInv
<1>10. ReviewersObject(r)
  BY <1>0 DEF ReviewersObject, GraphInv, Runs
<1> QED BY <1>0, <1>3, <1>4, <1>5, <1>6, <1>7, <1>8, <1>9, <1>10 DEF GraphInv

\* The same of scheduling.
LEMMA SchedulesGraph ==
  ASSUME NEW q, GraphInv(q), NEW r, Schedules(q, r)
  PROVE  GraphInv(r) /\ Lineage(q, r)
<1>0. IsGraph(q) /\ IsGraph(r) /\ Len(q) \in Nat /\ Len(r) = Len(q)
  BY DEF GraphInv, Schedules, IsGraph
<1>1. \A p \in 1 .. Len(q) :
        /\ r[p].role = q[p].role /\ r[p].deps = q[p].deps
        /\ r[p].attempt = q[p].attempt /\ r[p].source = q[p].source
        /\ r[p].repaired = q[p].repaired
        /\ q[p].status \in Finished => r[p].status = q[p].status
        /\ q[p].status \notin Finished => r[p].status \notin Finished
        /\ Begun(r, p) => Begun(q, p) \/ \A d \in q[p].deps : q[d].status = "succeeded"
  BY DEF Schedules, AllButStatus, Ready, Begun, Finished
<1>2. \A p \in 1 .. Len(q) : q[p].deps \subseteq 1 .. Len(q)
  BY <1>0 DEF IsGraph
<1>3. Lineage(q, r)
  BY <1>0, <1>1 DEF Lineage, SameLineage
<1>4. Ordered(r) /\ RepairsFailures(r)
  BY <1>0, <1>1, <1>2 DEF Ordered, RepairsFailures, GraphInv, Finished
<1>5. BegunOnEnded(r)
  BY <1>0, <1>1, <1>2 DEF BegunOnEnded, GraphInv, Finished
<1>6. NothingWaits(r)
  BY <1>0, <1>1, <1>2 DEF NothingWaits, GraphInv, Finished
<1>7. CancelledBelowFailure(r)
  BY <1>0, <1>1, <1>3, DescendantsExtend DEF CancelledBelowFailure, GraphInv, Finished
<1>8. CoversRepairable(r)
  BY <1>0, <1>1 DEF CoversRepairable, GraphInv
<1>9. RepairsCovered(r)
  BY <1>0, <1>1 DEF RepairsCovered, GraphInv
<1>10. ReviewersObject(r)
  <2> SUFFICES ASSUME NEW p \in 1 .. Len(r), r[p].status = "succeeded", Objects(r[p])
               PROVE  r[p].role = "reviewer"
    BY DEF ReviewersObject
  <2>1. q[p].status = "succeeded" /\ Objects(q[p]) /\ r[p].role = q[p].role
    <3>1. r[p].verdict = q[p].verdict /\ r[p].decision = q[p].decision
      BY <1>0 DEF Schedules, AllButStatus
    <3>2. r[p].status = q[p].status
      BY <1>0, <1>1 DEF Finished
    <3> QED BY <1>0, <1>1, <3>1, <3>2 DEF Objects
  <2> QED BY <1>0, <2>1 DEF GraphInv, ReviewersObject
<1> QED BY <1>0, <1>3, <1>4, <1>5, <1>6, <1>7, <1>8, <1>9, <1>10 DEF GraphInv

\* And of adding a chain.
LEMMA ChainedGraph ==
  ASSUME NEW q, GraphInv(q), NEW r, NEW x, NEW deps, Chained(q, r, x, deps)
  PROVE  GraphInv(r) /\ Lineage(q, r)
<1> DEFINE n == Len(q)
<1>0. /\ IsGraph(q) /\ IsGraph(r) /\ n \in Nat /\ Len(r) = n + 3
      /\ \A p \in 1 .. Len(r) : p \in 1 .. n \/ p \in {n + 1, n + 2, n + 3}
      /\ 1 .. n \subseteq 1 .. Len(r)
      /\ {n + 1, n + 2, n + 3} \cap (1 .. n) = {}
  BY DEF GraphInv, Chained, IsGraph
<1>1. \A p \in 1 .. n :
        /\ r[p].role = q[p].role /\ r[p].deps = q[p].deps
        /\ r[p].attempt = q[p].attempt /\ r[p].source = q[p].source
        /\ r[p].repaired <=> (q[p].repaired \/ p = x)
        /\ r[p].status = IF x # 0 /\ p \in Descendants(q, x) /\ q[p].status \notin Finished
                         THEN "cancelled" ELSE q[p].status
  BY DEF Chained
<1>2. \A p \in 1 .. n : q[p].deps \subseteq 1 .. n
  BY <1>0 DEF IsGraph
<1>3. Lineage(q, r)
  BY <1>0, <1>1 DEF Lineage, SameLineage
<1>4. PICK role, attempt, sources :
       /\ ChainAt(r, n, role, deps, attempt, sources)
       /\ attempt \in Nat \ {0} /\ \A d \in deps : q[d].attempt <= attempt
       /\ \A i \in 1 .. 3 :
            \/ sources[i] = 0
            \/ /\ sources[i] \in 1 .. n /\ q[sources[i]].role \in Repairable
               /\ sources[i] = x \/ q[sources[i]].attempt < MaxRepairAttempts
       /\ x # 0 => sources[1] = x
  BY DEF Chained
<1>5. /\ deps \subseteq 1 .. n /\ \A d \in deps : q[d].status = "succeeded"
      /\ \A p \in 1 .. n : p = x => q[p].status = "failed" /\ q[p].role \in Repairable
      /\ x # 0 => x \in 1 .. n
  BY <1>0 DEF Chained
<1>6. /\ r[n + 1].deps = deps /\ r[n + 2].deps = {n + 1} /\ r[n + 3].deps = {n + 2}
      /\ \A p \in {n + 1, n + 2, n + 3} :
           r[p].status = "queued" /\ r[p].attempt = attempt /\ ~r[p].repaired
      /\ r[n + 1].source = sources[1] /\ r[n + 2].source = sources[2]
      /\ r[n + 3].source = sources[3]
  BY <1>4 DEF ChainAt, NewSubTask
<1>7. Ordered(r)
  <2> SUFFICES ASSUME NEW p \in 1 .. Len(r), NEW d \in r[p].deps
               PROVE  r[d].attempt <= r[p].attempt /\ (r[p].attempt > 0 => d < p)
    BY DEF Ordered
  <2>1. CASE p \in 1 .. n
    BY <1>1, <1>2, <2>1 DEF GraphInv, Ordered
  <2>2. CASE p = n + 1
    <3>1. d \in deps /\ d \in 1 .. n /\ r[p].attempt = attempt
      BY <1>5, <1>6, <2>2
    <3>2. r[d].attempt = q[d].attempt /\ q[d].attempt <= attempt
      BY <1>1, <1>4, <3>1
    <3>3. d < p
      BY <1>0, <2>2, <3>1
    <3> QED BY <3>1, <3>2, <3>3
  <2>3. CASE p \in {n + 2, n + 3}
    BY <1>0, <1>4, <1>6, <2>3
  <2> QED BY <1>0, <2>1, <2>2, <2>3
<1>8. RepairsFailures(r)
  BY <1>0, <1>1, <1>5, <1>6 DEF RepairsFailures, GraphInv, Finished
<1>9. BegunOnEnded(r)
  <2> SUFFICES ASSUME NEW p \in 1 .. Len(r), Begun(r, p), NEW d \in r[p].deps
               PROVE  r[d].status \in {"succeeded", "failed"}
    BY DEF BegunOnEnded
  <2>1. p \in 1 .. n
    BY <1>0, <1>6 DEF Begun
  <2>2. Begun(q, p)
    BY <1>1, <2>1 DEF Begun
  <2>3. d \in 1 .. n /\ q[d].status \in {"succeeded", "failed"}
    BY <1>1, <1>2, <2>1, <2>2 DEF GraphInv, BegunOnEnded
  <2> QED BY <1>1, <2>3 DEF Finished
<1>10. NothingWaits(r)
  <2> SUFFICES ASSUME NEW p \in 1 .. Len(r), NEW d \in r[p].deps,
                      r[d].status = "cancelled" \/ r[d].repaired
               PROVE  r[p].status \in Finished
    BY DEF NothingWaits
  <2>1. CASE p \in 1 .. n
    <3>1. d \in q[p].deps /\ d \in 1 .. n
      BY <1>1, <1>2, <2>1
    <3>2. CASE q[d].status = "cancelled" \/ q[d].repaired
      <4>1. q[p].status \in Finished
        BY <2>1, <3>1, <3>2 DEF GraphInv, NothingWaits
      <4> QED BY <1>1, <2>1, <4>1
    <3>3. CASE ~(q[d].status = "cancelled" \/ q[d].repaired)
      <4>1. x # 0 /\ x \in 1 .. n /\ (d = x \/ d \in Descendants(q, x))
        BY <1>0, <1>1, <1>5, <3>1, <3>3
      <4>2. p \in Descendants(q, x)
        BY <1>0, <2>1, <3>1, <4>1, DescendantsAre DEF ClosedBelow
      <4> QED BY <1>1, <2>1, <4>1, <4>2 DEF Finished
    <3> QED BY <3>2, <3>3
  <2>2. CASE p = n + 1
    <3>1. d \in 1 .. n /\ q[d].status = "succeeded"
      BY <1>5, <1>6, <2>2
    <3>2. ~q[d].repaired /\ d # x
      BY <1>5, <3>1 DEF GraphInv, RepairsFailures
    <3> QED BY <1>1, <3>1, <3>2 DEF Finished
  <2>3. CASE p \in {n + 2, n + 3}
    BY <1>6, <2>3
  <2> QED BY <1>0, <2>1, <2>2, <2>3
<1>11. CancelledBelowFailure(r)
  <2> SUFFICES ASSUME NEW p \in 1 .. Len(r), r[p].status = "cancelled"
               PROVE  \E f \in 1 .. Len(r) : r[f].status = "failed" /\ p \in Descendants(r, f)
    BY DEF CancelledBelowFailure
  <2>1. p \in 1 .. n
    BY <1>0, <1>6
  <2>2. \E f \in 1 .. n : q[f].status = "failed" /\ p \in Descendants(q, f)
    <3>1. CASE q[p].status = "cancelled"
      BY <2>1, <3>1 DEF GraphInv, CancelledBelowFailure
    <3>2. CASE q[p].status # "cancelled"
      BY <1>1, <1>5, <2>1, <3>2
    <3> QED BY <3>1, <3>2
  <2>3. PICK f \in 1 .. n : q[f].status = "failed" /\ p \in Descendants(q, f)
    BY <2>2
  <2>4. p \in Descendants(r, f)
    BY <1>0, <1>3, <2>3, DescendantsExtend
  <2>5. r[f].status = "failed"
    BY <1>1, <2>3 DEF Finished
  <2> QED BY <1>0, <2>3, <2>4, <2>5
<1>12. CoversRepairable(r)
  <2> SUFFICES ASSUME NEW p \in 1 .. Len(r), r[p].source # 0
               PROVE  LET z == r[p].source
                      IN  /\ z \in 1 .. Len(r) /\ r[z].role \in Repairable
                          /\ r[z].repaired \/ r[z].attempt < MaxRepairAttempts
    BY DEF CoversRepairable
  <2> DEFINE z == r[p].source
  <2>1. CASE p \in 1 .. n
    <3>1. /\ z \in 1 .. n /\ q[z].role \in Repairable
          /\ q[z].repaired \/ q[z].attempt < MaxRepairAttempts
      BY <1>1, <2>1 DEF GraphInv, CoversRepairable
    <3> QED BY <1>0, <1>1, <3>1
  <2>2. CASE p \in {n + 1, n + 2, n + 3}
    <3>1. \E i \in 1 .. 3 : z = sources[i]
      BY <1>6, <2>2
    <3>2. /\ z \in 1 .. n /\ q[z].role \in Repairable
          /\ z = x \/ q[z].attempt < MaxRepairAttempts
      BY <1>4, <3>1
    <3> QED BY <1>0, <1>1, <3>2
  <2> QED BY <1>0, <2>1, <2>2
<1>13. RepairsCovered(r)
  <2> SUFFICES ASSUME NEW p \in 1 .. Len(r), r[p].repaired
               PROVE  \E s \in 1 .. Len(r) : r[s].source = p
    BY DEF RepairsCovered
  <2>1. p \in 1 .. n
    BY <1>0, <1>6
  <2>2. CASE q[p].repaired
    <3>1. PICK s \in 1 .. n : q[s].source = p
      BY <2>1, <2>2 DEF GraphInv, RepairsCovered
    <3> QED BY <1>0, <1>1, <3>1
  <2>3. CASE p = x
    <3>1. x # 0 /\ n + 1 \in 1 .. Len(r)
      BY <1>0, <2>1, <2>3
    <3> QED BY <1>4, <1>6, <2>3, <3>1
  <2> QED BY <1>1, <2>1, <2>2, <2>3
<1>14. ReviewersObject(r)
  <2> SUFFICES ASSUME NEW p \in 1 .. Len(r), r[p].status = "succeeded", Objects(r[p])
               PROVE  r[p].role = "reviewer"
    BY DEF ReviewersObject
  <2>1. p \in 1 .. n
    BY <1>0, <1>6
  <2>2. r[p].verdict = q[p].verdict /\ r[p].decision = q[p].decision
    BY <2>1 DEF Chained
  <2>3. q[p].status = "succeeded" /\ Objects(q[p]) /\ r[p].role = q[p].role
    BY <1>1, <2>1, <2>2 DEF Objects
  <2> QED BY <2>1, <2>3 DEF GraphInv, ReviewersObject
<1> QED BY <1>0, <1>3, <1>7, <1>8, <1>9, <1>10, <1>11, <1>12, <1>13, <1>14 DEF GraphInv

\* The chain of a rework.
LEMMA ReworkChained ==
  ASSUME GraphInv(sub), NEW s \in 1 .. Len(sub), sub[s].status = "succeeded", WantsRework(s),
         NEW t \in ReworkTargets(sub, s)
  PROVE  Chained(sub, WithRework(s, t), 0, {s})
<1> DEFINE n == Len(sub)
           r == WithRework(s, t)
           U == {d \in 1 .. n : sub[d].attempt <= sub[s].attempt}
<1>0. /\ IsGraph(sub) /\ n \in Nat /\ \A k \in 1 .. n : sub[k] \in SubTask
      /\ MaxRepairAttempts \in Nat
  BY BudgetAssumption DEF GraphInv, IsGraph
<1>00. \A k \in 1 .. n : sub[k].attempt \in Nat /\ sub[k].deps \subseteq 1 .. n
  BY <1>0 DEF SubTask, IsGraph
<1>1. t \in 1 .. n /\ sub[t].role \in Makers /\ sub[t].attempt <= sub[s].attempt
  <2>1. \A d \in U \cap (1 .. n) : sub[d].deps \subseteq U
    BY <1>00 DEF GraphInv, Ordered
  <2>2. sub[s].deps \subseteq U
    BY <1>00 DEF GraphInv, Ordered
  <2>3. \A d \in U : sub[d].attempt <= sub[s].attempt
    OBVIOUS
  <2> HIDE DEF U
  <2> QED BY <1>0, <2>1, <2>2, <2>3, ReworkTargetsWithin
<1>2. /\ IsGraph(r) /\ Len(r) = n + 3
      /\ \A k \in 1 .. n : r[k] = IF k = s THEN [sub[s] EXCEPT !.reworked = TRUE] ELSE sub[k]
      /\ ChainAt(r, n, sub[t].role, {s}, sub[s].attempt + 1, <<0, t, 0>>)
  BY <1>0, <1>1, WithReworkFields
<1> HIDE DEF r
<1>3. ASSUME NEW k \in 1 .. n
      PROVE  /\ r[k].role = sub[k].role /\ r[k].deps = sub[k].deps
             /\ r[k].attempt = sub[k].attempt /\ r[k].source = sub[k].source
             /\ r[k].verdict = sub[k].verdict /\ r[k].decision = sub[k].decision
             /\ r[k].repaired <=> (sub[k].repaired \/ k = 0)
             /\ r[k].reworked <=> (sub[k].reworked \/ k \in {s})
             /\ r[k].status = sub[k].status
  <2>1. sub[k] \in SubTask
    BY <1>0
  <2>2. k # 0
    OBVIOUS
  <2>3. CASE k = s
    <3>1. r[k] = [sub[k] EXCEPT !.reworked = TRUE]
      BY <1>2, <2>3
    <3>2. r[k].reworked /\ k \in {s}
      BY <2>1, <2>3, <3>1 DEF SubTask
    <3>3. /\ r[k].role = sub[k].role /\ r[k].deps = sub[k].deps
          /\ r[k].attempt = sub[k].attempt /\ r[k].source = sub[k].source
          /\ r[k].verdict = sub[k].verdict /\ r[k].decision = sub[k].decision
          /\ r[k].repaired = sub[k].repaired /\ r[k].status = sub[k].status
      BY <2>1, <3>1 DEF SubTask
    <3> QED BY <2>2, <3>2, <3>3
  <2>4. CASE k # s
    <3>1. r[k] = sub[k] /\ k \notin {s}
      BY <1>2, <2>4
    <3> QED BY <2>2, <3>1
  <2> QED BY <2>3, <2>4
<1>4. sub[s].attempt + 1 \in Nat \ {0} /\ sub[s].attempt <= sub[s].attempt + 1
  BY <1>00
<1>5. sub[s].attempt < MaxRepairAttempts /\ sub[t].attempt < MaxRepairAttempts
  BY <1>0, <1>00, <1>1 DEF WantsRework
<1>6. sub[t].role \in Repairable
  BY <1>1 DEF Repairable
<1> DEFINE sources == <<0, t, 0>>
<1>7. \A i \in 1 .. 3 :
            \/ sources[i] = 0
            \/ /\ sources[i] \in 1 .. n /\ sub[sources[i]].role \in Repairable
               /\ sources[i] = 0 \/ sub[sources[i]].attempt < MaxRepairAttempts
               /\ \A V : Upstream(sub, {s}, V) => sources[i] \in V
  <2>1. sources[1] = 0 /\ sources[2] = t /\ sources[3] = 0
    OBVIOUS
  <2>2. \A i \in 1 .. 3 : i = 1 \/ i = 2 \/ i = 3
    OBVIOUS
  <2>3. ASSUME NEW V, Upstream(sub, {s}, V) PROVE t \in V
    <3>1. sub[s].deps \subseteq V /\ \A d \in V \cap (1 .. n) : sub[d].deps \subseteq V
      BY <2>3 DEF Upstream
    <3> QED BY <1>0, <3>1, ReworkTargetsWithin
  <2> QED BY <1>1, <1>5, <1>6, <2>1, <2>2, <2>3
<1>8. ChainAt(r, n, sub[t].role, {s}, sub[s].attempt + 1, sources)
  BY <1>2
<1> HIDE DEF sources
<1>9. \A d \in {s} : sub[d].status = "succeeded" /\ sub[d].attempt <= sub[s].attempt + 1
  BY <1>4
<1> QED BY <1>2, <1>3, <1>4, <1>7, <1>8, <1>9 DEF Chained, r

\* The chain of a repair.
LEMMA RepairChained ==
  ASSUME NEW q, GraphInv(q), NEW s \in 1 .. Len(q), q[s].status = "failed", WantsRepair(q, s),
         Inputs(q, s)
  PROVE  Chained(q, WithRepair(q, s), s, q[s].deps)
<1> DEFINE n == Len(q)
           r == WithRepair(q, s)
<1>0. IsGraph(q) /\ n \in Nat /\ \A k \in 1 .. n : q[k] \in SubTask
  BY DEF GraphInv, IsGraph
<1>1. \A k \in 1 .. n : q[k].attempt \in Nat /\ q[k].deps \subseteq 1 .. n
  BY <1>0 DEF SubTask, IsGraph
<1>2. /\ IsGraph(r) /\ Len(r) = n + 3
      /\ \A k \in 1 .. n :
           /\ AllButStatus([q[k] EXCEPT !.repaired = @ \/ k = s], r[k])
           /\ r[k].status = IF k \in {c \in Descendants(q, s) : q[c].status \notin Finished}
                            THEN "cancelled" ELSE q[k].status
      /\ ChainAt(r, n, q[s].role, q[s].deps, q[s].attempt + 1, <<s, s, s>>)
  BY <1>0, WithRepairFields
<1> HIDE DEF r
<1>3. ASSUME NEW k \in 1 .. n
      PROVE  /\ r[k].role = q[k].role /\ r[k].deps = q[k].deps
             /\ r[k].attempt = q[k].attempt /\ r[k].source = q[k].source
             /\ r[k].verdict = q[k].verdict /\ r[k].decision = q[k].decision
             /\ r[k].repaired <=> (q[k].repaired \/ k = s)
             /\ r[k].reworked <=> q[k].reworked
             /\ r[k].status = IF s # 0 /\ k \in Descendants(q, s) /\ q[k].status \notin Finished
                              THEN "cancelled" ELSE q[k].status
  <2>1. q[k] \in SubTask /\ s # 0
    BY <1>0
  <2>2. /\ [q[k] EXCEPT !.repaired = @ \/ k = s].role = q[k].role
        /\ [q[k] EXCEPT !.repaired = @ \/ k = s].deps = q[k].deps
        /\ [q[k] EXCEPT !.repaired = @ \/ k = s].attempt = q[k].attempt
        /\ [q[k] EXCEPT !.repaired = @ \/ k = s].source = q[k].source
        /\ [q[k] EXCEPT !.repaired = @ \/ k = s].verdict = q[k].verdict
        /\ [q[k] EXCEPT !.repaired = @ \/ k = s].decision = q[k].decision
        /\ [q[k] EXCEPT !.repaired = @ \/ k = s].reworked = q[k].reworked
        /\ [q[k] EXCEPT !.repaired = @ \/ k = s].repaired <=> (q[k].repaired \/ k = s)
    BY <2>1 DEF SubTask
  <2> QED BY <1>2, <2>1, <2>2 DEF AllButStatus
<1>4. q[s].attempt + 1 \in Nat \ {0} /\ \A d \in q[s].deps : q[d].attempt <= q[s].attempt + 1
  <2>1. \A d \in q[s].deps : q[d].attempt <= q[s].attempt /\ q[d].attempt \in Nat
    BY <1>1 DEF GraphInv, Ordered
  <2> QED BY <1>1, <2>1
<1>5. q[s].role \in Repairable
  BY DEF WantsRepair
<1> DEFINE sources == <<s, s, s>>
<1>7. \A i \in 1 .. 3 : sources[i] = s
  <2>1. sources[1] = s /\ sources[2] = s /\ sources[3] = s
    OBVIOUS
  <2>2. \A i \in 1 .. 3 : i = 1 \/ i = 2 \/ i = 3
    OBVIOUS
  <2> QED BY <2>1, <2>2
<1>8. ChainAt(r, n, q[s].role, q[s].deps, q[s].attempt + 1, sources)
  BY <1>2
<1> HIDE DEF sources
<1>9. q[s].deps \subseteq 1 .. n /\ \A d \in q[s].deps : q[d].status = "succeeded"
  BY <1>1 DEF Inputs
<1>10. \A i \in 1 .. 3 :
            \/ sources[i] = 0
            \/ /\ sources[i] \in 1 .. n /\ q[sources[i]].role \in Repairable
               /\ sources[i] = s \/ q[sources[i]].attempt < MaxRepairAttempts
  BY <1>5, <1>7
<1>11. s # 0 /\ sources[1] = s
  BY <1>0, <1>7
<1> QED BY <1>2, <1>3, <1>4, <1>5, <1>8, <1>9, <1>10, <1>11 DEF Chained, r

\* The graph of a plan.
LEMMA PlannedGraph ==
  ASSUME NEW q, IsGraph(q), \A k \in 1 .. Len(q) : /\ q[k].status = "queued" /\ ~q[k].repaired
                                                 /\ q[k].attempt = 0 /\ q[k].source = 0
  PROVE  GraphInv(q)
<1>1. \A k \in 1 .. Len(q) : q[k].deps \subseteq 1 .. Len(q)
  BY DEF IsGraph
<1> QED BY <1>1 DEF GraphInv, Ordered, RepairsFailures, BegunOnEnded, Begun, NothingWaits,
           CancelledBelowFailure, CoversRepairable, RepairsCovered, ReviewersObject

-----------------------------------------------------------------------------
(* The pending calls *)

\* What waits in a loop is claimed by it, and no execution above the loop can
\* cancel it.
LoopsHold(stk, q) ==
  \A i \in 1 .. Len(stk) : \A t \in stk[i].todo :
    /\ q[t].status = "assigned"
    /\ \A j \in i .. Len(stk) :
         stk[j].pc \in ExecPc => t \notin Descendants(q, stk[j].sub)

\* Executions have their inputs, to their end.
ExecsHold(stk, q) ==
  \A i \in 1 .. Len(stk) :
    stk[i].pc \in ExecPc =>
      /\ Inputs(q, stk[i].sub)
      /\ \A j \in i .. Len(stk) :
           stk[j].pc \in ExecPc => stk[j].sub \notin q[stk[i].sub].deps

\* A loop calls executions and an execution calls a loop.
Alternates(stk) ==
  /\ stk # <<>> => stk[1].pc \notin ExecPc
  /\ \A i, j \in 1 .. Len(stk) : j = i + 1 => (stk[i].pc \in ExecPc <=> stk[j].pc \notin ExecPc)

\* While calls return and the graph grows, losing no success but that of the
\* innermost execution, the pending calls hold.
LEMMA HoldReturned ==
  ASSUME NEW q, IsGraph(q), NEW r, IsGraph(r), Lineage(q, r),
         NEW stk, FramesOver(stk, Len(q)), LoopsHold(stk, q), ExecsHold(stk, q),
         NEW x,
         \A d \in 1 .. Len(q) : q[d].status = "succeeded" /\ d # x => r[d].status = "succeeded",
         \/ x = 0
         \/ stk # <<>> /\ stk[Len(stk)].pc \in ExecPc /\ x = stk[Len(stk)].sub,
         \A i \in 1 .. Len(stk) : \A t \in stk[i].todo : r[t].status = "assigned",
         NEW stk2, stk2 \in Seq(Frame), Returned(stk2, stk)
  PROVE  LoopsHold(stk2, r) /\ ExecsHold(stk2, r)
<1>0. /\ Len(stk) \in Nat /\ Len(stk2) \in Nat /\ Len(stk2) <= Len(stk) /\ Len(q) \in Nat
      /\ \A d \in 1 .. Len(q) : r[d].deps = q[d].deps /\ q[d].deps \subseteq 1 .. Len(q)
  BY DEF FramesOver, Returned, IsGraph, Lineage, SameLineage
<1>1. ASSUME NEW i \in 1 .. Len(stk2)
      PROVE  /\ i \in 1 .. Len(stk)
             /\ stk2[i].todo \subseteq stk[i].todo
             /\ stk2[i].pc \in ExecPc => /\ stk[i].pc \in ExecPc /\ stk2[i].sub = stk[i].sub
                                         /\ stk2[i].sub \in 1 .. Len(q)
             /\ stk[i].todo \subseteq 1 .. Len(q)
             /\ \A j \in i .. Len(stk2) : j \in i .. Len(stk) /\ j \in 1 .. Len(stk2)
  <2>1. i \in 1 .. Len(stk)
    BY <1>0
  <2>2. \A j \in i .. Len(stk2) : j \in i .. Len(stk) /\ j \in 1 .. Len(stk2)
    BY <1>0
  <2> QED BY <2>1, <2>2 DEF Returned, FramesOver, FrameOver
<1>2. LoopsHold(stk2, r)
  <2> SUFFICES ASSUME NEW i \in 1 .. Len(stk2), NEW t \in stk2[i].todo
               PROVE  /\ r[t].status = "assigned"
                      /\ \A j \in i .. Len(stk2) :
                           stk2[j].pc \in ExecPc => t \notin Descendants(r, stk2[j].sub)
    BY DEF LoopsHold
  <2>1. t \in stk[i].todo /\ t \in 1 .. Len(q) /\ i \in 1 .. Len(stk)
    BY <1>1
  <2>2. ASSUME NEW j \in i .. Len(stk2), stk2[j].pc \in ExecPc
        PROVE  t \notin Descendants(r, stk2[j].sub)
    <3>1. j \in i .. Len(stk) /\ j \in 1 .. Len(stk2)
      BY <1>1
    <3>2. stk[j].pc \in ExecPc /\ stk2[j].sub = stk[j].sub /\ stk2[j].sub \in 1 .. Len(q)
      BY <1>1, <2>2, <3>1
    <3>3. t \notin Descendants(q, stk[j].sub)
      BY <2>1, <3>1, <3>2 DEF LoopsHold
    <3> QED BY <2>1, <3>2, <3>3, DescendantsExtend
  <2> QED BY <2>1, <2>2
<1>3. ExecsHold(stk2, r)
  <2> SUFFICES ASSUME NEW i \in 1 .. Len(stk2), stk2[i].pc \in ExecPc
               PROVE  /\ Inputs(r, stk2[i].sub)
                      /\ \A j \in i .. Len(stk2) :
                           stk2[j].pc \in ExecPc => stk2[j].sub \notin r[stk2[i].sub].deps
    BY DEF ExecsHold
  <2> DEFINE s == stk[i].sub
  <2>1. /\ s = stk2[i].sub /\ stk[i].pc \in ExecPc /\ i \in 1 .. Len(stk) /\ s \in 1 .. Len(q)
    BY <1>1
  <2>2. /\ Inputs(q, s)
        /\ \A j \in i .. Len(stk) : stk[j].pc \in ExecPc => stk[j].sub \notin q[s].deps
    BY <2>1 DEF ExecsHold
  <2>3. x \notin q[s].deps
    <3>1. CASE x = 0
      BY <1>0, <2>1, <3>1
    <3>2. CASE stk # <<>> /\ stk[Len(stk)].pc \in ExecPc /\ x = stk[Len(stk)].sub
      <4>1. Len(stk) \in i .. Len(stk)
        BY <1>0, <2>1
      <4> QED BY <2>2, <3>2, <4>1
    <3> QED BY <3>1, <3>2
  <2>4. Inputs(r, s)
    BY <1>0, <2>1, <2>2, <2>3 DEF Inputs
  <2>5. \A j \in i .. Len(stk2) : stk2[j].pc \in ExecPc => stk2[j].sub \notin r[s].deps
    BY <1>0, <1>1, <2>1, <2>2
  <2> QED BY <2>1, <2>4, <2>5
<1> QED BY <1>2, <1>3

\* A new loop, over what was just assigned to it.
LEMMA HoldLoop ==
  ASSUME NEW q, NEW n \in Nat, NEW stk, FramesOver(stk, n),
         LoopsHold(stk, q), ExecsHold(stk, q),
         NEW f, FrameOver(f, n), f.pc \notin ExecPc, \A t \in f.todo : q[t].status = "assigned"
  PROVE  LoopsHold(Append(stk, f), q) /\ ExecsHold(Append(stk, f), q)
<1> DEFINE new == Append(stk, f)
<1>1. /\ Len(new) = Len(stk) + 1 /\ new[Len(stk) + 1] = f /\ Len(stk) \in Nat
      /\ \A i \in 1 .. Len(stk) : new[i] = stk[i]
  BY AppendFrameType DEF FramesOver
<1> HIDE DEF new
<1>2. \A i \in 1 .. Len(new) :
        /\ i \in 1 .. Len(stk) \/ i = Len(stk) + 1
        /\ \A j \in i .. Len(new) : j = Len(stk) + 1 \/ (j \in i .. Len(stk) /\ j \in 1 .. Len(stk))
  BY <1>1
<1>3. LoopsHold(new, q)
  <2> SUFFICES ASSUME NEW i \in 1 .. Len(new), NEW t \in new[i].todo
               PROVE  /\ q[t].status = "assigned"
                      /\ \A j \in i .. Len(new) :
                           new[j].pc \in ExecPc => t \notin Descendants(q, new[j].sub)
    BY DEF LoopsHold
  <2>1. CASE i = Len(stk) + 1
    <3>1. \A j \in i .. Len(new) : j = Len(stk) + 1
      BY <1>1, <2>1
    <3> QED BY <1>1, <2>1, <3>1
  <2>2. CASE i \in 1 .. Len(stk)
    <3>1. /\ q[t].status = "assigned"
          /\ \A j \in i .. Len(stk) :
               stk[j].pc \in ExecPc => t \notin Descendants(q, stk[j].sub)
      BY <1>1, <2>2 DEF LoopsHold
    <3> QED BY <1>1, <1>2, <3>1
  <2> QED BY <1>2, <2>1, <2>2
<1>4. ExecsHold(new, q)
  <2> SUFFICES ASSUME NEW i \in 1 .. Len(new), new[i].pc \in ExecPc
               PROVE  /\ Inputs(q, new[i].sub)
                      /\ \A j \in i .. Len(new) :
                           new[j].pc \in ExecPc => new[j].sub \notin q[new[i].sub].deps
    BY DEF ExecsHold
  <2>1. i \in 1 .. Len(stk)
    BY <1>1, <1>2
  <2>2. /\ Inputs(q, stk[i].sub)
        /\ \A j \in i .. Len(stk) :
             stk[j].pc \in ExecPc => stk[j].sub \notin q[stk[i].sub].deps
    BY <1>1, <2>1 DEF ExecsHold
  <2> QED BY <1>1, <1>2, <2>1, <2>2
<1> QED BY <1>3, <1>4 DEF new

\* A new execution, of what was assigned.
LEMMA HoldExec ==
  ASSUME NEW q, GraphInv(q), NEW stk, FramesOver(stk, Len(q)),
         LoopsHold(stk, q), ExecsHold(stk, q),
         NEW f, FrameOver(f, Len(q)), f.pc \in ExecPc, f.todo = {},
         q[f.sub].status = "assigned", Inputs(q, f.sub)
  PROVE  LoopsHold(Append(stk, f), q) /\ ExecsHold(Append(stk, f), q)
<1> DEFINE new == Append(stk, f)
<1>0. Len(q) \in Nat /\ IsGraph(q) /\ f.sub \in 1 .. Len(q)
  BY DEF GraphInv, IsGraph, FrameOver
<1>1. /\ Len(new) = Len(stk) + 1 /\ new[Len(stk) + 1] = f /\ Len(stk) \in Nat
      /\ \A i \in 1 .. Len(stk) : new[i] = stk[i]
  BY <1>0, AppendFrameType DEF FramesOver
<1> HIDE DEF new
<1>2. \A i \in 1 .. Len(new) :
        /\ i \in 1 .. Len(stk) \/ i = Len(stk) + 1
        /\ \A j \in i .. Len(new) : j = Len(stk) + 1 \/ (j \in i .. Len(stk) /\ j \in 1 .. Len(stk))
  BY <1>1
<1>3. \A t \in Descendants(q, f.sub) : ~Begun(q, t)
  <2> DEFINE U == {t \in 1 .. Len(q) : ~Begun(q, t)}
  <2>1. ClosedBelow(q, f.sub, U)
    <3> SUFFICES ASSUME NEW p \in 1 .. Len(q), NEW d \in q[p].deps, d = f.sub \/ d \in U
                 PROVE  ~Begun(q, p)
      BY DEF ClosedBelow
    <3>1. q[d].status \notin {"succeeded", "failed"}
      BY DEF Begun
    <3> QED BY <3>1 DEF GraphInv, BegunOnEnded
  <2>2. \A t \in U : ~Begun(q, t)
    OBVIOUS
  <2> HIDE DEF U
  <2> QED BY <1>0, <2>1, <2>2, DescendantsAre
<1>4. LoopsHold(new, q)
  <2> SUFFICES ASSUME NEW i \in 1 .. Len(new), NEW t \in new[i].todo
               PROVE  /\ q[t].status = "assigned"
                      /\ \A j \in i .. Len(new) :
                           new[j].pc \in ExecPc => t \notin Descendants(q, new[j].sub)
    BY DEF LoopsHold
  <2>1. i \in 1 .. Len(stk)
    BY <1>1, <1>2
  <2>2. /\ q[t].status = "assigned"
        /\ \A j \in i .. Len(stk) :
             stk[j].pc \in ExecPc => t \notin Descendants(q, stk[j].sub)
    BY <1>1, <2>1 DEF LoopsHold
  <2>3. t \notin Descendants(q, f.sub)
    BY <1>3, <2>2 DEF Begun
  <2> QED BY <1>1, <1>2, <2>2, <2>3
<1>5. ExecsHold(new, q)
  <2> SUFFICES ASSUME NEW i \in 1 .. Len(new), new[i].pc \in ExecPc
               PROVE  /\ Inputs(q, new[i].sub)
                      /\ \A j \in i .. Len(new) :
                           new[j].pc \in ExecPc => new[j].sub \notin q[new[i].sub].deps
    BY DEF ExecsHold
  <2>1. CASE i = Len(stk) + 1
    <3>1. \A j \in i .. Len(new) : j = Len(stk) + 1
      BY <1>1, <2>1
    <3>2. f.sub \notin q[f.sub].deps
      BY DEF Inputs
    <3> QED BY <1>1, <2>1, <3>1, <3>2
  <2>2. CASE i \in 1 .. Len(stk)
    <3>1. /\ Inputs(q, stk[i].sub)
          /\ \A j \in i .. Len(stk) :
               stk[j].pc \in ExecPc => stk[j].sub \notin q[stk[i].sub].deps
      BY <1>1, <2>2 DEF ExecsHold
    <3>2. f.sub \notin q[stk[i].sub].deps
      BY <3>1 DEF Inputs
    <3> QED BY <1>1, <1>2, <2>2, <3>1, <3>2
  <2> QED BY <1>2, <2>1, <2>2
<1> QED BY <1>4, <1>5 DEF new

-----------------------------------------------------------------------------
(* The forms of a step *)

\* The innermost execution advances to the frame f.
Advances(f) ==
  /\ stack # <<>> /\ Top.pc \in ExecPc
  /\ FrameOver(f, Len(sub)) /\ f.pc \in ExecPc /\ f.sub = Top.sub /\ f.todo = Top.todo
  /\ stack' = Replaced(stack, f) /\ ~raised'
  /\ \/ /\ ~raised /\ Top.pc \in {"begin", "acquire", "work"}
        /\ f.pc \in {"acquire", "work", "stored"} /\ Runs(sub, sub', Top.sub)
        /\ sub[Top.sub].status \notin Finished
        /\ sub'[Top.sub].status \in Finished <=> f.pc = "stored"
     \/ /\ sub' = sub
        /\ \/ /\ ~raised /\ Top.pc \in {"begin", "acquire", "work", "stored"}
              /\ f.pc \in {"unwind", "caught"}
           \/ /\ Top.pc = "returned" /\ f.pc \in {"unwind", "caught"}
              /\ raised \/ faults' = faults + 1
           \/ ~raised /\ Top.pc = "unwind" /\ f.pc = "caught"
           \/ ~raised /\ Top.pc \in {"returned", "handled"} /\ f.pc = "reconcile"
           \/ /\ Top.pc = "handled" /\ f.pc = "reraise"
              /\ raised \/ faults' = faults + 1

\* The innermost call returns, or leaves with an exception.
Returns ==
  /\ stack # <<>> /\ stack' = Front(stack) /\ sub' = sub
  /\ \/ Top.pc = "dispatch" /\ raised' = raised /\ (raised \/ Top.todo = {})
     \/ /\ Top.pc \in {"reconcile", "reraise"} /\ ~raised
        /\ IF raised' THEN Top.pc = "reraise" \/ faults' = faults + 1
                      ELSE Top.pc = "reconcile"

\* The innermost loop, from now on f, executes s.
Starts(s, f) ==
  /\ stack # <<>> /\ Top.pc = "dispatch" /\ ~raised /\ ~raised'
  /\ FrameOver(f, Len(sub)) /\ f.pc = "dispatch" /\ f.todo = Top.todo \ {s}
  /\ s \in Top.todo /\ sub' = sub /\ sub[s].status = "assigned" /\ Inputs(sub, s)
  /\ stack' = Append(Replaced(stack, f), ExecFrame(s))

\* Scheduling the graph r, for the pending calls in callers.
Scheduled(callers, r) ==
  /\ Schedules(r, sub')
  /\ \/ /\ Ready(r) = {} /\ stack' = callers
        /\ raised' = raised /\ faults' = faults
     \/ /\ Ready(r) # {} /\ stack' = Append(callers, DispatchFrame(Ready(r)))
        /\ raised' = raised /\ faults' = faults
        /\ \A s \in Ready(r) : sub'[s].status = "assigned"
     \/ /\ Ready(r) # {} /\ stack' = callers
        /\ raised' = TRUE /\ faults' = faults + 1
        /\ \E s \in Ready(r) : sub'[s].status = "ready"

\* The innermost execution has called the orchestrator and waits at pc: g is
\* the graph with its outcome, r the graph with the chain that is due.
Answers(pc, f, g, r) ==
  LET k == Top.sub
  IN  /\ stack # <<>> /\ ~raised /\ Top.pc \in ExecPc
      /\ FrameOver(f, Len(sub)) /\ f.pc = pc /\ f.sub = k /\ f.todo = Top.todo
      /\ \/ pc = "returned" /\ Top.pc = "stored" /\ g = sub
         \/ pc = "handled" /\ Top.pc = "caught" /\ g[k].status = "failed"
      /\ Runs(sub, g, k) /\ g[k].status \in {"succeeded", "failed"}
      /\ \/ r = g /\ (g[k].status = "failed" => ~WantsRepair(g, k))
         \/ g[k].status = "succeeded" /\ Chained(g, r, 0, {k})
         \/ WantsRepair(g, k) /\ Chained(g, r, k, g[k].deps)
      /\ Scheduled(Replaced(stack, f), r)

\* The plan is stored.
Planned(g) ==
  /\ sub = <<>> /\ IsGraph(g) /\ g # <<>>
  /\ \A k \in 1 .. Len(g) : /\ g[k].status = "queued" /\ ~g[k].repaired
                            /\ g[k].attempt = 0 /\ g[k].source = 0
  /\ Scheduled(<<>>, g)

\* There is no plan yet.
Planless == sub = <<>> /\ sub' = <<>> /\ stack' \in {<<>>, <<PlanningFrame>>}

\* The invariant of the pending calls.
PendInv ==
  /\ StartInv
  /\ GraphInv(sub)
  /\ LoopsHold(stack, sub) /\ ExecsHold(stack, sub) /\ Alternates(stack)
  /\ raised /\ stack # <<>> => Top.pc \in Calling
  /\ run.status = "pending" => ~raised

\* What the orchestrator does when it schedules.
LEMMA SchedulingScheduled ==
  ASSUME SharedObjects, NEW subs, IsGraph(subs), NEW callers, NEW phase,
         DispatchReady(callers, subs, phase)
  PROVE  Scheduled(callers, subs)
<1>1. /\ IsGraph(sub') /\ Len(sub') = Len(subs)
      /\ \A s \in 1 .. Len(subs) : AllButStatus(subs[s], sub'[s])
      /\ \A s \in 1 .. Len(subs) : s \notin Ready(subs) => sub'[s].status = subs[s].status
      /\ \A s \in Ready(subs) : sub'[s].status \in {"ready", "assigned"}
  BY ScheduleFields
<1>2. Schedules(subs, sub')
  BY <1>1 DEF Schedules
<1> QED BY <1>2, ScheduleFields DEF Scheduled

\* A turn of a loop starts an execution.
LEMMA RunNextStarts ==
  ASSUME PendInv, SharedObjects, NEW s \in 1 .. Len(sub), RunNext(s)
  PROVE  \E f : Starts(s, f)
<1> DEFINE f == [Top EXCEPT !.todo = @ \ {s}]
<1>1. /\ stack # <<>> /\ Top.pc = "dispatch" /\ ~raised /\ s \in Top.todo /\ sub' = sub
      /\ raised' = raised /\ TypeInv /\ Top.pc # "planning"
      /\ LoopInputs(stack, sub) /\ LoopsHold(stack, sub)
  BY DEF RunNext, At, Running, PendInv, StartInv, ActInv
<1>2. /\ FramesOver(stack, Len(sub)) /\ Len(sub) \in Nat /\ Len(stack) \in Nat \ {0}
      /\ Top = stack[Len(stack)] /\ FrameOver(Top, Len(sub)) /\ stack \in Seq(Frame)
  BY <1>1, AfterPlan DEF FramesOver
<1>3. Len(stack) \in 1 .. Len(stack)
  BY <1>2
<1>4. sub[s].status = "assigned" /\ Inputs(sub, s)
  BY <1>1, <1>2, <1>3 DEF LoopsHold, LoopInputs
<1>5. FrameOver(f, Len(sub)) /\ f.pc = "dispatch" /\ f.todo = Top.todo \ {s}
  BY <1>1, <1>2 DEF FrameOver, Frame, ExecPc
<1>6. stack' = Append(Replaced(stack, f), ExecFrame(s))
  BY <1>1, <1>2, <1>4 DEF RunNext, Replaced
<1> HIDE DEF f
<1> QED BY <1>1, <1>4, <1>5, <1>6 DEF Starts

\* Among the outcomes of an execution only a reviewer's objects and succeeds.
LEMMA OutcomesObject ==
  ASSUME NEW s, sub[s] \in SubTask, NEW r \in Outcomes(s)
  PROVE  r.status = "succeeded" /\ Objects(r) => r.role = "reviewer"
<1> DEFINE done(v, d) == [sub[s] EXCEPT !.status = "succeeded",
                                        !.verdict = v, !.decision = d]
           judged == [sub[s] EXCEPT !.status = "failed", !.verdict = "fail"]
           exited == [sub[s] EXCEPT !.status = "failed"]
<1>1. \A v \in {"none", "pass", "fail"}, d \in Decisions \cup {"none"} :
        /\ done(v, d).role = sub[s].role
        /\ done(v, d).verdict = v /\ done(v, d).decision = d
  BY DEF SubTask
<1>2. judged.status = "failed" /\ exited.status = "failed"
  BY DEF SubTask
<1>3. \/ \E v \in {"none", "pass"} : r = done(v, "none")
      \/ /\ sub[s].role = "reviewer"
         /\ \E v \in {"none", "pass", "fail"}, d \in Decisions : r = done(v, d)
      \/ r = judged
      \/ r = exited
  BY DEF Outcomes
<1> HIDE DEF done, judged, exited
<1> QED BY <1>1, <1>2, <1>3 DEF Objects

\* What an execution that goes on does to its subtask.
LEMMA ExecuteRuns ==
  ASSUME ActInv, Begin \/ Acquire \/ Work
  PROVE  /\ Runs(sub, sub', Top.sub) /\ sub[Top.sub].status \notin Finished
         /\ sub'[Top.sub].status \in Finished <=> Work
<1> DEFINE k == Top.sub
<1>1. stack # <<>> /\ Top.pc \in {"begin", "acquire", "work"} /\ Top.pc \in ExecPc /\ TypeInv
  BY DEF Begin, Acquire, Work, At, Running, ExecPc, ActInv
<1>2. /\ sub[k].status \in StatusAt(Top.pc)
      /\ IsGraph(sub) /\ Len(sub) \in Nat /\ sub \in Seq(SubTask)
      /\ k \in 1 .. Len(sub) /\ sub[k] \in SubTask
  BY <1>1, TopStatus
<1>3. sub[k].status \notin Finished /\ Begun(sub, k)
  BY <1>1, <1>2 DEF StatusAt, Finished, Begun
<1>4. ASSUME NEW r \in SubTask, Executed(sub[k], r), sub' = [sub EXCEPT ![k] = r],
             r.status \in SubTaskStatus \ {"queued", "ready", "cancelled"},
             r.status # "succeeded" \/ ~Objects(r) \/ r.role = "reviewer"
      PROVE  Runs(sub, sub', k) /\ sub'[k] = r
  <2>1. r.deps = sub[k].deps
    BY <1>4 DEF Executed
  <2>2. /\ IsGraph(sub') /\ Len(sub') = Len(sub) /\ sub'[k] = r
        /\ \A t \in 1 .. Len(sub) : t # k => sub'[t] = sub[t]
    BY <1>1, <1>4, <2>1, ReplaceTop DEF ActInv
  <2>3. Begun(sub', k)
    BY <1>4, <2>2 DEF Begun
  <2> HIDE DEF k
  <2> QED BY <1>2, <1>3, <1>4, <2>2, <2>3 DEF Runs, Finished
<1>5. CASE Begin
  <2> DEFINE r == [sub[k] EXCEPT !.status = StartStatus(k)]
  <2>1. StartStatus(k) \in SubTaskStatus \ {"queued", "ready", "cancelled"}
        /\ StartStatus(k) \notin Finished /\ StartStatus(k) # "succeeded"
    BY DEF StartStatus, SubTaskStatus, Finished
  <2>2. r \in SubTask /\ Executed(sub[k], r) /\ r.status = StartStatus(k)
    BY <1>2, <2>1, StatusExecuted DEF SubTask
  <2>3. sub' = [sub EXCEPT ![k] = r]
    BY <1>5 DEF Begin
  <2>4. ~Work
    BY <1>5 DEF Begin, Work, At
  <2> HIDE DEF r, k
  <2> QED BY <1>3, <1>4, <2>1, <2>2, <2>3, <2>4 DEF k
<1>6. CASE Acquire
  <2> DEFINE r == [sub[k] EXCEPT !.status = "executing"]
  <2>1. "executing" \in SubTaskStatus \ {"queued", "ready", "cancelled"}
        /\ "executing" \notin Finished
    BY DEF SubTaskStatus, Finished
  <2>2. r \in SubTask /\ Executed(sub[k], r) /\ r.status = "executing"
    BY <1>2, <2>1, StatusExecuted DEF SubTask
  <2>3. sub' = [sub EXCEPT ![k] = r]
    BY <1>6 DEF Acquire
  <2>4. ~Work
    BY <1>6 DEF Acquire, Work, At
  <2> HIDE DEF r, k
  <2> QED BY <1>3, <1>4, <2>1, <2>2, <2>3, <2>4 DEF k
<1>7. CASE Work
  <2>1. PICK r \in Outcomes(k) : sub' = [sub EXCEPT ![k] = r]
    BY <1>7 DEF Work
  <2>2. r \in SubTask /\ r.status \in {"succeeded", "failed"} /\ Executed(sub[k], r)
    BY <1>2, OutcomesType, OutcomesExecuted
  <2>3. r.status \in SubTaskStatus \ {"queued", "ready", "cancelled"} /\ r.status \in Finished
    BY <2>2 DEF SubTaskStatus, Finished
  <2>4. r.status # "succeeded" \/ ~Objects(r) \/ r.role = "reviewer"
    BY <1>2, <2>1, OutcomesObject
  <2> HIDE DEF k
  <2> QED BY <1>3, <1>4, <1>7, <2>1, <2>2, <2>3, <2>4 DEF k
<1> QED BY <1>5, <1>6, <1>7

\* The frame an execution advances to.
LEMMA AdvanceFrame ==
  ASSUME TypeInv, stack # <<>>, Top.pc \in ExecPc, NEW pc \in ExecPc,
         \/ stack' = GoTo(pc)
         \/ \E lease \in BOOLEAN :
              stack' = [stack EXCEPT ![Len(stack)] = [Top EXCEPT !.pc = pc, !.lease = lease]]
  PROVE  \E f : /\ FrameOver(f, Len(sub)) /\ f.pc = pc
                /\ f.sub = Top.sub /\ f.todo = Top.todo
                /\ stack' = Replaced(stack, f)
<1>1. CASE stack' = GoTo(pc)
  BY <1>1, GoToFrame
<1>2. ASSUME NEW lease \in BOOLEAN,
             stack' = [stack EXCEPT ![Len(stack)] = [Top EXCEPT !.pc = pc, !.lease = lease]]
      PROVE  \E f : /\ FrameOver(f, Len(sub)) /\ f.pc = pc
                    /\ f.sub = Top.sub /\ f.todo = Top.todo
                    /\ stack' = Replaced(stack, f)
  <2> DEFINE f == [Top EXCEPT !.pc = pc, !.lease = lease]
  <2>1. FrameOver(Top, Len(sub)) /\ Top.sub \in 1 .. Len(sub)
    BY AfterPlan DEF ExecPc
  <2>2. FrameOver(f, Len(sub)) /\ f.pc = pc /\ f.sub = Top.sub /\ f.todo = Top.todo
    BY <2>1 DEF FrameOver, Frame
  <2>3. stack' = Replaced(stack, f)
    BY <1>2 DEF Replaced
  <2> HIDE DEF f
  <2> QED BY <2>2, <2>3
<1> QED BY <1>1, <1>2

\* The steps of an execution, and an exception that reaches it, advance it.
LEMMA MovesAdvances ==
  ASSUME ActInv, SharedObjects,
         \/ Begin \/ Acquire \/ Work \/ BodyRaises \/ Return \/ Release \/ ReleaseRaises
         \/ SummaryRaises \/ Handled \/ (Unwind /\ Top.pc # "dispatch")
  PROVE  \E f : Advances(f)
<1>0. TypeInv /\ raised \in BOOLEAN
  BY DEF ActInv, TypeInv, TypeOK
<1>1. stack # <<>> /\ Top.pc \in ExecPc
  BY DEF Begin, Acquire, Work, BodyRaises, Return, Release, ReleaseRaises, SummaryRaises,
         Handled, Unwind, At, Running, ExecPc
<1>2. /\ stack \in Seq(Frame) /\ Len(stack) \in Nat \ {0} /\ Top = stack[Len(stack)]
      /\ Top \in Frame
  BY <1>0, <1>1, AfterPlan DEF ExecPc, FramesOver, FrameOver
<1> DEFINE Frames(pc) == \/ stack' = GoTo(pc)
                         \/ \E lease \in BOOLEAN :
                              stack' = [stack EXCEPT ![Len(stack)] =
                                          [Top EXCEPT !.pc = pc, !.lease = lease]]
           Same(f, pc) == /\ FrameOver(f, Len(sub)) /\ f.pc = pc
                          /\ f.sub = Top.sub /\ f.todo = Top.todo
                          /\ stack' = Replaced(stack, f)
<1>3. \A pc \in ExecPc : Frames(pc) => \E f : Same(f, pc)
  BY <1>0, <1>1, AdvanceFrame
<1>4. CASE Begin \/ Acquire \/ Work
  <2>1. PICK pc \in {"acquire", "work", "stored"} : Frames(pc) /\ (pc = "stored" <=> Work)
    <3>1. CASE Begin
      <4>1. ~Work
        BY <3>1 DEF Begin, Work, At
      <4> QED BY <3>1, <4>1 DEF Begin
    <3>2. CASE Acquire
      <4>1. ~Work
        BY <3>2 DEF Acquire, Work, At
      <4>2. stack' = [stack EXCEPT ![Len(stack)] = [Top EXCEPT !.pc = "work", !.lease = TRUE]]
        BY <1>2, <3>2 DEF Acquire
      <4> QED BY <4>1, <4>2
    <3>3. CASE Work
      BY <3>3 DEF Work
    <3> QED BY <1>4, <3>1, <3>2, <3>3
  <2>2. pc \in ExecPc
    BY DEF ExecPc
  <2> HIDE DEF Frames
  <2>3. PICK f : Same(f, pc)
    BY <1>3, <2>1, <2>2
  <2>4. ~raised /\ ~raised' /\ Top.pc \in {"begin", "acquire", "work"}
    BY <1>4 DEF Begin, Acquire, Work, At, Running
  <2>5. /\ Runs(sub, sub', Top.sub) /\ sub[Top.sub].status \notin Finished
        /\ sub'[Top.sub].status \in Finished <=> Work
    BY <1>4, ExecuteRuns
  <2> QED BY <1>1, <2>1, <2>2, <2>3, <2>4, <2>5 DEF Advances
<1>5. ASSUME sub' = sub, ~raised',
             NEW pc \in {"unwind", "caught", "reconcile", "reraise"}, Frames(pc),
             \/ ~raised /\ Top.pc \in {"begin", "acquire", "work", "stored"}
                /\ pc \in {"unwind", "caught"}
             \/ /\ Top.pc = "returned" /\ pc \in {"unwind", "caught"}
                /\ raised \/ faults' = faults + 1
             \/ ~raised /\ Top.pc = "unwind" /\ pc = "caught"
             \/ ~raised /\ Top.pc \in {"returned", "handled"} /\ pc = "reconcile"
             \/ Top.pc = "handled" /\ pc = "reraise" /\ (raised \/ faults' = faults + 1)
      PROVE  \E f : Advances(f)
  <2>1. pc \in ExecPc
    BY DEF ExecPc
  <2>2. PICK f : Same(f, pc)
    <3> HIDE DEF Frames, Same
    <3> QED BY <1>3, <1>5, <2>1
  <2> HIDE DEF Frames
  <2> QED BY <1>1, <1>5, <2>1, <2>2 DEF Advances
<1>6. CASE BodyRaises
  <2>1. /\ sub' = sub /\ ~raised /\ ~raised' /\ Top.pc \in {"begin", "acquire", "work", "stored"}
        /\ \E pc \in {"unwind", "caught"} : stack' = GoTo(pc)
    BY <1>6 DEF BodyRaises, Running
  <2> QED BY <1>5, <2>1
<1>7. CASE Return \/ Handled
  <2>1. /\ sub' = sub /\ ~raised /\ ~raised' /\ Top.pc \in {"returned", "handled"}
        /\ stack' = GoTo("reconcile")
    BY <1>7 DEF Return, Handled, At, Running
  <2> QED BY <1>5, <2>1
<1>8. CASE Release
  <2>1. /\ sub' = sub /\ ~raised /\ ~raised' /\ Top.pc \in {"returned", "unwind"}
        /\ stack' = [stack EXCEPT ![Len(stack)].pc = IF @ = "unwind" THEN "caught" ELSE "reconcile",
                                  ![Len(stack)].lease = FALSE]
    BY <1>8 DEF Release, Running
  <2>2. CASE Top.pc = "unwind"
    <3>1. stack' = [stack EXCEPT ![Len(stack)] = [Top EXCEPT !.pc = "caught", !.lease = FALSE]]
      BY <1>2, <2>1, <2>2
    <3> QED BY <1>5, <2>1, <2>2, <3>1
  <2>3. CASE Top.pc = "returned"
    <3>1. stack' = [stack EXCEPT ![Len(stack)] = [Top EXCEPT !.pc = "reconcile", !.lease = FALSE]]
      BY <1>2, <2>1, <2>3
    <3> QED BY <1>5, <2>1, <2>3, <3>1
  <2> QED BY <2>1, <2>2, <2>3
<1>9. CASE ReleaseRaises
  <2>1. /\ sub' = sub /\ ~raised /\ ~raised' /\ Top.pc \in {"returned", "unwind"}
        /\ faults' = faults + 1
        /\ stack' = [stack EXCEPT ![Len(stack)].pc = "caught", ![Len(stack)].lease = FALSE]
    BY <1>9 DEF ReleaseRaises, Running
  <2>2. stack' = [stack EXCEPT ![Len(stack)] = [Top EXCEPT !.pc = "caught", !.lease = FALSE]]
    BY <1>2, <2>1
  <2> QED BY <1>5, <2>1, <2>2
<1>10. CASE SummaryRaises
  <2>1. /\ sub' = sub /\ ~raised /\ ~raised' /\ Top.pc \in {"returned", "handled"}
        /\ faults' = faults + 1
        /\ stack' = GoTo(IF Top.pc = "handled" THEN "reraise"
                         ELSE IF Top.lease THEN "unwind" ELSE "caught")
    BY <1>10 DEF SummaryRaises, Running
  <2>2. CASE Top.pc = "handled"
    <3>1. stack' = GoTo("reraise")
      BY <2>1, <2>2
    <3> QED BY <1>5, <2>1, <2>2, <3>1
  <2>3. CASE Top.pc = "returned"
    <3>1. \E pc \in {"unwind", "caught"} : stack' = GoTo(pc)
      BY <2>1, <2>3
    <3> QED BY <1>5, <2>1, <2>3, <3>1
  <2> QED BY <2>1, <2>2, <2>3
<1>11. CASE Unwind /\ Top.pc # "dispatch"
  <2>1. /\ sub' = sub /\ raised /\ ~raised'
        /\ \/ Top.pc = "returned" /\ \E pc \in {"unwind", "caught"} : stack' = GoTo(pc)
           \/ Top.pc = "handled" /\ stack' = GoTo("reraise")
    BY <1>11 DEF Unwind
  <2>2. CASE Top.pc = "returned"
    <3>1. \E pc \in {"unwind", "caught"} : stack' = GoTo(pc)
      BY <2>1, <2>2
    <3> QED BY <1>5, <2>1, <2>2, <3>1
  <2>3. CASE Top.pc = "handled"
    BY <1>5, <2>1, <2>3
  <2> QED BY <2>1, <2>2, <2>3
<1> QED BY <1>4, <1>6, <1>7, <1>8, <1>9, <1>10, <1>11

\* A call of the orchestrator.
LEMMA CallsAnswers ==
  ASSUME PendInv, SharedObjects, NEW pc \in {"returned", "handled"}, NEW g, Calls(pc, g), ~raised
  PROVE  \E f, r : Answers(pc, f, g, r)
<1> DEFINE k == Top.sub
           old == stack
<1>1. /\ stack # <<>> /\ Top.pc \in {"stored", "caught"} /\ Top.pc \in ExecPc
      /\ pc \in ExecPc /\ k \in 1 .. Len(sub) /\ IsGraph(g) /\ TypeInv /\ ActInv
      /\ GraphInv(sub) /\ ExecsHold(stack, sub)
  BY DEF Calls, PendInv, StartInv, ActInv, ExecPc
<1>2. /\ IsGraph(sub) /\ FramesOver(stack, Len(sub)) /\ Len(sub) \in Nat
      /\ Len(stack) \in Nat \ {0} /\ Top = stack[Len(stack)] /\ sub \in Seq(SubTask)
      /\ sub[k] \in SubTask /\ sub[k].status \in StatusAt(Top.pc)
  BY <1>1, AfterPlan, TopStatus DEF ExecPc
<1>3. PICK f : /\ FrameOver(f, Len(sub)) /\ f.pc = pc /\ f.sub = k /\ f.todo = Top.todo
               /\ GoTo(pc) = Replaced(stack, f)
  BY <1>1, GoToFrame
<1>4. Inputs(sub, k)
  <2>1. Len(stack) \in 1 .. Len(stack)
    BY <1>2
  <2> QED BY <1>1, <1>2, <2>1 DEF ExecsHold
<1>5. Begun(sub, k)
  BY <1>1, <1>2 DEF StatusAt, Begun
<1>6. /\ Runs(sub, g, k) /\ g[k].status \in {"succeeded", "failed"}
      /\ \/ pc = "returned" /\ Top.pc = "stored" /\ g = sub
         \/ pc = "handled" /\ Top.pc = "caught" /\ g[k].status = "failed"
  <2>1. CASE Top.pc = "stored" /\ pc = "returned" /\ g = sub
    <3>1. sub[k].status \in {"succeeded", "failed"}
      BY <1>2, <2>1 DEF StatusAt
    <3>2. Executed(sub[k], sub[k])
      BY DEF Executed
    <3>3. sub[k].status = "succeeded" /\ Objects(sub[k]) => sub[k].role = "reviewer"
      BY <1>1, <1>2 DEF PendInv, GraphInv, ReviewersObject
    <3> HIDE DEF k
    <3> QED BY <1>1, <1>5, <2>1, <3>1, <3>2, <3>3 DEF Runs
  <2>2. CASE /\ Top.pc = "caught" /\ pc = "handled"
             /\ g = [sub EXCEPT ![k] = [sub[k] EXCEPT !.status = "failed"]]
    <3> DEFINE r == [sub[k] EXCEPT !.status = "failed"]
    <3>1. "failed" \in SubTaskStatus
      BY DEF SubTaskStatus
    <3>2. r \in SubTask /\ r.status = "failed" /\ Executed(sub[k], r)
      BY <1>2, <3>1, StatusExecuted DEF SubTask
    <3>3. g = [sub EXCEPT ![k] = r]
      BY <2>2
    <3> HIDE DEF r, k
    <3>4. Len(g) = Len(sub) /\ g[k] = r /\ \A t \in 1 .. Len(sub) : t # k => g[t] = sub[t]
      BY <1>1, <1>2, <3>2, <3>3
    <3>5. Begun(g, k)
      BY <3>2, <3>4 DEF Begun
    <3> QED BY <1>1, <1>5, <2>2, <3>2, <3>4, <3>5 DEF Runs
  <2> QED BY <2>1, <2>2 DEF Calls
<1>7. GraphInv(g)
  BY <1>1, <1>6, RunsGraph
<1>8. Inputs(g, k)
  <2>1. g[k].deps = sub[k].deps /\ sub[k].deps \subseteq 1 .. Len(sub)
    BY <1>1, <1>2, <1>6 DEF Runs, Executed, IsGraph
  <2>2. k \notin sub[k].deps
    <3>1. Len(stack) \in 1 .. Len(stack) /\ Len(stack) \in Len(stack) .. Len(stack)
      BY <1>2
    <3> QED BY <1>1, <1>2, <3>1 DEF ExecsHold
  <2> QED BY <1>4, <1>6, <2>1, <2>2 DEF Inputs, Runs
<1>9. ASSUME NEW r, IsGraph(r), DispatchReady(GoTo(pc), r, run.phase)
      PROVE  Scheduled(Replaced(stack, f), r)
  BY <1>3, <1>9, SchedulingScheduled
<1>10. ASSUME NEW r, Scheduled(Replaced(stack, f), r),
              \/ r = g /\ (g[k].status = "failed" => ~WantsRepair(g, k))
              \/ g[k].status = "succeeded" /\ Chained(g, r, 0, {k})
              \/ WantsRepair(g, k) /\ Chained(g, r, k, g[k].deps)
       PROVE  Answers(pc, f, g, r)
  BY <1>1, <1>3, <1>6, <1>10 DEF Answers
<1>11. CASE pc = "returned" /\ g = sub /\ sub[k].status = "succeeded" /\ OnCompleted(GoTo(pc), k)
  <2>1. CASE WantsRework(k)
    <3>1. PICK t \in ReworkTargets(sub, k) : DispatchReady(GoTo(pc), WithRework(k, t), run.phase)
      BY <1>11, <2>1 DEF OnCompleted
    <3> DEFINE r == WithRework(k, t)
    <3>2. Chained(g, r, 0, {k})
      BY <1>1, <1>11, <2>1, ReworkChained
    <3>3. DispatchReady(GoTo(pc), r, run.phase) /\ IsGraph(r)
      BY <3>1, <3>2 DEF Chained
    <3> HIDE DEF r
    <3>4. Answers(pc, f, g, r)
      BY <1>9, <1>10, <1>11, <3>2, <3>3
    <3> QED BY <3>4
  <2>2. CASE ~WantsRework(k)
    <3>1. DispatchReady(GoTo(pc), g, run.phase)
      BY <1>11, <2>2 DEF OnCompleted
    <3>2. g[k].status # "failed"
      BY <1>11
    <3>3. Answers(pc, f, g, g)
      BY <1>1, <1>9, <1>10, <3>1, <3>2
    <3> QED BY <3>3
  <2> QED BY <2>1, <2>2
<1>12. CASE OnFailed(GoTo(pc), g, k) /\ g[k].status = "failed"
  <2>1. CASE WantsRepair(g, k)
    <3> DEFINE r == WithRepair(g, k)
    <3>1. DispatchReady(GoTo(pc), r, run.phase)
      BY <1>12, <2>1 DEF OnFailed
    <3>2. Len(g) = Len(sub)
      BY <1>6 DEF Runs
    <3>3. Chained(g, r, k, g[k].deps)
      BY <1>1, <1>7, <1>8, <1>12, <2>1, <3>2, RepairChained
    <3>4. IsGraph(r)
      BY <3>3 DEF Chained
    <3> HIDE DEF r
    <3>5. Answers(pc, f, g, r)
      BY <1>9, <1>10, <2>1, <3>1, <3>3, <3>4
    <3> QED BY <3>5
  <2>2. CASE ~WantsRepair(g, k)
    <3>1. DispatchReady(GoTo(pc), g, run.phase)
      BY <1>12, <2>2 DEF OnFailed
    <3>2. Answers(pc, f, g, g)
      BY <1>1, <1>9, <1>10, <2>2, <3>1
    <3> QED BY <3>2
  <2> QED BY <2>1, <2>2
<1> QED BY <1>6, <1>11, <1>12 DEF Calls

\* The planner's return stores a plan.
LEMMA PlanPlanned ==
  ASSUME SharedObjects, PlanReady, sub = <<>>
  PROVE  \E g : Planned(g)
<1>1. PICK p \in Plans :
        DispatchReady(<<>>,
                      [i \in 1 .. Len(p) |->
                         NewSubTask(p[i].role, p[i].deps, p[i].sandbox, 0, 0)],
                      "coordinating")
  BY DEF PlanReady
<1> DEFINE q == [i \in 1 .. Len(p) |->
                   NewSubTask(p[i].role, p[i].deps, p[i].sandbox, 0, 0)]
<1>2. IsGraph(q) /\ DispatchReady(<<>>, q, "coordinating")
  BY <1>1, PlanType
<1>3. Len(q) = Len(p) /\ p # <<>> /\ Len(p) \in Nat /\ p \in Seq(PlanItem)
  <2>1. p \in Seq(PlanItem) /\ q \in Seq(SubTask) /\ p # <<>>
    BY <1>2, PlansAssumption DEF IsGraph
  <2> QED BY <2>1
<1>4. \A s \in 1 .. Len(q) : /\ q[s].status = "queued" /\ ~q[s].repaired
                             /\ q[s].attempt = 0 /\ q[s].source = 0
  BY <1>3 DEF NewSubTask
<1>5. q # <<>>
  <2>1. Len(q) # 0
    BY <1>3
  <2> HIDE DEF q
  <2> QED BY <2>1
<1> HIDE DEF q
<1>6. Scheduled(<<>>, q)
  BY <1>2, SchedulingScheduled
<1> QED BY <1>2, <1>4, <1>5, <1>6 DEF Planned

\* An execution tells its outcome.
LEMMA PublishAnswers ==
  ASSUME PendInv, SharedObjects, Publish
  PROVE  \E f, r : Answers("returned", f, sub, r)
<1>0. TypeInv
  BY DEF PendInv, StartInv, ActInv
<1>1. stack # <<>> /\ Top.pc = "stored" /\ Top.pc \in ExecPc /\ ~raised
  BY DEF Publish, At, Running, ExecPc
<1>2. IsGraph(sub) /\ Top.sub \in 1 .. Len(sub)
  BY <1>0, <1>1, AfterPlan DEF ExecPc
<1>3. Calls("returned", sub)
  BY <1>1, <1>2 DEF Publish, Calls
<1> QED BY <1>1, <1>3, CallsAnswers

\* An execution tells its failure.
LEMMA CaughtAnswers ==
  ASSUME PendInv, SharedObjects, Caught
  PROVE  \E f, g, r : Answers("handled", f, g, r)
<1>0. TypeInv
  BY DEF PendInv, StartInv, ActInv
<1>1. stack # <<>> /\ Top.pc = "caught" /\ Top.pc \in ExecPc /\ ~raised
  BY DEF Caught, At, Running, ExecPc
<1>2. IsGraph(sub) /\ Top.sub \in 1 .. Len(sub)
  BY <1>0, <1>1, AfterPlan DEF ExecPc
<1> DEFINE q == [sub EXCEPT ![Top.sub] = [sub[Top.sub] EXCEPT !.status = "failed"]]
<1>3. OnFailed(GoTo("handled"), q, Top.sub)
  BY DEF Caught, SavedAsFailed
<1>4. IsGraph(q)
  <2>1. "failed" \in SubTaskStatus
    BY DEF SubTaskStatus
  <2> QED BY <1>0, <1>1, <2>1, ExecSubTypes
<1>5. Calls("handled", q)
  BY <1>1, <1>2, <1>3, <1>4 DEF Calls
<1> HIDE DEF q
<1> QED BY <1>1, <1>5, CallsAnswers

\* Every step has one of the forms.
StepForm ==
  \/ Planless /\ (stack' = <<>> \/ (run.status = "pending" /\ raised' = raised))
  \/ \E g : Planned(g)
  \/ stack' = stack /\ sub' = sub /\ raised' = raised
  \/ \E s, f : Starts(s, f)
  \/ Returns
  \/ \E f : Advances(f)
  \/ \E pc, f, g, r : Answers(pc, f, g, r)

\* The forms are all there are.
LEMMA StepForms ==
  ASSUME PendInv, SharedObjects, [HeardNext]_vars
  PROVE  StepForm
<1>0. TypeInv /\ ActInv /\ (raised /\ stack # <<>> => Top.pc \in Calling)
  BY DEF PendInv, StartInv, ActInv
<1>1. CASE HandleTaskCreated
  <2>1. Planless /\ raised' = raised /\ run.status = "pending"
    BY <1>0, <1>1 DEF HandleTaskCreated, TypeInv, BeforePlan, Planless
  <2> QED BY <2>1 DEF StepForm
<1>2. CASE PlanReady \/ PlanRaises
  <2>1. stack # <<>> /\ Top.pc = "planning"
    BY <1>2 DEF PlanReady, PlanRaises, At, Running
  <2>2. IsGraph(sub) /\ FramesOver(stack, Len(sub))
    BY <1>0, TypeOKParts DEF TypeInv
  <2>3. sub = <<>>
    BY <1>0, <2>1, <2>2, TopType DEF TypeInv, BeforePlan
  <2>4. CASE PlanReady
    <3>1. \E g : Planned(g)
      BY <2>3, <2>4, PlanPlanned
    <3> QED BY <3>1 DEF StepForm
  <2>5. CASE PlanRaises
    <3>1. Planless /\ stack' = <<>>
      BY <2>3, <2>5 DEF PlanRaises, Planless
    <3> QED BY <3>1 DEF StepForm
  <2> QED BY <1>2, <2>4, <2>5
<1>3. CASE DeleteTask \/ UNCHANGED vars
  <2>1. stack' = stack /\ sub' = sub /\ raised' = raised
    BY <1>3 DEF DeleteTask, vars
  <2> QED BY <2>1 DEF StepForm
<1>4. CASE LoopEnds \/ (Unwind /\ Top.pc = "dispatch") \/ Reconcile \/ ReconcileRaises
  <2>1. CASE LoopEnds \/ (Unwind /\ Top.pc = "dispatch")
    <3>1. /\ stack # <<>> /\ stack' = Front(stack) /\ sub' = sub
          /\ Top.pc = "dispatch" /\ raised' = raised /\ (raised \/ Top.todo = {})
      BY <2>1 DEF LoopEnds, Unwind, At, Running
    <3> QED BY <3>1 DEF Returns, StepForm
  <2>2. CASE Reconcile
    <3>1. /\ stack # <<>> /\ stack' = Front(stack) /\ sub' = sub /\ ~raised
          /\ Top.pc \in {"reconcile", "reraise"} /\ raised' = (Top.pc = "reraise")
      BY <2>2 DEF Reconcile, Running
    <3> QED BY <3>1 DEF Returns, StepForm
  <2>3. CASE ReconcileRaises
    <3>1. /\ stack # <<>> /\ stack' = Front(stack) /\ sub' = sub /\ ~raised
          /\ Top.pc \in {"reconcile", "reraise"} /\ raised' = TRUE /\ faults' = faults + 1
      BY <2>3 DEF ReconcileRaises, Running
    <3> QED BY <3>1 DEF Returns, StepForm
  <2> QED BY <1>4, <2>1, <2>2, <2>3
<1>5. CASE \/ Begin \/ Acquire \/ Work \/ BodyRaises \/ Return \/ Release \/ ReleaseRaises
           \/ SummaryRaises \/ Handled \/ (Unwind /\ Top.pc # "dispatch")
  <2>1. \E f : Advances(f)
    BY <1>0, <1>5, MovesAdvances
  <2> QED BY <2>1 DEF StepForm
<1>6. CASE \E s \in 1 .. Len(sub) : RunNext(s)
  <2>1. \E s, f : Starts(s, f)
    BY <1>6, RunNextStarts
  <2> QED BY <2>1 DEF StepForm
<1>7. CASE Publish
  <2>1. \E f, r : Answers("returned", f, sub, r)
    BY <1>7, PublishAnswers
  <2> QED BY <2>1 DEF StepForm
<1>8. CASE Caught
  <2>1. \E f, g, r : Answers("handled", f, g, r)
    BY <1>8, CaughtAnswers
  <2> QED BY <2>1 DEF StepForm
<1> QED BY <1>1, <1>2, <1>3, <1>4, <1>5, <1>6, <1>7, <1>8 DEF HeardNext, Next, Step

-----------------------------------------------------------------------------
(* The pending calls, step by step *)

\* Moving on or returning alternates as before.
LEMMA AlternatesReplaced ==
  ASSUME NEW n \in Nat, NEW stk, FramesOver(stk, n), stk # <<>>, Alternates(stk),
         NEW f, FrameOver(f, n), f.pc \in ExecPc <=> stk[Len(stk)].pc \in ExecPc
  PROVE  Alternates(Replaced(stk, f))
<1> DEFINE new == Replaced(stk, f)
<1>1. /\ FramesOver(new, n) /\ Len(new) = Len(stk) /\ Len(stk) \in Nat \ {0}
      /\ \A i \in 1 .. Len(stk) : new[i] = IF i = Len(stk) THEN f ELSE stk[i]
  BY ReplaceTopType DEF FramesOver
<1> HIDE DEF new
<1>2. \A i \in 1 .. Len(stk) : new[i].pc \in ExecPc <=> stk[i].pc \in ExecPc
  BY <1>1
<1>3. 1 \in 1 .. Len(stk)
  BY <1>1
<1> QED BY <1>1, <1>2, <1>3 DEF Alternates, new

\* So does a call of the other kind.
LEMMA AlternatesPushed ==
  ASSUME NEW n \in Nat, NEW stk, FramesOver(stk, n), Alternates(stk), NEW f, FrameOver(f, n),
         IF stk = <<>> THEN f.pc \notin ExecPc
                       ELSE f.pc \in ExecPc <=> stk[Len(stk)].pc \notin ExecPc
  PROVE  Alternates(Append(stk, f))
<1> DEFINE new == Append(stk, f)
<1>1. /\ Len(new) = Len(stk) + 1 /\ new[Len(stk) + 1] = f /\ Len(stk) \in Nat
      /\ \A i \in 1 .. Len(stk) : new[i] = stk[i]
  BY AppendFrameType DEF FramesOver
<1> HIDE DEF new
<1>2. CASE stk = <<>>
  <2>1. Len(stk) = 0
    BY <1>2
  <2>2. ~ \E i, j \in 1 .. Len(new) : j = i + 1
    BY <1>1, <2>1
  <2> QED BY <1>1, <1>2, <2>1, <2>2 DEF Alternates, new
<1>3. CASE stk # <<>>
  <2>1. Len(stk) # 0 /\ 1 \in 1 .. Len(stk) /\ stk \in Seq(Frame)
    BY <1>1, <1>3 DEF FramesOver
  <2>2. \A i, j \in 1 .. Len(new) : j = i + 1 =>
          \/ i \in 1 .. Len(stk) /\ j \in 1 .. Len(stk)
          \/ i = Len(stk) /\ j = Len(stk) + 1 /\ i \in 1 .. Len(stk)
    BY <1>1
  <2> QED BY <1>1, <1>3, <2>1, <2>2 DEF Alternates, new
<1> QED BY <1>2, <1>3

\* And a return.
LEMMA AlternatesFront ==
  ASSUME NEW n \in Nat, NEW stk, FramesOver(stk, n), stk # <<>>, Alternates(stk)
  PROVE  Alternates(Front(stk))
<1> DEFINE new == Front(stk)
<1>1. /\ FramesOver(new, n) /\ Len(new) = Len(stk) - 1 /\ Len(stk) \in Nat
      /\ \A i \in 1 .. Len(new) : i \in 1 .. Len(stk) /\ new[i] = stk[i]
  BY FrontType DEF FramesOver
<1> HIDE DEF new
<1>2. new # <<>> => 1 \in 1 .. Len(new)
  BY <1>1 DEF FramesOver
<1> QED BY <1>1, <1>2 DEF Alternates, new

\* Scheduling, for calls that hold.
LEMMA ScheduledHolds ==
  ASSUME NEW r, GraphInv(r), NEW callers, FramesOver(callers, Len(r)),
         LoopsHold(callers, r), ExecsHold(callers, r), Alternates(callers),
         callers = <<>> \/ callers[Len(callers)].pc \in ExecPc,
         Scheduled(callers, r)
  PROVE  /\ GraphInv(sub') /\ Lineage(r, sub')
         /\ LoopsHold(stack', sub') /\ ExecsHold(stack', sub') /\ Alternates(stack')
<1>1. Schedules(r, sub') /\ Len(r) \in Nat /\ IsGraph(r)
  BY DEF Scheduled, GraphInv, IsGraph
<1>2. GraphInv(sub') /\ Lineage(r, sub') /\ IsGraph(sub') /\ Len(sub') = Len(r)
  BY <1>1, SchedulesGraph DEF GraphInv, Schedules
<1>3. callers \in Seq(Frame) /\ Len(callers) \in Nat /\ Returned(callers, callers)
  BY DEF FramesOver, Returned
<1>4. \A i \in 1 .. Len(callers) : \A t \in callers[i].todo : sub'[t].status = "assigned"
  <2> SUFFICES ASSUME NEW i \in 1 .. Len(callers), NEW t \in callers[i].todo
               PROVE  sub'[t].status = "assigned"
    OBVIOUS
  <2>1. r[t].status = "assigned" /\ t \in 1 .. Len(r)
    BY DEF LoopsHold, FramesOver, FrameOver
  <2>2. t \notin Ready(r)
    BY <2>1 DEF Ready
  <2> QED BY <1>1, <2>1, <2>2 DEF Schedules
<1>5. \A d \in 1 .. Len(r) : r[d].status = "succeeded" => sub'[d].status = "succeeded"
  <2>1. \A d \in 1 .. Len(r) : r[d].status = "succeeded" => d \notin Ready(r)
    BY DEF Ready
  <2> QED BY <1>1, <2>1 DEF Schedules
<1>6. LoopsHold(callers, sub') /\ ExecsHold(callers, sub')
  <2> DEFINE x == 0
  <2>1. /\ x = 0
        /\ \A d \in 1 .. Len(r) : r[d].status = "succeeded" /\ d # x => sub'[d].status = "succeeded"
    BY <1>5
  <2> HIDE DEF x
  <2> QED BY <1>1, <1>2, <1>3, <1>4, <2>1, HoldReturned
<1>7. CASE stack' = callers
  BY <1>2, <1>6, <1>7
<1>8. CASE /\ stack' = Append(callers, DispatchFrame(Ready(r)))
           /\ \A s \in Ready(r) : sub'[s].status = "assigned"
  <2> DEFINE f == DispatchFrame(Ready(r))
  <2>1. f.todo = Ready(r) /\ f.pc \notin ExecPc /\ FrameOver(f, Len(r))
    <3>1. Ready(r) \subseteq 1 .. Len(r) /\ Ready(r) \in SUBSET (Nat \ {0})
      BY <1>1 DEF Ready
    <3> QED BY <3>1 DEF DispatchFrame, Frame, FrameOver, ExecPc
  <2>2. stack' = Append(callers, f)
    BY <1>8
  <2> HIDE DEF f
  <2>3. LoopsHold(Append(callers, f), sub') /\ ExecsHold(Append(callers, f), sub')
    BY <1>1, <1>6, <1>8, <2>1, HoldLoop
  <2>4. Alternates(Append(callers, f))
    BY <1>1, <2>1, AlternatesPushed
  <2> QED BY <1>2, <2>2, <2>3, <2>4
<1> QED BY <1>7, <1>8 DEF Scheduled

\* What an answer is made of: the frames that wait for it, the graph with the
\* outcome, the graph with the chain.
LEMMA AnswerStages ==
  ASSUME PendInv, NEW pc, NEW f, NEW g, NEW r, Answers(pc, f, g, r)
  PROVE  LET k == Top.sub
             callers == Replaced(stack, f)
         IN  /\ GraphInv(g) /\ Lineage(sub, g) /\ Len(g) = Len(sub)
             /\ GraphInv(r) /\ Lineage(g, r)
             /\ FramesOver(callers, Len(sub)) /\ FramesOver(callers, Len(r))
             /\ Len(callers) = Len(stack) /\ Len(stack) \in Nat \ {0}
             /\ \A i \in 1 .. Len(stack) : callers[i] = IF i = Len(stack) THEN f ELSE stack[i]
             /\ LoopsHold(callers, r) /\ ExecsHold(callers, r) /\ Alternates(callers)
             /\ LoopsHold(callers, g) /\ ExecsHold(callers, g)
             /\ k \in 1 .. Len(sub) /\ k \in 1 .. Len(g) /\ Inputs(g, k) /\ Inputs(sub, k)
             /\ Top = stack[Len(stack)] /\ f.pc \in ExecPc
<1> DEFINE k == Top.sub
           callers == Replaced(stack, f)
<1>1. /\ stack # <<>> /\ Top.pc \in ExecPc /\ FrameOver(f, Len(sub)) /\ f.pc \in ExecPc
      /\ f.sub = k /\ f.todo = Top.todo
      /\ Runs(sub, g, k)
      /\ r = g \/ (\E x, deps : (x = 0 \/ x = k) /\ Chained(g, r, x, deps))
      /\ GraphInv(sub) /\ TypeInv /\ ActInv /\ LoopsHold(stack, sub) /\ ExecsHold(stack, sub)
      /\ Alternates(stack) /\ Exclusive(stack)
  BY DEF Answers, PendInv, StartInv, ActInv, ExecPc
<1>2. /\ FramesOver(stack, Len(sub)) /\ Len(sub) \in Nat /\ Len(stack) \in Nat \ {0}
      /\ Top = stack[Len(stack)] /\ k \in 1 .. Len(sub) /\ IsGraph(sub)
  BY <1>1, AfterPlan DEF ExecPc
<1>3. GraphInv(g) /\ Lineage(sub, g) /\ Len(g) = Len(sub) /\ IsGraph(g)
  BY <1>1, RunsGraph DEF Runs
<1>4. GraphInv(r) /\ Lineage(g, r) /\ IsGraph(r) /\ Len(r) \in Nat
  <2>1. CASE r = g
    BY <1>2, <1>3, <2>1 DEF Lineage, SameLineage
  <2>2. CASE r # g
    <3>1. GraphInv(r) /\ Lineage(g, r)
      BY <1>1, <1>3, <2>2, ChainedGraph
    <3> QED BY <3>1 DEF GraphInv, IsGraph
  <2> QED BY <2>1, <2>2
<1>5. /\ FramesOver(callers, Len(sub)) /\ Len(callers) = Len(stack)
      /\ \A i \in 1 .. Len(stack) : callers[i] = IF i = Len(stack) THEN f ELSE stack[i]
  BY <1>1, <1>2, ReplaceTopType
<1>6. Alternates(callers)
  BY <1>1, <1>2, AlternatesReplaced
<1> HIDE DEF callers
<1>7. FramesOver(callers, Len(r))
  <2>1. Len(sub) <= Len(r)
    BY <1>3, <1>4 DEF Lineage
  <2> QED BY <1>2, <1>4, <1>5, <2>1, GrownType
<1>8. Returned(callers, stack) /\ callers \in Seq(Frame) /\ Returned(callers, callers)
  <2>1. \A i \in 1 .. Len(stack) :
          /\ callers[i].todo = stack[i].todo
          /\ callers[i].pc \in ExecPc =>
               stack[i].pc \in ExecPc /\ callers[i].sub = stack[i].sub
    BY <1>1, <1>2, <1>5
  <2>2. callers \in Seq(Frame) /\ Len(callers) <= Len(stack)
    BY <1>2, <1>5 DEF FramesOver
  <2> QED BY <1>2, <1>5, <2>1, <2>2 DEF Returned
<1>9. \A i \in 1 .. Len(stack) : \A t \in stack[i].todo :
        t # k /\ g[t].status = "assigned" /\ t \in 1 .. Len(sub)
  <2> SUFFICES ASSUME NEW i \in 1 .. Len(stack), NEW t \in stack[i].todo
               PROVE  t # k /\ g[t].status = "assigned" /\ t \in 1 .. Len(sub)
    OBVIOUS
  <2>1. sub[t].status = "assigned" /\ t \in 1 .. Len(sub)
    BY <1>1, <1>2 DEF LoopsHold, FramesOver, FrameOver
  <2>2. t # k
    <3>1. Len(stack) \in 1 .. Len(stack)
      BY <1>2
    <3> QED BY <1>1, <1>2, <3>1 DEF Exclusive
  <2> QED BY <1>1, <2>1, <2>2 DEF Runs
<1>10. LoopsHold(callers, g) /\ ExecsHold(callers, g)
  <2>1. \A d \in 1 .. Len(sub) : sub[d].status = "succeeded" /\ d # k => g[d].status = "succeeded"
    BY <1>1 DEF Runs
  <2>2. k = stack[Len(stack)].sub /\ stack[Len(stack)].pc \in ExecPc
    BY <1>1, <1>2
  <2>3. /\ IsGraph(sub) /\ IsGraph(g) /\ Lineage(sub, g) /\ FramesOver(stack, Len(sub))
        /\ LoopsHold(stack, sub) /\ ExecsHold(stack, sub) /\ stack # <<>>
        /\ callers \in Seq(Frame) /\ Returned(callers, stack)
        /\ \A i \in 1 .. Len(stack) : \A t \in stack[i].todo : g[t].status = "assigned"
    BY <1>1, <1>2, <1>3, <1>8, <1>9
  <2> HIDE DEF k
  <2> QED BY <2>1, <2>2, <2>3, HoldReturned
<1>11. \A i \in 1 .. Len(callers) : \A t \in callers[i].todo : r[t].status = "assigned"
  <2> SUFFICES ASSUME NEW i \in 1 .. Len(callers), NEW t \in callers[i].todo
               PROVE  r[t].status = "assigned"
    OBVIOUS
  <2>1. g[t].status = "assigned" /\ t \in 1 .. Len(g)
    BY <1>3, <1>5, <1>10 DEF LoopsHold, FramesOver, FrameOver
  <2>2. t \notin Descendants(g, k)
    <3>1. Len(stack) \in i .. Len(callers) /\ callers[Len(stack)] = f
      BY <1>2, <1>5
    <3> QED BY <1>1, <1>10, <3>1 DEF LoopsHold
  <2> QED BY <1>1, <2>1, <2>2 DEF Chained
<1>12. LoopsHold(callers, r) /\ ExecsHold(callers, r)
  <2>1. \A d \in 1 .. Len(g) : g[d].status = "succeeded" => r[d].status = "succeeded"
    BY <1>1 DEF Chained, Finished
  <2> DEFINE x == 0
  <2>2. /\ x = 0
        /\ \A d \in 1 .. Len(g) : g[d].status = "succeeded" /\ d # x => r[d].status = "succeeded"
    BY <2>1
  <2> HIDE DEF x
  <2>3. FramesOver(callers, Len(g))
    BY <1>3, <1>5
  <2> QED BY <1>3, <1>4, <1>8, <1>10, <1>11, <2>2, <2>3, HoldReturned
<1>13. Inputs(g, k) /\ Inputs(sub, k)
  <2>1. Len(stack) \in 1 .. Len(callers) /\ callers[Len(stack)] = f /\ Len(stack) \in 1 .. Len(stack)
    BY <1>2, <1>5
  <2> QED BY <1>1, <1>2, <1>10, <2>1 DEF ExecsHold
<1> QED BY <1>1, <1>2, <1>3, <1>4, <1>5, <1>6, <1>7, <1>10, <1>12, <1>13 DEF callers

\* What a step does to the run.
LEMMA RunStatusStep ==
  ASSUME TypeInv, [HeardNext]_vars
  PROVE  \/ run'.status = run.status /\ announced' = announced
            /\ task' \in {task, "running"} \cup (IF MayDelete THEN {"cancelled"} ELSE {})
         \/ /\ run.status = "pending" /\ run'.status = "running" /\ raised' = raised
            /\ announced' = announced
         \/ Reconcile
         \/ ReconcileRaises
<1>1. run \in [status : RunStatus, phase : RunPhase]
  BY DEF TypeInv, TypeOK
<1>2. CASE HandleTaskCreated
  BY <1>2 DEF HandleTaskCreated
<1>3. ASSUME NEW callers, NEW q, NEW phase, DispatchReady(callers, q, phase)
      PROVE  run'.status = run.status /\ task' \in {task, "running"}
  <2>1. CASE Dispatch(callers, q, phase)
    BY <1>1, <2>1 DEF Dispatch
  <2>2. CASE DispatchRaises(callers, q, phase)
    BY <1>1, <2>2 DEF DispatchRaises
  <2> QED BY <1>3, <2>1, <2>2 DEF DispatchReady
<1>4. CASE PlanReady
  <2>1. \E q : DispatchReady(<<>>, q, "coordinating")
    BY <1>4 DEF PlanReady
  <2>2. announced' = announced
    BY <1>4 DEF PlanReady
  <2> QED BY <1>3, <2>1, <2>2
<1>5. CASE Publish \/ Caught
  <2>1. \E callers, q : DispatchReady(callers, q, run.phase)
    <3>1. CASE Publish
      BY <3>1 DEF Publish, OnCompleted, OnFailed
    <3>2. CASE Caught
      BY <3>2 DEF Caught, OnFailed
    <3> QED BY <1>5, <3>1, <3>2
  <2>2. announced' = announced
    BY <1>5 DEF Publish, Caught
  <2> QED BY <1>3, <2>1, <2>2
<1>6. CASE \/ PlanRaises \/ (\E s \in 1 .. Len(sub) : RunNext(s)) \/ LoopEnds \/ Begin
           \/ Acquire \/ Work \/ BodyRaises \/ Return \/ Release \/ ReleaseRaises
           \/ SummaryRaises \/ Handled \/ Unwind \/ UNCHANGED vars
  <2>1. run' = run /\ task' = task /\ announced' = announced
    BY <1>6 DEF PlanRaises, RunNext, LoopEnds, Begin, Acquire, Work, BodyRaises, Return,
                Release, ReleaseRaises, SummaryRaises, Handled, Unwind, vars
  <2> QED BY <2>1
<1>7. CASE DeleteTask
  BY <1>7 DEF DeleteTask
<1> QED BY <1>2, <1>4, <1>5, <1>6, <1>7 DEF HeardNext, Next, Step

\* Nothing is pending, or the planner's call.
LEMMA PlanlessHolds ==
  ASSUME Planless
  PROVE  /\ GraphInv(sub') /\ LoopsHold(stack', sub') /\ ExecsHold(stack', sub')
         /\ Alternates(stack')
<1>1. \A i \in 1 .. Len(stack') : stack'[i].pc \notin ExecPc /\ stack'[i].todo = {}
  BY DEF Planless, PlanningFrame, ExecPc
<1>2. Len(stack') \in {0, 1} /\ (stack' # <<>> => 1 \in 1 .. Len(stack'))
  BY DEF Planless
<1>3. Alternates(stack')
  BY <1>1, <1>2 DEF Alternates
<1>4. GraphInv(sub')
  <2>1. sub' = <<>> /\ 1 .. Len(sub') = {} /\ sub' \in Seq(SubTask)
    BY DEF Planless
  <2> QED BY <2>1 DEF GraphInv, IsGraph, Ordered, RepairsFailures, BegunOnEnded, NothingWaits,
             CancelledBelowFailure, CoversRepairable, RepairsCovered, ReviewersObject
<1> QED BY <1>1, <1>3, <1>4 DEF LoopsHold, ExecsHold

\* The plan is stored.
LEMMA PlannedHolds ==
  ASSUME NEW g, Planned(g)
  PROVE  /\ GraphInv(g) /\ GraphInv(sub') /\ Lineage(g, sub')
         /\ LoopsHold(stack', sub') /\ ExecsHold(stack', sub') /\ Alternates(stack')
<1>1. GraphInv(g) /\ Scheduled(<<>>, g)
  BY PlannedGraph DEF Planned
<1> DEFINE callers == <<>>
<1>2. FramesOver(callers, Len(g)) /\ Len(callers) = 0
  BY DEF FramesOver
<1>3. callers = <<>>
  OBVIOUS
<1> HIDE DEF callers
<1>4. LoopsHold(callers, g) /\ ExecsHold(callers, g) /\ Alternates(callers)
  BY <1>2, <1>3 DEF LoopsHold, ExecsHold, Alternates
<1> QED BY <1>1, <1>2, <1>3, <1>4, ScheduledHolds

\* A loop starts an execution.
LEMMA StartsHolds ==
  ASSUME PendInv, NEW s, NEW f, Starts(s, f)
  PROVE  /\ LoopsHold(stack', sub') /\ ExecsHold(stack', sub') /\ Alternates(stack')
<1> DEFINE callers == Replaced(stack, f)
<1>1. /\ stack # <<>> /\ Top.pc = "dispatch" /\ sub' = sub /\ Top.pc # "planning"
      /\ Top.pc \notin ExecPc
      /\ FrameOver(f, Len(sub)) /\ f.pc = "dispatch" /\ f.pc \notin ExecPc
      /\ f.todo = Top.todo \ {s} /\ s \in Top.todo
      /\ sub[s].status = "assigned" /\ Inputs(sub, s)
      /\ stack' = Append(callers, ExecFrame(s))
      /\ TypeInv /\ GraphInv(sub) /\ LoopsHold(stack, sub) /\ ExecsHold(stack, sub)
      /\ Alternates(stack)
  BY DEF Starts, PendInv, StartInv, ActInv, ExecPc
<1>2. /\ FramesOver(stack, Len(sub)) /\ Len(sub) \in Nat /\ Len(stack) \in Nat \ {0}
      /\ Top = stack[Len(stack)] /\ IsGraph(sub) /\ s \in 1 .. Len(sub)
      /\ FrameOver(Top, Len(sub))
  BY <1>1, AfterPlan DEF FrameOver
<1>3. /\ FramesOver(callers, Len(sub)) /\ Len(callers) = Len(stack)
      /\ \A i \in 1 .. Len(stack) : callers[i] = IF i = Len(stack) THEN f ELSE stack[i]
  BY <1>1, <1>2, ReplaceTopType
<1>4. Alternates(callers)
  BY <1>1, <1>2, AlternatesReplaced
<1> HIDE DEF callers
<1>5. LoopsHold(callers, sub) /\ ExecsHold(callers, sub)
  <2>1. Returned(callers, stack) /\ callers \in Seq(Frame)
    <3>1. \A i \in 1 .. Len(stack) :
            /\ callers[i].todo \subseteq stack[i].todo
            /\ callers[i].pc \in ExecPc =>
                 stack[i].pc \in ExecPc /\ callers[i].sub = stack[i].sub
      BY <1>1, <1>2, <1>3
    <3>2. callers \in Seq(Frame) /\ Len(callers) <= Len(stack)
      BY <1>2, <1>3 DEF FramesOver
    <3> QED BY <1>3, <3>1, <3>2 DEF Returned
  <2>2. Lineage(sub, sub)
    BY <1>2 DEF Lineage, SameLineage
  <2>3. \A i \in 1 .. Len(stack) : \A t \in stack[i].todo : sub[t].status = "assigned"
    BY <1>1 DEF LoopsHold
  <2> DEFINE x == 0
  <2>4. /\ x = 0
        /\ \A d \in 1 .. Len(sub) : sub[d].status = "succeeded" /\ d # x => sub[d].status = "succeeded"
    OBVIOUS
  <2> HIDE DEF x
  <2> QED BY <1>1, <1>2, <2>1, <2>2, <2>3, <2>4, HoldReturned
<1> DEFINE e == ExecFrame(s)
<1>6. FrameOver(e, Len(sub)) /\ e.pc \in ExecPc /\ e.todo = {} /\ e.sub = s
  BY <1>2 DEF ExecFrame, FrameOver, Frame, ExecPc
<1>7. stack' = Append(callers, e)
  BY <1>1
<1> HIDE DEF e
<1>8. LoopsHold(Append(callers, e), sub) /\ ExecsHold(Append(callers, e), sub)
  BY <1>1, <1>3, <1>5, <1>6, HoldExec
<1>9. Alternates(Append(callers, e))
  <2>1. callers # <<>> => callers[Len(callers)] = f
    BY <1>2, <1>3
  <2>2. callers # <<>>
    BY <1>2, <1>3
  <2> QED BY <1>1, <1>2, <1>3, <1>4, <1>6, <2>1, <2>2, AlternatesPushed
<1> QED BY <1>1, <1>7, <1>8, <1>9

\* The innermost call returns.
LEMMA ReturnsHolds ==
  ASSUME PendInv, Returns
  PROVE  LoopsHold(stack', sub') /\ ExecsHold(stack', sub') /\ Alternates(stack')
<1> DEFINE new == Front(stack)
<1>1. /\ stack # <<>> /\ Top.pc # "planning" /\ sub' = sub /\ stack' = new
      /\ TypeInv /\ GraphInv(sub) /\ LoopsHold(stack, sub) /\ ExecsHold(stack, sub)
      /\ Alternates(stack)
  BY DEF Returns, PendInv, StartInv, ActInv
<1>2. /\ FramesOver(stack, Len(sub)) /\ Len(sub) \in Nat /\ IsGraph(sub) /\ Len(stack) \in Nat
  BY <1>1, AfterPlan
<1>3. /\ FramesOver(new, Len(sub)) /\ Len(new) = Len(stack) - 1
      /\ \A i \in 1 .. Len(new) : i \in 1 .. Len(stack) /\ new[i] = stack[i]
  BY <1>1, <1>2, FrontType
<1>4. Alternates(new)
  BY <1>1, <1>2, AlternatesFront
<1> HIDE DEF new
<1>5. Returned(new, stack) /\ new \in Seq(Frame)
  BY <1>2, <1>3 DEF Returned, FramesOver
<1>6. Lineage(sub, sub)
  BY <1>2 DEF Lineage, SameLineage
<1>7. \A i \in 1 .. Len(stack) : \A t \in stack[i].todo : sub[t].status = "assigned"
  BY <1>1 DEF LoopsHold
<1> DEFINE x == 0
<1>8. /\ x = 0
      /\ \A d \in 1 .. Len(sub) : sub[d].status = "succeeded" /\ d # x => sub[d].status = "succeeded"
  OBVIOUS
<1> HIDE DEF x
<1>9. LoopsHold(new, sub) /\ ExecsHold(new, sub)
  BY <1>1, <1>2, <1>5, <1>6, <1>7, <1>8, HoldReturned
<1> QED BY <1>1, <1>4, <1>9

\* The innermost execution advances.
LEMMA AdvancesHolds ==
  ASSUME PendInv, NEW f, Advances(f)
  PROVE  /\ GraphInv(sub') /\ Lineage(sub, sub') /\ Len(sub') = Len(sub)
         /\ LoopsHold(stack', sub') /\ ExecsHold(stack', sub') /\ Alternates(stack')
<1> DEFINE callers == Replaced(stack, f)
           k == Top.sub
<1>1. /\ stack # <<>> /\ Top.pc \in ExecPc /\ Top.pc # "planning"
      /\ FrameOver(f, Len(sub)) /\ f.pc \in ExecPc /\ f.sub = k /\ f.todo = Top.todo
      /\ stack' = callers
      /\ sub' = sub \/ (Runs(sub, sub', k) /\ sub[k].status \notin Finished)
      /\ TypeInv /\ GraphInv(sub) /\ LoopsHold(stack, sub) /\ ExecsHold(stack, sub)
      /\ Alternates(stack) /\ Exclusive(stack)
  BY DEF Advances, PendInv, StartInv, ActInv, ExecPc
<1>2. /\ FramesOver(stack, Len(sub)) /\ Len(sub) \in Nat /\ Len(stack) \in Nat \ {0}
      /\ Top = stack[Len(stack)] /\ IsGraph(sub) /\ k \in 1 .. Len(sub)
  BY <1>1, AfterPlan
<1>3. /\ FramesOver(callers, Len(sub)) /\ Len(callers) = Len(stack)
      /\ \A i \in 1 .. Len(stack) : callers[i] = IF i = Len(stack) THEN f ELSE stack[i]
  BY <1>1, <1>2, ReplaceTopType
<1>4. Alternates(callers)
  BY <1>1, <1>2, AlternatesReplaced
<1> HIDE DEF callers
<1>5. GraphInv(sub') /\ Lineage(sub, sub') /\ Len(sub') = Len(sub) /\ IsGraph(sub')
  <2>1. CASE sub' = sub
    BY <1>1, <1>2, <2>1 DEF Lineage, SameLineage
  <2>2. CASE Runs(sub, sub', k)
    BY <1>1, <2>2, RunsGraph DEF Runs
  <2> QED BY <1>1, <2>1, <2>2
<1>6. Returned(callers, stack) /\ callers \in Seq(Frame)
  <2>1. \A i \in 1 .. Len(stack) :
          /\ callers[i].todo \subseteq stack[i].todo
          /\ callers[i].pc \in ExecPc =>
               stack[i].pc \in ExecPc /\ callers[i].sub = stack[i].sub
    BY <1>1, <1>2, <1>3
  <2>2. callers \in Seq(Frame) /\ Len(callers) <= Len(stack)
    BY <1>2, <1>3 DEF FramesOver
  <2> QED BY <1>3, <2>1, <2>2 DEF Returned
<1>7. \A i \in 1 .. Len(stack) : \A t \in stack[i].todo : sub'[t].status = "assigned"
  <2> SUFFICES ASSUME NEW i \in 1 .. Len(stack), NEW t \in stack[i].todo
               PROVE  sub'[t].status = "assigned"
    OBVIOUS
  <2>1. sub[t].status = "assigned" /\ t \in 1 .. Len(sub)
    BY <1>1, <1>2 DEF LoopsHold, FramesOver, FrameOver
  <2>2. t # k
    <3>1. Len(stack) \in 1 .. Len(stack)
      BY <1>2
    <3> QED BY <1>1, <1>2, <3>1 DEF Exclusive
  <2> QED BY <1>1, <2>1, <2>2 DEF Runs
<1>8. LoopsHold(callers, sub') /\ ExecsHold(callers, sub')
  <2>1. \A d \in 1 .. Len(sub) : sub[d].status = "succeeded" /\ d # k => sub'[d].status = "succeeded"
    BY <1>1 DEF Runs
  <2>2. k = stack[Len(stack)].sub /\ stack[Len(stack)].pc \in ExecPc
    BY <1>1, <1>2
  <2> HIDE DEF k
  <2> QED BY <1>1, <1>2, <1>5, <1>6, <1>7, <2>1, <2>2, HoldReturned
<1> QED BY <1>1, <1>4, <1>5, <1>8

\* The innermost execution calls the orchestrator.
LEMMA AnswersHolds ==
  ASSUME PendInv, NEW pc, NEW f, NEW g, NEW r, Answers(pc, f, g, r)
  PROVE  /\ GraphInv(sub') /\ Lineage(r, sub')
         /\ LoopsHold(stack', sub') /\ ExecsHold(stack', sub') /\ Alternates(stack')
<1> DEFINE callers == Replaced(stack, f)
<1>1. /\ GraphInv(r) /\ FramesOver(callers, Len(r))
      /\ LoopsHold(callers, r) /\ ExecsHold(callers, r) /\ Alternates(callers)
      /\ Len(callers) = Len(stack) /\ Len(stack) \in Nat \ {0}
      /\ \A i \in 1 .. Len(stack) : callers[i] = IF i = Len(stack) THEN f ELSE stack[i]
      /\ f.pc \in ExecPc
  BY AnswerStages
<1>2. Scheduled(callers, r)
  BY DEF Answers
<1> HIDE DEF callers
<1>3. callers[Len(callers)].pc \in ExecPc
  BY <1>1
<1> QED BY <1>1, <1>2, <1>3, ScheduledHolds

\* Where the stack ends after scheduling.
LEMMA ScheduledTop ==
  ASSUME NEW r, IsGraph(r), NEW callers, callers \in Seq(Frame), Scheduled(callers, r)
  PROVE  \/ stack' = callers
         \/ /\ stack' = Append(callers, DispatchFrame(Ready(r))) /\ stack' # <<>>
            /\ Len(stack') = Len(callers) + 1 /\ Len(callers) \in Nat
            /\ stack'[Len(stack')] = DispatchFrame(Ready(r))
            /\ \A i \in 1 .. Len(callers) : stack'[i] = callers[i]
<1>1. DispatchFrame(Ready(r)) \in Frame
  <2>1. Ready(r) \in SUBSET (Nat \ {0})
    BY DEF Ready, IsGraph
  <2> QED BY <2>1 DEF DispatchFrame, Frame, ExecPc
<1> DEFINE d == DispatchFrame(Ready(r))
<1>2. d \in Frame
  BY <1>1
<1> HIDE DEF d
<1>3. CASE stack' = Append(callers, d)
  <2>1. Len(callers) \in Nat /\ Len(Append(callers, d)) = Len(callers) + 1
        /\ Append(callers, d)[Len(callers) + 1] = d /\ Append(callers, d) # <<>>
        /\ \A i \in 1 .. Len(callers) : Append(callers, d)[i] = callers[i]
    BY <1>2
  <2> QED BY <1>3, <2>1 DEF d
<1> QED BY <1>3 DEF Scheduled, d

\* An exception passes calls that wait, and no other.
LEMMA RaisedStep ==
  ASSUME PendInv, SharedObjects, [HeardNext]_vars, StepForm
  PROVE  /\ raised' /\ stack' # <<>> => stack'[Len(stack')].pc \in Calling
         /\ run'.status = "pending" => ~raised'
<1>1. /\ TypeInv /\ InStep(stack, sub) /\ (raised /\ stack # <<>> => Top.pc \in Calling)
      /\ (run.status = "pending" => ~raised)
  BY DEF PendInv, StartInv, ActInv
<1>2. /\ IsGraph(sub) /\ FramesOver(stack, Len(sub)) /\ Len(stack) \in Nat
      /\ (stack # <<>> => Top = stack[Len(stack)])
  BY <1>1, TypeOKParts, TopType DEF TypeInv, FramesOver
<1>3. run'.status = "pending" => ~raised'
  <2> SUFFICES ASSUME run'.status = "pending" PROVE ~raised'
    OBVIOUS
  <2>1. run.status \in RunStatus /\ run \in [status : RunStatus, phase : RunPhase]
    BY <1>1 DEF TypeInv, TypeOK
  <2>2. run.status = "pending"
    <3>1. CASE Reconcile \/ ReconcileRaises
      <4>1. Settle(Verdict(sub))
        BY <3>1 DEF Reconcile, ReconcileRaises
      <4>2. run'.status # "pending"
        BY <4>1 DEF Settle, Verdict
      <4> QED BY <4>2
    <3> QED BY <1>1, <3>1, RunStatusStep
  <2>3. stack = <<>> /\ sub = <<>> /\ ~raised
    BY <1>1, <2>2 DEF TypeInv, BeforePlan
  <2> QED BY <2>2, <2>3 DEF HeardNext, Next, Step, HandleTaskCreated, PlanReady, PlanRaises, RunNext, LoopEnds,
             Begin, Acquire, Work, BodyRaises, Publish, Return, Release, ReleaseRaises,
             SummaryRaises, Caught, Handled, Unwind, Reconcile, ReconcileRaises, DeleteTask,
             At, Running, vars
<1>4. raised' /\ stack' # <<>> => stack'[Len(stack')].pc \in Calling
  <2> SUFFICES ASSUME raised', stack' # <<>> PROVE stack'[Len(stack')].pc \in Calling
    OBVIOUS
  <2>1. CASE Planless /\ (stack' = <<>> \/ (run.status = "pending" /\ raised' = raised))
    BY <1>1, <2>1
  <2>2. CASE stack' = stack /\ sub' = sub /\ raised' = raised
    BY <1>1, <1>2, <2>2
  <2>3. CASE \E g : Planned(g)
    <3>1. PICK g : Planned(g)
      BY <2>3
    <3> DEFINE callers == <<>>
    <3>2. callers = <<>> /\ callers \in Seq(Frame)
      OBVIOUS
    <3>3. IsGraph(g) /\ Scheduled(callers, g)
      BY <3>1 DEF Planned
    <3> HIDE DEF callers
    <3>4. stack'[Len(stack')] = DispatchFrame(Ready(g))
      BY <3>2, <3>3, ScheduledTop
    <3> QED BY <3>4 DEF DispatchFrame, Calling
  <2>4. CASE \E s, f : Starts(s, f)
    BY <2>4 DEF Starts
  <2>5. CASE \E f : Advances(f)
    BY <2>5 DEF Advances
  <2>6. CASE Returns
    <3>1. stack # <<>> /\ stack' = Front(stack)
      BY <2>6 DEF Returns
    <3>2. /\ Len(stack') = Len(stack) - 1 /\ stack' \in Seq(Frame)
          /\ \A i \in 1 .. Len(stack') : i \in 1 .. Len(stack) /\ stack'[i] = stack[i]
      <4>1. Len(sub) \in Nat
        BY <1>2 DEF IsGraph
      <4> QED BY <1>2, <3>1, <4>1, FrontType DEF FramesOver
    <3>3. Len(stack') \in 1 .. Len(stack') /\ Len(stack') # Len(stack)
      BY <1>2, <3>2
    <3> QED BY <1>1, <3>2, <3>3 DEF InStep
  <2>7. CASE \E pc, f, g, r : Answers(pc, f, g, r)
    <3>1. PICK pc, f, g, r : Answers(pc, f, g, r)
      BY <2>7
    <3> DEFINE callers == Replaced(stack, f)
    <3>2. /\ GraphInv(r) /\ FramesOver(callers, Len(r))
          /\ Len(callers) = Len(stack) /\ Len(stack) \in Nat \ {0}
          /\ \A i \in 1 .. Len(stack) : callers[i] = IF i = Len(stack) THEN f ELSE stack[i]
      BY <3>1, AnswerStages
    <3>3. Scheduled(callers, r) /\ f.pc \in {"returned", "handled"}
      BY <3>1 DEF Answers
    <3> HIDE DEF callers
    <3>4. IsGraph(r) /\ callers \in Seq(Frame)
      BY <3>2 DEF GraphInv, FramesOver
    <3>5. callers[Len(callers)].pc \in Calling
      BY <3>2, <3>3 DEF Calling
    <3>6. stack' = callers \/ stack'[Len(stack')] = DispatchFrame(Ready(r))
      BY <3>3, <3>4, ScheduledTop
    <3> QED BY <3>5, <3>6 DEF DispatchFrame, Calling
  <2> QED BY <2>1, <2>2, <2>3, <2>4, <2>5, <2>6, <2>7 DEF StepForm
<1> QED BY <1>3, <1>4

\* Every step keeps the invariant, and has one of the forms.
LEMMA PendStep ==
  ASSUME PendInv, SharedObjects, [HeardNext]_vars
  PROVE  PendInv' /\ StepForm
<1>1. StepForm
  BY StepForms
<1>2. StartInv'
  BY HeardIsNext, StartStep DEF PendInv
<1>3. TypeInv'
  BY <1>2 DEF StartInv, ActInv
<1>4. raised' /\ stack' # <<>> => Top'.pc \in Calling
  <2>1. stack' # <<>> => Top' = stack'[Len(stack')]
    BY DEF Top, Last
  <2> QED BY <1>1, <2>1, RaisedStep
<1>5. run'.status = "pending" => ~raised'
  BY <1>1, RaisedStep
<1>6. /\ GraphInv(sub') /\ LoopsHold(stack', sub') /\ ExecsHold(stack', sub')
      /\ Alternates(stack')
  <2>0. GraphInv(sub) /\ LoopsHold(stack, sub) /\ ExecsHold(stack, sub) /\ Alternates(stack)
    BY DEF PendInv
  <2>1. CASE Planless
    BY <2>1, PlanlessHolds
  <2>2. CASE stack' = stack /\ sub' = sub
    BY <2>0, <2>2
  <2>3. CASE \E g : Planned(g)
    BY <2>3, PlannedHolds
  <2>4. CASE \E s, f : Starts(s, f)
    BY <2>0, <2>4, StartsHolds DEF Starts
  <2>5. CASE \E f : Advances(f)
    BY <2>5, AdvancesHolds
  <2>6. CASE Returns
    BY <2>0, <2>6, ReturnsHolds DEF Returns
  <2>7. CASE \E pc, f, g, r : Answers(pc, f, g, r)
    BY <2>7, AnswersHolds
  <2> QED BY <1>1, <2>1, <2>2, <2>3, <2>4, <2>5, <2>6, <2>7 DEF StepForm
<1> QED BY <1>1, <1>2, <1>4, <1>5, <1>6 DEF PendInv, GraphInv, IsGraph, Ordered, RepairsFailures,
           BegunOnEnded, Begun, NothingWaits, CancelledBelowFailure, CoversRepairable,
           RepairsCovered, ReviewersObject, Objects,
           LoopsHold, ExecsHold, Alternates, Inputs

-----------------------------------------------------------------------------
(* A failure that is to be repaired is being handled *)

\* The innermost execution has the outcome of x and has not told it.
AtMid(x) ==
  stack # <<>> /\ ~raised /\ Top.pc \in {"stored", "unwind", "caught"} /\ Top.sub = x

UntoldRepairs ==
  \A x \in 1 .. Len(sub) : sub[x].status = "failed" /\ WantsRepair(sub, x) => AtMid(x)

\* What scheduling does to the status of a subtask.
LEMMA SchedulesStatus ==
  ASSUME NEW q, IsGraph(q), NEW r, Schedules(q, r)
  PROVE  /\ Len(r) = Len(q)
         /\ \A p \in 1 .. Len(q) :
              \/ r[p].status = q[p].status
              \/ p \in Ready(q) /\ r[p].status \in {"ready", "assigned"}
         /\ \A p \in 1 .. Len(q) :
              r[p].deps = q[p].deps /\ r[p].role = q[p].role /\ r[p].attempt = q[p].attempt
              /\ r[p].repaired = q[p].repaired
BY DEF Schedules, AllButStatus

\* The subtasks of a graph with a chain.
LEMMA ChainedStatus ==
  ASSUME NEW q, IsGraph(q), NEW r, NEW x, NEW deps, Chained(q, r, x, deps)
  PROVE  /\ \A p \in 1 .. Len(r) :
              p \in 1 .. Len(q) \/ p \in {Len(q) + 1, Len(q) + 2, Len(q) + 3}
         /\ \A p \in {Len(q) + 1, Len(q) + 2, Len(q) + 3} :
              p \in 1 .. Len(r) /\ r[p].status = "queued" /\ ~r[p].repaired /\ p \notin 1 .. Len(q)
         /\ r[Len(q) + 1].deps = deps
         /\ r[Len(q) + 2].deps = {Len(q) + 1} /\ r[Len(q) + 3].deps = {Len(q) + 2}
         /\ Len(q) \in Nat /\ 1 .. Len(q) \subseteq 1 .. Len(r)
<1>1. Len(q) \in Nat /\ Len(r) = Len(q) + 3
  BY DEF IsGraph, Chained
<1>2. PICK role, attempt, sources : ChainAt(r, Len(q), role, deps, attempt, sources)
  BY DEF Chained
<1> QED BY <1>1, <1>2 DEF ChainAt, NewSubTask

\* A failure after an answer is one before it, or the one that was told.
LEMMA AnswerFailures ==
  ASSUME PendInv, NEW pc, NEW f, NEW g, NEW r, Answers(pc, f, g, r),
         NEW x \in 1 .. Len(sub'), sub'[x].status = "failed"
  PROVE  /\ x \in 1 .. Len(g) /\ g[x].status = "failed" /\ x \in 1 .. Len(sub)
         /\ x = Top.sub \/ g[x] = sub[x]
         /\ WantsRepair(sub', x) => WantsRepair(g, x) /\ x # Top.sub
         /\ g[x].repaired => sub'[x].repaired
         /\ g[x].role = sub'[x].role /\ g[x].attempt = sub'[x].attempt
<1>1. /\ GraphInv(g) /\ Len(g) = Len(sub) /\ GraphInv(r)
      /\ Top.sub \in 1 .. Len(g)
  BY AnswerStages
<1>2. IsGraph(g) /\ IsGraph(r)
  BY <1>1 DEF GraphInv
<1>3. Schedules(r, sub') /\ Runs(sub, g, Top.sub)
  BY DEF Answers, Scheduled
<1>4. /\ Len(sub') = Len(r) /\ x \in 1 .. Len(r)
      /\ r[x].status = "failed" /\ sub'[x].role = r[x].role
      /\ sub'[x].attempt = r[x].attempt /\ sub'[x].repaired = r[x].repaired
  BY <1>2, <1>3, SchedulesStatus
<1>5. CASE r = g
  <2>1. g[Top.sub].status = "failed" => ~WantsRepair(g, Top.sub) \/ \E y, deps : Chained(g, r, y, deps)
    BY DEF Answers
  <2>2. ~ \E y, deps : Chained(g, r, y, deps)
    BY <1>2, <1>5, ChainedStatus
  <2>3. WantsRepair(sub', x) => WantsRepair(g, x)
    BY <1>4, <1>5 DEF WantsRepair
  <2>4. x # Top.sub => g[x] = sub[x]
    BY <1>1, <1>3, <1>4, <1>5 DEF Runs
  <2> QED BY <1>1, <1>4, <1>5, <2>1, <2>2, <2>3, <2>4
<1>6. ASSUME NEW y, NEW deps, Chained(g, r, y, deps),
             g[Top.sub].status = "failed" => y = Top.sub
      PROVE  /\ x \in 1 .. Len(g) /\ g[x].status = "failed" /\ x \in 1 .. Len(sub)
             /\ x = Top.sub \/ g[x] = sub[x]
             /\ WantsRepair(sub', x) => WantsRepair(g, x) /\ x # Top.sub
             /\ g[x].repaired => sub'[x].repaired
             /\ g[x].role = sub'[x].role /\ g[x].attempt = sub'[x].attempt
  <2>1. x \in 1 .. Len(g)
    BY <1>2, <1>4, <1>6, ChainedStatus
  <2>2. /\ r[x].role = g[x].role /\ r[x].attempt = g[x].attempt
        /\ r[x].repaired <=> (g[x].repaired \/ x = y)
        /\ g[x].status = "failed"
    BY <1>4, <1>6, <2>1 DEF Chained
  <2>3. WantsRepair(sub', x) => WantsRepair(g, x) /\ x # y
    BY <1>4, <2>2 DEF WantsRepair
  <2>4. x # Top.sub => g[x] = sub[x]
    BY <1>1, <1>3, <2>1 DEF Runs
  <2> QED BY <1>1, <1>4, <1>6, <2>1, <2>2, <2>3, <2>4
<1>7. \/ r = g
      \/ g[Top.sub].status = "succeeded" /\ Chained(g, r, 0, {Top.sub})
      \/ Chained(g, r, Top.sub, g[Top.sub].deps)
  BY DEF Answers
<1> QED BY <1>5, <1>6, <1>7

\* No other failure is to be repaired.
LEMMA UntoldStep ==
  ASSUME PendInv, UntoldRepairs, SharedObjects, [HeardNext]_vars
  PROVE  UntoldRepairs'
<1> SUFFICES ASSUME NEW x \in 1 .. Len(sub'), sub'[x].status = "failed", WantsRepair(sub', x)
             PROVE  AtMid(x)'
  BY DEF UntoldRepairs
<1>1. StepForm /\ TypeInv
  BY StepForms DEF PendInv, StartInv, ActInv
<1>2. \A y \in 1 .. Len(sub) : sub[y].status = "failed" /\ WantsRepair(sub, y) => AtMid(y)
  BY DEF UntoldRepairs
<1>3. CASE Planless
  BY <1>3 DEF Planless
<1>4. CASE stack' = stack /\ sub' = sub /\ raised' = raised
  BY <1>2, <1>4 DEF AtMid, Top
<1>5. CASE \E g : Planned(g)
  <2>1. PICK g : Planned(g)
    BY <1>5
  <2>2. Schedules(g, sub') /\ IsGraph(g)
    BY <2>1 DEF Planned, Scheduled
  <2>3. \A p \in 1 .. Len(g) : g[p].status = "queued"
    BY <2>1 DEF Planned
  <2> QED BY <2>2, <2>3, SchedulesStatus
<1>6. CASE (\E s, f : Starts(s, f)) \/ Returns
  <2>1. /\ stack # <<>> /\ Top.pc \notin {"stored", "unwind", "caught"} /\ sub' = sub
    BY <1>6 DEF Starts, Returns
  <2> QED BY <1>2, <2>1 DEF AtMid
<1>7. CASE \E f : Advances(f)
  <2>1. PICK f : Advances(f)
    BY <1>7
  <2>2. /\ stack # <<>> /\ Top.pc \in ExecPc /\ stack' = Replaced(stack, f) /\ ~raised'
        /\ FrameOver(f, Len(sub)) /\ f.sub = Top.sub
    BY <2>1 DEF Advances
  <2>3. /\ FramesOver(stack, Len(sub)) /\ Len(sub) \in Nat /\ Len(stack) \in Nat \ {0}
    BY <1>1, <2>2, AfterPlan DEF ExecPc
  <2>4. Top' = f /\ stack' # <<>>
    <3>1. /\ Len(stack') = Len(stack) /\ stack'[Len(stack)] = f
      BY <2>2, <2>3, ReplaceTopType
    <3>2. Top' = stack'[Len(stack')]
      BY DEF Top, Last
    <3>3. stack' # <<>>
      BY <2>3, <3>1
    <3> QED BY <3>1, <3>2, <3>3
  <2>5. f.pc \in {"stored", "unwind", "caught"} /\ f.sub = x
    <3>1. CASE /\ ~raised /\ Top.pc \in {"begin", "acquire", "work"}
               /\ Runs(sub, sub', Top.sub)
               /\ sub'[Top.sub].status \in Finished <=> f.pc = "stored"
      <4>1. x \in 1 .. Len(sub) /\ (x # Top.sub => sub'[x] = sub[x])
        BY <3>1 DEF Runs
      <4>2. x = Top.sub
        <5> SUFFICES ASSUME x # Top.sub PROVE FALSE
          OBVIOUS
        <5>1. sub[x].status = "failed" /\ WantsRepair(sub, x)
          BY <4>1 DEF WantsRepair
        <5> QED BY <1>2, <3>1, <4>1, <5>1 DEF AtMid
      <4> QED BY <2>2, <3>1, <4>2 DEF Finished
    <3>2. CASE sub' = sub
      <4>1. AtMid(x)
        BY <1>2, <3>2
      <4> QED BY <2>1, <2>2, <4>1 DEF AtMid, Advances
    <3> QED BY <2>1, <3>1, <3>2 DEF Advances
  <2> QED BY <2>2, <2>4, <2>5 DEF AtMid
<1>8. CASE \E pc, f, g, r : Answers(pc, f, g, r)
  <2>1. PICK pc, f, g, r : Answers(pc, f, g, r)
    BY <1>8
  <2>2. /\ x \in 1 .. Len(sub) /\ g[x].status = "failed" /\ g[x] = sub[x]
        /\ WantsRepair(g, x) /\ x # Top.sub
    BY <2>1, AnswerFailures
  <2>3. WantsRepair(sub, x)
    BY <2>2 DEF WantsRepair
  <2> QED BY <1>2, <2>2, <2>3 DEF AtMid
<1> QED BY <1>1, <1>3, <1>4, <1>5, <1>6, <1>7, <1>8 DEF StepForm

-----------------------------------------------------------------------------
(* Work that no pending call will start *)

IsClaimed(stk, t) ==
  \E i \in 1 .. Len(stk) :
    t \in stk[i].todo \/ (stk[i].pc \in ExecPc /\ stk[i].sub = t)

\* What is open, could be started, and waits for nobody.
Missed(stk, q) ==
  {p \in 1 .. Len(q) : q[p].status \notin Finished /\ ~IsClaimed(stk, p) /\ Inputs(q, p)}

\* Failures that are not repaired and will not be.
Lost(q) ==
  {x \in 1 .. Len(q) : q[x].status = "failed" /\ ~q[x].repaired /\ ~WantsRepair(q, x)}

\* At most one, and it waits for the scheduler.
Tame(q, S) == (\A p \in S : Waiting(q, p)) /\ (\A a, b \in S : a = b)

\* While nothing is being handled, nothing is missed.
NothingMissed(stk, q, rsd) ==
  ~rsd /\ (stk = <<>> \/ stk[Len(stk)].pc \notin {"stored", "unwind", "caught", "reraise"})
    => Missed(stk, q) = {}

\* An outcome that was not told yet: its dependents are missed if it is a
\* success, nothing otherwise.
MissedAtOutcome(stk, q, rsd) ==
  LET k == stk[Len(stk)].sub
  IN  ~rsd /\ stk # <<>> /\ stk[Len(stk)].pc = "stored" =>
        IF q[k].status = "succeeded"
          THEN \A p \in Missed(stk, q) : Waiting(q, p) /\ k \in q[p].deps
          ELSE Missed(stk, q) = {}

\* On the way to the except clause: what is missed depends on the success that
\* is about to be turned into a failure, or is the chain of an earlier one.
MissedAtFailure(stk, q, rsd) ==
  LET k == stk[Len(stk)].sub
  IN  ~rsd /\ stk # <<>> /\ stk[Len(stk)].pc \in {"unwind", "caught"} =>
        /\ q[k].status = "succeeded" => Missed(stk, q) \subseteq Descendants(q, k)
        /\ q[k].status = "failed" => /\ Tame(q, Missed(stk, q))
                                     /\ WantsRepair(q, k) => Missed(stk, q) = {}
        /\ q[k].status \notin Finished => Missed(stk, q) = {}

\* The same of the calls below, that wait for their schedules.
Succeeding(stk, q, i) == stk[i].pc = "returned" /\ q[stk[i].sub].status = "succeeded"

MissedAboveSuccess(stk, q) ==
  \A i \in 1 .. Len(stk) :
    Succeeding(stk, q, i) => Missed(stk, q) \subseteq Descendants(q, stk[i].sub)

MissedAboveFailure(stk, q, rsd) ==
  rsd \/ (stk # <<>> /\ stk[Len(stk)].pc = "reraise") =>
    \A i \in 1 .. Len(stk) :
      /\ stk[i].pc = "returned" /\ q[stk[i].sub].status = "failed"
      /\ \A j \in 1 .. Len(stk) : j > i => stk[j].pc # "returned"
      => Tame(q, Missed(stk, q))

\* What a success started depends on it.
ClaimedAboveSuccess(stk, q) ==
  \A i, j \in 1 .. Len(stk) :
    Succeeding(stk, q, i) /\ i < j =>
      /\ stk[j].todo \subseteq Descendants(q, stk[i].sub)
      /\ stk[j].pc \in ExecPc => stk[j].sub \in Descendants(q, stk[i].sub)

\* What a failure started is one chain.
ClaimedAboveFailure(stk, q, rsd) ==
  \A i, j \in 1 .. Len(stk) :
    stk[i].pc \in ExecPc /\ q[stk[i].sub].status = "failed" /\ j = i + 1 =>
      /\ \A a, b \in stk[j].todo : a = b
      /\ rsd \/ j # Len(stk) => stk[j].todo = {}

\* A handled subtask has failed. Only a loop has subtasks to start.
HandledFailed(stk, q) ==
  \A i \in 1 .. Len(stk) :
    /\ stk[i].pc \in {"handled", "reraise"} => q[stk[i].sub].status = "failed"
    /\ stk[i].pc \in ExecPc => stk[i].todo = {}

OpenWork(stk, q, rsd) ==
  /\ NothingMissed(stk, q, rsd)
  /\ MissedAtOutcome(stk, q, rsd) /\ MissedAtFailure(stk, q, rsd)
  /\ MissedAboveSuccess(stk, q) /\ MissedAboveFailure(stk, q, rsd)
  /\ ClaimedAboveSuccess(stk, q) /\ ClaimedAboveFailure(stk, q, rsd)
  /\ HandledFailed(stk, q)

OpenInv == Lost(sub) # {} \/ OpenWork(stack, sub, raised)

-----------------------------------------------------------------------------
(* Descendants *)

\* What depends on a descendant is one.
LEMMA DescendantsNext ==
  ASSUME NEW q, IsGraph(q), NEW y \in 1 .. Len(q), NEW p \in 1 .. Len(q), NEW d \in q[p].deps,
         d = y \/ d \in Descendants(q, y)
  PROVE  p \in Descendants(q, y)
BY DescendantsAre DEF ClosedBelow

\* Descendants stay descendants.
LEMMA DescendantsStay ==
  ASSUME NEW q, IsGraph(q), NEW r, IsGraph(r), Lineage(q, r), NEW y \in 1 .. Len(q)
  PROVE  Descendants(q, y) \subseteq Descendants(r, y) /\ y \in 1 .. Len(r)
<1>1. Len(q) \in Nat /\ Len(r) \in Nat /\ Len(q) <= Len(r)
  BY DEF IsGraph, Lineage
<1> QED BY <1>1, DescendantsExtend

-----------------------------------------------------------------------------
(* What a step does to the missed work *)

\* The calls change, not the graph.
LEMMA MissedSame ==
  ASSUME NEW q, NEW stk, NEW stk2,
         \A t \in 1 .. Len(q) : IsClaimed(stk, t) => IsClaimed(stk2, t) \/ q[t].status \in Finished
  PROVE  Missed(stk2, q) \subseteq Missed(stk, q)
BY DEF Missed

\* An execution gets on.
LEMMA MissedRuns ==
  ASSUME NEW q, NEW r, NEW k, IsGraph(q), Runs(q, r, k), NEW stk, NEW stk2,
         \A t \in 1 .. Len(q) : IsClaimed(stk, t) <=> IsClaimed(stk2, t),
         IsClaimed(stk, k), NEW p \in Missed(stk2, r)
  PROVE  /\ p \in 1 .. Len(q) /\ p # k /\ r[p] = q[p]
         /\ \/ p \in Missed(stk, q)
            \/ k \in q[p].deps /\ r[k].status = "succeeded" /\ q[k].status # "succeeded"
<1>1. p \in 1 .. Len(r) /\ r[p].status \notin Finished /\ ~IsClaimed(stk2, p) /\ Inputs(r, p)
  BY DEF Missed
<1>2. Len(r) = Len(q) /\ k \in 1 .. Len(q) /\ \A t \in 1 .. Len(q) : t # k => r[t] = q[t]
  BY DEF Runs
<1>3. p # k /\ ~IsClaimed(stk, p) /\ r[p] = q[p] /\ q[p].deps \subseteq 1 .. Len(q)
  BY <1>1, <1>2 DEF IsGraph
<1>4. CASE k \notin q[p].deps \/ q[k].status = "succeeded"
  BY <1>1, <1>2, <1>3, <1>4 DEF Missed, Inputs
<1>5. CASE k \in q[p].deps /\ q[k].status # "succeeded"
  BY <1>1, <1>2, <1>3, <1>5 DEF Inputs
<1> QED BY <1>1, <1>2, <1>3, <1>4, <1>5

\* A chain is added.
LEMMA MissedChained ==
  ASSUME NEW q, IsGraph(q), NEW r, NEW x, NEW deps, Chained(q, r, x, deps),
         NEW stk, NEW p \in Missed(stk, r)
  PROVE  /\ p \in 1 .. Len(r)
         /\ \/ p = Len(q) + 1 /\ r[p].status = "queued"
            \/ /\ p \in Missed(stk, q) /\ r[p].status = q[p].status /\ r[p].deps = q[p].deps
               /\ x # 0 => p \notin Descendants(q, x)
<1>1. p \in 1 .. Len(r) /\ r[p].status \notin Finished /\ ~IsClaimed(stk, p) /\ Inputs(r, p)
  BY DEF Missed
<1>2. CASE p \in 1 .. Len(q)
  <2>1. r[p].deps = q[p].deps /\ q[p].deps \subseteq 1 .. Len(q)
    BY <1>2 DEF Chained, IsGraph
  <2>2. r[p].status = q[p].status /\ (x # 0 => p \notin Descendants(q, x))
    BY <1>1, <1>2 DEF Chained, Finished
  <2>3. Inputs(q, p)
    BY <1>1, <2>1 DEF Inputs, Chained
  <2> QED BY <1>1, <1>2, <2>1, <2>2, <2>3 DEF Missed
<1>3. CASE p \in {Len(q) + 1, Len(q) + 2, Len(q) + 3}
  <2>1. r[p].status = "queued" /\ r[Len(q) + 1].status = "queued"
        /\ r[Len(q) + 2].status = "queued"
        /\ r[Len(q) + 2].deps = {Len(q) + 1} /\ r[Len(q) + 3].deps = {Len(q) + 2}
    BY <1>3, ChainedStatus
  <2>2. p = Len(q) + 1
    BY <1>1, <1>3, <2>1 DEF Inputs
  <2> QED BY <1>1, <2>1, <2>2
<1>4. p \in 1 .. Len(q) \/ p \in {Len(q) + 1, Len(q) + 2, Len(q) + 3}
  BY <1>1, ChainedStatus
<1> QED BY <1>2, <1>3, <1>4

\* Scheduling claims what was missed, unless it raises.
LEMMA MissedScheduled ==
  ASSUME NEW r, GraphInv(r), NEW callers, FramesOver(callers, Len(r)),
         \A t \in 1 .. Len(r) : IsClaimed(callers, t) => ~Waiting(r, t),
         \A t \in Missed(callers, r) : Waiting(r, t),
         Scheduled(callers, r)
  PROVE  /\ Ready(r) = Missed(callers, r)
         /\ \/ /\ Missed(stack', sub') = {} /\ raised' = raised
               /\ stack' = callers \/ stack' = Append(callers, DispatchFrame(Ready(r)))
            \/ /\ raised' /\ stack' = callers
               /\ Missed(stack', sub') \subseteq Missed(callers, r)
               /\ \E s \in Missed(callers, r) : sub'[s].status = "ready"
<1>0. Schedules(r, sub') /\ Len(r) \in Nat /\ IsGraph(r)
  BY DEF Scheduled, GraphInv, IsGraph
<1>1. Ready(r) = Missed(callers, r)
  <2>1. Ready(r) \subseteq Missed(callers, r)
    BY DEF Ready, Missed, Waiting, Inputs, Finished
  <2>2. Missed(callers, r) \subseteq Ready(r)
    BY DEF Ready, Missed, Waiting, Inputs
  <2> QED BY <2>1, <2>2
<1>2. ASSUME NEW stk, NEW p \in Missed(stk, sub'),
             \A t \in 1 .. Len(r) : IsClaimed(callers, t) => IsClaimed(stk, t)
      PROVE  p \in Missed(callers, r)
  <2>1. /\ p \in 1 .. Len(r) /\ sub'[p].status \notin Finished /\ ~IsClaimed(callers, p)
        /\ Inputs(sub', p) /\ sub'[p].deps = r[p].deps /\ r[p].deps \subseteq 1 .. Len(r)
    BY <1>0, <1>2, SchedulesStatus DEF Missed, IsGraph
  <2>2. \A d \in 1 .. Len(r) : sub'[d].status = "succeeded" => r[d].status = "succeeded"
    BY <1>0, SchedulesStatus
  <2>3. Inputs(r, p)
    BY <2>1, <2>2 DEF Inputs
  <2>4. r[p].status \notin Finished
    <3>1. p \in Ready(r) => r[p].status \notin Finished
      BY DEF Ready, Finished
    <3> QED BY <1>0, <2>1, <3>1, SchedulesStatus
  <2> QED BY <2>1, <2>3, <2>4 DEF Missed
<1>3. CASE stack' = callers /\ raised' = raised /\ Ready(r) = {}
  <2>1. Missed(stack', sub') = {}
    BY <1>1, <1>2, <1>3
  <2> QED BY <1>1, <1>3, <2>1
<1>4. CASE stack' = Append(callers, DispatchFrame(Ready(r))) /\ raised' = raised
  <2>1. DispatchFrame(Ready(r)).todo = Ready(r) /\ FrameOver(DispatchFrame(Ready(r)), Len(r))
    <3>1. Ready(r) \subseteq 1 .. Len(r) /\ Ready(r) \in SUBSET (Nat \ {0})
      BY <1>0 DEF Ready
    <3> QED BY <3>1 DEF DispatchFrame, Frame, FrameOver, ExecPc
  <2> DEFINE d == DispatchFrame(Ready(r))
  <2>2. FrameOver(d, Len(r)) /\ d.todo = Ready(r) /\ stack' = Append(callers, d)
    BY <1>4, <2>1
  <2> HIDE DEF d
  <2>3. /\ Len(stack') = Len(callers) + 1 /\ stack'[Len(callers) + 1] = d /\ Len(callers) \in Nat
        /\ \A i \in 1 .. Len(callers) : stack'[i] = callers[i]
    BY <1>0, <2>2, AppendFrameType DEF FramesOver
  <2>4. \A i \in 1 .. Len(callers) : i \in 1 .. Len(stack')
    BY <2>3
  <2>5. \A t \in 1 .. Len(r) : IsClaimed(callers, t) => IsClaimed(stack', t)
    BY <2>3, <2>4 DEF IsClaimed
  <2>6. \A t \in Ready(r) : IsClaimed(stack', t)
    <3>1. Len(callers) + 1 \in 1 .. Len(stack')
      BY <2>3
    <3> QED BY <2>2, <2>3, <3>1 DEF IsClaimed
  <2>7. \A p \in Missed(stack', sub') : p \in Missed(callers, r) /\ ~IsClaimed(stack', p)
    BY <1>2, <2>5 DEF Missed
  <2>8. Missed(stack', sub') = {}
    BY <1>1, <2>6, <2>7
  <2> QED BY <1>1, <1>4, <2>8
<1>5. CASE /\ stack' = callers /\ raised' = TRUE
           /\ \E s \in Ready(r) : sub'[s].status = "ready"
  <2>1. Missed(stack', sub') \subseteq Missed(callers, r)
    BY <1>2, <1>5
  <2> QED BY <1>1, <1>5, <2>1
<1> QED BY <1>3, <1>4, <1>5 DEF Scheduled

\* A lost failure stays lost.
LEMMA LostStays ==
  ASSUME PendInv, SharedObjects, UntoldRepairs, StepForm, Lost(sub) # {}
  PROVE  Lost(sub') # {}
<1>1. PICK x \in 1 .. Len(sub) : sub[x].status = "failed" /\ ~sub[x].repaired /\ ~WantsRepair(sub, x)
  BY DEF Lost
<1>2. sub # <<>>
  BY <1>1
<1>3. CASE sub' = sub
  BY <1>3
<1>4. CASE \E f : Advances(f)
  <2>1. PICK f : Advances(f)
    BY <1>4
  <2>2. CASE Runs(sub, sub', Top.sub) /\ sub[Top.sub].status \notin Finished
    <3>1. x # Top.sub /\ sub'[x] = sub[x] /\ x \in 1 .. Len(sub')
      BY <1>1, <2>2 DEF Finished, Runs
    <3>2. ~WantsRepair(sub', x)
      BY <1>1, <3>1 DEF WantsRepair
    <3> QED BY <1>1, <3>1, <3>2 DEF Lost
  <2> QED BY <1>3, <2>1, <2>2 DEF Advances
<1>5. CASE \E pc, f, g, r : Answers(pc, f, g, r)
  <2>1. PICK pc, f, g, r : Answers(pc, f, g, r)
    BY <1>5
  <2>2. /\ GraphInv(g) /\ Len(g) = Len(sub) /\ GraphInv(r)
        /\ Top.sub \in 1 .. Len(g)
    BY <2>1, AnswerStages
  <2>3. IsGraph(g) /\ IsGraph(r)
    BY <2>2 DEF GraphInv
  <2>4. Schedules(r, sub') /\ Runs(sub, g, Top.sub)
    BY <2>1 DEF Answers, Scheduled
  <2>5. /\ g[x].status = "failed" /\ ~g[x].repaired /\ ~WantsRepair(g, x)
    <3>1. /\ g[x].role = sub[x].role /\ g[x].attempt = sub[x].attempt
          /\ g[x].repaired = sub[x].repaired /\ g[x].status = "failed"
      <4>1. CASE x = Top.sub
        BY <1>1, <2>4, <4>1 DEF Runs, Executed
      <4>2. CASE x # Top.sub
        <5>1. g[x] = sub[x]
          BY <2>4, <4>2 DEF Runs
        <5> QED BY <1>1, <5>1
      <4> QED BY <4>1, <4>2
    <3> QED BY <1>1, <3>1 DEF WantsRepair
  <2>6. /\ x \in 1 .. Len(r) /\ r[x].status = "failed" /\ ~r[x].repaired /\ ~WantsRepair(r, x)
    <3>1. CASE r = g
      BY <2>2, <2>5, <3>1
    <3>2. ASSUME NEW y, NEW deps, Chained(g, r, y, deps), y = 0 \/ WantsRepair(g, y)
          PROVE  /\ x \in 1 .. Len(r) /\ r[x].status = "failed" /\ ~r[x].repaired
                 /\ ~WantsRepair(r, x)
      <4>1. x # y /\ x \in 1 .. Len(g) /\ x \in 1 .. Len(r)
        BY <2>2, <2>3, <2>5, <3>2, ChainedStatus
      <4>2. /\ r[x].role = g[x].role /\ r[x].attempt = g[x].attempt
            /\ ~r[x].repaired /\ r[x].status = "failed"
        BY <2>5, <3>2, <4>1 DEF Chained, Finished
      <4> QED BY <2>5, <4>1, <4>2 DEF WantsRepair
    <3> QED BY <2>1, <3>1, <3>2 DEF Answers
  <2>7. /\ x \in 1 .. Len(sub') /\ sub'[x].role = r[x].role /\ sub'[x].attempt = r[x].attempt
        /\ sub'[x].repaired = r[x].repaired /\ sub'[x].status = r[x].status
    <3>1. x \notin Ready(r)
      BY <2>6 DEF Ready
    <3> QED BY <2>3, <2>4, <2>6, <3>1, SchedulesStatus
  <2>8. ~WantsRepair(sub', x)
    BY <2>6, <2>7 DEF WantsRepair
  <2> QED BY <2>6, <2>7, <2>8 DEF Lost
<1>6. CASE Planless \/ \E g : Planned(g)
  BY <1>2, <1>6 DEF Planless, Planned
<1>7. ((\E s, f : Starts(s, f)) \/ Returns) => sub' = sub
  BY DEF Starts, Returns
<1> QED BY <1>3, <1>4, <1>5, <1>6, <1>7 DEF StepForm

\* The plan: nothing is missed.
LEMMA OpenPlanless ==
  ASSUME Planless, GraphInv(sub')
  PROVE  OpenWork(stack', sub', raised')
<1>1. 1 .. Len(sub') = {}
  BY DEF Planless
<1>2. Missed(stack', sub') = {}
  BY <1>1 DEF Missed
<1>3. \A i \in 1 .. Len(stack') : stack'[i].pc = "planning"
  BY DEF Planless, PlanningFrame
<1>4. stack' # <<>> => Len(stack') \in 1 .. Len(stack')
  BY DEF Planless
<1> QED BY <1>2, <1>3, <1>4 DEF OpenWork, NothingMissed, MissedAtOutcome, MissedAtFailure,
           MissedAboveSuccess, MissedAboveFailure, ClaimedAboveSuccess, ClaimedAboveFailure,
           HandledFailed, Succeeding, ExecPc

\* The plan is stored: what it can start is claimed.
LEMMA OpenPlanned ==
  ASSUME NEW g, Planned(g)
  PROVE  OpenWork(stack', sub', raised')
<1> DEFINE callers == <<>>
<1>1. FramesOver(callers, Len(g)) /\ Len(callers) = 0 /\ callers = <<>> /\ callers \in Seq(Frame)
  BY DEF FramesOver
<1>2. GraphInv(g) /\ Scheduled(callers, g) /\ IsGraph(g)
      /\ \A p \in 1 .. Len(g) : g[p].status = "queued"
  BY PlannedGraph DEF Planned
<1> HIDE DEF callers
<1>3. \A t \in 1 .. Len(g) : IsClaimed(callers, t) => ~Waiting(g, t)
  BY <1>1 DEF IsClaimed
<1>4. \A t \in Missed(callers, g) : Waiting(g, t)
  BY <1>2 DEF Missed, Waiting
<1>5. \/ /\ Missed(stack', sub') = {} /\ raised' = raised
         /\ stack' = callers \/ stack' = Append(callers, DispatchFrame(Ready(g)))
      \/ raised' /\ stack' = callers
  BY <1>1, <1>2, <1>3, <1>4, MissedScheduled
<1>6. /\ \A i \in 1 .. Len(stack') : stack'[i].pc = "dispatch"
      /\ stack' # <<>> => Len(stack') \in 1 .. Len(stack') /\ Missed(stack', sub') = {}
      /\ ~raised' => Missed(stack', sub') = {} \/ stack' = <<>>
  <2>1. CASE stack' = callers
    BY <1>1, <1>5, <2>1
  <2>2. CASE /\ stack' = Append(callers, DispatchFrame(Ready(g))) /\ Missed(stack', sub') = {}
    <3>1. \/ stack' = callers
          \/ /\ stack' # <<>> /\ Len(stack') = Len(callers) + 1
             /\ stack'[Len(stack')] = DispatchFrame(Ready(g))
      BY <1>1, <1>2, ScheduledTop
    <3>2. CASE stack' # <<>> /\ Len(stack') = 1 /\ stack'[1] = DispatchFrame(Ready(g))
      <4>1. stack'[1].pc = "dispatch" /\ 1 .. Len(stack') = {1}
        BY <3>2 DEF DispatchFrame
      <4> QED BY <2>2, <3>2, <4>1
    <3> QED BY <1>1, <2>1, <3>1, <3>2
  <2> QED BY <1>5, <2>1, <2>2
<1>7. ~raised' => Missed(stack', sub') = {}
  BY <1>5
<1> QED BY <1>6, <1>7 DEF OpenWork, NothingMissed, MissedAtOutcome, MissedAtFailure,
           MissedAboveSuccess, MissedAboveFailure, ClaimedAboveSuccess, ClaimedAboveFailure,
           HandledFailed, Succeeding, ExecPc

\* When nothing is missed, nothing is missed anywhere.
LEMMA NoneMissed ==
  ASSUME NEW stk, NEW q, NEW rsd, Missed(stk, q) = {}
  PROVE  /\ NothingMissed(stk, q, rsd) /\ MissedAtOutcome(stk, q, rsd)
         /\ MissedAtFailure(stk, q, rsd)
         /\ MissedAboveSuccess(stk, q) /\ MissedAboveFailure(stk, q, rsd)
BY DEF NothingMissed, MissedAtOutcome, MissedAtFailure, MissedAboveSuccess, MissedAboveFailure,
       Tame

\* A loop starts an execution.
LEMMA OpenStarts ==
  ASSUME PendInv, OpenWork(stack, sub, raised), NEW s, NEW f, Starts(s, f)
  PROVE  OpenWork(stack', sub', raised')
<1> DEFINE n == Len(stack)
           e == ExecFrame(s)
           callers == Replaced(stack, f)
<1>1. /\ stack # <<>> /\ Top.pc = "dispatch" /\ ~raised /\ ~raised' /\ sub' = sub
      /\ FrameOver(f, Len(sub)) /\ f.pc = "dispatch" /\ f.todo = Top.todo \ {s}
      /\ s \in Top.todo /\ stack' = Append(callers, e)
      /\ TypeInv
  BY DEF Starts, PendInv, StartInv, ActInv
<1>2. /\ FramesOver(stack, Len(sub)) /\ Len(sub) \in Nat /\ n \in Nat \ {0}
      /\ Top = stack[n] /\ s \in 1 .. Len(sub)
  BY <1>1, AfterPlan DEF FrameOver
<1>3. /\ FramesOver(callers, Len(sub)) /\ Len(callers) = n
      /\ \A i \in 1 .. n : callers[i] = IF i = n THEN f ELSE stack[i]
  BY <1>1, <1>2, ReplaceTopType
<1>4. FrameOver(e, Len(sub)) /\ e.pc = "begin" /\ e.todo = {} /\ e.sub = s
  BY <1>2 DEF ExecFrame, FrameOver, Frame, ExecPc
<1> HIDE DEF callers, e
<1>5. /\ Len(stack') = n + 1 /\ stack'[n + 1] = e
      /\ \A i \in 1 .. n : stack'[i] = IF i = n THEN f ELSE stack[i]
  BY <1>1, <1>2, <1>3, <1>4, AppendFrameType
<1>6. n \in 1 .. n /\ n + 1 \in 1 .. Len(stack') /\ 1 .. n \subseteq 1 .. Len(stack')
      /\ (\A i \in 1 .. Len(stack') : i \in 1 .. n \/ i = n + 1)
  BY <1>2, <1>5
<1>7. "dispatch" \notin ExecPc /\ "begin" \in ExecPc
  BY DEF ExecPc
<1>8. Missed(stack', sub') = {}
  <2>1. \A t : IsClaimed(stack, t) => IsClaimed(stack', t)
    <3> SUFFICES ASSUME NEW t, NEW i \in 1 .. n,
                        t \in stack[i].todo \/ (stack[i].pc \in ExecPc /\ stack[i].sub = t)
                 PROVE  IsClaimed(stack', t)
      BY DEF IsClaimed
    <3>1. CASE i # n
      <4>1. stack'[i] = stack[i]
        BY <1>5, <3>1
      <4> QED BY <1>6, <4>1 DEF IsClaimed
    <3>2. CASE i = n /\ t = s
      BY <1>4, <1>5, <1>6, <1>7, <3>2 DEF IsClaimed
    <3>3. CASE i = n /\ t # s
      <4>1. t \in stack'[n].todo
        BY <1>1, <1>2, <1>5, <1>6, <1>7, <3>3
      <4> QED BY <1>6, <4>1 DEF IsClaimed
    <3> QED BY <3>1, <3>2, <3>3
  <2>2. Missed(stack, sub) = {}
    BY <1>1, <1>2 DEF OpenWork, NothingMissed
  <2> QED BY <1>1, <2>1, <2>2, MissedSame
<1>9. ASSUME NEW i \in 1 .. Len(stack'), stack'[i].pc \in ExecPc, i # n + 1
      PROVE  i \in 1 .. n /\ i # n /\ stack'[i] = stack[i] /\ i < n
  <2>1. i \in 1 .. n
    BY <1>6, <1>9
  <2>2. i # n
    BY <1>1, <1>5, <1>6, <1>7, <1>9
  <2> QED BY <1>2, <1>5, <2>1, <2>2
<1>10. ClaimedAboveSuccess(stack', sub')
  <2> SUFFICES ASSUME NEW i \in 1 .. Len(stack'), NEW j \in 1 .. Len(stack'),
                      Succeeding(stack', sub, i), i < j
               PROVE  /\ stack'[j].todo \subseteq Descendants(sub, stack'[i].sub)
                      /\ stack'[j].pc \in ExecPc =>
                           stack'[j].sub \in Descendants(sub, stack'[i].sub)
    BY <1>1 DEF ClaimedAboveSuccess
  <2>1. i # n + 1 /\ stack'[i].pc \in ExecPc
    BY <1>4, <1>5 DEF Succeeding, ExecPc
  <2>2. i \in 1 .. n /\ stack'[i] = stack[i] /\ i < n
    BY <1>9, <2>1
  <2>3. Succeeding(stack, sub, i)
    BY <2>2 DEF Succeeding
  <2>4. ASSUME NEW l \in 1 .. n, i < l
        PROVE  /\ stack[l].todo \subseteq Descendants(sub, stack[i].sub)
               /\ stack[l].pc \in ExecPc => stack[l].sub \in Descendants(sub, stack[i].sub)
    BY <2>2, <2>3, <2>4 DEF OpenWork, ClaimedAboveSuccess
  <2>5. CASE j = n + 1
    BY <1>1, <1>2, <1>4, <1>5, <1>6, <2>2, <2>4, <2>5
  <2>6. CASE j = n
    BY <1>1, <1>2, <1>5, <1>6, <1>7, <2>2, <2>4, <2>6
  <2>7. CASE j \in 1 .. n /\ j # n
    BY <1>5, <2>2, <2>4, <2>7
  <2> QED BY <1>6, <2>5, <2>6, <2>7
<1>11. ClaimedAboveFailure(stack', sub', raised')
  <2> SUFFICES ASSUME NEW i \in 1 .. Len(stack'), NEW j \in 1 .. Len(stack'),
                      stack'[i].pc \in ExecPc, sub[stack'[i].sub].status = "failed", j = i + 1
               PROVE  stack'[j].todo = {}
    BY <1>1 DEF ClaimedAboveFailure
  <2>1. i # n + 1
    BY <1>2, <1>5
  <2>2. i \in 1 .. n /\ stack'[i] = stack[i] /\ i < n /\ j \in 1 .. n
    BY <1>2, <1>9, <2>1
  <2>3. /\ \A a, b \in stack[j].todo : a = b
        /\ j # n => stack[j].todo = {}
    BY <2>2 DEF OpenWork, ClaimedAboveFailure
  <2>4. CASE j = n
    BY <1>1, <1>2, <1>5, <1>6, <2>3, <2>4
  <2>5. CASE j # n
    BY <1>5, <2>2, <2>3, <2>5
  <2> QED BY <2>4, <2>5
<1>12. HandledFailed(stack', sub')
  <2> SUFFICES ASSUME NEW i \in 1 .. Len(stack')
               PROVE  /\ stack'[i].pc \in {"handled", "reraise"} => sub[stack'[i].sub].status = "failed"
                      /\ stack'[i].pc \in ExecPc => stack'[i].todo = {}
    BY <1>1 DEF HandledFailed
  <2>1. CASE i = n + 1
    BY <1>4, <1>5, <2>1
  <2>2. CASE i = n
    BY <1>1, <1>5, <1>6, <1>7, <2>2
  <2>3. CASE i \in 1 .. n /\ i # n
    <3>1. stack'[i] = stack[i]
      BY <1>5, <2>3
    <3> QED BY <2>3, <3>1 DEF OpenWork, HandledFailed
  <2> QED BY <1>6, <2>1, <2>2, <2>3
<1> QED BY <1>8, <1>10, <1>11, <1>12, NoneMissed DEF OpenWork

\* The innermost call returns, or leaves with an exception.
LEMMA OpenReturns ==
  ASSUME PendInv, OpenWork(stack, sub, raised), Returns
  PROVE  OpenWork(stack', sub', raised')
<1> DEFINE n == Len(stack)
           S == Missed(stack, sub)
           T == Missed(stack', sub)
<1>1. /\ stack # <<>> /\ Top.pc # "planning" /\ sub' = sub /\ stack' = Front(stack)
      /\ TypeInv /\ Alternates(stack) /\ InStep(stack, sub)
  BY DEF Returns, PendInv, StartInv, ActInv
<1>2. /\ FramesOver(stack, Len(sub)) /\ Len(sub) \in Nat /\ n \in Nat \ {0} /\ Top = stack[n]
  BY <1>1, AfterPlan
<1>3. /\ Len(stack') = n - 1 /\ stack' \in Seq(Frame)
      /\ \A i \in 1 .. Len(stack') : i \in 1 .. n /\ i < n /\ stack'[i] = stack[i]
      /\ \A i \in 1 .. n : i \in 1 .. Len(stack') \/ i = n
      /\ n \in 1 .. n
  <2>1. /\ FramesOver(Front(stack), Len(sub)) /\ Len(Front(stack)) = n - 1
        /\ \A i \in 1 .. Len(Front(stack)) : i \in 1 .. n /\ Front(stack)[i] = stack[i]
    BY <1>1, <1>2, FrontType
  <2> QED BY <1>1, <1>2, <2>1 DEF FramesOver
<1>4. ClaimedAboveSuccess(stack', sub')
  <2> SUFFICES ASSUME NEW i \in 1 .. Len(stack'), NEW j \in 1 .. Len(stack'),
                      Succeeding(stack', sub, i), i < j
               PROVE  /\ stack'[j].todo \subseteq Descendants(sub, stack'[i].sub)
                      /\ stack'[j].pc \in ExecPc =>
                           stack'[j].sub \in Descendants(sub, stack'[i].sub)
    BY <1>1 DEF ClaimedAboveSuccess
  <2>1. stack'[i] = stack[i] /\ stack'[j] = stack[j] /\ i \in 1 .. n /\ j \in 1 .. n
    BY <1>3
  <2> QED BY <2>1 DEF OpenWork, ClaimedAboveSuccess, Succeeding
<1>5. ClaimedAboveFailure(stack', sub', raised')
  <2> SUFFICES ASSUME NEW i \in 1 .. Len(stack'), NEW j \in 1 .. Len(stack'),
                      stack'[i].pc \in ExecPc, sub[stack'[i].sub].status = "failed", j = i + 1
               PROVE  stack'[j].todo = {}
    BY <1>1 DEF ClaimedAboveFailure
  <2>1. stack'[i] = stack[i] /\ stack'[j] = stack[j] /\ i \in 1 .. n /\ j \in 1 .. n /\ j # n
    BY <1>2, <1>3
  <2> QED BY <2>1 DEF OpenWork, ClaimedAboveFailure
<1>6. HandledFailed(stack', sub')
  BY <1>1, <1>3 DEF OpenWork, HandledFailed
<1>7. \A p \in T : p \in S \/ p \in stack[n].todo
  <2> SUFFICES ASSUME NEW p \in T, p \notin stack[n].todo PROVE p \in S
    OBVIOUS
  <2>1. p \in 1 .. Len(sub) /\ sub[p].status \notin Finished /\ ~IsClaimed(stack', p) /\ Inputs(sub, p)
    BY DEF Missed
  <2>2. ~IsClaimed(stack, p)
    <3> SUFFICES ASSUME NEW i \in 1 .. n,
                        p \in stack[i].todo \/ (stack[i].pc \in ExecPc /\ stack[i].sub = p)
                 PROVE  FALSE
      BY DEF IsClaimed
    <3>1. CASE i # n
      <4>1. i \in 1 .. Len(stack') /\ stack'[i] = stack[i]
        BY <1>3, <3>1
      <4> QED BY <2>1, <4>1 DEF IsClaimed
    <3>2. CASE i = n
      <4>1. stack[n].pc \in ExecPc /\ stack[n].sub = p
        BY <3>2
      <4>2. stack[n].pc \in {"reconcile", "reraise"}
        BY <1>2, <4>1 DEF Returns, ExecPc
      <4>3. sub[p].status \in {"succeeded", "failed"}
        BY <1>1, <1>3, <4>1, <4>2 DEF InStep, StatusAt
      <4> QED BY <2>1, <4>3 DEF Finished
    <3> QED BY <3>1, <3>2
  <2> QED BY <2>1, <2>2 DEF Missed
<1>8. CASE stack[n].pc \in {"dispatch", "reconcile"} /\ ~raised
  <2>1. S = {}
    BY <1>1, <1>8 DEF OpenWork, NothingMissed
  <2>2. stack[n].todo = {}
    BY <1>2, <1>3, <1>8 DEF Returns, OpenWork, HandledFailed, ExecPc
  <2>3. Missed(stack', sub') = {}
    BY <1>1, <1>7, <2>1, <2>2
  <2> QED BY <1>4, <1>5, <1>6, <2>3, NoneMissed DEF OpenWork
<1>9. ASSUME raised', T \subseteq S \cup stack[n].todo, raised \/ stack[n].pc = "reraise",
             \A i \in 1 .. n : /\ stack[i].pc = "returned" /\ sub[stack[i].sub].status = "failed"
                               /\ \A j \in 1 .. n : j > i => stack[j].pc # "returned"
                               => stack[n].todo = {},
             stack[n].pc # "returned"
      PROVE  OpenWork(stack', sub', raised')
  <2>1. NothingMissed(stack', sub', raised') /\ MissedAtOutcome(stack', sub', raised')
        /\ MissedAtFailure(stack', sub', raised')
    BY <1>9 DEF NothingMissed, MissedAtOutcome, MissedAtFailure
  <2>2. MissedAboveSuccess(stack', sub')
    <3> SUFFICES ASSUME NEW i \in 1 .. Len(stack'), Succeeding(stack', sub, i)
                 PROVE  T \subseteq Descendants(sub, stack'[i].sub)
      BY <1>1 DEF MissedAboveSuccess
    <3>1. i \in 1 .. n /\ i < n /\ stack'[i] = stack[i] /\ Succeeding(stack, sub, i)
      BY <1>3 DEF Succeeding
    <3>2. S \subseteq Descendants(sub, stack[i].sub)
      BY <3>1 DEF OpenWork, MissedAboveSuccess
    <3>3. stack[n].todo \subseteq Descendants(sub, stack[i].sub)
      BY <1>3, <3>1 DEF OpenWork, ClaimedAboveSuccess
    <3> QED BY <1>9, <3>1, <3>2, <3>3
  <2>3. MissedAboveFailure(stack', sub', raised')
    <3> SUFFICES ASSUME NEW i \in 1 .. Len(stack'),
                        stack'[i].pc = "returned", sub[stack'[i].sub].status = "failed",
                        \A j \in 1 .. Len(stack') : j > i => stack'[j].pc # "returned"
                 PROVE  Tame(sub, T)
      BY <1>1 DEF MissedAboveFailure
    <3>1. i \in 1 .. n /\ stack[i].pc = "returned" /\ sub[stack[i].sub].status = "failed"
      BY <1>3
    <3>2. \A j \in 1 .. n : j > i => stack[j].pc # "returned"
      BY <1>3, <1>9
    <3>3. stack[n].todo = {}
      BY <1>9, <3>1, <3>2
    <3>4. Tame(sub, S)
      BY <1>1, <1>9, <3>1, <3>2 DEF OpenWork, MissedAboveFailure
    <3>5. T \subseteq S
      BY <1>9, <3>3
    <3> HIDE DEF S, T
    <3> QED BY <3>4, <3>5 DEF Tame
  <2> QED BY <1>4, <1>5, <1>6, <2>1, <2>2, <2>3 DEF OpenWork
<1>10. CASE stack[n].pc = "dispatch" /\ raised
  <2>1. raised'
    BY <1>2, <1>10 DEF Returns
  <2>2. ASSUME NEW i \in 1 .. n, stack[i].pc = "returned", sub[stack[i].sub].status = "failed",
               \A j \in 1 .. n : j > i => stack[j].pc # "returned"
        PROVE  stack[n].todo = {}
    <3>1. i # n
      BY <1>10, <2>2
    <3>2. n - 1 \in 1 .. n /\ n = (n - 1) + 1 /\ n - 1 # n
      BY <1>2, <3>1
    <3>3. stack[n - 1].pc \in ExecPc
      BY <1>1, <1>3, <1>10, <3>2 DEF Alternates, ExecPc
    <3>4. stack[n - 1].pc \in {"returned", "handled"}
      BY <1>1, <3>2, <3>3 DEF InStep, Calling, ExecPc
    <3>5. sub[stack[n - 1].sub].status = "failed"
      <4>1. CASE stack[n - 1].pc = "handled"
        BY <3>2, <4>1 DEF OpenWork, HandledFailed
      <4>2. CASE stack[n - 1].pc = "returned"
        <5>1. ~(n - 1 > i)
          BY <2>2, <3>2, <4>2
        <5>2. i \in Nat /\ i <= n /\ n \in Nat
          BY <1>2
        <5>3. i = n - 1
          BY <3>1, <5>1, <5>2
        <5> QED BY <2>2, <5>3
      <4> QED BY <3>4, <4>1, <4>2
    <3> QED BY <1>3, <1>10, <3>2, <3>3, <3>5 DEF OpenWork, ClaimedAboveFailure
  <2>3. T \subseteq S \cup stack[n].todo /\ stack[n].pc # "returned"
    BY <1>7, <1>10
  <2> HIDE DEF S, T
  <2> QED BY <1>9, <1>10, <2>1, <2>2, <2>3
<1>11. CASE stack[n].pc = "reraise" /\ ~raised
  <2>1. raised'
    BY <1>2, <1>11 DEF Returns
  <2>2. stack[n].todo = {}
    BY <1>3, <1>11 DEF OpenWork, HandledFailed, ExecPc
  <2>3. T \subseteq S \cup stack[n].todo /\ stack[n].pc # "returned"
    BY <1>7, <1>11
  <2> HIDE DEF S, T
  <2> QED BY <1>9, <1>11, <2>1, <2>2, <2>3
<1> QED BY <1>2, <1>8, <1>10, <1>11 DEF Returns

\* The calls after the innermost execution advanced.
LEMMA AdvancedStack ==
  ASSUME PendInv, NEW f, Advances(f)
  PROVE  LET n == Len(stack)
         IN  /\ n \in Nat \ {0} /\ n \in 1 .. n /\ Top = stack[n] /\ Len(stack') = n
             /\ stack # <<>> /\ stack' # <<>>
             /\ stack'[n] = f /\ f.sub = Top.sub /\ f.todo = Top.todo
             /\ f.pc \in ExecPc /\ Top.pc \in ExecPc
             /\ \A i \in 1 .. n : i # n => stack'[i] = stack[i] /\ i < n
             /\ \A i \in 1 .. n : /\ stack'[i].sub = stack[i].sub
                                  /\ stack'[i].todo = stack[i].todo
                                  /\ stack'[i].pc \in ExecPc <=> stack[i].pc \in ExecPc
             /\ Len(sub) \in Nat /\ IsGraph(sub) /\ Top.sub \in 1 .. Len(sub)
             /\ IsClaimed(stack, Top.sub)
             /\ \A t : IsClaimed(stack, t) <=> IsClaimed(stack', t)
<1> DEFINE n == Len(stack)
<1>1. /\ stack # <<>> /\ Top.pc \in ExecPc /\ FrameOver(f, Len(sub)) /\ f.pc \in ExecPc
      /\ f.sub = Top.sub /\ f.todo = Top.todo /\ stack' = Replaced(stack, f) /\ TypeInv
      /\ Top.pc # "planning"
  BY DEF Advances, PendInv, StartInv, ActInv, ExecPc
<1>2. /\ FramesOver(stack, Len(sub)) /\ Len(sub) \in Nat /\ n \in Nat \ {0}
      /\ Top = stack[n] /\ IsGraph(sub) /\ Top.sub \in 1 .. Len(sub)
  BY <1>1, AfterPlan
<1>3. /\ Len(stack') = n
      /\ \A i \in 1 .. n : stack'[i] = IF i = n THEN f ELSE stack[i]
  BY <1>1, <1>2, ReplaceTopType
<1>4. n \in 1 .. n /\ stack' # <<>> /\ (\A i \in 1 .. n : i # n => i < n)
  BY <1>2, <1>3
<1>5. \A i \in 1 .. n : /\ stack'[i].sub = stack[i].sub
                        /\ stack'[i].todo = stack[i].todo
                        /\ stack'[i].pc \in ExecPc <=> stack[i].pc \in ExecPc
  BY <1>1, <1>2, <1>3
<1>6. \A t : IsClaimed(stack, t) <=> IsClaimed(stack', t)
  BY <1>3, <1>5 DEF IsClaimed
<1>7. IsClaimed(stack, Top.sub)
  BY <1>1, <1>2, <1>4 DEF IsClaimed
<1> QED BY <1>1, <1>2, <1>3, <1>4, <1>5, <1>6, <1>7

\* The execution advances, the graph stays.
LEMMA OpenMoves ==
  ASSUME PendInv, UntoldRepairs, OpenWork(stack, sub, raised), NEW f, Advances(f), sub' = sub,
         f.pc \in {"unwind", "caught", "reconcile", "reraise"}
  PROVE  OpenWork(stack', sub', raised')
<1> DEFINE n == Len(stack)
           k == Top.sub
           S == Missed(stack, sub)
           T == Missed(stack', sub)
<1>1. /\ n \in Nat \ {0} /\ n \in 1 .. n /\ Top = stack[n] /\ Len(stack') = n
      /\ stack # <<>> /\ stack' # <<>>
      /\ stack'[n] = f /\ f.sub = k /\ f.todo = Top.todo
      /\ f.pc \in ExecPc /\ Top.pc \in ExecPc
      /\ \A i \in 1 .. n : i # n => stack'[i] = stack[i] /\ i < n
      /\ \A i \in 1 .. n : /\ stack'[i].sub = stack[i].sub
                           /\ stack'[i].todo = stack[i].todo
                           /\ stack'[i].pc \in ExecPc <=> stack[i].pc \in ExecPc
      /\ IsGraph(sub) /\ k \in 1 .. Len(sub)
      /\ \A t : IsClaimed(stack, t) <=> IsClaimed(stack', t)
  BY AdvancedStack
<1>2. T = S
  BY <1>1 DEF Missed
<1>3. /\ ~raised' /\ raised \in BOOLEAN
      /\ \/ ~raised /\ Top.pc \in {"begin", "acquire", "work", "stored"}
            /\ f.pc \in {"unwind", "caught"}
         \/ Top.pc = "returned" /\ f.pc \in {"unwind", "caught"}
         \/ ~raised /\ Top.pc = "unwind" /\ f.pc = "caught"
         \/ ~raised /\ Top.pc \in {"returned", "handled"} /\ f.pc = "reconcile"
         \/ Top.pc = "handled" /\ f.pc = "reraise"
  BY DEF Advances, PendInv, StartInv, ActInv, TypeInv, TypeOK
<1>4. InStep(stack, sub) /\ GraphInv(sub)
  BY DEF PendInv, StartInv, ActInv
<1> HIDE DEF S, T, k
<1>5. Top.pc \notin {"stored", "unwind", "caught", "reraise"} /\ ~raised => S = {}
  BY <1>1 DEF OpenWork, NothingMissed, S
<1>6. NothingMissed(stack', sub', raised') /\ MissedAtOutcome(stack', sub', raised')
  BY <1>1, <1>2, <1>3, <1>5 DEF NothingMissed, MissedAtOutcome, T
<1>7. MissedAtFailure(stack', sub', raised')
  <2> SUFFICES ASSUME f.pc \in {"unwind", "caught"}
               PROVE  /\ sub[k].status = "succeeded" => S \subseteq Descendants(sub, k)
                      /\ sub[k].status = "failed" => /\ Tame(sub, S)
                                                     /\ WantsRepair(sub, k) => S = {}
                      /\ sub[k].status \notin Finished => S = {}
    BY <1>1, <1>2 DEF MissedAtFailure, T
  <2>1. CASE S = {}
    BY <2>1 DEF Tame
  <2>2. CASE ~raised /\ Top.pc = "stored"
    <3>1. IF sub[k].status = "succeeded"
            THEN \A p \in S : Waiting(sub, p) /\ k \in sub[p].deps
            ELSE S = {}
      BY <1>1, <2>2 DEF OpenWork, MissedAtOutcome, k, S
    <3>2. S \subseteq 1 .. Len(sub)
      BY DEF S, Missed
    <3>3. sub[k].status = "succeeded" => S \subseteq Descendants(sub, k)
      BY <1>1, <3>1, <3>2, DescendantsNext
    <3>4. CASE sub[k].status = "succeeded"
      BY <3>3, <3>4 DEF Finished
    <3> QED BY <2>1, <3>1, <3>4
  <2>3. CASE ~raised /\ Top.pc = "unwind"
    BY <1>1, <2>3 DEF OpenWork, MissedAtFailure, k, S
  <2>4. CASE raised /\ Top.pc = "returned"
    <3>1. sub[k].status \in {"succeeded", "failed"}
      <4>1. stack[n].pc \in ExecPc /\ stack[n].pc = "returned"
        BY <1>1, <2>4
      <4> QED BY <1>1, <1>4, <4>1 DEF InStep, StatusAt, k
    <3>2. sub[k].status = "succeeded" => S \subseteq Descendants(sub, k)
      BY <1>1, <2>4 DEF OpenWork, MissedAboveSuccess, Succeeding, k, S
    <3>3. sub[k].status = "failed" => Tame(sub, S)
      <4>1. \A j \in 1 .. Len(stack) : ~(j > n)
        BY <1>1
      <4> QED BY <1>1, <2>4, <4>1 DEF OpenWork, MissedAboveFailure, k, S
    <3>4. sub[k].status = "failed" => ~WantsRepair(sub, k)
      BY <1>1, <2>4 DEF UntoldRepairs, AtMid
    <3> QED BY <3>1, <3>2, <3>3, <3>4 DEF Finished
  <2> QED BY <1>3, <1>5, <2>1, <2>2, <2>3, <2>4
<1>8. MissedAboveSuccess(stack', sub')
  <2> SUFFICES ASSUME NEW i \in 1 .. n, Succeeding(stack', sub, i)
               PROVE  S \subseteq Descendants(sub, stack'[i].sub)
    BY <1>1, <1>2 DEF MissedAboveSuccess, T
  <2>1. i # n
    BY <1>1 DEF Succeeding
  <2> QED BY <1>1, <2>1 DEF Succeeding, OpenWork, MissedAboveSuccess, S
<1>9. MissedAboveFailure(stack', sub', raised')
  <2> SUFFICES ASSUME f.pc = "reraise", NEW i \in 1 .. n,
                      stack'[i].pc = "returned", sub[stack'[i].sub].status = "failed",
                      \A j \in 1 .. n : j > i => stack'[j].pc # "returned"
               PROVE  Tame(sub, S)
    BY <1>1, <1>2, <1>3 DEF MissedAboveFailure, T
  <2>1. Top.pc = "handled"
    BY <1>3
  <2>2. i # n /\ stack[i].pc = "returned" /\ sub[stack[i].sub].status = "failed"
    BY <1>1
  <2>3. \A j \in 1 .. n : j > i => stack[j].pc # "returned"
    BY <1>1, <2>1
  <2>4. CASE raised
    BY <2>2, <2>3, <2>4 DEF OpenWork, MissedAboveFailure, S
  <2>5. CASE ~raised
    BY <1>5, <2>1, <2>5 DEF Tame
  <2> QED BY <2>4, <2>5
<1>10. ClaimedAboveSuccess(stack', sub')
  <2> SUFFICES ASSUME NEW i \in 1 .. n, NEW j \in 1 .. n, Succeeding(stack', sub, i), i < j
               PROVE  /\ stack'[j].todo \subseteq Descendants(sub, stack'[i].sub)
                      /\ stack'[j].pc \in ExecPc =>
                           stack'[j].sub \in Descendants(sub, stack'[i].sub)
    BY <1>1 DEF ClaimedAboveSuccess
  <2>1. i # n
    BY <1>1 DEF Succeeding
  <2>2. Succeeding(stack, sub, i)
    BY <1>1, <2>1 DEF Succeeding
  <2>3. /\ stack[j].todo \subseteq Descendants(sub, stack[i].sub)
        /\ stack[j].pc \in ExecPc => stack[j].sub \in Descendants(sub, stack[i].sub)
    BY <2>2 DEF OpenWork, ClaimedAboveSuccess
  <2> QED BY <1>1, <2>3
<1>11. ClaimedAboveFailure(stack', sub', raised')
  BY <1>1, <1>3 DEF OpenWork, ClaimedAboveFailure
<1>12. HandledFailed(stack', sub')
  <2> SUFFICES ASSUME NEW i \in 1 .. n
               PROVE  /\ stack'[i].pc \in {"handled", "reraise"} => sub[stack'[i].sub].status = "failed"
                      /\ stack'[i].pc \in ExecPc => stack'[i].todo = {}
    BY <1>1 DEF HandledFailed
  <2>1. /\ stack[i].pc \in {"handled", "reraise"} => sub[stack[i].sub].status = "failed"
        /\ stack[i].pc \in ExecPc => stack[i].todo = {}
    BY DEF OpenWork, HandledFailed
  <2> QED BY <1>1, <1>3, <2>1
<1> QED BY <1>6, <1>7, <1>8, <1>9, <1>10, <1>11, <1>12 DEF OpenWork

\* The execution gets on with its subtask.
LEMMA OpenRuns ==
  ASSUME PendInv, OpenWork(stack, sub, raised), NEW f, Advances(f),
         ~raised, Top.pc \in {"begin", "acquire", "work"},
         f.pc \in {"acquire", "work", "stored"}, Runs(sub, sub', Top.sub),
         sub[Top.sub].status \notin Finished,
         sub'[Top.sub].status \in Finished <=> f.pc = "stored"
  PROVE  OpenWork(stack', sub', raised')
<1> DEFINE n == Len(stack)
           k == Top.sub
           T == Missed(stack', sub')
<1>1. /\ n \in Nat \ {0} /\ n \in 1 .. n /\ Top = stack[n] /\ Len(stack') = n
      /\ stack # <<>> /\ stack' # <<>>
      /\ stack'[n] = f /\ f.sub = k /\ f.todo = Top.todo
      /\ f.pc \in ExecPc /\ Top.pc \in ExecPc
      /\ \A i \in 1 .. n : i # n => stack'[i] = stack[i] /\ i < n
      /\ \A i \in 1 .. n : /\ stack'[i].sub = stack[i].sub
                           /\ stack'[i].todo = stack[i].todo
                           /\ stack'[i].pc \in ExecPc <=> stack[i].pc \in ExecPc
      /\ IsGraph(sub) /\ k \in 1 .. Len(sub) /\ IsClaimed(stack, k)
      /\ \A t : IsClaimed(stack, t) <=> IsClaimed(stack', t)
  BY AdvancedStack
<1>2. /\ Runs(sub, sub', k) /\ ~raised' /\ GraphInv(sub) /\ Exclusive(stack)
      /\ FramesOver(stack, Len(sub))
  <2>1. TypeInv /\ Top.pc # "planning"
    BY DEF PendInv, StartInv, ActInv
  <2> QED BY <1>1, <2>1, AfterPlan DEF Advances, PendInv, StartInv, ActInv
<1>3. /\ Len(sub') = Len(sub) /\ IsGraph(sub') /\ Lineage(sub, sub')
      /\ \A t \in 1 .. Len(sub) : t # k => sub'[t] = sub[t]
  BY <1>2, RunsGraph DEF Runs
<1>4. Missed(stack, sub) = {}
  BY <1>1 DEF OpenWork, NothingMissed
<1>5. /\ sub[k].status \notin Finished
      /\ sub'[k].status \in Finished <=> f.pc = "stored"
      /\ f.pc \in {"acquire", "work", "stored"}
  OBVIOUS
<1> HIDE DEF k, T
<1>6. \A p \in T : /\ p \in 1 .. Len(sub) /\ sub'[p] = sub[p] /\ k \in sub[p].deps
                   /\ sub'[k].status = "succeeded" /\ sub[p].status \notin Finished
  <2> SUFFICES ASSUME NEW p \in T
               PROVE  /\ p \in 1 .. Len(sub) /\ sub'[p] = sub[p] /\ k \in sub[p].deps
                      /\ sub'[k].status = "succeeded" /\ sub[p].status \notin Finished
    OBVIOUS
  <2>1. p \in 1 .. Len(sub) /\ sub'[p] = sub[p] /\ k \in sub[p].deps /\ sub'[k].status = "succeeded"
    BY <1>1, <1>2, <1>4, MissedRuns DEF T
  <2>2. sub'[p].status \notin Finished
    BY DEF T, Missed
  <2> QED BY <2>1, <2>2
<1>7. \A i \in 1 .. n : i # n /\ stack[i].pc \in ExecPc =>
        /\ stack[i].sub # k /\ stack[i].sub \in 1 .. Len(sub)
        /\ sub'[stack[i].sub] = sub[stack[i].sub]
  BY <1>1, <1>2, <1>3 DEF Exclusive, FramesOver, FrameOver, k
<1>8. ASSUME NEW i \in 1 .. n, Succeeding(stack', sub', i)
      PROVE  /\ i # n /\ stack'[i] = stack[i] /\ Succeeding(stack, sub, i) /\ i < n
             /\ stack[i].sub \in 1 .. Len(sub)
             /\ Descendants(sub, stack[i].sub) \subseteq Descendants(sub', stack[i].sub)
  <2>1. i # n /\ stack'[i] = stack[i] /\ i < n /\ stack[i].pc \in ExecPc
    <3>1. i # n
      BY <1>1, <1>5, <1>8 DEF Succeeding
    <3>2. "returned" \in ExecPc
      BY DEF ExecPc
    <3> QED BY <1>1, <1>8, <3>1, <3>2 DEF Succeeding
  <2>2. Succeeding(stack, sub, i) /\ stack[i].sub \in 1 .. Len(sub)
    BY <1>7, <1>8, <2>1 DEF Succeeding
  <2> QED BY <1>1, <1>3, <2>1, <2>2, DescendantsStay
<1>9. NothingMissed(stack', sub', raised') /\ MissedAtFailure(stack', sub', raised')
      /\ MissedAboveFailure(stack', sub', raised')
  <2>1. f.pc # "stored" => T = {}
    BY <1>5, <1>6 DEF Finished
  <2> QED BY <1>1, <1>2, <1>5, <2>1 DEF NothingMissed, MissedAtFailure, MissedAboveFailure, T
<1>10. MissedAtOutcome(stack', sub', raised')
  <2> SUFFICES ASSUME f.pc = "stored"
               PROVE  IF sub'[k].status = "succeeded"
                        THEN \A p \in T : Waiting(sub', p) /\ k \in sub'[p].deps
                        ELSE T = {}
    BY <1>1 DEF MissedAtOutcome, T
  <2>1. ASSUME NEW p \in T PROVE Waiting(sub', p) /\ k \in sub'[p].deps
    <3>1. ~Begun(sub, p)
      BY <1>2, <1>5, <1>6 DEF GraphInv, BegunOnEnded, Finished
    <3>2. Waiting(sub, p)
      BY <1>6, <3>1 DEF Begun, Waiting, Finished
    <3> QED BY <1>6, <3>2 DEF Waiting
  <2> QED BY <1>6, <2>1
<1>11. MissedAboveSuccess(stack', sub')
  <2> SUFFICES ASSUME NEW i \in 1 .. n, Succeeding(stack', sub', i), NEW p \in T
               PROVE  p \in Descendants(sub', stack'[i].sub)
    BY <1>1 DEF MissedAboveSuccess, T
  <2>1. k \in Descendants(sub, stack[i].sub)
    BY <1>1, <1>8 DEF OpenWork, ClaimedAboveSuccess, k
  <2>2. p \in Descendants(sub, stack[i].sub)
    BY <1>1, <1>6, <1>8, <2>1, DescendantsNext
  <2> QED BY <1>8, <2>2
<1>12. ClaimedAboveSuccess(stack', sub')
  <2> SUFFICES ASSUME NEW i \in 1 .. n, NEW j \in 1 .. n, Succeeding(stack', sub', i), i < j
               PROVE  /\ stack'[j].todo \subseteq Descendants(sub', stack'[i].sub)
                      /\ stack'[j].pc \in ExecPc =>
                           stack'[j].sub \in Descendants(sub', stack'[i].sub)
    BY <1>1 DEF ClaimedAboveSuccess
  <2>1. /\ stack[j].todo \subseteq Descendants(sub, stack[i].sub)
        /\ stack[j].pc \in ExecPc => stack[j].sub \in Descendants(sub, stack[i].sub)
    BY <1>8 DEF OpenWork, ClaimedAboveSuccess
  <2> QED BY <1>1, <1>8, <2>1
<1>13. ClaimedAboveFailure(stack', sub', raised')
  <2> SUFFICES ASSUME NEW i \in 1 .. n, NEW j \in 1 .. n,
                      stack'[i].pc \in ExecPc, sub'[stack'[i].sub].status = "failed", j = i + 1
               PROVE  /\ \A a, b \in stack'[j].todo : a = b
                      /\ j # n => stack'[j].todo = {}
    BY <1>1, <1>2 DEF ClaimedAboveFailure
  <2>1. i # n
    BY <1>1
  <2>2. stack[i].pc \in ExecPc /\ sub[stack[i].sub].status = "failed"
    BY <1>1, <1>7, <2>1
  <2> QED BY <1>1, <2>2 DEF OpenWork, ClaimedAboveFailure
<1>14. HandledFailed(stack', sub')
  <2> SUFFICES ASSUME NEW i \in 1 .. n
               PROVE  /\ stack'[i].pc \in {"handled", "reraise"} => sub'[stack'[i].sub].status = "failed"
                      /\ stack'[i].pc \in ExecPc => stack'[i].todo = {}
    BY <1>1 DEF HandledFailed
  <2>1. /\ stack[i].pc \in {"handled", "reraise"} => sub[stack[i].sub].status = "failed"
        /\ stack[i].pc \in ExecPc => stack[i].todo = {}
    BY DEF OpenWork, HandledFailed
  <2>2. stack'[i].pc \in {"handled", "reraise"} => i # n /\ stack[i].pc \in ExecPc
    BY <1>1, <1>5 DEF ExecPc
  <2> QED BY <1>1, <1>7, <2>1, <2>2
<1> QED BY <1>9, <1>10, <1>11, <1>12, <1>13, <1>14 DEF OpenWork

\* The innermost execution advances.
LEMMA OpenAdvances ==
  ASSUME PendInv, UntoldRepairs, OpenWork(stack, sub, raised), NEW f, Advances(f)
  PROVE  OpenWork(stack', sub', raised')
<1>1. CASE sub' = sub /\ f.pc \in {"unwind", "caught", "reconcile", "reraise"}
  BY <1>1, OpenMoves
<1>2. CASE /\ ~raised /\ Top.pc \in {"begin", "acquire", "work"}
           /\ f.pc \in {"acquire", "work", "stored"} /\ Runs(sub, sub', Top.sub)
           /\ sub[Top.sub].status \notin Finished
           /\ sub'[Top.sub].status \in Finished <=> f.pc = "stored"
  BY <1>2, OpenRuns
<1> QED BY <1>1, <1>2 DEF Advances

\* The calls that wait for an answer claim what they claimed before.
LEMMA AnswerCallers ==
  ASSUME PendInv, NEW pc, NEW f, NEW g, NEW r, Answers(pc, f, g, r)
  PROVE  LET n == Len(stack)
             callers == Replaced(stack, f)
         IN  /\ n \in Nat \ {0} /\ n \in 1 .. n /\ Top = stack[n] /\ Len(callers) = n
             /\ callers[n] = f /\ f.pc = pc /\ f.sub = Top.sub /\ f.todo = Top.todo
             /\ f.pc \in ExecPc /\ Top.pc \in ExecPc
             /\ \A i \in 1 .. n : i # n => callers[i] = stack[i] /\ i < n
             /\ \A i \in 1 .. n : /\ callers[i].sub = stack[i].sub
                                  /\ callers[i].todo = stack[i].todo
                                  /\ callers[i].pc \in ExecPc <=> stack[i].pc \in ExecPc
             /\ IsClaimed(stack, Top.sub)
             /\ \A t : IsClaimed(stack, t) <=> IsClaimed(callers, t)
<1> DEFINE n == Len(stack)
           callers == Replaced(stack, f)
<1>1. /\ n \in Nat \ {0} /\ Top = stack[n] /\ Len(callers) = n /\ f.pc \in ExecPc
      /\ \A i \in 1 .. n : callers[i] = IF i = n THEN f ELSE stack[i]
  BY AnswerStages
<1>2. /\ f.pc = pc /\ f.sub = Top.sub /\ f.todo = Top.todo /\ Top.pc \in ExecPc
  BY DEF Answers
<1> HIDE DEF callers
<1>3. n \in 1 .. n /\ (\A i \in 1 .. n : i # n => i < n)
  BY <1>1
<1>4. \A i \in 1 .. n : /\ callers[i].sub = stack[i].sub
                        /\ callers[i].todo = stack[i].todo
                        /\ callers[i].pc \in ExecPc <=> stack[i].pc \in ExecPc
  BY <1>1, <1>2
<1>5. \A t : IsClaimed(stack, t) <=> IsClaimed(callers, t)
  BY <1>1, <1>4 DEF IsClaimed
<1>6. IsClaimed(stack, Top.sub)
  BY <1>1, <1>2, <1>3 DEF IsClaimed
<1> QED BY <1>1, <1>2, <1>3, <1>4, <1>5, <1>6 DEF callers

\* What is being executed is finished, below the answer, and stays so.
LEMMA AnswerStatus ==
  ASSUME PendInv, NEW pc, NEW f, NEW g, NEW r, Answers(pc, f, g, r),
         NEW i \in 1 .. Len(stack), stack[i].pc \in ExecPc
  PROVE  LET y == stack[i].sub
         IN  /\ y \in 1 .. Len(sub) /\ y \in 1 .. Len(g) /\ y \in 1 .. Len(r) /\ y \in 1 .. Len(sub')
             /\ g[y].status \in {"succeeded", "failed"}
             /\ r[y].status = g[y].status /\ sub'[y].status = g[y].status
             /\ i # Len(stack) => g[y] = sub[y] /\ y # Top.sub
             /\ Descendants(sub, y) \subseteq Descendants(g, y)
             /\ Descendants(g, y) \subseteq Descendants(r, y)
             /\ Descendants(r, y) \subseteq Descendants(sub', y)
<1> DEFINE y == stack[i].sub
<1>1. /\ TypeInv /\ stack # <<>> /\ Top.pc # "planning" /\ Exclusive(stack) /\ InStep(stack, sub)
      /\ Top.pc \in ExecPc
  BY DEF Answers, PendInv, StartInv, ActInv, ExecPc
<1>2. /\ FramesOver(stack, Len(sub)) /\ Len(stack) \in Nat \ {0} /\ Top = stack[Len(stack)]
      /\ IsGraph(sub)
  BY <1>1, AfterPlan
<1>3. /\ GraphInv(g) /\ Lineage(sub, g) /\ Len(g) = Len(sub)
      /\ GraphInv(r) /\ Lineage(g, r)
  BY AnswerStages
<1>4. /\ Runs(sub, g, Top.sub) /\ g[Top.sub].status \in {"succeeded", "failed"}
      /\ Schedules(r, sub')
      /\ r = g \/ \E x, deps : Chained(g, r, x, deps)
  BY DEF Answers, Scheduled
<1>5. IsGraph(g) /\ IsGraph(r) /\ y \in 1 .. Len(sub)
  BY <1>2, <1>3 DEF GraphInv, FramesOver, FrameOver
<1>6. Lineage(r, sub') /\ IsGraph(sub')
  BY <1>3, <1>4, SchedulesGraph DEF Schedules
<1>7. i # Len(stack) => g[y] = sub[y] /\ y # Top.sub
  BY <1>1, <1>2, <1>4, <1>5 DEF Exclusive, Runs
<1>8. g[y].status \in {"succeeded", "failed"}
  <2>1. CASE i = Len(stack)
    BY <1>2, <1>4, <2>1
  <2>2. CASE i # Len(stack)
    <3>1. stack[i].pc \in {"returned", "handled"}
      BY <1>1, <2>2 DEF InStep, Calling, ExecPc
    <3>2. sub[y].status \in {"succeeded", "failed"}
      BY <1>1, <3>1 DEF InStep, StatusAt
    <3> QED BY <1>7, <2>2, <3>2
  <2> QED BY <2>1, <2>2
<1> HIDE DEF y
<1>9. y \in 1 .. Len(r) /\ r[y].status = g[y].status
  <2>1. CASE r = g
    BY <1>3, <1>5, <2>1
  <2>2. ASSUME NEW x, NEW deps, Chained(g, r, x, deps)
        PROVE  y \in 1 .. Len(r) /\ r[y].status = g[y].status
    BY <1>3, <1>5, <1>8, <2>2, ChainedStatus DEF Chained, Finished
  <2> QED BY <1>4, <2>1, <2>2
<1>10. y \in 1 .. Len(sub') /\ sub'[y].status = g[y].status
  <2>1. y \notin Ready(r)
    BY <1>8, <1>9 DEF Ready
  <2> QED BY <1>4, <1>9, <2>1 DEF Schedules
<1>11. /\ Descendants(sub, y) \subseteq Descendants(g, y)
       /\ Descendants(g, y) \subseteq Descendants(r, y)
       /\ Descendants(r, y) \subseteq Descendants(sub', y)
  BY <1>2, <1>3, <1>5, <1>6, <1>9, DescendantsStay
<1> QED BY <1>3, <1>5, <1>7, <1>8, <1>9, <1>10, <1>11 DEF y

\* What the calls that wait for the answer miss: what was missed before, less
\* what was cancelled, and the first subtask of the chain.
LEMMA AnswerMissed ==
  ASSUME PendInv, OpenWork(stack, sub, raised), Lost(sub') = {},
         NEW pc, NEW f, NEW g, NEW r, Answers(pc, f, g, r)
  PROVE  LET k == Top.sub
             S == Missed(stack, sub)
             M == Missed(Replaced(stack, f), r)
         IN  /\ g[k].status = "succeeded" =>
                  \A p \in M : p \in 1 .. Len(r) /\ Waiting(r, p) /\ k \in r[p].deps
             /\ g[k].status = "failed" =>
                  \/ /\ M \subseteq S /\ Tame(sub, S) /\ r = g
                     /\ \A p \in M : p \in 1 .. Len(sub) /\ g[p] = sub[p]
                  \/ /\ M \subseteq {Len(g) + 1} /\ Len(g) + 1 \in 1 .. Len(r)
                     /\ r[Len(g) + 1].status = "queued" /\ r[Len(g) + 1].deps = g[k].deps
<1> DEFINE k == Top.sub
           n == Len(stack)
           S == Missed(stack, sub)
           callers == Replaced(stack, f)
           M == Missed(callers, r)
           G == Missed(callers, g)
<1>1. /\ \A t : IsClaimed(stack, t) <=> IsClaimed(callers, t)
      /\ IsClaimed(stack, k)
  BY AnswerCallers
<1>2. /\ GraphInv(g) /\ Lineage(sub, g) /\ Len(g) = Len(sub) /\ GraphInv(r) /\ Lineage(g, r)
      /\ k \in 1 .. Len(sub) /\ k \in 1 .. Len(g)
  BY AnswerStages
<1>3. /\ IsGraph(g) /\ IsGraph(r) /\ IsGraph(sub) /\ GraphInv(sub) /\ InStep(stack, sub)
      /\ stack # <<>> /\ ~raised
      /\ Top = stack[n] /\ n \in 1 .. n
  <2>1. Top = stack[n] /\ n \in 1 .. n
    BY AnswerCallers
  <2> QED BY <1>2, <2>1 DEF PendInv, StartInv, ActInv, GraphInv, Answers
<1>4. /\ Runs(sub, g, k) /\ Schedules(r, sub') /\ g[k].status \in {"succeeded", "failed"}
      /\ Top.pc \in {"stored", "caught"} /\ Top.pc \in ExecPc
      /\ Top.pc = "stored" => g = sub
      /\ Top.pc = "caught" => g[k].status = "failed"
      /\ \/ r = g /\ (g[k].status = "failed" => ~WantsRepair(g, k))
         \/ g[k].status = "succeeded" /\ Chained(g, r, 0, {k})
         \/ WantsRepair(g, k) /\ Chained(g, r, k, g[k].deps)
      /\ g[k].status = "succeeded" => ~Chained(g, r, k, g[k].deps)
  <2>1. g[k].status = "succeeded" => ~Chained(g, r, k, g[k].deps)
    BY <1>2 DEF Chained, IsGraph
  <2> QED BY <2>1 DEF Answers, Scheduled
<1> HIDE DEF k, S, M, G, callers
<1>5. \A p \in G : p \in S /\ p \in 1 .. Len(sub) /\ g[p] = sub[p]
  <2> SUFFICES ASSUME NEW p \in G PROVE p \in S /\ p \in 1 .. Len(sub) /\ g[p] = sub[p]
    OBVIOUS
  <2>1. /\ p \in 1 .. Len(sub) /\ g[p] = sub[p]
        /\ \/ p \in S
           \/ g[k].status = "succeeded" /\ sub[k].status # "succeeded"
    BY <1>1, <1>3, <1>4, MissedRuns DEF G, S
  <2> QED BY <1>4, <2>1
<1>6. ASSUME r # g
      PROVE  /\ Len(g) + 1 \in 1 .. Len(r) /\ r[Len(g) + 1].status = "queued"
             /\ g[k].status = "succeeded" => r[Len(g) + 1].deps = {k}
             /\ g[k].status = "failed" => WantsRepair(g, k) /\ r[Len(g) + 1].deps = g[k].deps
             /\ \A p \in M : \/ p = Len(g) + 1
                             \/ /\ p \in G /\ r[p].status = g[p].status /\ r[p].deps = g[p].deps
                                /\ g[k].status = "failed" => p \notin Descendants(g, k)
  <2>1. CASE g[k].status = "succeeded" /\ Chained(g, r, 0, {k})
    <3>1. /\ Len(g) + 1 \in 1 .. Len(r) /\ r[Len(g) + 1].status = "queued"
          /\ r[Len(g) + 1].deps = {k}
      BY <1>3, <2>1, ChainedStatus
    <3>2. \A p \in M : \/ p = Len(g) + 1
                       \/ p \in G /\ r[p].status = g[p].status /\ r[p].deps = g[p].deps
      BY <1>3, <2>1, MissedChained DEF M, G
    <3> QED BY <2>1, <3>1, <3>2
  <2>2. CASE WantsRepair(g, k) /\ Chained(g, r, k, g[k].deps)
    <3>1. /\ Len(g) + 1 \in 1 .. Len(r) /\ r[Len(g) + 1].status = "queued"
          /\ r[Len(g) + 1].deps = g[k].deps
      BY <1>3, <2>2, ChainedStatus
    <3>2. k # 0 /\ g[k].status = "failed"
      BY <1>2, <1>3, <1>4, <2>2 DEF IsGraph
    <3>3. \A p \in M : \/ p = Len(g) + 1
                       \/ /\ p \in G /\ r[p].status = g[p].status /\ r[p].deps = g[p].deps
                          /\ p \notin Descendants(g, k)
      BY <1>3, <2>2, <3>2, MissedChained DEF M, G
    <3> QED BY <2>2, <3>1, <3>2, <3>3
  <2> QED BY <1>4, <1>6, <2>1, <2>2
<1>7. ASSUME g[k].status = "succeeded", NEW p \in M
      PROVE  p \in 1 .. Len(r) /\ Waiting(r, p) /\ k \in r[p].deps
  <2>1. Top.pc = "stored" /\ g = sub /\ sub[k].status = "succeeded"
    BY <1>4, <1>7
  <2>2. \A t \in S : Waiting(sub, t) /\ k \in sub[t].deps
    BY <1>3, <2>1 DEF OpenWork, MissedAtOutcome, S, k
  <2>3. p \in 1 .. Len(r)
    BY DEF M, Missed
  <2>4. CASE r = g
    <3>1. p \in S
      BY <1>5, <2>4 DEF M, G
    <3> QED BY <2>1, <2>2, <2>3, <2>4, <3>1
  <2>5. CASE r # g
    <3>1. CASE p = Len(g) + 1
      BY <1>6, <1>7, <2>3, <2>5, <3>1 DEF Waiting
    <3>2. CASE p \in G /\ r[p].status = g[p].status /\ r[p].deps = g[p].deps
      BY <1>5, <2>1, <2>2, <2>3, <3>2 DEF Waiting
    <3> QED BY <1>6, <2>5, <3>1, <3>2
  <2> QED BY <2>4, <2>5
<1>8. ASSUME g[k].status = "failed", r # g
      PROVE  M \subseteq {Len(g) + 1}
  <2> SUFFICES ASSUME NEW p \in G, p \notin Descendants(g, k) PROVE FALSE
    BY <1>6, <1>8
  <2>1. p \in S
    BY <1>5
  <2>2. p \notin Descendants(sub, k)
    BY <1>2, <1>3, DescendantsStay
  <2>3. WantsRepair(sub, k)
    BY <1>4, <1>6, <1>8 DEF WantsRepair, Runs, Executed
  <2>4. CASE Top.pc = "stored"
    BY <1>3, <1>4, <1>8, <2>1, <2>4 DEF OpenWork, MissedAtOutcome, S, k
  <2>5. CASE Top.pc = "caught"
    <3>1. /\ sub[k].status = "succeeded" => S \subseteq Descendants(sub, k)
          /\ sub[k].status = "failed" => (WantsRepair(sub, k) => S = {})
          /\ sub[k].status \notin Finished => S = {}
      BY <1>3, <2>5 DEF OpenWork, MissedAtFailure, S, k
    <3>2. stack[n].pc \in ExecPc /\ stack[n].pc = "caught"
      BY <1>3, <1>4, <2>5
    <3>3. sub[k].status \in StatusAt("caught")
      BY <1>3, <3>2 DEF InStep, k
    <3>4. sub[k].status \in {"succeeded", "failed"} \/ sub[k].status \notin Finished
      BY <3>3 DEF StatusAt, Finished
    <3> QED BY <2>1, <2>2, <2>3, <3>1, <3>4
  <2> QED BY <1>4, <2>4, <2>5
<1>9. ASSUME g[k].status = "failed", r = g
      PROVE  M \subseteq S /\ Tame(sub, S)
  <2>1. M \subseteq S
    BY <1>5, <1>9 DEF M, G
  <2>2. CASE S = {}
    BY <2>1, <2>2 DEF Tame
  <2>3. CASE Top.pc = "stored"
    <3>1. S = {}
      BY <1>3, <1>4, <1>9, <2>3 DEF OpenWork, MissedAtOutcome, S, k
    <3> QED BY <2>2, <3>1
  <2>4. CASE Top.pc = "caught"
    <3>1. CASE sub[k].status = "succeeded"
      <4>1. ~sub[k].repaired
        BY <1>2, <1>3, <3>1 DEF GraphInv, RepairsFailures
      <4>2. ~g[k].repaired /\ ~WantsRepair(g, k)
        <5>1. g[k].repaired = sub[k].repaired
          BY <1>4 DEF Runs, Executed
        <5>2. g[k].status = "succeeded" => FALSE
          BY <1>9
        <5>3. ~WantsRepair(g, k) \/ \E x, deps : Chained(g, r, x, deps)
          BY <1>4, <1>9
        <5>4. ~ \E x, deps : Chained(g, r, x, deps)
          BY <1>3, <1>9, ChainedStatus
        <5> QED BY <4>1, <5>1, <5>3, <5>4
      <4>3. /\ Len(sub') = Len(g) /\ sub'[k].repaired = g[k].repaired
            /\ sub'[k].role = g[k].role /\ sub'[k].attempt = g[k].attempt
            /\ sub'[k].status = "failed"
        <5>1. k \notin Ready(g)
          BY <1>9 DEF Ready
        <5> QED BY <1>2, <1>3, <1>4, <1>9, <5>1, SchedulesStatus
      <4>4. k \in Lost(sub')
        BY <1>2, <4>2, <4>3 DEF Lost, WantsRepair
      <4> QED BY <4>4
    <3>2. CASE sub[k].status # "succeeded"
      <4>1. stack[n].pc \in ExecPc /\ stack[n].pc = "caught"
        BY <1>3, <1>4, <2>4
      <4>2. sub[k].status \in StatusAt("caught")
        BY <1>3, <4>1 DEF InStep, k
      <4>3. sub[k].status # "cancelled"
        BY <4>2 DEF StatusAt
      <4>4. sub[k].status = "failed" \/ sub[k].status \notin Finished
        BY <3>2, <4>3 DEF Finished
      <4>5. CASE sub[k].status = "failed"
        BY <1>3, <2>1, <2>4, <4>5 DEF OpenWork, MissedAtFailure, S, k
      <4>6. CASE sub[k].status \notin Finished
        BY <1>3, <2>2, <2>4, <4>6 DEF OpenWork, MissedAtFailure, S, k
      <4> QED BY <4>4, <4>5, <4>6
    <3> QED BY <3>1, <3>2
  <2> QED BY <1>4, <2>3, <2>4
<1>10. g[k].status = "failed" =>
         \/ /\ M \subseteq S /\ Tame(sub, S) /\ r = g
            /\ \A p \in M : p \in 1 .. Len(sub) /\ g[p] = sub[p]
         \/ /\ M \subseteq {Len(g) + 1} /\ Len(g) + 1 \in 1 .. Len(r)
            /\ r[Len(g) + 1].status = "queued" /\ r[Len(g) + 1].deps = g[k].deps
  <2>1. CASE r = g
    <3>1. M = G
      BY <2>1 DEF M, G
    <3> QED BY <1>5, <1>9, <2>1, <3>1
  <2>2. CASE r # g
    BY <1>6, <1>8, <2>2
  <2> QED BY <2>1, <2>2
<1> QED BY <1>7, <1>10 DEF k, S, M, callers

\* An execution calls the orchestrator.
LEMMA OpenAnswers ==
  ASSUME PendInv, OpenWork(stack, sub, raised), Lost(sub') = {},
         NEW pc, NEW f, NEW g, NEW r, Answers(pc, f, g, r)
  PROVE  OpenWork(stack', sub', raised')
<1> DEFINE k == Top.sub
           n == Len(stack)
           callers == Replaced(stack, f)
           M == Missed(callers, r)
           T == Missed(stack', sub')
<1>1. /\ n \in Nat \ {0} /\ n \in 1 .. n /\ Top = stack[n] /\ Len(callers) = n
      /\ callers[n] = f /\ f.pc = pc /\ f.sub = k /\ f.todo = Top.todo
      /\ f.pc \in ExecPc /\ Top.pc \in ExecPc
      /\ \A i \in 1 .. n : i # n => callers[i] = stack[i] /\ i < n
      /\ \A i \in 1 .. n : /\ callers[i].sub = stack[i].sub
                           /\ callers[i].todo = stack[i].todo
                           /\ callers[i].pc \in ExecPc <=> stack[i].pc \in ExecPc
  BY AnswerCallers
<1>2. /\ GraphInv(r) /\ FramesOver(callers, Len(r)) /\ LoopsHold(callers, r)
      /\ k \in 1 .. Len(g) /\ IsGraph(r) /\ IsGraph(g) /\ Lineage(g, r) /\ Lineage(r, sub')
  <2>1. GraphInv(g) /\ GraphInv(r) /\ FramesOver(callers, Len(r)) /\ LoopsHold(callers, r)
        /\ k \in 1 .. Len(g) /\ Lineage(g, r)
    BY AnswerStages
  <2>2. Lineage(r, sub')
    BY AnswersHolds
  <2> QED BY <2>1, <2>2 DEF GraphInv
<1>3. /\ Scheduled(callers, r) /\ Schedules(r, sub') /\ g[k].status \in {"succeeded", "failed"}
      /\ pc \in {"returned", "handled"} /\ (pc = "handled" => g[k].status = "failed")
      /\ stack # <<>> /\ ~raised
  BY DEF Answers, Scheduled
<1>4. ASSUME NEW i \in 1 .. n, stack[i].pc \in ExecPc
      PROVE  LET y == stack[i].sub
             IN  /\ y \in 1 .. Len(sub) /\ y \in 1 .. Len(g) /\ y \in 1 .. Len(r) /\ y \in 1 .. Len(sub')
                 /\ g[y].status \in {"succeeded", "failed"}
                 /\ r[y].status = g[y].status /\ sub'[y].status = g[y].status
                 /\ i # n => g[y] = sub[y] /\ y # k
                 /\ Descendants(sub, y) \subseteq Descendants(g, y)
                 /\ Descendants(g, y) \subseteq Descendants(r, y)
                 /\ Descendants(r, y) \subseteq Descendants(sub', y)
  BY <1>4, AnswerStatus
<1>5. /\ g[k].status = "succeeded" =>
           \A p \in M : p \in 1 .. Len(r) /\ Waiting(r, p) /\ k \in r[p].deps
      /\ g[k].status = "failed" =>
           \/ /\ M \subseteq Missed(stack, sub) /\ Tame(sub, Missed(stack, sub)) /\ r = g
              /\ \A p \in M : p \in 1 .. Len(sub) /\ g[p] = sub[p]
           \/ /\ M \subseteq {Len(g) + 1} /\ Len(g) + 1 \in 1 .. Len(r)
              /\ r[Len(g) + 1].status = "queued" /\ r[Len(g) + 1].deps = g[k].deps
  BY AnswerMissed
<1>0. "returned" \in ExecPc /\ "handled" \in ExecPc /\ "dispatch" \notin ExecPc
      /\ "reraise" \in ExecPc
  BY DEF ExecPc
<1> HIDE DEF k, callers, M, T
<1>6. \A p \in M : Waiting(r, p)
  <2>1. CASE g[k].status = "succeeded"
    BY <1>5, <2>1
  <2>2. CASE /\ M \subseteq Missed(stack, sub) /\ Tame(sub, Missed(stack, sub)) /\ r = g
             /\ \A p \in M : p \in 1 .. Len(sub) /\ g[p] = sub[p]
    BY <2>2 DEF Tame, Waiting
  <2>3. CASE M \subseteq {Len(g) + 1} /\ r[Len(g) + 1].status = "queued"
    BY <2>3 DEF Waiting
  <2> QED BY <1>3, <1>5, <2>1, <2>2, <2>3
<1>7. g[k].status = "failed" => \A a, b \in M : a = b
  <2>1. CASE M \subseteq Missed(stack, sub) /\ Tame(sub, Missed(stack, sub))
    BY <2>1 DEF Tame
  <2>2. CASE M \subseteq {Len(g) + 1}
    BY <2>2
  <2> QED BY <1>5, <2>1, <2>2
<1>8. ASSUME NEW i \in 1 .. n, i # n, Succeeding(stack, sub, i)
      PROVE  M \subseteq Descendants(r, stack[i].sub)
  <2> DEFINE y == stack[i].sub
  <2>1. stack[i].pc \in ExecPc
    BY <1>0, <1>8 DEF Succeeding
  <2>2. /\ y \in 1 .. Len(sub) /\ y \in 1 .. Len(g) /\ y \in 1 .. Len(r)
        /\ Descendants(sub, y) \subseteq Descendants(g, y)
        /\ Descendants(g, y) \subseteq Descendants(r, y)
    BY <1>4, <2>1
  <2>3. k \in Descendants(sub, y)
    BY <1>1, <1>8 DEF OpenWork, ClaimedAboveSuccess, k
  <2>4. Missed(stack, sub) \subseteq Descendants(sub, y)
    BY <1>8 DEF OpenWork, MissedAboveSuccess
  <2> HIDE DEF y
  <2>5. CASE g[k].status = "succeeded"
    <3> SUFFICES ASSUME NEW p \in M PROVE p \in Descendants(r, y)
      BY DEF y
    <3> QED BY <1>2, <1>5, <2>2, <2>3, <2>5, DescendantsNext
  <2>6. CASE M \subseteq Missed(stack, sub)
    BY <2>2, <2>4, <2>6 DEF y
  <2>7. CASE /\ M \subseteq {Len(g) + 1} /\ Len(g) + 1 \in 1 .. Len(r)
             /\ r[Len(g) + 1].deps = g[k].deps
    <3>1. k \in Descendants(g, y)
      BY <2>2, <2>3
    <3>2. PICK d \in g[k].deps : d = y \/ d \in Descendants(g, y)
      BY <1>2, <2>2, <3>1, DescendantsAre
    <3>3. d \in r[Len(g) + 1].deps /\ (d = y \/ d \in Descendants(r, y))
      BY <2>2, <2>7, <3>2
    <3>4. Len(g) + 1 \in Descendants(r, y)
      BY <1>2, <2>2, <2>7, <3>3, DescendantsNext
    <3> QED BY <2>7, <3>4 DEF y
  <2> QED BY <1>3, <1>5, <2>5, <2>6, <2>7
<1>9. g[k].status = "succeeded" => M \subseteq Descendants(r, k)
  <2> SUFFICES ASSUME g[k].status = "succeeded", NEW p \in M PROVE p \in Descendants(r, k)
    OBVIOUS
  <2>1. k \in 1 .. Len(r)
    BY <1>1, <1>4 DEF k
  <2> QED BY <1>2, <1>5, <2>1, DescendantsNext
<1>10. \/ /\ T = {} /\ raised' = raised
          /\ \/ stack' = callers
             \/ /\ Len(stack') = n + 1 /\ stack'[n + 1].pc = "dispatch" /\ stack'[n + 1].todo = M
                /\ \A i \in 1 .. n : stack'[i] = callers[i]
       \/ /\ raised' /\ stack' = callers /\ T \subseteq M
          /\ \E s \in M : sub'[s].status = "ready"
  <2>1. \A t \in 1 .. Len(r) : IsClaimed(callers, t) => ~Waiting(r, t)
    <3> SUFFICES ASSUME NEW t \in 1 .. Len(r), NEW i \in 1 .. n,
                        t \in callers[i].todo \/ (callers[i].pc \in ExecPc /\ callers[i].sub = t)
                 PROVE  ~Waiting(r, t)
      BY <1>1 DEF IsClaimed
    <3>1. CASE t \in callers[i].todo
      BY <1>1, <1>2, <3>1 DEF LoopsHold, Waiting
    <3>2. CASE callers[i].pc \in ExecPc /\ callers[i].sub = t
      BY <1>1, <1>4, <3>2 DEF Waiting
    <3> QED BY <3>1, <3>2
  <2>2. /\ Ready(r) = M
        /\ \/ /\ T = {} /\ raised' = raised
              /\ stack' = callers \/ stack' = Append(callers, DispatchFrame(Ready(r)))
           \/ /\ raised' /\ stack' = callers /\ T \subseteq M
              /\ \E s \in M : sub'[s].status = "ready"
    BY <1>2, <1>3, <1>6, <2>1, MissedScheduled DEF M, T
  <2>3. CASE stack' = Append(callers, DispatchFrame(Ready(r))) /\ T = {} /\ raised' = raised
    <3>1. callers \in Seq(Frame)
      BY <1>2 DEF FramesOver
    <3>2. \/ stack' = callers
          \/ /\ Len(stack') = n + 1 /\ stack'[Len(stack')] = DispatchFrame(Ready(r))
             /\ \A i \in 1 .. n : stack'[i] = callers[i]
      BY <1>1, <1>2, <1>3, <3>1, ScheduledTop
    <3>3. DispatchFrame(Ready(r)).pc = "dispatch" /\ DispatchFrame(Ready(r)).todo = M
      BY <2>2 DEF DispatchFrame
    <3> QED BY <2>3, <3>2, <3>3
  <2> QED BY <2>2, <2>3
<1>11. /\ raised' \/ raised' = FALSE
       /\ Len(stack') \in {n, n + 1}
       /\ \A i \in 1 .. n : stack'[i] = callers[i]
       /\ Len(stack') = n + 1 => ~raised' /\ stack'[n + 1].pc = "dispatch" /\ stack'[n + 1].todo = M
  BY <1>1, <1>3, <1>10
<1>12. \A i \in 1 .. Len(stack') : i \in 1 .. n \/ (i = n + 1 /\ Len(stack') = n + 1)
  BY <1>1, <1>11
<1>13. ASSUME NEW i \in 1 .. Len(stack'), Succeeding(stack', sub', i)
       PROVE  /\ i \in 1 .. n /\ stack'[i].sub = stack[i].sub /\ stack[i].pc \in ExecPc
              /\ M \subseteq Descendants(sub', stack[i].sub)
              /\ i # n => Succeeding(stack, sub, i)
  <2>1. i \in 1 .. n /\ callers[i] = stack'[i] /\ callers[i].pc = "returned"
    BY <1>11, <1>12, <1>13 DEF Succeeding
  <2>2. stack[i].pc \in ExecPc /\ stack'[i].sub = stack[i].sub
    BY <1>0, <1>1, <2>1
  <2>3. sub'[stack[i].sub].status = "succeeded"
    BY <1>13, <2>2 DEF Succeeding
  <2>4. CASE i # n
    <3>1. Succeeding(stack, sub, i)
      BY <1>1, <1>4, <2>1, <2>2, <2>3, <2>4 DEF Succeeding
    <3>2. M \subseteq Descendants(r, stack[i].sub)
      BY <1>8, <2>1, <2>4, <3>1
    <3> QED BY <1>4, <2>1, <2>2, <3>1, <3>2
  <2>5. CASE i = n
    <3>1. stack[i].sub = k
      BY <1>1, <2>5 DEF k
    <3>2. M \subseteq Descendants(r, k)
      BY <1>4, <1>9, <2>1, <2>2, <2>3, <3>1
    <3> QED BY <1>4, <2>1, <2>2, <2>5, <3>1, <3>2
  <2> QED BY <2>4, <2>5
<1>14. ClaimedAboveSuccess(stack', sub')
  <2> SUFFICES ASSUME NEW i \in 1 .. Len(stack'), NEW j \in 1 .. Len(stack'),
                      Succeeding(stack', sub', i), i < j
               PROVE  /\ stack'[j].todo \subseteq Descendants(sub', stack'[i].sub)
                      /\ stack'[j].pc \in ExecPc =>
                           stack'[j].sub \in Descendants(sub', stack'[i].sub)
    BY DEF ClaimedAboveSuccess
  <2>1. CASE j = n + 1 /\ Len(stack') = n + 1
    BY <1>0, <1>11, <1>13, <2>1
  <2>2. CASE j \in 1 .. n
    <3>1. i # n /\ i \in 1 .. n
      BY <1>1, <1>13, <2>2
    <3>2. /\ stack[j].todo \subseteq Descendants(sub, stack[i].sub)
          /\ stack[j].pc \in ExecPc => stack[j].sub \in Descendants(sub, stack[i].sub)
      BY <1>13, <2>2, <3>1 DEF OpenWork, ClaimedAboveSuccess
    <3>3. Descendants(sub, stack[i].sub) \subseteq Descendants(sub', stack[i].sub)
      BY <1>4, <1>13
    <3>4. /\ stack'[j].todo = stack[j].todo /\ stack'[j].sub = stack[j].sub
          /\ stack'[j].pc \in ExecPc <=> stack[j].pc \in ExecPc
      BY <1>1, <1>11, <2>2
    <3> QED BY <1>13, <3>2, <3>3, <3>4
  <2> QED BY <1>12, <2>1, <2>2
<1>15. ClaimedAboveFailure(stack', sub', raised')
  <2> SUFFICES ASSUME NEW i \in 1 .. Len(stack'), NEW j \in 1 .. Len(stack'),
                      stack'[i].pc \in ExecPc, sub'[stack'[i].sub].status = "failed", j = i + 1
               PROVE  /\ \A a, b \in stack'[j].todo : a = b
                      /\ raised' \/ j # Len(stack') => stack'[j].todo = {}
    BY DEF ClaimedAboveFailure
  <2>1. i \in 1 .. n /\ stack[i].pc \in ExecPc /\ stack'[i].sub = stack[i].sub
    BY <1>0, <1>1, <1>11, <1>12
  <2>2. g[stack[i].sub].status = "failed" /\ (i # n => sub[stack[i].sub].status = "failed")
    BY <1>4, <2>1
  <2>3. CASE i = n
    <3>1. j = n + 1 /\ Len(stack') = n + 1
      BY <1>1, <1>11, <2>3
    <3>2. g[k].status = "failed"
      BY <1>1, <2>2, <2>3 DEF k
    <3> QED BY <1>7, <1>11, <3>1, <3>2
  <2>4. CASE i # n
    <3>1. j \in 1 .. n /\ stack'[j].todo = stack[j].todo
      BY <1>1, <1>11, <2>1, <2>4
    <3>2. stack[j].todo = {}
      <4>1. CASE j = n
        BY <1>1, <3>1, <4>1 DEF OpenWork, HandledFailed
      <4>2. CASE j # n
        BY <2>1, <2>2, <2>4, <3>1, <4>2 DEF OpenWork, ClaimedAboveFailure
      <4> QED BY <4>1, <4>2
    <3> QED BY <3>1, <3>2
  <2> QED BY <2>3, <2>4
<1>16. HandledFailed(stack', sub')
  <2> SUFFICES ASSUME NEW i \in 1 .. Len(stack')
               PROVE  /\ stack'[i].pc \in {"handled", "reraise"} => sub'[stack'[i].sub].status = "failed"
                      /\ stack'[i].pc \in ExecPc => stack'[i].todo = {}
    BY DEF HandledFailed
  <2>1. CASE i = n + 1 /\ Len(stack') = n + 1
    BY <1>0, <1>11, <2>1
  <2>2. CASE i \in 1 .. n
    <3>1. /\ stack[i].pc \in {"handled", "reraise"} => sub[stack[i].sub].status = "failed"
          /\ stack[i].pc \in ExecPc => stack[i].todo = {}
      BY <2>2 DEF OpenWork, HandledFailed
    <3>2. stack'[i].pc \in ExecPc => stack'[i].todo = {}
      BY <1>1, <1>11, <2>2, <3>1
    <3>3. ASSUME stack'[i].pc \in {"handled", "reraise"}
          PROVE  sub'[stack'[i].sub].status = "failed"
      <4>1. stack[i].pc \in ExecPc /\ stack'[i].sub = stack[i].sub
        BY <1>0, <1>1, <1>11, <2>2, <3>3
      <4>2. CASE i = n
        <5>1. g[k].status = "failed" /\ stack[i].sub = k
          BY <1>1, <1>3, <1>11, <3>3, <4>2 DEF k
        <5> QED BY <1>4, <2>2, <4>1, <5>1
      <4>3. CASE i # n
        <5>1. stack[i] = stack'[i]
          BY <1>1, <1>11, <2>2, <4>3
        <5> QED BY <1>4, <2>2, <3>1, <3>3, <4>1, <4>3, <5>1
      <4> QED BY <4>2, <4>3
    <3> QED BY <3>2, <3>3
  <2> QED BY <1>12, <2>1, <2>2
<1>17. CASE T = {}
  BY <1>14, <1>15, <1>16, <1>17, NoneMissed DEF OpenWork, T
<1>18. CASE raised' /\ stack' = callers /\ T \subseteq M /\ \E s \in M : sub'[s].status = "ready"
  <2>1. NothingMissed(stack', sub', raised') /\ MissedAtOutcome(stack', sub', raised')
        /\ MissedAtFailure(stack', sub', raised')
    BY <1>18 DEF NothingMissed, MissedAtOutcome, MissedAtFailure
  <2>2. MissedAboveSuccess(stack', sub')
    BY <1>13, <1>18 DEF MissedAboveSuccess, T
  <2>3. MissedAboveFailure(stack', sub', raised')
    <3> SUFFICES ASSUME NEW i \in 1 .. n,
                        stack'[i].pc = "returned", sub'[stack'[i].sub].status = "failed",
                        \A j \in 1 .. n : j > i => stack'[j].pc # "returned"
                 PROVE  Tame(sub', T)
      BY <1>1, <1>18 DEF MissedAboveFailure, T
    <3>1. g[k].status = "failed"
      <4>1. CASE pc = "handled"
        BY <1>3, <4>1
      <4>2. CASE pc = "returned"
        <5>1. i = n
          <6>1. ~(n > i)
            BY <1>1, <1>11, <4>2
          <6>2. n \in Nat /\ i \in Nat /\ i <= n
            BY <1>1
          <6> QED BY <6>1, <6>2
        <5>2. stack[n].pc \in ExecPc /\ stack'[n].sub = stack[n].sub /\ stack[n].sub = k
          BY <1>1, <1>11 DEF k
        <5> QED BY <1>1, <1>4, <5>1, <5>2
      <4> QED BY <1>3, <4>1, <4>2
    <3>2. PICK s \in M : sub'[s].status = "ready"
      BY <1>18
    <3>3. \A p \in T : p = s
      BY <1>7, <1>18, <3>1, <3>2
    <3> QED BY <3>2, <3>3 DEF Tame, Waiting
  <2> QED BY <1>14, <1>15, <1>16, <2>1, <2>2, <2>3 DEF OpenWork
<1> QED BY <1>10, <1>17, <1>18

\* The work that no pending call will start is accounted for.
LEMMA OpenStep ==
  ASSUME PendInv, SharedObjects, UntoldRepairs, OpenInv, [HeardNext]_vars
  PROVE  OpenInv'
<1>1. PendInv' /\ StepForm
  BY PendStep
<1> SUFFICES ASSUME Lost(sub') = {} PROVE OpenWork(stack', sub', raised')
  BY DEF OpenInv
<1>2. OpenWork(stack, sub, raised)
  BY <1>1, LostStays DEF OpenInv
<1>3. GraphInv(sub')
  BY <1>1 DEF PendInv
<1>4. CASE stack' = stack /\ sub' = sub /\ raised' = raised
  BY <1>2, <1>4
<1>5. CASE Planless
  BY <1>3, <1>5, OpenPlanless
<1>6. CASE \E g : Planned(g)
  BY <1>6, OpenPlanned
<1>7. CASE \E s, f : Starts(s, f)
  BY <1>2, <1>7, OpenStarts
<1>8. CASE Returns
  BY <1>2, <1>8, OpenReturns
<1>9. CASE \E f : Advances(f)
  BY <1>2, <1>9, OpenAdvances
<1>10. CASE \E pc, f, g, r : Answers(pc, f, g, r)
  BY <1>2, <1>10, OpenAnswers
<1> QED BY <1>1, <1>4, <1>5, <1>6, <1>7, <1>8, <1>9, <1>10 DEF StepForm

-----------------------------------------------------------------------------
(* What a step does to one subtask *)

\* The places of an execution between an outcome and its telling.
MidPc == {"stored", "unwind", "caught"}

\* A subtask that no execution touches: it keeps its result, and is at most
\* scheduled or cancelled.
Rests(q, r, x) ==
  /\ r[x].verdict = q[x].verdict /\ r[x].decision = q[x].decision
  /\ r[x].reworked <=> q[x].reworked
  /\ \/ r[x].status = q[x].status
     \/ q[x].status \in {"queued", "ready"} /\ r[x].status \in {"ready", "assigned"}
        /\ Inputs(r, x)
     \/ q[x].status \notin Finished /\ r[x].status = "cancelled"

\* Scheduling leaves what it does not schedule.
LEMMA SchedulesRests ==
  ASSUME NEW q, IsGraph(q), NEW r, Schedules(q, r), NEW x \in 1 .. Len(q)
  PROVE  x \in 1 .. Len(r) /\ Rests(q, r, x)
<1>1. /\ Len(r) = Len(q) /\ q[x].deps \subseteq 1 .. Len(q)
      /\ r[x].deps = q[x].deps
      /\ r[x].verdict = q[x].verdict /\ r[x].decision = q[x].decision
      /\ r[x].reworked = q[x].reworked
  BY DEF Schedules, AllButStatus, IsGraph
<1>2. \/ r[x].status = q[x].status
      \/ x \in Ready(q) /\ r[x].status \in {"ready", "assigned"}
  BY SchedulesStatus
<1>3. ASSUME x \in Ready(q)
      PROVE  q[x].status \in {"queued", "ready"} /\ Inputs(r, x)
  <2>1. \A d \in q[x].deps : q[d].status = "succeeded" /\ d \notin Ready(q)
    BY <1>3 DEF Ready
  <2>2. \A d \in q[x].deps : r[d].status = "succeeded"
    BY <1>1, <2>1, SchedulesStatus
  <2> QED BY <1>1, <1>3, <2>2 DEF Inputs, Ready
<1> QED BY <1>1, <1>2, <1>3 DEF Rests

\* An answer, and the subtasks that were there before it.
LEMMA AnswerNode ==
  ASSUME PendInv, NEW pc, NEW f, NEW g, NEW r, Answers(pc, f, g, r), NEW x \in 1 .. Len(sub)
  PROVE  /\ x \in 1 .. Len(sub')
         /\ x # Top.sub => Rests(sub, sub', x)
         /\ x = Top.sub => sub'[x].status = g[x].status
<1> DEFINE k == Top.sub
<1>1. /\ GraphInv(g) /\ Len(g) = Len(sub) /\ GraphInv(r) /\ Lineage(g, r) /\ k \in 1 .. Len(g)
      /\ Len(stack) \in Nat \ {0} /\ Top = stack[Len(stack)]
  BY AnswerStages
<1>2. /\ Schedules(r, sub') /\ Runs(sub, g, k) /\ Top.pc \in ExecPc
      /\ r = g \/ Chained(g, r, 0, {k}) \/ Chained(g, r, k, g[k].deps)
  BY DEF Answers, Scheduled
<1>3. IsGraph(g) /\ IsGraph(r) /\ Len(g) \in Nat /\ Len(r) \in Nat /\ Len(g) <= Len(r)
  BY <1>1 DEF GraphInv, IsGraph, Lineage
<1>4. x \in 1 .. Len(g) /\ x \in 1 .. Len(r)
  BY <1>1, <1>3
<1>5. x \in 1 .. Len(sub') /\ Rests(r, sub', x)
  BY <1>2, <1>3, <1>4, SchedulesRests
<1>6. CASE x = k
  <2>1. Len(stack) \in 1 .. Len(stack)
    BY <1>1
  <2>2. sub'[x].status = g[x].status
    BY <1>1, <1>2, <1>6, <2>1, AnswerStatus
  <2> QED BY <1>5, <1>6, <2>2
<1>7. CASE x # k
  <2>1. g[x] = sub[x]
    BY <1>2, <1>7 DEF Runs
  <2>2. /\ r[x].verdict = g[x].verdict /\ r[x].decision = g[x].decision
        /\ r[x].reworked <=> g[x].reworked
        /\ r[x].status = g[x].status \/ (g[x].status \notin Finished /\ r[x].status = "cancelled")
    <3>1. CASE r = g
      BY <3>1
    <3>2. CASE Chained(g, r, 0, {k})
      BY <1>4, <1>7, <3>2 DEF Chained
    <3>3. CASE Chained(g, r, k, g[k].deps)
      <4>1. k # 0
        BY <1>1, <1>3
      <4> HIDE DEF k
      <4> QED BY <1>4, <3>3, <4>1 DEF Chained
    <3> QED BY <1>2, <3>1, <3>2, <3>3
  <2>3. Rests(sub, sub', x)
    BY <1>5, <2>1, <2>2 DEF Rests, Finished
  <2> QED BY <1>5, <1>7, <2>3
<1> QED BY <1>6, <1>7

\* What the innermost execution does to its subtask.
Executes(x) ==
  /\ stack # <<>> /\ ~raised /\ Top.sub = x /\ Begun(sub, x)
  /\ \/ /\ Top.pc \in {"begin", "acquire", "work"}
        /\ sub[x].status \notin Finished /\ Begun(sub', x)
     \/ Top.pc = "stored" /\ sub'[x].status = sub[x].status
        /\ sub[x].status \in {"succeeded", "failed"}
     \/ Top.pc = "caught" /\ sub'[x].status = "failed"

\* Every subtask is executed, or rests.
LEMMA NodeStep ==
  ASSUME PendInv, SharedObjects, StepForm, NEW x \in 1 .. Len(sub)
  PROVE  x \in 1 .. Len(sub') /\ (Executes(x) \/ Rests(sub, sub', x))
<1>1. sub # <<>>
  OBVIOUS
<1>2. CASE sub' = sub
  BY <1>2 DEF Rests
<1>3. CASE \E f : Advances(f)
  <2>1. PICK f : Advances(f)
    BY <1>3
  <2>2. CASE /\ ~raised /\ Top.pc \in {"begin", "acquire", "work"} /\ Runs(sub, sub', Top.sub)
             /\ sub[Top.sub].status \notin Finished
    <3>1. CASE x = Top.sub
      BY <2>1, <2>2, <3>1 DEF Advances, Executes, Runs
    <3>2. CASE x # Top.sub
      BY <2>2, <3>2 DEF Runs, Rests
    <3> QED BY <3>1, <3>2
  <2> QED BY <1>2, <2>1, <2>2 DEF Advances
<1>4. CASE \E pc, f, g, r : Answers(pc, f, g, r)
  <2>1. PICK pc, f, g, r : Answers(pc, f, g, r)
    BY <1>4
  <2>2. /\ x \in 1 .. Len(sub')
        /\ x # Top.sub => Rests(sub, sub', x)
        /\ x = Top.sub => sub'[x].status = g[x].status
    BY <2>1, AnswerNode
  <2>3. CASE x = Top.sub
    <3>1. /\ stack # <<>> /\ ~raised /\ Runs(sub, g, x)
          /\ g[x].status \in {"succeeded", "failed"}
          /\ \/ Top.pc = "stored" /\ g = sub
             \/ Top.pc = "caught" /\ g[x].status = "failed"
      BY <2>1, <2>3 DEF Answers
    <3>2. Begun(sub, x)
      BY <3>1 DEF Runs
    <3> QED BY <2>2, <2>3, <3>1, <3>2 DEF Executes
  <2> QED BY <2>2, <2>3
<1> QED BY <1>1, <1>2, <1>3, <1>4 DEF StepForm, Planless, Planned, Starts, Returns

\* New subtasks come with the plan, or in a chain.
LEMMA NodeAdded ==
  ASSUME PendInv, SharedObjects, StepForm, NEW x \in 1 .. Len(sub'), x \notin 1 .. Len(sub)
  PROVE  /\ sub'[x].status \in {"queued", "ready", "assigned"}
         /\ Begun(sub', x) => Inputs(sub', x)
         /\ \/ sub = <<>> /\ sub'[x].source = 0
            \/ /\ stack # <<>> /\ ~raised /\ Top.pc \in {"stored", "caught"}
               /\ sub'[x].attempt \in Nat \ {0}
               /\ ~EnableFailureRepair =>
                    /\ Top.pc = "stored" /\ sub[Top.sub].status = "succeeded"
                    /\ Top.sub \in 1 .. Len(sub)
                    /\ \/ sub'[x].source = 0
                       \/ \A U : Upstream(sub, {Top.sub}, U) => sub'[x].source \in U
<1>1. ~(sub' = sub)
  OBVIOUS
<1>2. CASE Planless
  BY <1>2 DEF Planless
<1>3. CASE \E g : Planned(g)
  <2>1. PICK g : Planned(g)
    BY <1>3
  <2>2. Schedules(g, sub') /\ IsGraph(g) /\ sub = <<>>
    BY <2>1 DEF Planned, Scheduled
  <2>3. x \in 1 .. Len(g)
    BY <2>2 DEF Schedules
  <2>4. g[x].status = "queued" /\ g[x].source = 0
    BY <2>1, <2>3 DEF Planned
  <2>5. Rests(g, sub', x) /\ sub'[x].source = g[x].source
    <3>1. sub'[x].source = g[x].source
      BY <2>2, <2>3 DEF Schedules, AllButStatus
    <3> QED BY <2>2, <2>3, <3>1, SchedulesRests
  <2>6. sub'[x].status \in {"queued", "ready", "assigned"}
    <3>1. sub'[x].status \in {g[x].status, "ready", "assigned"}
      BY <2>2, <2>3, SchedulesStatus
    <3> QED BY <2>4, <3>1
  <2> QED BY <2>2, <2>4, <2>5, <2>6 DEF Rests, Begun
<1>4. CASE \E f : Advances(f)
  BY <1>1, <1>4 DEF Advances, Runs
<1>5. CASE \E pc, f, g, r : Answers(pc, f, g, r)
  <2>1. PICK pc, f, g, r : Answers(pc, f, g, r)
    BY <1>5
  <2> DEFINE k == Top.sub
  <2>2. /\ GraphInv(g) /\ Len(g) = Len(sub) /\ GraphInv(r) /\ k \in 1 .. Len(sub)
    BY <2>1, AnswerStages
  <2>3. /\ Schedules(r, sub') /\ stack # <<>> /\ ~raised
        /\ \/ pc = "returned" /\ Top.pc = "stored" /\ g = sub
           \/ pc = "handled" /\ Top.pc = "caught" /\ g[k].status = "failed"
        /\ \/ r = g
           \/ g[k].status = "succeeded" /\ Chained(g, r, 0, {k})
           \/ WantsRepair(g, k) /\ Chained(g, r, k, g[k].deps)
    BY <2>1 DEF Answers, Scheduled
  <2>4. IsGraph(g) /\ IsGraph(r)
    BY <2>2 DEF GraphInv
  <2>5. x \in 1 .. Len(r) /\ x \notin 1 .. Len(g)
    BY <2>2, <2>3, <2>4, SchedulesStatus
  <2> HIDE DEF k
  <2>6. PICK y, deps : /\ Chained(g, r, y, deps)
                       /\ \/ g[k].status = "succeeded" /\ y = 0 /\ deps = {k}
                          \/ WantsRepair(g, k)
    BY <2>3, <2>5
  <2>7. x \in {Len(g) + 1, Len(g) + 2, Len(g) + 3} /\ r[x].status = "queued"
    BY <2>4, <2>5, <2>6, ChainedStatus
  <2>8. PICK role, attempt, sources :
           /\ ChainAt(r, Len(g), role, deps, attempt, sources)
           /\ attempt \in Nat \ {0}
           /\ \A i \in 1 .. 3 :
                \/ sources[i] = 0
                \/ y = 0 => \A U : Upstream(g, deps, U) => sources[i] \in U
    BY <2>6 DEF Chained
  <2>9. r[x].attempt = attempt /\ \E i \in 1 .. 3 : r[x].source = sources[i]
    BY <2>7, <2>8 DEF ChainAt, NewSubTask
  <2>10. /\ sub'[x].attempt = r[x].attempt /\ sub'[x].source = r[x].source
         /\ Rests(r, sub', x)
         /\ sub'[x].status \in {r[x].status, "ready", "assigned"}
    <3>1. sub'[x].attempt = r[x].attempt /\ sub'[x].source = r[x].source
      BY <2>3, <2>5 DEF Schedules, AllButStatus
    <3> QED BY <2>3, <2>4, <2>5, <3>1, SchedulesRests, SchedulesStatus
  <2>11. Begun(sub', x) => Inputs(sub', x)
    BY <2>7, <2>10 DEF Rests, Begun
  <2>12. ~EnableFailureRepair =>
           /\ Top.pc = "stored" /\ sub[k].status = "succeeded"
           /\ \/ sub'[x].source = 0
              \/ \A U : Upstream(sub, {k}, U) => sub'[x].source \in U
    <3> SUFFICES ASSUME ~EnableFailureRepair
                 PROVE  /\ Top.pc = "stored" /\ sub[k].status = "succeeded"
                        /\ \/ sub'[x].source = 0
                           \/ \A U : Upstream(sub, {k}, U) => sub'[x].source \in U
      OBVIOUS
    <3>1. ~WantsRepair(g, k)
      BY DEF WantsRepair
    <3>2. g[k].status = "succeeded" /\ y = 0 /\ deps = {k}
      BY <2>6, <3>1
    <3>3. Top.pc = "stored" /\ g = sub
      BY <2>3, <3>2
    <3>4. PICK i \in 1 .. 3 : sub'[x].source = sources[i]
      BY <2>9, <2>10
    <3>5. sources[i] = 0 \/ \A U : Upstream(sub, {k}, U) => sources[i] \in U
      BY <2>8, <3>2, <3>3
    <3> QED BY <3>2, <3>3, <3>4, <3>5
  <2> QED BY <2>2, <2>3, <2>7, <2>8, <2>9, <2>10, <2>11, <2>12 DEF k
<1> QED BY <1>1, <1>2, <1>3, <1>4, <1>5 DEF StepForm, Starts, Returns

-----------------------------------------------------------------------------
(* Where a step leaves the pending calls, and the errors *)

\* The call below the innermost one waits.
LEMMA ReturnsTop ==
  ASSUME PendInv, Returns
  PROVE  stack' = <<>> \/ Top'.pc \in Calling
<1>1. TypeInv /\ InStep(stack, sub) /\ stack # <<>> /\ stack' = Front(stack)
      /\ Top.pc \in {"dispatch", "reconcile", "reraise"}
  BY DEF PendInv, StartInv, ActInv, Returns
<1>2. FramesOver(stack, Len(sub)) /\ Len(sub) \in Nat /\ Len(stack) \in Nat \ {0}
  BY <1>1, AfterPlan
<1>3. /\ Len(stack') = Len(stack) - 1 /\ stack' \in Seq(Frame)
      /\ \A i \in 1 .. Len(stack') : i \in 1 .. Len(stack) /\ stack'[i] = stack[i]
  BY <1>1, <1>2, FrontType DEF FramesOver
<1>4. stack' = <<>> \/ (Len(stack') \in 1 .. Len(stack') /\ Len(stack') # Len(stack))
  BY <1>2, <1>3
<1>5. Top' = stack'[Len(stack')]
  BY DEF Top, Last
<1> QED BY <1>1, <1>3, <1>4, <1>5 DEF InStep

\* A loop starts an execution: that one is the innermost call.
LEMMA StartsTop ==
  ASSUME PendInv, NEW s, NEW f, Starts(s, f)
  PROVE  stack' # <<>> /\ Top' = ExecFrame(s)
<1>1. TypeInv
  BY DEF PendInv, StartInv, ActInv
<1>2. /\ stack # <<>> /\ Top.pc = "dispatch" /\ stack' = Append(Replaced(stack, f), ExecFrame(s))
      /\ FrameOver(f, Len(sub)) /\ s \in Top.todo
  BY DEF Starts
<1>3. FramesOver(stack, Len(sub)) /\ Len(sub) \in Nat /\ FrameOver(Top, Len(sub))
  BY <1>1, <1>2, AfterPlan
<1>4. FramesOver(Replaced(stack, f), Len(sub))
  BY <1>2, <1>3, ReplaceTopType
<1>5. Replaced(stack, f) \in Seq(Frame) /\ Len(Replaced(stack, f)) \in Nat
  BY <1>4 DEF FramesOver
<1>6. ExecFrame(s) \in Frame
  <2>1. s \in Nat
    BY <1>2, <1>3 DEF FrameOver
  <2> QED BY <2>1 DEF ExecFrame, Frame, ExecPc
<1> DEFINE callers == Replaced(stack, f)
<1>7. stack' = Append(callers, ExecFrame(s)) /\ callers \in Seq(Frame)
  BY <1>2, <1>5
<1> HIDE DEF callers
<1>8. stack'[Len(stack')] = ExecFrame(s) /\ Len(stack') # 0
  BY <1>6, <1>7
<1>9. Top' = stack'[Len(stack')]
  BY DEF Top, Last
<1> QED BY <1>8, <1>9

\* Only an execution that advances is left between an outcome and its telling.
LEMMA TopAfter ==
  ASSUME PendInv, SharedObjects, StepForm
  PROVE  \/ stack' = stack /\ sub' = sub /\ raised' = raised
         \/ \E f : Advances(f) /\ Top' = f
         \/ stack' = <<>>
         \/ Top'.pc \in Calling \cup {"planning", "begin"}
<1>0. TypeInv
  BY DEF PendInv, StartInv, ActInv
<1>1. Top' = stack'[Len(stack')]
  BY DEF Top, Last
<1>2. CASE Planless
  <2>1. CASE stack' = <<PlanningFrame>>
    BY <1>1, <2>1 DEF PlanningFrame
  <2> QED BY <1>2, <2>1 DEF Planless
<1>3. CASE \E g : Planned(g)
  <2>1. PICK g : Planned(g)
    BY <1>3
  <2> DEFINE callers == <<>>
  <2>2. callers = <<>> /\ callers \in Seq(Frame)
    OBVIOUS
  <2>3. IsGraph(g) /\ Scheduled(callers, g)
    BY <2>1 DEF Planned
  <2> HIDE DEF callers
  <2>4. stack' = callers \/ stack'[Len(stack')] = DispatchFrame(Ready(g))
    BY <2>2, <2>3, ScheduledTop
  <2> QED BY <1>1, <2>2, <2>4 DEF DispatchFrame, Calling
<1>4. CASE \E s, f : Starts(s, f)
  BY <1>4, StartsTop DEF ExecFrame
<1>5. CASE Returns
  BY <1>5, ReturnsTop
<1>6. CASE \E f : Advances(f)
  <2>1. PICK f : Advances(f)
    BY <1>6
  <2>2. Len(stack') = Len(stack) /\ stack'[Len(stack)] = f
    BY <2>1, AdvancedStack
  <2> QED BY <1>1, <2>1, <2>2
<1>7. CASE \E pc, f, g, r : Answers(pc, f, g, r)
  <2>1. PICK pc, f, g, r : Answers(pc, f, g, r)
    BY <1>7
  <2> DEFINE callers == Replaced(stack, f)
  <2>2. /\ GraphInv(r) /\ FramesOver(callers, Len(r))
        /\ Len(callers) = Len(stack) /\ Len(stack) \in Nat \ {0}
        /\ \A i \in 1 .. Len(stack) : callers[i] = IF i = Len(stack) THEN f ELSE stack[i]
    BY <2>1, AnswerStages
  <2>3. Scheduled(callers, r) /\ f.pc \in {"returned", "handled"}
    BY <2>1 DEF Answers
  <2> HIDE DEF callers
  <2>4. IsGraph(r) /\ callers \in Seq(Frame)
    BY <2>2 DEF GraphInv, FramesOver
  <2>5. callers[Len(callers)].pc \in Calling
    BY <2>2, <2>3 DEF Calling
  <2>6. stack' = callers \/ stack'[Len(stack')] = DispatchFrame(Ready(r))
    BY <2>3, <2>4, ScheduledTop
  <2> QED BY <1>1, <2>5, <2>6 DEF DispatchFrame, Calling
<1> QED BY <1>2, <1>3, <1>4, <1>5, <1>6, <1>7 DEF StepForm

\* An exception starts with an error, or goes on.
LEMMA FaultStep ==
  ASSUME TypeInv, [HeardNext]_vars
  PROVE  /\ faults \in Nat /\ faults' \in {faults, faults + 1}
         /\ raised' /\ faults' = faults =>
              raised \/ (Reconcile /\ Top.pc = "reraise")
<1>0. faults \in Nat
  BY BudgetAssumption DEF TypeInv, TypeOK
<1>1. ASSUME NEW callers, NEW q, NEW phase, DispatchReady(callers, q, phase)
      PROVE  \/ faults' = faults /\ raised' = raised
             \/ faults' = faults + 1
  <2>1. CASE Dispatch(callers, q, phase)
    BY <2>1 DEF Dispatch
  <2>2. CASE DispatchRaises(callers, q, phase)
    BY <2>2 DEF DispatchRaises
  <2> QED BY <1>1, <2>1, <2>2 DEF DispatchReady
<1>2. CASE PlanReady \/ Publish \/ Caught
  <2>1. \E callers, q, phase : DispatchReady(callers, q, phase)
    <3>1. CASE PlanReady
      BY <3>1 DEF PlanReady
    <3>2. CASE Publish
      BY <3>2 DEF Publish, OnCompleted, OnFailed
    <3>3. CASE Caught
      BY <3>3 DEF Caught, OnFailed
    <3> QED BY <1>2, <3>1, <3>2, <3>3
  <2> QED BY <1>0, <1>1, <2>1
<1>3. CASE \/ HandleTaskCreated \/ (\E s \in 1 .. Len(sub) : RunNext(s)) \/ LoopEnds
           \/ Begin \/ Acquire \/ Work \/ BodyRaises \/ Return \/ Release \/ Handled
           \/ DeleteTask \/ UNCHANGED vars
  <2>1. faults' = faults /\ raised' = raised
    BY <1>3 DEF HandleTaskCreated, RunNext, LoopEnds, Begin, Acquire, Work,
       BodyRaises, Return, Release, Handled, DeleteTask, vars
  <2> QED BY <1>0, <2>1
<1>4. CASE PlanRaises \/ ReleaseRaises \/ SummaryRaises \/ ReconcileRaises
  <2>1. faults' = faults + 1
    BY <1>4 DEF PlanRaises, ReleaseRaises, SummaryRaises, ReconcileRaises
  <2> QED BY <1>0, <2>1
<1>5. CASE Unwind
  <2>1. faults' = faults /\ raised
    BY <1>5 DEF Unwind
  <2> QED BY <1>0, <2>1
<1>6. CASE Reconcile
  <2>1. faults' = faults /\ raised' = (Top.pc = "reraise")
    BY <1>6 DEF Reconcile
  <2> QED BY <1>0, <1>6, <2>1
<1> QED BY <1>2, <1>3, <1>4, <1>5, <1>6 DEF HeardNext, Next, Step

\* The graph grows.
LEMMA GrowsStep ==
  ASSUME PendInv, SharedObjects, StepForm
  PROVE  Lineage(sub, sub')
<1>1. IsGraph(sub) /\ Len(sub) \in Nat
  BY DEF PendInv, GraphInv, IsGraph
<1>2. CASE sub' = sub
  BY <1>1, <1>2 DEF Lineage, SameLineage
<1>3. CASE sub = <<>> /\ IsGraph(sub')
  <2>1. Len(sub) = 0 /\ Len(sub') \in Nat
    BY <1>3 DEF IsGraph
  <2> QED BY <2>1 DEF Lineage
<1>4. CASE \E g : Planned(g)
  <2>1. sub = <<>> /\ IsGraph(sub')
    BY <1>4 DEF Planned, Scheduled, Schedules
  <2> QED BY <1>3, <2>1
<1>5. CASE \E f : Advances(f)
  BY <1>5, AdvancesHolds
<1>6. CASE \E pc, f, g, r : Answers(pc, f, g, r)
  <2>1. PICK pc, f, g, r : Answers(pc, f, g, r)
    BY <1>6
  <2>2. Lineage(sub, g) /\ Lineage(g, r) /\ IsGraph(g) /\ IsGraph(r)
    BY <2>1, AnswerStages DEF GraphInv
  <2>3. Lineage(r, sub') /\ IsGraph(sub')
    BY <2>1, AnswersHolds DEF GraphInv
  <2> QED BY <1>1, <2>2, <2>3, LineageTrans
<1> QED BY <1>2, <1>4, <1>5, <1>6 DEF StepForm, Planless, Starts, Returns

-----------------------------------------------------------------------------
(* Without errors *)

\* No exception is under way.
NoException == faults = 0 => ~raised /\ (stack # <<>> => Top.pc # "reraise")

\* Without a new error none begins.
LEMMA NoExceptionStep ==
  ASSUME PendInv, SharedObjects, NoException, [HeardNext]_vars, StepForm
  PROVE  NoException'
<1> SUFFICES ASSUME faults' = 0
             PROVE  ~raised' /\ (stack' # <<>> => Top'.pc # "reraise")
  BY DEF NoException
<1>1. TypeInv
  BY DEF PendInv, StartInv, ActInv
<1>2. faults = 0 /\ faults' # faults + 1
  BY <1>1, FaultStep
<1>3. ~raised /\ (stack # <<>> => Top.pc # "reraise")
  BY <1>2 DEF NoException
<1>4. ~raised'
  <2>1. ~(Reconcile /\ Top.pc = "reraise")
    BY <1>3 DEF Reconcile, Running
  <2> QED BY <1>1, <1>2, <1>3, <2>1, FaultStep
<1>5. ASSUME stack' # <<>> PROVE Top'.pc # "reraise"
  <2>1. CASE stack' = stack /\ sub' = sub /\ raised' = raised
    BY <1>3, <1>5, <2>1 DEF Top
  <2>2. ASSUME NEW f, Advances(f), Top' = f
        PROVE  f.pc # "reraise"
    BY <1>2, <1>3, <2>2 DEF Advances
  <2>3. CASE Top'.pc \in Calling \cup {"planning", "begin"}
    BY <2>3 DEF Calling
  <2> QED BY <1>5, <2>1, <2>2, <2>3, TopAfter
<1> QED BY <1>4, <1>5

\* A success that was told, and nothing can undo it.
Settled(d) == sub[d].status = "succeeded" /\ ~AtMid(d)

\* It stays one while no error strikes.
LEMMA SettledStays ==
  ASSUME PendInv, SharedObjects, NoException, [HeardNext]_vars, StepForm, faults' = 0,
         NEW d \in 1 .. Len(sub), Settled(d)
  PROVE  Settled(d)' /\ d \in 1 .. Len(sub')
<1>1. TypeInv
  BY DEF PendInv, StartInv, ActInv
<1>2. faults = 0 /\ faults' # faults + 1
  BY <1>1, FaultStep
<1>3. ~raised
  BY <1>2 DEF NoException
<1>4. ~Executes(d)
  BY DEF Executes, Settled, AtMid, Finished
<1>5. d \in 1 .. Len(sub') /\ sub'[d].status = "succeeded"
  BY <1>4, NodeStep DEF Rests, Settled, Finished
<1>6. ~AtMid(d)'
  <2> SUFFICES ASSUME AtMid(d)' PROVE FALSE
    OBVIOUS
  <2>1. stack' # <<>> /\ ~raised' /\ Top'.pc \in {"stored", "unwind", "caught"} /\ Top'.sub = d
    BY DEF AtMid
  <2>2. CASE stack' = stack /\ sub' = sub /\ raised' = raised
    BY <2>1, <2>2 DEF Settled, AtMid, Top
  <2>3. ASSUME NEW f, Advances(f), Top' = f
        PROVE  FALSE
    <3>1. f.pc \in {"stored", "unwind", "caught"} /\ f.sub = d /\ f.sub = Top.sub
          /\ stack # <<>> /\ Top.pc \in ExecPc
      BY <2>1, <2>3 DEF Advances
    <3>2. sub[Top.sub].status \in StatusAt(Top.pc)
      BY <1>1, <3>1, TopStatus DEF PendInv, StartInv
    <3>3. Top.pc \notin {"stored", "unwind", "caught"}
      BY <1>3, <3>1 DEF Settled, AtMid
    <3>4. Top.pc \notin {"begin", "acquire", "work"}
      BY <3>1, <3>2 DEF Settled, StatusAt
    <3> QED BY <1>2, <1>3, <2>3, <3>1, <3>3, <3>4 DEF Advances
  <2>4. CASE Top'.pc \in Calling \cup {"planning", "begin"}
    BY <2>1, <2>4 DEF Calling
  <2> QED BY <2>1, <2>2, <2>3, <2>4, TopAfter
<1> QED BY <1>5, <1>6 DEF Settled

\* What was scheduled depends on what is settled.
BegunOnSettled ==
  faults = 0 =>
    \A p \in 1 .. Len(sub) : Begun(sub, p) => \A d \in sub[p].deps : Settled(d)

\* Scheduling starts nothing else.
LEMMA BegunOnSettledStep ==
  ASSUME PendInv, SharedObjects, NoException, BegunOnSettled, [HeardNext]_vars, StepForm, PendInv'
  PROVE  BegunOnSettled'
<1> SUFFICES ASSUME faults' = 0, NEW p \in 1 .. Len(sub'), Begun(sub', p),
                    NEW d \in sub'[p].deps
             PROVE  Settled(d)'
  BY DEF BegunOnSettled, Begun
<1>1. TypeInv /\ GraphInv(sub) /\ GraphInv(sub')
  BY DEF PendInv, StartInv, ActInv, GraphInv, IsGraph, Ordered, RepairsFailures,
         BegunOnEnded, Begun, NothingWaits, CancelledBelowFailure, CoversRepairable,
         RepairsCovered, ReviewersObject, Objects
<1>2. faults = 0
  BY <1>1, FaultStep
<1>3. CASE p \in 1 .. Len(sub) /\ Begun(sub, p)
  <2>1. sub'[p].deps = sub[p].deps /\ sub[p].deps \subseteq 1 .. Len(sub)
    <3>1. sub[p].deps \subseteq 1 .. Len(sub)
      BY <1>1, <1>3 DEF GraphInv, IsGraph
    <3> QED BY <1>3, <3>1, GrowsStep DEF Lineage, SameLineage
  <2>2. Settled(d) /\ d \in 1 .. Len(sub)
    BY <1>2, <1>3, <2>1 DEF BegunOnSettled
  <2> QED BY <2>2, SettledStays
<1>4. CASE ~(p \in 1 .. Len(sub) /\ Begun(sub, p))
  <2>1. Inputs(sub', p)
    <3>1. CASE p \in 1 .. Len(sub)
      <4>1. ~Executes(p) /\ Begun(sub', p) /\ ~Begun(sub, p)
        BY <1>4, <3>1 DEF Executes
      <4> QED BY <3>1, <4>1, NodeStep DEF Rests, Begun
    <3>2. CASE p \notin 1 .. Len(sub)
      BY <3>2, NodeAdded
    <3> QED BY <3>1, <3>2
  <2>2. sub'[d].status = "succeeded"
    BY <2>1 DEF Inputs
  <2>3. ~AtMid(d)'
    <3>1. ~(sub' = sub)
      BY <1>4
    <3>2. ASSUME NEW f, Advances(f) PROVE FALSE
      BY <1>4, <3>1, <3>2 DEF Advances, Runs, Begun
    <3>3. stack' = <<>> \/ Top'.pc \in Calling \cup {"planning", "begin"}
      BY <3>1, <3>2, TopAfter
    <3> QED BY <3>3 DEF AtMid, Calling
  <2> QED BY <2>2, <2>3 DEF Settled
<1> QED BY <1>3, <1>4

-----------------------------------------------------------------------------
(* The verdict *)

\* When a graph has which verdict.
LEMMA VerdictCases ==
  ASSUME NEW q
  PROVE  /\ Verdict(q) \in {"open", "succeeded", "failed"}
         /\ Verdict(q) = "succeeded" <=>
              /\ Failed(q) = {} /\ VerificationFailed(q) = {}
              /\ Pending(q) = {} /\ UnresolvedRework(q) = {}
         /\ Verdict(q) = "open" <=>
              Failed(q) = {} /\ VerificationFailed(q) = {} /\ Pending(q) # {}
         /\ Verdict(q) = "failed" =>
              \/ Failed(q) # {}
              \/ VerificationFailed(q) # {} \/ UnresolvedRework(q) # {}
BY DEF Verdict

\* A failure that counts, and is not being told, is lost.
LEMMA FailedLost ==
  ASSUME PendInv, UntoldRepairs, NEW x \in Failed(sub), ~AtMid(x)
  PROVE  x \in Lost(sub)
<1>1. x \in 1 .. Len(sub) /\ sub[x].status = "failed" /\ x \notin Covered(sub)
  BY DEF Failed
<1>2. ~sub[x].repaired
  <2>1. RepairsCovered(sub)
    BY DEF PendInv, GraphInv
  <2> QED BY <1>1, <2>1 DEF RepairsCovered, Covered
<1>3. ~WantsRepair(sub, x)
  BY <1>1 DEF UntoldRepairs
<1> QED BY <1>1, <1>2, <1>3 DEF Lost

\* Without failure repair and without errors a chain covers only successes
\* that nothing can undo.
CoversSettled ==
  ~EnableFailureRepair /\ faults = 0 =>
    \A s, z \in 1 .. Len(sub) : sub[s].source = z => Settled(z)

\* A chain hides no failure that is not repaired.
LEMMA CoveredFailure ==
  ASSUME PendInv, UntoldRepairs, CoversSettled, EnableFailureRepair \/ faults = 0,
         NEW x \in 1 .. Len(sub), sub[x].status = "failed", x \notin Failed(sub)
  PROVE  sub[x].repaired \/ WantsRepair(sub, x)
<1>1. PICK s \in 1 .. Len(sub) : sub[s].source = x
  BY DEF Failed, Covered
<1>2. x # 0
  OBVIOUS
<1>3. CASE EnableFailureRepair
  <2>1. CoversRepairable(sub)
    BY DEF PendInv, GraphInv
  <2>2. sub[x].role \in Repairable /\ (sub[x].repaired \/ sub[x].attempt < MaxRepairAttempts)
    BY <1>1, <1>2, <2>1 DEF CoversRepairable
  <2> QED BY <1>3, <2>2 DEF WantsRepair
<1>4. CASE ~EnableFailureRepair
  <2>1. Settled(x)
    BY <1>1, <1>2, <1>4 DEF CoversSettled
  <2> QED BY <2>1 DEF Settled
<1> QED BY <1>3, <1>4

\* When no failure counts, none is lost.
LEMMA NoneLost ==
  ASSUME PendInv, UntoldRepairs, CoversSettled, EnableFailureRepair \/ faults = 0,
         Failed(sub) = {}
  PROVE  Lost(sub) = {}
<1> SUFFICES ASSUME NEW x \in Lost(sub) PROVE FALSE
  OBVIOUS
<1>1. x \in 1 .. Len(sub) /\ sub[x].status = "failed" /\ ~sub[x].repaired
      /\ ~WantsRepair(sub, x)
  BY DEF Lost
<1>2. x \notin Failed(sub)
  OBVIOUS
<1> QED BY <1>1, <1>2, CoveredFailure

\* A chain of a rework goes back to something below the reviewer.
LEMMA CoversSettledStep ==
  ASSUME PendInv, SharedObjects, NoException, BegunOnSettled, CoversSettled,
         [HeardNext]_vars, StepForm
  PROVE  CoversSettled'
<1> SUFFICES ASSUME ~EnableFailureRepair, faults' = 0,
                    NEW s \in 1 .. Len(sub'), NEW z \in 1 .. Len(sub'), sub'[s].source = z
             PROVE  Settled(z)'
  BY DEF CoversSettled
<1>1. TypeInv /\ GraphInv(sub)
  BY DEF PendInv, StartInv, ActInv
<1>2. faults = 0
  BY <1>1, FaultStep
<1>3. z \in 1 .. Len(sub) /\ Settled(z)
  <2>1. CASE s \in 1 .. Len(sub)
    <3>1. sub[s].source = z
      BY <2>1, GrowsStep DEF Lineage, SameLineage
    <3>2. z \in 1 .. Len(sub)
      <4>1. sub[s].source # 0
        BY <3>1
      <4> QED BY <1>1, <2>1, <3>1, <4>1 DEF GraphInv, CoversRepairable
    <3>3. Settled(z)
      BY <1>2, <2>1, <3>1, <3>2 DEF CoversSettled
    <3> QED BY <3>1, <3>2, <3>3
  <2>2. CASE s \notin 1 .. Len(sub)
    <3> DEFINE U == {d \in 1 .. Len(sub) : Settled(d)}
    <3>0. sub'[s].source # 0
      OBVIOUS
    <3>1. /\ stack # <<>> /\ sub[Top.sub].status = "succeeded" /\ Top.sub \in 1 .. Len(sub)
          /\ \A V : Upstream(sub, {Top.sub}, V) => z \in V
      BY <2>2, <3>0, NodeAdded
    <3>2. \A d \in 1 .. Len(sub) : sub[d].status = "succeeded" => sub[d].deps \subseteq U
      <4> SUFFICES ASSUME NEW d \in 1 .. Len(sub), sub[d].status = "succeeded",
                          NEW e \in sub[d].deps
                   PROVE  e \in U
        OBVIOUS
      <4>1. Begun(sub, d)
        BY DEF Begun
      <4>2. Settled(e)
        BY <1>2, <4>1 DEF BegunOnSettled
      <4>3. e \in 1 .. Len(sub)
        BY <1>1 DEF GraphInv, IsGraph
      <4> QED BY <4>2, <4>3
    <3>3. \A d \in U : d \in 1 .. Len(sub) /\ sub[d].status = "succeeded"
      BY DEF Settled
    <3>4. Upstream(sub, {Top.sub}, U)
      BY <3>1, <3>2, <3>3 DEF Upstream
    <3>5. z \in U
      BY <3>1, <3>4
    <3> QED BY <3>5
  <2> QED BY <2>1, <2>2
<1> QED BY <1>3, SettledStays

-----------------------------------------------------------------------------
(* How a run gets its status *)

\* Reconciling returns.
LEMMA ReconcileReturns ==
  ASSUME Reconcile \/ ReconcileRaises
  PROVE  /\ Returns /\ stack # <<>> /\ ~raised /\ sub' = sub
         /\ Top.pc \in {"reconcile", "reraise"} /\ Settle(Verdict(sub))
<1>1. CASE Reconcile
  BY <1>1 DEF Reconcile, Returns, Running
<1>2. CASE ReconcileRaises
  BY <1>2 DEF ReconcileRaises, Returns, Running
<1> QED BY <1>1, <1>2

\* A run without a graph has no verdict, and no run is cancelled.
PlanFirst ==
  /\ sub = <<>> => run.status \in {"pending", "running"}
  /\ run.status # "cancelled"

\* A status that is new is the verdict on the graph, as it is and stays.
LEMMA VerdictStep ==
  ASSUME TypeInv, [HeardNext]_vars, run'.status # run.status
  PROVE  \/ run.status = "pending" /\ run'.status = "running"
         \/ /\ Reconcile \/ ReconcileRaises
            /\ run'.status = Verdict(sub) /\ run'.status \in {"succeeded", "failed"}
<1>1. ASSUME Reconcile \/ ReconcileRaises
      PROVE  run'.status = Verdict(sub) /\ run'.status \in {"succeeded", "failed"}
  <2>1. Settle(Verdict(sub)) /\ stack # <<>> /\ Top.pc \in {"reconcile", "reraise"}
    BY <1>1, ReconcileReturns
  <2>2. run.status # "pending"
    BY <2>1, AfterPlan
  <2>3. Verdict(sub) # "open"
    BY <2>1, <2>2 DEF Settle
  <2>4. run'.status = Verdict(sub)
    BY <2>1, <2>3 DEF Settle
  <2> QED BY <2>3, <2>4, VerdictCases
<1> QED BY <1>1, RunStatusStep

\* The plan comes before the first verdict.
LEMMA PlanFirstStep ==
  ASSUME PendInv, SharedObjects, PlanFirst, [HeardNext]_vars, StepForm
  PROVE  PlanFirst'
<1>1. TypeInv /\ IsGraph(sub)
  BY DEF PendInv, StartInv, ActInv, GraphInv
<1>2. sub' = <<>> => sub = <<>>
  <2>1. Len(sub) <= Len(sub')
    BY GrowsStep DEF Lineage
  <2>2. Len(sub) \in Nat /\ (Len(sub) = 0 => sub = <<>>)
    BY <1>1 DEF IsGraph
  <2>3. sub' = <<>> => Len(sub') = 0
    OBVIOUS
  <2> QED BY <2>1, <2>2, <2>3
<1>3. CASE run'.status = run.status
  BY <1>2, <1>3 DEF PlanFirst
<1>4. CASE run'.status = "running"
  BY <1>4 DEF PlanFirst
<1>5. CASE (Reconcile \/ ReconcileRaises) /\ run'.status \in {"succeeded", "failed"}
  <2>1. stack # <<>> /\ Top.pc \in {"reconcile", "reraise"} /\ sub' = sub
    BY <1>5, ReconcileReturns
  <2>2. Top.sub \in 1 .. Len(sub)
    <3>1. Top.pc \in ExecPc /\ Top.pc # "planning"
      BY <2>1 DEF ExecPc
    <3> QED BY <1>1, <2>1, <3>1, AfterPlan
  <2>3. sub # <<>>
    <3>1. sub = <<>> => Len(sub) = 0
      OBVIOUS
    <3> QED BY <2>2, <3>1
  <2> QED BY <1>5, <2>1, <2>3 DEF PlanFirst
<1> QED BY <1>1, <1>3, <1>4, <1>5, VerdictStep

\* What has finished stays finished.
LEMMA FinishedKept ==
  ASSUME PendInv, SharedObjects, StepForm, NEW x \in 1 .. Len(sub),
         sub[x].status \in Finished
  PROVE  sub'[x].status \in Finished /\ x \in 1 .. Len(sub')
<1>1. CASE Executes(x)
  BY <1>1, NodeStep DEF Executes, Finished
<1>2. CASE Rests(sub, sub', x)
  BY <1>2, NodeStep DEF Rests, Finished
<1> QED BY <1>1, <1>2, NodeStep

\* Once a run has succeeded only chains are open.
OnlyChainsWait ==
  run.status = "succeeded" => \A p \in Pending(sub) : sub[p].attempt > 0

\* After a success no plan is stored any more.
LEMMA OnlyChainsWaitStep ==
  ASSUME PendInv, SharedObjects, PlanFirst, OnlyChainsWait, [HeardNext]_vars, StepForm
  PROVE  OnlyChainsWait'
<1> SUFFICES ASSUME run'.status = "succeeded", NEW p \in 1 .. Len(sub'),
                    sub'[p].status \notin Finished
             PROVE  sub'[p].attempt > 0
  BY DEF OnlyChainsWait, Pending
<1>1. CASE run.status = "succeeded" /\ p \in 1 .. Len(sub)
  <2>1. sub[p].status \notin Finished
    BY <1>1, FinishedKept
  <2>2. sub[p].attempt > 0
    BY <1>1, <2>1 DEF OnlyChainsWait, Pending
  <2>3. sub'[p].attempt = sub[p].attempt
    BY <1>1, GrowsStep DEF Lineage, SameLineage
  <2> QED BY <2>2, <2>3
<1>2. CASE run.status = "succeeded" /\ p \notin 1 .. Len(sub)
  <2>1. sub # <<>>
    BY <1>2 DEF PlanFirst
  <2>2. sub'[p].attempt \in Nat \ {0}
    BY <1>2, <2>1, NodeAdded
  <2> QED BY <2>2
<1>3. CASE run.status # "succeeded"
  <2>1. (Reconcile \/ ReconcileRaises) /\ Verdict(sub) = "succeeded"
    BY <1>3, VerdictStep DEF PendInv, StartInv, ActInv
  <2>2. sub' = sub /\ Pending(sub) = {}
    BY <2>1, ReconcileReturns, VerdictCases
  <2> QED BY <2>2 DEF Pending
<1> QED BY <1>1, <1>2, <1>3

\* Where an execution that goes on to tell an outcome comes from.
LEMMA StoredAfter ==
  ASSUME PendInv, SharedObjects, StepForm, stack' # <<>>, Top'.pc = "stored"
  PROVE  \/ stack' = stack /\ sub' = sub
         \/ /\ stack # <<>> /\ Top'.sub = Top.sub /\ Top.sub \in 1 .. Len(sub)
            /\ sub[Top.sub].status \notin Finished
<1>1. ASSUME NEW f, Advances(f), Top' = f
      PROVE  /\ stack # <<>> /\ Top'.sub = Top.sub /\ Top.sub \in 1 .. Len(sub)
             /\ sub[Top.sub].status \notin Finished
  <2>1. f.pc = "stored" /\ f.sub = Top.sub
    BY <1>1 DEF Advances
  <2>2. sub[Top.sub].status \notin Finished /\ stack # <<>>
    BY <1>1, <2>1 DEF Advances
  <2>3. Top.sub \in 1 .. Len(sub)
    BY <1>1, AdvancedStack
  <2> QED BY <1>1, <2>1, <2>2, <2>3
<1>2. Top'.pc \notin Calling \cup {"planning", "begin"}
  BY DEF Calling
<1> QED BY <1>1, <1>2, TopAfter

\* Without failure repair a success leaves nothing open and nothing to tell.
NothingLeft ==
  run.status = "succeeded" /\ ~EnableFailureRepair =>
    Pending(sub) = {} /\ (stack # <<>> => Top.pc # "stored")

\* Without repair nothing is added to a success: chains need an outcome that
\* was not told.
LEMMA NothingLeftStep ==
  ASSUME PendInv, SharedObjects, PlanFirst, NothingLeft, [HeardNext]_vars, StepForm
  PROVE  NothingLeft'
<1> SUFFICES ASSUME run'.status = "succeeded", ~EnableFailureRepair
             PROVE  /\ \A p \in 1 .. Len(sub') : sub'[p].status \in Finished
                    /\ stack' # <<>> => Top'.pc # "stored"
  BY DEF NothingLeft, Pending
<1>1. CASE run.status = "succeeded"
  <2>1. \A p \in 1 .. Len(sub) : sub[p].status \in Finished
    BY <1>1 DEF NothingLeft, Pending
  <2>2. stack # <<>> => Top.pc # "stored"
    BY <1>1 DEF NothingLeft
  <2>3. ASSUME NEW p \in 1 .. Len(sub') PROVE sub'[p].status \in Finished
    <3>1. p \in 1 .. Len(sub)
      BY <1>1, <2>2, <2>3, NodeAdded DEF PlanFirst
    <3> QED BY <2>1, <3>1, FinishedKept
  <2>4. ASSUME stack' # <<>>, Top'.pc = "stored" PROVE FALSE
    <3>1. CASE stack' = stack /\ sub' = sub
      BY <2>2, <2>4, <3>1 DEF Top
    <3> QED BY <2>1, <2>4, <3>1, StoredAfter
  <2> QED BY <2>3, <2>4
<1>2. CASE run.status # "succeeded"
  <2>1. (Reconcile \/ ReconcileRaises) /\ Verdict(sub) = "succeeded"
    BY <1>2, VerdictStep DEF PendInv, StartInv, ActInv
  <2>2. sub' = sub /\ Pending(sub) = {} /\ Returns
    BY <2>1, ReconcileReturns, VerdictCases
  <2>3. stack' # <<>> => Top'.pc # "stored"
    BY <2>2, ReturnsTop DEF Calling
  <2> QED BY <2>2, <2>3 DEF Pending
<1> QED BY <1>1, <1>2

\* Without errors the graph of a success stays one.
SuccessStands ==
  run.status = "succeeded" /\ faults = 0 =>
    Verdict(sub) = "succeeded" /\ (stack # <<>> => Top.pc \notin MidPc)

\* A graph that rests keeps its verdict.
LEMMA RestsSucceeded ==
  ASSUME NEW q, NEW r, Len(r) = Len(q), Verdict(q) = "succeeded",
         \A x \in 1 .. Len(q) : /\ r[x].source = q[x].source
                                /\ r[x].status = q[x].status
                                /\ r[x].verdict = q[x].verdict /\ r[x].decision = q[x].decision
                                /\ r[x].reworked <=> q[x].reworked
  PROVE  Verdict(r) = "succeeded"
<1>1. Covered(r) = Covered(q)
  BY DEF Covered
<1>2. Failed(r) = {}
  <2>1. Failed(q) = {}
    BY VerdictCases
  <2> QED BY <1>1, <2>1 DEF Failed
<1>3. Pending(r) = {}
  <2>1. Pending(q) = {}
    BY VerdictCases
  <2> QED BY <2>1 DEF Pending
<1>4. VerificationFailed(r) = {}
  <2>1. VerificationFailed(q) = {}
    BY VerdictCases
  <2> QED BY <2>1 DEF VerificationFailed, Succeeded
<1>5. UnresolvedRework(r) = {}
  <2>1. UnresolvedRework(q) = {}
    BY VerdictCases
  <2> QED BY <2>1 DEF UnresolvedRework, Succeeded
<1> QED BY <1>2, <1>3, <1>4, <1>5, VerdictCases

\* Without errors nothing happens to it at all.
LEMMA SuccessStandsStep ==
  ASSUME PendInv, SharedObjects, NoException, PlanFirst, SuccessStands, [HeardNext]_vars, StepForm
  PROVE  SuccessStands'
<1> SUFFICES ASSUME run'.status = "succeeded", faults' = 0
             PROVE  /\ Verdict(sub') = "succeeded"
                    /\ stack' # <<>> => Top'.pc \notin MidPc
  BY DEF SuccessStands, Verdict, Failed, Covered, VerificationFailed, Succeeded, Pending,
         UnresolvedRework
<1>1. faults = 0 /\ faults' # faults + 1 /\ TypeInv
  BY FaultStep DEF PendInv, StartInv, ActInv
<1>2. CASE run.status = "succeeded"
  <2>1. Verdict(sub) = "succeeded" /\ (stack # <<>> => Top.pc \notin MidPc)
    BY <1>1, <1>2 DEF SuccessStands
  <2>2. \A p \in 1 .. Len(sub) : sub[p].status \in Finished
    BY <2>1, VerdictCases DEF Pending
  <2>3. \A p \in 1 .. Len(sub') : p \in 1 .. Len(sub)
    BY <1>2, <2>1, NodeAdded DEF PlanFirst, MidPc
  <2>4. Len(sub') = Len(sub)
    <3>1. Len(sub) <= Len(sub')
      BY GrowsStep DEF Lineage
    <3>2. Len(sub') \in Nat /\ Len(sub) \in Nat
      <4>1. sub \in Seq(SubTask) /\ TypeInv'
        BY <1>1, HeardIsNext, TypeStep DEF TypeInv, TypeOK
      <4>2. sub' \in Seq(SubTask)
        BY <4>1 DEF TypeInv, TypeOK
      <4> QED BY <4>1, <4>2
    <3> QED BY <2>3, <3>1, <3>2
  <2>5. ASSUME NEW x \in 1 .. Len(sub)
        PROVE  /\ sub'[x].source = sub[x].source
               /\ sub'[x].status = sub[x].status
               /\ sub'[x].verdict = sub[x].verdict /\ sub'[x].decision = sub[x].decision
               /\ sub'[x].reworked <=> sub[x].reworked
    <3>1. ~Executes(x)
      BY <2>1, <2>2 DEF Executes, MidPc
    <3>2. Rests(sub, sub', x)
      BY <3>1, NodeStep
    <3>3. sub'[x].source = sub[x].source
      BY GrowsStep DEF Lineage, SameLineage
    <3> QED BY <2>2, <3>2, <3>3 DEF Rests, Finished
  <2>6. Verdict(sub') = "succeeded"
    BY <2>1, <2>4, <2>5, RestsSucceeded
  <2>7. ASSUME stack' # <<>> PROVE Top'.pc \notin MidPc
    <3>1. CASE stack' = stack
      BY <2>1, <2>7, <3>1 DEF Top
    <3>2. ASSUME NEW f, Advances(f), Top' = f PROVE f.pc \notin MidPc
      <4>1. Top.pc \notin {"begin", "acquire", "work"}
        <5>1. stack # <<>> /\ Top.pc \in ExecPc /\ Top.sub \in 1 .. Len(sub)
          BY <3>2, AdvancedStack
        <5>2. sub[Top.sub].status \in StatusAt(Top.pc)
          BY <5>1, TopStatus DEF PendInv, StartInv
        <5> QED BY <2>2, <5>1, <5>2 DEF StatusAt, Finished
      <4>2. Top.pc \notin MidPc /\ ~raised
        BY <1>1, <2>1, <3>2 DEF Advances, NoException
      <4> QED BY <1>1, <3>2, <4>1, <4>2 DEF Advances, MidPc
    <3>3. CASE Top'.pc \in Calling \cup {"planning", "begin"}
      BY <3>3 DEF Calling, MidPc
    <3> QED BY <2>7, <3>1, <3>2, <3>3, TopAfter
  <2> QED BY <2>6, <2>7
<1>3. CASE run.status # "succeeded"
  <2>1. (Reconcile \/ ReconcileRaises) /\ Verdict(sub) = "succeeded"
    BY <1>3, VerdictStep DEF PendInv, StartInv, ActInv
  <2>2. sub' = sub /\ Returns
    BY <2>1, ReconcileReturns
  <2>3. stack' # <<>> => Top'.pc \notin MidPc
    BY <2>2, ReturnsTop DEF Calling, MidPc
  <2> QED BY <2>1, <2>2, <2>3
<1> QED BY <1>2, <1>3

\* An objection that was told and started no rework.
Unresolved ==
  {x \in 1 .. Len(sub) :
     /\ sub[x].status = "succeeded" /\ Objects(sub[x]) /\ ~sub[x].reworked
     /\ ~(stack # <<>> /\ Top.pc = "stored" /\ Top.sub = x)}

\* A failed run has a failure that nothing repairs, or such an objection.
FailureStands == run.status = "failed" => Lost(sub) # {} \/ Unresolved # {}

\* What makes a run fail is not repaired later, and a reviewer whose execution
\* raises leaves a failure that nobody repairs.
LEMMA FailureStandsStep ==
  ASSUME PendInv, SharedObjects, UntoldRepairs, FailureStands, [HeardNext]_vars, StepForm, PendInv'
  PROVE  FailureStands'
<1> SUFFICES ASSUME run'.status = "failed" PROVE Lost(sub') # {} \/ Unresolved' # {}
  BY DEF FailureStands, Lost, WantsRepair
<1>1. RepairsFailures(sub')
  BY DEF PendInv, GraphInv, RepairsFailures
<1>2. CASE Lost(sub) # {}
  BY <1>2, LostStays
<1>3. ASSUME NEW x \in Unresolved PROVE Lost(sub') # {} \/ Unresolved' # {}
  <2>1. /\ x \in 1 .. Len(sub) /\ sub[x].status = "succeeded" /\ Objects(sub[x])
        /\ ~sub[x].reworked /\ ~(stack # <<>> /\ Top.pc = "stored" /\ Top.sub = x)
    BY <1>3 DEF Unresolved
  <2>2. sub[x].role = "reviewer"
    BY <2>1 DEF PendInv, GraphInv, ReviewersObject
  <2>3. x \in 1 .. Len(sub')
    BY <2>1, NodeStep
  <2>4. CASE Executes(x)
    <3>1. sub'[x].status = "failed"
      BY <2>1, <2>4 DEF Executes, Finished
    <3>2. sub'[x].role = "reviewer"
      BY <2>1, <2>2, GrowsStep DEF Lineage, SameLineage
    <3>3. "reviewer" \notin Repairable
      BY DEF Repairable, Makers
    <3>4. ~sub'[x].repaired
      BY <1>1, <2>3, <3>2, <3>3 DEF RepairsFailures
    <3>5. ~WantsRepair(sub', x)
      BY <3>2, <3>3 DEF WantsRepair
    <3> QED BY <2>3, <3>1, <3>4, <3>5 DEF Lost
  <2>5. CASE Rests(sub, sub', x)
    <3>1. sub'[x].status = "succeeded" /\ Objects(sub'[x]) /\ ~sub'[x].reworked
      BY <2>1, <2>5 DEF Rests, Objects, Finished
    <3>2. ~(stack' # <<>> /\ Top'.pc = "stored" /\ Top'.sub = x)
      <4> SUFFICES ASSUME stack' # <<>>, Top'.pc = "stored", Top'.sub = x PROVE FALSE
        OBVIOUS
      <4>1. CASE stack' = stack
        BY <2>1, <4>1 DEF Top
      <4> QED BY <2>1, <4>1, StoredAfter DEF Finished
    <3> QED BY <2>3, <3>1, <3>2 DEF Unresolved, Objects
  <2> QED BY <2>1, <2>4, <2>5, NodeStep
<1>4. CASE run.status # "failed"
  <2>1. (Reconcile \/ ReconcileRaises) /\ Verdict(sub) = "failed"
    BY <1>4, VerdictStep DEF PendInv, StartInv, ActInv
  <2>2. sub' = sub /\ Returns /\ Top.pc \in {"reconcile", "reraise"}
    BY <2>1, ReconcileReturns
  <2>3. CASE Failed(sub) # {}
    <3>1. PICK x \in Failed(sub) : TRUE
      BY <2>3
    <3>2. ~AtMid(x)
      BY <2>2 DEF AtMid
    <3>3. x \in Lost(sub)
      BY <3>2, FailedLost
    <3> QED BY <2>2, <3>3
  <2>4. ASSUME NEW x \in VerificationFailed(sub) \cup UnresolvedRework(sub)
        PROVE  x \in Unresolved'
    <3>1. x \in 1 .. Len(sub) /\ sub[x].status = "succeeded" /\ Objects(sub[x])
          /\ ~sub[x].reworked
      BY <2>4 DEF VerificationFailed, UnresolvedRework, Succeeded, Objects
    <3>2. ~(stack' # <<>> /\ Top'.pc = "stored" /\ Top'.sub = x)
      BY <2>2, ReturnsTop DEF Calling
    <3> QED BY <2>2, <3>1, <3>2 DEF Unresolved, Objects
  <2> QED BY <2>1, <2>3, <2>4, VerdictCases
<1> QED BY <1>2, <1>3, <1>4 DEF FailureStands

\* Where no call is going to reconcile any more.
AtRest == ~raised /\ run.status # "pending"
            /\ (stack = <<>> \/ (Top.pc = "dispatch" /\ Top.todo = {}))

\* What the task shows of the run.
Shows(t, r) == t \in {r} \cup (IF MayDelete THEN {"cancelled"} ELSE {})

\* There the run has the verdict on its graph, if that is decided.
VerdictKnown ==
  AtRest => \/ Verdict(sub) = "open"
            \/ run.status = Verdict(sub) /\ Shows(task, run.status)

\* An execution gets on: it is still the innermost call.
LEMMA AdvancesBusy ==
  ASSUME PendInv, NEW f, Advances(f)
  PROVE  ~AtRest'
<1>1. stack' # <<>> /\ Len(stack') = Len(stack) /\ stack'[Len(stack)] = f /\ f.pc \in ExecPc
  BY AdvancedStack
<1>2. Top' = stack'[Len(stack')]
  BY DEF Top, Last
<1>3. "dispatch" \notin ExecPc
  BY DEF ExecPc
<1> QED BY <1>1, <1>2, <1>3 DEF AtRest

\* An answer leaves a loop with subtasks to start, the execution, or an
\* exception.
LEMMA AnswersBusy ==
  ASSUME PendInv, NEW pc, NEW f, NEW g, NEW r, Answers(pc, f, g, r)
  PROVE  ~AtRest'
<1> DEFINE callers == Replaced(stack, f)
<1>1. /\ Len(stack) \in Nat \ {0} /\ Len(callers) = Len(stack) /\ callers[Len(stack)] = f
      /\ f.pc \in ExecPc
  BY AnswerCallers
<1>2. callers \in Seq(Frame) /\ IsGraph(r)
  <2>1. FramesOver(callers, Len(r)) /\ GraphInv(r)
    BY AnswerStages
  <2> QED BY <2>1 DEF FramesOver, GraphInv
<1>3. Scheduled(callers, r)
  BY DEF Answers
<1>4. "dispatch" \notin ExecPc
  BY DEF ExecPc
<1>5. Top' = stack'[Len(stack')]
  BY DEF Top, Last
<1> HIDE DEF callers
<1>6. CASE stack' = callers
  <2>1. stack' # <<>> /\ Top'.pc \in ExecPc
    BY <1>1, <1>5, <1>6
  <2> QED BY <1>4, <2>1 DEF AtRest
<1>7. CASE stack' # callers
  <2>1. Ready(r) # {} /\ stack' = Append(callers, DispatchFrame(Ready(r)))
    BY <1>3, <1>7 DEF Scheduled
  <2>2. stack' # <<>> /\ stack'[Len(stack')] = DispatchFrame(Ready(r))
    BY <1>2, <1>3, <1>7, ScheduledTop
  <2>3. Top'.todo = Ready(r)
    BY <1>5, <2>2 DEF DispatchFrame
  <2> QED BY <2>1, <2>2, <2>3 DEF AtRest
<1> QED BY <1>6, <1>7

\* The plan is stored: work is open, or an exception is under way.
LEMMA PlannedOpen ==
  ASSUME NEW g, Planned(g), AtRest'
  PROVE  Verdict(sub') = "open"
<1>1. Schedules(g, sub') /\ IsGraph(g) /\ g # <<>>
      /\ \A k \in 1 .. Len(g) : g[k].status = "queued"
  BY DEF Planned, Scheduled
<1>2. Ready(g) = {}
  <2> SUFFICES ASSUME Ready(g) # {} PROVE FALSE
    OBVIOUS
  <2>1. ~raised'
    BY DEF AtRest
  <2>2. stack' = Append(<<>>, DispatchFrame(Ready(g)))
    BY <2>1 DEF Planned, Scheduled
  <2>3. stack' = <<DispatchFrame(Ready(g))>>
    BY <2>2
  <2>4. stack' # <<>> /\ Top' = DispatchFrame(Ready(g))
    BY <2>3 DEF Top, Last
  <2>5. Top'.todo = Ready(g)
    BY <2>4 DEF DispatchFrame
  <2> QED BY <2>4, <2>5 DEF AtRest
<1>3. Len(sub') = Len(g) /\ \A k \in 1 .. Len(g) : sub'[k].status = "queued"
  BY <1>1, <1>2 DEF Schedules
<1>4. 1 \in 1 .. Len(g)
  <2>1. g \in Seq(SubTask) /\ g # <<>>
    BY <1>1 DEF IsGraph
  <2> QED BY <2>1
<1>5. 1 \in Pending(sub')
  BY <1>3, <1>4 DEF Pending, Finished
<1>6. Failed(sub') = {} /\ VerificationFailed(sub') = {}
  BY <1>3 DEF Failed, VerificationFailed, Succeeded
<1> QED BY <1>5, <1>6, VerdictCases

\* Every way to get there goes through reconcile, or leaves work open.
LEMMA VerdictKnownStep ==
  ASSUME PendInv, SharedObjects, VerdictKnown, [HeardNext]_vars, StepForm
  PROVE  VerdictKnown'
<1> SUFFICES ASSUME AtRest'
             PROVE  Verdict(sub') = "open"
                      \/ (run'.status = Verdict(sub') /\ Shows(task', run'.status))
  BY DEF VerdictKnown, Verdict, Failed, Covered, VerificationFailed, Succeeded, Pending,
         UnresolvedRework, Shows
<1>1. ~raised' /\ run'.status # "pending"
      /\ (stack' = <<>> \/ (Top'.pc = "dispatch" /\ Top'.todo = {}))
  BY DEF AtRest
<1>2. TypeInv
  BY DEF PendInv, StartInv, ActInv
<1>3. CASE UNCHANGED vars
  <2>1. AtRest
    BY <1>1, <1>3 DEF vars, AtRest, Top
  <2> QED BY <1>3, <2>1 DEF VerdictKnown, vars
<1>4. CASE HandleTaskCreated
  <2>1. stack' = <<PlanningFrame>>
    BY <1>4 DEF HandleTaskCreated
  <2>2. stack' # <<>> /\ Top' = PlanningFrame
    BY <2>1 DEF Top, Last
  <2> QED BY <1>1, <2>2 DEF PlanningFrame
<1>5. CASE PlanReady
  <2>1. sub = <<>>
    <3>1. stack # <<>> /\ Top.pc = "planning"
      BY <1>5 DEF PlanReady, At, Running
    <3>2. Len(stack) \in Nat \ {0} /\ Top = stack[Len(stack)]
      <4>1. IsGraph(sub) /\ FramesOver(stack, Len(sub))
        BY <1>2, TypeOKParts DEF TypeInv
      <4> QED BY <3>1, <4>1, TopType
    <3> QED BY <1>2, <3>1, <3>2 DEF TypeInv, BeforePlan
  <2>2. PICK g : Planned(g)
    BY <1>5, <2>1, PlanPlanned
  <2> QED BY <2>2, PlannedOpen
<1>6. CASE PlanRaises
  BY <1>1, <1>6 DEF PlanRaises
<1>7. ASSUME NEW s \in 1 .. Len(sub), RunNext(s) PROVE FALSE
  <2>1. PICK f : Starts(s, f)
    BY <1>7, RunNextStarts
  <2>2. stack' # <<>> /\ Top' = ExecFrame(s)
    BY <2>1, StartsTop
  <2> QED BY <1>1, <2>2 DEF ExecFrame
<1>8. CASE LoopEnds
  <2>1. /\ sub' = sub /\ run' = run /\ task' = task /\ raised' = raised
        /\ Top.pc = "dispatch" /\ Top.todo = {}
    BY <1>8 DEF LoopEnds, At
  <2>2. AtRest
    BY <1>1, <2>1 DEF AtRest
  <2> QED BY <2>1, <2>2 DEF VerdictKnown
<1>9. CASE Unwind /\ Top.pc = "dispatch"
  BY <1>1, <1>9 DEF Unwind
<1>10. CASE \/ Begin \/ Acquire \/ Work \/ BodyRaises \/ Return \/ Release \/ ReleaseRaises
            \/ SummaryRaises \/ Handled \/ (Unwind /\ Top.pc # "dispatch")
  <2>1. PICK f : Advances(f)
    BY <1>10, MovesAdvances DEF PendInv, StartInv
  <2> QED BY <2>1, AdvancesBusy
<1>11. CASE Publish
  <2>1. PICK f, r : Answers("returned", f, sub, r)
    BY <1>11, PublishAnswers
  <2> QED BY <2>1, AnswersBusy
<1>12. CASE Caught
  <2>1. PICK f, g, r : Answers("handled", f, g, r)
    BY <1>12, CaughtAnswers
  <2> QED BY <2>1, AnswersBusy
<1>13. CASE Reconcile
  <2>1. Settle(Verdict(sub)) /\ sub' = sub
    BY <1>13 DEF Reconcile
  <2>2. CASE Verdict(sub) = "open"
    BY <2>1, <2>2
  <2>3. CASE Verdict(sub) # "open"
    BY <2>1, <2>3 DEF Settle, Shows
  <2> QED BY <2>2, <2>3
<1>14. CASE ReconcileRaises
  BY <1>1, <1>14 DEF ReconcileRaises
<1>15. CASE DeleteTask
  <2>1. /\ sub' = sub /\ run' = run /\ stack' = stack /\ raised' = raised
        /\ MayDelete /\ task' = "cancelled"
    BY <1>15 DEF DeleteTask
  <2>2. AtRest
    BY <1>1, <2>1 DEF AtRest, Top
  <2> QED BY <2>1, <2>2 DEF VerdictKnown, Shows
<1> QED BY <1>3, <1>4, <1>5, <1>6, <1>7, <1>8, <1>9, <1>10, <1>11, <1>12, <1>13, <1>14, <1>15
        DEF HeardNext, Next, Step

\* Without errors a verdict was announced.
Announced ==
  faults = 0 /\ run.status \in {"succeeded", "failed"} => announced = run.status

\* Reconciling announces what it changes.
LEMMA AnnouncedStep ==
  ASSUME TypeInv, Announced, [HeardNext]_vars
  PROVE  Announced'
<1> SUFFICES ASSUME faults' = 0, run'.status \in {"succeeded", "failed"}
             PROVE  announced' = run'.status
  BY DEF Announced
<1>1. faults = 0 /\ faults' # faults + 1
  BY FaultStep
<1>2. CASE run'.status = run.status /\ announced' = announced
  BY <1>1, <1>2 DEF Announced
<1>3. CASE Reconcile
  <2>1. CASE <<run', task'>> # <<run, task>>
    BY <1>3, <2>1 DEF Reconcile, Announce
  <2>2. CASE <<run', task'>> = <<run, task>>
    <3>1. run' = run /\ announced' = announced
      BY <1>3, <2>2 DEF Reconcile, Announce
    <3> QED BY <1>1, <3>1 DEF Announced
  <2> QED BY <2>1, <2>2
<1>4. ~ReconcileRaises
  BY <1>1 DEF ReconcileRaises
<1> QED BY <1>2, <1>3, <1>4, RunStatusStep

-----------------------------------------------------------------------------
(* The theorems *)

\* The inductive invariant: the graph and the pending calls, the failures that
\* are to be repaired, the work that nobody will start, and the verdict.
VerdictInv ==
  /\ PendInv /\ UntoldRepairs /\ OpenInv
  /\ NoException /\ BegunOnSettled /\ CoversSettled
  /\ PlanFirst /\ OnlyChainsWait /\ NothingLeft /\ SuccessStands /\ FailureStands
  /\ VerdictKnown /\ Announced

\* It holds of a run that has not started.
LEMMA VerdictInit == Init => VerdictInv
<1> SUFFICES ASSUME Init PROVE VerdictInv
  OBVIOUS
<1>1. /\ sub = <<>> /\ stack = <<>> /\ ~raised /\ faults = 0 /\ announced = "none"
      /\ run = [status |-> "pending", phase |-> "intake"]
      /\ Len(sub) = 0 /\ Len(stack) = 0 /\ 1 .. Len(stack) = {} /\ 1 .. Len(sub) = {}
      /\ run.status = "pending"
  BY DEF Init
<1>2. StartInv
  <2>1. ActInv
    BY ActInit
  <2> QED BY <1>1, <2>1 DEF StartInv, LoopInputs, ExecInputs, BusyIsHeld
<1>3. PendInv
  <2>1. IsGraph(sub)
    BY <1>1 DEF IsGraph
  <2>2. GraphInv(sub)
    BY <1>1, <2>1, PlannedGraph
  <2>3. LoopsHold(stack, sub) /\ ExecsHold(stack, sub) /\ Alternates(stack)
    BY <1>1 DEF LoopsHold, ExecsHold, Alternates
  <2> QED BY <1>1, <1>2, <2>2, <2>3 DEF PendInv
<1>4. UntoldRepairs /\ BegunOnSettled /\ CoversSettled
  BY <1>1 DEF UntoldRepairs, BegunOnSettled, CoversSettled
<1>5. OpenInv
  <2>1. Missed(stack, sub) = {}
    BY <1>1 DEF Missed
  <2>2. ClaimedAboveSuccess(stack, sub) /\ ClaimedAboveFailure(stack, sub, raised)
        /\ HandledFailed(stack, sub)
    BY <1>1 DEF ClaimedAboveSuccess, ClaimedAboveFailure, HandledFailed
  <2> QED BY <2>1, <2>2, NoneMissed DEF OpenInv, OpenWork
<1>6. NoException /\ PlanFirst /\ OnlyChainsWait /\ NothingLeft /\ SuccessStands
      /\ FailureStands /\ VerdictKnown /\ Announced
  BY <1>1 DEF NoException, PlanFirst, OnlyChainsWait, NothingLeft, SuccessStands,
              FailureStands, VerdictKnown, AtRest, Announced
<1> QED BY <1>3, <1>4, <1>5, <1>6 DEF VerdictInv

\* And every step keeps it.
LEMMA VerdictInvStep ==
  ASSUME SharedObjects
  PROVE  VerdictInv /\ [HeardNext]_vars => VerdictInv'
<1> SUFFICES ASSUME VerdictInv, [HeardNext]_vars PROVE VerdictInv'
  OBVIOUS
<1>1. /\ PendInv /\ UntoldRepairs /\ OpenInv
      /\ NoException /\ BegunOnSettled /\ CoversSettled
      /\ PlanFirst /\ OnlyChainsWait /\ NothingLeft /\ SuccessStands /\ FailureStands
      /\ VerdictKnown /\ Announced
  BY DEF VerdictInv
<1>2. TypeInv
  BY <1>1 DEF PendInv, StartInv, ActInv
<1>3. PendInv' /\ StepForm
  BY <1>1, PendStep
<1>4. UntoldRepairs' /\ OpenInv'
  BY <1>1, UntoldStep, OpenStep
<1>5. NoException'
  BY <1>1, <1>3, NoExceptionStep
<1>6. BegunOnSettled'
  BY <1>1, <1>3, BegunOnSettledStep
<1>7. CoversSettled'
  BY <1>1, <1>3, CoversSettledStep
<1>8. PlanFirst' /\ OnlyChainsWait' /\ NothingLeft'
  BY <1>1, <1>3, PlanFirstStep, OnlyChainsWaitStep, NothingLeftStep
<1>9. SuccessStands'
  BY <1>1, <1>3, SuccessStandsStep
<1>10. FailureStands'
  BY <1>1, <1>3, FailureStandsStep
<1>11. VerdictKnown'
  BY <1>1, <1>3, VerdictKnownStep
<1>12. Announced'
  BY <1>1, <1>2, AnnouncedStep
<1> QED BY <1>3, <1>4, <1>5, <1>6, <1>7, <1>8, <1>9, <1>10, <1>11, <1>12 DEF VerdictInv

\* When the calls have returned and no failure counts, what is pending waits
\* for something else that is.
LEMMA PendingOnPending ==
  ASSUME VerdictInv, stack = <<>>, ~raised, EnableFailureRepair \/ faults = 0,
         Failed(sub) = {}, NEW p \in Pending(sub)
  PROVE  \E d \in sub[p].deps : d \in Pending(sub)
<1>1. PendInv /\ UntoldRepairs /\ OpenInv /\ CoversSettled
  BY DEF VerdictInv
<1>2. IsGraph(sub) /\ NothingWaits(sub) /\ p \in 1 .. Len(sub) /\ sub[p].status \notin Finished
  BY <1>1 DEF PendInv, GraphInv, Pending
<1>3. Missed(stack, sub) = {}
  <2>1. Lost(sub) = {}
    BY <1>1, NoneLost
  <2> QED BY <1>1, <2>1 DEF OpenInv, OpenWork, NothingMissed
<1>4. PICK d \in sub[p].deps : sub[d].status # "succeeded"
  <2>1. ~IsClaimed(stack, p)
    <3>1. 1 .. Len(stack) = {}
      OBVIOUS
    <3> QED BY <3>1 DEF IsClaimed
  <2> QED BY <1>2, <1>3, <2>1 DEF Missed, Inputs
<1>5. d \in 1 .. Len(sub)
  BY <1>2 DEF IsGraph
<1>6. sub[d].status # "cancelled" /\ ~sub[d].repaired
  BY <1>2, <1>5 DEF NothingWaits
<1>7. sub[d].status # "failed"
  <2> SUFFICES ASSUME sub[d].status = "failed" PROVE FALSE
    OBVIOUS
  <2>1. d \notin Failed(sub)
    OBVIOUS
  <2>2. WantsRepair(sub, d)
    BY <1>1, <1>5, <1>6, <2>1, CoveredFailure
  <2>3. AtMid(d)
    BY <1>1, <1>5, <2>2 DEF UntoldRepairs
  <2> QED BY <2>3 DEF AtMid
<1> QED BY <1>4, <1>5, <1>6, <1>7 DEF Pending, Finished

\* So nothing is pending at all, if the plan has no cycle or is done.
LEMMA NothingPendingLeft ==
  ASSUME VerdictInv, stack = <<>>, ~raised, EnableFailureRepair \/ faults = 0,
         Failed(sub) = {}, Acyclic \/ (\A p \in Pending(sub) : sub[p].attempt > 0)
  PROVE  Pending(sub) = {}
<1>1. Ordered(sub) /\ IsGraph(sub)
  BY DEF VerdictInv, PendInv, GraphInv
<1>2. \A p \in Pending(sub) : p \in 1 .. Len(sub) /\ p \in Nat /\ sub[p].attempt \in Nat
                              /\ sub[p].deps \subseteq 1 .. Len(sub)
  BY <1>1, SubTypes DEF Pending
<1>3. \A p \in Pending(sub) : sub[p].attempt > 0
  <2> SUFFICES ASSUME Acyclic, NEW p \in Pending(sub), sub[p].attempt = 0 PROVE FALSE
    BY <1>2
  <2> DEFINE P0 == {s \in Pending(sub) : sub[s].attempt = 0}
  <2>1. P0 \in SUBSET {s \in 1 .. Len(sub) : sub[s].attempt = 0}
    BY <1>2
  <2>2. p \in P0
    OBVIOUS
  <2>3. PICK s \in P0 : sub[s].deps \cap P0 = {}
    BY <2>1, <2>2 DEF Acyclic
  <2>4. s \in Pending(sub) /\ sub[s].attempt = 0
    OBVIOUS
  <2>5. PICK d \in sub[s].deps : d \in Pending(sub)
    BY <2>4, PendingOnPending
  <2>6. sub[d].attempt <= sub[s].attempt
    BY <1>1, <1>2, <2>4, <2>5 DEF Ordered
  <2>7. sub[d].attempt = 0
    <3>1. sub[d].attempt \in Nat
      BY <1>2, <2>5
    <3> QED BY <2>4, <2>6, <3>1
  <2>8. d \in P0
    BY <2>5, <2>7
  <2> QED BY <2>3, <2>5, <2>8
<1> SUFFICES ASSUME Pending(sub) # {} PROVE FALSE
  OBVIOUS
<1>4. Pending(sub) \in SUBSET Nat
  BY <1>2
<1>5. PICK m \in Pending(sub) : \A k \in Pending(sub) : m <= k
  BY <1>4, LeastNatural
<1>6. PICK d \in sub[m].deps : d \in Pending(sub)
  BY PendingOnPending
<1>7. d < m
  BY <1>1, <1>2, <1>3 DEF Ordered
<1>8. m <= d /\ m \in Nat /\ d \in Nat
  BY <1>2, <1>5, <1>6
<1> QED BY <1>7, <1>8

\* A run that ended as a success has the graph of one.
LEMMA EndedSuccess ==
  ASSUME VerdictInv, Ended, ~raised, run.status = "succeeded"
  PROVE  Verdict(sub) = "succeeded"
<1>1. AtRest /\ stack = <<>>
  BY DEF AtRest, Ended
<1>2. Verdict(sub) # "open"
  <2> SUFFICES ASSUME Verdict(sub) = "open" PROVE FALSE
    OBVIOUS
  <2>1. Failed(sub) = {} /\ Pending(sub) # {}
    BY VerdictCases
  <2>2. CASE EnableFailureRepair
    <3>1. \A p \in Pending(sub) : sub[p].attempt > 0
      BY DEF VerdictInv, OnlyChainsWait
    <3> QED BY <1>1, <2>1, <2>2, <3>1, NothingPendingLeft
  <2>3. CASE ~EnableFailureRepair
    BY <2>1, <2>3 DEF VerdictInv, NothingLeft
  <2> QED BY <2>2, <2>3
<1> QED BY <1>1, <1>2 DEF VerdictInv, VerdictKnown

\* Whatever the plan and whatever errors struck, as long as every failure could
\* be told (no except clause raised): a run that ended as a success
\* has no failure that is not repaired, none of a verification, no rework
\* request that nobody served, nothing pending, and cancelled only what
\* depended on a failure (RunStateService._aggregate_run_state and the chains
\* of TaskOrchestrator).
THEOREM SucceededRunIsCleanHolds ==
  ASSUME SharedObjects
  PROVE  Spec /\ [][~CaughtRaises]_vars => []SucceededRunIsClean
<1>1. VerdictInv => SucceededRunIsClean
  <2> SUFFICES ASSUME VerdictInv, Ended, ~raised, run.status = "succeeded",
                      NEW s \in 1 .. Len(sub)
               PROVE  /\ sub[s].status \in Finished
                      /\ sub[s].status = "failed" => /\ s \in Covered(sub)
                                                     /\ sub[s].role \notin Verification
                      /\ sub[s].status = "succeeded" /\ sub[s].decision = "rework"
                           => sub[s].reworked
                      /\ sub[s].status = "cancelled" =>
                           \E f \in 1 .. Len(sub) : /\ sub[f].status = "failed"
                                                    /\ s \in Descendants(sub, f)
    BY DEF SucceededRunIsClean
  <2>1. Failed(sub) = {} /\ Pending(sub) = {} /\ UnresolvedRework(sub) = {}
    BY EndedSuccess, VerdictCases
  <2>2. sub[s].status \in Finished
    BY <2>1 DEF Pending
  <2>3. ASSUME sub[s].status = "failed"
        PROVE  s \in Covered(sub) /\ sub[s].role \notin Verification
    <3>1. s \in Covered(sub)
      BY <2>1, <2>3 DEF Failed
    <3>2. PICK p \in 1 .. Len(sub) : sub[p].source = s
      BY <3>1 DEF Covered
    <3>3. sub[p].source # 0
      BY <3>2
    <3>4. sub[s].role \in Repairable
      BY <3>2, <3>3 DEF VerdictInv, PendInv, GraphInv, CoversRepairable
    <3> QED BY <3>1, <3>4 DEF Repairable, Makers, Verification
  <2>4. sub[s].status = "succeeded" /\ sub[s].decision = "rework" => sub[s].reworked
    BY <2>1 DEF UnresolvedRework, Succeeded
  <2>5. sub[s].status = "cancelled" =>
          \E f \in 1 .. Len(sub) : sub[f].status = "failed" /\ s \in Descendants(sub, f)
    BY DEF VerdictInv, PendInv, GraphInv, CancelledBelowFailure
  <2> QED BY <2>2, <2>3, <2>4, <2>5
<1> QED BY <1>1, VerdictInit, VerdictInvStep, HeardSteps, PTL DEF Spec

\* However the plan is shaped, short of a cycle, and if every failure could be
\* told: when the calls of the run have
\* returned, the run has a verdict and the task shows it, unless a client
\* deleted it; and without errors it was announced (reconcile, in the finally
\* clause of every execution).
THEOREM EndedRunIsDecidedHolds ==
  ASSUME SharedObjects
  PROVE  Spec /\ [][~CaughtRaises]_vars => []EndedRunIsDecided
<1>1. VerdictInv => EndedRunIsDecided
  <2> SUFFICES ASSUME VerdictInv, Ended, ~raised, Acyclic, faults = 0 \/ EnableFailureRepair
               PROVE  /\ run.status \in {"succeeded", "failed"}
                      /\ task \in {run.status} \cup (IF MayDelete THEN {"cancelled"} ELSE {})
                      /\ faults = 0 => announced = run.status
    BY DEF EndedRunIsDecided
  <2>1. AtRest /\ stack = <<>>
    BY DEF AtRest, Ended
  <2>2. Verdict(sub) # "open"
    <3> SUFFICES ASSUME Verdict(sub) = "open" PROVE FALSE
      OBVIOUS
    <3>1. Failed(sub) = {} /\ Pending(sub) # {}
      BY VerdictCases
    <3> QED BY <2>1, <3>1, NothingPendingLeft
  <2>3. run.status = Verdict(sub) /\ Shows(task, run.status)
    BY <2>1, <2>2 DEF VerdictInv, VerdictKnown
  <2>4. run.status \in {"succeeded", "failed"}
    BY <2>2, <2>3, VerdictCases
  <2> QED BY <2>3, <2>4 DEF Shows, VerdictInv, Announced
<1> QED BY <1>1, VerdictInit, VerdictInvStep, HeardSteps, PTL DEF Spec

-----------------------------------------------------------------------------
(* The refinement of RunLifecycle *)

Disturbed == faults > 0 \/ ~Acyclic

\* What was disturbed stays so: errors are not taken back, and the planned
\* subtasks keep their dependencies.
LEMMA DisturbedStays ==
  ASSUME VerdictInv, SharedObjects, [HeardNext]_vars, ~Disturbed'
  PROVE  ~Disturbed /\ faults = 0
<1>1. TypeInv /\ PendInv /\ StepForm
  BY PendStep DEF VerdictInv, PendInv, StartInv, ActInv
<1>2. faults = 0
  BY <1>1, FaultStep DEF Disturbed
<1>3. Lineage(sub, sub')
  BY <1>1, GrowsStep
<1>4. Acyclic
  <2> SUFFICES ASSUME NEW S \in SUBSET {s \in 1 .. Len(sub) : sub[s].attempt = 0}, S # {}
               PROVE  \E s \in S : sub[s].deps \cap S = {}
    BY DEF Acyclic
  <2>1. \A s \in S : /\ s \in 1 .. Len(sub) /\ s \in 1 .. Len(sub')
                     /\ sub'[s].attempt = 0 /\ sub'[s].deps = sub[s].deps
    <3>1. Len(sub) \in Nat /\ Len(sub') \in Nat
      <4>1. TypeInv'
        BY <1>1, HeardIsNext, TypeStep
      <4>2. sub \in Seq(SubTask)
        BY <1>1 DEF TypeInv, TypeOK
      <4>3. sub' \in Seq(SubTask)
        BY <4>1 DEF TypeInv, TypeOK
      <4> QED BY <4>2, <4>3
    <3> QED BY <1>3, <3>1 DEF Lineage, SameLineage
  <2>2. S \in SUBSET {s \in 1 .. Len(sub') : sub'[s].attempt = 0}
    BY <2>1
  <2>3. PICK s \in S : sub'[s].deps \cap S = {}
    BY <2>2 DEF Disturbed, Acyclic
  <2> QED BY <2>1, <2>3
<1> QED BY <1>2, <1>4 DEF Disturbed

\* A failure never becomes a success.
LEMMA FailedIsNotSuccess ==
  ASSUME VerdictInv, EnableFailureRepair \/ faults = 0, run.status = "failed",
         stack # <<>>, Top.pc \in {"reconcile", "reraise"}
  PROVE  Verdict(sub) # "succeeded"
<1> SUFFICES ASSUME Verdict(sub) = "succeeded" PROVE FALSE
  OBVIOUS
<1>1. Failed(sub) = {} /\ VerificationFailed(sub) = {} /\ UnresolvedRework(sub) = {}
  BY VerdictCases
<1>2. Lost(sub) = {}
  BY <1>1, NoneLost DEF VerdictInv
<1>3. PICK x \in Unresolved : TRUE
  BY <1>2 DEF VerdictInv, FailureStands
<1>4. x \in 1 .. Len(sub) /\ sub[x].status = "succeeded" /\ Objects(sub[x]) /\ ~sub[x].reworked
  BY <1>3 DEF Unresolved
<1> QED BY <1>1, <1>4 DEF Objects, VerificationFailed, UnresolvedRework, Succeeded

\* A run starts.
LEMMA PendingStarts ==
  ASSUME VerdictInv, SharedObjects, [HeardNext]_vars, run.status = "pending",
         run'.status # "pending"
  PROVE  run'.status = "running" /\ UNCHANGED <<sub, announced, faults>>
<1>1. stack = <<>> /\ ~raised /\ sub = <<>>
  BY DEF VerdictInv, PendInv, StartInv, ActInv, TypeInv, BeforePlan
<1>2. ~UNCHANGED vars /\ ~DeleteTask
  BY DEF vars, DeleteTask
<1>3. HandleTaskCreated
  BY <1>1, <1>2 DEF HeardNext, Next, Step, PlanReady, PlanRaises, RunNext, LoopEnds, Begin, Acquire, Work,
     BodyRaises, Publish, Return, Release, ReleaseRaises, SummaryRaises, Caught, Handled, Unwind,
     Reconcile, ReconcileRaises, At, Running
<1> QED BY <1>3 DEF HandleTaskCreated

\* Every step of a run is one of its lifecycle.
LEMMA LifecycleStep ==
  ASSUME SharedObjects, EnableFailureRepair \/ MaxFaults = 0,
         VerdictInv, VerdictInv', [HeardNext]_vars
  PROVE  \/ UNCHANGED <<run.status, announced>> /\ (Disturbed' <=> Disturbed)
         \/ /\ run.status = "pending" /\ run'.status = "running"
            /\ announced' = announced /\ (Disturbed' <=> Disturbed)
         \/ /\ run.status = "running" /\ run'.status \in {"succeeded", "failed"}
            /\ announced' = run'.status /\ (Disturbed' <=> Disturbed)
         \/ /\ Disturbed'
            /\ \/ UNCHANGED <<run.status, announced>>
               \/ /\ \/ run.status = "running" /\ run'.status \in {"succeeded", "failed"}
                     \/ run.status \in {"succeeded", "failed"}
                        /\ run'.status \in {run.status, "failed"}
                  /\ announced' \in {announced, run'.status}
<1>1. TypeInv /\ PlanFirst /\ Announced /\ SuccessStands
  BY DEF VerdictInv, PendInv, StartInv, ActInv
<1>2. EnableFailureRepair \/ faults = 0
  BY <1>1 DEF TypeInv, TypeOK
<1>3. run.status \in RunStatus
  BY <1>1 DEF TypeInv, TypeOK
<1>4. CASE run'.status = run.status /\ announced' = announced
  BY <1>4, DisturbedStays
<1>5. CASE run.status = "pending" /\ run'.status # "pending"
  <2>1. run'.status = "running" /\ UNCHANGED <<sub, announced, faults>>
    BY <1>5, PendingStarts
  <2>2. Disturbed' <=> Disturbed
    BY <2>1 DEF Disturbed, Acyclic
  <2> QED BY <1>5, <2>1, <2>2
<1>6. CASE Reconcile /\ run'.status = run.status
  <2>1. announced' \in {announced, run'.status}
        /\ (announced' # announced => run'.status \in {"succeeded", "failed"})
    BY <1>6 DEF Reconcile, Announce
  <2>2. CASE Disturbed'
    BY <1>6, <2>1, <2>2
  <2>3. CASE ~Disturbed'
    <3>1. ~Disturbed /\ faults = 0
      BY <2>3, DisturbedStays
    <3>2. announced' = announced
      BY <1>1, <1>6, <2>1, <3>1 DEF Announced
    <3> QED BY <1>6, <2>3, <3>1, <3>2
  <2> QED BY <2>2, <2>3
<1>7. CASE (Reconcile \/ ReconcileRaises) /\ run'.status # run.status /\ run.status # "pending"
  <2>1. run'.status = Verdict(sub) /\ run'.status \in {"succeeded", "failed"}
    BY <1>1, <1>7, VerdictStep
  <2>2. stack # <<>> /\ Top.pc \in {"reconcile", "reraise"} /\ sub' = sub
    BY <1>7, ReconcileReturns
  <2>3. run.status \in {"running", "succeeded", "failed"}
    BY <1>1, <1>3, <1>7 DEF PlanFirst, RunStatus
  <2>4. ~(run.status = "failed" /\ run'.status = "succeeded")
    BY <1>2, <2>1, <2>2, FailedIsNotSuccess
  <2>5. run.status = "succeeded" => run'.status = "failed" /\ faults # 0
    BY <1>1, <1>7, <2>1 DEF SuccessStands
  <2>6. CASE Reconcile
    <3>1. faults' = faults /\ announced' = run'.status
      <4>1. run' # run
        BY <1>7
      <4>2. <<run', task'>> # <<run, task>>
        BY <4>1
      <4> QED BY <2>1, <2>6, <4>2 DEF Reconcile, Announce
    <3>2. Disturbed' <=> Disturbed
      BY <2>2, <3>1 DEF Disturbed, Acyclic
    <3>3. run.status = "succeeded" => Disturbed'
      <4>1. faults \in Nat
        BY <1>1, FaultStep
      <4> QED BY <2>5, <3>1, <4>1 DEF Disturbed
    <3>4. CASE run.status = "running"
      BY <2>1, <3>1, <3>2, <3>4
    <3>5. CASE run.status = "succeeded"
      BY <2>5, <3>1, <3>3, <3>5
    <3> QED BY <1>7, <2>1, <2>3, <2>4, <3>4, <3>5
  <2>7. CASE ReconcileRaises
    <3>1. faults' = faults + 1 /\ announced' = announced
      BY <2>7 DEF ReconcileRaises
    <3>2. Disturbed'
      <4>1. faults \in Nat
        BY <1>1, FaultStep
      <4> QED BY <3>1, <4>1 DEF Disturbed
    <3>3. \/ run.status = "running" /\ run'.status \in {"succeeded", "failed"}
          \/ run.status \in {"succeeded", "failed"} /\ run'.status \in {run.status, "failed"}
      BY <1>7, <2>1, <2>3, <2>4
    <3> QED BY <3>1, <3>2, <3>3
  <2> QED BY <1>7, <2>6, <2>7
<1>8. CASE ReconcileRaises /\ run'.status = run.status
  BY <1>4, <1>8 DEF ReconcileRaises
<1> QED BY <1>1, <1>4, <1>5, <1>6, <1>7, <1>8, RunStatusStep

\* A run keeps its promise: it starts once, and without errors it has one
\* verdict, announced when it is reached and final, however deep the repairs
\* and reworks are nested; after an error only a success may still become a
\* failure. So it is with failure repair, or if no error strikes: without
\* repair a rework chain may hide a failure that an error made, and a failed
\* run succeeds. Every failure is taken to be told (no except clause raises).
THEOREM VerdictIsFinalHolds ==
  ASSUME SharedObjects, EnableFailureRepair \/ MaxFaults = 0
  PROVE  Spec /\ [][~CaughtRaises]_vars => VerdictIsFinal
<1>1. Init => Lifecycle!Init
  <2> SUFFICES ASSUME Init PROVE Lifecycle!Init
    OBVIOUS
  <2>1. run.status = "pending" /\ announced = "none" /\ faults = 0 /\ 1 .. Len(sub) = {}
    BY DEF Init
  <2>2. Acyclic
    BY <2>1 DEF Acyclic
  <2> QED BY <2>1, <2>2 DEF Lifecycle!Init
<1>2. VerdictInv /\ VerdictInv' /\ [HeardNext]_vars => [Lifecycle!Next]_(Lifecycle!vars)
  <2> SUFFICES ASSUME VerdictInv, VerdictInv', [HeardNext]_vars
               PROVE  [Lifecycle!Next]_(Lifecycle!vars)
    OBVIOUS
  <2>1. CASE UNCHANGED <<run.status, announced>> /\ (Disturbed' <=> Disturbed)
    BY <2>1 DEF Disturbed, Lifecycle!vars
  <2>2. CASE /\ run.status = "pending" /\ run'.status = "running"
             /\ announced' = announced /\ (Disturbed' <=> Disturbed)
    BY <2>2 DEF Disturbed, Lifecycle!Next, Lifecycle!Start
  <2>3. CASE /\ run.status = "running" /\ run'.status \in {"succeeded", "failed"}
             /\ announced' = run'.status /\ (Disturbed' <=> Disturbed)
    BY <2>3 DEF Disturbed, Lifecycle!Next, Lifecycle!Decide
  <2>4. CASE /\ Disturbed'
             /\ \/ UNCHANGED <<run.status, announced>>
                \/ /\ \/ run.status = "running" /\ run'.status \in {"succeeded", "failed"}
                      \/ run.status \in {"succeeded", "failed"}
                         /\ run'.status \in {run.status, "failed"}
                   /\ announced' \in {announced, run'.status}
    BY <2>4 DEF Disturbed, Lifecycle!Next, Lifecycle!Disturb
  <2> QED BY <2>1, <2>2, <2>3, <2>4, LifecycleStep
<1> QED BY <1>1, <1>2, VerdictInit, VerdictInvStep, HeardSteps, PTL
        DEF Spec, VerdictIsFinal, Lifecycle!Spec
=============================================================================
