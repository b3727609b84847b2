-------------------------- MODULE Descent_proofs --------------------------
(***************************************************************************)
(* The order of Descent has no endless descent.                            *)
(***************************************************************************)
EXTENDS Descent, Integers, WellFoundedInduction, TLAPS

LEMMA NearerBy ==
  ASSUME NEW a \in Int, NEW b \in Int, NEW c \in Int, NEW d \in Int, NEW e \in Int,
         NEW a2 \in Int, NEW b2 \in Int, NEW c2 \in Int, NEW d2 \in Int,
         NEW e2 \in Int,
         \/ a2 < a
         \/ a2 = a /\ b2 < b
         \/ a2 = a /\ b2 = b /\ c2 < c
         \/ a2 = a /\ b2 = b /\ c2 = c /\ d2 < d
         \/ a2 = a /\ b2 = b /\ c2 = c /\ d2 = d /\ e2 < e
  PROVE  Nearer(<<a2, b2, c2, d2, e2>>, <<a, b, c, d, e>>)
<1> DEFINE m == <<a2, b2, c2, d2, e2>>
           n == <<a, b, c, d, e>>
<1>1. \A i \in 1..5 : m[i] < n[i] /\ (\A j \in 1..(i - 1) : m[j] = n[j])
        => Nearer(m, n)
  BY DEF Nearer
<1>2. CASE a2 < a
  BY <1>1, <1>2
<1>3. CASE a2 = a /\ b2 < b
  <2>1. \A j \in 1..(2 - 1) : m[j] = n[j]
    BY <1>3
  <2> QED
    BY <1>1, <1>3, <2>1
<1>4. CASE a2 = a /\ b2 = b /\ c2 < c
  <2>1. \A j \in 1..(3 - 1) : m[j] = n[j]
    BY <1>4
  <2> QED
    BY <1>1, <1>4, <2>1
<1>5. CASE a2 = a /\ b2 = b /\ c2 = c /\ d2 < d
  <2>1. \A j \in 1..(4 - 1) : m[j] = n[j]
    BY <1>5
  <2> QED
    BY <1>1, <1>5, <2>1
<1>6. CASE a2 = a /\ b2 = b /\ c2 = c /\ d2 = d /\ e2 < e
  <2>1. \A j \in 1..(5 - 1) : m[j] = n[j]
    BY <1>6
  <2> QED
    BY <1>1, <1>6, <2>1
<1> QED
  BY <1>2, <1>3, <1>4, <1>5, <1>6

Distances == [1..5 -> Nat]

\* There is no endless descent: what gets nearer with every step takes finitely many
\* (the loops of runMinimalAdw, the finalizers of a scope).
THEOREM NoEndlessDescent ==
  ~\E f \in [Nat -> Distances] : \A n \in Nat : Nearer(f[n + 1], f[n])
<1> DEFINE Less == OpToRel(<, Nat)
           Lex == LexProductOrdering(Less, Nat, 5)
<1>1. IsWellFoundedOn(Lex, Distances)
  <2> HIDE DEF Less
  <2>1. IsWellFoundedOn(Less, Nat)
    BY NatLessThanWellFounded DEF Less
  <2> QED
    BY <2>1, WFLexProductOrdering DEF Distances
<1>2. ASSUME NEW m \in Distances, NEW n \in Distances, Nearer(m, n)
      PROVE  <<m, n>> \in Lex
  BY <1>2 DEF Nearer, LexProductOrdering, OpToRel, Distances
<1> HIDE DEF Lex
<1> SUFFICES ASSUME NEW f \in [Nat -> Distances],
                    \A n \in Nat : Nearer(f[n + 1], f[n])
             PROVE  FALSE
  OBVIOUS
<1>3. \A n \in Nat : <<f[n + 1], f[n]>> \in Lex
  BY <1>2
<1> QED
  BY <1>1, <1>3 DEF IsWellFoundedOn
=============================================================================
