------------------------------- MODULE Sums -------------------------------
(***************************************************************************)
(* Facts about SumFunctionOnSet of the community modules, which the        *)
(* theorems about the account and about the order service need.            *)
(*                                                                         *)
(* The sum is a fold, and a fold a function on the subsets of its set.     *)
(* That there is one, and one only, is shown without induction over an     *)
(* operator, by taking a smallest set for which there is none.             *)
(***************************************************************************)
EXTENDS Integers, Functions, FiniteSets, FiniteSetTheorems,
        WellFoundedInduction, TLAPS

-----------------------------------------------------------------------------
(* What a sum is. *)

LEMMA LeastNat ==
    ASSUME NEW T, T \subseteq Nat, T # {} PROVE \E m \in T : \A k \in T : m <= k
<1> DEFINE R == {ss \in Nat \X Nat : ss[1] < ss[2]}
<1>1. OpToRel(<, Nat) = R
  BY DEF OpToRel
<1>2. IsWellFoundedOn(R, T)
  BY <1>1, NatLessThanWellFounded, IsWellFoundedOnSubset
<1>3. \A k, m \in Nat : k < m => <<k, m>> \in R
  OBVIOUS
<1> HIDE DEF R
<1>4. PICK m \in T : \A k \in T : ~ (<<k, m>> \in R)
  BY <1>2, WFMin
<1>5. ASSUME NEW k \in T PROVE m <= k
  <2>1. k \in Nat /\ m \in Nat /\ ~ (k < m)
    BY <1>3, <1>4
  <2>2. QED  BY <2>1
<1>6. QED  BY <1>5

(* A set of finite sets has one none of whose members may be left out.     *)
LEMMA SmallestSet ==
    ASSUME NEW F, F # {}, \A s \in F : IsFiniteSet(s)
    PROVE  \E s \in F : \A x \in s : s \ {x} \notin F
<1> DEFINE N == {Cardinality(s) : s \in F}
<1>1. N \subseteq Nat /\ N # {}
  BY FS_CardinalityType
<1>2. PICK m \in N : \A k \in N : m <= k
  BY <1>1, LeastNat
<1>3. PICK s \in F : Cardinality(s) = m
  OBVIOUS
<1>4. ASSUME NEW x \in s, s \ {x} \in F PROVE FALSE
  <2>1. Cardinality(s \ {x}) = Cardinality(s) - 1 /\ Cardinality(s) \in Nat
    BY FS_RemoveElement, FS_CardinalityType
  <2>2. m <= Cardinality(s \ {x})
    BY <1>2, <1>4
  <2>3. QED  BY <1>3, <2>1, <2>2
<1>5. QED  BY <1>4

Pick(s) == CHOOSE x \in s : TRUE
IsSum(i, g, S) ==
    i = [s \in SUBSET S |-> IF s = {} THEN 0 ELSE g[Pick(s)] + i[s \ {Pick(s)}]]
Iter(g, S) == CHOOSE i : IsSum(i, g, S)

LEMMA SumIs == ASSUME NEW g, NEW S PROVE SumFunctionOnSet(g, S) = Iter(g, S)[S]
BY DEF SumFunctionOnSet, FoldFunctionOnSet, MapThenFoldSet, IsSum, Iter, Pick

LEMMA SumStep ==
    ASSUME NEW g, NEW S, NEW i, IsSum(i, g, S), NEW s \in SUBSET S
    PROVE  i[s] = IF s = {} THEN 0 ELSE g[Pick(s)] + i[s \ {Pick(s)}]
BY DEF IsSum

LEMMA SumUnique ==
    ASSUME NEW g, NEW S, NEW T, NEW i, NEW j, IsSum(i, g, S), IsSum(j, g, T),
           NEW s, s \subseteq S, s \subseteq T, IsFiniteSet(s)
    PROVE  i[s] = j[s]
<1> DEFINE F == {u \in SUBSET s : i[u] # j[u]}
<1>1. SUFFICES ASSUME F # {} PROVE FALSE
  OBVIOUS
<1>2. \A u \in F : u \subseteq s /\ i[u] # j[u]
  OBVIOUS
<1>3. \A u \in SUBSET s : i[u] # j[u] => u \in F
  OBVIOUS
<1> HIDE DEF F
<1>4. \A u \in F : IsFiniteSet(u)
  BY <1>2, FS_Subset
<1>5. PICK u \in F : \A x \in u : u \ {x} \notin F
  BY <1>1, <1>4, SmallestSet
<1>6. u \in SUBSET S /\ u \in SUBSET T /\ i[u] # j[u]
  BY <1>2
<1>7. i[u] = IF u = {} THEN 0 ELSE g[Pick(u)] + i[u \ {Pick(u)}]
  BY <1>6, SumStep
<1>8. j[u] = IF u = {} THEN 0 ELSE g[Pick(u)] + j[u \ {Pick(u)}]
  BY <1>6, SumStep
<1>9. u # {}
  BY <1>6, <1>7, <1>8
<1>10. Pick(u) \in u
  BY <1>9 DEF Pick
<1>11. u \ {Pick(u)} \in SUBSET s /\ u \ {Pick(u)} \notin F
  BY <1>2, <1>5, <1>10
<1>12. i[u \ {Pick(u)}] = j[u \ {Pick(u)}]
  BY <1>3, <1>11
<1>13. QED  BY <1>6, <1>7, <1>8, <1>12

LEMMA SumExists ==
    ASSUME NEW g, NEW S, IsFiniteSet(S) PROVE \E i : IsSum(i, g, S)
<1> DEFINE F == {s \in SUBSET S : ~ \E i : IsSum(i, g, s)}
<1>1. SUFFICES ASSUME F # {} PROVE FALSE
  OBVIOUS
<1>2. \A s \in F : IsFiniteSet(s)
  BY FS_Subset
<1>3. PICK s \in F : \A x \in s : s \ {x} \notin F
  BY <1>1, <1>2, SmallestSet
<1> DEFINE i == [t \in SUBSET s |-> IF t = {} THEN 0
                    ELSE g[Pick(t)] + SumFunctionOnSet(g, t \ {Pick(t)})]
<1>4. ASSUME NEW t \in SUBSET s, t # s PROVE \E j : IsSum(j, g, t)
  <2>1. PICK x \in s : x \notin t
    BY <1>4
  <2>2. PICK j : IsSum(j, g, s \ {x})
    BY <1>3
  <2>3. IsSum([r \in SUBSET t |-> j[r]], g, t)
    <3> DEFINE k == [r \in SUBSET t |-> j[r]]
    <3>1. ASSUME NEW r \in SUBSET t
          PROVE  k[r] = IF r = {} THEN 0 ELSE g[Pick(r)] + k[r \ {Pick(r)}]
      <4>1. r \in SUBSET (s \ {x})
        BY <2>1
      <4>2. r \ {Pick(r)} \in SUBSET t
        OBVIOUS
      <4>3. QED  BY <2>2, <4>1, <4>2, SumStep
    <3>2. QED  BY <3>1 DEF IsSum
  <2>4. QED  BY <2>3
<1>5. IsSum(i, g, s)
  <2>1. ASSUME NEW t \in SUBSET s, t # s PROVE i[t] = SumFunctionOnSet(g, t)
    <3>1. IsSum(Iter(g, t), g, t)
      BY <1>4, <2>1 DEF Iter
    <3>2. Iter(g, t)[t] = IF t = {} THEN 0 ELSE g[Pick(t)] + Iter(g, t)[t \ {Pick(t)}]
      BY <3>1, SumStep
    <3>3. CASE t = {}
      BY <3>2, <3>3, SumIs
    <3>4. CASE t # {}
      <4> DEFINE u == t \ {Pick(t)}
      <4>1. u \in SUBSET s /\ u # s /\ u \in SUBSET t
        BY <2>1
      <4>2. IsSum(Iter(g, u), g, u)
        BY <1>4, <4>1 DEF Iter
      <4>3. IsFiniteSet(u)
        BY <4>1, FS_Subset
      <4>4. Iter(g, t)[u] = Iter(g, u)[u]
        BY <3>1, <4>1, <4>2, <4>3, SumUnique
      <4>5. QED  BY <3>2, <3>4, <4>4, SumIs
    <3>5. QED  BY <3>3, <3>4
  <2>2. ASSUME NEW t \in SUBSET s
        PROVE  i[t] = IF t = {} THEN 0 ELSE g[Pick(t)] + i[t \ {Pick(t)}]
    <3>1. CASE t = {}
      BY <3>1
    <3>2. CASE t # {}
      <4>1. Pick(t) \in t
        BY <3>2 DEF Pick
      <4>2. t \ {Pick(t)} \in SUBSET s /\ t \ {Pick(t)} # s
        BY <4>1
      <4>3. QED  BY <2>1, <3>2, <4>2
    <3>3. QED  BY <3>1, <3>2
  <2> HIDE DEF i
  <2>3. i = [t \in SUBSET s |-> i[t]]
    BY DEF i
  <2>4. QED  BY <2>2, <2>3 DEF IsSum
<1>6. QED  BY <1>5

LEMMA SumOfNone == ASSUME NEW g PROVE SumFunctionOnSet(g, {}) = 0
<1>1. IsFiniteSet({})
  BY FS_EmptySet
<1>2. IsSum(Iter(g, {}), g, {})
  BY <1>1, SumExists DEF Iter
<1>3. QED  BY <1>2, SumStep, SumIs

LEMMA SumPick ==
    ASSUME NEW g, NEW S, IsFiniteSet(S), S # {}
    PROVE  SumFunctionOnSet(g, S) = g[Pick(S)] + SumFunctionOnSet(g, S \ {Pick(S)})
<1> DEFINE u == S \ {Pick(S)}
<1>1. IsFiniteSet(u) /\ u \in SUBSET S
  BY FS_Subset
<1>2. IsSum(Iter(g, S), g, S) /\ IsSum(Iter(g, u), g, u)
  BY <1>1, SumExists DEF Iter
<1>3. Iter(g, S)[S] = g[Pick(S)] + Iter(g, S)[u]
  BY <1>2, SumStep
<1>4. Iter(g, S)[u] = Iter(g, u)[u]
  BY <1>1, <1>2, SumUnique
<1>5. QED  BY <1>3, <1>4, SumIs

-----------------------------------------------------------------------------
(* What sums of integers do. *)

LEMMA SumInt ==
    ASSUME NEW g, NEW S, IsFiniteSet(S), \A x \in S : g[x] \in Int
    PROVE  SumFunctionOnSet(g, S) \in Int
<1> DEFINE F == {u \in SUBSET S : SumFunctionOnSet(g, u) \notin Int}
<1>1. SUFFICES ASSUME F # {} PROVE FALSE
  OBVIOUS
<1>2. (\A u \in F : u \subseteq S /\ SumFunctionOnSet(g, u) \notin Int)
      /\ \A u \in SUBSET S : u \in F \/ SumFunctionOnSet(g, u) \in Int
  OBVIOUS
<1> HIDE DEF F
<1>3. \A u \in F : IsFiniteSet(u)
  BY <1>2, FS_Subset
<1>4. PICK u \in F : \A x \in u : u \ {x} \notin F
  BY <1>1, <1>3, SmallestSet
<1>5. u \subseteq S /\ IsFiniteSet(u) /\ SumFunctionOnSet(g, u) \notin Int
  BY <1>2, <1>3
<1>6. u # {}
  BY <1>5, SumOfNone
<1>7. Pick(u) \in u
  BY <1>6 DEF Pick
<1>8. SumFunctionOnSet(g, u) = g[Pick(u)] + SumFunctionOnSet(g, u \ {Pick(u)})
  BY <1>5, <1>6, SumPick
<1>9. SumFunctionOnSet(g, u \ {Pick(u)}) \in Int
  BY <1>2, <1>4, <1>5, <1>7
<1>10. QED  BY <1>5, <1>7, <1>8, <1>9

(* A sum of numbers that are not negative is not negative.                 *)
LEMMA SumNat ==
    ASSUME NEW g, NEW S, IsFiniteSet(S), \A x \in S : g[x] \in Nat
    PROVE  SumFunctionOnSet(g, S) \in Nat
<1> DEFINE F == {u \in SUBSET S : SumFunctionOnSet(g, u) \notin Nat}
<1>1. SUFFICES ASSUME F # {} PROVE FALSE
  OBVIOUS
<1>2. (\A u \in F : u \subseteq S /\ SumFunctionOnSet(g, u) \notin Nat)
      /\ \A u \in SUBSET S : u \in F \/ SumFunctionOnSet(g, u) \in Nat
  OBVIOUS
<1> HIDE DEF F
<1>3. \A u \in F : IsFiniteSet(u)
  BY <1>2, FS_Subset
<1>4. PICK u \in F : \A x \in u : u \ {x} \notin F
  BY <1>1, <1>3, SmallestSet
<1>5. u \subseteq S /\ IsFiniteSet(u) /\ SumFunctionOnSet(g, u) \notin Nat
  BY <1>2, <1>3
<1>6. u # {}
  BY <1>5, SumOfNone
<1>7. Pick(u) \in u
  BY <1>6 DEF Pick
<1>8. SumFunctionOnSet(g, u) = g[Pick(u)] + SumFunctionOnSet(g, u \ {Pick(u)})
  BY <1>5, <1>6, SumPick
<1>9. SumFunctionOnSet(g, u \ {Pick(u)}) \in Nat
  BY <1>2, <1>4, <1>5, <1>7
<1>10. QED  BY <1>5, <1>7, <1>8, <1>9

LEMMA SumAny ==
    ASSUME NEW g, NEW S, IsFiniteSet(S), \A x \in S : g[x] \in Int, NEW z \in S
    PROVE  SumFunctionOnSet(g, S) = g[z] + SumFunctionOnSet(g, S \ {z})
<1> DEFINE Good(u) == \A x \in u : SumFunctionOnSet(g, u) = g[x] + SumFunctionOnSet(g, u \ {x})
           F == {u \in SUBSET S : ~Good(u)}
<1>1. SUFFICES ASSUME F # {} PROVE FALSE
  <2>1. Good(S)
    BY <1>1
  <2>2. QED  BY <2>1
<1>2. (\A u \in F : u \subseteq S /\ ~Good(u)) /\ \A u \in SUBSET S : u \in F \/ Good(u)
  OBVIOUS
<1> HIDE DEF F
<1>3. \A u \in F : IsFiniteSet(u)
  BY <1>2, FS_Subset
<1>4. PICK u \in F : \A x \in u : u \ {x} \notin F
  BY <1>1, <1>3, SmallestSet
<1>5. u \subseteq S /\ IsFiniteSet(u) /\ ~Good(u)
  BY <1>2, <1>3
<1>6. PICK x \in u : SumFunctionOnSet(g, u) # g[x] + SumFunctionOnSet(g, u \ {x})
  BY <1>5
<1> DEFINE p == Pick(u)
<1>7. p \in u
  BY DEF Pick
<1>8. SumFunctionOnSet(g, u) = g[p] + SumFunctionOnSet(g, u \ {p})
  BY <1>5, SumPick
<1> HIDE DEF p
<1>9. x # p
  BY <1>6, <1>8
<1>10. \A y \in u : Good(u \ {y})
  BY <1>2, <1>4, <1>5
<1> DEFINE rest == (u \ {p}) \ {x}
<1>11. SumFunctionOnSet(g, u \ {p}) = g[x] + SumFunctionOnSet(g, rest)
  BY <1>7, <1>9, <1>10
<1>12. SumFunctionOnSet(g, u \ {x}) = g[p] + SumFunctionOnSet(g, (u \ {x}) \ {p})
  BY <1>7, <1>9, <1>10
<1>13. (u \ {x}) \ {p} = rest
  OBVIOUS
<1>14. IsFiniteSet(rest) /\ rest \subseteq S
  BY <1>5, FS_Subset
<1> HIDE DEF rest
<1>15. SumFunctionOnSet(g, rest) \in Int /\ g[x] \in Int /\ g[p] \in Int
  BY <1>5, <1>7, <1>14, SumInt
<1> DEFINE all == SumFunctionOnSet(g, u)  noX == SumFunctionOnSet(g, u \ {x})  noP == SumFunctionOnSet(g, u \ {p})
           none == SumFunctionOnSet(g, rest)
<1>16. /\ all = g[p] + noP /\ all # g[x] + noX
       /\ noP = g[x] + none /\ noX = g[p] + none
       /\ none \in Int /\ g[x] \in Int /\ g[p] \in Int
  BY <1>6, <1>8, <1>11, <1>12, <1>13, <1>15
<1> HIDE DEF all, noX, noP, none
<1>17. QED  BY <1>16

LEMMA SumEqual ==
    ASSUME NEW g, NEW h, NEW S, IsFiniteSet(S), \A x \in S : g[x] = h[x]
    PROVE  SumFunctionOnSet(g, S) = SumFunctionOnSet(h, S)
<1> DEFINE F == {u \in SUBSET S : SumFunctionOnSet(g, u) # SumFunctionOnSet(h, u)}
<1>1. SUFFICES ASSUME F # {} PROVE FALSE
  OBVIOUS
<1>2. (\A u \in F : u \subseteq S /\ SumFunctionOnSet(g, u) # SumFunctionOnSet(h, u))
      /\ \A u \in SUBSET S : u \in F \/ SumFunctionOnSet(g, u) = SumFunctionOnSet(h, u)
  OBVIOUS
<1> HIDE DEF F
<1>3. \A u \in F : IsFiniteSet(u)
  BY <1>2, FS_Subset
<1>4. PICK u \in F : \A x \in u : u \ {x} \notin F
  BY <1>1, <1>3, SmallestSet
<1>5. u \subseteq S /\ IsFiniteSet(u) /\ SumFunctionOnSet(g, u) # SumFunctionOnSet(h, u)
  BY <1>2, <1>3
<1>6. u # {}
  BY <1>5, SumOfNone
<1>7. Pick(u) \in u
  BY <1>6 DEF Pick
<1>8. /\ SumFunctionOnSet(g, u) = g[Pick(u)] + SumFunctionOnSet(g, u \ {Pick(u)})
      /\ SumFunctionOnSet(h, u) = h[Pick(u)] + SumFunctionOnSet(h, u \ {Pick(u)})
  BY <1>5, <1>6, SumPick
<1>9. SumFunctionOnSet(g, u \ {Pick(u)}) = SumFunctionOnSet(h, u \ {Pick(u)})
  BY <1>2, <1>4, <1>5, <1>7
<1>10. QED  BY <1>5, <1>7, <1>8, <1>9

(* Terms added one by one.                                                 *)
LEMMA SumPlus ==
    ASSUME NEW f, NEW g, NEW h, NEW S, IsFiniteSet(S),
           \A x \in S : f[x] \in Int /\ g[x] \in Int /\ h[x] = f[x] + g[x]
    PROVE  SumFunctionOnSet(h, S) = SumFunctionOnSet(f, S) + SumFunctionOnSet(g, S)
<1> DEFINE F == {u \in SUBSET S : SumFunctionOnSet(h, u) # SumFunctionOnSet(f, u) + SumFunctionOnSet(g, u)}
<1>1. SUFFICES ASSUME F # {} PROVE FALSE
  OBVIOUS
<1>2. (\A u \in F : u \subseteq S /\ SumFunctionOnSet(h, u) # SumFunctionOnSet(f, u) + SumFunctionOnSet(g, u))
      /\ \A u \in SUBSET S : u \in F \/ SumFunctionOnSet(h, u) = SumFunctionOnSet(f, u) + SumFunctionOnSet(g, u)
  OBVIOUS
<1> HIDE DEF F
<1>3. \A u \in F : IsFiniteSet(u)
  BY <1>2, FS_Subset
<1>4. PICK u \in F : \A x \in u : u \ {x} \notin F
  BY <1>1, <1>3, SmallestSet
<1>5. u \subseteq S /\ IsFiniteSet(u) /\ SumFunctionOnSet(h, u) # SumFunctionOnSet(f, u) + SumFunctionOnSet(g, u)
  BY <1>2, <1>3
<1>6. u # {}
  <2>1. CASE u = {}
    <3>1. SumFunctionOnSet(f, u) = 0 /\ SumFunctionOnSet(g, u) = 0 /\ SumFunctionOnSet(h, u) = 0
      BY <2>1, SumOfNone
    <3>2. QED  BY <1>5, <3>1
  <2>2. QED  BY <2>1
<1> DEFINE p == Pick(u)  v == u \ {p}
<1>7. p \in u
  BY <1>6 DEF Pick
<1>8. /\ SumFunctionOnSet(f, u) = f[p] + SumFunctionOnSet(f, v)
      /\ SumFunctionOnSet(g, u) = g[p] + SumFunctionOnSet(g, v)
      /\ SumFunctionOnSet(h, u) = h[p] + SumFunctionOnSet(h, v)
  BY <1>5, <1>6, SumPick
<1>9. SumFunctionOnSet(h, v) = SumFunctionOnSet(f, v) + SumFunctionOnSet(g, v)
  BY <1>2, <1>4, <1>5, <1>7
<1>10. IsFiniteSet(v) /\ v \subseteq S
  BY <1>5, FS_Subset
<1> HIDE DEF p, v
<1>11. SumFunctionOnSet(f, v) \in Int /\ SumFunctionOnSet(g, v) \in Int
  BY <1>10, SumInt
<1>12. QED  BY <1>5, <1>7, <1>8, <1>9, <1>11

(* Terms of which all but one stay the same.                               *)
LEMMA SumChange ==
    ASSUME NEW g, NEW h, NEW S, IsFiniteSet(S), NEW z \in S,
           \A x \in S : g[x] \in Int /\ h[x] \in Int /\ (x # z => h[x] = g[x])
    PROVE  SumFunctionOnSet(h, S) = SumFunctionOnSet(g, S) + h[z] - g[z]
<1>1. IsFiniteSet(S \ {z})
  BY FS_Subset
<1>2. SumFunctionOnSet(h, S) = h[z] + SumFunctionOnSet(h, S \ {z}) /\ SumFunctionOnSet(g, S) = g[z] + SumFunctionOnSet(g, S \ {z})
  BY SumAny
<1>3. SumFunctionOnSet(h, S \ {z}) = SumFunctionOnSet(g, S \ {z})
  BY <1>1, SumEqual
<1>4. SumFunctionOnSet(g, S \ {z}) \in Int
  BY <1>1, SumInt
<1>5. QED  BY <1>2, <1>3, <1>4

(* A sum over a part is one over the whole of terms that are nothing       *)
(* outside the part.                                                       *)
LEMMA SumPart ==
    ASSUME NEW g, NEW h, NEW S, IsFiniteSet(S), NEW T, T \subseteq S,
           \A x \in S : h[x] \in Int /\ h[x] = IF x \in T THEN g[x] ELSE 0
    PROVE  SumFunctionOnSet(g, T) = SumFunctionOnSet(h, S)
<1> DEFINE F == {u \in SUBSET S : SumFunctionOnSet(h, u) # SumFunctionOnSet(g, u \cap T)}
<1>1. SUFFICES ASSUME F # {} PROVE FALSE
  <2>1. SumFunctionOnSet(h, S) = SumFunctionOnSet(g, S \cap T)
    BY <1>1
  <2>2. S \cap T = T
    OBVIOUS
  <2>3. QED  BY <2>1, <2>2
<1>2. (\A u \in F : u \subseteq S /\ SumFunctionOnSet(h, u) # SumFunctionOnSet(g, u \cap T))
      /\ \A u \in SUBSET S : u \in F \/ SumFunctionOnSet(h, u) = SumFunctionOnSet(g, u \cap T)
  OBVIOUS
<1> HIDE DEF F
<1>3. \A u \in F : IsFiniteSet(u)
  BY <1>2, FS_Subset
<1>4. PICK u \in F : \A x \in u : u \ {x} \notin F
  BY <1>1, <1>3, SmallestSet
<1>5. u \subseteq S /\ IsFiniteSet(u) /\ SumFunctionOnSet(h, u) # SumFunctionOnSet(g, u \cap T)
  BY <1>2, <1>3
<1>6. u # {}
  <2>1. {} \cap T = {}
    OBVIOUS
  <2>2. QED  BY <1>5, <2>1, SumOfNone
<1> DEFINE p == Pick(u)  v == u \ {p}
<1>7. p \in u
  BY <1>6 DEF Pick
<1>8. SumFunctionOnSet(h, u) = h[p] + SumFunctionOnSet(h, v)
  BY <1>5, <1>6, SumPick
<1>9. SumFunctionOnSet(h, v) = SumFunctionOnSet(g, v \cap T)
  BY <1>2, <1>4, <1>5, <1>7
<1>10. /\ IsFiniteSet(v \cap T) /\ IsFiniteSet(u \cap T)
       /\ \A x \in u \cap T : g[x] \in Int
       /\ \A x \in v \cap T : g[x] \in Int
  BY <1>5, FS_Subset
<1>11. SumFunctionOnSet(g, v \cap T) \in Int
  BY <1>10, SumInt
<1>12. CASE p \in T
  <2>1. (u \cap T) \ {p} = v \cap T /\ p \in u \cap T
    BY <1>7, <1>12
  <2>2. SumFunctionOnSet(g, u \cap T) = g[p] + SumFunctionOnSet(g, (u \cap T) \ {p})
    BY <1>10, <2>1, SumAny
  <2>3. QED  BY <1>5, <1>7, <1>8, <1>9, <1>12, <2>1, <2>2
<1>13. CASE p \notin T
  <2>1. u \cap T = v \cap T
    BY <1>13
  <2>2. h[p] = 0
    BY <1>5, <1>7, <1>13
  <2> DEFINE a == SumFunctionOnSet(g, v \cap T)  b == SumFunctionOnSet(h, v)  c == SumFunctionOnSet(h, u)
  <2>3. c = h[p] + b /\ b = a /\ a \in Int
    BY <1>8, <1>9, <1>11
  <2>4. c # a
    BY <1>5, <2>1
  <2> HIDE DEF a, b, c
  <2>5. QED  BY <2>2, <2>3, <2>4
<1>14. QED  BY <1>12, <1>13

LEMMA ImageIsFinite ==
    ASSUME NEW f, NEW S, IsFiniteSet(S) PROVE IsFiniteSet({f[x] : x \in S})
<1> DEFINE T == {f[x] : x \in S}
           g == [x \in S |-> f[x]]
<1>1. g \in Surjection(S, T)
  BY DEF Surjection
<1>2. QED  BY <1>1, FS_Surjection

(* The same terms under other names.                                       *)
LEMMA SumRenamed ==
    ASSUME NEW g, NEW h, NEW S, IsFiniteSet(S), NEW f,
           \A x \in S : g[x] \in Int /\ h[f[x]] = g[x],
           \A x, y \in S : f[x] = f[y] => x = y
    PROVE  SumFunctionOnSet(h, {f[x] : x \in S}) = SumFunctionOnSet(g, S)
<1> DEFINE Im(u) == {f[x] : x \in u}
           Good(u) == SumFunctionOnSet(h, Im(u)) = SumFunctionOnSet(g, u)
           F == {u \in SUBSET S : ~Good(u)}
<1>1. SUFFICES ASSUME F # {} PROVE FALSE
  <2>1. Good(S)
    BY <1>1
  <2>2. QED  BY <2>1
<1>2. (\A u \in F : u \subseteq S /\ ~Good(u)) /\ \A u \in SUBSET S : u \in F \/ Good(u)
  OBVIOUS
<1> HIDE DEF F
<1>3. \A u \in F : IsFiniteSet(u)
  BY <1>2, FS_Subset
<1>4. PICK u \in F : \A x \in u : u \ {x} \notin F
  BY <1>1, <1>3, SmallestSet
<1>5. u \subseteq S /\ IsFiniteSet(u) /\ ~Good(u)
  BY <1>2, <1>3
<1>6. u # {}
  <2>1. CASE u = {}
    <3>1. Im(u) = {}
      BY <2>1
    <3>2. QED  BY <1>5, <2>1, <3>1, SumOfNone
  <2>2. QED  BY <2>1
<1>7. PICK z \in u : TRUE
  BY <1>6
<1> DEFINE v == u \ {z}
<1>8. v \subseteq S /\ Good(v)
  BY <1>2, <1>4, <1>5, <1>7
<1>9. f[z] \in Im(u) /\ Im(u) \ {f[z]} = Im(v)
  <2>1. \A x \in u : f[x] = f[z] => x = z
    BY <1>5
  <2>2. QED  BY <1>7, <2>1
<1>10. IsFiniteSet(Im(u)) /\ \A y \in Im(u) : h[y] \in Int
  BY <1>5, ImageIsFinite
<1> HIDE DEF v
<1>11. SumFunctionOnSet(g, u) = g[z] + SumFunctionOnSet(g, v)
  <2>1. \A x \in u : g[x] \in Int
    BY <1>5
  <2>2. QED  BY <1>5, <2>1, SumAny DEF v
<1>12. SumFunctionOnSet(h, Im(u)) = h[f[z]] + SumFunctionOnSet(h, Im(v))
  <2> HIDE DEF Im
  <2>1. QED  BY <1>9, <1>10, SumAny
<1>13. h[f[z]] = g[z]
  BY <1>5
<1>14. QED  BY <1>5, <1>8, <1>11, <1>12, <1>13
===========================================================================
