------------------------------ MODULE SumProofs ------------------------------
(***************************************************************************)
(* Sums over finite sets. The models add amounts with MapThenSumSet, whose *)
(* definition takes the elements in an order CHOOSE fixes. What the        *)
(* theorems about amounts need is that the order does not matter.          *)
(*                                                                         *)
(* A sum is a value of the function Partials, which is defined by the same *)
(* recursion. That it exists, and every fact about its values, is proved   *)
(* by looking at a smallest set for which it fails: the subsets of a       *)
(* finite set are well-founded under strict inclusion.                     *)
(***************************************************************************)
EXTENDS FiniteSetsExt, FiniteSetTheorems, TLAPS

\* g gives each subset of S the sum of F over it.
Partials(F, S, g) ==
    g = [s \in SUBSET S |-> IF s = {} THEN 0
                            ELSE LET x == CHOOSE x \in s : TRUE IN F[x] + g[s \ {x}]]

\* The sum of F over S.
Total(F, S) == (CHOOSE g : Partials(F, S, g))[S]

\* If a finite set has subsets that are bad, one of them is smallest.
LEMMA SmallestSubset ==
    ASSUME NEW S, IsFiniteSet(S), NEW Bad, Bad \subseteq SUBSET S, Bad # {}
    PROVE  \E u \in Bad : \A v \in SUBSET u : v # u => v \notin Bad
<1>1. IsWellFoundedOn(StrictSubsetOrdering(S), SUBSET S)
  BY FS_StrictSubsetOrderingWellFounded, FS_FiniteSubsetsOfFinite
<1>2. PICK u \in Bad : \A v \in Bad : <<v, u>> \notin StrictSubsetOrdering(S)
  BY <1>1, WFMin
<1>3. ASSUME NEW v \in SUBSET u, v # u
      PROVE  v \notin Bad
  <2>1. v \in SUBSET S /\ u \in SUBSET S
    OBVIOUS
  <2>2. <<v, u>> \in StrictSubsetOrdering(S)
    BY <1>3, <2>1 DEF StrictSubsetOrdering
  <2> QED BY <1>2, <2>2
<1> QED BY <1>3

LEMMA SomeElement ==
    ASSUME NEW s, s # {}
    PROVE  (CHOOSE x \in s : TRUE) \in s
OBVIOUS

\* Two such functions agree on the sets both are defined for.
LEMMA PartialsAgree ==
    ASSUME NEW F, NEW S, IsFiniteSet(S), NEW T, S \subseteq T,
           NEW g, Partials(F, S, g), NEW h, Partials(F, T, h)
    PROVE  \A s \in SUBSET S : g[s] = h[s]
<1> DEFINE Bad == {s \in SUBSET S : g[s] # h[s]}
<1> SUFFICES ASSUME Bad # {} PROVE FALSE
  OBVIOUS
<1>1. PICK u \in Bad : \A v \in SUBSET u : v # u => v \notin Bad
  <2> Bad \subseteq SUBSET S
    OBVIOUS
  <2> HIDE DEF Bad
  <2> QED BY SmallestSubset
<1>2. /\ g[u] = IF u = {} THEN 0
                ELSE LET x == CHOOSE x \in u : TRUE IN F[x] + g[u \ {x}]
      /\ h[u] = IF u = {} THEN 0
                ELSE LET x == CHOOSE x \in u : TRUE IN F[x] + h[u \ {x}]
  BY <1>1, Zenon DEF Partials
<1>3. u # {}
  BY <1>1, <1>2
<1>4. PICK c : c = CHOOSE x \in u : TRUE
  OBVIOUS
<1>5. c \in u
  BY <1>3, <1>4, SomeElement
<1>6. g[u] = F[c] + g[u \ {c}] /\ h[u] = F[c] + h[u \ {c}]
  BY <1>2, <1>3, <1>4
<1>7. u \ {c} \in SUBSET u /\ u \ {c} # u /\ u \ {c} \in SUBSET S
  BY <1>1, <1>5
<1>8. g[u \ {c}] = h[u \ {c}]
  BY <1>1, <1>7
<1> QED BY <1>1, <1>6, <1>8

\* Of every finite set there is one.
LEMMA PartialsExist ==
    ASSUME NEW F, NEW S, IsFiniteSet(S)
    PROVE  \E g : Partials(F, S, g)
<1> DEFINE Bad == {s \in SUBSET S : ~\E g : Partials(F, s, g)}
<1> SUFFICES ASSUME Bad # {} PROVE FALSE
  BY DEF Bad
<1>1. PICK u \in Bad : \A v \in SUBSET u : v # u => v \notin Bad
  <2> Bad \subseteq SUBSET S
    OBVIOUS
  <2> HIDE DEF Bad
  <2> QED BY SmallestSubset
<1>2. \A v \in SUBSET u : v # u => \E g : Partials(F, v, g)
  BY <1>1
<1> DEFINE G(v) == CHOOSE g : Partials(F, v, g)
<1>3. \A v \in SUBSET u : v # u => Partials(F, v, G(v))
  BY <1>2
<1> DEFINE c == CHOOSE x \in u : TRUE
           top == IF u = {} THEN 0 ELSE F[c] + G(u \ {c})[u \ {c}]
           h == [s \in SUBSET u |-> IF s = u THEN top ELSE G(s)[s]]
<1> HIDE DEF G
<1>4. ASSUME NEW s \in SUBSET u, NEW v \in SUBSET s, s # u
      PROVE  G(s)[v] = G(v)[v]
  <2>1. v # u /\ v \in SUBSET u
    BY <1>4
  <2>2. IsFiniteSet(v)
    BY <2>1, <1>1, FS_Subset
  <2>3. Partials(F, v, G(v)) /\ Partials(F, s, G(s))
    BY <1>3, <1>4, <2>1
  <2>4. PICK k, l : k = G(v) /\ l = G(s)
    OBVIOUS
  <2>5. \A x \in SUBSET v : k[x] = l[x]
    <3>1. v \subseteq s /\ Partials(F, v, k) /\ Partials(F, s, l)
      BY <2>3, <2>4
    <3> QED BY <2>2, <3>1, PartialsAgree
  <2> QED BY <2>4, <2>5
<1>5. ASSUME NEW s \in SUBSET u
      PROVE  h[s] = IF s = {} THEN 0
                    ELSE LET x == CHOOSE x \in s : TRUE IN F[x] + h[s \ {x}]
  <2>1. PICK d : d = CHOOSE x \in s : TRUE
    OBVIOUS
  <2>2. SUFFICES h[s] = IF s = {} THEN 0 ELSE F[d] + h[s \ {d}]
    BY <2>1
  <2>3. CASE s = {} /\ s # u
    <3>1. G(s)[s] = 0
      BY <2>3, <1>3 DEF Partials
    <3> QED BY <3>1, <2>3
  <2>4. CASE s = {} /\ s = u
    BY <2>4
  <2>5. CASE s # {}
    <3>1. d \in s
      BY <2>1, <2>5, SomeElement
    <3>2. s \ {d} \in SUBSET u /\ s \ {d} # u /\ s \ {d} \in SUBSET s
      BY <3>1
    <3>3. h[s \ {d}] = G(s \ {d})[s \ {d}]
      BY <3>2
    <3>4. CASE s = u
      <4>1. d = c
        BY <2>1, <3>4
      <4> HIDE DEF c
      <4> QED BY <3>3, <3>4, <2>5, <4>1
    <3>5. CASE s # u
      <4>1. Partials(F, s, G(s))
        BY <1>3, <3>5
      <4>2. G(s)[s] = IF s = {} THEN 0
                      ELSE LET x == CHOOSE x \in s : TRUE IN F[x] + G(s)[s \ {x}]
        BY <4>1, Zenon DEF Partials
      <4>3. G(s)[s] = F[d] + G(s)[s \ {d}]
        BY <4>2, <2>1, <2>5
      <4>4. G(s)[s \ {d}] = G(s \ {d})[s \ {d}]
        BY <1>4, <3>2, <3>5
      <4>5. h[s] = G(s)[s]
        BY <3>5
      <4> QED BY <3>3, <4>3, <4>4, <4>5, <2>5
    <3> QED BY <3>4, <3>5
  <2> QED BY <2>3, <2>4, <2>5
<1>6. Partials(F, u, h)
  <2>1. h = [s \in SUBSET u |-> h[s]]
    OBVIOUS
  <2> HIDE DEF h
  <2> QED BY <2>1, <1>5 DEF Partials
<1> QED BY <1>1, <1>6

-----------------------------------------------------------------------------
(* The sum.                                                                *)

\* Any such function has the sums as its values.
LEMMA TotalIs ==
    ASSUME NEW F, NEW S, IsFiniteSet(S), NEW g, Partials(F, S, g)
    PROVE  \A s \in SUBSET S : Total(F, s) = g[s]
<1> SUFFICES ASSUME NEW s \in SUBSET S PROVE Total(F, s) = g[s]
  OBVIOUS
<1>1. IsFiniteSet(s)
  BY FS_Subset
<1>2. PICK h : h = CHOOSE k : Partials(F, s, k)
  OBVIOUS
<1>3. Partials(F, s, h)
  BY <1>1, <1>2, PartialsExist
<1>4. \A x \in SUBSET s : h[x] = g[x]
  BY <1>1, <1>3, PartialsAgree
<1>5. Total(F, s) = h[s]
  BY <1>2 DEF Total
<1> QED BY <1>4, <1>5

LEMMA TotalStep ==
    ASSUME NEW F, NEW S, IsFiniteSet(S)
    PROVE  /\ S = {} => Total(F, S) = 0
           /\ S # {} => \E c \in S : Total(F, S) = F[c] + Total(F, S \ {c})
<1>1. PICK g : Partials(F, S, g)
  BY PartialsExist
<1>2. \A s \in SUBSET S : Total(F, s) = g[s]
  BY <1>1, TotalIs
<1>3. Total(F, S) = g[S]
  BY <1>2
<1>4. g[S] = IF S = {} THEN 0
             ELSE LET x == CHOOSE x \in S : TRUE IN F[x] + g[S \ {x}]
  BY <1>1, Zenon DEF Partials
<1>5. PICK c : c = CHOOSE x \in S : TRUE
  OBVIOUS
<1>6. ASSUME S # {}
      PROVE  c \in S /\ Total(F, S) = F[c] + Total(F, S \ {c})
  <2>1. c \in S
    BY <1>5, <1>6, SomeElement
  <2>2. g[S] = F[c] + g[S \ {c}]
    BY <1>4, <1>5, <1>6
  <2>3. Total(F, S \ {c}) = g[S \ {c}]
    BY <1>2
  <2> QED BY <1>3, <2>1, <2>2, <2>3
<1> QED BY <1>3, <1>4, <1>6

LEMMA TotalEmpty == ASSUME NEW F PROVE Total(F, {}) = 0
BY TotalStep, FS_EmptySet

\* A sum of integers is an integer.
LEMMA TotalInt ==
    ASSUME NEW F, NEW S, IsFiniteSet(S), \A x \in S : F[x] \in Int
    PROVE  Total(F, S) \in Int
<1> DEFINE Bad == {s \in SUBSET S : Total(F, s) \notin Int}
<1> SUFFICES ASSUME Bad # {} PROVE FALSE
  OBVIOUS
<1>1. PICK u \in Bad : \A v \in SUBSET u : v # u => v \notin Bad
  <2> Bad \subseteq SUBSET S
    OBVIOUS
  <2> HIDE DEF Bad
  <2> QED BY SmallestSubset
<1>2. IsFiniteSet(u)
  BY <1>1, FS_Subset
<1>3. u # {}
  BY <1>1, TotalEmpty
<1>4. PICK c \in u : Total(F, u) = F[c] + Total(F, u \ {c})
  BY <1>2, <1>3, TotalStep
<1>5. Total(F, u \ {c}) \in Int
  BY <1>1, <1>4
<1>6. F[c] \in Int
  BY <1>1, <1>4
<1> QED BY <1>1, <1>4, <1>5, <1>6

\* Whatever element is taken out first: the order does not matter.
LEMMA TotalAdd ==
    ASSUME NEW F, NEW S, IsFiniteSet(S), \A x \in S : F[x] \in Int
    PROVE  \A e \in S : Total(F, S) = F[e] + Total(F, S \ {e})
<1> DEFINE Bad == {s \in SUBSET S : \E e \in s : Total(F, s) # F[e] + Total(F, s \ {e})}
<1> SUFFICES ASSUME Bad # {} PROVE FALSE
  OBVIOUS
<1>1. PICK u \in Bad : \A v \in SUBSET u : v # u => v \notin Bad
  <2> Bad \subseteq SUBSET S
    OBVIOUS
  <2> HIDE DEF Bad
  <2> QED BY SmallestSubset
<1>2. IsFiniteSet(u) /\ u \subseteq S
  BY <1>1, FS_Subset
<1>3. PICK e \in u : Total(F, u) # F[e] + Total(F, u \ {e})
  BY <1>1
<1>4. PICK c \in u : Total(F, u) = F[c] + Total(F, u \ {c})
  BY <1>2, <1>3, TotalStep
<1>5. c # e
  BY <1>3, <1>4
<1>6. \A x, y \in u : x # y => Total(F, u \ {x}) = F[y] + Total(F, (u \ {x}) \ {y})
  <2> SUFFICES ASSUME NEW x \in u, NEW y \in u, x # y
               PROVE  Total(F, u \ {x}) = F[y] + Total(F, (u \ {x}) \ {y})
    OBVIOUS
  <2>1. u \ {x} \in SUBSET u /\ u \ {x} # u /\ u \ {x} \in SUBSET S /\ y \in u \ {x}
    BY <1>2
  <2> QED BY <1>1, <2>1
<1>7. (u \ {c}) \ {e} = (u \ {e}) \ {c}
  OBVIOUS
<1>8. PICK n : n = Total(F, (u \ {c}) \ {e})
  OBVIOUS
<1>9. n \in Int /\ F[c] \in Int /\ F[e] \in Int
  <2>1. IsFiniteSet((u \ {c}) \ {e}) /\ \A x \in (u \ {c}) \ {e} : F[x] \in Int
    BY <1>2, FS_Subset
  <2>2. Total(F, (u \ {c}) \ {e}) \in Int
    BY <2>1, TotalInt
  <2> QED BY <1>2, <1>8, <2>2
<1>10. Total(F, u \ {c}) = F[e] + n /\ Total(F, u \ {e}) = F[c] + n
  BY <1>5, <1>6, <1>7, <1>8
<1>11. Total(F, u) = F[c] + (F[e] + n) /\ Total(F, u) # F[e] + (F[c] + n)
  BY <1>3, <1>4, <1>10
<1> QED BY <1>9, <1>11

\* Adding an element.
LEMMA TotalPlus ==
    ASSUME NEW F, NEW S, IsFiniteSet(S), NEW e, e \notin S,
           \A x \in S \cup {e} : F[x] \in Int
    PROVE  Total(F, S \cup {e}) = F[e] + Total(F, S)
<1>1. IsFiniteSet(S \cup {e})
  BY FS_AddElement
<1>2. PICK T : T = S \cup {e}
  OBVIOUS
<1>3. e \in T /\ T \ {e} = S /\ IsFiniteSet(T) /\ \A x \in T : F[x] \in Int
  BY <1>1, <1>2
<1>4. Total(F, T) = F[e] + Total(F, T \ {e})
  BY <1>3, TotalAdd
<1> QED BY <1>2, <1>3, <1>4

\* Elementwise at most, at most in total.
LEMMA TotalLeq ==
    ASSUME NEW F, NEW G, NEW S, IsFiniteSet(S), \A x \in S : F[x] \in Int,
           \A x \in S : G[x] \in Int, \A x \in S : F[x] <= G[x]
    PROVE  Total(F, S) <= Total(G, S)
<1> DEFINE Bad == {s \in SUBSET S : ~(Total(F, s) <= Total(G, s))}
<1> SUFFICES ASSUME Bad # {} PROVE FALSE
  OBVIOUS
<1>1. PICK u \in Bad : \A v \in SUBSET u : v # u => v \notin Bad
  <2> Bad \subseteq SUBSET S
    OBVIOUS
  <2> HIDE DEF Bad
  <2> QED BY SmallestSubset
<1>2. IsFiniteSet(u) /\ u \subseteq S
  BY <1>1, FS_Subset
<1>3. u # {}
  <2>1. Total(F, {}) = 0 /\ Total(G, {}) = 0
    BY TotalEmpty
  <2>2. ~(Total(F, u) <= Total(G, u))
    BY <1>1
  <2> QED BY <2>1, <2>2
<1>4. PICK c \in u : TRUE
  BY <1>3
<1>5. Total(F, u) = F[c] + Total(F, u \ {c}) /\ Total(G, u) = G[c] + Total(G, u \ {c})
  BY <1>2, TotalAdd
<1>6. PICK m, n : m = Total(F, u \ {c}) /\ n = Total(G, u \ {c})
  OBVIOUS
<1>7. m \in Int /\ n \in Int
  <2>1. IsFiniteSet(u \ {c}) /\ u \ {c} \subseteq S
    BY <1>2, FS_Subset
  <2> QED BY <1>6, <2>1, TotalInt
<1>8. m <= n
  BY <1>1, <1>4, <1>6
<1>9. F[c] \in Int /\ G[c] \in Int /\ F[c] <= G[c]
  BY <1>2
<1>10. F[c] + m <= G[c] + n
  BY <1>7, <1>8, <1>9
<1> QED BY <1>1, <1>5, <1>6, <1>10

\* Functions that agree have the same sum.
LEMMA TotalSame ==
    ASSUME NEW F, NEW G, NEW S, IsFiniteSet(S), \A x \in S : F[x] \in Int,
           \A x \in S : F[x] = G[x]
    PROVE  Total(F, S) = Total(G, S)
<1>1. \A x \in S : F[x] <= G[x] /\ G[x] <= F[x] /\ G[x] \in Int
  OBVIOUS
<1>2. Total(F, S) <= Total(G, S) /\ Total(G, S) <= Total(F, S)
  BY <1>1, TotalLeq
<1>3. Total(F, S) \in Int /\ Total(G, S) \in Int
  BY <1>1, TotalInt
<1> QED BY <1>2, <1>3

\* A sum over two sets that have no element in common.
LEMMA TotalUnion ==
    ASSUME NEW F, NEW S, IsFiniteSet(S), NEW T, IsFiniteSet(T), S \cap T = {},
           \A x \in S \cup T : F[x] \in Int
    PROVE  Total(F, S \cup T) = Total(F, S) + Total(F, T)
<1> DEFINE Bad == {s \in SUBSET S : Total(F, s \cup T) # Total(F, s) + Total(F, T)}
<1> SUFFICES ASSUME Bad # {} PROVE FALSE
  OBVIOUS
<1>1. PICK u \in Bad : \A v \in SUBSET u : v # u => v \notin Bad
  <2> Bad \subseteq SUBSET S
    OBVIOUS
  <2> HIDE DEF Bad
  <2> QED BY SmallestSubset
<1>2. IsFiniteSet(u) /\ u \subseteq S
  BY <1>1, FS_Subset
<1>3. PICK t : t = Total(F, T)
  OBVIOUS
<1>4. t \in Int
  BY <1>3, TotalInt
<1>5. u # {}
  <2>1. Total(F, {} \cup T) = t /\ Total(F, {}) = 0
    <3>1. {} \cup T = T
      OBVIOUS
    <3> QED BY <1>3, <3>1, TotalEmpty
  <2>2. Total(F, u \cup T) # Total(F, u) + t
    BY <1>1, <1>3
  <2>3. ASSUME u = {} PROVE FALSE
    <3>1. Total(F, u \cup T) = t /\ Total(F, u) = 0
      BY <2>1, <2>3
    <3> QED BY <1>4, <2>2, <3>1
  <2> QED BY <2>3
<1>6. PICK c \in u : TRUE
  BY <1>5
<1>7. PICK m, n : m = Total(F, u \ {c}) /\ n = Total(F, (u \ {c}) \cup T)
  OBVIOUS
<1>8. n = m + t
  BY <1>1, <1>3, <1>6, <1>7
<1>9. Total(F, u) = F[c] + m
  BY <1>2, <1>7, TotalAdd
<1>10. Total(F, u \cup T) = F[c] + n
  <2>1. PICK v : v = u \cup T
    OBVIOUS
  <2>2. IsFiniteSet(v) /\ c \in v /\ v \ {c} = (u \ {c}) \cup T
    BY <1>2, <2>1, FS_Union
  <2>3. \A x \in v : F[x] \in Int
    BY <1>2, <2>1
  <2>4. Total(F, v) = F[c] + Total(F, v \ {c})
    BY <2>2, <2>3, TotalAdd
  <2> QED BY <1>7, <2>1, <2>2, <2>4
<1>11. m \in Int /\ F[c] \in Int
  <2>1. IsFiniteSet(u \ {c}) /\ u \ {c} \subseteq S
    BY <1>2, FS_Subset
  <2> QED BY <1>2, <1>7, <2>1, TotalInt
<1>12. F[c] + n = (F[c] + m) + t
  BY <1>4, <1>8, <1>11
<1> QED BY <1>1, <1>3, <1>9, <1>10, <1>12

\* Leaving out elements that are not negative makes a sum no larger.
LEMMA TotalSubset ==
    ASSUME NEW F, NEW S, IsFiniteSet(S), NEW T, T \subseteq S,
           \A x \in S : F[x] \in Int, \A x \in S \ T : 0 <= F[x]
    PROVE  Total(F, T) <= Total(F, S)
<1> DEFINE Z == [x \in S |-> IF x \in T THEN F[x] ELSE 0]
<1>1. IsFiniteSet(T) /\ IsFiniteSet(S \ T) /\ T \cup (S \ T) = S
  BY FS_Subset, FS_Difference
<1>2. PICK m, n : m = Total(F, T) /\ n = Total(F, S \ T)
  OBVIOUS
<1>3. Total(F, S) = m + n
  <2>1. Total(F, T \cup (S \ T)) = Total(F, T) + Total(F, S \ T)
    BY <1>1, TotalUnion
  <2> QED BY <1>1, <1>2, <2>1
<1>4. m \in Int /\ n \in Int
  BY <1>1, <1>2, TotalInt
<1>5. 0 <= n
  <2> DEFINE Bad == {s \in SUBSET (S \ T) : ~(0 <= Total(F, s))}
  <2> SUFFICES ASSUME Bad # {} PROVE FALSE
    BY <1>2
  <2>1. PICK u \in Bad : \A v \in SUBSET u : v # u => v \notin Bad
    <3> Bad \subseteq SUBSET (S \ T)
      OBVIOUS
    <3> HIDE DEF Bad
    <3> QED BY <1>1, SmallestSubset
  <2>2. IsFiniteSet(u) /\ u \subseteq S \ T
    BY <1>1, <2>1, FS_Subset
  <2>3. PICK k : k = Total(F, u)
    OBVIOUS
  <2>4. ~(0 <= k)
    BY <2>1, <2>3
  <2>5. PICK c \in u : k = F[c] + Total(F, u \ {c})
    BY <2>2, <2>3, <2>4, TotalStep
  <2>6. PICK l : l = Total(F, u \ {c})
    OBVIOUS
  <2>7. 0 <= l
    BY <2>1, <2>5, <2>6
  <2>8. l \in Int
    <3>1. IsFiniteSet(u \ {c}) /\ u \ {c} \subseteq S
      BY <2>2, FS_Subset
    <3> QED BY <2>6, <3>1, TotalInt
  <2>9. F[c] \in Int /\ 0 <= F[c]
    BY <2>2, <2>5
  <2> QED BY <2>4, <2>5, <2>6, <2>7, <2>8, <2>9
<1> QED BY <1>2, <1>3, <1>4, <1>5

\* A common factor.
LEMMA TotalTimes ==
    ASSUME NEW F, NEW G, NEW S, IsFiniteSet(S), NEW k \in Int,
           \A x \in S : F[x] \in Int /\ G[x] = k * F[x]
    PROVE  Total(G, S) = k * Total(F, S)
<1> DEFINE Bad == {s \in SUBSET S : Total(G, s) # k * Total(F, s)}
<1> SUFFICES ASSUME Bad # {} PROVE FALSE
  OBVIOUS
<1>1. PICK u \in Bad : \A v \in SUBSET u : v # u => v \notin Bad
  <2> Bad \subseteq SUBSET S
    OBVIOUS
  <2> HIDE DEF Bad
  <2> QED BY SmallestSubset
<1>2. IsFiniteSet(u) /\ u \subseteq S
  BY <1>1, FS_Subset
<1>3. u # {}
  <2>1. Total(F, {}) = 0 /\ Total(G, {}) = 0 /\ k * 0 = 0
    BY TotalEmpty
  <2>2. Total(G, u) # k * Total(F, u)
    BY <1>1
  <2> QED BY <2>1, <2>2
<1>4. PICK c \in u : TRUE
  BY <1>3
<1>5. \A x \in u : F[x] \in Int /\ G[x] \in Int
  BY <1>2
<1>6. Total(F, u) = F[c] + Total(F, u \ {c}) /\ Total(G, u) = G[c] + Total(G, u \ {c})
  BY <1>2, <1>5, TotalAdd
<1>7. PICK m : m = Total(F, u \ {c})
  OBVIOUS
<1>8. m \in Int
  <2>1. IsFiniteSet(u \ {c}) /\ \A x \in u \ {c} : F[x] \in Int
    BY <1>2, <1>5, FS_Subset
  <2> QED BY <1>7, <2>1, TotalInt
<1>9. Total(G, u \ {c}) = k * m
  BY <1>1, <1>4, <1>7
<1>10. F[c] \in Int /\ G[c] = k * F[c]
  BY <1>2
<1>11. k * (F[c] + m) = k * F[c] + k * m
  BY <1>8, <1>10
<1> QED BY <1>1, <1>6, <1>7, <1>9, <1>10, <1>11

\* The sum of a constant.
LEMMA TotalConstant ==
    ASSUME NEW F, NEW S, IsFiniteSet(S), NEW k \in Int, \A x \in S : F[x] = k
    PROVE  Total(F, S) = k * Cardinality(S)
<1> DEFINE Bad == {s \in SUBSET S : Total(F, s) # k * Cardinality(s)}
<1> SUFFICES ASSUME Bad # {} PROVE FALSE
  OBVIOUS
<1>1. PICK u \in Bad : \A v \in SUBSET u : v # u => v \notin Bad
  <2> Bad \subseteq SUBSET S
    OBVIOUS
  <2> HIDE DEF Bad
  <2> QED BY SmallestSubset
<1>2. IsFiniteSet(u) /\ u \subseteq S
  BY <1>1, FS_Subset
<1>3. u # {}
  <2>1. Total(F, {}) = 0 /\ Cardinality({}) = 0
    BY TotalEmpty, FS_EmptySet
  <2>2. k * 0 = 0
    OBVIOUS
  <2>3. Total(F, u) # k * Cardinality(u)
    BY <1>1
  <2> QED BY <2>1, <2>2, <2>3
<1>4. PICK c \in u : Total(F, u) = F[c] + Total(F, u \ {c})
  BY <1>2, <1>3, TotalStep
<1>5. PICK n : n = Cardinality(u \ {c})
  OBVIOUS
<1>6. Cardinality(u) = n + 1 /\ n \in Int
  <2>1. Cardinality(u \ {c}) = Cardinality(u) - 1 /\ Cardinality(u) \in Nat
    BY <1>2, FS_RemoveElement, FS_CardinalityType
  <2> QED BY <1>5, <2>1
<1>7. Total(F, u \ {c}) = k * n
  BY <1>1, <1>5
<1>8. F[c] = k
  BY <1>2
<1>9. k * (n + 1) = k + k * n
  BY <1>6
<1> QED BY <1>1, <1>4, <1>6, <1>7, <1>8, <1>9

\* Counting the elements of sets that have none in common.
LEMMA TotalOfCounts ==
    ASSUME NEW T, IsFiniteSet(T), NEW A, \A t \in T : IsFiniteSet(A[t]),
           \A t, u \in T : t # u => A[t] \cap A[u] = {},
           NEW F, \A t \in T : F[t] = Cardinality(A[t]),
           NEW U, \A e : e \in U <=> \E t \in T : e \in A[t]
    PROVE  IsFiniteSet(U) /\ Total(F, T) = Cardinality(U)
<1>0. U = UNION {A[t] : t \in T}
  OBVIOUS
<1> DEFINE All(s) == UNION {A[t] : t \in s}
           Good(s) == IsFiniteSet(All(s)) /\ Total(F, s) = Cardinality(All(s))
           Bad == {s \in SUBSET T : ~Good(s)}
<1> SUFFICES ASSUME Bad # {} PROVE FALSE
  BY <1>0
<1>1. PICK u \in Bad : \A v \in SUBSET u : v # u => v \notin Bad
  <2> Bad \subseteq SUBSET T
    OBVIOUS
  <2> HIDE DEF Bad
  <2> QED BY SmallestSubset
<1>2. IsFiniteSet(u) /\ u \subseteq T
  BY <1>1, FS_Subset
<1>3. u # {}
  <2>1. Total(F, {}) = 0 /\ All({}) = {} /\ Cardinality({}) = 0 /\ IsFiniteSet({})
    BY TotalEmpty, FS_EmptySet
  <2>2. Good({})
    BY <2>1
  <2> QED BY <1>1, <2>2
<1>4. PICK c \in u : Total(F, u) = F[c] + Total(F, u \ {c})
  BY <1>2, <1>3, TotalStep
<1>5. PICK B : B = All(u \ {c})
  OBVIOUS
<1>6. IsFiniteSet(B) /\ Total(F, u \ {c}) = Cardinality(B)
  <2>1. Good(u \ {c})
    BY <1>1
  <2> QED BY <1>5, <2>1
<1>7. All(u) = A[c] \cup B
  BY <1>5
<1>8. A[c] \cap B = {}
  BY <1>2, <1>5
<1>9. IsFiniteSet(A[c]) /\ F[c] = Cardinality(A[c])
  BY <1>2
<1> HIDE DEF All
<1>10. IsFiniteSet(A[c] \cup B)
  BY <1>6, <1>9, FS_Union
<1>11. Cardinality(A[c] \cup B) = Cardinality(A[c]) + Cardinality(B)
  <2>1. Cardinality(A[c] \cup B) = Cardinality(A[c]) + Cardinality(B) - Cardinality(A[c] \cap B)
    BY <1>6, <1>9, FS_Union
  <2>2. Cardinality(A[c] \cap B) = 0
    BY <1>8, FS_EmptySet
  <2>3. Cardinality(A[c]) \in Nat /\ Cardinality(B) \in Nat
    BY <1>6, <1>9, FS_CardinalityType
  <2> QED BY <2>1, <2>2, <2>3
<1>12. Good(u)
  BY <1>4, <1>6, <1>7, <1>9, <1>10, <1>11
<1> QED BY <1>1, <1>12
=============================================================================
