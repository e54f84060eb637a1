--------------------------- MODULE PageTableProofs ---------------------------
(***************************************************************************)
(* The page tables as trees, for any number of entries, frames and address *)
(* spaces: what a walk that makes tables does, what a write to a page's    *)
(* entry does, and that neither disturbs the translation of another page.  *)
(* The lemmas are about memories, sets of free frames and PML4s as values, *)
(* and are used for each call of map_page, unmap_page and TTable::new in   *)
(* MappingProofs.                                                          *)
(***************************************************************************)
EXTENDS Mapping, WellFoundedInduction, TLAPS

(* A leaf that names no prover is tried with Zenon, then with the SMT solver. *)
USE ZenonT(30), SMTT(30)

LEMMA Least ==
  ASSUME NEW S, S \subseteq Nat, S # {}
  PROVE  Min(S) \in S /\ \A y \in S : Min(S) =< y
<1> DEFINE R == {ss \in Nat \X Nat : ss[1] < ss[2]}
<1>1. IsWellFoundedOn(R, Nat)
  BY NatLessThanWellFounded DEF OpToRel
<1> HIDE DEF R
<1>2. PICK x \in S : \A y \in S : ~ (<<y, x>> \in R)
  BY <1>1, WFMin
<1>3. \A y \in S : ~ (y < x)
  BY <1>2 DEF R
<1>4. \A y \in S : x =< y
  BY <1>3
<1> QED
  BY <1>4 DEF Min
-----------------------------------------------------------------------------
Idx == 0 .. Entries - 1
Pages == KPages \union UPages

LEMMA DivMod ==
  ASSUME NEW x \in Nat, NEW k \in Nat \ {0}
  PROVE  /\ x \div k \in Nat
         /\ x % k \in 0 .. k - 1
         /\ x = ((x \div k) * k) + (x % k)
OBVIOUS

LEMMA DivUnique ==
  ASSUME NEW k \in Nat \ {0}, NEW q \in Nat, NEW r \in 0 .. k - 1
  PROVE  (q * k + r) \div k = q
OBVIOUS

LEMMA DivDiv ==
  ASSUME NEW x \in Nat, NEW a \in Nat \ {0}, NEW b \in Nat \ {0}
  PROVE  x \div (a * b) = (x \div a) \div b
<1> DEFINE q == x \div a
           s == q \div b
           r == (q % b) * a + (x % a)
<1>1. q \in Nat /\ x % a \in 0 .. a - 1 /\ x = q * a + (x % a)
  BY DivMod
<1>2. s \in Nat /\ q % b \in 0 .. b - 1 /\ q = s * b + (q % b)
  BY <1>1, DivMod
<1> HIDE DEF q, s
<1>3. \A y \in 0 .. b - 1, z \in 0 .. a - 1 : y * a + z \in 0 .. (a * b) - 1
  OBVIOUS
<1>4. r \in 0 .. (a * b) - 1
  BY <1>1, <1>2, <1>3
<1>5. \A y \in 0 .. b - 1, z \in 0 .. a - 1 :
        (s * b + y) * a + z = s * (a * b) + (y * a + z)
  BY <1>2
<1>6. x = s * (a * b) + r
  BY <1>1, <1>2, <1>5
<1>7. a * b \in Nat \ {0}
  OBVIOUS
<1> HIDE DEF r
<1>8. (s * (a * b) + r) \div (a * b) = s
  BY <1>2, <1>4, <1>7, DivUnique
<1> QED
  BY <1>6, <1>8 DEF q, s


(* The indices of a page are entries of tables; the first tells the half. *)
LEMMA Indices ==
  ASSUME NEW p \in Pages
  PROVE  /\ p \in Nat
         /\ pt_index(p) \in Idx /\ pd_index(p) \in Idx
         /\ pdpt_index(p) \in Idx /\ pml4_index(p) \in Idx
         /\ pml4_index(p) = ((p \div Entries) \div Entries) \div Entries
         /\ pdpt_index(p) = ((p \div Entries) \div Entries) % Entries
         /\ p \in KPages <=> pml4_index(p) >= Half
<1> DEFINE E == Entries
           C == E * E * E
<1>1. E \in Nat \ {0}
  BY TableAssumption
<1>2. Half \in Nat /\ Half =< E
  BY <1>1 DEF Half
<1> HIDE DEF E
<1>3. E * E \in Nat \ {0} /\ C \in Nat \ {0}
  BY <1>1
<1>4. KPages = Half * C .. (E * C) - 1 /\ UPages = 0 .. (Half * C) - 1
  <2>1. E * E * E * E = E * C /\ Half * E * E * E = Half * C
    BY <1>1, <1>2
  <2> QED
    BY <2>1 DEF KPages, UPages, E
<1> HIDE DEF C
<1>5. p \in Nat /\ p < E * C /\ (p \in KPages <=> p >= Half * C)
  <2>1. \A h, e \in Nat : h =< e => h * C \in Nat /\ e * C \in Nat /\ h * C =< e * C
    BY <1>3
  <2>2. Half * C \in Nat /\ E * C \in Nat /\ Half * C =< E * C
    BY <2>1, <1>1, <1>2
  <2> QED
    BY <2>2, <1>4 DEF Pages
<1>6. p \div C \in Nat /\ p % C \in 0 .. C - 1 /\ p = (p \div C) * C + (p % C)
  BY <1>3, <1>5, DivMod
<1>7. \A q, h \in Nat, r \in 0 .. C - 1 :
        (q * C + r >= h * C <=> q >= h) /\ (q * C + r < h * C <=> q < h)
  BY <1>3
<1>8. p \div C < E /\ (p \in KPages <=> p \div C >= Half)
  BY SMTT(30), <1>1, <1>2, <1>5, <1>6, <1>7
<1>9. (p \div C) % E = p \div C
  BY <1>1, <1>6, <1>8
<1>10. \A q \in Nat : q % E \in 0 .. E - 1
  BY <1>1
<1>11. p \div E \in Nat /\ p \div (E * E) \in Nat
  BY <1>1, <1>3, <1>5, DivMod
<1>12. p \div (E * E) = (p \div E) \div E
  BY <1>1, <1>5, DivDiv
<1>13. p \div C = (p \div (E * E)) \div E
  BY <1>1, <1>3, <1>5, DivDiv DEF C
<1>14. /\ pt_index(p) = p % E /\ pd_index(p) = (p \div E) % E
       /\ pdpt_index(p) = (p \div (E * E)) % E /\ pml4_index(p) = (p \div C) % E
       /\ Idx = 0 .. E - 1
  BY DEF pt_index, pd_index, pdpt_index, pml4_index, Idx, E, C
<1>15. /\ pt_index(p) \in Idx /\ pd_index(p) \in Idx
       /\ pdpt_index(p) \in Idx /\ pml4_index(p) \in Idx
  BY <1>5, <1>6, <1>10, <1>11, <1>14
<1>16. /\ pml4_index(p) = ((p \div E) \div E) \div E
       /\ pdpt_index(p) = ((p \div E) \div E) % E
  BY <1>9, <1>12, <1>13, <1>14
<1>17. p \in KPages <=> pml4_index(p) >= Half
  BY <1>8, <1>9, <1>14
<1> QED
  BY <1>5, <1>15, <1>16, <1>17 DEF E

(* Two pages with the same indices are one. *)
LEMMA SameIndices ==
  ASSUME NEW p \in Pages, NEW q \in Pages,
         pt_index(p) = pt_index(q), pd_index(p) = pd_index(q),
         pdpt_index(p) = pdpt_index(q), pml4_index(p) = pml4_index(q)
  PROVE  p = q
<1>1. \A x, y \in Nat : x \div Entries = y \div Entries /\ x % Entries = y % Entries => x = y
  <2> SUFFICES ASSUME NEW x \in Nat, NEW y \in Nat,
                      x \div Entries = y \div Entries, x % Entries = y % Entries
               PROVE  x = y
    OBVIOUS
  <2> QED
    BY DivMod, TableAssumption
<1>2. \A x \in Nat : x \div Entries \in Nat
  BY DivMod, TableAssumption
<1>3. p \in Nat /\ q \in Nat
  BY Indices
<1>4. /\ ((p \div Entries) \div Entries) \div Entries = ((q \div Entries) \div Entries) \div Entries
      /\ ((p \div Entries) \div Entries) % Entries = ((q \div Entries) \div Entries) % Entries
  BY Indices
<1>5. (p \div Entries) \div Entries = (q \div Entries) \div Entries
  BY <1>1, <1>2, <1>3, <1>4
<1>6. p \div Entries = q \div Entries
  BY <1>1, <1>2, <1>3, <1>5 DEF pd_index
<1> QED
  BY <1>1, <1>3, <1>6 DEF pt_index
-----------------------------------------------------------------------------
(* What a memory M, the free frames F and the PML4s P must satisfy for the *)
(* walks to be walks in trees: every frame has a level L, 0 when it is not *)
(* a table, and a table hangs in one place, one level above it.            *)
Vals == Frames \union {NoFrame, Device}

Slot(L, f, j) == L[f] >= 2 /\ (L[f] = 4 => j < Half)

Levels(M, L) ==
  \A f \in Frames, j \in Idx : L[f] >= 2 /\ M[f][j] # NoFrame =>
    M[f][j] \in Frames /\ L[M[f][j]] = L[f] - 1

Halves(M, L) ==
  \A f \in Frames, j \in Idx : L[f] = 4 =>
    IF j >= Half THEN M[f][j] = KBase + (j - Half) ELSE M[f][j] \notin KTableFrames

OnePlace(M, L) ==
  \A f, g \in Frames, j, k \in Idx :
    Slot(L, f, j) /\ Slot(L, g, k) /\ M[f][j] # NoFrame /\ M[f][j] = M[g][k] => f = g /\ j = k

Tree(M, F, P, L) ==
  /\ M \in [Frames -> [Idx -> Vals]]
  /\ F \subseteq Frames
  /\ P \in [Spaces -> Frames \union {NoFrame}]
  /\ L \in [Frames -> 0 .. 4]
  /\ \A f \in F : L[f] = 0
  /\ \A f \in KTableFrames : L[f] = 3
  /\ \A s \in Spaces : P[s] # NoFrame => L[P[s]] = 4
  /\ \A r, s \in Spaces : P[s] # NoFrame /\ P[s] = P[r] => s = r
  /\ Levels(M, L) /\ Halves(M, L) /\ OnePlace(M, L)

Child(M, f, j) == IF f = NoFrame THEN NoFrame ELSE M[f][j]
Leaf3(M, d, a, b) == Child(M, Child(M, d, a), b)
Entry3(M, d, a, b, c) == Child(M, Leaf3(M, d, a, b), c)

(* The frames of the KTable and the entries of the upper half. *)
LEMMA KFrames ==
  /\ \A j \in Idx : j >= Half => KBase + (j - Half) \in KTableFrames
  /\ KTableFrames \subseteq Frames
  /\ Half \in Nat /\ Half =< Entries
<1>1. Entries \in Nat \ {0} /\ KBase \in Nat
  BY TableAssumption
<1>2. Half \in Nat /\ Half =< Entries
  BY <1>1 DEF Half
<1> QED
  BY <1>1, <1>2, TableAssumption DEF KTableFrames, Idx

(* A step down a table of level 2 or more. *)
LEMMA Down ==
  ASSUME NEW M, NEW F, NEW P, NEW L, Tree(M, F, P, L),
         NEW f \in Frames \union {NoFrame}, f # NoFrame => L[f] >= 2, NEW j \in Idx
  PROVE  /\ Child(M, f, j) \in Frames \union {NoFrame}
         /\ f = NoFrame => Child(M, f, j) = NoFrame
         /\ Child(M, f, j) # NoFrame => L[Child(M, f, j)] = L[f] - 1
BY TableAssumption DEF Tree, Levels, Child

AddedTable(M, n, t, j) == [M EXCEPT ![n] = Empty, ![t][j] = n]

LEMMA AddedEntries ==
  ASSUME NEW M \in [Frames -> [Idx -> Vals]], NEW n \in Frames, NEW t \in Frames,
         NEW j \in Idx, t # n
  PROVE  /\ AddedTable(M, n, t, j) \in [Frames -> [Idx -> Vals]]
         /\ \A f \in Frames, k \in Idx :
              AddedTable(M, n, t, j)[f][k] =
                IF f = n THEN NoFrame ELSE IF f = t /\ k = j THEN n ELSE M[f][k]
<1>1. Empty \in [Idx -> Vals] /\ \A k \in Idx : Empty[k] = NoFrame
  BY DEF Empty, Idx, Vals
<1>2. n \in Vals
  BY DEF Vals
<1> HIDE DEF Vals
<1> QED
  BY <1>1, <1>2 DEF AddedTable

(* A free frame made an empty table keeps the tree, and is found where it  *)
(* was hung.                                                               *)
LEMMA AddTable ==
  ASSUME NEW M, NEW F, NEW P, NEW L, Tree(M, F, P, L),
         NEW n \in F, NEW t \in Frames, NEW j \in Idx, Slot(L, t, j), M[t][j] = NoFrame
  PROVE  Tree(AddedTable(M, n, t, j), F \ {n}, P, [L EXCEPT ![n] = L[t] - 1])
<1> DEFINE N == AddedTable(M, n, t, j)
           K == [L EXCEPT ![n] = L[t] - 1]
<1>1. M \in [Frames -> [Idx -> Vals]] /\ F \subseteq Frames /\ L \in [Frames -> 0 .. 4]
  BY DEF Tree
<1>2. L[n] = 0 /\ L[t] \in 2 .. 4 /\ t # n /\ n \in Frames
  BY SMTT(30), <1>1 DEF Tree, Slot
<1>3. /\ N \in [Frames -> [Idx -> Vals]]
      /\ \A f \in Frames, k \in Idx :
           N[f][k] = IF f = n THEN NoFrame ELSE IF f = t /\ k = j THEN n ELSE M[f][k]
  BY SMTT(30), <1>1, <1>2, AddedEntries
<1>4. /\ K \in [Frames -> 0 .. 4]
      /\ K[n] = L[t] - 1 /\ K[n] \in 1 .. 3
      /\ \A f \in Frames : f # n => K[f] = L[f]
  BY SMTT(30), <1>1, <1>2
<1> HIDE DEF N, K
<1>5. n \notin KTableFrames /\ n # NoFrame
  BY SMTT(30), <1>2, TableAssumption DEF Tree
<1>6. \A f \in F \ {n} : K[f] = 0
  BY <1>1, <1>4 DEF Tree
<1>7. \A f \in KTableFrames : K[f] = 3
  BY <1>4, <1>5, KFrames DEF Tree
<1>8. \A s \in Spaces : P[s] # NoFrame => K[P[s]] = 4
  <2> SUFFICES ASSUME NEW s \in Spaces, P[s] # NoFrame
               PROVE  K[P[s]] = 4
    OBVIOUS
  <2>1. P[s] \in Frames /\ L[P[s]] = 4
    BY SMTT(30) DEF Tree
  <2> QED
    BY SMTT(30), <2>1, <1>2, <1>4
<1>9. Levels(N, K)
  <2> SUFFICES ASSUME NEW f \in Frames, NEW k \in Idx, K[f] >= 2, N[f][k] # NoFrame
               PROVE  N[f][k] \in Frames /\ K[N[f][k]] = K[f] - 1
    BY DEF Levels
  <2>1. f # n
    BY <1>3
  <2>2. CASE f = t /\ k = j
    BY <2>1, <2>2, <1>2, <1>3, <1>4
  <2>3. CASE ~ (f = t /\ k = j)
    <3>1. N[f][k] = M[f][k] /\ K[f] = L[f]
      BY <2>1, <2>3, <1>3, <1>4
    <3>2. M[f][k] \in Frames /\ L[M[f][k]] = L[f] - 1
      BY <3>1 DEF Tree, Levels
    <3>3. M[f][k] # n
      BY <3>1, <3>2, <1>1, <1>2
    <3> QED
      BY <3>1, <3>2, <3>3, <1>4
  <2> QED
    BY <2>2, <2>3
<1>10. Halves(N, K)
  <2> SUFFICES ASSUME NEW f \in Frames, NEW k \in Idx, K[f] = 4
               PROVE  IF k >= Half THEN N[f][k] = KBase + (k - Half)
                                   ELSE N[f][k] \notin KTableFrames
    BY DEF Halves
  <2>1. f # n /\ L[f] = 4
    BY SMTT(30), <1>4
  <2>2. CASE f = t /\ k = j
    <3>1. k < Half
      BY <2>1, <2>2 DEF Slot
    <3>2. ~ (k >= Half)
      BY <3>1, KFrames DEF Idx
    <3> QED
      BY <3>2, <2>1, <2>2, <1>3, <1>5
  <2>3. CASE ~ (f = t /\ k = j)
    BY SMTT(30), <2>1, <2>3, <1>3 DEF Tree, Halves
  <2> QED
    BY <2>2, <2>3
<1>11. OnePlace(N, K)
  <2> SUFFICES ASSUME NEW f \in Frames, NEW g \in Frames, NEW k \in Idx, NEW l \in Idx,
                      Slot(K, f, k), Slot(K, g, l), N[f][k] # NoFrame, N[f][k] = N[g][l]
               PROVE  f = g /\ k = l
    BY DEF OnePlace
  <2>1. f # n /\ g # n
    BY <1>3
  <2>2. Slot(L, f, k) /\ Slot(L, g, l)
    BY <2>1, <1>4 DEF Slot
  <2>3. \A h \in Frames, x \in Idx : Slot(L, h, x) => M[h][x] # n
    <3> SUFFICES ASSUME NEW h \in Frames, NEW x \in Idx, Slot(L, h, x), M[h][x] = n
                 PROVE  FALSE
      OBVIOUS
    <3>1. L[n] = L[h] - 1 /\ L[h] >= 2
      BY <1>5 DEF Tree, Levels, Slot
    <3> QED
      BY <3>1, <1>1, <1>2
  <2>4. CASE f = t /\ k = j
    BY SMTT(30), <2>1, <2>2, <2>3, <2>4, <1>3
  <2>5. CASE g = t /\ l = j
    BY <2>1, <2>2, <2>3, <2>5, <1>3
  <2>6. CASE ~ (f = t /\ k = j) /\ ~ (g = t /\ l = j)
    <3>1. M[f][k] # NoFrame /\ M[f][k] = M[g][l]
      BY <2>1, <2>6, <1>3
    <3> QED
      BY SMTT(30), <3>1, <2>2 DEF Tree, OnePlace
  <2> QED
    BY <2>4, <2>5, <2>6
<1>12. F \ {n} \subseteq Frames /\ P \in [Spaces -> Frames \union {NoFrame}]
       /\ \A r, s \in Spaces : P[s] # NoFrame /\ P[s] = P[r] => s = r
  BY DEF Tree
<1>13. Tree(N, F \ {n}, P, K)
  BY <1>3, <1>4, <1>6, <1>7, <1>8, <1>9, <1>10, <1>11, <1>12 DEF Tree
<1> QED
  BY <1>13 DEF N, K

(* What a walk that makes tables may do: it takes free frames, and every   *)
(* translation, in the kernel's half (Entry3) or from a PML4 (Entry4), is  *)
(* what it was.                                                            *)
Entry4(M, d, z, a, b, c) == Entry3(M, Child(M, d, z), a, b, c)

Grown(M, F, L, N, G, K, P) ==
  /\ Tree(N, G, P, K)
  /\ G \subseteq F
  /\ \A f \in Frames \ F : K[f] = L[f]
  /\ \A f \in Frames, j \in Idx : L[f] >= 2 /\ M[f][j] # NoFrame => N[f][j] = M[f][j]
  /\ \A d \in Frames : L[d] = 3 =>
       \A a, b, c \in Idx : Entry3(N, d, a, b, c) = Entry3(M, d, a, b, c)
  /\ \A d \in Frames : L[d] = 4 =>
       \A z, a, b, c \in Idx : Entry4(N, d, z, a, b, c) = Entry4(M, d, z, a, b, c)

LEMMA GrownNot ==
  ASSUME NEW M, NEW F, NEW P, NEW L, Tree(M, F, P, L)
  PROVE  Grown(M, F, L, M, F, L, P)
BY DEF Grown

LEMMA GrownTwice ==
  ASSUME NEW M, NEW F, NEW L, NEW N, NEW G, NEW K, NEW O, NEW H, NEW J, NEW P,
         Tree(M, F, P, L), Grown(M, F, L, N, G, K, P), Grown(N, G, K, O, H, J, P)
  PROVE  Grown(M, F, L, O, H, J, P)
<1>1. \A f \in Frames : L[f] >= 2 => f \notin F
  BY SMTT(30) DEF Tree
<1>2. \A f \in Frames : f \notin F => K[f] = L[f] /\ f \notin G /\ J[f] = L[f]
  BY DEF Grown
<1>3. Tree(O, H, P, J) /\ H \subseteq F
  BY DEF Grown
<1>4. \A f \in Frames, j \in Idx : L[f] >= 2 /\ M[f][j] # NoFrame => O[f][j] = M[f][j]
  <2> SUFFICES ASSUME NEW f \in Frames, NEW j \in Idx, L[f] >= 2, M[f][j] # NoFrame
               PROVE  O[f][j] = M[f][j]
    OBVIOUS
  <2>1. N[f][j] = M[f][j] /\ K[f] = L[f]
    BY <1>1, <1>2 DEF Grown
  <2> QED
    BY <2>1 DEF Grown
<1>5. \A d \in Frames : L[d] = 3 =>
        \A a, b, c \in Idx : Entry3(O, d, a, b, c) = Entry3(M, d, a, b, c)
  <2> SUFFICES ASSUME NEW d \in Frames, L[d] = 3, NEW a \in Idx, NEW b \in Idx, NEW c \in Idx
               PROVE  Entry3(O, d, a, b, c) = Entry3(M, d, a, b, c)
    OBVIOUS
  <2>1. K[d] = 3
    BY SMTT(30), <1>1, <1>2
  <2>2. Entry3(N, d, a, b, c) = Entry3(M, d, a, b, c)
    BY SMTT(30) DEF Grown
  <2>3. Entry3(O, d, a, b, c) = Entry3(N, d, a, b, c)
    BY SMTT(30), <2>1 DEF Grown
  <2> QED
    BY <2>2, <2>3
<1>6. \A d \in Frames : L[d] = 4 =>
        \A z, a, b, c \in Idx : Entry4(O, d, z, a, b, c) = Entry4(M, d, z, a, b, c)
  <2> SUFFICES ASSUME NEW d \in Frames, L[d] = 4,
                      NEW z \in Idx, NEW a \in Idx, NEW b \in Idx, NEW c \in Idx
               PROVE  Entry4(O, d, z, a, b, c) = Entry4(M, d, z, a, b, c)
    OBVIOUS
  <2>1. K[d] = 4
    BY SMTT(30), <1>1, <1>2
  <2>2. Entry4(N, d, z, a, b, c) = Entry4(M, d, z, a, b, c)
    BY SMTT(30) DEF Grown
  <2>3. Entry4(O, d, z, a, b, c) = Entry4(N, d, z, a, b, c)
    BY SMTT(30), <2>1 DEF Grown
  <2> QED
    BY <2>2, <2>3
<1>7. \A f \in Frames \ F : J[f] = L[f]
  BY <1>2
<1> QED
  BY <1>3, <1>4, <1>5, <1>6, <1>7 DEF Grown

LEMMA AddTableGrown ==
  ASSUME NEW M, NEW F, NEW P, NEW L, Tree(M, F, P, L),
         NEW n \in F, NEW t \in Frames, NEW j \in Idx, Slot(L, t, j), M[t][j] = NoFrame
  PROVE  Grown(M, F, L, AddedTable(M, n, t, j), F \ {n}, [L EXCEPT ![n] = L[t] - 1], P)
<1> DEFINE N == AddedTable(M, n, t, j)
           K == [L EXCEPT ![n] = L[t] - 1]
<1>1. M \in [Frames -> [Idx -> Vals]] /\ F \subseteq Frames /\ L \in [Frames -> 0 .. 4]
  BY DEF Tree
<1>2. L[n] = 0 /\ L[t] \in 2 .. 4 /\ t # n /\ n \in Frames /\ n # NoFrame
  BY SMTT(30), <1>1, TableAssumption DEF Tree, Slot
<1>3. \A f \in Frames, k \in Idx :
        N[f][k] = IF f = n THEN NoFrame ELSE IF f = t /\ k = j THEN n ELSE M[f][k]
  BY SMTT(30), <1>1, <1>2, AddedEntries
<1>4. Tree(N, F \ {n}, P, K)
  BY AddTable
<1>5. \A f \in Frames \ F : K[f] = L[f]
  BY <1>1
<1> HIDE DEF N, K
<1>6. \A f \in Frames, k \in Idx : L[f] >= 2 /\ M[f][k] # NoFrame => N[f][k] = M[f][k]
  BY SMTT(30), <1>2, <1>3
<1> DEFINE Below(v) == {f \in Frames \union {NoFrame} : f # NoFrame => L[f] = v}
<1>7. \A v \in 2 .. 4 : \A f \in Below(v), k \in Idx :
        /\ Child(M, f, k) \in Below(v - 1)
        /\ IF f = t /\ k = j THEN Child(M, f, k) = NoFrame /\ Child(N, f, k) = n
                             ELSE Child(N, f, k) = Child(M, f, k)
  <2> SUFFICES ASSUME NEW v \in 2 .. 4, NEW f \in Below(v), NEW k \in Idx
               PROVE  /\ Child(M, f, k) \in Below(v - 1)
                      /\ IF f = t /\ k = j THEN Child(M, f, k) = NoFrame /\ Child(N, f, k) = n
                                           ELSE Child(N, f, k) = Child(M, f, k)
    OBVIOUS
  <2>1. CASE f = NoFrame
    BY <2>1, TableAssumption DEF Child
  <2>2. CASE f # NoFrame
    <3>1. f \in Frames /\ L[f] = v /\ f # n
      BY <2>2, <1>2
    <3>2. /\ Child(M, f, k) \in Frames \union {NoFrame}
          /\ Child(M, f, k) # NoFrame => L[Child(M, f, k)] = L[f] - 1
      BY SMTT(30), <3>1, Down
    <3> QED
      BY <2>2, <3>1, <3>2, <1>3 DEF Child
  <2> QED
    BY <2>1, <2>2
<1>8. \A k \in Idx : Child(N, n, k) = NoFrame /\ Child(N, NoFrame, k) = NoFrame
                     /\ Child(M, NoFrame, k) = NoFrame
  BY <1>2, <1>3 DEF Child
<1>9. \A f \in Below(1), c \in Idx : Child(N, f, c) = Child(M, f, c)
  BY SMTT(30), <1>2, <1>3 DEF Child
<1> HIDE DEF Below
<1>10. \A f \in Below(2), b, c \in Idx :
         Child(N, Child(N, f, b), c) = Child(M, Child(M, f, b), c)
  <2> SUFFICES ASSUME NEW f \in Below(2), NEW b \in Idx, NEW c \in Idx
               PROVE  Child(N, Child(N, f, b), c) = Child(M, Child(M, f, b), c)
    OBVIOUS
  <2>1. /\ Child(M, f, b) \in Below(1)
        /\ IF f = t /\ b = j THEN Child(M, f, b) = NoFrame /\ Child(N, f, b) = n
                             ELSE Child(N, f, b) = Child(M, f, b)
    BY SMTT(30), <1>7
  <2> QED
    BY <2>1, <1>8, <1>9
<1>11. \A f \in Below(3), a, b, c \in Idx : Entry3(N, f, a, b, c) = Entry3(M, f, a, b, c)
  <2> SUFFICES ASSUME NEW f \in Below(3), NEW a \in Idx, NEW b \in Idx, NEW c \in Idx
               PROVE  Entry3(N, f, a, b, c) = Entry3(M, f, a, b, c)
    OBVIOUS
  <2>1. /\ Child(M, f, a) \in Below(2)
        /\ IF f = t /\ a = j THEN Child(M, f, a) = NoFrame /\ Child(N, f, a) = n
                             ELSE Child(N, f, a) = Child(M, f, a)
    BY SMTT(30), <1>7
  <2>2. CASE f = t /\ a = j
    BY <2>1, <2>2, <1>8 DEF Entry3, Leaf3
  <2>3. CASE ~ (f = t /\ a = j)
    BY SMTT(30), <2>1, <2>3, <1>10 DEF Entry3, Leaf3
  <2> QED
    BY <2>2, <2>3
<1>12. \A f \in Below(4), z, a, b, c \in Idx :
         Entry4(N, f, z, a, b, c) = Entry4(M, f, z, a, b, c)
  <2> SUFFICES ASSUME NEW f \in Below(4), NEW z \in Idx, NEW a \in Idx, NEW b \in Idx, NEW c \in Idx
               PROVE  Entry4(N, f, z, a, b, c) = Entry4(M, f, z, a, b, c)
    OBVIOUS
  <2>1. /\ Child(M, f, z) \in Below(3)
        /\ IF f = t /\ z = j THEN Child(M, f, z) = NoFrame /\ Child(N, f, z) = n
                             ELSE Child(N, f, z) = Child(M, f, z)
    BY SMTT(30), <1>7
  <2>2. CASE f = t /\ z = j
    BY <2>1, <2>2, <1>8 DEF Entry4, Entry3, Leaf3
  <2>3. CASE ~ (f = t /\ z = j)
    BY SMTT(30), <2>1, <2>3, <1>11 DEF Entry4
  <2> QED
    BY <2>2, <2>3
<1>13. \A v \in 3 .. 4, d \in Frames : L[d] = v => d \in Below(v)
  BY DEF Below
<1>14. Grown(M, F, L, N, F \ {n}, K, P)
  BY SMTT(30), <1>4, <1>5, <1>6, <1>11, <1>12, <1>13 DEF Grown
<1> QED
  BY <1>14 DEF N, K
-----------------------------------------------------------------------------
St(t, F, M) == [table |-> t, free |-> F, mem |-> M]

(* child_table_or_new goes down one level, or ends the walk. *)
LEMMA ChildOrNew ==
  ASSUME NEW M, NEW F, NEW P, NEW L, Tree(M, F, P, L),
         NEW t \in Frames \union {NoFrame}, NEW j \in Idx, t # NoFrame => Slot(L, t, j)
  PROVE  \E u, G, N, K :
           /\ u \in Frames \union {NoFrame}
           /\ child_table_or_new(St(t, F, M), j) = St(u, G, N)
           /\ Grown(M, F, L, N, G, K, P)
           /\ u # NoFrame => t # NoFrame /\ K[u] = L[t] - 1 /\ N[t][j] = u
<1> DEFINE Goal(u, G, N, K) ==
             /\ u \in Frames \union {NoFrame}
             /\ child_table_or_new(St(t, F, M), j) = St(u, G, N)
             /\ Grown(M, F, L, N, G, K, P)
             /\ u # NoFrame => t # NoFrame /\ K[u] = L[t] - 1 /\ N[t][j] = u
<1>1. Grown(M, F, L, M, F, L, P)
  BY GrownNot
<1>2. CASE t = NoFrame
  <2>1. child_table_or_new(St(t, F, M), j) = St(NoFrame, F, M)
    BY <1>2 DEF child_table_or_new, St
  <2>2. Goal(NoFrame, F, M, L)
    BY <2>1, <1>1
  <2> QED
    BY <2>2
<1>3. CASE t # NoFrame /\ M[t][j] # NoFrame
  <2>1. child_table_or_new(St(t, F, M), j) = St(M[t][j], F, M)
    BY <1>3 DEF child_table_or_new, St
  <2>2. M[t][j] \in Frames /\ L[M[t][j]] = L[t] - 1
    BY <1>3 DEF Tree, Levels, Slot
  <2>3. Goal(M[t][j], F, M, L)
    BY <2>1, <2>2, <1>1, <1>3
  <2> QED
    BY <2>2, <2>3
<1>4. CASE t # NoFrame /\ M[t][j] = NoFrame /\ F = {}
  <2>1. child_table_or_new(St(t, F, M), j) = St(NoFrame, F, M)
    BY <1>4 DEF child_table_or_new, St
  <2>2. Goal(NoFrame, F, M, L)
    BY <2>1, <1>1
  <2> QED
    BY <2>2
<1>5. CASE t # NoFrame /\ M[t][j] = NoFrame /\ F # {}
  <2> DEFINE n == Min(F)
             N == AddedTable(M, n, t, j)
             K == [L EXCEPT ![n] = L[t] - 1]
  <2>1. child_table_or_new(St(t, F, M), j) = St(n, F \ {n}, N)
    BY <1>5 DEF child_table_or_new, St, AddedTable
  <2>2. n \in F /\ n \in Frames
    BY <1>5, Least, TableAssumption DEF Tree
  <2> HIDE DEF n
  <2>3. Grown(M, F, L, N, F \ {n}, K, P)
    BY <1>5, <2>2, AddTableGrown
  <2>4. t \in Frames /\ L[n] = 0 /\ L[t] >= 2 /\ L \in [Frames -> 0 .. 4]
        /\ M \in [Frames -> [Idx -> Vals]]
    BY <1>5, <2>2 DEF Tree, Slot
  <2>5. K[n] = L[t] - 1 /\ t # n
    BY <2>2, <2>4
  <2>6. N[t][j] = n
    BY SMTT(30), <2>2, <2>4, <2>5, AddedEntries
  <2>7. Goal(n, F \ {n}, N, K)
    BY <2>1, <2>2, <2>3, <2>5, <2>6, <1>5
  <2> HIDE DEF Goal, N, K
  <2>8. \E G, O, J : Goal(n, G, O, J)
    BY <2>7
  <2> QED
    BY <2>2, <2>8 DEF Goal
<1> QED
  BY <1>2, <1>3, <1>4, <1>5

(* The walk from a table of level 3 to a page table. *)
LEMMA Walk3 ==
  ASSUME NEW M, NEW F, NEW P, NEW L, Tree(M, F, P, L),
         NEW d \in Frames \union {NoFrame}, d # NoFrame => L[d] = 3,
         NEW a \in Idx, NEW b \in Idx
  PROVE  \E u, G, N, K :
           /\ u \in Frames \union {NoFrame}
           /\ child_table_or_new(child_table_or_new(St(d, F, M), a), b) = St(u, G, N)
           /\ Grown(M, F, L, N, G, K, P)
           /\ u # NoFrame => d # NoFrame /\ K[u] = 1 /\ u = Leaf3(N, d, a, b)
<1>1. d # NoFrame => Slot(L, d, a)
  BY DEF Slot
<1>2. PICK u, G, N, K :
        /\ u \in Frames \union {NoFrame}
        /\ child_table_or_new(St(d, F, M), a) = St(u, G, N)
        /\ Grown(M, F, L, N, G, K, P)
        /\ u # NoFrame => d # NoFrame /\ K[u] = L[d] - 1 /\ N[d][a] = u
  BY SMTT(30), <1>1, ChildOrNew
<1>3. Tree(N, G, P, K)
  BY <1>2 DEF Grown
<1>4. u # NoFrame => K[u] = 2
  BY <1>2
<1>5. u # NoFrame => Slot(K, u, b)
  BY <1>4 DEF Slot
<1>6. PICK v, H, O, J :
        /\ v \in Frames \union {NoFrame}
        /\ child_table_or_new(St(u, G, N), b) = St(v, H, O)
        /\ Grown(N, G, K, O, H, J, P)
        /\ v # NoFrame => u # NoFrame /\ J[v] = K[u] - 1 /\ O[u][b] = v
  BY SMTT(30), <1>2, <1>3, <1>5, ChildOrNew
<1>7. Grown(M, F, L, O, H, J, P)
  BY <1>2, <1>6, GrownTwice
<1>8. v # NoFrame => d # NoFrame /\ J[v] = 1 /\ v = Leaf3(O, d, a, b)
  <2> SUFFICES ASSUME v # NoFrame
               PROVE  d # NoFrame /\ J[v] = 1 /\ v = Leaf3(O, d, a, b)
    OBVIOUS
  <2>1. u # NoFrame /\ J[v] = 1 /\ O[u][b] = v
    BY <1>4, <1>6
  <2>2. d # NoFrame /\ N[d][a] = u /\ d \in Frames
    BY <1>2, <2>1
  <2>3. d \notin F
    BY SMTT(30), <2>2 DEF Tree
  <2>4. K[d] = 3
    BY <1>2, <2>2, <2>3 DEF Grown
  <2>5. O[d][a] = u
    BY SMTT(30), <1>6, <2>1, <2>2, <2>4 DEF Grown
  <2> QED
    BY <2>1, <2>2, <2>5 DEF Leaf3, Child
<1>9. child_table_or_new(child_table_or_new(St(d, F, M), a), b) = St(v, H, O)
  BY <1>2, <1>6
<1> QED
  BY <1>6, <1>7, <1>8, <1>9

(* The walk from a PML4, in the lower half. *)
LEMMA Walk4 ==
  ASSUME NEW M, NEW F, NEW P, NEW L, Tree(M, F, P, L),
         NEW d \in Frames, L[d] = 4,
         NEW z \in Idx, z < Half, NEW a \in Idx, NEW b \in Idx
  PROVE  \E u, G, N, K :
           /\ u \in Frames \union {NoFrame}
           /\ child_table_or_new(child_table_or_new(
                child_table_or_new(St(d, F, M), z), a), b) = St(u, G, N)
           /\ Grown(M, F, L, N, G, K, P)
           /\ u # NoFrame => K[u] = 1 /\ u = Leaf3(N, Child(N, d, z), a, b)
<1>1. Slot(L, d, z) /\ d # NoFrame
  BY TableAssumption DEF Slot
<1>2. PICK u, G, N, K :
        /\ u \in Frames \union {NoFrame}
        /\ child_table_or_new(St(d, F, M), z) = St(u, G, N)
        /\ Grown(M, F, L, N, G, K, P)
        /\ u # NoFrame => d # NoFrame /\ K[u] = L[d] - 1 /\ N[d][z] = u
  BY SMTT(30), <1>1, ChildOrNew
<1>3. Tree(N, G, P, K)
  BY <1>2 DEF Grown
<1>4. u # NoFrame => K[u] = 3
  BY <1>2
<1>5. PICK v, H, O, J :
        /\ v \in Frames \union {NoFrame}
        /\ child_table_or_new(child_table_or_new(St(u, G, N), a), b) = St(v, H, O)
        /\ Grown(N, G, K, O, H, J, P)
        /\ v # NoFrame => u # NoFrame /\ J[v] = 1 /\ v = Leaf3(O, u, a, b)
  BY SMTT(30), <1>2, <1>3, <1>4, Walk3
<1>6. Grown(M, F, L, O, H, J, P)
  BY <1>2, <1>5, GrownTwice
<1>7. v # NoFrame => J[v] = 1 /\ v = Leaf3(O, Child(O, d, z), a, b)
  <2> SUFFICES ASSUME v # NoFrame
               PROVE  J[v] = 1 /\ v = Leaf3(O, Child(O, d, z), a, b)
    OBVIOUS
  <2>1. u # NoFrame /\ J[v] = 1 /\ v = Leaf3(O, u, a, b) /\ N[d][z] = u
    BY <1>2, <1>5
  <2>2. d \notin F
    BY SMTT(30) DEF Tree
  <2>3. K[d] = 4
    BY <1>2, <2>2 DEF Grown
  <2>4. O[d][z] = u
    BY SMTT(30), <1>5, <2>1, <2>3 DEF Grown
  <2>5. Child(O, d, z) = u
    BY <2>4, <1>1 DEF Child
  <2> QED
    BY <2>1, <2>5
<1>8. child_table_or_new(child_table_or_new(
        child_table_or_new(St(d, F, M), z), a), b) = St(v, H, O)
  BY <1>2, <1>5
<1> QED
  BY <1>5, <1>6, <1>7, <1>8
-----------------------------------------------------------------------------
(* A page table hangs in one place. *)
LEMMA OneLeaf ==
  ASSUME NEW M, NEW F, NEW P, NEW L, Tree(M, F, P, L),
         NEW d \in Frames, NEW e \in Frames, L[d] = 3, L[e] = 3,
         NEW a \in Idx, NEW b \in Idx, NEW x \in Idx, NEW y \in Idx,
         Leaf3(M, d, a, b) # NoFrame, Leaf3(M, d, a, b) = Leaf3(M, e, x, y)
  PROVE  d = e /\ a = x /\ b = y
<1>1. d # NoFrame /\ e # NoFrame
  BY TableAssumption
<1>2. Child(M, d, a) # NoFrame /\ Child(M, e, x) # NoFrame
  BY DEF Leaf3, Child
<1>3. /\ Child(M, d, a) \in Frames /\ L[Child(M, d, a)] = 2
      /\ Child(M, e, x) \in Frames /\ L[Child(M, e, x)] = 2
  BY SMTT(30), <1>1, <1>2, Down
<1>4. M[Child(M, d, a)][b] = M[Child(M, e, x)][y] /\ M[Child(M, d, a)][b] # NoFrame
  BY <1>2 DEF Leaf3, Child
<1>5. Slot(L, Child(M, d, a), b) /\ Slot(L, Child(M, e, x), y)
  BY <1>3 DEF Slot
<1>6. Child(M, d, a) = Child(M, e, x) /\ b = y
  BY SMTT(30), <1>3, <1>4, <1>5 DEF Tree, OnePlace
<1>7. M[d][a] = M[e][x] /\ M[d][a] # NoFrame
  BY <1>1, <1>2, <1>6 DEF Child
<1>8. Slot(L, d, a) /\ Slot(L, e, x)
  BY DEF Slot
<1>9. d = e /\ a = x
  BY SMTT(30), <1>7, <1>8 DEF Tree, OnePlace
<1> QED
  BY <1>6, <1>9

LEMMA LeafLevel ==
  ASSUME NEW M, NEW F, NEW P, NEW L, Tree(M, F, P, L),
         NEW d \in Frames \union {NoFrame}, d # NoFrame => L[d] = 3,
         NEW a \in Idx, NEW b \in Idx
  PROVE  /\ Leaf3(M, d, a, b) \in Frames \union {NoFrame}
         /\ Leaf3(M, d, a, b) # NoFrame => L[Leaf3(M, d, a, b)] = 1 /\ d # NoFrame
<1> DEFINE t == Child(M, d, a)
<1>1. /\ t \in Frames \union {NoFrame}
      /\ t # NoFrame => L[t] = 2 /\ d # NoFrame
  <2>1. d # NoFrame => L[d] >= 2
    OBVIOUS
  <2>2. /\ t \in Frames \union {NoFrame}
        /\ d = NoFrame => t = NoFrame
        /\ t # NoFrame => L[t] = L[d] - 1
    BY <2>1, Down
  <2> QED
    BY <2>2
<1> HIDE DEF t
<1>2. t # NoFrame => L[t] >= 2
  BY <1>1
<1>3. /\ Child(M, t, b) \in Frames \union {NoFrame}
      /\ t = NoFrame => Child(M, t, b) = NoFrame
      /\ Child(M, t, b) # NoFrame => L[Child(M, t, b)] = L[t] - 1
  BY <1>1, <1>2, Down
<1> QED
  BY <1>1, <1>3 DEF Leaf3, t

WrittenLeaf(M, t, c, v) == [M EXCEPT ![t][c] = v]

OneEntrySet(M, N, L, t, c, v) ==
  /\ \A f \in Frames, k \in Idx : L[f] >= 2 => Child(N, f, k) = Child(M, f, k)
  /\ \A d \in Frames \union {NoFrame}, a, b, e \in Idx : (d # NoFrame => L[d] = 3) =>
       Entry3(N, d, a, b, e) =
         IF Leaf3(M, d, a, b) = t /\ e = c THEN v ELSE Entry3(M, d, a, b, e)

(* A write to a page table keeps the tree, and the way to every leaf. *)
LEMMA WriteLeaf ==
  ASSUME NEW M, NEW F, NEW P, NEW L, Tree(M, F, P, L),
         NEW t \in Frames, L[t] = 1, NEW c \in Idx, NEW v \in Vals,
         NEW N, N = WrittenLeaf(M, t, c, v)
  PROVE  /\ Tree(N, F, P, L)
         /\ OneEntrySet(M, N, L, t, c, v)
<1>1. M \in [Frames -> [Idx -> Vals]] /\ t # NoFrame
  BY TableAssumption DEF Tree
<1>2. /\ N \in [Frames -> [Idx -> Vals]]
      /\ \A f \in Frames, k \in Idx : N[f][k] = IF f = t /\ k = c THEN v ELSE M[f][k]
  BY <1>1 DEF WrittenLeaf
<1>3. \A f \in Frames, k \in Idx : L[f] >= 2 => N[f][k] = M[f][k]
  BY SMTT(30), <1>2
<1>4. Levels(N, L)
  BY SMTT(30), <1>3 DEF Tree, Levels
<1>5. Halves(N, L)
  BY SMTT(30), <1>3 DEF Tree, Halves
<1>6. OnePlace(N, L)
  BY SMTT(30), <1>3 DEF Tree, OnePlace, Slot
<1>7. Tree(N, F, P, L)
  BY <1>2, <1>4, <1>5, <1>6 DEF Tree
<1>8. \A f \in Frames, k \in Idx : L[f] >= 2 => Child(N, f, k) = Child(M, f, k)
  BY <1>3 DEF Child
<1>9. ASSUME NEW d \in Frames \union {NoFrame}, NEW a \in Idx, NEW b \in Idx, NEW e \in Idx,
             d # NoFrame => L[d] = 3
      PROVE  Entry3(N, d, a, b, e) =
               IF Leaf3(M, d, a, b) = t /\ e = c THEN v ELSE Entry3(M, d, a, b, e)
  <2>1. Child(N, d, a) = Child(M, d, a)
    BY SMTT(30), <1>8, <1>9 DEF Child
  <2>2. d # NoFrame => L[d] >= 2
    BY <1>9
  <2>3. /\ Child(M, d, a) \in Frames \union {NoFrame}
        /\ Child(M, d, a) # NoFrame => L[Child(M, d, a)] = 2
    BY SMTT(30), <2>2, <1>9, Down
  <2>4. Child(N, Child(M, d, a), b) = Child(M, Child(M, d, a), b)
    BY SMTT(30), <2>3, <1>8 DEF Child
  <2>5. Leaf3(N, d, a, b) = Leaf3(M, d, a, b)
    BY <2>1, <2>4 DEF Leaf3
  <2>6. Leaf3(M, d, a, b) \in Frames \union {NoFrame}
    BY SMTT(30), <1>9, LeafLevel
  <2> QED
    BY SMTT(30), <2>5, <2>6, <1>1, <1>2 DEF Entry3, Child
<1> QED
  BY <1>7, <1>8, <1>9 DEF OneEntrySet
-----------------------------------------------------------------------------
(* The entries of a page, in the KTable and below a PML4. *)
KRoot(p) == KBase + pml4_index(p) - Half
KE(M, p) == Entry3(M, KRoot(p), pdpt_index(p), pd_index(p), pt_index(p))
UE(M, r, p) == Entry4(M, r, pml4_index(p), pdpt_index(p), pd_index(p), pt_index(p))

LEMMA Roots ==
  ASSUME NEW p \in KPages
  PROVE  /\ KRoot(p) \in KTableFrames /\ KRoot(p) \in Frames /\ KRoot(p) # NoFrame
         /\ KRoot(p) = KBase + (pml4_index(p) - Half)
         /\ \A q \in KPages : KRoot(q) = KRoot(p) => pml4_index(q) = pml4_index(p)
<1>1. \A q \in KPages : pml4_index(q) \in Idx /\ pml4_index(q) >= Half
  BY Indices DEF Pages
<1>2. Half \in Nat /\ KBase \in Nat /\ Entries \in Nat
  BY KFrames, TableAssumption
<1>3. \A q \in KPages : KRoot(q) = KBase + (pml4_index(q) - Half)
  BY <1>1, <1>2 DEF KRoot, Idx
<1>4. KRoot(p) \in KTableFrames
  BY <1>1, <1>3, KFrames
<1>5. \A q \in KPages : KRoot(q) = KRoot(p) => pml4_index(q) = pml4_index(p)
  BY <1>1, <1>2, <1>3 DEF Idx
<1> QED
  BY <1>3, <1>4, <1>5, TableAssumption

LEMMA UpperHalf ==
  ASSUME NEW M, NEW F, NEW P, NEW L, Tree(M, F, P, L),
         NEW r \in Frames, L[r] = 4, NEW p \in KPages
  PROVE  UE(M, r, p) = KE(M, p)
<1>1. pml4_index(p) \in Idx /\ pml4_index(p) >= Half
  BY Indices DEF Pages
<1>2. M[r][pml4_index(p)] = KBase + (pml4_index(p) - Half)
  BY <1>1 DEF Tree, Halves
<1>3. Child(M, r, pml4_index(p)) = KRoot(p)
  BY <1>2, Roots, TableAssumption DEF Child
<1> QED
  BY <1>3 DEF UE, Entry4, KE

LEMMA LowerHalf ==
  ASSUME NEW M, NEW F, NEW P, NEW L, Tree(M, F, P, L),
         NEW r \in Frames, L[r] = 4, NEW p \in UPages
  PROVE  LET d == Child(M, r, pml4_index(p)) IN
         /\ pml4_index(p) \in Idx /\ pml4_index(p) < Half
         /\ d \in Frames \union {NoFrame}
         /\ d # NoFrame => L[d] = 3 /\ d \notin KTableFrames
         /\ \A s \in Frames, q \in UPages :
              L[s] = 4 /\ d # NoFrame /\ Child(M, s, pml4_index(q)) = d =>
              s = r /\ pml4_index(q) = pml4_index(p)
<1> DEFINE d == Child(M, r, pml4_index(p))
<1>1. \A q \in UPages : pml4_index(q) \in Idx /\ pml4_index(q) < Half
  <2> SUFFICES ASSUME NEW q \in UPages
               PROVE  pml4_index(q) \in Idx /\ pml4_index(q) < Half
    OBVIOUS
  <2>1. q \notin KPages
    BY KFrames, TableAssumption DEF KPages, UPages
  <2>2. pml4_index(q) \in Idx /\ ~ (pml4_index(q) >= Half)
    BY <2>1, Indices DEF Pages
  <2> QED
    BY <2>2, KFrames DEF Idx
<1>2. r # NoFrame /\ L[r] >= 2
  BY TableAssumption
<1>3. d \in Frames \union {NoFrame} /\ (d # NoFrame => L[d] = 3)
  BY SMTT(30), <1>1, <1>2, Down
<1>4. d \notin KTableFrames
  <2>1. ~ (pml4_index(p) >= Half)
    BY <1>1, KFrames DEF Idx
  <2>2. M[r][pml4_index(p)] \notin KTableFrames
    BY <2>1, <1>1 DEF Tree, Halves
  <2> QED
    BY <2>2, <1>2 DEF Child
<1>5. ASSUME NEW s \in Frames, NEW q \in UPages,
             L[s] = 4, d # NoFrame, Child(M, s, pml4_index(q)) = d
      PROVE  s = r /\ pml4_index(q) = pml4_index(p)
  <2>1. M[s][pml4_index(q)] = M[r][pml4_index(p)] /\ M[s][pml4_index(q)] # NoFrame
    BY <1>2, <1>5, TableAssumption DEF Child
  <2>2. Slot(L, s, pml4_index(q)) /\ Slot(L, r, pml4_index(p))
    BY <1>1, <1>5 DEF Slot
  <2> QED
    BY SMTT(30), <2>1, <2>2, <1>1 DEF Tree, OnePlace
<1> QED
  BY <1>1, <1>3, <1>4, <1>5

LEMMA GrownPages ==
  ASSUME NEW M, NEW F, NEW L, NEW N, NEW G, NEW K, NEW P,
         Tree(M, F, P, L), Grown(M, F, L, N, G, K, P)
  PROVE  /\ \A p \in KPages : KE(N, p) = KE(M, p)
         /\ \A r \in Frames, p \in Pages : L[r] = 4 => UE(N, r, p) = UE(M, r, p)
<1>1. \A p \in KPages : KE(N, p) = KE(M, p)
  <2> SUFFICES ASSUME NEW p \in KPages
               PROVE  KE(N, p) = KE(M, p)
    OBVIOUS
  <2>1. KRoot(p) \in KTableFrames /\ KRoot(p) \in Frames
    BY Roots
  <2>2. L[KRoot(p)] = 3
    BY <2>1 DEF Tree
  <2>3. pt_index(p) \in Idx /\ pd_index(p) \in Idx /\ pdpt_index(p) \in Idx
    BY Indices DEF Pages
  <2> QED
    BY <2>1, <2>2, <2>3 DEF Grown, KE
<1>2. \A r \in Frames, p \in Pages : L[r] = 4 => UE(N, r, p) = UE(M, r, p)
  <2> SUFFICES ASSUME NEW r \in Frames, NEW p \in Pages, L[r] = 4
               PROVE  UE(N, r, p) = UE(M, r, p)
    OBVIOUS
  <2>1. /\ pt_index(p) \in Idx /\ pd_index(p) \in Idx
        /\ pdpt_index(p) \in Idx /\ pml4_index(p) \in Idx
    BY Indices
  <2> QED
    BY SMTT(30), <2>1 DEF Grown, UE
<1> QED
  BY <1>1, <1>2

KLeafIn(M, p) == Leaf3(M, KRoot(p), pdpt_index(p), pd_index(p))
ULeafIn(M, r, p) == Leaf3(M, Child(M, r, pml4_index(p)), pdpt_index(p), pd_index(p))

(* Two pages with the same entry of the same page table are one page, of   *)
(* the kernel's half or of the lower half below one PML4.                  *)
LEMMA OneEntry ==
  ASSUME NEW M, NEW F, NEW P, NEW L, Tree(M, F, P, L)
  PROVE  /\ \A p, q \in KPages :
              KLeafIn(M, p) # NoFrame /\ KLeafIn(M, q) = KLeafIn(M, p)
              /\ pt_index(q) = pt_index(p) => q = p
         /\ \A r, s \in Frames : \A p, q \in UPages :
              L[r] = 4 /\ L[s] = 4 /\ ULeafIn(M, r, p) # NoFrame
              /\ ULeafIn(M, s, q) = ULeafIn(M, r, p)
              /\ pt_index(q) = pt_index(p) => s = r /\ q = p
         /\ \A r \in Frames : \A p \in KPages, q \in UPages :
              L[r] = 4 /\ KLeafIn(M, p) # NoFrame => ULeafIn(M, r, q) # KLeafIn(M, p)
<1>1. \A p \in KPages : KRoot(p) \in Frames /\ L[KRoot(p)] = 3 /\ KRoot(p) \in KTableFrames
  BY Roots DEF Tree
<1>2. \A p \in Pages : pd_index(p) \in Idx /\ pdpt_index(p) \in Idx
  BY Indices
<1>3. ASSUME NEW p \in KPages, NEW q \in KPages,
             KLeafIn(M, p) # NoFrame, KLeafIn(M, q) = KLeafIn(M, p), pt_index(q) = pt_index(p)
      PROVE  q = p
  <2>1. p \in Pages /\ q \in Pages
    BY DEF Pages
  <2>2. KRoot(p) = KRoot(q) /\ pdpt_index(p) = pdpt_index(q) /\ pd_index(p) = pd_index(q)
    BY SMTT(30), <2>1, <1>1, <1>2, <1>3, OneLeaf DEF KLeafIn
  <2>3. pml4_index(p) = pml4_index(q)
    BY <2>2, Roots
  <2> QED
    BY <2>1, <2>2, <2>3, <1>3, SameIndices
<1>4. \A r \in Frames : \A p \in UPages : L[r] = 4 /\ ULeafIn(M, r, p) # NoFrame =>
        LET d == Child(M, r, pml4_index(p)) IN d \in Frames /\ L[d] = 3 /\ d \notin KTableFrames
  <2> SUFFICES ASSUME NEW r \in Frames, NEW p \in UPages, L[r] = 4, ULeafIn(M, r, p) # NoFrame
               PROVE  LET d == Child(M, r, pml4_index(p)) IN
                      d \in Frames /\ L[d] = 3 /\ d \notin KTableFrames
    OBVIOUS
  <2>1. LET d == Child(M, r, pml4_index(p)) IN
        /\ d \in Frames \union {NoFrame}
        /\ d # NoFrame => L[d] = 3 /\ d \notin KTableFrames
    BY LowerHalf
  <2>2. Child(M, r, pml4_index(p)) # NoFrame
    BY DEF ULeafIn, Leaf3, Child
  <2> QED
    BY <2>1, <2>2
<1>5. ASSUME NEW r \in Frames, NEW s \in Frames, NEW p \in UPages, NEW q \in UPages,
             L[r] = 4, L[s] = 4, ULeafIn(M, r, p) # NoFrame,
             ULeafIn(M, s, q) = ULeafIn(M, r, p), pt_index(q) = pt_index(p)
      PROVE  s = r /\ q = p
  <2> DEFINE d == Child(M, r, pml4_index(p))
             e == Child(M, s, pml4_index(q))
  <2>1. p \in Pages /\ q \in Pages
    BY DEF Pages
  <2>2. d \in Frames /\ L[d] = 3 /\ e \in Frames /\ L[e] = 3
    BY <1>4, <1>5
  <2>3. /\ Leaf3(M, d, pdpt_index(p), pd_index(p)) # NoFrame
        /\ Leaf3(M, d, pdpt_index(p), pd_index(p)) = Leaf3(M, e, pdpt_index(q), pd_index(q))
    BY <1>5 DEF ULeafIn
  <2> HIDE DEF d, e
  <2>4. d = e /\ pdpt_index(p) = pdpt_index(q) /\ pd_index(p) = pd_index(q)
    BY SMTT(30), <2>1, <2>2, <2>3, <1>2, OneLeaf
  <2>5. d # NoFrame
    BY <2>2, TableAssumption
  <2>6. s = r /\ pml4_index(q) = pml4_index(p)
    BY SMTT(30), <2>4, <2>5, <1>5, LowerHalf DEF d, e
  <2> QED
    BY <2>1, <2>4, <2>6, <1>5, SameIndices
<1>6. ASSUME NEW r \in Frames, NEW p \in KPages, NEW q \in UPages,
             L[r] = 4, KLeafIn(M, p) # NoFrame, ULeafIn(M, r, q) = KLeafIn(M, p)
      PROVE  FALSE
  <2> DEFINE d == Child(M, r, pml4_index(q))
  <2>1. p \in Pages /\ q \in Pages
    BY DEF Pages
  <2>2. d \in Frames /\ L[d] = 3 /\ d \notin KTableFrames
    BY <1>4, <1>6
  <2>3. /\ Leaf3(M, d, pdpt_index(q), pd_index(q)) # NoFrame
        /\ Leaf3(M, d, pdpt_index(q), pd_index(q)) = Leaf3(M, KRoot(p), pdpt_index(p), pd_index(p))
    BY <1>6 DEF ULeafIn, KLeafIn
  <2> HIDE DEF d
  <2>4. d = KRoot(p)
    BY SMTT(30), <2>1, <2>2, <2>3, <1>1, <1>2, OneLeaf
  <2> QED
    BY <2>2, <2>4, <1>1
<1> QED
  BY SMTT(30), <1>3, <1>5, <1>6

(* A write to the entry of a page of the kernel's half changes that page   *)
(* alone, in the KTable and so below every PML4.                           *)
LEMMA WriteKernel ==
  ASSUME NEW M, NEW F, NEW P, NEW L, Tree(M, F, P, L),
         NEW p \in KPages, KLeafIn(M, p) # NoFrame, NEW v \in Vals,
         NEW N, N = WrittenLeaf(M, KLeafIn(M, p), pt_index(p), v)
  PROVE  /\ Tree(N, F, P, L)
         /\ \A q \in KPages : KE(N, q) = IF q = p THEN v ELSE KE(M, q)
         /\ \A r \in Frames, q \in UPages : L[r] = 4 => UE(N, r, q) = UE(M, r, q)
<1> DEFINE t == KLeafIn(M, p)
           c == pt_index(p)
<1>1. \A q \in KPages : KRoot(q) \in Frames /\ KRoot(q) # NoFrame /\ L[KRoot(q)] = 3
  BY Roots DEF Tree
<1>2. \A q \in Pages : pt_index(q) \in Idx /\ pd_index(q) \in Idx /\ pdpt_index(q) \in Idx
  BY Indices
<1>3. t \in Frames /\ L[t] = 1 /\ c \in Idx
  BY SMTT(30), <1>1, <1>2, LeafLevel DEF KLeafIn, Pages
<1>4. /\ Tree(N, F, P, L)
      /\ OneEntrySet(M, N, L, t, c, v)
  <2> HIDE DEF t, c
  <2>1. N = WrittenLeaf(M, t, c, v)
    BY DEF t, c
  <2> QED
    BY <2>1, <1>3, WriteLeaf
<1>5. \A q \in KPages : KE(N, q) = IF q = p THEN v ELSE KE(M, q)
  <2> SUFFICES ASSUME NEW q \in KPages
               PROVE  KE(N, q) = IF q = p THEN v ELSE KE(M, q)
    OBVIOUS
  <2>1. KE(N, q) = IF KLeafIn(M, q) = t /\ pt_index(q) = c THEN v ELSE KE(M, q)
    BY SMTT(30), <1>1, <1>2, <1>4 DEF KE, KLeafIn, Pages, OneEntrySet
  <2>2. KLeafIn(M, q) = t /\ pt_index(q) = c => q = p
    BY OneEntry
  <2> QED
    BY <2>1, <2>2
<1>6. \A r \in Frames, q \in UPages : L[r] = 4 => UE(N, r, q) = UE(M, r, q)
  <2> SUFFICES ASSUME NEW r \in Frames, NEW q \in UPages, L[r] = 4
               PROVE  UE(N, r, q) = UE(M, r, q)
    OBVIOUS
  <2> DEFINE d == Child(M, r, pml4_index(q))
  <2>1. /\ pml4_index(q) \in Idx
        /\ d \in Frames \union {NoFrame}
        /\ d # NoFrame => L[d] = 3
    BY SMTT(30), LowerHalf
  <2>2. Child(N, r, pml4_index(q)) = d
    BY <2>1, <1>4 DEF OneEntrySet
  <2>3. ULeafIn(M, r, q) # t
    BY SMTT(30), OneEntry
  <2>4. Leaf3(M, d, pdpt_index(q), pd_index(q)) # t
    BY <2>3 DEF ULeafIn
  <2>5. q \in Pages
    BY DEF Pages
  <2> HIDE DEF d
  <2>6. Entry3(N, d, pdpt_index(q), pd_index(q), pt_index(q))
        = Entry3(M, d, pdpt_index(q), pd_index(q), pt_index(q))
    BY SMTT(30), <2>1, <2>4, <2>5, <1>2, <1>4 DEF OneEntrySet
  <2> QED
    BY <2>2, <2>6 DEF UE, Entry4, d
<1> QED
  BY <1>4, <1>5, <1>6

(* A write to the entry of a page of the lower half changes that page      *)
(* below its PML4 and nothing else.                                        *)
LEMMA WriteUser ==
  ASSUME NEW M, NEW F, NEW P, NEW L, Tree(M, F, P, L),
         NEW r \in Frames, L[r] = 4, NEW p \in UPages, ULeafIn(M, r, p) # NoFrame,
         NEW v \in Vals, NEW N, N = WrittenLeaf(M, ULeafIn(M, r, p), pt_index(p), v)
  PROVE  /\ Tree(N, F, P, L)
         /\ \A q \in KPages : KE(N, q) = KE(M, q)
         /\ \A s \in Frames, q \in UPages : L[s] = 4 =>
              UE(N, s, q) = IF s = r /\ q = p THEN v ELSE UE(M, s, q)
<1> DEFINE t == ULeafIn(M, r, p)
           c == pt_index(p)
<1>1. \A q \in KPages : KRoot(q) \in Frames /\ KRoot(q) # NoFrame /\ L[KRoot(q)] = 3
  BY Roots DEF Tree
<1>2. \A q \in Pages : pt_index(q) \in Idx /\ pd_index(q) \in Idx /\ pdpt_index(q) \in Idx
  BY Indices
<1>3. \A s \in Frames, q \in UPages : L[s] = 4 =>
        LET d == Child(M, s, pml4_index(q)) IN
        pml4_index(q) \in Idx /\ d \in Frames \union {NoFrame} /\ (d # NoFrame => L[d] = 3)
  BY SMTT(30), LowerHalf
<1>4. t \in Frames /\ L[t] = 1 /\ c \in Idx
  <2>1. p \in Pages
    BY DEF Pages
  <2> QED
    BY SMTT(30), <2>1, <1>2, <1>3, LeafLevel DEF ULeafIn
<1>5. /\ Tree(N, F, P, L)
      /\ OneEntrySet(M, N, L, t, c, v)
  <2> HIDE DEF t, c
  <2>1. N = WrittenLeaf(M, t, c, v)
    BY DEF t, c
  <2> QED
    BY <2>1, <1>4, WriteLeaf
<1>6. \A q \in KPages : KE(N, q) = KE(M, q)
  <2> SUFFICES ASSUME NEW q \in KPages
               PROVE  KE(N, q) = KE(M, q)
    OBVIOUS
  <2>1. KE(N, q) = IF KLeafIn(M, q) = t /\ pt_index(q) = c THEN v ELSE KE(M, q)
    BY <1>1, <1>2, <1>5 DEF KE, KLeafIn, Pages, OneEntrySet
  <2>2. KLeafIn(M, q) # t
    BY SMTT(30), OneEntry
  <2> QED
    BY <2>1, <2>2
<1>7. \A s \in Frames, q \in UPages : L[s] = 4 =>
        UE(N, s, q) = IF s = r /\ q = p THEN v ELSE UE(M, s, q)
  <2> SUFFICES ASSUME NEW s \in Frames, NEW q \in UPages, L[s] = 4
               PROVE  UE(N, s, q) = IF s = r /\ q = p THEN v ELSE UE(M, s, q)
    OBVIOUS
  <2> DEFINE d == Child(M, s, pml4_index(q))
  <2>1. /\ pml4_index(q) \in Idx
        /\ d \in Frames \union {NoFrame}
        /\ d # NoFrame => L[d] = 3
    BY <1>3
  <2>2. Child(N, s, pml4_index(q)) = d
    BY <2>1, <1>5 DEF OneEntrySet
  <2>3. q \in Pages
    BY DEF Pages
  <2>4. ULeafIn(M, s, q) = Leaf3(M, d, pdpt_index(q), pd_index(q))
    BY DEF ULeafIn
  <2>5. UE(M, s, q) = Entry3(M, d, pdpt_index(q), pd_index(q), pt_index(q))
    BY DEF UE, Entry4
  <2>6. UE(N, s, q) = Entry3(N, d, pdpt_index(q), pd_index(q), pt_index(q))
    BY <2>2 DEF UE, Entry4
  <2> HIDE DEF d
  <2>7. UE(N, s, q) = IF ULeafIn(M, s, q) = t /\ pt_index(q) = c THEN v ELSE UE(M, s, q)
    BY SMTT(30), <2>1, <2>3, <2>4, <2>5, <2>6, <1>2, <1>5 DEF OneEntrySet
  <2>8. ULeafIn(M, s, q) = t /\ pt_index(q) = c => s = r /\ q = p
    BY SMTT(30), OneEntry
  <2> QED
    BY <2>7, <2>8
<1> QED
  BY <1>5, <1>6, <1>7
-----------------------------------------------------------------------------
(* Frames that are no tables may be taken and returned. *)
LEMMA OtherFree ==
  ASSUME NEW M, NEW F, NEW P, NEW L, Tree(M, F, P, L),
         NEW G, G \subseteq Frames, \A f \in G : L[f] = 0
  PROVE  Tree(M, G, P, L)
BY DEF Tree

(* The PML4 that TTable::new writes. *)
Root == [j \in 0 .. Entries - 1 |-> IF j < Half THEN NoFrame ELSE KBase + (j - Half)]

WithRoot(M, n) == [M EXCEPT ![n] = Root]
WithSpace(P, s, n) == [P EXCEPT ![s] = n]
WithLevel(L, n) == [L EXCEPT ![n] = 4]

LEMMA NewRoot ==
  ASSUME NEW M, NEW F, NEW P, NEW L, Tree(M, F, P, L),
         NEW n \in F, NEW s \in Spaces, P[s] = NoFrame,
         NEW N, N = WithRoot(M, n),
         NEW Q, Q = WithSpace(P, s, n)
  PROVE  /\ Tree(N, F \ {n}, Q, WithLevel(L, n))
         /\ \A q \in KPages : KE(N, q) = KE(M, q)
         /\ \A r \in Frames, q \in UPages : L[r] = 4 => UE(N, r, q) = UE(M, r, q)
         /\ \A q \in UPages : UE(N, n, q) = NoFrame
<1> DEFINE K == WithLevel(L, n)
<1>1. /\ M \in [Frames -> [Idx -> Vals]] /\ F \subseteq Frames /\ L \in [Frames -> 0 .. 4]
      /\ P \in [Spaces -> Frames \union {NoFrame}]
      /\ L[n] = 0 /\ n \in Frames /\ n # NoFrame
  BY TableAssumption DEF Tree
<1>2. /\ Root \in [Idx -> Vals]
      /\ \A k \in Idx : Root[k] = IF k < Half THEN NoFrame ELSE KBase + (k - Half)
  <2>1. \A k \in Idx : ~ (k < Half) => k >= Half
    BY KFrames DEF Idx
  <2>2. \A k \in Idx : ~ (k < Half) => KBase + (k - Half) \in Frames
    BY <2>1, KFrames
  <2> QED
    BY <2>2 DEF Root, Idx, Vals
<1>3. /\ N \in [Frames -> [Idx -> Vals]]
      /\ \A k \in Idx : N[n][k] = IF k < Half THEN NoFrame ELSE KBase + (k - Half)
      /\ \A f \in Frames, k \in Idx : f # n => N[f][k] = M[f][k]
  <2> HIDE DEF Root, Vals
  <2> QED
    BY <1>1, <1>2 DEF WithRoot
<1>4. /\ K \in [Frames -> 0 .. 4] /\ K[n] = 4
      /\ \A f \in Frames : f # n => K[f] = L[f]
  BY SMTT(30), <1>1 DEF WithLevel
<1> HIDE DEF K
<1>5. n \notin KTableFrames
  BY SMTT(30), <1>1 DEF Tree
<1>6. \A f \in F \ {n} : K[f] = 0
  BY <1>1, <1>4 DEF Tree
<1>7. \A f \in KTableFrames : K[f] = 3
  BY <1>4, <1>5, KFrames DEF Tree
<1>8. /\ Q \in [Spaces -> Frames \union {NoFrame}] /\ Q[s] = n
      /\ \A x \in Spaces : x # s => Q[x] = P[x]
      /\ \A x \in Spaces : P[x] # n
  <2>1. \A x \in Spaces : P[x] # n
    BY SMTT(30), <1>1 DEF Tree
  <2> QED
    BY <2>1, <1>1 DEF WithSpace
<1>9. \A x \in Spaces : Q[x] # NoFrame => K[Q[x]] = 4
  BY SMTT(30), <1>1, <1>4, <1>8 DEF Tree
<1>10. \A x, y \in Spaces : Q[y] # NoFrame /\ Q[y] = Q[x] => y = x
  BY SMTT(30), <1>8 DEF Tree
<1>11. \A f \in Frames, k \in Idx : f # n /\ L[f] >= 2 /\ M[f][k] # NoFrame => M[f][k] # n
  BY SMTT(30), <1>1 DEF Tree, Levels
<1>12. Levels(N, K)
  <2> SUFFICES ASSUME NEW f \in Frames, NEW k \in Idx, K[f] >= 2, N[f][k] # NoFrame
               PROVE  N[f][k] \in Frames /\ K[N[f][k]] = K[f] - 1
    BY DEF Levels
  <2>1. CASE f = n
    <3>1. N[f][k] = KBase + (k - Half) /\ k >= Half
      BY SMTT(30), <2>1, <1>3, KFrames DEF Idx
    <3>2. N[f][k] \in KTableFrames
      BY <3>1, KFrames
    <3> QED
      BY SMTT(30), <3>2, <2>1, <1>4, <1>7, KFrames
  <2>2. CASE f # n
    <3>1. N[f][k] = M[f][k] /\ K[f] = L[f]
      BY <2>2, <1>3, <1>4
    <3>2. M[f][k] \in Frames /\ L[M[f][k]] = L[f] - 1 /\ M[f][k] # n
      BY <3>1, <2>2, <1>11 DEF Tree, Levels
    <3> QED
      BY <3>1, <3>2, <1>4
  <2> QED
    BY <2>1, <2>2
<1>13. Halves(N, K)
  <2> SUFFICES ASSUME NEW f \in Frames, NEW k \in Idx, K[f] = 4
               PROVE  IF k >= Half THEN N[f][k] = KBase + (k - Half)
                                   ELSE N[f][k] \notin KTableFrames
    BY DEF Halves
  <2>1. CASE f = n
    <3>1. k >= Half <=> ~ (k < Half)
      BY KFrames DEF Idx
    <3>2. NoFrame \notin KTableFrames
      BY KFrames, TableAssumption
    <3> QED
      BY <3>1, <3>2, <2>1, <1>3
  <2>2. CASE f # n
    <3>1. N[f][k] = M[f][k] /\ L[f] = 4
      BY <2>2, <1>3, <1>4
    <3> QED
      BY <3>1 DEF Tree, Halves
  <2> QED
    BY <2>1, <2>2
<1>14. OnePlace(N, K)
  <2> SUFFICES ASSUME NEW f \in Frames, NEW g \in Frames, NEW k \in Idx, NEW l \in Idx,
                      Slot(K, f, k), Slot(K, g, l), N[f][k] # NoFrame, N[f][k] = N[g][l]
               PROVE  f = g /\ k = l
    BY DEF OnePlace
  <2>1. f # n /\ g # n
    BY <1>3, <1>4 DEF Slot
  <2>2. Slot(L, f, k) /\ Slot(L, g, l)
    BY <2>1, <1>4 DEF Slot
  <2>3. M[f][k] # NoFrame /\ M[f][k] = M[g][l]
    BY <2>1, <1>3
  <2> QED
    BY SMTT(30), <2>2, <2>3 DEF Tree, OnePlace
<1>15. Tree(N, F \ {n}, Q, K)
  BY <1>1, <1>3, <1>4, <1>6, <1>7, <1>8, <1>9, <1>10, <1>12, <1>13, <1>14 DEF Tree
<1> DEFINE Below(v) == {f \in Frames \union {NoFrame} : f # NoFrame => L[f] = v}
<1>16. \A f \in Frames \union {NoFrame}, k \in Idx :
         (f # NoFrame => L[f] # 0) => Child(N, f, k) = Child(M, f, k)
  BY <1>1, <1>3 DEF Child
<1>17. \A v \in 2 .. 4 : \A f \in Below(v), k \in Idx : Child(M, f, k) \in Below(v - 1)
  <2> SUFFICES ASSUME NEW v \in 2 .. 4, NEW f \in Below(v), NEW k \in Idx
               PROVE  Child(M, f, k) \in Below(v - 1)
    OBVIOUS
  <2>1. f # NoFrame => L[f] >= 2
    OBVIOUS
  <2>2. /\ Child(M, f, k) \in Frames \union {NoFrame}
        /\ f = NoFrame => Child(M, f, k) = NoFrame
        /\ Child(M, f, k) # NoFrame => L[Child(M, f, k)] = L[f] - 1
    BY <2>1, Down
  <2> QED
    BY <2>2
<1>18. \A d \in Frames : (L[d] = 3 => d \in Below(3)) /\ (L[d] = 4 => d \in Below(4))
  OBVIOUS
<1> DEFINE Same(v) == \A f \in Below(v), k \in Idx : Child(N, f, k) = Child(M, f, k)
           Falls(v, w) == \A f \in Below(v), k \in Idx : Child(M, f, k) \in Below(w)
<1>24. Same(1) /\ Same(2) /\ Same(3) /\ Same(4)
  <2>1. ASSUME NEW v \in 1 .. 4, NEW f \in Below(v), NEW k \in Idx
        PROVE  Child(N, f, k) = Child(M, f, k)
    <3>1. f \in Frames \union {NoFrame} /\ (f # NoFrame => L[f] # 0)
      OBVIOUS
    <3> QED
      BY <3>1, <1>16
  <2> HIDE DEF Below
  <2>2. \A v \in 1 .. 4 : Same(v)
    BY <2>1
  <2> HIDE DEF Same
  <2> QED
    BY <2>2
<1>25. Falls(2, 1) /\ Falls(3, 2) /\ Falls(4, 3)
  <2>1. 2 - 1 = 1 /\ 3 - 1 = 2 /\ 4 - 1 = 3
    OBVIOUS
  <2> HIDE DEF Below
  <2>2. Falls(2, 2 - 1) /\ Falls(3, 3 - 1) /\ Falls(4, 4 - 1)
    BY <1>17
  <2> QED
    BY <2>1, <2>2
<1> HIDE DEF Below
<1>19. \A d \in Below(3), a, b, c \in Idx : Entry3(N, d, a, b, c) = Entry3(M, d, a, b, c)
  <2> SUFFICES ASSUME NEW d \in Below(3), NEW a \in Idx, NEW b \in Idx, NEW c \in Idx
               PROVE  Entry3(N, d, a, b, c) = Entry3(M, d, a, b, c)
    OBVIOUS
  <2>1. Child(N, d, a) = Child(M, d, a) /\ Child(M, d, a) \in Below(2)
    BY <1>24, <1>25
  <2>2. Leaf3(N, d, a, b) = Leaf3(M, d, a, b) /\ Leaf3(M, d, a, b) \in Below(1)
    BY <2>1, <1>24, <1>25 DEF Leaf3
  <2> QED
    BY <2>2, <1>24 DEF Entry3
<1>20. \A q \in Pages : /\ pt_index(q) \in Idx /\ pd_index(q) \in Idx
                        /\ pdpt_index(q) \in Idx /\ pml4_index(q) \in Idx
  BY Indices
<1>21. \A q \in KPages : KE(N, q) = KE(M, q)
  <2> SUFFICES ASSUME NEW q \in KPages
               PROVE  KE(N, q) = KE(M, q)
    OBVIOUS
  <2>1. KRoot(q) \in Frames /\ L[KRoot(q)] = 3
    BY Roots DEF Tree
  <2>2. KRoot(q) \in Below(3) /\ q \in Pages
    BY <2>1, <1>18 DEF Pages
  <2> QED
    BY <2>2, <1>19, <1>20 DEF KE
<1>22. \A r \in Frames, q \in UPages : L[r] = 4 => UE(N, r, q) = UE(M, r, q)
  <2> SUFFICES ASSUME NEW r \in Frames, NEW q \in UPages, L[r] = 4
               PROVE  UE(N, r, q) = UE(M, r, q)
    OBVIOUS
  <2>1. r \in Below(4) /\ q \in Pages
    BY <1>18 DEF Pages
  <2>2. /\ Child(N, r, pml4_index(q)) = Child(M, r, pml4_index(q))
        /\ Child(M, r, pml4_index(q)) \in Below(3)
    BY <2>1, <1>24, <1>25, <1>20
  <2> DEFINE d == Child(M, r, pml4_index(q))
  <2>3. UE(N, r, q) = Entry3(N, d, pdpt_index(q), pd_index(q), pt_index(q))
    BY <2>2 DEF UE, Entry4
  <2>4. UE(M, r, q) = Entry3(M, d, pdpt_index(q), pd_index(q), pt_index(q))
    BY DEF UE, Entry4
  <2>5. d \in Below(3)
    BY <2>2
  <2> HIDE DEF d
  <2> QED
    BY <2>1, <2>3, <2>4, <2>5, <1>19, <1>20
<1>23. \A q \in UPages : UE(N, n, q) = NoFrame
  <2> SUFFICES ASSUME NEW q \in UPages
               PROVE  UE(N, n, q) = NoFrame
    OBVIOUS
  <2>1. pml4_index(q) \in Idx /\ pml4_index(q) < Half
    BY SMTT(30), <1>1, <1>4, <1>15, LowerHalf
  <2>2. Child(N, n, pml4_index(q)) = NoFrame
    BY <2>1, <1>1, <1>3 DEF Child
  <2> QED
    BY <2>2 DEF UE, Entry4, Entry3, Leaf3, Child
<1> QED
  BY <1>15, <1>21, <1>22, <1>23 DEF K
=============================================================================
