------------------------- MODULE ReservationProofs -------------------------
(***************************************************************************)
(* The books of a node balance: what PlaceDeployment and DeleteInstances   *)
(* write to alloc is the sum of what the rows on the node ask for, for     *)
(* any number of nodes, environments and revisions.                        *)
(***************************************************************************)
EXTENDS StoreProofs, FiniteSetTheorems, WellFoundedInduction

----------------------------------------------------------------------------
(* Sums over a finite set                                                  *)

(* Mathematical induction, as a fact about sets of numbers.                *)
LEMMA AllNumbers ==
    ASSUME NEW T \in SUBSET Nat, 0 \in T, \A n \in T : n + 1 \in T
    PROVE  T = Nat
<1> SUFFICES ASSUME Nat \ T # {} PROVE FALSE
  BY Zenon
<1>1. PICK x \in Nat \ T : \A y \in Nat \ T : ~(<<y, x>> \in OpToRel(<, Nat))
  BY NatLessThanWellFounded, WFMin, Zenon
<1>2. x # 0 /\ x - 1 \in Nat
  OBVIOUS
<1>3. <<x - 1, x>> \in OpToRel(<, Nat)
  <2>1. <<x - 1, x>> \in Nat \X Nat /\ <<x - 1, x>>[1] < <<x - 1, x>>[2]
    BY <1>2
  <2>2. QED
    BY <2>1, Zenon DEF OpToRel
<1>4. x - 1 \in T
  BY <1>1, <1>2, <1>3, Zenon
<1>5. x - 1 + 1 \in T
  BY <1>4
<1>6. QED
  BY <1>5

(* One round of the fold behind SumFunction, and what it computes.         *)
Pick(s) == CHOOSE x \in s : TRUE
Folded(f, g, s) == IF s = {} THEN 0 ELSE f[Pick(s)] + g[s \ {Pick(s)}]
Sums(f, g) == g = [s \in SUBSET DOMAIN f |-> Folded(f, g, s)]

(* Pick takes an element.                                                 *)
LEMMA PickIsOne == ASSUME NEW s, s # {} PROVE Pick(s) \in s
BY DEF Pick

(* SumFunction is such a fold over the whole domain, if there is one.      *)
LEMMA SumIsFold ==
    ASSUME NEW f, \E g : Sums(f, g)
    PROVE  \E g : Sums(f, g) /\ SumFunction(f) = g[DOMAIN f]
<1> DEFINE it == CHOOSE g : g = [s \in SUBSET DOMAIN f |->
                    IF s = {} THEN 0 ELSE f[CHOOSE x \in s : TRUE] + g[s \ {CHOOSE x \in s : TRUE}]]
<1>1. SumFunction(f) = it[DOMAIN f]
  BY DEF SumFunction, SumFunctionOnSet, FoldFunctionOnSet, MapThenFoldSet
<1>2. Sums(f, it)
  BY Zenon DEF Sums, Folded, Pick
<1>3. QED
  BY <1>1, <1>2, Zenon

(* The fold is defined: built up by the size of the subsets.               *)
LEMMA FoldExists ==
    ASSUME NEW f, IsFiniteSet(DOMAIN f)
    PROVE  \E g : Sums(f, g)
<1> DEFINE D == DOMAIN f
           Upto(n) == {s \in SUBSET D : Cardinality(s) <= n}
           T == {n \in Nat : \E g : g = [s \in Upto(n) |-> Folded(f, g, s)]}
<1>1. \A s \in SUBSET D : IsFiniteSet(s) /\ Cardinality(s) \in Nat /\ Cardinality(s) <= Cardinality(D)
  BY FS_Subset, FS_CardinalityType
<1>2. \A s \in SUBSET D : s # {} => /\ s \ {Pick(s)} \in SUBSET D
                                    /\ Cardinality(s \ {Pick(s)}) = Cardinality(s) - 1
                                    /\ Cardinality(s) >= 1
  <2> SUFFICES ASSUME NEW s \in SUBSET D, s # {}
               PROVE  /\ s \ {Pick(s)} \in SUBSET D
                      /\ Cardinality(s \ {Pick(s)}) = Cardinality(s) - 1
                      /\ Cardinality(s) >= 1
    OBVIOUS
  <2>1. Cardinality(s \ {Pick(s)}) = Cardinality(s) - 1
    BY <1>1, PickIsOne, FS_RemoveElement
  <2>2. Cardinality(s) # 0
    BY <1>1, FS_EmptySet
  <2>3. QED
    BY <1>1, <2>1, <2>2
<1> HIDE DEF D
<1>3. 0 \in T
  <2> DEFINE g == [s \in Upto(0) |-> 0]
  <2>1. \A s \in Upto(0) : s = {}
    BY <1>1, FS_EmptySet
  <2>2. g = [s \in Upto(0) |-> Folded(f, g, s)]
    BY <2>1 DEF Folded
  <2>3. QED
    BY <2>2, Zenon
<1>4. ASSUME NEW n \in T PROVE n + 1 \in T
  <2>1. PICK g : g = [s \in Upto(n) |-> Folded(f, g, s)]
    BY Zenon
  <2> DEFINE h == [s \in Upto(n + 1) |-> IF s \in Upto(n) THEN g[s] ELSE Folded(f, g, s)]
  <2>2. \A s \in Upto(n) : h[s] = g[s]
    BY <1>1
  <2>3. \A s \in Upto(n + 1) : s # {} => s \ {Pick(s)} \in Upto(n)
    BY <1>1, <1>2
  <2>4. \A s \in Upto(n + 1) : Folded(f, h, s) = Folded(f, g, s)
    <3> HIDE DEF h, Upto
    <3>1. QED
      BY <2>2, <2>3 DEF Folded
  <2>5. \A s \in Upto(n) : g[s] = Folded(f, g, s)
    <3> HIDE DEF Upto
    <3>1. QED
      BY <2>1
  <2>6. \A s \in Upto(n + 1) : h[s] = Folded(f, h, s)
    <3> HIDE DEF Upto
    <3>1. QED
      BY <2>4, <2>5
  <2>7. h = [s \in Upto(n + 1) |-> Folded(f, h, s)]
    <3>1. h = [s \in Upto(n + 1) |-> h[s]]
      OBVIOUS
    <3> HIDE DEF h, Upto
    <3>2. QED
      BY <3>1, <2>6
  <2>8. QED
    <3> HIDE DEF h, Upto
    <3>1. QED
      BY <2>7
<1>5. T = Nat
  <2> HIDE DEF T
  <2>1. T \in SUBSET Nat
    BY DEF T
  <2>2. QED
    BY <1>3, <1>4, <2>1, AllNumbers
<1>6. Cardinality(D) \in T
  BY <1>1, <1>5, Zenon
<1>7. PICK g : g = [s \in Upto(Cardinality(D)) |-> Folded(f, g, s)]
  BY <1>6
<1>8. Upto(Cardinality(D)) = SUBSET D
  BY <1>1
<1>9. QED
  BY <1>7, <1>8, Zenon DEF Sums, D

(* The sum over a set is a number, and any element can be split off.       *)
Splits(f, g, s) == g[s] \in Nat /\ \A x \in s : g[s] = f[x] + g[s \ {x}]

(* So it is for every subset of a finite domain, whichever element Pick    *)
(* takes first.                                                            *)
LEMMA SplitOff ==
    ASSUME NEW D, IsFiniteSet(D), NEW f \in [D -> Nat], NEW g, Sums(f, g)
    PROVE  \A s \in SUBSET D : Splits(f, g, s)
<1> DEFINE T == {n \in Nat : \A s \in SUBSET D : Cardinality(s) <= n => Splits(f, g, s)}
<1>1. \A s \in SUBSET D : IsFiniteSet(s) /\ Cardinality(s) \in Nat
  BY FS_Subset, FS_CardinalityType
<1>2. \A s \in SUBSET D : \A x \in s : /\ s \ {x} \in SUBSET D
                                       /\ Cardinality(s \ {x}) = Cardinality(s) - 1
  BY <1>1, FS_RemoveElement, Zenon
<1>3. /\ g[{}] = 0
      /\ \A s \in SUBSET D : s # {} => g[s] = f[Pick(s)] + g[s \ {Pick(s)}]
  BY Zenon DEF Sums, Folded
<1>4. \A x \in D : f[x] \in Nat
  OBVIOUS
<1>5. 0 \in T
  <2>1. ASSUME NEW s \in SUBSET D, Cardinality(s) <= 0 PROVE Splits(f, g, s)
    <3>1. Cardinality(s) = 0
      BY <1>1, <2>1
    <3>2. s = {}
      BY <1>1, <3>1, FS_EmptySet
    <3>3. QED
      BY <1>3, <3>2 DEF Splits
  <2>2. QED
    BY <2>1
<1>6. ASSUME NEW n \in T PROVE n + 1 \in T
  <2>1. n \in Nat /\ \A s \in SUBSET D : Cardinality(s) <= n => Splits(f, g, s)
    <3>1. QED
      OBVIOUS
  <2>2. ASSUME NEW s \in SUBSET D, Cardinality(s) = n + 1 PROVE Splits(f, g, s)
    <3> DEFINE c == Pick(s)
    <3>1. Cardinality({}) = 0 /\ Cardinality(s) # 0
      BY <2>1, <2>2, FS_EmptySet
    <3>2. s # {} /\ c \in s
      BY <3>1, PickIsOne
    <3>3. \A x \in s : Splits(f, g, s \ {x})
      <4>1. QED
        BY <1>2, <2>1, <2>2
    <3>4. \A x \in s \ {c} : Splits(f, g, (s \ {c}) \ {x})
      <4>1. s \ {c} \in SUBSET D /\ Cardinality(s \ {c}) = n
        BY <1>2, <2>1, <2>2, <3>2
      <4> HIDE DEF c
      <4>2. \A x \in s \ {c} : /\ (s \ {c}) \ {x} \in SUBSET D
                               /\ Cardinality((s \ {c}) \ {x}) = n - 1
        BY <1>2, <4>1
      <4>3. QED
        BY <2>1, <4>2
    <3>5. g[s] = f[c] + g[s \ {c}]
      BY <1>3, <3>2, Zenon
    <3> HIDE DEF c
    <3>6. g[s] \in Nat
      BY <1>4, <3>2, <3>3, <3>5 DEF Splits
    <3>7. ASSUME NEW x \in s PROVE g[s] = f[x] + g[s \ {x}]
      <4>1. CASE x = c
        BY <3>5, <4>1
      <4>2. CASE x # c
        <5>1. (s \ {c}) \ {x} = (s \ {x}) \ {c} /\ x \in s \ {c} /\ c \in s \ {x}
          BY <3>2, <4>2
        <5>2. g[s \ {c}] = f[x] + g[(s \ {c}) \ {x}]
          BY <3>2, <3>3, <5>1 DEF Splits
        <5>3. g[s \ {x}] = f[c] + g[(s \ {x}) \ {c}]
          BY <3>3, <5>1 DEF Splits
        <5>4. g[(s \ {c}) \ {x}] \in Nat
          BY <3>4, <5>1 DEF Splits
        <5>5. f[x] \in Nat /\ f[c] \in Nat
          BY <1>4, <3>2
        <5>6. QED
          <6> DEFINE a == g[(s \ {c}) \ {x}]
          <6>1. a \in Nat /\ g[s] = f[c] + (f[x] + a) /\ g[s \ {x}] = f[c] + a
            BY <3>5, <5>1, <5>2, <5>3, <5>4, Zenon
          <6> HIDE DEF a
          <6>2. QED
            BY <5>5, <6>1
      <4>3. QED
        BY <4>1, <4>2
    <3>8. QED
      BY <3>6, <3>7, Zenon DEF Splits
  <2>3. \A s \in SUBSET D : Cardinality(s) <= n + 1 => Splits(f, g, s)
    BY <1>1, <2>1, <2>2
  <2>4. QED
    BY <2>1, <2>3
<1>7. T = Nat
  <2> HIDE DEF T
  <2>1. T \in SUBSET Nat
    BY DEF T
  <2>2. QED
    BY <1>5, <1>6, <2>1, AllNumbers
<1>8. ASSUME NEW s \in SUBSET D PROVE Splits(f, g, s)
  <2>1. Cardinality(s) \in T /\ Cardinality(s) <= Cardinality(s)
    BY <1>1, <1>7
  <2>2. QED
    BY <2>1
<1>9. QED
  BY <1>8

(* Two functions that agree on a set have the same sum over it.            *)
LEMMA SameSum ==
    ASSUME NEW f, IsFiniteSet(DOMAIN f), NEW g, Sums(f, g),
           NEW h, DOMAIN h = DOMAIN f, NEW k, Sums(h, k),
           NEW S \in SUBSET DOMAIN f, \A x \in S : f[x] = h[x]
    PROVE  g[S] = k[S]
<1> DEFINE D == DOMAIN f
           T == {n \in Nat : \A s \in SUBSET S : Cardinality(s) = n => g[s] = k[s]}
<1>1. \A s \in SUBSET S : IsFiniteSet(s) /\ Cardinality(s) \in Nat
  BY FS_Subset, FS_CardinalityType
<1>2. /\ g[{}] = 0 /\ k[{}] = 0
      /\ \A s \in SUBSET D : s # {} => /\ g[s] = f[Pick(s)] + g[s \ {Pick(s)}]
                                       /\ k[s] = h[Pick(s)] + k[s \ {Pick(s)}]
  BY Zenon DEF Sums, Folded
<1>3. 0 \in T
  BY <1>1, <1>2, FS_EmptySet
<1>4. ASSUME NEW n \in T PROVE n + 1 \in T
  <2>0. n \in Nat
    OBVIOUS
  <2> SUFFICES ASSUME NEW s \in SUBSET S, Cardinality(s) = n + 1 PROVE g[s] = k[s]
    OBVIOUS
  <2>1. s # {} /\ Pick(s) \in s
    <3>1. Cardinality({}) = 0 /\ Cardinality(s) # 0
      BY <2>0, FS_EmptySet
    <3>2. QED
      BY <3>1, PickIsOne, Zenon
  <2>2. Cardinality(s \ {Pick(s)}) = n
    <3>1. Cardinality(s \ {Pick(s)}) = Cardinality(s) - 1
      BY <1>1, <2>1, FS_RemoveElement, Zenon
    <3>2. QED
      BY <2>0, <3>1
  <2>3. g[s \ {Pick(s)}] = k[s \ {Pick(s)}]
    BY <2>2
  <2>4. QED
    BY <1>2, <2>1, <2>3, Zenon
<1>5. T = Nat
  <2> HIDE DEF T
  <2>1. T \in SUBSET Nat
    BY DEF T
  <2>2. QED
    BY <1>3, <1>4, <2>1, AllNumbers
<1>6. QED
  BY <1>1, <1>5

(* What a write to one place does to a sum.                                *)
LEMMA SumOfUpdate ==
    ASSUME NEW D, IsFiniteSet(D), NEW f \in [D -> Nat], NEW h \in [D -> Nat],
           NEW x \in D, \A y \in D \ {x} : h[y] = f[y]
    PROVE  /\ SumFunction(f) \in Nat /\ SumFunction(h) \in Nat
           /\ f[x] <= SumFunction(f)
           /\ SumFunction(h) = SumFunction(f) - f[x] + h[x]
<1>0. DOMAIN f = D /\ DOMAIN h = D
  OBVIOUS
<1>1. PICK g : Sums(f, g) /\ SumFunction(f) = g[D]
  BY <1>0, FoldExists, SumIsFold
<1>2. PICK k : Sums(h, k) /\ SumFunction(h) = k[D]
  BY <1>0, FoldExists, SumIsFold
<1>3. g[D] \in Nat /\ g[D] = f[x] + g[D \ {x}] /\ g[D \ {x}] \in Nat
  <2>1. \A s \in SUBSET D : Splits(f, g, s)
    BY <1>1, SplitOff
  <2>2. QED
    BY <2>1, Zenon DEF Splits
<1>4. k[D] \in Nat /\ k[D] = h[x] + k[D \ {x}]
  <2>1. \A s \in SUBSET D : Splits(h, k, s)
    BY <1>2, SplitOff
  <2>2. QED
    BY <2>1, Zenon DEF Splits
<1>5. g[D \ {x}] = k[D \ {x}]
  <2>1. D \ {x} \in SUBSET DOMAIN f /\ \A y \in D \ {x} : f[y] = h[y]
    BY <1>0
  <2>2. QED
    BY <1>0, <1>1, <1>2, <2>1, SameSum
<1>6. f[x] \in Nat /\ h[x] \in Nat
  OBVIOUS
<1>7. QED
  BY <1>1, <1>2, <1>3, <1>4, <1>5, <1>6

(* A sum of zeros.                                                         *)
LEMMA SumOfZeros ==
    ASSUME NEW D, IsFiniteSet(D)
    PROVE  SumFunction([d \in D |-> 0]) = 0
<1> DEFINE f == [d \in D |-> 0]
           z == [s \in SUBSET D |-> 0]
<1>0. DOMAIN f = D
  OBVIOUS
<1>1. PICK g : Sums(f, g) /\ SumFunction(f) = g[D]
  BY <1>0, FoldExists, SumIsFold
<1>2. Sums(f, z)
  <2>1. \A s \in SUBSET D : Folded(f, z, s) = 0
    BY PickIsOne DEF Folded
  <2>2. z = [s \in SUBSET D |-> Folded(f, z, s)]
    BY <2>1
  <2>3. QED
    BY <2>2, <1>0 DEF Sums
<1> HIDE DEF f
<1>3. g[D] = z[D]
  BY <1>0, <1>1, <1>2, SameSum
<1>4. QED
  BY <1>1, <1>3 DEF f

----------------------------------------------------------------------------
(* What a node has reserved                                                *)

(* There are finitely many deployments.                                    *)
Deployments == Env \X (1..MaxRevision)

LEMMA FiniteDeployments == IsFiniteSet(Deployments)
<1>1. 1 \in Int /\ MaxRevision \in Int
  BY FiniteAssumption
<1>2. IsFiniteSet(1..MaxRevision)
  BY <1>1, FS_Interval
<1>3. QED
  BY <1>2, FS_Product, FiniteAssumption DEF Deployments

(* A reservation is a number for every deployment, before and after.       *)
LEMMA ReservationType ==
    ASSUME TypeOK, TypeOK', NEW n \in Node, NEW res \in Resource
    PROVE  /\ Reservation(n, res) \in [Deployments -> Nat]
           /\ Reservation(n, res)' \in [Deployments -> Nat]
<1>1. ASSUME NEW d \in Deployments
      PROVE  /\ d[2] \in DOMAIN deps[d[1]] => Peak(deps[d[1]][d[2]].version, res) \in Nat
             /\ d[2] \in DOMAIN deps'[d[1]] => Peak(deps'[d[1]][d[2]].version, res) \in Nat
  <2>1. d[1] \in Env
    BY DEF Deployments
  <2>2. d[2] \in DOMAIN deps[d[1]] => deps[d[1]][d[2]] \in DeploymentRow
    BY <2>1, Numbered
  <2>3. d[2] \in DOMAIN deps'[d[1]] => deps'[d[1]][d[2]] \in DeploymentRow
    <3>1. deps'[d[1]] \in Seq(DeploymentRow)
      BY <2>1 DEF TypeOK
    <3>2. QED
      BY <3>1
  <2>4. QED
    BY <2>2, <2>3, PeakAssumption DEF DeploymentRow
<1>2. QED
  BY <1>1 DEF Reservation, Deployments, Revisions, Row

(* A step that keeps the nodes keeps what is reserved.                     *)
LEMMA ReservationKept ==
    ASSUME NodesKept, NEW n \in Node, NEW res \in Resource
    PROVE  Reservation(n, res)' = Reservation(n, res)
<1>1. ASSUME NEW d \in Deployments
      PROVE  /\ (d[2] \in DOMAIN deps'[d[1]] /\ deps'[d[1]][d[2]].node = n)
                <=> (d[2] \in DOMAIN deps[d[1]] /\ deps[d[1]][d[2]].node = n)
             /\ d[2] \in DOMAIN deps[d[1]] => deps'[d[1]][d[2]].version = deps[d[1]][d[2]].version
  BY NoneAssumption DEF NodesKept, Deployments
<1>2. QED
  BY <1>1 DEF Reservation, Deployments, Revisions, Row

(* One row gets another node: only that deployment's part changes.         *)
LEMMA ReservationMoves ==
    ASSUME TypeOK, TypeOK', NEW e \in Env, NEW r \in 1..MaxRevision, OnlyRow(e, r), r \in DOMAIN deps[e],
           deps'[e][r].version = deps[e][r].version, NEW n \in Node, NEW res \in Resource
    PROVE  LET f == Reservation(n, res)
               h == Reservation(n, res)'
               peak == Peak(deps[e][r].version, res)
               was == IF deps[e][r].node = n THEN peak ELSE 0
               is == IF deps'[e][r].node = n THEN peak ELSE 0
           IN  /\ was <= SumFunction(f) /\ SumFunction(f) \in Nat
               /\ SumFunction(h) = SumFunction(f) - was + is
<1> DEFINE f == Reservation(n, res)
           h == Reservation(n, res)'
           x == <<e, r>>
           peak == Peak(deps[e][r].version, res)
           was == IF deps[e][r].node = n THEN peak ELSE 0
           is == IF deps'[e][r].node = n THEN peak ELSE 0
<1>1. f \in [Deployments -> Nat] /\ h \in [Deployments -> Nat]
  BY ReservationType
<1>2. x \in Deployments /\ x[1] = e /\ x[2] = r
  BY DEF Deployments
<1>3. f[x] = was /\ h[x] = is
  BY <1>2 DEF Reservation, Deployments, Revisions, Row, OnlyRow
<1>4. ASSUME NEW y \in Deployments \ {x} PROVE h[y] = f[y]
  <2>1. y[1] \in Env /\ (y[1] # e \/ y[2] # r)
    BY DEF Deployments
  <2>2. /\ DOMAIN deps'[y[1]] = DOMAIN deps[y[1]]
        /\ y[2] \in DOMAIN deps[y[1]] => deps'[y[1]][y[2]] = deps[y[1]][y[2]]
    BY <2>1 DEF OnlyRow
  <2>3. QED
    BY <2>2 DEF Reservation, Deployments, Revisions, Row
<1> HIDE DEF f, h, x, was, is
<1>5. QED
  <2>1. /\ SumFunction(f) \in Nat /\ f[x] <= SumFunction(f)
        /\ SumFunction(h) = SumFunction(f) - f[x] + h[x]
    BY <1>1, <1>2, <1>4, FiniteDeployments, SumOfUpdate
  <2>2. QED
    BY <1>3, <2>1 DEF f, h, was, is

(* PlaceDeployment and DeleteInstances keep a node's books balanced: with  *)
(* no preview to expire, alloc is at every moment the sum of the peaks of  *)
(* the deployments with rows on the node.  (An expiry deletes rows and     *)
(* leaves alloc: the run "leak".)                                          *)
THEOREM BooksBalance ==
    ASSUME Preview = {}
    PROVE  StoreSpec => []AllocIsReserved
<1>1. Init => AllocIsReserved
  <2> SUFFICES ASSUME Init, NEW n \in Node, NEW res \in Resource
               PROVE  alloc[n][res] = SumFunction(Reservation(n, res))
    BY DEF AllocIsReserved
  <2>1. alloc[n][res] = 0 /\ \A e \in Env : DOMAIN deps[e] = {}
    BY DEF Init
  <2>2. Reservation(n, res) = [d \in Deployments |-> 0]
    BY <2>1 DEF Reservation, Revisions, Deployments
  <2>3. QED
    BY <2>1, <2>2, FiniteDeployments, SumOfZeros
<1>2. ASSUME IInv, IInv', AllocIsReserved, [Next]_storeVars PROVE AllocIsReserved'
  <2>1. IInv /\ TypeOK /\ TypeOK'
    BY <1>2 DEF IInv
  <2>2. [Next]_storeVars
    BY <1>2
  <2>3. \A m \in Node, res \in Resource : alloc[m][res] = SumFunction(Reservation(m, res))
    BY <1>2 DEF AllocIsReserved
  <2> SUFFICES ASSUME NEW m \in Node, NEW res \in Resource
               PROVE  alloc'[m][res] = SumFunction(Reservation(m, res)')
    BY DEF AllocIsReserved
  <2>4. ASSUME NEW e \in Env, NEW r \in 1..MaxRevision, NEW n \in Node, PlaceDeployment(e, r, n)
        PROVE  alloc'[m][res] = SumFunction(Reservation(m, res)')
    <3> DEFINE peak == Peak(deps[e][r].version, res)
    <3>1. /\ OnlyRow(e, r) /\ r \in DOMAIN deps[e]
          /\ deps[e][r].node = None /\ deps'[e][r].node = n
          /\ deps'[e][r].version = deps[e][r].version
      BY <2>1, <2>4, PlaceEffect, Zenon DEF PlaceDeployment, Pending, Revisions
    <3>2. /\ peak \in Nat
          /\ m # n => alloc'[m] = alloc[m]
          /\ alloc'[n][res] = alloc[n][res] + peak
      BY <2>1, <2>4, PlaceAlloc DEF Taken
    <3>3. /\ SumFunction(Reservation(m, res)) \in Nat
          /\ SumFunction(Reservation(m, res)') =
                SumFunction(Reservation(m, res)) - (IF deps[e][r].node = m THEN peak ELSE 0)
                                                 + (IF deps'[e][r].node = m THEN peak ELSE 0)
      BY <2>1, <3>1, ReservationMoves
    <3> HIDE DEF peak
    <3>4. QED
      BY <2>3, <3>1, <3>2, <3>3, NoneAssumption
  <2>5. ASSUME NEW e \in Env, NEW r \in 1..MaxRevision, DeleteTerminal(e, r)
        PROVE  alloc'[m][res] = SumFunction(Reservation(m, res)')
    <3> DEFINE peak == Peak(deps[e][r].version, res)
               n == deps[e][r].node
    <3>1. /\ OnlyRow(e, r) /\ r \in DOMAIN deps[e]
          /\ n \in Node /\ deps'[e][r].node = None
          /\ deps'[e][r].version = deps[e][r].version
      BY <2>1, <2>5, DeleteEffect DEF DeleteTerminal, Revisions
    <3>2. /\ peak \in Nat
          /\ m # n => alloc'[m] = alloc[m]
          /\ alloc'[n][res] = IF alloc[n][res] >= peak THEN alloc[n][res] - peak ELSE 0
      BY <2>1, <2>5, DeleteAlloc DEF DeleteTerminal, GivenBack
    <3>3. /\ SumFunction(Reservation(m, res)) \in Nat
          /\ (IF n = m THEN peak ELSE 0) <= SumFunction(Reservation(m, res))
          /\ SumFunction(Reservation(m, res)') =
                SumFunction(Reservation(m, res)) - (IF n = m THEN peak ELSE 0)
                                                 + (IF deps'[e][r].node = m THEN peak ELSE 0)
      BY <2>1, <3>1, ReservationMoves
    <3> HIDE DEF peak, n
    <3>4. alloc[m][res] = SumFunction(Reservation(m, res)) /\ deps'[e][r].node # m
      BY <2>3, <3>1, NoneAssumption
    <3>5. CASE m = n
      BY <3>2, <3>3, <3>4, <3>5
    <3>6. CASE m # n
      BY <3>2, <3>3, <3>4, <3>6
    <3>7. QED
      BY <3>5, <3>6
  <2>6. CASE ~\E e \in Env, r \in 1..MaxRevision :
               DeleteTerminal(e, r) \/ \E n \in Node : PlaceDeployment(e, r, n)
    <3>1. alloc' = alloc
      BY <2>2, <2>6, AllocWriters
    <3>2. NodesKept
      <4>1. \A expired \in SUBSET Preview : expired = {}
        OBVIOUS
      <4>2. QED
        BY <2>1, <2>2, <2>6, <4>1, NodeWriters
    <3>3. QED
      BY <2>3, <3>1, <3>2, ReservationKept
  <2>7. QED
    BY <2>4, <2>5, <2>6
<1>3. QED
  BY <1>1, <1>2, Invariance, PTL DEF StoreSpec

============================================================================
