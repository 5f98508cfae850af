----------------------------- MODULE PartsProofs -----------------------------
(***************************************************************************)
(* Computations that share no state with the rest.  bestNode's loop is     *)
(* right for every fleet: any number of nodes, any rows, any counts and    *)
(* any order.  What the parser accepts can be deployed, and its search for *)
(* a cycle ends and finds one exactly when services wait for each other,   *)
(* for any documents and any environment configurations.                   *)
(***************************************************************************)
EXTENDS BestNode, Compose, FiniteSetTheorems, TLAPS

-----------------------------------------------------------------------------
(* Ranking nodes.                                                          *)

Fraction == {<<a, b>> : a \in Int, b \in Nat \ {0}}

(* Multiplying an inequality by a natural number, and cancelling one.      *)
LEMMA Multiply ==
    ASSUME NEW a \in Int, NEW b \in Int, NEW c \in Nat, a >= b
    PROVE  a * c >= b * c
BY SMT

(* A positive factor cancels from a comparison.                            *)
LEMMA Cancel ==
    ASSUME NEW a \in Int, NEW b \in Int, NEW c \in Nat \ {0}, a * c >= b * c
    PROVE  a >= b
BY SMT

(* Less, by cross multiplication, is a strict weak order on fractions.     *)
LEMMA LessAsymmetric ==
    ASSUME NEW p \in Fraction, NEW q \in Fraction, Less(p, q)
    PROVE  ~Less(q, p)
<1>1. PICK a \in Int, b \in Nat \ {0} : p = <<a, b>>
  BY DEF Fraction
<1>2. PICK c \in Int, d \in Nat \ {0} : q = <<c, d>>
  BY DEF Fraction
<1>3. a * d \in Int /\ c * b \in Int
  OBVIOUS
<1>4. a * d < c * b
  BY <1>1, <1>2 DEF Less
<1>5. QED
  BY <1>1, <1>2, <1>3, <1>4 DEF Less

(* Not being below is transitive on fractions with positive denominators.  *)
LEMMA NotLessTransitive ==
    ASSUME NEW p \in Fraction, NEW q \in Fraction, NEW r \in Fraction,
           ~Less(p, q), ~Less(q, r)
    PROVE  ~Less(p, r)
<1>1. PICK a \in Int, b \in Nat \ {0} : p = <<a, b>>
  BY DEF Fraction
<1>2. PICK c \in Int, d \in Nat \ {0} : q = <<c, d>>
  BY DEF Fraction
<1>3. PICK x \in Int, y \in Nat \ {0} : r = <<x, y>>
  BY DEF Fraction
<1>4. /\ a * d \in Int /\ c * b \in Int /\ c * y \in Int /\ x * d \in Int
      /\ a * y \in Int /\ x * b \in Int
  OBVIOUS
<1>5. a * d >= c * b /\ c * y >= x * d
  BY <1>1, <1>2, <1>3, <1>4 DEF Less
<1>6. (a * d) * y >= (c * b) * y /\ (c * y) * b >= (x * d) * b
  BY <1>4, <1>5, Multiply
<1>7. /\ (a * d) * y = (a * y) * d /\ (c * b) * y = (c * y) * b
      /\ (x * d) * b = (x * b) * d
  OBVIOUS
<1>8. (a * y) * d >= (x * b) * d
  <2>1. (a * y) * d \in Int /\ (c * y) * b \in Int /\ (x * b) * d \in Int
    OBVIOUS
  <2>2. QED
    BY <1>6, <1>7, <2>1
<1>9. a * y >= x * b
  BY <1>4, <1>8, Cancel
<1>10. QED
  BY <1>1, <1>3, <1>4, <1>9 DEF Less

(* So is being below.                                                      *)
LEMMA LessTransitive ==
    ASSUME NEW p \in Fraction, NEW q \in Fraction, NEW r \in Fraction,
           Less(p, q), Less(q, r)
    PROVE  Less(p, r)
BY LessAsymmetric, NotLessTransitive

(* freeRatio of a node row is a fraction with a positive denominator.      *)
LEMMA RatioIsFraction == \A row \in NodeRow : FreeRatio(row) \in Fraction
<1> SUFFICES ASSUME NEW row \in NodeRow, NEW kind \in {"mem", "cpu"}
             PROVE  FreeShare(row, kind) \in Fraction
  BY DEF FreeRatio
<1>1. row.cap[kind] \in Nat /\ row.alloc[kind] \in Nat
  BY InputAssumption DEF Amount
<1>2. row.cap[kind] - row.alloc[kind] \in Int
  BY <1>1
<1>3. QED
  BY <1>1, <1>2 DEF FreeShare, Fraction

----------------------------------------------------------------------------
Listed == {nodes[a] : a \in DOMAIN nodes}

InputsOK ==
    /\ nodes \in Listings
    /\ fleet \in [Listed -> NodeRow]
    /\ homed \in [Ids -> Counts]

IInv == InputsOK /\ LoopInvariant

(* Every listed node has a row and a count of homed environments.          *)
LEMMA ListedOK ==
    ASSUME InputsOK, NEW x \in Listed
    PROVE  x \in Ids /\ x \in Nat /\ x # None /\ homed[x] \in Nat
<1>1. PICK k \in 0..MaxNodes : nodes \in [1..k -> Ids]
  BY DEF InputsOK, Listings
<1>2. PICK a \in DOMAIN nodes : x = nodes[a]
  BY DEF Listed
<1>3. x \in Ids
  BY <1>1, <1>2
<1>4. QED
  BY <1>3, IdsAssumption, InputAssumption, Zenon DEF InputsOK

(* The order of preference is a strict total order on the listed nodes.    *)
LEMMA PreferTransitive ==
    ASSUME InputsOK, NEW n \in Listed, NEW w \in Listed, NEW k \in Listed,
           Prefer(fleet, homed, n, w), Prefer(fleet, homed, w, k)
    PROVE  Prefer(fleet, homed, n, k)
<1> DEFINE R(x) == FreeRatio(fleet[x])
<1>1. \A x \in Listed : R(x) \in Fraction
  BY RatioIsFraction DEF InputsOK
<1>2. \A x \in Listed : x \in Nat /\ homed[x] \in Nat
  BY ListedOK
<1>3. /\ Less(R(w), R(n)) /\ Less(R(k), R(w)) => Less(R(k), R(n))
      /\ Less(R(w), R(n)) /\ ~Less(R(w), R(k)) => Less(R(k), R(n))
      /\ ~Less(R(n), R(w)) /\ Less(R(k), R(w)) => Less(R(k), R(n))
      /\ ~Less(R(n), R(w)) /\ ~Less(R(w), R(k)) => ~Less(R(n), R(k))
      /\ ~Less(R(w), R(n)) /\ ~Less(R(k), R(w)) => ~Less(R(k), R(n))
  BY <1>1, LessTransitive, LessAsymmetric, NotLessTransitive
<1> HIDE DEF R
<1>4. QED
  BY <1>2, <1>3 DEF Prefer, R

(* bestNode's ranking decides between any two distinct nodes.              *)
LEMMA PreferTotal ==
    ASSUME InputsOK, NEW n \in Listed, NEW w \in Listed, n # w
    PROVE  Prefer(fleet, homed, n, w) \/ Prefer(fleet, homed, w, n)
<1>1. n \in Nat /\ w \in Nat /\ homed[n] \in Nat /\ homed[w] \in Nat
  BY ListedOK
<1>2. QED
  BY <1>1 DEF Prefer

(* The switch in the loop body is the order of preference.                 *)
LEMMA ReplacesIsPrefer ==
    ASSUME InputsOK, NEW n \in Listed, best \in Listed, n # best
    PROVE  Replaces(n) <=> Prefer(fleet, homed, n, best)
<1>1. /\ n \in Nat /\ best \in Nat /\ homed[n] \in Nat /\ homed[best] \in Nat
      /\ best # None
  BY ListedOK
<1>2. FreeRatio(fleet[n]) \in Fraction /\ FreeRatio(fleet[best]) \in Fraction
  BY RatioIsFraction DEF InputsOK
<1>3. ~(/\ Less(FreeRatio(fleet[n]), FreeRatio(fleet[best]))
        /\ Less(FreeRatio(fleet[best]), FreeRatio(fleet[n])))
  BY <1>2, LessAsymmetric
<1>4. QED
  BY <1>1, <1>3 DEF Replaces, Prefer

(* Before the loop nothing has been seen and best is nil.                  *)
LEMMA InitInvariant == LoopInit => IInv
<1> SUFFICES ASSUME LoopInit PROVE IInv
  OBVIOUS
<1>1. PICK k \in 0..MaxNodes : nodes \in [1..k -> Ids]
  BY DEF LoopInit, Listings
<1>2. Len(nodes) = k /\ k \in Nat
  BY <1>1, InputAssumption
<1>3. 1..i = {} /\ i \in 0..Len(nodes)
  BY <1>2 DEF LoopInit
<1>4. QED
  BY <1>3 DEF LoopInit, IInv, InputsOK, Listed, LoopInvariant

(* One iteration keeps best the preferred candidate of the prefix.         *)
LEMMA IterateInvariant == IInv /\ [Iterate]_loopVars => IInv'
<1>0. ASSUME IInv, UNCHANGED loopVars PROVE IInv'
  <2>1. /\ nodes' = nodes /\ fleet' = fleet /\ homed' = homed /\ peak' = peak
        /\ i' = i /\ best' = best
    BY <1>0 DEF loopVars, inputs
  <2>2. QED
    BY <1>0, <2>1 DEF IInv, InputsOK, LoopInvariant, Listed
<1> SUFFICES ASSUME IInv, Iterate PROVE IInv'
  BY <1>0
<1> DEFINE n == nodes[i + 1]
           C == Candidates(fleet, peak)
           seen == {nodes[a] : a \in 1..i} \cap C
           next == {nodes[a] : a \in 1..(i + 1)} \cap C
           Pref(x, y) == Prefer(fleet, homed, x, y)
<1>1. /\ nodes' = nodes /\ fleet' = fleet /\ homed' = homed /\ peak' = peak
      /\ i' = i + 1 /\ i < Len(nodes)
      /\ best' = IF HasRoom(fleet[n], peak) /\ Replaces(n) THEN n ELSE best
  BY DEF Iterate, inputs
<1>2. InputsOK'
  BY <1>1 DEF IInv, InputsOK, Listed
<1>3. PICK k \in 0..MaxNodes : nodes \in [1..k -> Ids]
  BY DEF IInv, InputsOK, Listings
<1>4. k \in Nat /\ Len(nodes) = k /\ DOMAIN nodes = 1..k
  BY <1>3, InputAssumption
<1>5. i \in Nat /\ i + 1 \in 1..k /\ 1..(i + 1) = 1..i \cup {i + 1}
  BY <1>1, <1>4 DEF IInv, LoopInvariant
<1>6. n \in Listed /\ n \in Ids /\ n # None /\ DOMAIN fleet = Listed
  BY <1>3, <1>4, <1>5, IdsAssumption DEF IInv, InputsOK, Listed
<1>7. seen \subseteq Listed
  BY <1>4, <1>5 DEF Listed
<1>8. n \notin seen
  BY <1>4, <1>5 DEF IInv, InputsOK, Listings
<1>9. next = seen \cup ({n} \cap C) /\ (n \in C <=> HasRoom(fleet[n], peak))
  BY <1>5, <1>6 DEF Candidates
<1>10. /\ best = None <=> seen = {}
       /\ best # None => best \in seen /\ \A w \in seen \ {best} : Pref(best, w)
  BY DEF IInv, LoopInvariant
<1> HIDE DEF n, C, seen, next, Pref
<1>11. /\ best' = None <=> next = {}
       /\ best' # None => best' \in next /\ \A w \in next \ {best'} : Pref(best', w)
  <2>1. CASE n \notin C
    BY <1>1, <1>9, <1>10, <2>1
  <2>2. CASE n \in C /\ best = None
    <3>1. Replaces(n)
      BY <2>2 DEF Replaces
    <3>2. QED
      BY <1>1, <1>6, <1>9, <1>10, <2>2, <3>1
  <2>3. CASE n \in C /\ best # None
    <3>1. best \in Listed /\ n # best /\ best \in seen
      BY <1>7, <1>8, <1>10, <2>3
    <3>2. Replaces(n) <=> Pref(n, best)
      BY <1>6, <3>1, ReplacesIsPrefer DEF IInv, Pref
    <3>3. Pref(n, best) => \A w \in seen : Pref(n, w)
      BY <1>6, <1>7, <1>10, <2>3, <3>1, PreferTransitive DEF IInv, Pref
    <3>4. ~Pref(n, best) => Pref(best, n)
      BY <1>6, <3>1, PreferTotal DEF IInv, Pref
    <3>5. QED
      BY <1>1, <1>6, <1>9, <1>10, <2>3, <3>1, <3>2, <3>3, <3>4
  <2>4. QED
    BY <2>1, <2>2, <2>3
<1>12. LoopInvariant'
  BY <1>1, <1>4, <1>5, <1>11 DEF LoopInvariant, next, C, Pref
<1>13. QED
  BY <1>2, <1>12 DEF IInv

(* After every iteration of bestNode's loop, best is the most preferred of *)
(* the nodes seen so far that have room.                                   *)
THEOREM LoopCorrect == LoopSpec => []LoopInvariant
<1>1. IInv => LoopInvariant
  BY DEF IInv
<1>2. QED
  BY <1>1, InitInvariant, IterateInvariant, PTL DEF LoopSpec

(* bestNode's result is determined by the set of nodes and their rows, not *)
(* by the order in which Postgres returned them.                           *)
THEOREM ChoiceIsDetermined == LoopSpec => []OrderIndependent
<1>1. IInv => OrderIndependent
  <2> SUFFICES ASSUME IInv, i = Len(nodes)
               PROVE  IF Candidates(fleet, peak) = {} THEN best = None
                      ELSE IsBest(fleet, homed, peak, best)
    BY DEF OrderIndependent
  <2>1. PICK k \in 0..MaxNodes : nodes \in [1..k -> Ids]
    BY DEF IInv, InputsOK, Listings
  <2>2. Len(nodes) = k /\ DOMAIN nodes = 1..k
    BY <2>1, InputAssumption
  <2>3. {nodes[a] : a \in 1..i} = DOMAIN fleet
    BY <2>2 DEF IInv, InputsOK, Listed
  <2>4. {nodes[a] : a \in 1..i} \cap Candidates(fleet, peak) = Candidates(fleet, peak)
    BY <2>3 DEF Candidates
  <2>5. QED
    BY <2>4 DEF IInv, LoopInvariant, IsBest
<1>2. QED
  BY <1>1, InitInvariant, IterateInvariant, PTL DEF LoopSpec

-----------------------------------------------------------------------------
(* The search for a cycle, in any dependency graph over numbered services.  *)

Graph(svcs) == DOMAIN svcs \subseteq Nat /\ \A n \in DOMAIN svcs : svcs[n].depends \subseteq Nat

SearchRow(svcs) ==
    [color : [DOMAIN svcs -> {"white", "grey", "black"}], path : Seq(DOMAIN svcs),
     left : Seq(SUBSET Nat), names : SUBSET DOMAIN svcs, out : Seq(DOMAIN svcs)]

(* The calls in progress are the grey services, each once and each a        *)
(* dependency of the one before.                                            *)
Calls(svcs, s) ==
    /\ Len(s.left) = Len(s.path)
    /\ \A k \in 1..Len(s.path) :
          s.color[s.path[k]] = "grey" /\ s.left[k] \subseteq svcs[s.path[k]].depends
    /\ \A k, l \in 1..Len(s.path) : s.path[k] = s.path[l] => k = l
    /\ \A n \in DOMAIN svcs : s.color[n] = "grey" => \E k \in 1..Len(s.path) : s.path[k] = n
    /\ \A k \in 1..(Len(s.path) - 1) : s.path[k + 1] \in svcs[s.path[k]].depends

(* What a call has looked at is black, but for the call it is in, and but   *)
(* for the dependencies in X that the innermost call is about to enter.     *)
LookedAt(svcs, s, X) ==
    \A k \in 1..Len(s.path) : \A dep \in (svcs[s.path[k]].depends \cap DOMAIN svcs) \ s.left[k] :
        \/ s.color[dep] = "black"
        \/ k < Len(s.path) /\ dep = s.path[k + 1]
        \/ k = Len(s.path) /\ dep \in X

(* Black services depend on black ones only, and do not wait for each other.*)
Finished(svcs, s) ==
    /\ \A n \in DOMAIN svcs : s.color[n] = "black" =>
          \A dep \in svcs[n].depends \cap DOMAIN svcs : s.color[dep] = "black"
    /\ \A S \in SUBSET {n \in DOMAIN svcs : s.color[n] = "black"} :
          S # {} => \E n \in S : svcs[n].depends \cap S = {}

(* The outer loop leaves no service white behind it, but for those in X.    *)
Tried(svcs, s, X) == \A n \in DOMAIN svcs \ s.names : s.color[n] # "white" \/ n \in X

Marks(svcs, s) ==
    /\ s \in SearchRow(svcs) /\ s.out = << >>
    /\ Calls(svcs, s) /\ LookedAt(svcs, s, {}) /\ Finished(svcs, s) /\ Tried(svcs, s, {})

(* visit is called for n: by the outer loop, or by the innermost call.      *)
Called(svcs, s, n) == s.path = << >> \/ n \in svcs[s.path[Len(s.path)]].depends

(* A closed path of dependencies.                                           *)
ClosedPath(svcs, c) ==
    /\ c \in Seq(DOMAIN svcs) /\ Len(c) > 1 /\ c[1] = c[Len(c)]
    /\ \A k \in 1..(Len(c) - 1) : c[k + 1] \in svcs[c[k]].depends

(* SearchAdvances, of a search and its next state.                          *)
White(s) == {n \in DOMAIN s.color : s.color[n] = "white"}
Advances(s, t) ==
    \/ Fewer(White(t), White(s))
    \/ /\ White(t) = White(s)
       /\ \/ Len(t.path) < Len(s.path)
          \/ t.path = s.path /\ s.path # << >> /\ Fewer(Last(t.left), Last(s.left))
          \/ t.path = << >> /\ s.path = << >> /\ Fewer(t.names, s.names)

(* First is a member, of any set of numbers that has one.                   *)
LEMMA FirstIsOne ==
    ASSUME NEW S \in SUBSET Nat, S # {}
    PROVE  First(S) \in S /\ \A y \in S : First(S) <= y
<1>1. PICK x \in S : \A y \in S : ~(<<y, x>> \in OpToRel(<, Nat))
  BY NatLessThanWellFounded, WFMin, Zenon
<1>2. ASSUME NEW y \in S PROVE x <= y
  <2>1. <<y, x>> \in Nat \X Nat /\ <<y, x>>[1] = y /\ <<y, x>>[2] = x
    OBVIOUS
  <2>2. y < x => <<y, x>> \in OpToRel(<, Nat)
    BY <2>1, Zenon DEF OpToRel
  <2>3. ~(y < x)
    BY <1>1, <2>2, Zenon
  <2>4. QED
    BY <2>3
<1>3. \E z \in S : \A y \in S : z <= y
  BY <1>2, Zenon
<1>4. QED
  BY <1>3, Zenon DEF First

(* A search starts with every service white.                                *)
LEMMA StartMarks ==
    ASSUME NEW svcs, Graph(svcs)
    PROVE  Marks(svcs, start(svcs))
<1> DEFINE s == start(svcs)
           c == [n \in DOMAIN svcs |-> "white"]
<1>1. s = [color |-> c, path |-> << >>, left |-> << >>, names |-> DOMAIN svcs, out |-> << >>]
  BY DEF start
<1>2. /\ c \in [DOMAIN svcs -> {"white", "grey", "black"}] /\ \A n \in DOMAIN svcs : c[n] = "white"
      /\ << >> \in Seq(DOMAIN svcs) /\ << >> \in Seq(SUBSET Nat)
  OBVIOUS
<1> HIDE DEF s, c
<1>3. s.color = c /\ s.path = << >> /\ s.left = << >> /\ s.names = DOMAIN svcs /\ s.out = << >>
  BY <1>1
<1>4. s \in SearchRow(svcs)
  BY <1>1, <1>2 DEF SearchRow
<1>5. Len(s.path) = 0 /\ Len(s.left) = 0 /\ 1..Len(s.path) = {} /\ 1..(Len(s.path) - 1) = {}
  BY <1>3
<1>6. Calls(svcs, s)
  BY <1>2, <1>3, <1>5 DEF Calls
<1>7. LookedAt(svcs, s, {}) /\ Tried(svcs, s, {})
  BY <1>3, <1>5 DEF LookedAt, Tried
<1>8. Finished(svcs, s)
  BY <1>2, <1>3 DEF Finished
<1>9. QED
  BY <1>3, <1>4, <1>6, <1>7, <1>8 DEF Marks, s

(* Marking a white service grey leaves fewer of them white.                 *)
LEMMA GreyIsFewer ==
    ASSUME NEW D, NEW s, NEW t, NEW n \in D, s.color \in [D -> {"white", "grey", "black"}],
           s.color[n] = "white", t.color = [s.color EXCEPT ![n] = "grey"]
    PROVE  Fewer(White(t), White(s))
<1>1. DOMAIN s.color = D /\ DOMAIN t.color = D /\ t.color[n] = "grey"
      /\ \A x \in D : x # n => t.color[x] = s.color[x]
  OBVIOUS
<1>2. White(t) \subseteq White(s) /\ n \in White(s) /\ n \notin White(t)
  BY <1>1 DEF White
<1>3. QED
  BY <1>2 DEF Fewer

(* A call of visit begins for a white service that the innermost call has   *)
(* just looked at, or that the outer loop has just reached.                 *)
LEMMA EnterMarks ==
    ASSUME NEW svcs, Graph(svcs), NEW s \in SearchRow(svcs), NEW n \in DOMAIN svcs,
           s.out = << >>, Calls(svcs, s), LookedAt(svcs, s, {n}), Finished(svcs, s), Tried(svcs, s, {n}),
           s.color[n] = "white", Called(svcs, s, n)
    PROVE  LET t == enter(svcs, s, n) IN
           /\ Marks(svcs, t) /\ t.names = s.names
           /\ Fewer(White(t), White(s))
<1> DEFINE t == enter(svcs, s, n)
           L == Len(s.path)
<1>1. /\ s.color \in [DOMAIN svcs -> {"white", "grey", "black"}] /\ s.path \in Seq(DOMAIN svcs)
      /\ s.left \in Seq(SUBSET Nat) /\ L \in Nat /\ Len(s.left) = L
      /\ svcs[n].depends \in SUBSET Nat
  BY DEF SearchRow, Calls, Graph
<1>2. /\ t.color = [s.color EXCEPT ![n] = "grey"] /\ t.path = Append(s.path, n)
      /\ t.left = Append(s.left, svcs[n].depends) /\ t.names = s.names /\ t.out = s.out
  BY DEF enter, SearchRow
<1>3. t \in SearchRow(svcs)
  <2>1. t = [s EXCEPT !.color = [s.color EXCEPT ![n] = "grey"], !.path = Append(s.path, n),
                      !.left = Append(s.left, svcs[n].depends)]
    BY DEF enter, SearchRow
  <2>2. /\ [s.color EXCEPT ![n] = "grey"] \in [DOMAIN svcs -> {"white", "grey", "black"}]
        /\ Append(s.path, n) \in Seq(DOMAIN svcs)
        /\ Append(s.left, svcs[n].depends) \in Seq(SUBSET Nat)
    BY <1>1
  <2> HIDE DEF t
  <2>3. QED
    BY <2>1, <2>2, Zenon DEF SearchRow
<1> HIDE DEF t
<1>4. /\ Len(t.path) = L + 1 /\ Len(t.left) = L + 1
      /\ \A k \in 1..L : t.path[k] = s.path[k] /\ t.left[k] = s.left[k]
      /\ t.path[L + 1] = n /\ t.left[L + 1] = svcs[n].depends
  BY <1>1, <1>2
<1>5. /\ \A x \in DOMAIN svcs : x # n => t.color[x] = s.color[x]
      /\ t.color[n] = "grey"
  BY <1>1, <1>2
<1>6. \A k \in 1..(L + 1) : k \in 1..L \/ k = L + 1
  BY <1>1
<1>7. \A k \in 1..L : s.path[k] \in DOMAIN svcs /\ s.color[s.path[k]] = "grey" /\ s.path[k] # n
  BY <1>1 DEF Calls
<1> HIDE DEF L
<1>8. Calls(svcs, t)
  <2>1. \A k \in 1..(L + 1) : t.color[t.path[k]] = "grey" /\ t.left[k] \subseteq svcs[t.path[k]].depends
    <3>1. \A k \in 1..L : s.left[k] \subseteq svcs[s.path[k]].depends
      BY DEF Calls, L
    <3>2. QED
      BY <1>4, <1>5, <1>6, <1>7, <3>1
  <2>2. ASSUME NEW k \in 1..(L + 1), NEW l \in 1..(L + 1), t.path[k] = t.path[l] PROVE k = l
    <3>1. k \in 1..L /\ l \in 1..L => k = l
      BY <1>4, <2>2 DEF Calls, L
    <3>2. QED
      BY <1>4, <1>6, <1>7, <2>2, <3>1
  <2>3. ASSUME NEW x \in DOMAIN svcs, t.color[x] = "grey" PROVE \E k \in 1..(L + 1) : t.path[k] = x
    <3>1. CASE x = n
      BY <1>1, <1>4, <3>1 DEF L
    <3>2. CASE x # n
      <4>1. PICK k \in 1..L : s.path[k] = x
        BY <1>5, <2>3, <3>2 DEF Calls, L
      <4>2. k \in 1..(L + 1)
        BY <1>1 DEF L
      <4>3. QED
        BY <1>4, <4>1, <4>2
    <3>3. QED
      BY <3>1, <3>2
  <2>4. ASSUME NEW k \in 1..L PROVE t.path[k + 1] \in svcs[t.path[k]].depends
    <3>1. CASE k = L
      <4>1. s.path # << >> /\ L > 0
        BY <1>1, <3>1 DEF L
      <4>2. n \in svcs[s.path[L]].depends
        BY <4>1 DEF Called, L
      <4>3. QED
        BY <1>4, <3>1, <4>2
    <3>2. CASE k # L
      <4>1. k \in 1..(L - 1) /\ k + 1 \in 1..L
        BY <1>1, <3>2 DEF L
      <4>2. s.path[k + 1] \in svcs[s.path[k]].depends
        BY <4>1 DEF Calls, L
      <4>3. QED
        BY <1>4, <4>1, <4>2
    <3>3. QED
      BY <3>1, <3>2
  <2>5. (L + 1) - 1 = L
    BY <1>1 DEF L
  <2>6. QED
    BY <1>4, <2>1, <2>2, <2>3, <2>4, <2>5 DEF Calls
<1>9. LookedAt(svcs, t, {})
  <2> SUFFICES ASSUME NEW k \in 1..(L + 1), NEW x \in (svcs[t.path[k]].depends \cap DOMAIN svcs) \ t.left[k]
               PROVE  t.color[x] = "black" \/ (k < L + 1 /\ x = t.path[k + 1])
    BY <1>4, Zenon DEF LookedAt
  <2>1. CASE k = L + 1
    BY <1>4, <2>1
  <2>2. CASE k \in 1..L
    <3>1. s.color[x] = "black" \/ (k < L /\ x = s.path[k + 1]) \/ (k = L /\ x = n)
      BY <1>4, <2>2 DEF LookedAt, L
    <3>2. CASE s.color[x] = "black"
      BY <1>5, <3>2
    <3>3. CASE k < L /\ x = s.path[k + 1]
      <4>1. k + 1 \in 1..L /\ k < L + 1
        BY <1>1, <2>2, <3>3 DEF L
      <4>2. QED
        BY <1>4, <3>3, <4>1
    <3>4. CASE k = L /\ x = n
      BY <1>1, <1>4, <3>4 DEF L
    <3>5. QED
      BY <3>1, <3>2, <3>3, <3>4
  <2>3. QED
    BY <1>6, <2>1, <2>2
<1>10. Finished(svcs, t)
  <2>1. \A x \in DOMAIN svcs : t.color[x] = "black" <=> s.color[x] = "black"
    BY <1>5
  <2>2. {x \in DOMAIN svcs : t.color[x] = "black"} = {x \in DOMAIN svcs : s.color[x] = "black"}
    BY <2>1
  <2>3. QED
    BY <2>1, <2>2 DEF Finished
<1>11. Tried(svcs, t, {})
  BY <1>2, <1>5 DEF Tried
<1>12. Fewer(White(t), White(s))
  BY <1>1, <1>2, GreyIsFewer
<1>13. QED
  BY <1>2, <1>3, <1>8, <1>9, <1>10, <1>11, <1>12 DEF Marks, t

(* The innermost call looks at one more of its dependencies.                *)
LEMMA LookMarks ==
    ASSUME NEW svcs, Graph(svcs), NEW s, Marks(svcs, s), s.path # << >>,
           NEW dep \in s.left[Len(s.left)]
    PROVE  LET t == [s EXCEPT !.left[Len(s.left)] = @ \ {dep}] IN
           /\ t \in SearchRow(svcs) /\ t.color = s.color /\ t.path = s.path
           /\ t.names = s.names /\ t.out = << >>
           /\ t.left[Len(t.left)] = s.left[Len(s.left)] \ {dep}
           /\ Calls(svcs, t) /\ LookedAt(svcs, t, {dep}) /\ Finished(svcs, t) /\ Tried(svcs, t, {})
           /\ dep \notin DOMAIN svcs \/ s.color[dep] = "black" => Marks(svcs, t)
           /\ dep \in svcs[s.path[Len(s.path)]].depends
<1> DEFINE L == Len(s.path)
           new == [s.left EXCEPT ![L] = s.left[L] \ {dep}]
           t == [s EXCEPT !.left[Len(s.left)] = @ \ {dep}]
<1>1. /\ s \in SearchRow(svcs) /\ s.out = << >>
      /\ s.color \in [DOMAIN svcs -> {"white", "grey", "black"}] /\ s.path \in Seq(DOMAIN svcs)
      /\ s.left \in Seq(SUBSET Nat) /\ L \in Nat /\ Len(s.left) = L /\ L # 0
  BY DEF Marks, SearchRow, Calls
<1>2. L \in 1..L /\ s.left[L] \in SUBSET Nat
  BY <1>1
<1>3. t = [s EXCEPT !.left = new]
  BY <1>1
<1> HIDE DEF t
<1>4. /\ new \in Seq(SUBSET Nat) /\ Len(new) = L /\ new[L] = s.left[L] \ {dep}
      /\ \A k \in 1..L : k # L => new[k] = s.left[k]
  BY <1>1, <1>2
<1> HIDE DEF new
<1>5. t \in SearchRow(svcs)
  BY <1>1, <1>3, <1>4, Zenon DEF SearchRow
<1>6. /\ t.color = s.color /\ t.path = s.path /\ t.left = new /\ t.names = s.names /\ t.out = << >>
  BY <1>1, <1>3 DEF SearchRow
<1>7. dep \in svcs[s.path[L]].depends
  BY <1>1, <1>2 DEF Marks, Calls
<1> HIDE DEF L
<1>8. \A k \in 1..L : new[k] \subseteq s.left[k]
  BY <1>4
<1>9. Calls(svcs, t)
  <2>1. Calls(svcs, s)
    BY DEF Marks
  <2>2. \A k \in 1..L : s.color[s.path[k]] = "grey" /\ new[k] \subseteq svcs[s.path[k]].depends
    BY <1>8, <2>1 DEF Calls, L
  <2>3. QED
    BY <1>4, <1>6, <2>1, <2>2 DEF Calls, L
<1>10. LookedAt(svcs, t, {dep})
  <2> SUFFICES ASSUME NEW k \in 1..L, NEW x \in (svcs[s.path[k]].depends \cap DOMAIN svcs) \ new[k]
               PROVE  s.color[x] = "black" \/ (k < L /\ x = s.path[k + 1]) \/ (k = L /\ x \in {dep})
    BY <1>6, Zenon DEF LookedAt, L
  <2>1. CASE x \in s.left[k]
    <3>1. k = L /\ x = dep
      BY <1>4, <2>1
    <3>2. QED
      BY <3>1
  <2>2. CASE x \notin s.left[k]
    BY <2>2 DEF Marks, LookedAt, L
  <2>3. QED
    BY <2>1, <2>2
<1>11. Finished(svcs, t) /\ Tried(svcs, t, {})
  BY <1>6 DEF Marks, Finished, Tried
<1>12. ASSUME dep \notin DOMAIN svcs \/ s.color[dep] = "black" PROVE LookedAt(svcs, t, {})
  BY <1>6, <1>10, <1>12 DEF LookedAt
<1>13. QED
  BY <1>1, <1>4, <1>5, <1>6, <1>7, <1>9, <1>10, <1>11, <1>12 DEF Marks, L, t

(* A call of visit ends: its service depends on black ones only, so that it *)
(* is in no set of services that wait for each other.                       *)
LEMMA LeaveMarks ==
    ASSUME NEW svcs, Graph(svcs), NEW s, Marks(svcs, s), s.path # << >>,
           s.left[Len(s.left)] = {}
    PROVE  /\ Marks(svcs, leave(s)) /\ leave(s).names = s.names
           /\ Len(leave(s).path) < Len(s.path)
           /\ \A n \in DOMAIN svcs : leave(s).color[n] = "white" <=> s.color[n] = "white"
<1> DEFINE L == Len(s.path)
           n == s.path[L]
           p == SubSeq(s.path, 1, L - 1)
           q == SubSeq(s.left, 1, L - 1)
           c == [s.color EXCEPT ![n] = "black"]
           t == leave(s)
<1>1. /\ s \in SearchRow(svcs) /\ s.out = << >>
      /\ s.color \in [DOMAIN svcs -> {"white", "grey", "black"}] /\ s.path \in Seq(DOMAIN svcs)
      /\ s.left \in Seq(SUBSET Nat) /\ L \in Nat /\ Len(s.left) = L /\ L # 0
  BY DEF Marks, SearchRow, Calls
<1>2. L \in 1..L /\ n \in DOMAIN svcs
  BY <1>1
<1>3. t = [s EXCEPT !.color = c, !.path = p, !.left = q]
  BY <1>1 DEF leave, Front, Last, SearchRow
<1> HIDE DEF t
<1>4. /\ p \in Seq(DOMAIN svcs) /\ Len(p) = L - 1 /\ \A k \in 1..(L - 1) : p[k] = s.path[k]
      /\ q \in Seq(SUBSET Nat) /\ Len(q) = L - 1 /\ \A k \in 1..(L - 1) : q[k] = s.left[k]
  BY <1>1
<1>5. /\ c \in [DOMAIN svcs -> {"white", "grey", "black"}] /\ c[n] = "black"
      /\ \A x \in DOMAIN svcs : x # n => c[x] = s.color[x]
  BY <1>1, <1>2
<1> HIDE DEF p, q, c
<1>6. t \in SearchRow(svcs)
  BY <1>1, <1>3, <1>4, <1>5, Zenon DEF SearchRow
<1>7. t.color = c /\ t.path = p /\ t.left = q /\ t.names = s.names /\ t.out = << >>
  BY <1>1, <1>3 DEF SearchRow
<1>8. /\ Calls(svcs, s) /\ LookedAt(svcs, s, {}) /\ Finished(svcs, s) /\ Tried(svcs, s, {})
      /\ s.color[n] = "grey"
  BY <1>2 DEF Marks, Calls
<1>9. \A k \in 1..(L - 1) : k \in 1..L /\ s.path[k] \in DOMAIN svcs /\ s.path[k] # n
  <2>1. \A k \in 1..(L - 1) : k \in 1..L /\ k # L
    BY <1>1
  <2>2. \A k, l \in 1..L : s.path[k] = s.path[l] => k = l
    BY <1>8 DEF Calls
  <2>3. \A k \in 1..(L - 1) : s.path[k] # s.path[L]
    BY <1>2, <2>1, <2>2
  <2>4. \A k \in 1..L : s.path[k] \in DOMAIN svcs
    BY <1>1
  <2>5. QED
    BY <2>1, <2>3, <2>4
<1>10. \A dep \in svcs[n].depends \cap DOMAIN svcs : s.color[dep] = "black" /\ dep # n
  <2>1. \A dep \in (svcs[s.path[L]].depends \cap DOMAIN svcs) \ s.left[L] : s.color[dep] = "black"
    BY <1>1, <1>2, <1>8 DEF LookedAt
  <2>2. QED
    BY <1>1, <1>8, <2>1
<1> HIDE DEF L, n
<1>11. Calls(svcs, t)
  <2>1. \A k \in 1..(L - 1) : c[p[k]] = "grey" /\ q[k] \subseteq svcs[p[k]].depends
    <3>1. \A k \in 1..(L - 1) : s.color[s.path[k]] = "grey" /\ s.left[k] \subseteq svcs[s.path[k]].depends
      BY <1>8, <1>9 DEF Calls, L
    <3>2. QED
      BY <1>4, <1>5, <1>9, <3>1
  <2>2. \A k, l \in 1..(L - 1) : p[k] = p[l] => k = l
    BY <1>4, <1>8, <1>9 DEF Calls, L
  <2>3. ASSUME NEW x \in DOMAIN svcs, c[x] = "grey" PROVE \E k \in 1..(L - 1) : p[k] = x
    <3>1. x # n /\ s.color[x] = "grey"
      BY <1>5, <2>3
    <3>2. PICK k \in 1..L : s.path[k] = x
      BY <1>8, <3>1 DEF Calls, L
    <3>3. k # L
      BY <3>1, <3>2 DEF n
    <3>4. k \in 1..(L - 1)
      BY <1>1, <3>2, <3>3 DEF L
    <3>5. QED
      BY <1>4, <3>2, <3>4
  <2>4. ASSUME NEW k \in 1..(L - 1 - 1) PROVE p[k + 1] \in svcs[p[k]].depends
    <3>1. k \in 1..(L - 1) /\ k + 1 \in 1..(L - 1)
      BY <1>1 DEF L
    <3>2. s.path[k + 1] \in svcs[s.path[k]].depends
      BY <1>8, <3>1 DEF Calls, L
    <3>3. QED
      BY <1>4, <3>1, <3>2
  <2>5. QED
    BY <1>4, <1>7, <2>1, <2>2, <2>3, <2>4 DEF Calls
<1>12. LookedAt(svcs, t, {})
  <2> SUFFICES ASSUME NEW k \in 1..(L - 1), NEW x \in (svcs[p[k]].depends \cap DOMAIN svcs) \ q[k]
               PROVE  c[x] = "black" \/ (k < L - 1 /\ x = p[k + 1])
    BY <1>4, <1>7, Zenon DEF LookedAt
  <2>1. s.color[x] = "black" \/ (k < L /\ x = s.path[k + 1])
    BY <1>4, <1>8, <1>9, Zenon DEF LookedAt, L
  <2>2. CASE s.color[x] = "black"
    BY <1>5, <2>2
  <2>3. CASE k < L /\ x = s.path[k + 1] /\ k # L - 1
    <3>1. k < L - 1 /\ k + 1 \in 1..(L - 1)
      BY <1>1, <2>3 DEF L
    <3>2. QED
      BY <1>4, <2>3, <3>1
  <2>4. CASE x = s.path[k + 1] /\ k = L - 1
    <3>1. k + 1 = L
      BY <1>1, <2>4 DEF L
    <3>2. QED
      BY <1>5, <2>4, <3>1 DEF n
  <2>5. QED
    BY <2>1, <2>2, <2>3, <2>4
<1>13. Finished(svcs, t)
  <2> DEFINE B == {x \in DOMAIN svcs : s.color[x] = "black"}
  <2>1. {x \in DOMAIN svcs : c[x] = "black"} \subseteq B \cup {n} /\ n \notin B
    BY <1>5, <1>8
  <2>2. ASSUME NEW x \in DOMAIN svcs, c[x] = "black", NEW y \in svcs[x].depends \cap DOMAIN svcs
        PROVE  c[y] = "black"
    <3>1. CASE x = n
      BY <1>5, <1>10, <3>1
    <3>2. CASE x # n
      BY <1>5, <1>8, <2>2, <3>2 DEF Finished
    <3>3. QED
      BY <3>1, <3>2
  <2>3. ASSUME NEW S \in SUBSET {x \in DOMAIN svcs : c[x] = "black"}, S # {},
               \A x \in S : svcs[x].depends \cap S # {}
        PROVE  FALSE
    <3> DEFINE R == S \ {n}
    <3>1. R \in SUBSET B
      BY <2>1, <2>3
    <3>2. R # {}
      <4>1. CASE n \in S
        <5>1. PICK y \in svcs[n].depends : y \in S
          BY <2>3, <4>1
        <5>2. y \in DOMAIN svcs
          BY <2>3, <5>1
        <5>3. QED
          BY <1>10, <5>1, <5>2
      <4>2. CASE n \notin S
        BY <2>3, <4>2
      <4>3. QED
        BY <4>1, <4>2
    <3>3. ASSUME NEW x \in R PROVE svcs[x].depends \cap R # {}
      <4>1. PICK y \in svcs[x].depends : y \in S
        BY <2>3
      <4>2. y \in DOMAIN svcs /\ x \in DOMAIN svcs /\ s.color[x] = "black"
        BY <2>3, <3>1, <4>1
      <4>3. s.color[y] = "black"
        BY <1>8, <4>1, <4>2 DEF Finished
      <4>4. QED
        BY <1>8, <4>1, <4>3
    <3> HIDE DEF R, B
    <3>4. \E x \in R : svcs[x].depends \cap R = {}
      BY <1>8, <3>1, <3>2 DEF Finished, B
    <3>5. QED
      BY <3>3, <3>4
  <2> HIDE DEF B
  <2>4. QED
    BY <1>7, <2>2, <2>3 DEF Finished
<1>14. \A x \in DOMAIN svcs : c[x] = "white" <=> s.color[x] = "white"
  BY <1>5, <1>8
<1>15. Tried(svcs, t, {})
  BY <1>7, <1>8, <1>14 DEF Tried
<1>16. L - 1 < L
  BY <1>1 DEF L
<1>17. QED
  BY <1>4, <1>6, <1>7, <1>11, <1>12, <1>13, <1>14, <1>15, <1>16 DEF Marks, t, L

(* A grey service met again closes the path from its own call on.           *)
LEMMA GreyCloses ==
    ASSUME NEW svcs, Graph(svcs), NEW s, Marks(svcs, s), NEW dep \in DOMAIN svcs,
           s.path # << >>, s.color[dep] = "grey", dep \in svcs[s.path[Len(s.path)]].depends
    PROVE  ClosedPath(svcs, closed(s.path, dep))
<1> DEFINE L == Len(s.path)
           at == {k \in 1..L : s.path[k] = dep}
           f == First(at)
           r == SubSeq(s.path, f, L)
           c == Append(r, dep)
<1>1. s.path \in Seq(DOMAIN svcs) /\ L \in Nat /\ L # 0 /\ Calls(svcs, s)
  BY DEF Marks, SearchRow
<1>2. at # {} /\ at \in SUBSET Nat
  BY <1>1 DEF Calls
<1>3. f \in 1..L /\ s.path[f] = dep
  BY <1>2, FirstIsOne, Zenon
<1>4. closed(s.path, dep) = c
  BY <1>2, Zenon DEF closed
<1> HIDE DEF f, at
<1>5. /\ r \in Seq(DOMAIN svcs) /\ Len(r) = L - f + 1
      /\ \A k \in 1..(L - f + 1) : r[k] = s.path[f + k - 1]
  BY <1>1, <1>3
<1> HIDE DEF r
<1>6. /\ c \in Seq(DOMAIN svcs) /\ Len(c) = L - f + 2 /\ c[L - f + 2] = dep
      /\ \A k \in 1..(L - f + 1) : c[k] = s.path[f + k - 1]
  <2>1. Len(r) + 1 = L - f + 2 /\ L - f + 1 \in Nat
    BY <1>1, <1>3, <1>5
  <2>2. Len(c) = Len(r) + 1 /\ c[Len(r) + 1] = dep /\ c \in Seq(DOMAIN svcs)
    BY <1>5
  <2>3. \A k \in 1..Len(r) : c[k] = r[k]
    BY <1>5
  <2>4. QED
    BY <1>5, <2>1, <2>2, <2>3
<1> HIDE DEF c, L
<1>7. L - f + 2 > 1 /\ 1 \in 1..(L - f + 1) /\ f + 1 - 1 = f /\ L - f + 2 - 1 = L - f + 1
  BY <1>1, <1>3
<1>8. c[1] = dep
  BY <1>3, <1>6, <1>7
<1>9. ASSUME NEW k \in 1..(L - f + 1) PROVE c[k + 1] \in svcs[c[k]].depends
  <2>1. CASE k = L - f + 1
    <3>1. k + 1 = L - f + 2 /\ f + k - 1 = L
      BY <1>1, <1>3, <2>1
    <3>2. QED
      BY <1>6, <3>1 DEF L
  <2>2. CASE k # L - f + 1
    <3>1. /\ k + 1 \in 1..(L - f + 1) /\ f + k - 1 \in 1..(L - 1)
          /\ f + (k + 1) - 1 = (f + k - 1) + 1
      BY <1>1, <1>3, <2>2
    <3>2. s.path[(f + k - 1) + 1] \in svcs[s.path[f + k - 1]].depends
      BY <1>1, <3>1, Zenon DEF Calls, L
    <3>3. QED
      BY <1>6, <3>1, <3>2
  <2>3. QED
    BY <2>1, <2>2
<1>10. Len(c) > 1 /\ Len(c) - 1 = L - f + 1
  BY <1>1, <1>3, <1>6, <1>7
<1>11. c[1] = c[Len(c)]
  BY <1>6, <1>8
<1>12. \A k \in 1..(Len(c) - 1) : c[k + 1] \in svcs[c[k]].depends
  BY <1>9, <1>10
<1>13. QED
  BY <1>4, <1>6, <1>10, <1>11, <1>12, Zenon DEF ClosedPath

(* One turn of the outer loop keeps the marks and advances.                 *)
LEMMA RootStep ==
    ASSUME NEW svcs, Graph(svcs), NEW s, Marks(svcs, s), s.path = << >>, s.names # {}
    PROVE  Marks(svcs, root(svcs, s)) /\ Advances(s, root(svcs, s))
<1> DEFINE n == First(s.names)
           u == [s EXCEPT !.names = s.names \ {n}]
<1>1. /\ s \in SearchRow(svcs) /\ s.out = << >> /\ s.names \in SUBSET DOMAIN svcs
      /\ s.color \in [DOMAIN svcs -> {"white", "grey", "black"}]
  BY DEF Marks, SearchRow
<1>2. n \in s.names /\ n \in DOMAIN svcs
  BY <1>1, FirstIsOne DEF Graph
<1>3. root(svcs, s) = IF s.color[n] = "white" THEN enter(svcs, u, n) ELSE u
  BY <1>1 DEF root, SearchRow
<1> HIDE DEF n
<1>4. u \in SearchRow(svcs)
  BY <1>1 DEF SearchRow
<1>5. u.color = s.color /\ u.path = s.path /\ u.left = s.left /\ u.out = s.out /\ u.names = s.names \ {n}
  BY <1>1 DEF SearchRow
<1> HIDE DEF u
<1>6. Calls(svcs, u) /\ LookedAt(svcs, u, {}) /\ Finished(svcs, u)
  BY <1>5 DEF Marks, Calls, LookedAt, Finished
<1>7. LookedAt(svcs, u, {n})
  BY <1>6 DEF LookedAt
<1>8. Tried(svcs, u, {n})
  BY <1>5 DEF Marks, Tried
<1>9. Fewer(u.names, s.names) /\ White(u) = White(s)
  BY <1>2, <1>5 DEF Fewer, White
<1>10. CASE s.color[n] = "white"
  <2> DEFINE t == enter(svcs, u, n)
  <2>1. u.out = << >> /\ Called(svcs, u, n) /\ u.color[n] = "white"
    BY <1>1, <1>5, <1>10 DEF Called
  <2>2. Marks(svcs, t) /\ Fewer(White(t), White(u))
    BY <1>2, <1>4, <1>6, <1>7, <1>8, <2>1, EnterMarks, Zenon
  <2> HIDE DEF t
  <2>3. Fewer(White(t), White(s))
    BY <1>9, <2>2
  <2>4. root(svcs, s) = t
    BY <1>3, <1>10 DEF t
  <2>5. QED
    BY <2>2, <2>3, <2>4 DEF Advances
<1>11. CASE s.color[n] # "white"
  <2>1. Tried(svcs, u, {})
    BY <1>5, <1>8, <1>11 DEF Tried
  <2>2. Marks(svcs, u) /\ Advances(s, u)
    BY <1>1, <1>4, <1>5, <1>6, <1>9, <2>1 DEF Marks, Advances
  <2>3. QED
    BY <1>3, <1>11, <2>2
<1>12. QED
  BY <1>10, <1>11

(* One turn of visit's loop advances; it keeps the marks, or reports a      *)
(* closed path of dependencies.                                             *)
LEMMA VisitStep ==
    ASSUME NEW svcs, Graph(svcs), NEW s, Marks(svcs, s), s.path # << >>
    PROVE  /\ Advances(s, visit(svcs, s))
           /\ visit(svcs, s).out = << >> => Marks(svcs, visit(svcs, s))
           /\ visit(svcs, s).out # << >> => ClosedPath(svcs, visit(svcs, s).out)
<1> DEFINE L == Len(s.left)
           dep == First(s.left[L])
           u == [s EXCEPT !.left[L] = @ \ {dep}]
<1>1. /\ s \in SearchRow(svcs) /\ s.out = << >> /\ s.path \in Seq(DOMAIN svcs)
      /\ s.color \in [DOMAIN svcs -> {"white", "grey", "black"}]
      /\ s.left \in Seq(SUBSET Nat) /\ L \in Nat /\ Len(s.path) = L /\ L # 0
  BY DEF Marks, SearchRow, Calls
<1>2. L \in 1..L /\ s.left[L] \in SUBSET Nat /\ Last(s.left) = s.left[L]
  BY <1>1 DEF Last
<1>3. CASE s.left[L] = {}
  <2> DEFINE t == leave(s)
  <2>1. visit(svcs, s) = t
    BY <1>2, <1>3 DEF visit
  <2>2. /\ Marks(svcs, t) /\ Len(t.path) < Len(s.path)
        /\ \A n \in DOMAIN svcs : t.color[n] = "white" <=> s.color[n] = "white"
    BY <1>3, LeaveMarks, Zenon
  <2> HIDE DEF t
  <2>3. t.out = << >> /\ DOMAIN t.color = DOMAIN svcs /\ DOMAIN s.color = DOMAIN svcs
    BY <1>1, <2>2 DEF Marks, SearchRow
  <2>4. White(t) = White(s)
    BY <2>2, <2>3 DEF White
  <2>5. Advances(s, t)
    BY <2>2, <2>4 DEF Advances
  <2>6. QED
    BY <2>1, <2>2, <2>3, <2>5
<1>4. CASE s.left[L] # {}
  <2>1. dep \in s.left[L]
    BY <1>2, <1>4, FirstIsOne
  <2>2. /\ u \in SearchRow(svcs) /\ u.color = s.color /\ u.path = s.path
        /\ u.names = s.names /\ u.out = << >>
        /\ u.left[Len(u.left)] = s.left[L] \ {dep}
        /\ Calls(svcs, u) /\ LookedAt(svcs, u, {dep}) /\ Finished(svcs, u) /\ Tried(svcs, u, {})
        /\ dep \notin DOMAIN svcs \/ s.color[dep] = "black" => Marks(svcs, u)
        /\ dep \in svcs[s.path[Len(s.path)]].depends
    BY <2>1, LookMarks, Zenon
  <2>3. /\ dep \notin DOMAIN svcs => visit(svcs, s) = u
        /\ dep \in DOMAIN svcs => visit(svcs, s) =
              CASE s.color[dep] = "grey" -> [u EXCEPT !.out = closed(s.path, dep)]
                [] s.color[dep] = "white" -> enter(svcs, u, dep)
                [] s.color[dep] = "black" -> u
    BY <1>2, <1>4, Zenon DEF visit
  <2> HIDE DEF u, dep, L
  <2>4. Fewer(Last(u.left), Last(s.left)) /\ White(u) = White(s)
    BY <1>2, <2>1, <2>2 DEF Fewer, White, Last
  <2>5. CASE dep \notin DOMAIN svcs \/ (dep \in DOMAIN svcs /\ s.color[dep] = "black")
    <3>1. visit(svcs, s) = u
      BY <2>3, <2>5
    <3>2. Advances(s, u)
      BY <2>2, <2>4 DEF Advances
    <3>3. QED
      BY <2>2, <2>5, <3>1, <3>2
  <2>6. CASE dep \in DOMAIN svcs /\ s.color[dep] = "grey"
    <3> DEFINE c == closed(s.path, dep)
               t == [u EXCEPT !.out = c]
    <3>1. visit(svcs, s) = t
      BY <2>3, <2>6
    <3>2. ClosedPath(svcs, c)
      BY <2>2, <2>6, GreyCloses
    <3> HIDE DEF c
    <3>3. t.out = c /\ t.color = u.color /\ t.path = u.path /\ t.left = u.left
      BY <2>2 DEF SearchRow
    <3> HIDE DEF t
    <3>4. c # << >>
      BY <3>2 DEF ClosedPath
    <3>5. White(t) = White(s)
      BY <2>4, <3>3 DEF White
    <3>6. Advances(s, t)
      BY <2>2, <2>4, <3>3, <3>5 DEF Advances
    <3>7. QED
      BY <3>1, <3>2, <3>3, <3>4, <3>6
  <2>7. CASE dep \in DOMAIN svcs /\ s.color[dep] = "white"
    <3> DEFINE t == enter(svcs, u, dep)
    <3>1. visit(svcs, s) = t
      BY <2>3, <2>7
    <3>2. Tried(svcs, u, {dep}) /\ u.color[dep] = "white" /\ Called(svcs, u, dep)
      BY <2>2, <2>7 DEF Tried, Called
    <3> HIDE DEF t
    <3>3. /\ u \in SearchRow(svcs) /\ u.out = << >> /\ Calls(svcs, u)
          /\ LookedAt(svcs, u, {dep}) /\ Finished(svcs, u)
      BY <2>2
    <3>4. Marks(svcs, t) /\ Fewer(White(t), White(u))
      BY <2>7, <3>2, <3>3, EnterMarks, Zenon DEF t
    <3>5. Fewer(White(t), White(s))
      BY <2>4, <3>4
    <3>6. t.out = << >>
      BY <3>4 DEF Marks
    <3>7. QED
      BY <3>1, <3>4, <3>5, <3>6 DEF Advances
  <2>8. QED
    BY <1>1, <2>5, <2>6, <2>7
<1>5. QED
  BY <1>3, <1>4

(* A search that ends without a cycle has marked every service black: no    *)
(* services wait for each other.                                            *)
LEMMA EndedFree ==
    ASSUME NEW svcs, NEW s, Marks(svcs, s), s.path = << >>, s.names = {}
    PROVE  ~Deadlocked(svcs)
<1>1. s.color \in [DOMAIN svcs -> {"white", "grey", "black"}] /\ 1..Len(s.path) = {}
  BY DEF Marks, SearchRow
<1>2. \A n \in DOMAIN svcs : s.color[n] = "black"
  BY <1>1 DEF Marks, Tried, Calls
<1>3. {n \in DOMAIN svcs : s.color[n] = "black"} = DOMAIN svcs
  BY <1>2, Zenon
<1>4. \A S \in SUBSET DOMAIN svcs : S # {} => \E n \in S : svcs[n].depends \cap S = {}
  BY <1>3 DEF Marks, Finished
<1>5. QED
  BY <1>4 DEF Deadlocked

(* The services of a closed path wait for each other.                       *)
LEMMA ClosedWaits ==
    ASSUME NEW svcs, NEW c, ClosedPath(svcs, c)
    PROVE  Deadlocked(svcs)
<1> DEFINE S == {c[k] : k \in 1..(Len(c) - 1)}
<1>1. /\ c \in Seq(DOMAIN svcs) /\ Len(c) \in Nat /\ Len(c) > 1 /\ c[1] = c[Len(c)]
      /\ \A k \in 1..(Len(c) - 1) : c[k + 1] \in svcs[c[k]].depends
  BY DEF ClosedPath
<1>2. 1 \in 1..(Len(c) - 1) /\ \A k \in 1..(Len(c) - 1) : k \in 1..Len(c)
  BY <1>1
<1>3. S \in SUBSET DOMAIN svcs /\ S # {}
  BY <1>1, <1>2
<1>4. ASSUME NEW n \in S PROVE svcs[n].depends \cap S # {}
  <2>1. PICK k \in 1..(Len(c) - 1) : n = c[k]
    OBVIOUS
  <2>2. CASE k + 1 \in 1..(Len(c) - 1)
    BY <1>1, <2>1, <2>2
  <2>3. CASE k + 1 = Len(c)
    BY <1>1, <1>2, <2>1, <2>3
  <2>4. QED
    BY <1>1, <2>2, <2>3
<1>5. QED
  BY <1>3, <1>4, Zenon DEF Deadlocked

-----------------------------------------------------------------------------
(* Manifests.                                                              *)

(* What Parse has checked of a document by the time it answers a spec.      *)
Accepted(d, cycle) ==
    /\ \A n \in DOMAIN d.svc : convertErrors(d.svc[n]) = {}
    /\ volumeErrors(d) = {}
    /\ validateGraph(Converted(d), cycle) = {} /\ cycle = << >>
    /\ consistent(d)

(* The answer is that of the document, and what is deployed is the answer   *)
(* under some configuration.                                                *)
ComposeInv ==
    /\ doc \in Document
    /\ res.ok => res = Parse(doc, search.out) /\ step \in {"parsed", "deployed"}
    /\ run.ok => res.ok /\ \E c \in Config : run = applyEnvConfig(res, c)

(* The search goes on, has found a cycle, or has found that there is none.  *)
SearchInv ==
    /\ step = "submitted" => search = NoSearch
    /\ step = "searching" /\ search.out = << >> => Marks(Converted(doc), search)
    /\ search.out # << >> => ClosedPath(Converted(doc), search.out)
    /\ res.ok => ~Deadlocked(Converted(doc))

(* A spec that Parse answers with has passed every check, and is made of    *)
(* the document's services and volumes.                                     *)
LEMMA ParseAccepts ==
    ASSUME NEW d, NEW cycle, Parse(d, cycle).ok
    PROVE  /\ Accepted(d, cycle)
           /\ Parse(d, cycle) = [ok |-> TRUE, services |-> Converted(d),
                          volumes |-> [v \in DOMAIN d.vols |-> volumeOwner(d, v)]]
<1> DEFINE svcs == Converted(d)
           of(n) == {<<n, f>> : f \in convertErrors(d.svc[n])}
           none == IF svcs = << >> THEN {<<0, "services">>} ELSE {}
           each == UNION {of(n) : n \in DOMAIN d.svc}
           errs == each
                   \cup volumeErrors(d) \cup validateGraph(svcs, cycle) \cup none
           good == [ok |-> TRUE, services |-> svcs,
                    volumes |-> [v \in DOMAIN d.vols |-> volumeOwner(d, v)]]
<1>1. Parse(d, cycle) = CASE preflight(d) # {} -> Refused(preflight(d))
                   [] preflight(d) = {} /\ errs # {} -> Refused(errs)
                   [] preflight(d) = {} /\ errs = {} /\ ~consistent(d) -> Refused({<<0, "load">>})
                   [] OTHER -> good
  BY DEF Parse, Converted
<1>2. \A x : Refused(x).ok = FALSE
  BY DEF Refused
<1>3. errs = {} => /\ \A n \in DOMAIN d.svc : convertErrors(d.svc[n]) = {}
                   /\ volumeErrors(d) = {}
                   /\ validateGraph(svcs, cycle) = {}
  <2>1. ASSUME NEW n \in DOMAIN d.svc, of(n) = {}
        PROVE  convertErrors(d.svc[n]) = {}
    BY <2>1, Zenon
  <2> HIDE DEF of, svcs, none
  <2>2. ASSUME NEW n \in DOMAIN d.svc PROVE of(n) \subseteq each
    OBVIOUS
  <2> HIDE DEF each
  <2>3. errs = {} => each = {} /\ volumeErrors(d) = {} /\ validateGraph(svcs, cycle) = {}
    OBVIOUS
  <2> HIDE DEF errs
  <2>4. QED
    BY <2>1, <2>2, <2>3
<1> HIDE DEF errs, good
<1>4. preflight(d) = {} /\ errs = {} /\ consistent(d) /\ Parse(d, cycle) = good
  BY <1>1, <1>2
<1>5. cycle = << >>
  <2>1. (IF cycle # << >> THEN {<<0, "depends_on">>} ELSE {}) \subseteq validateGraph(svcs, cycle)
    BY Zenon DEF validateGraph
  <2> HIDE DEF svcs
  <2>2. QED
    BY <1>3, <1>4, <2>1, Zenon
<1>6. QED
  BY <1>3, <1>4, <1>5 DEF Accepted, good

(* The checks of one service: it mounts named volumes only, and writes to   *)
(* none and takes no traffic unless its declaration allows it.              *)
LEMMA ServiceChecked ==
    ASSUME NEW s, convertErrors(s) = {}
    PROVE  /\ s.mounts = Named(s)
           /\ Writable(s) => ~convertService(s).swappable
           /\ convertService(s).ingress => convertService(s).swappable
<1> DEFINE mode == parseRolloutExtension(s)
           ing == parseIngressExtension(s)
<1>1. mountErrors(s) = {} /\ rolloutErrors(s) = {}
  BY DEF convertErrors
<1>2. s.mounts = Named(s)
  BY <1>1 DEF mountErrors
<1>3. /\ (IF mode \notin {"swap", "pin"} THEN {"rollout"} ELSE {}) = {}
      /\ (IF mode = "swap" /\ swapMounts(s) THEN {"rollout"} ELSE {}) = {}
      /\ (IF pinnedIngress(mode, ing) THEN {"rollout"} ELSE {}) = {}
  BY <1>1, Zenon DEF rolloutErrors
<1>4. mode \in {"swap", "pin"} /\ ~(mode = "swap" /\ swapMounts(s)) /\ ~pinnedIngress(mode, ing)
  BY <1>3
<1>5. convertService(s).swappable = (mode # "pin") /\ convertService(s).ingress = (ing = "port")
  BY DEF convertService
<1>6. QED
  BY <1>2, <1>4, <1>5, Zenon DEF swapMounts, pinnedIngress

(* Each declared volume of an accepted document is mounted by one service,  *)
(* the one volumeOwner names; and nothing else is mounted.                  *)
LEMMA VolumesChecked ==
    ASSUME NEW d \in Document, NEW cycle, Accepted(d, cycle)
    PROVE  /\ \A v \in DOMAIN d.vols : mountedBy(d, v) = {volumeOwner(d, v)}
           /\ \A n \in DOMAIN d.svc : \A x \in Named(d.svc[n]) : x.vol \in DOMAIN d.vols
<1>1. ASSUME NEW v \in DOMAIN d.vols PROVE mountedBy(d, v) = {volumeOwner(d, v)}
  <2> DEFINE M == mountedBy(d, v)
  <2>1. IsFiniteSet(DOMAIN d.svc) /\ DOMAIN d.svc \subseteq Nat
    BY DocumentAssumption
  <2>2. M \subseteq DOMAIN d.svc
    BY DEF mountedBy
  <2>3. IsFiniteSet(M) /\ M \subseteq Nat
    BY <2>1, <2>2, FS_Subset
  <2>4. misparsedVolumeNames(d) = {}
    <3>1. \A n \in DOMAIN d.svc : {x \in d.svc[n].mounts : x.kind = "drive"} = {}
      <4>1. \A n \in DOMAIN d.svc : d.svc[n].mounts = Named(d.svc[n])
        BY ServiceChecked DEF Accepted
      <4>2. QED
        BY <4>1 DEF Named
    <3>2. UNION {{x \in d.svc[n].mounts : x.kind = "drive"} : n \in DOMAIN d.svc} = {}
      BY <3>1
    <3>3. QED
      BY <3>2 DEF misparsedVolumeNames
  <2>5. ~(volumeCount(d, v) = 0 /\ v \notin misparsedVolumeNames(d)) /\ ~(volumeCount(d, v) > 1)
    BY Zenon DEF Accepted, volumeErrors
  <2>6. Cardinality(M) \in Nat /\ Cardinality(M) # 0 /\ ~(Cardinality(M) > 1)
    BY <2>3, <2>4, <2>5, FS_CardinalityType DEF volumeCount
  <2>7. Cardinality(M) = 1
    BY <2>6
  <2>8. PICK x : M = {x}
    BY <2>3, <2>7, FS_Singleton, Zenon
  <2>9. x \in Nat
    BY <2>3, <2>8
  <2> HIDE DEF M
  <2>10. (CHOOSE n \in M : \A k \in M : n <= k) = x
    BY <2>8, <2>9
  <2>11. QED
    BY <2>8, <2>10, Zenon DEF volumeOwner, M
<1>2. QED
  BY <1>1 DEF Accepted, consistent

(* A set of services with at most one member, counted as Parse counts it.   *)
LEMMA AtMostOne ==
    ASSUME NEW S, IsFiniteSet(S), ~(Cardinality(S) > 1)
    PROVE  Cardinality(S) <= 1
BY FS_CardinalityType

(* What an accepted answer says, in terms of the document.                  *)
LEMMA AnswerSpec ==
    ASSUME ComposeInv, res.ok
    PROVE  /\ Accepted(doc, search.out) /\ doc \in Document
           /\ res.services = Converted(doc)
           /\ DOMAIN res.services = DOMAIN doc.svc
           /\ res.volumes = [v \in DOMAIN doc.vols |-> volumeOwner(doc, v)]
           /\ \A n \in DOMAIN doc.svc :
                 /\ res.services[n] = convertService(doc.svc[n])
                 /\ res.services[n].mounts = Named(doc.svc[n])
<1>1. res = Parse(doc, search.out) /\ doc \in Document /\ Parse(doc, search.out).ok
  BY DEF ComposeInv
<1>2. Accepted(doc, search.out)
  BY <1>1, ParseAccepts
<1>3. res = [ok |-> TRUE, services |-> Converted(doc),
             volumes |-> [v \in DOMAIN doc.vols |-> volumeOwner(doc, v)]]
  BY <1>1, ParseAccepts, Zenon
<1>4. /\ res.services = Converted(doc)
      /\ res.volumes = [v \in DOMAIN doc.vols |-> volumeOwner(doc, v)]
  BY <1>3
<1>5. \A n \in DOMAIN doc.svc : convertService(doc.svc[n]).mounts = Named(doc.svc[n])
  BY DEF convertService
<1>6. DOMAIN res.services = DOMAIN doc.svc
  BY <1>4 DEF Converted
<1>7. \A n \in DOMAIN doc.svc : res.services[n] = convertService(doc.svc[n])
  BY <1>4 DEF Converted
<1>8. QED
  BY <1>1, <1>2, <1>4, <1>5, <1>6, <1>7

(* A volume has one writer, and that one is not run twice.                  *)
LEMMA AnswerOneWriter == ComposeInv => OneWriter
<1> SUFFICES ASSUME ComposeInv, res.ok, NEW v \in MountedVolumes(res)
             PROVE  LET writers == {n \in DOMAIN res.services :
                                      \E x \in res.services[n].mounts : x.vol = v /\ ~x.ro} IN
                    Cardinality(writers) <= 1 /\ \A n \in writers : Copies(res.services[n]) = 1
  BY DEF OneWriter
<1> DEFINE writers == {n \in DOMAIN res.services :
                         \E x \in res.services[n].mounts : x.vol = v /\ ~x.ro}
<1>1. v \in DOMAIN doc.vols
  <2>1. PICK n \in DOMAIN res.services : v \in {x.vol : x \in res.services[n].mounts}
    BY DEF MountedVolumes
  <2>2. PICK x \in Named(doc.svc[n]) : v = x.vol
    BY <2>1, AnswerSpec
  <2>3. QED
    BY <2>1, <2>2, AnswerSpec, VolumesChecked
<1>2. writers \subseteq mountedBy(doc, v)
  BY AnswerSpec DEF mountedBy
<1>3. mountedBy(doc, v) = {volumeOwner(doc, v)}
  BY <1>1, AnswerSpec, VolumesChecked
<1>4. writers = {} \/ writers = {volumeOwner(doc, v)}
  BY <1>2, <1>3
<1>5. ASSUME NEW n \in writers PROVE Copies(res.services[n]) = 1
  <2>1. Writable(doc.svc[n]) /\ n \in DOMAIN doc.svc
    BY AnswerSpec DEF Writable
  <2>2. convertErrors(doc.svc[n]) = {}
    BY <2>1, AnswerSpec, Zenon DEF Accepted
  <2>3. ~res.services[n].swappable
    BY <2>1, <2>2, AnswerSpec, ServiceChecked
  <2>4. QED
    BY <2>3 DEF Copies
<1> HIDE DEF writers
<1>6. Cardinality(writers) <= 1
  <2>1. CASE writers = {}
    <3>1. Cardinality(writers) = 0
      BY <2>1, FS_EmptySet
    <3>2. QED
      BY <3>1
  <2>2. CASE writers = {volumeOwner(doc, v)}
    <3>1. Cardinality(writers) = 1
      BY <2>2, FS_Singleton
    <3>2. QED
      BY <3>1
  <2>3. QED
    BY <1>4, <2>1, <2>2
<1>7. QED
  BY <1>5, <1>6 DEF writers

(* The volumes are those mounted, each by its owner.                        *)
LEMMA AnswerVolumes == ComposeInv => VolumesOwned
<1> SUFFICES ASSUME ComposeInv, res.ok
             PROVE  /\ DOMAIN res.volumes = MountedVolumes(res)
                    /\ \A v \in DOMAIN res.volumes : mountedBy(doc, v) = {res.volumes[v]}
                    /\ ~\E v \in DOMAIN res.volumes : <<"volume", v>> \in DurableReasons(res)
  BY DEF VolumesOwned
<1>1. DOMAIN res.volumes = DOMAIN doc.vols
  BY AnswerSpec
<1>2. \A v \in DOMAIN doc.vols : res.volumes[v] = volumeOwner(doc, v)
  BY AnswerSpec
<1>3. \A v \in DOMAIN doc.vols : mountedBy(doc, v) = {res.volumes[v]}
  BY <1>2, AnswerSpec, VolumesChecked
<1>4. ASSUME NEW v \in DOMAIN doc.vols PROVE v \in MountedVolumes(res)
  <2>1. PICK n \in mountedBy(doc, v) : TRUE
    BY <1>3
  <2>2. n \in DOMAIN res.services /\ v \in {x.vol : x \in res.services[n].mounts}
    BY <2>1, AnswerSpec DEF mountedBy
  <2>3. QED
    BY <2>2 DEF MountedVolumes
<1>5. ASSUME NEW v \in MountedVolumes(res) PROVE v \in DOMAIN doc.vols
  <2>1. PICK n \in DOMAIN res.services : v \in {x.vol : x \in res.services[n].mounts}
    BY DEF MountedVolumes
  <2>2. PICK x \in Named(doc.svc[n]) : v = x.vol
    BY <2>1, AnswerSpec
  <2>3. QED
    BY <2>1, <2>2, AnswerSpec, VolumesChecked
<1>6. DOMAIN res.volumes = MountedVolumes(res)
  BY <1>1, <1>4, <1>5
<1>7. \A v : <<"volume", v>> \notin DurableReasons(res)
  <2>1. DOMAIN res.volumes \ MountedVolumes(res) = {}
    BY <1>6
  <2>2. QED
    BY <2>1 DEF DurableReasons
<1>8. QED
  BY <1>1, <1>3, <1>6, <1>7, Zenon

(* One service at most takes traffic, and it is run twice in a rollout.     *)
LEMMA AnswerIngress == ComposeInv => IngressSwaps
<1> SUFFICES ASSUME ComposeInv, res.ok
             PROVE  /\ Cardinality(IngressServices(res)) <= 1
                    /\ IngressServices(res) \cap PinnedServices(res) = {}
  BY DEF IngressSwaps
<1> DEFINE svcs == Converted(doc)
           S == {n \in DOMAIN svcs : svcs[n].ingress}
<1>1. IngressServices(res) = S
  BY AnswerSpec DEF IngressServices
<1>2. IsFiniteSet(S)
  <2>1. S \subseteq DOMAIN doc.svc
    BY DEF Converted
  <2>2. QED
    BY <2>1, AnswerSpec, DocumentAssumption, FS_Subset
<1>3. ~(Cardinality(S) > 1)
  <2>1. (IF Cardinality(S) > 1 THEN {<<0, "ingress">>} ELSE {}) \subseteq validateGraph(svcs, search.out)
    BY Zenon DEF validateGraph
  <2>2. validateGraph(svcs, search.out) = {}
    BY AnswerSpec DEF Accepted
  <2> HIDE DEF S, svcs
  <2>3. QED
    BY <2>1, <2>2, Zenon
<1>4. ASSUME NEW n \in DOMAIN doc.svc PROVE res.services[n].ingress => res.services[n].swappable
  <2>1. convertErrors(doc.svc[n]) = {}
    BY AnswerSpec, Zenon DEF Accepted
  <2>2. QED
    BY <2>1, AnswerSpec, ServiceChecked
<1> HIDE DEF S
<1>5. Cardinality(S) <= 1
  BY <1>2, <1>3, AtMostOne
<1>6. IngressServices(res) \cap PinnedServices(res) = {}
  BY <1>4, AnswerSpec DEF IngressServices, PinnedServices
<1>7. QED
  BY <1>1, <1>5, <1>6

(* The overlay of one service: only unset variables are added, and none     *)
(* that is a secret.                                                        *)
LEMMA OverlayService ==
    ASSUME NEW s, NEW c
    PROVE  LET was == convertService(s)
               is == overlay(was, c) IN
           /\ is.secretEnv = was.secretEnv
           /\ DOMAIN is.env \cap is.secretEnv = {}
           /\ \A v \in DOMAIN was.env : is.env[v] = was.env[v]
           /\ is = [was EXCEPT !.env = is.env]
<1> DEFINE was == convertService(s)
           all == Under(c, was.env)
           env == [v \in DOMAIN all \ was.secretEnv |-> all[v]]
           is == overlay(was, c)
<1>1. is = [was EXCEPT !.env = env]
  BY DEF overlay
<1>2. /\ was = [env |-> plainEnv(s), secretEnv |-> secretEnv(s),
                swappable |-> parseRolloutExtension(s) # "pin",
                ingress |-> parseIngressExtension(s) = "port",
                depends |-> s.deps, mounts |-> Named(s)]
  BY DEF convertService
<1> HIDE DEF was, env, is
<1>3. was.env = plainEnv(s) /\ was.secretEnv = secretEnv(s)
  BY <1>2
<1>4. is.env = env /\ is.secretEnv = was.secretEnv
  BY <1>1, <1>2
<1>5. DOMAIN plainEnv(s) \cap secretEnv(s) = {}
  BY DEF plainEnv, secretEnv
<1>6. DOMAIN env \cap was.secretEnv = {}
  BY DEF env
<1>7. \A v \in DOMAIN was.env : v \in DOMAIN all \ was.secretEnv /\ all[v] = was.env[v]
  BY <1>3, <1>5 DEF Under
<1>8. \A v \in DOMAIN was.env : env[v] = was.env[v]
  BY <1>7 DEF env
<1>9. QED
  BY <1>1, <1>4, <1>6, <1>8 DEF is, was

(* What is deployed is what was accepted, but for what the author left out. *)
LEMMA DeployedKeeps == ComposeInv => OverlayKeeps
<1> SUFFICES ASSUME ComposeInv, run.ok PROVE OverlayKeeps
  BY DEF OverlayKeeps
<1>1. res.ok
  BY DEF ComposeInv
<1>2. PICK c \in Config : run = applyEnvConfig(res, c)
  BY DEF ComposeInv
<1> DEFINE svcs == [n \in DOMAIN res.services |-> overlay(res.services[n], c)]
<1>3. res = [ok |-> TRUE, services |-> Converted(doc),
             volumes |-> [v \in DOMAIN doc.vols |-> volumeOwner(doc, v)]]
  BY <1>1, ParseAccepts DEF ComposeInv
<1>4. run.services = svcs
  BY <1>2, <1>3 DEF applyEnvConfig
<1>5. /\ DOMAIN run.services = DOMAIN res.services
      /\ \A n \in DOMAIN res.services : run.services[n] = overlay(res.services[n], c)
  BY <1>4
<1>6. \A n \in DOMAIN res.services : res.services[n] = convertService(doc.svc[n])
  BY <1>1, AnswerSpec
<1>7. ASSUME NEW n \in DOMAIN res.services
      PROVE  LET was == res.services[n]
                 is == run.services[n] IN
             /\ is.secretEnv = was.secretEnv
             /\ DOMAIN is.env \cap is.secretEnv = {}
             /\ \A v \in DOMAIN was.env : is.env[v] = was.env[v]
             /\ is = [was EXCEPT !.env = is.env]
  BY <1>5, <1>6, OverlayService
<1>8. RequiredSecrets(run) = RequiredSecrets(res)
  <2>1. \A n \in DOMAIN res.services : run.services[n].secretEnv = res.services[n].secretEnv
    BY <1>7, Zenon
  <2>2. {run.services[n].secretEnv : n \in DOMAIN run.services}
        = {res.services[n].secretEnv : n \in DOMAIN res.services}
    BY <1>5, <2>1
  <2>3. QED
    BY <2>2, Zenon DEF RequiredSecrets
<1>9. QED
  BY <1>5, <1>7, <1>8 DEF OverlayKeeps

(* The services of a document are a graph over numbers.                     *)
LEMMA DocumentGraph == ASSUME NEW d \in Document PROVE Graph(Converted(d))
<1>1. DOMAIN d.svc \subseteq Nat /\ \A n \in DOMAIN d.svc : d.svc[n].deps \subseteq Nat
  BY DocumentAssumption
<1>2. \A n \in DOMAIN d.svc : Converted(d)[n].depends = d.svc[n].deps
  BY DEF Converted, convertService
<1>3. DOMAIN Converted(d) = DOMAIN d.svc
  BY DEF Converted
<1>4. QED
  BY <1>1, <1>2, <1>3 DEF Graph

(* Each step of the search keeps it, and advances.                          *)
LEMMA SearchStep ==
    ASSUME ComposeInv, SearchInv, findCycle
    PROVE  /\ Advances(search, search')
           /\ search'.out = << >> => Marks(Converted(doc), search')
           /\ search'.out # << >> => ClosedPath(Converted(doc), search'.out)
<1> DEFINE svcs == Converted(doc)
<1>1. Graph(svcs)
  BY DocumentGraph DEF ComposeInv
<1>2. search.out = << >> /\ (search.path # << >> \/ search.names # {}) /\ Marks(svcs, search)
  BY DEF findCycle, Searched, SearchInv
<1> HIDE DEF svcs
<1>3. CASE search.path = << >>
  <2>1. search' = root(svcs, search)
    BY <1>3 DEF findCycle, svcs
  <2>2. Marks(svcs, search') /\ Advances(search, search')
    BY <1>1, <1>2, <1>3, <2>1, RootStep
  <2>3. search'.out = << >>
    BY <2>2 DEF Marks
  <2>4. QED
    BY <2>2, <2>3 DEF svcs
<1>4. CASE search.path # << >>
  <2>1. search' = visit(svcs, search)
    BY <1>4 DEF findCycle, svcs
  <2>2. QED
    BY <1>1, <1>2, <1>4, <2>1, VisitStep DEF svcs
<1>5. QED
  BY <1>3, <1>4

(* The two invariants are inductive together.                               *)
LEMMA AlwaysParsed == ComposeSpec => [](ComposeInv /\ SearchInv)
<1>1. ComposeInit => ComposeInv /\ SearchInv
  BY DEF ComposeInit, ComposeInv, SearchInv, Refused, NoSearch
<1>2. ComposeInv /\ SearchInv /\ [ComposeNext]_composeVars => ComposeInv' /\ SearchInv'
  <2> SUFFICES ASSUME ComposeInv, SearchInv, [ComposeNext]_composeVars
               PROVE  ComposeInv' /\ SearchInv'
    OBVIOUS
  <2>1. CASE handleCreateStackVersion /\ preflight(doc) # {}
    <3>1. /\ step = "submitted" /\ step' = "parsed" /\ res' = Parse(doc, << >>)
          /\ search' = search /\ doc' = doc /\ run' = run
      BY <2>1 DEF handleCreateStackVersion
    <3>2. search.out = << >> /\ ~res.ok /\ ~run.ok
      BY <3>1 DEF ComposeInv, SearchInv, NoSearch
    <3>3. Parse(doc, << >>) = Refused(preflight(doc))
      BY <2>1 DEF Parse
    <3>4. ~res'.ok
      BY <3>1, <3>3 DEF Refused
    <3>5. QED
      BY <3>1, <3>2, <3>4 DEF ComposeInv, SearchInv
  <2>2. CASE handleCreateStackVersion /\ preflight(doc) = {}
    <3>1. /\ step = "submitted" /\ step' = "searching" /\ res' = res
          /\ search' = start(Converted(doc)) /\ doc' = doc /\ run' = run
      BY <2>2 DEF handleCreateStackVersion
    <3>2. ~res.ok /\ ~run.ok
      BY <3>1 DEF ComposeInv
    <3>3. Marks(Converted(doc), search')
      BY <3>1, DocumentGraph, StartMarks DEF ComposeInv
    <3>4. search'.out = << >>
      BY <3>3 DEF Marks
    <3>5. QED
      BY <3>1, <3>2, <3>3, <3>4 DEF ComposeInv, SearchInv
  <2>3. CASE findCycle
    <3>1. step = "searching" /\ UNCHANGED <<doc, res, run, step>>
      BY <2>3 DEF findCycle
    <3>2. ~res.ok /\ ~run.ok
      BY <3>1 DEF ComposeInv
    <3>3. /\ search'.out = << >> => Marks(Converted(doc), search')
          /\ search'.out # << >> => ClosedPath(Converted(doc), search'.out)
      BY <2>3, SearchStep
    <3>4. QED
      BY <3>1, <3>2, <3>3 DEF ComposeInv, SearchInv
  <2>4. CASE answerParse
    <3>1. /\ step = "searching" /\ Searched(search) /\ step' = "parsed"
          /\ res' = Parse(doc, search.out) /\ UNCHANGED <<doc, search, run>>
      BY <2>4 DEF answerParse
    <3>2. ~run.ok
      BY <3>1 DEF ComposeInv
    <3>3. ASSUME res'.ok PROVE ~Deadlocked(Converted(doc))
      <4>1. search.out = << >>
        BY <3>1, <3>3, ParseAccepts DEF Accepted
      <4>2. search.path = << >> /\ search.names = {} /\ Marks(Converted(doc), search)
        BY <3>1, <4>1 DEF Searched, SearchInv
      <4>3. QED
        BY <4>2, EndedFree
    <3>4. QED
      BY <3>1, <3>2, <3>3 DEF ComposeInv, SearchInv
  <2>5. CASE \E c \in Config, have \in SecretKeys : handleCreateDeployment(c, have)
    BY <2>5 DEF ComposeInv, SearchInv, handleCreateDeployment
  <2>6. CASE UNCHANGED composeVars
    BY <2>6 DEF ComposeInv, SearchInv, composeVars
  <2>7. QED
    BY <2>1, <2>2, <2>3, <2>4, <2>5, <2>6 DEF ComposeNext
<1>3. QED
  BY <1>1, <1>2, PTL DEF ComposeSpec

(* What Parse accepts and applyEnvConfig completes can be rolled out beside *)
(* itself: one writer a volume, volumes owned by one service, one service   *)
(* at most behind the proxy, and the author's variables kept.               *)
THEOREM AcceptedIsDeployable == ComposeSpec => []Deployable
<1>1. ComposeInv => Deployable
  BY AnswerOneWriter, AnswerVolumes, AnswerIngress, DeployedKeeps DEF Deployable
<1>2. QED
  BY <1>1, AlwaysParsed, PTL

(* findCycle finds a cycle exactly when some services wait for each other,  *)
(* reports a closed path, and Parse accepts no spec whose services do.      *)
THEOREM CyclesAreFound == ComposeSpec => []FindsDeadlock
<1>1. ComposeInv /\ SearchInv => FindsDeadlock
  <2> SUFFICES ASSUME ComposeInv, SearchInv PROVE FindsDeadlock
    OBVIOUS
  <2> DEFINE svcs == Converted(doc)
             cycle == search.out
  <2>1. ASSUME cycle # << >>
        PROVE  /\ Deadlocked(svcs) /\ Len(cycle) > 1 /\ cycle[1] = Last(cycle)
               /\ \A k \in 1..(Len(cycle) - 1) : cycle[k + 1] \in svcs[cycle[k]].depends
    <3>1. ClosedPath(svcs, cycle)
      BY <2>1 DEF SearchInv
    <3>2. Deadlocked(svcs)
      BY <3>1, ClosedWaits
    <3>3. QED
      BY <3>1, <3>2 DEF ClosedPath, Last
  <2>2. ASSUME step = "searching", Searched(search), cycle = << >> PROVE ~Deadlocked(svcs)
    BY <2>2, EndedFree DEF Searched, SearchInv
  <2>3. res.ok => ~Deadlocked(svcs)
    BY DEF SearchInv
  <2>4. QED
    BY <2>1, <2>2, <2>3 DEF FindsDeadlock
<1>2. QED
  BY <1>1, AlwaysParsed, PTL

(* The search ends: in each of its steps there are fewer services it has    *)
(* not marked, fewer calls in progress, fewer dependencies left to look at, *)
(* or fewer names left to try, in that order of weight.                     *)
THEOREM SearchEnds == ComposeSpec => SearchAdvances
<1>1. ASSUME ComposeInv, SearchInv, findCycle
      PROVE  \/ Fewer(Unmarked', Unmarked)
             \/ /\ Unmarked' = Unmarked
                /\ \/ Len(search'.path) < Len(search.path)
                   \/ /\ search'.path = search.path /\ search.path # << >>
                      /\ Fewer(Last(search'.left), Last(search.left))
                   \/ /\ search'.path = << >> /\ search.path = << >>
                      /\ Fewer(search'.names, search.names)
  BY <1>1, SearchStep, Zenon DEF Advances, White, Unmarked
<1>2. QED
  BY <1>1, AlwaysParsed, PTL DEF ComposeSpec, SearchAdvances

====
