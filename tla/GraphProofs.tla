----------------------------- MODULE GraphProofs -----------------------------
(***************************************************************************)
(* Theorems about SpecGraph, for every set of changes and every graph over *)
(* it: what find_cycles reports, that it explains why the runner stopped,  *)
(* and that search and scheduling end.                                     *)
(***************************************************************************)
EXTENDS SpecGraph, SequenceTheorems, WellFoundedInduction, TLAPS

-----------------------------------------------------------------------------
(* Least elements and rotations.                                           *)

LEMMA LeastNumber ==
  ASSUME NEW S \in SUBSET Nat, S # {}
  PROVE  Min(S) \in S /\ \A n \in S : Min(S) <= n
<1>1. PICK m \in S : \A n \in S : <<n, m>> \notin OpToRel(<, Nat)
  BY NatLessThanWellFounded, WFMin, Zenon
<1>2. ASSUME NEW n \in S
      PROVE  m <= n
  <2>1. ASSUME n < m PROVE <<n, m>> \in OpToRel(<, Nat)
    <3>1. <<n, m>> \in Nat \X Nat /\ <<n, m>>[1] < <<n, m>>[2]
      BY <2>1
    <3>2. QED
      BY <3>1, Zenon DEF OpToRel
  <2>2. ~(n < m)
    BY <1>1, <2>1, Zenon
  <2>3. QED
    BY <2>2
<1>3. QED
  BY <1>1, <1>2, Zenon DEF Min

(* A sequence told from its k-th element on.                               *)
Rotated(c, k) == SubSeq(c, k, Len(c)) \o SubSeq(c, 1, k - 1)

LEMMA RotatedElements ==
  ASSUME NEW S, NEW c \in Seq(S), NEW k \in 1..Len(c)
  PROVE  /\ Rotated(c, k) \in Seq(S) /\ Len(Rotated(c, k)) = Len(c)
         /\ \A j \in 1..Len(c) :
              Rotated(c, k)[j] = IF j <= Len(c) - k + 1 THEN c[k + j - 1] ELSE c[j - (Len(c) - k + 1)]
<1> DEFINE L == Len(c)
           back == SubSeq(c, k, L)
           front == SubSeq(c, 1, k - 1)
<1>1. L \in Nat /\ k \in Nat /\ 1 <= k /\ k <= L
  OBVIOUS
<1>2. back \in Seq(S) /\ Len(back) = L - k + 1 /\ \A j \in 1..(L - k + 1) : back[j] = c[k + j - 1]
  BY <1>1, SubSeqProperties
<1>3. front \in Seq(S) /\ Len(front) = k - 1 /\ \A j \in 1..(k - 1) : front[j] = c[j]
  BY <1>1, SubSeqProperties
<1>4. Rotated(c, k) = back \o front
  BY DEF Rotated
<1> HIDE DEF back, front, L
<1>5. /\ back \o front \in Seq(S) /\ Len(back \o front) = Len(back) + Len(front)
      /\ \A j \in 1..(Len(back) + Len(front)) :
           (back \o front)[j] = IF j <= Len(back) THEN back[j] ELSE front[j - Len(back)]
  BY <1>2, <1>3, ConcatProperties, Zenon
<1>6. Len(back) + Len(front) = L
  BY <1>1, <1>2, <1>3
<1>7. ASSUME NEW j \in 1..L
      PROVE  (back \o front)[j] = IF j <= L - k + 1 THEN c[k + j - 1] ELSE c[j - (L - k + 1)]
  <2>1. CASE j <= L - k + 1
    BY <1>1, <1>2, <1>5, <1>6, <2>1
  <2>2. CASE ~(j <= L - k + 1)
    <3>1. j - (L - k + 1) \in 1..(k - 1)
      BY <1>1, <2>2
    <3>2. QED
      BY <1>1, <1>2, <1>3, <1>5, <1>6, <2>2, <3>1
  <2>3. QED
    BY <2>1, <2>2
<1>8. QED
  BY <1>4, <1>5, <1>6, <1>7 DEF L

(* The steps of c lead along declared dependencies and back to the start.  *)
Ring(c) ==
  /\ \A i \in DOMAIN c : c[Follower(c, i)] \in Predecessors(c[i])
  /\ IsInjective(c)

LEMMA RotatedFollower ==
  ASSUME NEW L \in Nat, NEW k \in 1..L, NEW j \in 1..L
  PROVE  LET At(i) == IF i <= L - k + 1 THEN k + i - 1 ELSE i - (L - k + 1)
         IN  At(IF j = L THEN 1 ELSE j + 1) = IF At(j) = L THEN 1 ELSE At(j) + 1
<1> DEFINE At(i) == IF i <= L - k + 1 THEN k + i - 1 ELSE i - (L - k + 1)
<1>1. CASE j = L
  <2>1. At(1) = k
    OBVIOUS
  <2>2. CASE k = 1
    <3>1. At(j) = L
      BY <1>1, <2>2
    <3>2. QED
      BY <1>1, <2>1, <2>2, <3>1
  <2>3. CASE k # 1
    <3>1. At(j) = k - 1 /\ k - 1 # L
      BY <1>1, <2>3
    <3>2. QED
      BY <1>1, <2>1, <3>1
  <2>4. QED
    BY <2>2, <2>3
<1>2. CASE j # L
  <2>1. CASE j + 1 <= L - k + 1
    <3>1. At(j) = k + j - 1 /\ At(j + 1) = k + j /\ k + j - 1 # L
      BY <2>1
    <3>2. QED
      BY <1>2, <3>1
  <2>2. CASE j = L - k + 1
    <3>1. At(j) = L /\ At(j + 1) = 1
      BY <2>2
    <3>2. QED
      BY <1>2, <3>1
  <2>3. CASE j > L - k + 1
    <3>1. At(j) = j - (L - k + 1) /\ At(j + 1) = j + 1 - (L - k + 1) /\ j - (L - k + 1) # L
      BY <2>3
    <3>2. QED
      BY <1>2, <3>1
  <2>4. QED
    BY <2>1, <2>2, <2>3
<1>3. QED
  BY <1>1, <1>2

(* A rotation of a ring is a ring of the same elements.                    *)
LEMMA RotatedKeeps ==
  ASSUME NEW S, NEW c \in Seq(S), NEW k \in 1..Len(c), Ring(c)
  PROVE  /\ ToSet(Rotated(c, k)) = ToSet(c) /\ Ring(Rotated(c, k))
         /\ Rotated(c, k)[1] = c[k]
<1> DEFINE L == Len(c)
           r == Rotated(c, k)
           At(j) == IF j <= L - k + 1 THEN k + j - 1 ELSE j - (L - k + 1)
<1>1. L \in Nat /\ k \in Nat /\ 1 <= k /\ k <= L /\ DOMAIN c = 1..L
  OBVIOUS
<1>2. r \in Seq(S) /\ Len(r) = L /\ DOMAIN r = 1..L /\ \A j \in 1..L : r[j] = c[At(j)]
  <2>1. r \in Seq(S) /\ Len(r) = L
    BY RotatedElements
  <2>2. DOMAIN r = 1..L
    BY <2>1
  <2>3. ASSUME NEW j \in 1..L PROVE r[j] = c[At(j)]
    BY RotatedElements
  <2>4. QED
    BY <2>1, <2>2, <2>3
<1> HIDE DEF r
<1>3. \A j \in 1..L : At(j) \in 1..L
  BY <1>1
<1>4. \A i, j \in 1..L : At(i) = At(j) => i = j
  BY <1>1
<1>5. \A i \in 1..L : \E j \in 1..L : At(j) = i
  <2>1. TAKE i \in 1..L
  <2>2. CASE i >= k
    <3>1. i - k + 1 \in 1..L /\ At(i - k + 1) = i
      BY <1>1, <2>2
    <3>2. QED
      BY <3>1
  <2>3. CASE i < k
    <3>1. i + (L - k + 1) \in 1..L /\ At(i + (L - k + 1)) = i
      BY <1>1, <2>3
    <3>2. QED
      BY <3>1
  <2>4. QED
    BY <1>1, <2>2, <2>3
<1>6. \A j \in 1..L : At(IF j = L THEN 1 ELSE j + 1) = IF At(j) = L THEN 1 ELSE At(j) + 1
  BY <1>1, RotatedFollower
<1>7. At(1) = k
  BY <1>1
<1> HIDE DEF At
<1>8. ToSet(r) = ToSet(c)
  <2>1. ASSUME NEW j \in 1..L PROVE r[j] \in ToSet(c)
    BY <1>1, <1>2, <1>3 DEF ToSet
  <2>2. ASSUME NEW i \in 1..L PROVE c[i] \in ToSet(r)
    <3>1. PICK j \in 1..L : At(j) = i
      BY <1>5
    <3>2. QED
      BY <1>2, <3>1 DEF ToSet
  <2>3. QED
    BY <1>1, <1>2, <2>1, <2>2 DEF ToSet
<1>9. IsInjective(r)
  BY <1>1, <1>2, <1>3, <1>4 DEF Ring, IsInjective
<1>10. ASSUME NEW j \in DOMAIN r
       PROVE  r[Follower(r, j)] \in Predecessors(r[j])
  <2>1. j \in 1..L /\ Follower(r, j) \in 1..L
    BY <1>1, <1>2 DEF Follower
  <2>2. At(Follower(r, j)) = Follower(c, At(j))
    BY <1>2, <1>6, <2>1 DEF Follower
  <2>3. r[j] = c[At(j)] /\ r[Follower(r, j)] = c[Follower(c, At(j))] /\ At(j) \in DOMAIN c
    BY <1>1, <1>2, <1>3, <2>1, <2>2
  <2>4. QED
    BY <2>3 DEF Ring
<1>11. r[1] = c[k]
  BY <1>1, <1>2, <1>7
<1>12. QED
  BY <1>8, <1>9, <1>10, <1>11 DEF Ring, r

(* A ring of numbers, told from its smallest one, is a cycle.              *)
LEMMA NormalizedIsCycle ==
  ASSUME NEW S \in SUBSET Nat, NEW c \in Seq(S), c # <<>>, Ring(c)
  PROVE  Normalized(c) \in Seq(S) /\ IsCycle(Normalized(c)) /\ ToSet(Normalized(c)) = ToSet(c)
<1> DEFINE k == CHOOSE j \in DOMAIN c : c[j] = Min(ToSet(c))
<1>1. DOMAIN c = 1..Len(c) /\ Len(c) \in Nat /\ Len(c) # 0
  OBVIOUS
<1>2. ToSet(c) \in SUBSET Nat /\ ToSet(c) # {}
  <2>1. c[1] \in ToSet(c)
    BY <1>1 DEF ToSet
  <2>2. \A j \in DOMAIN c : c[j] \in S
    BY <1>1
  <2>3. QED
    BY <2>1, <2>2 DEF ToSet
<1>3. Min(ToSet(c)) \in ToSet(c)
  BY <1>2, LeastNumber
<1>4. k \in DOMAIN c /\ c[k] = Min(ToSet(c))
  BY <1>3 DEF ToSet
<1>5. Normalized(c) = Rotated(c, k)
  BY DEF Normalized, Rotated
<1> HIDE DEF k
<1>6. k \in 1..Len(c)
  BY <1>1, <1>4
<1>7. Rotated(c, k) \in Seq(S)
  BY <1>6, RotatedElements
<1>8. /\ ToSet(Rotated(c, k)) = ToSet(c) /\ Ring(Rotated(c, k))
      /\ Rotated(c, k)[1] = c[k]
  BY <1>6, RotatedKeeps
<1>9. QED
  BY <1>4, <1>5, <1>7, <1>8 DEF IsCycle, Ring

-----------------------------------------------------------------------------
(* The search.                                                             *)

(* The type invariant of the search.                                       *)
GraphTypeOK ==
  /\ Active \subseteq Changes
  /\ declared \in [Active -> SUBSET Changes]
  /\ color \in [Active -> 0..2]
  /\ todo \in [Active -> SUBSET Active]
  /\ stack \in Seq(Active)
  /\ found \subseteq Seq(Active)

(* The stack is a path along dependencies and holds the open changes once. *)
StackIsPath ==
  /\ IsInjective(stack)
  /\ \A i \in 1..(Len(stack) - 1) : stack[i + 1] \in Predecessors(stack[i])
  /\ \A n \in Active : color[n] = 1 <=> n \in ToSet(stack)
  /\ \A n \in Active : todo[n] \subseteq Predecessors(n)

(* A dependency that has been looked at was left, lies next on the stack,  *)
(* or belongs to a change that stands in a reported cycle.                 *)
OnStack(n, m) == \E i \in 1..(Len(stack) - 1) : stack[i] = n /\ stack[i + 1] = m

LookedAtIsSettled ==
  \A n \in Active : \A m \in (Predecessors(n) \cap Active) \ todo[n] :
    color[m] = 2 \/ n \in InCycles \/ OnStack(n, m)

(* A set in which everything depends on a member of it, and of which the   *)
(* search has left a change, has a change in a reported cycle.             *)
Circular(R) == R \subseteq Active /\ \A n \in R : Predecessors(n) \cap R # {}

LeftIsReported ==
  \A R \in SUBSET Active :
    Circular(R) /\ (\E n \in R : color[n] = 2) => R \cap InCycles # {}

CyclesAreReal == \A c \in found : IsCycle(c)

StopsLast == stop # "none" => stack = <<>> /\ Unseen = {}

GraphInv ==
  /\ GraphTypeOK /\ StackIsPath /\ LookedAtIsSettled /\ LeftIsReported
  /\ CyclesAreReal /\ StopsLast /\ BlockersAreNamed

LEMMA GraphInitInv ==
  ASSUME GraphInit
  PROVE  GraphInv
<1>1. PICK act \in ActiveSets :
        /\ declared \in [act -> SUBSET Changes]
        /\ color = [n \in act |-> 0]
  BY DEF GraphInit
<1>2. Active = act /\ act \subseteq Changes
  BY <1>1 DEF Active, ActiveSets
<1>3. stack = <<>> /\ found = {} /\ stop = "none" /\ todo = [n \in Active |-> Predecessors(n) \cap Active]
  BY DEF GraphInit
<1>4. Len(stack) = 0 /\ ToSet(stack) = {} /\ DOMAIN stack = {}
  BY <1>3 DEF ToSet
<1>5. GraphTypeOK
  BY <1>1, <1>2, <1>3 DEF GraphTypeOK
<1>6. StackIsPath
  BY <1>1, <1>2, <1>3, <1>4 DEF StackIsPath, IsInjective
<1>7. LookedAtIsSettled
  BY <1>3 DEF LookedAtIsSettled
<1>8. LeftIsReported
  BY <1>1, <1>2 DEF LeftIsReported, Circular
<1>9. CyclesAreReal /\ StopsLast /\ BlockersAreNamed
  BY <1>3 DEF CyclesAreReal, StopsLast, BlockersAreNamed
<1>10. QED
  BY <1>5, <1>6, <1>7, <1>8, <1>9 DEF GraphInv

(* The change on top of the stack is open, and the runner has not stopped. *)
LEMMA TopIsOpen ==
  ASSUME GraphInv, Searching
  PROVE  /\ stack \in Seq(Active) /\ Len(stack) \in Nat /\ Len(stack) # 0
         /\ Last(stack) = stack[Len(stack)] /\ Last(stack) \in Active
         /\ color[Last(stack)] = 1 /\ stop = "none"
<1>1. stack \in Seq(Active) /\ Len(stack) \in Nat /\ Len(stack) # 0
  BY DEF GraphInv, GraphTypeOK, Searching
<1>2. Last(stack) = stack[Len(stack)] /\ Last(stack) \in Active /\ Last(stack) \in ToSet(stack)
  BY <1>1 DEF Last, ToSet
<1>3. color[Last(stack)] = 1
  BY <1>2 DEF GraphInv, StackIsPath
<1>4. stop = "none"
  BY DEF GraphInv, StopsLast, Searching
<1>5. QED
  BY <1>1, <1>2, <1>3, <1>4

LEMMA NextDepIsDeclared ==
  ASSUME GraphInv, Searching, todo[Last(stack)] # {}
  PROVE  NextDep \in todo[Last(stack)] /\ NextDep \in Active /\ NextDep \in Predecessors(Last(stack))
<1>1. Last(stack) \in Active
  BY TopIsOpen
<1>2. todo[Last(stack)] \subseteq Active /\ Active \subseteq Changes
  BY <1>1 DEF GraphInv, GraphTypeOK
<1>3. todo[Last(stack)] \in SUBSET Nat
  BY <1>2, GraphAssumption
<1>4. NextDep \in todo[Last(stack)]
  BY <1>3, LeastNumber DEF NextDep
<1>5. QED
  BY <1>1, <1>2, <1>4 DEF GraphInv, StackIsPath

(* The graph is read once.                                                 *)
LEMMA SameGraph ==
  ASSUME UNCHANGED declared
  PROVE  Active' = Active /\ \A n : Predecessors(n)' = Predecessors(n)
BY DEF Active, Predecessors, GraphErrors

(* Opening n, which lies next on the stack.                                *)
LEMMA EntersKeeps ==
  ASSUME GraphInv, NEW n \in Active, color[n] = 0, Enters(n), UNCHANGED declared,
         Searching => n \in Predecessors(Last(stack)),
         todo' \in [Active -> SUBSET Active], \A k \in Active : todo'[k] \subseteq todo[k]
  PROVE  /\ stack' \in Seq(Active) /\ color' \in [Active -> 0..2] /\ StackIsPath'
         /\ Len(stack') = Len(stack) + 1
         /\ \A i \in 1..Len(stack) : stack'[i] = stack[i]
         /\ stack'[Len(stack) + 1] = n
<1>1. Active' = Active /\ \A m : Predecessors(m)' = Predecessors(m)
  BY SameGraph
<1>2. stack \in Seq(Active) /\ color \in [Active -> 0..2] /\ Len(stack) \in Nat
  BY DEF GraphInv, GraphTypeOK
<1>3. stack' = Append(stack, n) /\ color' = [color EXCEPT ![n] = 1]
  BY DEF Enters
<1>4. /\ stack' \in Seq(Active) /\ Len(stack') = Len(stack) + 1
      /\ \A i \in 1..Len(stack) : stack'[i] = stack[i]
      /\ stack'[Len(stack) + 1] = n
  BY <1>2, <1>3
<1>5. color' \in [Active -> 0..2]
  BY <1>2, <1>3
<1>6. n \notin ToSet(stack)
  BY <1>2 DEF GraphInv, StackIsPath
<1>7. ToSet(stack') = ToSet(stack) \cup {n}
  <2>1. DOMAIN stack = 1..Len(stack) /\ DOMAIN stack' = 1..(Len(stack) + 1)
    BY <1>2, <1>4
  <2>2. ASSUME NEW i \in DOMAIN stack' PROVE stack'[i] \in ToSet(stack) \cup {n}
    <3>1. CASE i = Len(stack) + 1
      BY <1>4, <3>1
    <3>2. CASE i # Len(stack) + 1
      <4>1. i \in DOMAIN stack /\ stack'[i] = stack[i]
        BY <1>2, <1>4, <2>1, <3>2
      <4>2. QED
        BY <4>1 DEF ToSet
    <3>3. QED
      BY <3>1, <3>2
  <2>3. ASSUME NEW i \in DOMAIN stack PROVE stack[i] \in ToSet(stack')
    <3>1. i \in DOMAIN stack' /\ stack'[i] = stack[i]
      BY <1>2, <1>4, <2>1
    <3>2. QED
      BY <3>1 DEF ToSet
  <2>4. n \in ToSet(stack')
    <3>1. Len(stack) + 1 \in DOMAIN stack'
      BY <1>2, <2>1
    <3>2. QED
      BY <1>4, <3>1 DEF ToSet
  <2>5. QED
    BY <2>2, <2>3, <2>4 DEF ToSet
<1>8. IsInjective(stack')
  <2>1. DOMAIN stack = 1..Len(stack) /\ DOMAIN stack' = 1..(Len(stack) + 1)
    BY <1>2, <1>4
  <2>2. \A i \in 1..Len(stack) : stack[i] # n
    BY <1>6, <2>1 DEF ToSet
  <2>3. \A i, j \in 1..Len(stack) : stack[i] = stack[j] => i = j
    BY <2>1 DEF GraphInv, StackIsPath, IsInjective
  <2>4. \A i, j \in 1..(Len(stack) + 1) : stack'[i] = stack'[j] => i = j
    BY <1>2, <1>4, <2>2, <2>3
  <2>5. QED
    BY <2>1, <2>4 DEF IsInjective
<1>9. ASSUME NEW i \in 1..(Len(stack') - 1)
      PROVE  stack'[i + 1] \in Predecessors(stack'[i])
  <2>1. CASE i = Len(stack)
    <3>1. Searching /\ Last(stack) = stack[i]
      BY <1>2, <2>1, TopIsOpen DEF Searching
    <3>2. QED
      BY <1>2, <1>4, <2>1, <3>1
  <2>2. CASE i # Len(stack)
    <3>1. i \in 1..(Len(stack) - 1) /\ i + 1 \in 1..Len(stack) /\ i \in 1..Len(stack)
      BY <1>2, <1>4, <2>2
    <3>2. stack[i + 1] \in Predecessors(stack[i])
      BY <3>1 DEF GraphInv, StackIsPath
    <3>3. QED
      BY <1>4, <3>1, <3>2
  <2>3. QED
    BY <2>1, <2>2
<1>10. \A m \in Active : color'[m] = 1 <=> m \in ToSet(stack')
  BY <1>2, <1>3, <1>7 DEF GraphInv, StackIsPath
<1>11. \A m \in Active : todo'[m] \subseteq Predecessors(m)
  BY DEF GraphInv, StackIsPath
<1>12. StackIsPath'
  BY <1>1, <1>8, <1>9, <1>10, <1>11 DEF StackIsPath
<1>13. QED
  BY <1>4, <1>5, <1>12

(* Once a change is only opened or looked at, what was left stays reported. *)
LEMMA LeftStays ==
  ASSUME GraphInv, UNCHANGED declared, found \subseteq found',
         \A n \in Active : color'[n] = 2 => color[n] = 2
  PROVE  LeftIsReported' /\ InCycles \subseteq InCycles'
<1>1. Active' = Active /\ \A m : Predecessors(m)' = Predecessors(m)
  BY SameGraph
<1>2. InCycles \subseteq InCycles'
  BY DEF InCycles
<1>3. ASSUME NEW R \in SUBSET Active, Circular(R)', \E n \in R : color'[n] = 2
      PROVE  R \cap InCycles' # {}
  <2>1. Circular(R)
    BY <1>1, <1>3 DEF Circular
  <2>2. \E n \in R : color[n] = 2
    BY <1>3
  <2>3. R \cap InCycles # {}
    BY <2>1, <2>2 DEF GraphInv, LeftIsReported
  <2>4. QED
    BY <1>2, <2>3
<1>4. QED
  BY <1>1, <1>2, <1>3 DEF LeftIsReported

LEMMA VisitsRootKeeps ==
  ASSUME GraphInv, VisitsRoot
  PROVE  GraphInv'
<1> DEFINE n == Min(Unseen)
<1>1. UNCHANGED declared /\ UNCHANGED <<completed, todo, found, stop>> /\ ~Searching /\ Enters(n)
  BY DEF VisitsRoot
<1>2. Active' = Active /\ \A m : Predecessors(m)' = Predecessors(m)
  BY <1>1, SameGraph
<1>3. n \in Active /\ color[n] = 0
  <2>1. Unseen \in SUBSET Nat /\ Unseen # {}
    BY GraphAssumption DEF GraphInv, GraphTypeOK, Unseen, VisitsRoot
  <2>2. n \in Unseen
    BY <2>1, LeastNumber
  <2>3. QED
    BY <2>2 DEF Unseen
<1> HIDE DEF n
<1>4. todo' \in [Active -> SUBSET Active] /\ \A k \in Active : todo'[k] \subseteq todo[k]
  BY <1>1 DEF GraphInv, GraphTypeOK
<1>5. stack' \in Seq(Active) /\ color' \in [Active -> 0..2] /\ StackIsPath'
  BY <1>1, <1>3, <1>4, EntersKeeps
<1>6. GraphTypeOK'
  BY <1>1, <1>2, <1>4, <1>5 DEF GraphInv, GraphTypeOK
<1>7. color' = [color EXCEPT ![n] = 1] /\ color \in [Active -> 0..2]
  BY <1>1 DEF Enters, GraphInv, GraphTypeOK
<1>8. LeftIsReported' /\ InCycles \subseteq InCycles'
  <2>1. \A m \in Active : color'[m] = 2 => color[m] = 2
    BY <1>7
  <2>2. QED
    BY <1>1, <2>1, LeftStays
<1>9. ASSUME NEW k \in Active, NEW m \in (Predecessors(k) \cap Active) \ todo[k]
      PROVE  color'[m] = 2 \/ k \in InCycles'
  <2>1. ~OnStack(k, m)
    BY <1>1 DEF OnStack, Searching
  <2>2. color[m] = 2 \/ k \in InCycles
    BY <2>1 DEF GraphInv, LookedAtIsSettled
  <2>3. QED
    BY <1>3, <1>7, <1>8, <2>2
<1>10. LookedAtIsSettled'
  BY <1>1, <1>2, <1>9 DEF LookedAtIsSettled
<1>11. CyclesAreReal'
  BY <1>1, <1>2 DEF GraphInv, CyclesAreReal, IsCycle
<1>12. stop = "none"
  BY <1>3 DEF GraphInv, StopsLast, Unseen
<1>13. StopsLast' /\ BlockersAreNamed'
  BY <1>1, <1>12 DEF StopsLast, BlockersAreNamed
<1>14. QED
  BY <1>5, <1>6, <1>8, <1>10, <1>11, <1>13 DEF GraphInv

LEMMA VisitsDepKeeps ==
  ASSUME GraphInv, VisitsDep
  PROVE  GraphInv'
<1> DEFINE t == Last(stack)
           d == NextDep
<1>1. /\ UNCHANGED declared /\ UNCHANGED <<completed, found, stop>> /\ Searching
      /\ todo' = [todo EXCEPT ![t] = @ \ {d}] /\ Enters(d) /\ todo[t] # {} /\ color[d] = 0
  BY DEF VisitsDep, LooksAt
<1>2. Active' = Active /\ \A m : Predecessors(m)' = Predecessors(m)
  BY <1>1, SameGraph
<1>3. /\ stack \in Seq(Active) /\ Len(stack) \in Nat /\ Len(stack) # 0
      /\ t = stack[Len(stack)] /\ t \in Active /\ stop = "none"
  BY <1>1, TopIsOpen
<1>4. d \in todo[t] /\ d \in Active /\ d \in Predecessors(t)
  BY <1>1, NextDepIsDeclared
<1>5. todo \in [Active -> SUBSET Active] /\ color \in [Active -> 0..2]
  BY DEF GraphInv, GraphTypeOK
<1>6. todo' \in [Active -> SUBSET Active] /\ \A k \in Active : todo'[k] \subseteq todo[k]
  BY <1>1, <1>5
<1>7. /\ stack' \in Seq(Active) /\ color' \in [Active -> 0..2] /\ StackIsPath'
      /\ Len(stack') = Len(stack) + 1
      /\ \A i \in 1..Len(stack) : stack'[i] = stack[i]
      /\ stack'[Len(stack) + 1] = d
  BY <1>1, <1>4, <1>6, EntersKeeps
<1> HIDE DEF t, d
<1>8. GraphTypeOK'
  BY <1>1, <1>2, <1>6, <1>7 DEF GraphInv, GraphTypeOK
<1>9. color' = [color EXCEPT ![d] = 1]
  BY <1>1 DEF Enters
<1>10. LeftIsReported' /\ InCycles \subseteq InCycles'
  <2>1. \A m \in Active : color'[m] = 2 => color[m] = 2
    BY <1>5, <1>9
  <2>2. QED
    BY <1>1, <2>1, LeftStays
<1>11. ASSUME NEW k \in Active, NEW m \in (Predecessors(k) \cap Active) \ todo'[k]
       PROVE  color'[m] = 2 \/ k \in InCycles' \/ OnStack(k, m)'
  <2>1. CASE k = t /\ m = d
    <3>1. Len(stack) \in 1..(Len(stack') - 1) /\ stack'[Len(stack)] = k /\ stack'[Len(stack) + 1] = m
      BY <1>3, <1>7, <2>1
    <3>2. QED
      BY <3>1 DEF OnStack
  <2>2. CASE ~(k = t /\ m = d)
    <3>1. m \notin todo[k]
      BY <1>1, <1>5, <2>2
    <3>2. color[m] = 2 \/ k \in InCycles \/ OnStack(k, m)
      BY <3>1 DEF GraphInv, LookedAtIsSettled
    <3>3. CASE OnStack(k, m)
      <4>1. PICK i \in 1..(Len(stack) - 1) : stack[i] = k /\ stack[i + 1] = m
        BY <3>3 DEF OnStack
      <4>2. i \in 1..(Len(stack') - 1) /\ stack'[i] = k /\ stack'[i + 1] = m
        BY <1>3, <1>7, <4>1
      <4>3. QED
        BY <4>2 DEF OnStack
    <3>4. CASE color[m] = 2
      BY <1>1, <1>5, <1>9, <3>4
    <3>5. QED
      BY <1>10, <3>2, <3>3, <3>4
  <2>3. QED
    BY <2>1, <2>2
<1>12. LookedAtIsSettled'
  BY <1>2, <1>11 DEF LookedAtIsSettled
<1>13. CyclesAreReal'
  BY <1>1, <1>2 DEF GraphInv, CyclesAreReal, IsCycle
<1>14. StopsLast' /\ BlockersAreNamed'
  BY <1>1, <1>3 DEF StopsLast, BlockersAreNamed
<1>15. QED
  BY <1>7, <1>8, <1>10, <1>12, <1>13, <1>14 DEF GraphInv

(* Looking at a dependency without opening it.                             *)
LEMMA LooksAtKeeps ==
  ASSUME GraphInv, Searching, todo[Last(stack)] # {}, LooksAt(NextDep),
         UNCHANGED <<declared, completed, color, stack, stop>>,
         found \subseteq found', found' \subseteq Seq(Active), \A c \in found' : IsCycle(c),
         color[NextDep] = 2 \/ Last(stack) \in InCycles'
  PROVE  GraphInv'
<1> DEFINE t == Last(stack)
           d == NextDep
<1>1. UNCHANGED declared /\ todo' = [todo EXCEPT ![t] = @ \ {d}]
  BY DEF LooksAt
<1>2. Active' = Active /\ \A m : Predecessors(m)' = Predecessors(m)
  BY <1>1, SameGraph
<1>3. t \in Active /\ stop = "none"
  BY TopIsOpen
<1>4. todo \in [Active -> SUBSET Active]
  BY DEF GraphInv, GraphTypeOK
<1>5. todo' \in [Active -> SUBSET Active] /\ \A k \in Active : todo'[k] \subseteq todo[k]
  BY <1>1, <1>4
<1>6. color[d] = 2 \/ t \in InCycles'
  OBVIOUS
<1> HIDE DEF t, d
<1>7. GraphTypeOK'
  BY <1>2, <1>5 DEF GraphInv, GraphTypeOK
<1>8. StackIsPath'
  BY <1>2, <1>5 DEF GraphInv, StackIsPath
<1>9. LeftIsReported' /\ InCycles \subseteq InCycles'
  BY <1>1, LeftStays
<1>10. ASSUME NEW k \in Active, NEW m \in (Predecessors(k) \cap Active) \ todo'[k]
       PROVE  color'[m] = 2 \/ k \in InCycles' \/ OnStack(k, m)'
  <2>1. CASE k = t /\ m = d
    BY <1>6, <2>1
  <2>2. CASE ~(k = t /\ m = d)
    <3>1. m \notin todo[k]
      BY <1>1, <1>4, <2>2
    <3>2. color[m] = 2 \/ k \in InCycles \/ OnStack(k, m)
      BY <3>1 DEF GraphInv, LookedAtIsSettled
    <3>3. OnStack(k, m)' = OnStack(k, m)
      BY DEF OnStack
    <3>4. QED
      BY <1>9, <3>2, <3>3
  <2>3. QED
    BY <2>1, <2>2
<1>11. LookedAtIsSettled'
  BY <1>2, <1>10 DEF LookedAtIsSettled
<1>12. CyclesAreReal'
  BY <1>2 DEF CyclesAreReal, IsCycle
<1>13. StopsLast' /\ BlockersAreNamed'
  BY <1>3 DEF StopsLast, BlockersAreNamed
<1>14. QED
  BY <1>7, <1>8, <1>9, <1>11, <1>12, <1>13 DEF GraphInv

LEMMA PassesByKeeps ==
  ASSUME GraphInv, PassesBy
  PROVE  GraphInv'
<1>1. /\ Searching /\ todo[Last(stack)] # {} /\ LooksAt(NextDep) /\ color[NextDep] = 2
      /\ UNCHANGED <<declared, completed, color, stack, stop>> /\ found' = found
  BY DEF PassesBy
<1>2. found' \subseteq Seq(Active) /\ \A c \in found' : IsCycle(c)
  BY <1>1 DEF GraphInv, GraphTypeOK, CyclesAreReal
<1>3. QED
  BY <1>1, <1>2, LooksAtKeeps

(* The part of the stack from an open dependency of its top is a ring.     *)
LEMMA RawIsRing ==
  ASSUME GraphInv, Searching, todo[Last(stack)] # {}, color[NextDep] = 1
  PROVE  /\ Raw(NextDep) \in Seq(Active) /\ Raw(NextDep) # <<>> /\ Ring(Raw(NextDep))
         /\ Last(stack) \in ToSet(Raw(NextDep))
<1> DEFINE L == Len(stack)
           d == NextDep
           k == CHOOSE i \in DOMAIN stack : stack[i] = d
           c == Raw(d)
<1>1. stack \in Seq(Active) /\ L \in Nat /\ L # 0 /\ Last(stack) = stack[L] /\ DOMAIN stack = 1..L
  BY TopIsOpen
<1>2. d \in Active /\ d \in Predecessors(Last(stack))
  BY NextDepIsDeclared
<1>3. d \in ToSet(stack)
  BY <1>2 DEF GraphInv, StackIsPath
<1>4. k \in 1..L /\ stack[k] = d
  BY <1>1, <1>3 DEF ToSet
<1>5. c = SubSeq(stack, k, L)
  BY DEF Raw
<1> HIDE DEF d, k, c, L
<1>6. /\ c \in Seq(Active) /\ Len(c) = L - k + 1 /\ DOMAIN c = 1..(L - k + 1)
      /\ \A i \in 1..(L - k + 1) : c[i] = stack[k + i - 1]
  <2>1. k \in 1..(L + 1) /\ L \in 0..L /\ L >= k
    BY <1>1, <1>4
  <2>2. c \in Seq(Active) /\ Len(c) = L - k + 1 /\ \A i \in 1..(L - k + 1) : c[i] = stack[k + i - 1]
    BY <1>1, <1>4, <1>5, <2>1, SubSeqProperties DEF L
  <2>3. QED
    BY <2>2
<1>7. L - k + 1 \in DOMAIN c /\ c[L - k + 1] = Last(stack)
  BY <1>1, <1>4, <1>6
<1>8. c # <<>> /\ Last(stack) \in ToSet(c)
  BY <1>6, <1>7 DEF ToSet
<1>9. IsInjective(c)
  <2>1. \A i, j \in 1..L : stack[i] = stack[j] => i = j
    BY <1>1 DEF GraphInv, StackIsPath, IsInjective
  <2>2. \A i, j \in 1..(L - k + 1) : c[i] = c[j] => i = j
    <3>1. TAKE i, j \in 1..(L - k + 1)
    <3>2. k + i - 1 \in 1..L /\ k + j - 1 \in 1..L
      BY <1>1, <1>4
    <3>3. c[i] = c[j] => k + i - 1 = k + j - 1
      BY <1>6, <2>1, <3>2
    <3>4. QED
      BY <1>1, <1>4, <3>3
  <2>3. QED
    BY <1>6, <2>2 DEF IsInjective
<1>10. ASSUME NEW i \in DOMAIN c
       PROVE  c[Follower(c, i)] \in Predecessors(c[i])
  <2>1. CASE i = Len(c)
    <3>1. Follower(c, i) = 1 /\ c[1] = d /\ c[i] = Last(stack)
      BY <1>1, <1>4, <1>6, <1>7, <2>1 DEF Follower
    <3>2. QED
      BY <1>2, <3>1
  <2>2. CASE i # Len(c)
    <3>1. Follower(c, i) = i + 1 /\ i \in 1..(L - k) /\ i + 1 \in 1..(L - k + 1)
      BY <1>1, <1>4, <1>6, <2>2 DEF Follower
    <3>2. c[i + 1] = stack[k + i] /\ c[i] = stack[k + i - 1] /\ k + i - 1 \in 1..(L - 1) /\ k + i = (k + i - 1) + 1
      BY <1>1, <1>4, <1>6, <3>1
    <3>3. \A j \in 1..(L - 1) : stack[j + 1] \in Predecessors(stack[j])
      BY DEF GraphInv, StackIsPath, L
    <3>4. stack[(k + i - 1) + 1] \in Predecessors(stack[k + i - 1])
      BY <3>2, <3>3
    <3>5. QED
      BY <3>1, <3>2, <3>4
  <2>3. QED
    BY <2>1, <2>2
<1>11. Ring(c)
  BY <1>9, <1>10 DEF Ring
<1>12. QED
  BY <1>6, <1>8, <1>11 DEF c, d

LEMMA ClosesCycleKeeps ==
  ASSUME GraphInv, ClosesCycle
  PROVE  GraphInv'
<1> DEFINE c == Normalized(Raw(NextDep))
<1>1. /\ Searching /\ todo[Last(stack)] # {} /\ LooksAt(NextDep) /\ color[NextDep] = 1
      /\ UNCHANGED <<declared, completed, color, stack, stop>> /\ found' = found \cup {c}
  BY DEF ClosesCycle
<1>2. /\ Raw(NextDep) \in Seq(Active) /\ Raw(NextDep) # <<>> /\ Ring(Raw(NextDep))
      /\ Last(stack) \in ToSet(Raw(NextDep))
  BY <1>1, RawIsRing
<1>3. Active \in SUBSET Nat
  BY GraphAssumption DEF GraphInv, GraphTypeOK
<1>4. c \in Seq(Active) /\ IsCycle(c) /\ Last(stack) \in ToSet(c)
  BY <1>2, <1>3, NormalizedIsCycle
<1> HIDE DEF c
<1>5. found' \subseteq Seq(Active) /\ \A e \in found' : IsCycle(e)
  BY <1>1, <1>4 DEF GraphInv, GraphTypeOK, CyclesAreReal
<1>6. Last(stack) \in InCycles'
  BY <1>1, <1>4 DEF InCycles
<1>7. QED
  BY <1>1, <1>5, <1>6, LooksAtKeeps

LEMMA BacktracksKeeps ==
  ASSUME GraphInv, Backtracks
  PROVE  GraphInv'
<1> DEFINE L == Len(stack)
           t == Last(stack)
<1>1. /\ UNCHANGED declared /\ UNCHANGED <<completed, todo, found, stop>> /\ Searching
      /\ todo[t] = {} /\ color' = [color EXCEPT ![t] = 2] /\ stack' = Front(stack)
  BY DEF Backtracks
<1>2. Active' = Active /\ (\A m : Predecessors(m)' = Predecessors(m)) /\ InCycles' = InCycles
  BY <1>1, SameGraph DEF InCycles
<1>3. /\ stack \in Seq(Active) /\ L \in Nat /\ L # 0 /\ DOMAIN stack = 1..L
      /\ t = stack[L] /\ t \in Active /\ color[t] = 1 /\ stop = "none"
  BY <1>1, TopIsOpen
<1>4. color \in [Active -> 0..2]
  BY DEF GraphInv, GraphTypeOK
<1> HIDE DEF t, L
<1>5. /\ stack' \in Seq(Active) /\ Len(stack') = L - 1 /\ DOMAIN stack' = 1..(L - 1)
      /\ \A i \in 1..(L - 1) : stack'[i] = stack[i]
  <2>1. stack' = SubSeq(stack, 1, L - 1)
    BY <1>1 DEF Front, L
  <2>2. stack' \in Seq(Active) /\ Len(stack') = L - 1 /\ \A i \in 1..(L - 1) : stack'[i] = stack[i]
    BY <1>3, <2>1
  <2>3. QED
    BY <1>3, <2>2
<1>6. \A i, j \in 1..L : stack[i] = stack[j] => i = j
  BY <1>3 DEF GraphInv, StackIsPath, IsInjective
<1>7. GraphTypeOK'
  <2>1. color' \in [Active -> 0..2]
    <3>1. color' = [color EXCEPT ![t] = 2] /\ 2 \in 0..2
      BY <1>1
    <3>2. QED
      BY <1>4, <3>1
  <2>2. QED
    BY <1>1, <1>2, <1>5, <2>1 DEF GraphInv, GraphTypeOK
<1>8. StackIsPath'
  <2>1. IsInjective(stack')
    BY <1>3, <1>5, <1>6 DEF IsInjective
  <2>2. \A i \in 1..(Len(stack') - 1) : stack'[i + 1] \in Predecessors(stack'[i])
    <3>1. TAKE i \in 1..(Len(stack') - 1)
    <3>2. i \in 1..(L - 1) /\ i + 1 \in 1..(L - 1)
      BY <1>3, <1>5
    <3>3. stack[i + 1] \in Predecessors(stack[i])
      BY <3>2 DEF GraphInv, StackIsPath, L
    <3>4. QED
      BY <1>5, <3>2, <3>3
  <2>3. ToSet(stack') = ToSet(stack) \ {t}
    <3>1. \A i \in 1..L : stack[i] = t => i = L
      BY <1>3, <1>6
    <3>2. \A i \in 1..(L - 1) : stack'[i] \in ToSet(stack) \ {t}
      BY <1>3, <1>5, <3>1 DEF ToSet
    <3>3. \A i \in 1..L : stack[i] # t => stack[i] \in ToSet(stack')
      <4>1. TAKE i \in 1..L
      <4>2. HAVE stack[i] # t
      <4>3. i \in 1..(L - 1)
        BY <1>3, <4>2
      <4>4. QED
        BY <1>5, <4>3 DEF ToSet
    <3>4. QED
      BY <1>3, <1>5, <3>2, <3>3 DEF ToSet
  <2>4. \A n \in Active : color'[n] = 1 <=> n \in ToSet(stack')
    BY <1>1, <1>3, <1>4, <2>3 DEF GraphInv, StackIsPath
  <2>5. QED
    BY <1>1, <1>2, <2>1, <2>2, <2>4 DEF GraphInv, StackIsPath
<1>9. ASSUME NEW k \in Active, NEW m \in (Predecessors(k) \cap Active) \ todo[k]
      PROVE  color'[m] = 2 \/ k \in InCycles \/ OnStack(k, m)'
  <2>1. color[m] = 2 \/ k \in InCycles \/ OnStack(k, m)
    BY DEF GraphInv, LookedAtIsSettled
  <2>2. CASE OnStack(k, m)
    <3>1. PICK i \in 1..(L - 1) : stack[i] = k /\ stack[i + 1] = m
      BY <2>2 DEF OnStack, L
    <3>2. CASE i = L - 1
      BY <1>1, <1>3, <1>4, <3>1, <3>2
    <3>3. CASE i # L - 1
      <4>1. i \in 1..(Len(stack') - 1) /\ i \in 1..(L - 1) /\ i + 1 \in 1..(L - 1)
        BY <1>3, <1>5, <3>3
      <4>2. stack'[i] = k /\ stack'[i + 1] = m
        BY <1>5, <3>1, <4>1
      <4>3. QED
        BY <4>1, <4>2 DEF OnStack
    <3>4. QED
      BY <3>2, <3>3
  <2>3. CASE color[m] = 2
    BY <1>1, <1>4, <2>3
  <2>4. QED
    BY <2>1, <2>2, <2>3
<1>10. LookedAtIsSettled'
  BY <1>1, <1>2, <1>9 DEF LookedAtIsSettled
<1>11. ASSUME NEW R \in SUBSET Active, Circular(R)', \E n \in R : color'[n] = 2
       PROVE  R \cap InCycles # {}
  <2>1. Circular(R)
    BY <1>2, <1>11 DEF Circular
  <2>2. CASE \E n \in R : color[n] = 2
    BY <2>1, <2>2 DEF GraphInv, LeftIsReported
  <2>3. CASE ~\E n \in R : color[n] = 2
    <3>1. t \in R
      BY <1>1, <1>4, <1>11, <2>3
    <3>2. PICK m \in R : m \in Predecessors(t)
      BY <2>1, <3>1 DEF Circular
    <3>3. ~OnStack(t, m)
      <4>1. SUFFICES ASSUME NEW i \in 1..(L - 1), stack[i] = t PROVE FALSE
        BY DEF OnStack, L
      <4>2. i = L
        BY <1>3, <1>6, <4>1
      <4>3. QED
        BY <1>3, <4>1, <4>2
    <3>4. color[m] = 2 \/ t \in InCycles
      BY <1>1, <1>3, <3>2, <3>3 DEF GraphInv, LookedAtIsSettled
    <3>5. QED
      BY <2>3, <3>1, <3>4
  <2>4. QED
    BY <2>2, <2>3
<1>12. LeftIsReported'
  BY <1>2, <1>11 DEF LeftIsReported
<1>13. CyclesAreReal'
  BY <1>1, <1>2 DEF GraphInv, CyclesAreReal, IsCycle
<1>14. StopsLast' /\ BlockersAreNamed'
  BY <1>1, <1>3 DEF StopsLast, BlockersAreNamed
<1>15. QED
  BY <1>7, <1>8, <1>10, <1>12, <1>13, <1>14 DEF GraphInv

(* The runner schedules after the search and leaves its result alone.      *)
LEMMA SearchedStays ==
  ASSUME GraphInv, UNCHANGED <<declared, color, stack, todo, found>>
  PROVE  GraphTypeOK' /\ StackIsPath' /\ LookedAtIsSettled' /\ LeftIsReported' /\ CyclesAreReal'
<1>1. Active' = Active /\ (\A m : Predecessors(m)' = Predecessors(m)) /\ InCycles' = InCycles
  BY SameGraph DEF InCycles
<1>2. GraphTypeOK'
  BY <1>1 DEF GraphInv, GraphTypeOK
<1>3. StackIsPath'
  BY <1>1 DEF GraphInv, StackIsPath
<1>4. LookedAtIsSettled'
  BY <1>1 DEF GraphInv, LookedAtIsSettled, OnStack
<1>5. LeftIsReported'
  BY <1>1 DEF GraphInv, LeftIsReported, Circular
<1>6. CyclesAreReal'
  BY <1>1 DEF GraphInv, CyclesAreReal, IsCycle
<1>7. QED
  BY <1>2, <1>3, <1>4, <1>5, <1>6

LEMMA StartsChangeKeeps ==
  ASSUME GraphInv, StartsChange
  PROVE  GraphInv'
<1>1. UNCHANGED <<declared, color, stack, todo, found>> /\ stop = "none" /\ stop' = "none"
  BY DEF StartsChange, Searched
<1>2. StopsLast' /\ BlockersAreNamed'
  BY <1>1 DEF StopsLast, BlockersAreNamed
<1>3. QED
  BY <1>1, <1>2, SearchedStays DEF GraphInv

(* When the search is over and nothing is eligible, what is not explained  *)
(* would be circular and hold no change of a reported cycle.               *)
LEMMA LeftOverIsExplained ==
  ASSUME GraphInv, Searched, EligibleChanges = {},
         NEW S \in SUBSET (Active \ completed),
         \A n \in Active \ completed : MissingOf(n) # {} \/ n \in InCycles => n \in S,
         \A n \in Active \ completed : Predecessors(n) \cap S # {} => n \in S
  PROVE  S = Active \ completed
<1> DEFINE R == (Active \ completed) \ S
<1>1. SUFFICES ASSUME R # {} PROVE FALSE
  OBVIOUS
<1>2. ASSUME NEW n \in R
      PROVE  Predecessors(n) \cap R # {}
  <2>1. MissingOf(n) = {} /\ n \notin InCycles /\ Predecessors(n) \cap S = {}
    BY <1>2
  <2>2. Incomplete(n) # {}
    BY <1>2, <2>1 DEF EligibleChanges
  <2>3. PICK m : m \in Predecessors(n) /\ m \notin completed
    BY <2>2 DEF Incomplete
  <2>4. m \in Active /\ m \notin S
    BY <2>1, <2>3 DEF MissingOf
  <2>5. QED
    BY <2>3, <2>4
<1>3. Circular(R)
  BY <1>2 DEF Circular
<1>4. \A n \in Active : color[n] = 2
  <2>1. TAKE n \in Active
  <2>2. color[n] # 0
    BY DEF Searched, Unseen
  <2>3. color[n] # 1
    BY DEF Searched, Searching, GraphInv, StackIsPath, ToSet
  <2>4. color[n] \in 0..2
    BY DEF GraphInv, GraphTypeOK
  <2>5. QED
    BY <2>2, <2>3, <2>4
<1>5. R \cap InCycles # {}
  <2>1. R \in SUBSET Active /\ \E n \in R : color[n] = 2
    BY <1>1, <1>4
  <2>2. QED
    BY <1>3, <2>1 DEF GraphInv, LeftIsReported
<1>6. QED
  BY <1>5

LEMMA StopsKeeps ==
  ASSUME GraphInv, Stops
  PROVE  GraphInv' /\ stop' # "waits"
<1>1. /\ UNCHANGED <<declared, color, stack, todo, found>> /\ completed' = completed
      /\ Searched /\ (GraphErrors # {} \/ EligibleChanges = {}) /\ stop' = Reason
  BY DEF Stops
<1>2. GraphTypeOK' /\ StackIsPath' /\ LookedAtIsSettled' /\ LeftIsReported' /\ CyclesAreReal'
  BY <1>1, SearchedStays
<1>3. StopsLast'
  BY <1>1 DEF StopsLast, Searched, Searching, Unseen, Active
<1>4. GraphErrors # {} => stop' = "malformed"
  BY <1>1 DEF Reason
<1>5. Active' = Active /\ (\A m : Predecessors(m)' = Predecessors(m)) /\ InCycles' = InCycles
  BY <1>1, SameGraph DEF InCycles
<1>6. (\A m : MissingOf(m)' = MissingOf(m)) /\ Active' \ completed' = Active \ completed
  BY <1>1, <1>5 DEF MissingOf
<1>7. BlockersAreNamed'
  <2>1. SUFFICES ASSUME GraphErrors = {}, EligibleChanges = {}
                 PROVE  BlockersAreNamed'
    BY <1>1, <1>4 DEF BlockersAreNamed
  <2>2. \A S \in SUBSET (Active \ completed) :
          /\ \A n \in Active \ completed : MissingOf(n) # {} \/ n \in InCycles => n \in S
          /\ \A n \in Active \ completed : Predecessors(n) \cap S # {} => n \in S
          => S = Active \ completed
    BY <1>1, <2>1, LeftOverIsExplained
  <2>3. \A c \in found' : IsCycle(c)'
    BY <1>2 DEF CyclesAreReal
  <2>4. QED
    BY <1>5, <1>6, <2>2, <2>3 DEF BlockersAreNamed
<1>8. stop' # "waits"
  <2>1. SUFFICES ASSUME Reason = "waits" PROVE FALSE
    BY <1>1
  <2>2. GraphErrors = {} /\ ~(Active \subseteq completed) /\ (\A n \in Active : MissingOf(n) = {}) /\ found = {}
    BY <2>1 DEF Reason
  <2>3. InCycles = {} /\ EligibleChanges = {}
    BY <1>1, <2>2 DEF InCycles
  <2>4. {} = Active \ completed
    BY <1>1, <2>2, <2>3, LeftOverIsExplained
  <2>5. QED
    BY <2>2, <2>4
<1>9. QED
  BY <1>2, <1>3, <1>7, <1>8 DEF GraphInv

LEMMA GraphStepInv ==
  ASSUME GraphInv, stop # "waits", [GraphNext]_graphVars
  PROVE  GraphInv' /\ stop' # "waits"
<1>1. CASE VisitsRoot
  BY <1>1, VisitsRootKeeps DEF VisitsRoot
<1>2. CASE VisitsDep
  BY <1>2, VisitsDepKeeps DEF VisitsDep
<1>3. CASE PassesBy
  BY <1>3, PassesByKeeps DEF PassesBy
<1>4. CASE ClosesCycle
  BY <1>4, ClosesCycleKeeps DEF ClosesCycle
<1>5. CASE Backtracks
  BY <1>5, BacktracksKeeps DEF Backtracks
<1>6. CASE StartsChange
  BY <1>6, StartsChangeKeeps DEF StartsChange
<1>7. CASE Stops
  BY <1>7, StopsKeeps
<1>8. CASE UNCHANGED graphVars
  <2>1. UNCHANGED <<declared, color, stack, todo, found>> /\ completed' = completed /\ stop' = stop
    BY <1>8 DEF graphVars
  <2>2. GraphTypeOK' /\ StackIsPath' /\ LookedAtIsSettled' /\ LeftIsReported' /\ CyclesAreReal'
    BY <2>1, SearchedStays
  <2>3. StopsLast' /\ BlockersAreNamed'
    BY <2>1 DEF GraphInv, StopsLast, BlockersAreNamed, Unseen, Active, InCycles, MissingOf, IsCycle,
                Predecessors, GraphErrors
  <2>4. QED
    BY <2>1, <2>2, <2>3 DEF GraphInv
<1>9. QED
  BY <1>1, <1>2, <1>3, <1>4, <1>5, <1>6, <1>7, <1>8 DEF GraphNext

-----------------------------------------------------------------------------
(* The inductive invariant of the search and of the scheduling after it,   *)
(* for every finite set of changes and every graph over it.                *)
THEOREM GraphInvariant == GraphSpec => []GraphInv
<1>1. GraphInit => GraphInv /\ stop # "waits"
  BY GraphInitInv DEF GraphInit
<1>2. GraphInv /\ stop # "waits" /\ [GraphNext]_graphVars => (GraphInv /\ stop # "waits")'
  BY GraphStepInv
<1>3. QED
  BY <1>1, <1>2, PTL DEF GraphSpec

(* A cycle that is reported is a cycle of the metadata, and what is        *)
(* recorded when the runner stops explains every change that is left over. *)
THEOREM LeftOverNamed == GraphSpec => []BlockersAreNamed
<1>1. GraphInv => BlockersAreNamed
  BY DEF GraphInv
<1>2. QED
  BY <1>1, GraphInvariant, PTL

(* The last branch of select_next_action, which says that a change waits   *)
(* for predecessors although none is missing and no cycle was found, is    *)
(* never reached (runner.py:201-208).                                      *)
THEOREM NobodyWaitsForNobody == GraphSpec => [](stop # "waits")
<1>1. GraphInit => GraphInv /\ stop # "waits"
  BY GraphInitInv DEF GraphInit
<1>2. GraphInv /\ stop # "waits" /\ [GraphNext]_graphVars => (GraphInv /\ stop # "waits")'
  BY GraphStepInv
<1>3. QED
  BY <1>1, <1>2, PTL DEF GraphSpec

-----------------------------------------------------------------------------
(* That it ends.                                                           *)

(* The dependencies _visit has not looked at.                              *)
Pending == {edge \in Active \X Active : edge[2] \in todo[edge[1]]}

(* What a step uses up, the first part before the second and so on.        *)
Smaller(S, T) == S \subseteq T /\ S # T

UsesUp ==
  \/ Smaller(Unseen', Unseen)
  \/ Unseen' = Unseen /\ Smaller(Pending', Pending)
  \/ UNCHANGED <<Unseen, Pending>> /\ Len(stack) # 0 /\ Len(stack') = Len(stack) - 1
  \/ UNCHANGED <<Unseen, Pending, stack>> /\ Smaller(Active' \ completed', Active \ completed)
  \/ UNCHANGED <<Unseen, Pending, stack, completed>> /\ stop = "none" /\ stop' # "none"

LEMMA EntersUsesUp ==
  ASSUME GraphTypeOK, UNCHANGED declared, NEW n \in Unseen, Enters(n)
  PROVE  Smaller(Unseen', Unseen)
<1>1. Active' = Active /\ n \in Active /\ color[n] = 0
  BY SameGraph DEF Unseen
<1>2. color' = [color EXCEPT ![n] = 1] /\ color \in [Active -> 0..2]
  BY DEF Enters, GraphTypeOK
<1>3. Unseen' = Unseen \ {n}
  BY <1>1, <1>2 DEF Unseen
<1>4. QED
  BY <1>3 DEF Smaller

LEMMA LooksAtUsesUp ==
  ASSUME GraphInv, Searching, todo[Last(stack)] # {}, LooksAt(NextDep), UNCHANGED <<declared, color>>
  PROVE  Unseen' = Unseen /\ Smaller(Pending', Pending)
<1> DEFINE t == Last(stack)
           d == NextDep
<1>1. Active' = Active /\ Unseen' = Unseen
  BY SameGraph DEF Unseen
<1>2. t \in Active /\ d \in todo[t] /\ d \in Active
  BY TopIsOpen, NextDepIsDeclared
<1>3. todo' = [todo EXCEPT ![t] = @ \ {d}] /\ todo \in [Active -> SUBSET Active]
  BY DEF LooksAt, GraphInv, GraphTypeOK
<1> HIDE DEF t, d
<1>4. Pending' = Pending \ {<<t, d>>}
  BY <1>1, <1>2, <1>3 DEF Pending
<1>5. <<t, d>> \in Pending
  BY <1>2 DEF Pending
<1>6. QED
  BY <1>1, <1>4, <1>5 DEF Smaller

LEMMA EveryStepUsesUp ==
  ASSUME GraphInv, GraphNext
  PROVE  UsesUp
<1>1. CASE VisitsRoot
  <2>1. UNCHANGED declared /\ Enters(Min(Unseen)) /\ Unseen # {}
    BY <1>1 DEF VisitsRoot
  <2>2. Unseen \in SUBSET Nat
    BY GraphAssumption DEF GraphInv, GraphTypeOK, Unseen
  <2>3. Min(Unseen) \in Unseen
    BY <2>1, <2>2, LeastNumber
  <2>4. QED
    BY <2>1, <2>3, EntersUsesUp DEF GraphInv, UsesUp
<1>2. CASE VisitsDep
  <2>1. UNCHANGED declared /\ Enters(NextDep) /\ Searching /\ todo[Last(stack)] # {} /\ color[NextDep] = 0
    BY <1>2 DEF VisitsDep
  <2>2. NextDep \in Unseen
    BY <2>1, NextDepIsDeclared DEF Unseen
  <2>3. QED
    BY <2>1, <2>2, EntersUsesUp DEF GraphInv, UsesUp
<1>3. CASE PassesBy
  BY <1>3, LooksAtUsesUp DEF PassesBy, UsesUp
<1>4. CASE ClosesCycle
  BY <1>4, LooksAtUsesUp DEF ClosesCycle, UsesUp
<1>5. CASE Backtracks
  <2>1. /\ UNCHANGED declared /\ todo' = todo /\ color' = [color EXCEPT ![Last(stack)] = 2]
        /\ Searching /\ stack' = Front(stack)
    BY <1>5 DEF Backtracks
  <2>2. /\ stack \in Seq(Active) /\ Len(stack) \in Nat /\ Len(stack) # 0
        /\ Last(stack) \in Active /\ color[Last(stack)] = 1
    BY <2>1, TopIsOpen
  <2>3. Active' = Active /\ Pending' = Pending
    BY <2>1, SameGraph DEF Pending
  <2>4. Unseen' = Unseen
    BY <2>1, <2>2, <2>3 DEF Unseen, GraphInv, GraphTypeOK
  <2>5. Len(stack') = Len(stack) - 1
    <3>1. stack' = SubSeq(stack, 1, Len(stack) - 1)
      BY <2>1 DEF Front
    <3>2. Len(stack) - 1 \in Int /\ \A i \in 1..(Len(stack) - 1) : stack[i] \in Active
      BY <2>2
    <3>3. Len(SubSeq(stack, 1, Len(stack) - 1))
            = IF 1 <= Len(stack) - 1 THEN (Len(stack) - 1) - 1 + 1 ELSE 0
      BY <3>2, SubSeqProperties
    <3>4. \A n \in Nat : n # 0 => (IF 1 <= n - 1 THEN (n - 1) - 1 + 1 ELSE 0) = n - 1
      OBVIOUS
    <3>5. QED
      BY <2>2, <3>1, <3>3, <3>4, Zenon
  <2>6. QED
    BY <2>2, <2>3, <2>4, <2>5 DEF UsesUp
<1>6. CASE StartsChange
  <2>1. /\ UNCHANGED <<declared, color, stack, todo>>
        /\ \E n \in EligibleChanges : completed' = completed \cup {n}
    BY <1>6 DEF StartsChange
  <2>2. Active' = Active /\ Unseen' = Unseen /\ Pending' = Pending
    BY <2>1 DEF Active, Unseen, Pending
  <2>3. Smaller(Active' \ completed', Active \ completed)
    BY <2>1, <2>2 DEF EligibleChanges, Smaller
  <2>4. QED
    BY <2>1, <2>2, <2>3 DEF UsesUp
<1>7. CASE Stops
  <2>1. UNCHANGED <<declared, color, stack, todo, completed>> /\ stop = "none" /\ stop' = Reason
    BY <1>7 DEF Stops, Searched
  <2>2. Reason # "none"
    BY DEF Reason
  <2>3. QED
    BY <2>1, <2>2 DEF UsesUp, Active, Unseen, Pending
<1>8. QED
  BY <1>1, <1>2, <1>3, <1>4, <1>5, <1>6, <1>7 DEF GraphNext

(* find_cycles and the scheduling after it end on every finite graph: each *)
(* step uses up an unseen change, or else a dependency to look at, or an   *)
(* open change, or else completes a change or stops, and gives nothing of  *)
(* an earlier kind back.                                                   *)
THEOREM SearchUsesUp == GraphSpec => [][UsesUp]_graphVars
<1>1. GraphInv /\ [GraphNext]_graphVars => [UsesUp]_graphVars
  BY EveryStepUsesUp
<1>2. QED
  BY <1>1, GraphInvariant, PTL DEF GraphSpec
=============================================================================
