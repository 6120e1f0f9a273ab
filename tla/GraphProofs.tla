------------------------------ MODULE GraphProofs ------------------------------
(***************************************************************************)
(* Facts about the definitions of ModuleGraph.tla, for every set of modules  *)
(* and every declaration: what filtering must remove, and what a topological *)
(* sort of what remains looks like.                                         *)
(***************************************************************************)
EXTENDS ModuleGraph, FiniteSetTheorems, SequenceTheorems, TLAPS

--------------------------------------------------------------------------------
(***************************************************************************)
(* Induction over the naturals, for sets: a set that holds 0 and the         *)
(* successor of each of its members leaves nothing out.                     *)
(***************************************************************************)

\* Were n left out, adding 1 would map the members up to n one to one to those
\* of them that are not 0: one more than there are places.
LEMMA SetInduction ==
  ASSUME NEW S \in SUBSET Nat, 0 \in S, \A n \in S : n + 1 \in S
  PROVE  S = Nat
<1> SUFFICES ASSUME NEW n \in Nat, n \notin S PROVE FALSE  OBVIOUS
<1> DEFINE T == {i \in 0 .. n : i \in S}
           next == [i \in T |-> i + 1]
<1>1. IsFiniteSet(0 .. n) /\ T \in SUBSET (0 .. n)  BY FS_Interval
<1>2. IsFiniteSet(T)  BY <1>1, FS_Subset
<1>3. 0 \in T  OBVIOUS
<1>4. IsFiniteSet(T \ {0}) /\ Cardinality(T \ {0}) = Cardinality(T) - 1
  BY <1>2, <1>3, FS_RemoveElement
<1>5. Cardinality(T) \in Nat  BY <1>2, FS_CardinalityType
<1>6. next \in [T -> T \ {0}]
  <2> SUFFICES ASSUME NEW i \in T PROVE i + 1 \in T \ {0}  OBVIOUS
  <2>1. i # n  OBVIOUS
  <2> QED  BY <2>1
<1>7. \A i, j \in T : next[i] = next[j] => i = j  OBVIOUS
<1> HIDE DEF T, next
<1> QED  BY <1>2, <1>4, <1>5, <1>6, <1>7, FS_PigeonHole

\* Positions: a set of natural numbers that is not empty has a least member.
LEMMA LeastPosition ==
  ASSUME NEW P \in SUBSET Nat, P # {}
  PROVE  \E i \in P : \A j \in P : i <= j
<1> SUFFICES ASSUME \A i \in P : \E j \in P : j < i PROVE FALSE  OBVIOUS
<1> DEFINE S == {n \in Nat : \A j \in P : n < j}
<1>1. 0 \in S
  <2> SUFFICES ASSUME NEW j \in P PROVE 0 < j  OBVIOUS
  <2>1. PICK k \in P : k < j  OBVIOUS
  <2> QED  BY <2>1
<1>2. ASSUME NEW n \in S PROVE n + 1 \in S
  <2> SUFFICES ASSUME NEW j \in P PROVE n + 1 < j  OBVIOUS
  <2>1. PICK k \in P : k < j  OBVIOUS
  <2>2. n < k  OBVIOUS
  <2> QED  BY <2>1, <2>2
<1>3. S = Nat  BY <1>1, <1>2, SetInduction
<1>4. PICK p \in P : TRUE  OBVIOUS
<1>5. p \in S  BY <1>3, <1>4
<1> QED  BY <1>4, <1>5

--------------------------------------------------------------------------------
(***************************************************************************)
(* Sequences: their members under the operations the planner uses.           *)
(***************************************************************************)

\* The members of a concatenation are those of its two parts (the node list of
\* add_node and add_edge, and [utils] + order).
LEMMA ConcatMembers ==
  ASSUME NEW S, NEW s \in Seq(S), NEW t \in Seq(S)
  PROVE  s \o t \in Seq(S) /\ Members(s \o t) = Members(s) \cup Members(t)
<1>1. /\ s \o t \in Seq(S)
      /\ DOMAIN s = 1 .. Len(s) /\ DOMAIN t = 1 .. Len(t)
      /\ DOMAIN (s \o t) = 1 .. (Len(s) + Len(t))
      /\ Len(s) \in Nat /\ Len(t) \in Nat
  BY ConcatProperties, LenProperties
<1>2. ASSUME NEW x \in Members(s \o t) PROVE x \in Members(s) \cup Members(t)
  <2>1. PICK i \in 1 .. (Len(s) + Len(t)) : (s \o t)[i] = x  BY <1>1, <1>2 DEF Members
  <2>2. CASE i <= Len(s)
    <3>1. i \in DOMAIN s /\ x = s[i]  BY <1>1, <2>1, <2>2, ConcatProperties
    <3> QED  BY <3>1 DEF Members
  <2>3. CASE i > Len(s)
    <3>1. i - Len(s) \in DOMAIN t /\ x = t[i - Len(s)]  BY <1>1, <2>1, <2>3, ConcatProperties
    <3> QED  BY <3>1 DEF Members
  <2> QED  BY <1>1, <2>1, <2>2, <2>3
<1>3. ASSUME NEW i \in DOMAIN s PROVE s[i] \in Members(s \o t)
  <2>1. i \in DOMAIN (s \o t) /\ (s \o t)[i] = s[i]  BY <1>1, <1>3, ConcatProperties
  <2> QED  BY <2>1 DEF Members
<1>4. ASSUME NEW i \in DOMAIN t PROVE t[i] \in Members(s \o t)
  <2>1. Len(s) + i \in DOMAIN (s \o t) /\ (s \o t)[Len(s) + i] = t[i]
    BY <1>1, <1>4, ConcatProperties
  <2> QED  BY <2>1 DEF Members
<1> QED  BY <1>1, <1>2, <1>3, <1>4 DEF Members

\* Appending adds one member, at the end (an emission of the topological sort).
LEMMA AppendMembers ==
  ASSUME NEW S, NEW s \in Seq(S), NEW e \in S
  PROVE  /\ Append(s, e) \in Seq(S)
         /\ DOMAIN Append(s, e) = 1 .. (Len(s) + 1)
         /\ DOMAIN s = 1 .. Len(s) /\ Len(s) \in Nat
         /\ \A i \in DOMAIN s : Append(s, e)[i] = s[i]
         /\ Append(s, e)[Len(s) + 1] = e
         /\ Members(Append(s, e)) = Members(s) \cup {e}
<1>1. /\ Append(s, e) \in Seq(S)
      /\ DOMAIN Append(s, e) = 1 .. (Len(s) + 1)
      /\ DOMAIN s = 1 .. Len(s) /\ Len(s) \in Nat
      /\ \A i \in DOMAIN s : Append(s, e)[i] = s[i]
      /\ Append(s, e)[Len(s) + 1] = e
  BY AppendProperties, LenProperties
<1> QED  BY <1>1 DEF Members

Injective(s) == \A i, j \in DOMAIN s : s[i] = s[j] => i = j

\* RemoveAt drops one position and shifts the later ones (order.remove).
LEMMA RemoveAtProperties ==
  ASSUME NEW S, NEW s \in Seq(S), NEW k \in 1 .. Len(s)
  PROVE  /\ RemoveAt(s, k) \in Seq(S)
         /\ Len(RemoveAt(s, k)) = Len(s) - 1
         /\ \A i \in 1 .. (Len(s) - 1) : RemoveAt(s, k)[i] = IF i < k THEN s[i] ELSE s[i + 1]
<1> DEFINE a == SubSeq(s, 1, k - 1)
           b == SubSeq(s, k + 1, Len(s))
<1>1. Len(s) \in Nat /\ k \in Nat /\ \A i \in 1 .. Len(s) : s[i] \in S
  BY LenProperties, ElementOfSeq
<1>2. a \in Seq(S) /\ Len(a) = k - 1 /\ \A i \in 1 .. (k - 1) : a[i] = s[i]
  <2>1. 1 \in Int /\ k - 1 \in Int /\ \A i \in 1 .. (k - 1) : s[i] \in S  BY <1>1
  <2>2. /\ a \in Seq(S) /\ Len(a) = IF 1 <= k - 1 THEN (k - 1) - 1 + 1 ELSE 0
        /\ \A i \in 1 .. ((k - 1) - 1 + 1) : a[i] = s[1 + i - 1]
    BY <2>1, SubSeqProperties
  <2> QED  BY <1>1, <2>2
<1>3. /\ b \in Seq(S) /\ Len(b) = Len(s) - k
      /\ \A i \in 1 .. (Len(s) - k) : b[i] = s[k + i]
  <2>1. k + 1 \in Int /\ Len(s) \in Int /\ \A i \in (k + 1) .. Len(s) : s[i] \in S  BY <1>1
  <2>2. /\ b \in Seq(S) /\ Len(b) = IF k + 1 <= Len(s) THEN Len(s) - (k + 1) + 1 ELSE 0
        /\ \A i \in 1 .. (Len(s) - (k + 1) + 1) : b[i] = s[(k + 1) + i - 1]
    BY <2>1, SubSeqProperties
  <2> QED  BY <1>1, <2>2
<1>4. RemoveAt(s, k) = a \o b  BY DEF RemoveAt
<1>5. /\ a \o b \in Seq(S) /\ Len(a \o b) = Len(a) + Len(b)
      /\ \A i \in 1 .. (Len(a) + Len(b)) : (a \o b)[i] = IF i <= Len(a) THEN a[i] ELSE b[i - Len(a)]
  BY <1>2, <1>3, ConcatProperties
<1> HIDE DEF a, b
<1>6. Len(a \o b) = Len(s) - 1  BY <1>1, <1>2, <1>3, <1>5
<1>7. ASSUME NEW i \in 1 .. (Len(s) - 1)
      PROVE  (a \o b)[i] = IF i < k THEN s[i] ELSE s[i + 1]
  <2>1. CASE i < k  BY <1>1, <1>2, <1>3, <1>5, <2>1
  <2>2. CASE i >= k
    <3>1. i - (k - 1) \in 1 .. (Len(s) - k) /\ k + (i - (k - 1)) = i + 1  BY <1>1, <2>2
    <3>2. b[i - (k - 1)] = s[i + 1]  BY <1>3, <3>1
    <3>3. (a \o b)[i] = b[i - (k - 1)]  BY <1>1, <1>2, <1>3, <1>5, <2>2
    <3>4. ~(i < k)  BY <1>1, <2>2
    <3> QED  BY <3>2, <3>3, <3>4
  <2>3. i < k \/ i >= k  BY <1>1
  <2> QED  BY <2>1, <2>2, <2>3
<1> QED  BY <1>4, <1>5, <1>6, <1>7

\* order.remove(utils) loses utils and nothing else, and keeps the order of
\* what stays.
LEMMA WithoutUtilsProperties ==
  ASSUME NEW s \in Seq(Modules), Injective(s)
  PROVE  /\ WithoutUtils(s) \in Seq(Modules)
         /\ Injective(WithoutUtils(s))
         /\ Members(WithoutUtils(s)) = Members(s) \ {Utils}
         /\ \A i, j \in DOMAIN s : (i < j /\ s[i] # Utils /\ s[j] # Utils)
                                   => Before(WithoutUtils(s), s[i], s[j])
<1> DEFINE w == WithoutUtils(s)
<1>1. DOMAIN s = 1 .. Len(s) /\ Len(s) \in Nat  BY LenProperties
<1>2. CASE Utils \notin Members(s)
  <2>1. w = s  BY <1>2 DEF WithoutUtils
  <2> QED  BY <1>2, <2>1 DEF Before, Members
<1>3. CASE Utils \in Members(s)
  <2> DEFINE k == CHOOSE i \in DOMAIN s : s[i] = Utils
  <2>1. k \in 1 .. Len(s) /\ s[k] = Utils  BY <1>1, <1>3 DEF Members
  <2>2. w = RemoveAt(s, k)  BY <1>3 DEF WithoutUtils
  <2> HIDE DEF k, w
  <2>3. /\ w \in Seq(Modules)
        /\ Len(w) = Len(s) - 1
        /\ \A i \in 1 .. (Len(s) - 1) : w[i] = IF i < k THEN s[i] ELSE s[i + 1]
    BY <2>1, <2>2, RemoveAtProperties
  <2>4. DOMAIN w = 1 .. (Len(s) - 1)  BY <2>3, LenProperties
  <2>5. \A i \in DOMAIN s : s[i] = Utils => i = k  BY <1>1, <2>1 DEF Injective
  <2>6. ASSUME NEW i \in DOMAIN s, i # k
        PROVE  /\ (IF i < k THEN i ELSE i - 1) \in DOMAIN w
               /\ w[IF i < k THEN i ELSE i - 1] = s[i]
    BY <1>1, <2>1, <2>3, <2>4, <2>6
  <2>7. Injective(w)
    <3> SUFFICES ASSUME NEW i \in DOMAIN w, NEW j \in DOMAIN w, w[i] = w[j] PROVE i = j
      BY DEF Injective
    <3>1. CASE i < k /\ j < k  BY <1>1, <2>1, <2>3, <2>4, <3>1 DEF Injective
    <3>2. CASE i < k /\ j >= k
      <4>1. s[i] = s[j + 1]  BY <1>1, <2>1, <2>3, <2>4, <3>2
      <4>2. i \in DOMAIN s /\ j + 1 \in DOMAIN s /\ i # j + 1  BY <1>1, <2>1, <2>4, <3>2
      <4> QED  BY <4>1, <4>2 DEF Injective
    <3>3. CASE i >= k /\ j < k
      <4>1. s[i + 1] = s[j]  BY <1>1, <2>1, <2>3, <2>4, <3>3
      <4>2. i + 1 \in DOMAIN s /\ j \in DOMAIN s /\ i + 1 # j  BY <1>1, <2>1, <2>4, <3>3
      <4> QED  BY <4>1, <4>2 DEF Injective
    <3>4. CASE i >= k /\ j >= k
      <4>1. s[i + 1] = s[j + 1]  BY <1>1, <2>1, <2>3, <2>4, <3>4
      <4>2. i + 1 \in DOMAIN s /\ j + 1 \in DOMAIN s  BY <1>1, <2>1, <2>4
      <4>3. i + 1 = j + 1  BY <4>1, <4>2 DEF Injective
      <4> QED  BY <1>1, <2>4, <4>3
    <3> QED  BY <1>1, <2>1, <2>4, <3>1, <3>2, <3>3, <3>4
  <2>8. Members(w) = Members(s) \ {Utils}
    <3>1. ASSUME NEW i \in DOMAIN w PROVE w[i] \in Members(s) \ {Utils}
      <4>1. CASE i < k  BY <1>1, <2>1, <2>3, <2>4, <2>5, <4>1 DEF Members
      <4>2. CASE i >= k
        <5>1. i + 1 \in DOMAIN s /\ i + 1 # k /\ w[i] = s[i + 1]
          BY <1>1, <2>1, <2>3, <2>4, <4>2
        <5> QED  BY <2>5, <5>1 DEF Members
      <4> QED  BY <1>1, <2>1, <2>4, <4>1, <4>2
    <3>2. ASSUME NEW i \in DOMAIN s, s[i] # Utils PROVE s[i] \in Members(w)
      <4>1. i # k  BY <2>1, <3>2
      <4> QED  BY <2>6, <4>1 DEF Members
    <3> QED  BY <3>1, <3>2 DEF Members
  <2>9. ASSUME NEW i \in DOMAIN s, NEW j \in DOMAIN s, i < j, s[i] # Utils, s[j] # Utils
        PROVE  Before(w, s[i], s[j])
    <3>1. i # k /\ j # k  BY <2>1, <2>9
    <3> DEFINE i2 == IF i < k THEN i ELSE i - 1
               j2 == IF j < k THEN j ELSE j - 1
    <3>2. i2 \in DOMAIN w /\ j2 \in DOMAIN w /\ w[i2] = s[i] /\ w[j2] = s[j]  BY <2>6, <3>1
    <3>3. i2 < j2  BY <1>1, <2>1, <2>9, <3>1
    <3> QED  BY <3>2, <3>3 DEF Before
  <2> QED  BY <2>3, <2>7, <2>8, <2>9 DEF w
<1> QED  BY <1>2, <1>3

\* The order is of modules still without utils.
LEMMA WithoutUtilsType ==
  ASSUME NEW s \in Seq(Modules)
  PROVE  WithoutUtils(s) \in Seq(Modules)
<1>1. CASE Utils \in Members(s)
  <2>1. (CHOOSE i \in DOMAIN s : s[i] = Utils) \in 1 .. Len(s)
    BY <1>1, LenProperties DEF Members
  <2> QED  BY <1>1, <2>1, RemoveAtProperties DEF WithoutUtils
<1>2. CASE Utils \notin Members(s)  BY <1>2 DEF WithoutUtils
<1> QED  BY <1>1, <1>2

--------------------------------------------------------------------------------
(***************************************************************************)
(* Declarations and the set that must go.                                   *)
(***************************************************************************)

\* Dependencies and nodes are modules.
LEMMA DeclarationTypes ==
  ASSUME NEW d \in Declaration
  PROVE  /\ d.found \subseteq Modules
         /\ d.installed \subseteq Modules
         /\ \A m \in Modules : /\ d.deps[m] \subseteq Modules
                               /\ d.optional[m] \subseteq Modules
         /\ \A m \in Modules : PredsOf(d, m) \subseteq Modules
         /\ NodesOf(d) \subseteq Modules
  BY DEF Declaration, PredsOf, RequiredOf, OptionalOf, NodesOf

\* The set filtering must remove is itself closed: it holds every node that is
\* unusable or requires one of its members.
LEMMA DoomedClosed ==
  ASSUME NEW d \in Declaration
  PROVE  DoomClosed(d, Doomed(d))
<1>1. Unusable(d) \subseteq Doomed(d)  BY DEF Unusable, Doomed, DoomClosed
<1>2. ASSUME NEW m \in NodesOf(d), RequiredOf(d, m) \cap Doomed(d) # {}
      PROVE  m \in Doomed(d)
  <2>1. PICK p \in RequiredOf(d, m) : p \in Doomed(d)  BY <1>2
  <2>2. ASSUME NEW S \in SUBSET NodesOf(d), DoomClosed(d, S) PROVE m \in S
    <3>1. p \in S  BY <2>1, <2>2 DEF Doomed
    <3> QED  BY <2>1, <2>2, <3>1 DEF DoomClosed
  <2> QED  BY <2>2 DEF Doomed
<1> QED  BY <1>1, <1>2 DEF DoomClosed

\* Installed modules none of which is reached by optional edges only survive,
\* if whatever they require survives or is one of them.
LEMMA Survivors ==
  ASSUME NEW d \in Declaration, NEW G \in SUBSET NodesOf(d),
         \A m \in G : /\ m \in InstalledIn(d) /\ ~OnlyOptional(d, m)
                      /\ RequiredOf(d, m) \cap Doomed(d) \subseteq G
  PROVE  G \subseteq Kept(d)
<1> DEFINE rest == Doomed(d) \ G
<1>1. DoomClosed(d, Doomed(d))  BY DoomedClosed
<1>2. DoomClosed(d, rest)  BY <1>1 DEF DoomClosed, Unusable
<1>3. rest \in SUBSET NodesOf(d)  BY DEF Doomed
<1>4. Doomed(d) \subseteq rest  BY <1>2, <1>3 DEF Doomed
<1> QED  BY <1>4 DEF Kept

--------------------------------------------------------------------------------
(***************************************************************************)
(* Sorting.                                                                 *)
(***************************************************************************)

\* Sorting: the scope holds kept modules with all their kept dependencies, and
\* what has been emitted repeats nothing and comes after what it depends on.
SortedPrefix(d, s, S) ==
  /\ Members(s) \subseteq S
  /\ Injective(s)
  /\ \A i \in DOMAIN s : \A p \in PredsOf(d, s[i]) \cap S : \E j \in DOMAIN s : j < i /\ s[j] = p

ClosedScope(d, S) ==
  /\ S \subseteq Kept(d)
  /\ \A m \in S : PredsOf(d, m) \cap Kept(d) \subseteq S

\* The ancestors of the target within a closed scope are again a closed scope.
LEMMA PathClosed ==
  ASSUME NEW d \in Declaration, NEW S, ClosedScope(d, S), NEW preds, NEW m,
         \A k \in S : preds[k] = PredsOf(d, k)
  PROVE  ClosedScope(d, UpTo(S, preds, m))
<1> DEFINE U == UpTo(S, preds, m)
<1>1. U \subseteq S  BY DEF UpTo
<1>2. ASSUME NEW k \in U, NEW p \in PredsOf(d, k) \cap Kept(d) PROVE p \in U
  <2>1. p \in S /\ p \in preds[k]  BY <1>1, <1>2 DEF ClosedScope
  <2>2. ASSUME NEW C \in SUBSET S, m \in C, \A n \in C : preds[n] \cap S \subseteq C
        PROVE  p \in C
    <3>1. k \in C  BY <1>2, <2>2 DEF UpTo
    <3> QED  BY <2>1, <2>2, <3>1
  <2> QED  BY <2>1, <2>2 DEF UpTo
<1> QED  BY <1>1, <1>2 DEF ClosedScope

\* Moving utils to the front of a sorted prefix of a closed scope gives a plan
\* setup can rely on.
LEMMA SoundFromSorted ==
  ASSUME NEW d \in Declaration, NEW s \in Seq(Modules), NEW S \in SUBSET Modules,
         ClosedScope(d, S), SortedPrefix(d, s, S)
  PROVE  SoundPlan(d, << Utils >> \o WithoutUtils(s))
<1> DEFINE w == WithoutUtils(s)
           r == << Utils >> \o w
<1>1. Injective(s)  BY DEF SortedPrefix
<1>2. /\ w \in Seq(Modules)
      /\ Injective(w)
      /\ Members(w) = Members(s) \ {Utils}
      /\ \A i, j \in DOMAIN s : (i < j /\ s[i] # Utils /\ s[j] # Utils) => Before(w, s[i], s[j])
  BY <1>1, WithoutUtilsProperties
<1> HIDE DEF w
<1>3. << Utils >> \in Seq(Modules) /\ Len(<< Utils >>) = 1 /\ << Utils >>[1] = Utils
  BY UtilsAssumption
<1>4. /\ Len(w) \in Nat /\ DOMAIN w = 1 .. Len(w)
      /\ r \in Seq(Modules) /\ Len(r) = Len(w) + 1 /\ DOMAIN r = 1 .. (Len(w) + 1)
      /\ r[1] = Utils /\ \A i \in DOMAIN w : i + 1 \in DOMAIN r /\ r[i + 1] = w[i]
  <2>1. Len(w) \in Nat /\ DOMAIN w = 1 .. Len(w)  BY <1>2, LenProperties
  <2>2. /\ r \in Seq(Modules) /\ Len(r) = 1 + Len(w)
        /\ \A i \in 1 .. (1 + Len(w)) : r[i] = IF i <= 1 THEN << Utils >>[i] ELSE w[i - 1]
    BY <1>2, <1>3, ConcatProperties
  <2> HIDE DEF r
  <2>3. DOMAIN r = 1 .. (Len(w) + 1)  BY <2>1, <2>2, LenProperties
  <2> QED  BY <1>3, <2>1, <2>2, <2>3
<1> HIDE DEF r
<1>5. \A i \in DOMAIN r : i # 1 => i - 1 \in DOMAIN w /\ r[i] = w[i - 1]  BY <1>4
<1>6. \A i \in DOMAIN w : w[i] \in Members(s) \ {Utils}  BY <1>2 DEF Members
<1>7. ASSUME NEW i \in DOMAIN r, NEW j \in DOMAIN r, r[i] = r[j] PROVE i = j
  <2>1. CASE i = 1 /\ j # 1  BY <1>4, <1>5, <1>6, <1>7, <2>1
  <2>2. CASE i # 1 /\ j = 1  BY <1>4, <1>5, <1>6, <1>7, <2>2
  <2>3. CASE i # 1 /\ j # 1
    <3>1. i - 1 \in DOMAIN w /\ j - 1 \in DOMAIN w /\ w[i - 1] = w[j - 1]  BY <1>5, <1>7, <2>3
    <3>2. i - 1 = j - 1  BY <1>2, <3>1 DEF Injective
    <3> QED  BY <1>4, <3>2
  <2> QED  BY <2>1, <2>2, <2>3
<1>8. ASSUME NEW m \in Members(r) \ {Utils}
      PROVE  /\ m \in Kept(d)
             /\ RequiredOf(d, m) \cap Doomed(d) = {}
             /\ \A p \in PredsOf(d, m) \ {Utils} : p \in Kept(d) => Before(r, p, m)
  <2>1. PICK k \in DOMAIN s : s[k] = m
    <3>1. PICK i \in DOMAIN r : r[i] = m  BY <1>8 DEF Members
    <3>2. m \in Members(s)  BY <1>4, <1>5, <1>6, <1>8, <3>1
    <3> QED  BY <3>2 DEF Members
  <2>2. m \in S /\ m \in Kept(d)  BY <2>1 DEF SortedPrefix, ClosedScope, Members
  <2>3. RequiredOf(d, m) \cap Doomed(d) = {}
    BY <2>2, DoomedClosed DEF Kept, DoomClosed
  <2>4. ASSUME NEW p \in PredsOf(d, m) \ {Utils}, p \in Kept(d) PROVE Before(r, p, m)
    <3>1. p \in S  BY <2>2, <2>4 DEF ClosedScope
    <3>2. PICK j \in DOMAIN s : j < k /\ s[j] = p  BY <2>1, <2>4, <3>1 DEF SortedPrefix
    <3>3. Before(w, p, m)  BY <1>2, <1>8, <2>1, <2>4, <3>2
    <3>4. PICK a, b \in DOMAIN w : a < b /\ w[a] = p /\ w[b] = m  BY <3>3 DEF Before
    <3>5. a + 1 \in DOMAIN r /\ b + 1 \in DOMAIN r /\ a + 1 < b + 1 /\ r[a + 1] = p /\ r[b + 1] = m
      BY <1>4, <3>4
    <3> QED  BY <3>5 DEF Before
  <2> QED  BY <2>2, <2>3, <2>4
<1> QED  BY <1>4, <1>7, <1>8 DEF SoundPlan, r, w

--------------------------------------------------------------------------------
(***************************************************************************)
(* The order in which a lexicographical topological sort emits.              *)
(***************************************************************************)

\* What has been emitted before position i.
Emitted(s, i) == {s[j] : j \in 1 .. (i - 1)}

\* Each module emitted was ready and came first, by name, of those that were.
GreedyPrefix(d, s, S) ==
  \A i \in DOMAIN s :
    /\ s[i] \in ReadyAfter(d, S, Emitted(s, i))
    /\ \A n \in ReadyAfter(d, S, Emitted(s, i)) : n # s[i] => LessThan(s[i], n)

\* Names compare one way only.
LEMMA LessThanAsymmetric ==
  ASSUME NEW m \in Modules, NEW n \in Modules, LessThan(m, n), LessThan(n, m)
  PROVE  FALSE
BY RankAssumption DEF LessThan

\* Emitting the least module that is ready keeps the prefix greedy.
LEMMA EmitGreedy ==
  ASSUME NEW d, NEW s \in Seq(Modules), NEW S, NEW m \in Modules,
         GreedyPrefix(d, s, S),
         m \in ReadyAfter(d, S, Members(s)),
         \A n \in ReadyAfter(d, S, Members(s)) : n # m => LessThan(m, n)
  PROVE  GreedyPrefix(d, Append(s, m), S)
<1> DEFINE t == Append(s, m)
<1>1. /\ DOMAIN t = 1 .. (Len(s) + 1) /\ DOMAIN s = 1 .. Len(s) /\ Len(s) \in Nat
      /\ \A i \in DOMAIN s : t[i] = s[i]
      /\ t[Len(s) + 1] = m
  BY AppendMembers
<1> HIDE DEF t
<1>2. ASSUME NEW i \in DOMAIN s PROVE Emitted(t, i) = Emitted(s, i) /\ t[i] = s[i]
  <2>1. \A j \in 1 .. (i - 1) : t[j] = s[j]  BY <1>1
  <2> QED  BY <1>1, <2>1 DEF Emitted
<1>3. Emitted(t, Len(s) + 1) = Members(s)
  <2>1. 1 .. ((Len(s) + 1) - 1) = DOMAIN s  BY <1>1
  <2> QED  BY <1>1, <2>1 DEF Emitted, Members
<1>4. \A i \in DOMAIN t : i \in DOMAIN s \/ i = Len(s) + 1  BY <1>1
<1> QED  BY <1>1, <1>2, <1>3, <1>4 DEF GreedyPrefix, t

\* A greedy order repeats nothing.
LEMMA GreedyInjective ==
  ASSUME NEW d, NEW s \in Seq(Modules), NEW S, GreedyPrefix(d, s, S)
  PROVE  Injective(s)
<1>1. DOMAIN s = 1 .. Len(s) /\ Len(s) \in Nat  BY LenProperties
<1>2. ASSUME NEW i \in DOMAIN s, NEW j \in DOMAIN s, j < i PROVE s[j] # s[i]
  <2>1. s[j] \in Emitted(s, i)  BY <1>1, <1>2 DEF Emitted
  <2> QED  BY <1>2, <2>1 DEF GreedyPrefix, ReadyAfter
<1>3. \A i, j \in DOMAIN s : i < j \/ j < i \/ i = j  BY <1>1
<1> QED  BY <1>2, <1>3 DEF Injective

\* In a sequence that repeats nothing any two members have their order.
LEMMA BeforeTotal ==
  ASSUME NEW s \in Seq(Modules), Injective(s), NEW x \in Members(s), NEW y \in Members(s)
  PROVE  /\ x # y => Before(s, x, y) \/ Before(s, y, x)
         /\ ~(Before(s, x, y) /\ Before(s, y, x))
         /\ ~Before(s, x, x)
<1>1. DOMAIN s = 1 .. Len(s) /\ Len(s) \in Nat  BY LenProperties
<1>2. PICK i, j \in DOMAIN s : s[i] = x /\ s[j] = y  BY DEF Members
<1>3. x # y => i < j \/ j < i  BY <1>1, <1>2
<1>4. /\ Before(s, x, y) => i < j
      /\ Before(s, y, x) => j < i
      /\ Before(s, x, x) => i < i
  BY <1>2 DEF Before, Injective
<1> QED  BY <1>1, <1>2, <1>3, <1>4 DEF Before

\* Moving utils to the front changes the order of no others.
LEMMA UtilsFirstOrder ==
  ASSUME NEW s \in Seq(Modules), Injective(s),
         NEW x \in Members(s) \ {Utils}, NEW y \in Members(s) \ {Utils}
  PROVE  /\ Before(WithoutUtils(s), x, y) <=> Before(s, x, y)
         /\ Before(<< Utils >> \o WithoutUtils(s), x, y) <=> Before(s, x, y)
<1> DEFINE w == WithoutUtils(s)
           r == << Utils >> \o w
<1>1. /\ w \in Seq(Modules) /\ Injective(w)
      /\ Members(w) = Members(s) \ {Utils}
      /\ \A i, j \in DOMAIN s : (i < j /\ s[i] # Utils /\ s[j] # Utils) => Before(w, s[i], s[j])
  BY WithoutUtilsProperties
<1> HIDE DEF w
<1>2. Before(s, x, y) => Before(w, x, y)  BY <1>1 DEF Before
<1>3. Before(s, y, x) => Before(w, y, x)  BY <1>1 DEF Before
<1>4. Before(w, x, y) <=> Before(s, x, y)
  <2>1. ~(Before(w, x, y) /\ Before(w, y, x)) /\ ~Before(w, x, x)  BY <1>1, BeforeTotal
  <2>2. x # y => Before(s, x, y) \/ Before(s, y, x)  BY BeforeTotal
  <2> QED  BY <1>2, <1>3, <2>1, <2>2
<1>5. << Utils >> \in Seq(Modules) /\ Len(<< Utils >>) = 1 /\ << Utils >>[1] = Utils
  BY UtilsAssumption
<1>6. /\ Len(w) \in Nat /\ DOMAIN w = 1 .. Len(w)
      /\ DOMAIN r = 1 .. (Len(w) + 1)
      /\ r[1] = Utils /\ \A i \in DOMAIN w : r[i + 1] = w[i]
  <2>1. Len(w) \in Nat /\ DOMAIN w = 1 .. Len(w)  BY <1>1, LenProperties
  <2>2. /\ r \in Seq(Modules) /\ Len(r) = 1 + Len(w)
        /\ \A i \in 1 .. (1 + Len(w)) : r[i] = IF i <= 1 THEN << Utils >>[i] ELSE w[i - 1]
    BY <1>1, <1>5, ConcatProperties
  <2> HIDE DEF r
  <2>3. DOMAIN r = 1 .. (Len(w) + 1)  BY <2>1, <2>2, LenProperties
  <2> QED  BY <1>5, <2>1, <2>2, <2>3
<1> HIDE DEF r
<1>7. ASSUME Before(w, x, y) PROVE Before(r, x, y)
  <2>1. PICK i, j \in DOMAIN w : i < j /\ w[i] = x /\ w[j] = y  BY <1>7 DEF Before
  <2>2. i + 1 \in DOMAIN r /\ j + 1 \in DOMAIN r /\ i + 1 < j + 1  BY <1>6, <2>1
  <2>3. r[i + 1] = x /\ r[j + 1] = y  BY <1>6, <2>1
  <2> QED  BY <2>2, <2>3 DEF Before
<1>8. ASSUME Before(r, x, y) PROVE Before(w, x, y)
  <2>1. PICK i, j \in DOMAIN r : i < j /\ r[i] = x /\ r[j] = y  BY <1>8 DEF Before
  <2>2. i # 1 /\ j # 1  BY <1>6, <2>1
  <2>3. i - 1 \in DOMAIN w /\ j - 1 \in DOMAIN w /\ i - 1 < j - 1  BY <1>6, <2>1, <2>2
  <2>4. w[i - 1] = r[(i - 1) + 1] /\ w[j - 1] = r[(j - 1) + 1]  BY <1>6, <2>3
  <2>5. (i - 1) + 1 = i /\ (j - 1) + 1 = j  BY <1>6
  <2>6. w[i - 1] = x /\ w[j - 1] = y  BY <2>1, <2>4, <2>5
  <2> QED  BY <2>3, <2>6 DEF Before
<1> QED  BY <1>4, <1>7, <1>8 DEF r, w

\* Sorting a part that is closed under predecessors emits it in the order in which
\* sorting the whole does.
LEMMA GreedyProjection ==
  ASSUME NEW d, NEW S \in SUBSET Modules, NEW U \in SUBSET S,
         \A m \in U : PredsOf(d, m) \cap S \subseteq U,
         NEW whole \in Seq(Modules), GreedyPrefix(d, whole, S), Members(whole) = S,
         NEW s \in Seq(Modules), GreedyPrefix(d, s, U), Members(s) = U
  PROVE  \A x, y : Before(s, x, y) => Before(whole, x, y)
<1> DEFINE Crossed == {i \in DOMAIN s : \E j \in DOMAIN s : i < j /\ ~Before(whole, s[i], s[j])}
<1>1. /\ DOMAIN s = 1 .. Len(s) /\ Len(s) \in Nat
      /\ DOMAIN whole = 1 .. Len(whole) /\ Len(whole) \in Nat
  BY LenProperties
<1>2. Injective(s) /\ Injective(whole)  BY GreedyInjective
<1>3. ASSUME Crossed = {} PROVE \A x, y : Before(s, x, y) => Before(whole, x, y)
  BY <1>3 DEF Before
<1>4. ASSUME Crossed # {} PROVE FALSE
  \* i is the first position of s with a crossing, and q that of the first module
  \* of whole among those s emits from i on.
  <2>1. PICK i \in Crossed : \A k \in Crossed : i <= k
    <3>1. Crossed \in SUBSET Nat  BY <1>1
    <3> HIDE DEF Crossed
    <3> QED  BY <1>4, <3>1, LeastPosition
  <2>2. PICK j \in DOMAIN s : i < j /\ ~Before(whole, s[i], s[j])  BY <2>1
  <2>3. i \in DOMAIN s  BY <2>1
  <2> DEFINE done == Emitted(s, i)
             left == {s[k] : k \in i .. Len(s)}
             Places == {k \in DOMAIN whole : whole[k] \in left}
  <2>4. /\ U = done \cup left /\ done \cap left = {} /\ s[i] \in left /\ s[j] \in left
        /\ left \subseteq U
    <3>1. DOMAIN s = (1 .. (i - 1)) \cup (i .. Len(s)) /\ i \in i .. Len(s) /\ j \in i .. Len(s)
      BY <1>1, <2>2, <2>3
    <3>2. ASSUME NEW k \in 1 .. (i - 1), NEW l \in i .. Len(s) PROVE s[k] # s[l]
      <4>1. k \in DOMAIN s /\ l \in DOMAIN s /\ k # l  BY <1>1, <2>3
      <4> QED  BY <1>2, <4>1 DEF Injective
    <3> QED  BY <3>1, <3>2 DEF Emitted, Members
  <2>5. PICK q \in Places : \A k \in Places : q <= k
    <3>1. Places \in SUBSET Nat  BY <1>1
    <3>2. Places # {}
      <4>1. s[i] \in Members(whole)  BY <2>4
      <4> QED  BY <2>4, <4>1 DEF Members
    <3> HIDE DEF Places
    <3> QED  BY <3>1, <3>2, LeastPosition
  <2>6. q \in DOMAIN whole /\ whole[q] \in left  BY <2>5
  <2>7. ASSUME NEW x \in left PROVE x \notin Emitted(whole, q)
    <3> SUFFICES ASSUME NEW k \in 1 .. (q - 1), whole[k] = x PROVE FALSE  BY DEF Emitted
    <3>1. k \in DOMAIN whole /\ k < q  BY <1>1, <2>6
    <3>2. k \in Places  BY <2>7, <3>1
    <3>3. q <= k  BY <2>5, <3>2
    <3> QED  BY <1>1, <2>6, <3>1, <3>3
  <2>8. done \subseteq Emitted(whole, q)
    <3> SUFFICES ASSUME NEW k \in 1 .. (i - 1) PROVE s[k] \in Emitted(whole, q)  BY DEF Emitted
    <3>1. PICK l \in i .. Len(s) : s[l] = whole[q]  BY <2>6
    <3>2. k \in DOMAIN s /\ l \in DOMAIN s /\ k < l /\ ~(i <= k)  BY <1>1, <2>3, <3>1
    <3>3. k \notin Crossed  BY <2>1, <3>2
    <3>4. Before(whole, s[k], whole[q])  BY <3>1, <3>2, <3>3
    <3>5. PICK a, b \in DOMAIN whole : a < b /\ whole[a] = s[k] /\ whole[b] = whole[q]
      BY <3>4 DEF Before
    <3>6. b = q  BY <1>2, <2>6, <3>5 DEF Injective
    <3>7. a \in 1 .. (q - 1)  BY <1>1, <2>6, <3>5, <3>6
    <3> QED  BY <3>5, <3>7 DEF Emitted
  <2>9. /\ whole[q] \in ReadyAfter(d, S, Emitted(whole, q))
        /\ \A n \in ReadyAfter(d, S, Emitted(whole, q)) : n # whole[q] => LessThan(whole[q], n)
    BY <2>6 DEF GreedyPrefix
  <2>10. /\ s[i] \in ReadyAfter(d, U, done)
         /\ \A n \in ReadyAfter(d, U, done) : n # s[i] => LessThan(s[i], n)
    BY <2>3 DEF GreedyPrefix
  <2>11. Emitted(whole, q) \cap U \subseteq done  BY <2>4, <2>7
  <2> HIDE DEF done, left, Places, Crossed
  <2>12. whole[q] \in ReadyAfter(d, U, done)
    <3>1. whole[q] \in U /\ whole[q] \notin done  BY <2>4, <2>6
    <3>2. PredsOf(d, whole[q]) \cap U \subseteq done  BY <2>9, <2>11 DEF ReadyAfter
    <3> QED  BY <3>1, <3>2 DEF ReadyAfter
  <2>13. s[i] \in ReadyAfter(d, S, Emitted(whole, q))
    <3>1. s[i] \in S /\ s[i] \notin Emitted(whole, q)  BY <2>4, <2>7
    <3>2. PredsOf(d, s[i]) \cap S \subseteq U  BY <2>4
    <3>3. PredsOf(d, s[i]) \cap S \subseteq done  BY <2>10, <3>2 DEF ReadyAfter
    <3> QED  BY <2>8, <3>1, <3>3 DEF ReadyAfter
  <2>14. s[i] = whole[q]
    <3>1. s[i] \in Modules /\ whole[q] \in Modules  BY <2>4, <2>6
    <3> QED  BY <2>9, <2>10, <2>12, <2>13, <3>1, LessThanAsymmetric
  <2>15. PICK k \in DOMAIN whole : whole[k] = s[j]
    <3>1. s[j] \in Members(whole)  BY <2>4
    <3> QED  BY <3>1 DEF Members
  <2>16. k # q  BY <1>1, <1>2, <2>2, <2>3, <2>14, <2>15 DEF Injective
  <2>17. q <= k  BY <2>4, <2>5, <2>15 DEF Places
  <2>18. q < k  BY <1>1, <2>6, <2>15, <2>16, <2>17
  <2> QED  BY <2>2, <2>6, <2>14, <2>15, <2>18 DEF Before
<1> QED  BY <1>3, <1>4

\* Of the modules that are ready, the first by name is the one name compares less
\* than all others.
LEMMA FirstIsLeast ==
  ASSUME NEW R \in SUBSET Modules, NEW m \in R, \A n \in R : n # m => LessThan(m, n)
  PROVE  FirstByName(R) = m
<1>1. \A n \in R : Rank[n] \in Nat  BY RankAssumption
<1>2. \A n \in R : Rank[m] <= Rank[n]  BY <1>1 DEF LessThan
<1>3. ASSUME NEW k \in R, \A n \in R : Rank[k] <= Rank[n] PROVE k = m
  <2>1. Rank[k] <= Rank[m]  BY <1>3
  <2> QED  BY <1>1, <1>3, <2>1 DEF LessThan
<1> DEFINE first == CHOOSE k \in R : \A n \in R : Rank[k] <= Rank[n]
<1>4. first \in R /\ \A n \in R : Rank[first] <= Rank[n]  BY <1>2
<1>5. FirstByName(R) = first  BY DEF FirstByName
<1> QED  BY <1>3, <1>4, <1>5

\* The first k elements of a sequence, one at a time.
LEMMA PrefixGrows ==
  ASSUME NEW s \in Seq(Modules), NEW k \in DOMAIN s
  PROVE  /\ SubSeq(s, 1, k) = Append(SubSeq(s, 1, k - 1), s[k])
         /\ Members(SubSeq(s, 1, k - 1)) = Emitted(s, k)
<1>1. DOMAIN s = 1 .. Len(s) /\ Len(s) \in Nat /\ k \in 1 .. Len(s)  BY LenProperties
<1>2. \A i \in 1 .. Len(s) : s[i] \in Modules  BY ElementOfSeq
<1> DEFINE a == SubSeq(s, 1, k - 1)
           b == SubSeq(s, 1, k)
<1>3. a \in Seq(Modules) /\ Len(a) = k - 1 /\ \A i \in 1 .. (k - 1) : a[i] = s[i]
  <2>1. 1 \in Int /\ k - 1 \in Int /\ \A i \in 1 .. (k - 1) : s[i] \in Modules  BY <1>1, <1>2
  <2>2. /\ a \in Seq(Modules) /\ Len(a) = IF 1 <= k - 1 THEN (k - 1) - 1 + 1 ELSE 0
        /\ \A i \in 1 .. ((k - 1) - 1 + 1) : a[i] = s[1 + i - 1]
    BY <2>1, SubSeqProperties
  <2> QED  BY <1>1, <2>2
<1>4. b \in Seq(Modules) /\ Len(b) = k /\ \A i \in 1 .. k : b[i] = s[i]
  <2>1. 1 \in Int /\ k \in Int /\ \A i \in 1 .. k : s[i] \in Modules  BY <1>1, <1>2
  <2>2. /\ b \in Seq(Modules) /\ Len(b) = IF 1 <= k THEN k - 1 + 1 ELSE 0
        /\ \A i \in 1 .. (k - 1 + 1) : b[i] = s[1 + i - 1]
    BY <2>1, SubSeqProperties
  <2> QED  BY <1>1, <2>2
<1> DEFINE c == Append(a, s[k])
<1>5. /\ c \in Seq(Modules) /\ DOMAIN c = 1 .. k
      /\ \A i \in 1 .. (k - 1) : c[i] = a[i]
      /\ c[k] = s[k]
  <2>1. s[k] \in Modules  BY <1>1, <1>2
  <2>2. /\ c \in Seq(Modules) /\ DOMAIN c = 1 .. (Len(a) + 1) /\ DOMAIN a = 1 .. Len(a)
        /\ \A i \in DOMAIN a : c[i] = a[i]
        /\ c[Len(a) + 1] = s[k]
    BY <1>3, <2>1, AppendMembers
  <2> HIDE DEF a, c
  <2>3. Len(a) + 1 = k  BY <1>1, <1>3
  <2> QED  BY <1>1, <1>3, <2>2, <2>3
<1> HIDE DEF a, b, c
<1>6. b = c
  <2>1. DOMAIN b = 1 .. k  BY <1>4, LenProperties
  <2>2. Len(c) = k  BY <1>1, <1>5, LenProperties
  <2>3. \A i \in 1 .. k : b[i] = c[i]
    <3>1. \A i \in 1 .. k : i \in 1 .. (k - 1) \/ i = k  BY <1>1
    <3> QED  BY <1>1, <1>3, <1>4, <1>5, <3>1
  <2> QED  BY <1>4, <1>5, <2>2, <2>3, SeqEqual
<1>7. Members(a) = Emitted(s, k)
  <2>1. DOMAIN a = 1 .. (k - 1)  BY <1>3, LenProperties
  <2> QED  BY <1>3, <2>1 DEF Members, Emitted
<1> QED  BY <1>6, <1>7 DEF a, b, c

--------------------------------------------------------------------------------
(***************************************************************************)
(* The reference planner.                                                   *)
(***************************************************************************)

\* The reference planner's recursion has a solution: each prefix is the one before
\* it and the first module, by name, of those then ready.
LEMMA ReferencePrefixes ==
  ASSUME NEW d, NEW S, IsFiniteSet(S)
  PROVE  \E first :
           /\ ReferenceOrder(d, S) = first[Cardinality(S)]
           /\ first[0] = << >>
           /\ \A k \in 1 .. Cardinality(S) :
                first[k] = Append(first[k - 1], FirstByName(ReadyAfter(d, S, Members(first[k - 1]))))
<1> DEFINE N == Cardinality(S)
           Extend(s) == Append(s, FirstByName(ReadyAfter(d, S, Members(s))))
           Solves(f, n) == f = [k \in 0 .. n |-> IF k = 0 THEN << >> ELSE Extend(f[k - 1])]
           Solvable == {n \in Nat : \E f : Solves(f, n)}
<1>1. N \in Nat  BY FS_CardinalityType
<1> HIDE DEF Extend
<1>2. 0 \in Solvable
  <2>1. Solves([k \in 0 .. 0 |-> << >>], 0)  OBVIOUS
  <2> HIDE DEF Solves
  <2> QED  BY <2>1
<1>3. ASSUME NEW n \in Solvable PROVE n + 1 \in Solvable
  <2>1. PICK f : Solves(f, n)  OBVIOUS
  <2> DEFINE h == [k \in 0 .. (n + 1) |-> IF k = n + 1 THEN Extend(f[n]) ELSE f[k]]
  <2>2. ASSUME NEW k \in 0 .. (n + 1) PROVE h[k] = IF k = 0 THEN << >> ELSE Extend(h[k - 1])
    <3>1. CASE k = 0  BY <2>1, <3>1
    <3>2. CASE k = n + 1  BY <3>2
    <3>3. CASE k \in 1 .. n
      <4>1. h[k] = f[k] /\ h[k - 1] = f[k - 1]  BY <3>3
      <4> QED  BY <2>1, <3>3, <4>1
    <3> QED  BY <3>1, <3>2, <3>3
  <2>3. Solves(h, n + 1)  BY <2>2
  <2> HIDE DEF Solves, h
  <2> QED  BY <2>3
<1>4. N \in Solvable
  <2>1. Solvable \in SUBSET Nat  OBVIOUS
  <2> HIDE DEF Solvable
  <2>2. Solvable = Nat  BY <1>2, <1>3, <2>1, SetInduction
  <2> QED  BY <1>1, <2>2
<1> DEFINE first == CHOOSE f : Solves(f, N)
<1>5. Solves(first, N)
  <2>1. \E f : Solves(f, N)  BY <1>4
  <2> HIDE DEF Solves
  <2> QED  BY <2>1
<1>6. ReferenceOrder(d, S) = first[N]  BY DEF ReferenceOrder, Extend
<1> HIDE DEF first
<1>7. first[0] = << >> /\ \A k \in 1 .. N : first[k] = Extend(first[k - 1])
  BY <1>1, <1>5
<1> QED  BY <1>6, <1>7 DEF Extend

\* A greedy order of all of S is as long as S is large.
LEMMA GreedyLength ==
  ASSUME NEW d, NEW S \in SUBSET Modules, NEW s \in Seq(Modules), GreedyPrefix(d, s, S)
  PROVE  /\ Members(s) \subseteq S
         /\ IsFiniteSet(S) /\ Cardinality(S) \in Nat
         /\ Len(s) = Cardinality(Members(s))
         /\ Len(s) <= Cardinality(S)
         /\ Len(s) = Cardinality(S) => Members(s) = S
<1>1. DOMAIN s = 1 .. Len(s) /\ Len(s) \in Nat  BY LenProperties
<1>2. Members(s) \subseteq S  BY DEF GreedyPrefix, ReadyAfter, Members
<1>3. IsFiniteSet(S) /\ Cardinality(S) \in Nat  BY ModulesFinite, FS_Subset, FS_CardinalityType
<1>4. Injective(s)  BY GreedyInjective
<1>5. s \in [1 .. Len(s) -> Members(s)]
  <2>1. s \in [1 .. Len(s) -> Modules]  BY LenProperties
  <2> QED  BY <1>1, <2>1 DEF Members
<1>6. s \in Surjection(1 .. Len(s), Members(s))
  BY <1>1, <1>5 DEF Surjection, Members
<1>7. s \in Injection(1 .. Len(s), Members(s))
  BY <1>1, <1>4, <1>5 DEF Injection, IsInjective, Injective
<1>8. IsFiniteSet(1 .. Len(s)) /\ Cardinality(1 .. Len(s)) = Len(s)  BY <1>1, FS_Interval
<1>9. Cardinality(Members(s)) = Len(s)  BY <1>6, <1>7, <1>8, FS_Surjection
<1>10. /\ Cardinality(Members(s)) <= Cardinality(S)
       /\ Cardinality(S) = Cardinality(Members(s)) => S = Members(s)
  BY <1>2, <1>3, FS_Subset
<1> QED  BY <1>2, <1>3, <1>9, <1>10

\* There is one greedy order of a set, and the reference planner finds it.
LEMMA GreedyIsReference ==
  ASSUME NEW d, NEW S \in SUBSET Modules,
         NEW s \in Seq(Modules), GreedyPrefix(d, s, S), Members(s) = S
  PROVE  s = ReferenceOrder(d, S)
<1>1. DOMAIN s = 1 .. Len(s) /\ Len(s) \in Nat  BY LenProperties
<1>2. IsFiniteSet(S) /\ Len(s) = Cardinality(S)  BY GreedyLength
<1>3. PICK first :
        /\ ReferenceOrder(d, S) = first[Len(s)]
        /\ first[0] = << >>
        /\ \A k \in 1 .. Len(s) :
             first[k] = Append(first[k - 1], FirstByName(ReadyAfter(d, S, Members(first[k - 1]))))
  BY <1>2, ReferencePrefixes
<1> DEFINE Agree == {k \in Nat : k <= Len(s) => first[k] = SubSeq(s, 1, k)}
<1>4. 0 \in Agree
  <2>1. SubSeq(s, 1, 0) = << >>  BY SubSeqEmpty
  <2> QED  BY <1>3, <2>1
<1>5. ASSUME NEW k \in Agree PROVE k + 1 \in Agree
  <2> SUFFICES ASSUME k + 1 <= Len(s) PROVE first[k + 1] = SubSeq(s, 1, k + 1)  OBVIOUS
  <2>1. k + 1 \in DOMAIN s /\ k + 1 \in 1 .. Len(s) /\ (k + 1) - 1 = k  BY <1>1
  <2>2. first[k] = SubSeq(s, 1, k)  BY <1>1
  <2>3. /\ SubSeq(s, 1, k + 1) = Append(SubSeq(s, 1, k), s[k + 1])
        /\ Members(SubSeq(s, 1, k)) = Emitted(s, k + 1)
    BY <2>1, PrefixGrows
  <2>4. FirstByName(ReadyAfter(d, S, Emitted(s, k + 1))) = s[k + 1]
    <3>1. ReadyAfter(d, S, Emitted(s, k + 1)) \in SUBSET Modules  BY DEF ReadyAfter
    <3> QED  BY <2>1, <3>1, FirstIsLeast DEF GreedyPrefix
  <2>5. first[k + 1] = Append(first[k], FirstByName(ReadyAfter(d, S, Members(first[k]))))
    BY <1>3, <2>1
  <2> QED  BY <2>2, <2>3, <2>4, <2>5
<1>6. Len(s) \in Agree
  <2>1. Agree \in SUBSET Nat  OBVIOUS
  <2> HIDE DEF Agree
  <2>2. Agree = Nat  BY <1>4, <1>5, <2>1, SetInduction
  <2> QED  BY <1>1, <2>2
<1>7. SubSeq(s, 1, Len(s)) = s  BY SubSeqFull
<1> QED  BY <1>1, <1>3, <1>6, <1>7

\* Some module is ready as long as any is left, when nothing is circular.
LEMMA SomeReady ==
  ASSUME NEW d, NEW S \in SUBSET Modules, NEW done \in SUBSET S, done # S,
         ~Cyclic(S, [m \in Modules |-> PredsOf(d, m)])
  PROVE  ReadyAfter(d, S, done) # {}
<1> DEFINE preds == [m \in Modules |-> PredsOf(d, m)]
           left == S \ done
<1>1. left \in SUBSET S /\ left # {}  OBVIOUS
<1>2. PICK m \in left : preds[m] \cap left = {}  BY <1>1 DEF Cyclic
<1>3. PredsOf(d, m) \cap S \subseteq done  BY <1>2
<1> QED  BY <1>3 DEF ReadyAfter

\* And one of them is the first by name.
LEMMA SomeFirst ==
  ASSUME NEW R \in SUBSET Modules, R # {}
  PROVE  /\ FirstByName(R) \in R
         /\ \A n \in R : n # FirstByName(R) => LessThan(FirstByName(R), n)
<1> DEFINE Ranks == {Rank[m] : m \in R}
<1>1. \A m \in R : Rank[m] \in Nat  BY RankAssumption
<1>2. PICK r \in Ranks : \A k \in Ranks : r <= k
  <2>1. Ranks \in SUBSET Nat /\ Ranks # {}  BY <1>1
  <2> HIDE DEF Ranks
  <2> QED  BY <2>1, LeastPosition
<1>3. PICK m \in R : Rank[m] = r  OBVIOUS
<1>4. ASSUME NEW n \in R, n # m PROVE LessThan(m, n)
  <2>1. Rank[m] <= Rank[n]  BY <1>2, <1>3
  <2>2. Rank[m] # Rank[n]  BY <1>4, RankAssumption
  <2> QED  BY <1>1, <2>1, <2>2 DEF LessThan
<1>5. FirstByName(R) = m  BY <1>4, FirstIsLeast
<1> QED  BY <1>4, <1>5

\* The reference planner's order of a set without cycles is the greedy order of it.
LEMMA ReferenceIsGreedy ==
  ASSUME NEW d, NEW S \in SUBSET Modules, ~Cyclic(S, [m \in Modules |-> PredsOf(d, m)])
  PROVE  /\ ReferenceOrder(d, S) \in Seq(Modules)
         /\ GreedyPrefix(d, ReferenceOrder(d, S), S)
         /\ Members(ReferenceOrder(d, S)) = S
<1> DEFINE N == Cardinality(S)
<1>1. IsFiniteSet(S) /\ N \in Nat  BY ModulesFinite, FS_Subset, FS_CardinalityType
<1>2. PICK first :
        /\ ReferenceOrder(d, S) = first[N]
        /\ first[0] = << >>
        /\ \A k \in 1 .. N :
             first[k] = Append(first[k - 1], FirstByName(ReadyAfter(d, S, Members(first[k - 1]))))
  BY <1>1, ReferencePrefixes
<1> DEFINE Greedy(k) == first[k] \in Seq(Modules) /\ Len(first[k]) = k /\ GreedyPrefix(d, first[k], S)
           Reached == {k \in Nat : k <= N => Greedy(k)}
<1>3. 0 \in Reached
  <2>1. << >> \in Seq(Modules) /\ Len(<< >>) = 0 /\ DOMAIN << >> = {}  OBVIOUS
  <2>2. GreedyPrefix(d, << >>, S)  BY <2>1 DEF GreedyPrefix
  <2> QED  BY <1>2, <2>1, <2>2
<1>4. ASSUME NEW k \in Reached PROVE k + 1 \in Reached
  <2> SUFFICES ASSUME k + 1 <= N PROVE Greedy(k + 1)  OBVIOUS
  <2> DEFINE s == first[k]
             ready == ReadyAfter(d, S, Members(s))
             m == FirstByName(ready)
  <2>1. s \in Seq(Modules) /\ Len(s) = k /\ GreedyPrefix(d, s, S) /\ k \in Nat  BY <1>1
  <2>2. first[k + 1] = Append(s, m)
    <3>1. k + 1 \in 1 .. N /\ (k + 1) - 1 = k  BY <1>1
    <3> QED  BY <1>2, <3>1
  <2> HIDE DEF s
  <2>3. Members(s) \in SUBSET S /\ Members(s) # S
    <3>1. Members(s) \subseteq S /\ Len(s) = Cardinality(Members(s))  BY <2>1, GreedyLength
    <3>2. Len(s) # N  BY <1>1, <2>1
    <3> QED  BY <3>1, <3>2
  <2>4. ready # {}  BY <2>3, SomeReady
  <2>5. ready \in SUBSET Modules  BY DEF ReadyAfter
  <2> HIDE DEF ready
  <2>6. m \in ready /\ \A n \in ready : n # m => LessThan(m, n)  BY <2>4, <2>5, SomeFirst
  <2>7. m \in Modules  BY <2>5, <2>6
  <2> HIDE DEF m
  <2>8. GreedyPrefix(d, Append(s, m), S)  BY <2>1, <2>6, <2>7, EmitGreedy DEF ready
  <2>9. Append(s, m) \in Seq(Modules) /\ Len(Append(s, m)) = k + 1
    BY <2>1, <2>7, AppendProperties
  <2> QED  BY <2>2, <2>8, <2>9
<1>5. Greedy(N)
  <2>1. Reached \in SUBSET Nat  OBVIOUS
  <2> HIDE DEF Reached
  <2>2. Reached = Nat  BY <1>3, <1>4, <2>1, SetInduction
  <2>3. N \in Reached  BY <1>1, <2>2
  <2> QED  BY <1>1, <2>3 DEF Reached
<1>6. Members(first[N]) = S  BY <1>5, GreedyLength
<1> QED  BY <1>2, <1>5, <1>6

\* A greedy order has every module after those of its dependencies it is sorted
\* with.
LEMMA GreedySorted ==
  ASSUME NEW d, NEW S \in SUBSET Modules, NEW s \in Seq(Modules), GreedyPrefix(d, s, S)
  PROVE  SortedPrefix(d, s, S)
<1>1. Members(s) \subseteq S /\ Injective(s)  BY GreedyLength, GreedyInjective
<1>2. DOMAIN s = 1 .. Len(s) /\ Len(s) \in Nat  BY LenProperties
<1>3. ASSUME NEW i \in DOMAIN s, NEW p \in PredsOf(d, s[i]) \cap S
      PROVE  \E j \in DOMAIN s : j < i /\ s[j] = p
  <2>1. p \in Emitted(s, i)  BY <1>3 DEF GreedyPrefix, ReadyAfter
  <2>2. PICK j \in 1 .. (i - 1) : s[j] = p  BY <2>1 DEF Emitted
  <2>3. j \in DOMAIN s /\ j < i  BY <1>2, <2>2
  <2> QED  BY <2>2, <2>3
<1> QED  BY <1>1, <1>3 DEF SortedPrefix

\* Plans of a part and of the whole agree on the order of the part's modules.
LEMMA PlansAgree ==
  ASSUME NEW d, NEW S \in SUBSET Modules, NEW U \in SUBSET S,
         \A m \in U : PredsOf(d, m) \cap S \subseteq U,
         NEW whole \in Seq(Modules), GreedyPrefix(d, whole, S), Members(whole) = S,
         NEW s \in Seq(Modules), GreedyPrefix(d, s, U), Members(s) = U,
         NEW x \in U \ {Utils}, NEW y \in U \ {Utils}
  PROVE  Before(<< Utils >> \o WithoutUtils(s), x, y) <=> Before(WithoutUtils(whole), x, y)
<1>1. Injective(s) /\ Injective(whole)  BY GreedyInjective
<1>2. /\ Before(s, x, y) => Before(whole, x, y)
      /\ Before(s, y, x) => Before(whole, y, x)
  BY GreedyProjection
<1>3. x # y => Before(s, x, y) \/ Before(s, y, x)  BY <1>1, BeforeTotal
<1>4. ~(Before(whole, x, y) /\ Before(whole, y, x)) /\ ~Before(whole, x, x)  BY <1>1, BeforeTotal
<1>5. Before(s, x, y) <=> Before(whole, x, y)  BY <1>2, <1>3, <1>4
<1>6. Before(<< Utils >> \o WithoutUtils(s), x, y) <=> Before(s, x, y)  BY <1>1, UtilsFirstOrder
<1>7. Before(WithoutUtils(whole), x, y) <=> Before(whole, x, y)  BY <1>1, UtilsFirstOrder
<1> QED  BY <1>5, <1>6, <1>7

\* The reference planner's plan, whenever there is one, can be set up front to
\* back and holds the target; without a target it holds all that survives.
THEOREM PlanForSound ==
  ASSUME NEW d \in Declaration, NEW t, PlanFor(d, t) # << >>
  PROVE  /\ PlanFor(d, t) \in Seq(Modules)
         /\ t = Utils => PlanFor(d, t) = << Utils >>
         /\ t # Utils => SoundPlan(d, PlanFor(d, t))
         /\ t \in {NoTarget} \cup Members(PlanFor(d, t))
         /\ t = NoTarget => Members(PlanFor(d, t)) = {Utils} \cup Kept(d)
<1> DEFINE preds == [m \in Modules |-> PredsOf(d, m)]
           kept  == Kept(d)
           S     == IF t = NoTarget THEN kept ELSE UpTo(kept, preds, t)
           s     == ReferenceOrder(d, S)
           plan  == << Utils >> \o WithoutUtils(s)
<1>1. CASE t = Utils
  <2>1. PlanFor(d, t) = << Utils >>  BY <1>1 DEF PlanFor
  <2>2. Members(<< Utils >>) = {Utils} /\ << Utils >> \in Seq(Modules)
    BY UtilsAssumption DEF Members
  <2> QED  BY <1>1, <2>1, <2>2, UtilsAssumption, NoTargetAssumption
<1>2. CASE t # Utils
  <2>1. ~Cyclic(kept, preds) /\ t \in {NoTarget} \cup kept /\ PlanFor(d, t) = plan
    BY <1>2 DEF PlanFor
  <2>2. kept \in SUBSET Modules /\ NoTarget \notin kept
    BY DeclarationTypes, NoTargetAssumption DEF Kept
  <2>3. ClosedScope(d, kept)  BY DEF ClosedScope
  <2>4. \A k \in kept : preds[k] = PredsOf(d, k)  BY <2>2
  <2> HIDE DEF kept, preds
  <2>5. ClosedScope(d, UpTo(kept, preds, t))  BY <2>3, <2>4, PathClosed
  <2>6. S \in SUBSET kept /\ ClosedScope(d, S) /\ (t # NoTarget => t \in S)
    BY <2>1, <2>3, <2>5 DEF UpTo
  <2> HIDE DEF S
  <2>7. S \in SUBSET Modules /\ ~Cyclic(S, preds)  BY <2>1, <2>2, <2>6 DEF Cyclic
  <2>8. s \in Seq(Modules) /\ GreedyPrefix(d, s, S) /\ Members(s) = S
    BY <2>7, ReferenceIsGreedy DEF preds
  <2>9. SortedPrefix(d, s, S) /\ Injective(s)  BY <2>7, <2>8, GreedySorted, GreedyInjective
  <2> HIDE DEF s
  <2>10. SoundPlan(d, plan)  BY <2>6, <2>7, <2>8, <2>9, SoundFromSorted
  <2>11. WithoutUtils(s) \in Seq(Modules) /\ Members(WithoutUtils(s)) = S \ {Utils}
    BY <2>8, <2>9, WithoutUtilsProperties
  <2>12. << Utils >> \in Seq(Modules)  BY UtilsAssumption
  <2>13. plan \in Seq(Modules) /\ Members(plan) = Members(<< Utils >>) \cup (S \ {Utils})
    <3> DEFINE first == << Utils >>
               rest  == WithoutUtils(s)
    <3>1. first \in Seq(Modules) /\ rest \in Seq(Modules)  BY <2>11, <2>12
    <3> HIDE DEF first, rest
    <3>2. first \o rest \in Seq(Modules) /\ Members(first \o rest) = Members(first) \cup Members(rest)
      BY <3>1, ConcatMembers
    <3> QED  BY <2>11, <3>2 DEF first, rest
  <2>14. Members(<< Utils >>) = {Utils}  BY DEF Members
  <2>15. t \in {NoTarget} \cup Members(plan)  BY <1>2, <2>6, <2>13
  <2>16. t = NoTarget => Members(plan) = {Utils} \cup Kept(d)
    <3>1. t = NoTarget => S = Kept(d)  BY DEF S, kept
    <3> QED  BY <2>13, <2>14, <3>1
  <2> QED  BY <1>2, <2>1, <2>10, <2>13, <2>15, <2>16
<1> QED  BY <1>1, <1>2

================================================================================
