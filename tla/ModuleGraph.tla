------------------------------ MODULE ModuleGraph ------------------------------
(***************************************************************************)
(* The data core/modules.py plans from: what each module file declares,     *)
(* the dependency graph it stands for, and what a correct execution order   *)
(* of that graph is.  Pure definitions, no state.                           *)
(***************************************************************************)
EXTENDS Naturals, Sequences, FiniteSets, SequencesExt

CONSTANTS
  Modules,    \* every module that is discovered or named as a dependency
  Rank,       \* the place of a module's name in the string order of names
  Utils,      \* regress_stack.modules.utils
  NoTarget    \* the absent command line argument

ASSUME ModulesFinite == IsFiniteSet(Modules)
ASSUME RankAssumption ==
  /\ Rank \in [Modules -> Nat]
  /\ \A m, n \in Modules : Rank[m] = Rank[n] => m = n
ASSUME UtilsAssumption == Utils \in Modules
ASSUME NoTargetAssumption == NoTarget \notin Modules

\* Mutant: modules do not compare.
Incomparable(m, n) == TRUE

\* ModuleComp.__lt__: modules compare by name.
LessThan(m, n) == Rank[m] < Rank[n]

(***************************************************************************)
(* One declaration: the modules found by pkgutil.iter_modules, and for each *)
(* its DEPENDENCIES, its OPTIONAL_DEPENDENCIES and whether apt has all its  *)
(* PACKAGES installed.                                                      *)
(***************************************************************************)
Declaration == [ found    : SUBSET Modules,
                 deps     : [Modules -> SUBSET Modules],
                 optional : [Modules -> SUBSET Modules],
                 installed: SUBSET Modules ]

\* The edges a found module adds: a dependency declared twice is optional.
RequiredOf(d, m) == IF m \in d.found THEN d.deps[m] \ d.optional[m] ELSE {}
OptionalOf(d, m) == IF m \in d.found THEN d.optional[m] ELSE {}
PredsOf(d, m)    == RequiredOf(d, m) \cup OptionalOf(d, m)

\* The nodes: the modules found, and those only named by one of them.
NodesOf(d) == d.found \cup UNION {PredsOf(d, m) : m \in d.found}

\* add_node sets the attribute of a found module; a module that only an edge
\* has introduced has none and reads as not installed.
InstalledIn(d) == d.installed \cap d.found

(***************************************************************************)
(* What filtering must remove, defined without the loop: the least set that *)
(* holds the modules that are not installed or are reached by optional      *)
(* edges only, and every module one of whose required dependencies it holds.*)
(***************************************************************************)
OnlyOptional(d, m) == PredsOf(d, m) # {} /\ RequiredOf(d, m) = {}

Unusable(d) ==
  {m \in NodesOf(d) : m \notin InstalledIn(d) \/ OnlyOptional(d, m)}

DoomClosed(d, S) ==
  /\ Unusable(d) \subseteq S
  /\ \A m \in NodesOf(d) : RequiredOf(d, m) \cap S # {} => m \in S

Doomed(d) ==
  {m \in NodesOf(d) : \A S \in SUBSET NodesOf(d) : DoomClosed(d, S) => m \in S}

Kept(d) == NodesOf(d) \ Doomed(d)

(***************************************************************************)
(* Order.                                                                   *)
(***************************************************************************)
\* a comes before b in the sequence s.
Before(s, a, b) ==
  \E i, j \in DOMAIN s : i < j /\ s[i] = a /\ s[j] = b

Members(s) == {s[i] : i \in DOMAIN s}

\* Some nonempty part of S has, for each member, a predecessor inside the part.
Cyclic(S, preds) ==
  \E C \in SUBSET S : C # {} /\ \A m \in C : preds[m] \cap C # {}

\* Mutant: the target and what it names itself.
UpToDirect(S, preds, m) == S \cap (preds[m] \cup {m})

\* m and everything of S from which m is reachable.
UpTo(S, preds, m) ==
  {n \in S : \A C \in SUBSET S :
      (m \in C /\ \A k \in C : preds[k] \cap S \subseteq C) => n \in C}

(***************************************************************************)
(* The reference planner: repeatedly the least module of S all of whose       *)
(* dependencies in S have been taken, then utils moved to the front.  The     *)
(* empty sequence stands for an exception.                                   *)
(***************************************************************************)
\* The modules of S that a sort may emit once it has emitted done, and the first
\* of them by name.
ReadyAfter(d, S, done) == {m \in S \ done : PredsOf(d, m) \cap S \subseteq done}

FirstByName(ready) == CHOOSE m \in ready : \A n \in ready : Rank[m] <= Rank[n]

ReferenceOrder(d, S) ==
  LET first[k \in 0 .. Cardinality(S)] ==
        IF k = 0 THEN << >>
        ELSE Append(first[k - 1], FirstByName(ReadyAfter(d, S, Members(first[k - 1]))))
  IN first[Cardinality(S)]

\* order.remove(utils), when it is there.
WithoutUtils(s) ==
  IF Utils \in Members(s)
  THEN RemoveAt(s, CHOOSE i \in DOMAIN s : s[i] = Utils)
  ELSE s

PlanFor(d, t) ==
  LET preds == [m \in Modules |-> PredsOf(d, m)]
      kept  == Kept(d)
      Sorted(S) == << Utils >> \o WithoutUtils(ReferenceOrder(d, S))
  IN IF t = Utils THEN << Utils >>
     ELSE IF Cyclic(kept, preds) THEN << >>
     ELSE IF t = NoTarget THEN Sorted(kept)
     ELSE IF t \in kept THEN Sorted(UpTo(kept, preds, t))
     ELSE << >>

(***************************************************************************)
(* What setup relies on: an execution order starts with utils, repeats       *)
(* nothing, holds only modules that survive filtering, and has every kept    *)
(* dependency of a module, required or optional, before the module.          *)
(***************************************************************************)
SoundPlan(d, s) ==
  /\ Len(s) > 0 /\ s[1] = Utils
  /\ \A i, j \in DOMAIN s : s[i] = s[j] => i = j
  /\ \A m \in Members(s) \ {Utils} :
       /\ m \in Kept(d)
       /\ RequiredOf(d, m) \cap Doomed(d) = {}
       /\ \A p \in PredsOf(d, m) \ {Utils} : p \in Kept(d) => Before(s, p, m)
================================================================================
