------------------------------- MODULE MCPlanner -------------------------------
(***************************************************************************)
(* Small instances of Planner: every way a few modules can depend on one     *)
(* another.                                                                 *)
(***************************************************************************)
EXTENDS Planner

MCModules == {"a", "b", "c", "utils"}
MCRank == [m \in MCModules |->
            CASE m = "a" -> 1 [] m = "b" -> 2 [] m = "c" -> 3 [] m = "utils" -> 4]

Triple == {"a", "b", "c"}
Nothing == [m \in MCModules |-> {}]

\* Every pair of three modules unrelated, required or optional, and a may list
\* an optional dependency on b as a required one too; some not installed; c
\* found, or only named by the others.
Pairs == {p \in Triple \X Triple : p[1] # p[2]}
FilterDeclarations ==
  { [ found     |-> f,
      deps      |-> [m \in MCModules |->
                       {n \in Triple : <<m, n>> \in Pairs /\
                          (kind[<<m, n>>] = "req" \/ (both /\ <<m, n>> = <<"a", "b">>))}],
      optional  |-> [m \in MCModules |->
                       {n \in Triple : <<m, n>> \in Pairs /\ kind[<<m, n>>] = "opt"}],
      installed |-> i ] :
    f \in {MCModules, MCModules \ {"c"}},
    kind \in [Pairs -> {"none", "req", "opt"}],
    both \in BOOLEAN,
    i \in {MCModules, MCModules \ {"a"}, MCModules \ {"b"}, MCModules \ {"b", "utils"}} }

\* Every directed graph of required edges over four modules in which utils is
\* a dependency like any other, all found, and all or all but one installed.
OrderEdges == {p \in MCModules \X MCModules : p[1] # p[2] /\ p[1] # "utils"}
OrderDeclarations ==
  { [ found     |-> MCModules,
      deps      |-> [m \in MCModules |-> {n \in MCModules : <<m, n>> \in r}],
      optional  |-> Nothing,
      installed |-> i ] : r \in SUBSET OrderEdges, i \in {MCModules, MCModules \ {"a"}} }

MCDeclarations == FilterDeclarations \cup OrderDeclarations
================================================================================
