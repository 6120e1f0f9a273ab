----------------------------- MODULE PlanService -----------------------------
(***************************************************************************)
(* What core/modules.py promises the commands: one answer to one question,   *)
(* a sound order of exactly the modules asked for, or an exception where     *)
(* there is none.  Planner.tla implements it.                               *)
(***************************************************************************)
EXTENDS ModuleGraph

VARIABLES
  decl, target,  \* the question
  status,        \* "asked", "answered" or "raised"
  answer

vars == << decl, target, status, answer >>

Preds(d) == [m \in Modules |-> PredsOf(d, m)]

\* The modules of an answer: those that survive, up to the target if there is one.
Wanted(d, t) ==
  IF t = Utils THEN {}
  ELSE IF t = NoTarget THEN Kept(d)
  ELSE UpTo(Kept(d), Preds(d), t)

Init == decl \in Declaration /\ status = "asked" /\ answer = << >>

Answer ==
  /\ status = "asked" /\ status' = "answered"
  /\ target \in {Utils, NoTarget} \cup Kept(decl)
  /\ SoundPlan(decl, answer')
  /\ Members(answer') = Wanted(decl, target) \cup {Utils}
  /\ UNCHANGED << decl, target >>

\* There is no order, or nothing to order up to.
Refuse ==
  /\ status = "asked" /\ status' = "raised"
  /\ target # Utils
  /\ Cyclic(Kept(decl), Preds(decl)) \/ target \notin {NoTarget} \cup Kept(decl)
  /\ UNCHANGED << decl, target, answer >>

Next == Answer \/ Refuse

Spec == Init /\ [][Next]_vars
================================================================================
