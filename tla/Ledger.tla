-------------------------------- MODULE Ledger --------------------------------
(***************************************************************************)
(* What the setup and test commands promise about the marks, whatever fails  *)
(* and whenever they are killed: marks are never withdrawn, are made one at   *)
(* a time and on top of what they require, a setup that succeeds has marked  *)
(* its target, and only what is marked is configured for tests.             *)
(* Orchestrator.tla implements it.                                         *)
(***************************************************************************)
CONSTANTS
  Modules,   \* the modules with a setup()
  Requires,  \* what each requires
  Targets

VARIABLES
  marks,
  command, target,  \* the running command and its argument
  outcome,          \* "running", "ok" or "failed"; "idle" between commands
  configured        \* what this command has configured

vars == << marks, command, target, outcome, configured >>

Init ==
  /\ marks = {} /\ command = "none" /\ target \in Targets
  /\ outcome = "idle" /\ configured = {}

Begin ==
  /\ outcome = "idle" /\ outcome' = "running"
  /\ command' \in {"setup", "test"} /\ target' \in Targets
  /\ configured' = {}
  /\ UNCHANGED marks

MarkDone(m) ==
  /\ command = "setup" /\ outcome = "running"
  /\ Requires[m] \cap Modules \subseteq marks
  /\ marks' = marks \cup {m}
  /\ UNCHANGED << command, target, outcome, configured >>

\* It may fail half way.
ConfigureFor(m) ==
  /\ command = "test" /\ outcome = "running"
  /\ configured' = configured \cup {m} /\ outcome' \in {"running", "failed"}
  /\ UNCHANGED << marks, command, target >>

Succeed ==
  /\ outcome = "running" /\ outcome' = "ok"
  /\ command = "setup" /\ target \in Modules => target \in marks
  /\ UNCHANGED << marks, command, target, configured >>

Fail ==
  /\ outcome = "running" /\ outcome' = "failed"
  /\ UNCHANGED << marks, command, target, configured >>

\* The command has returned, raised, or is killed.
End ==
  /\ outcome # "idle" /\ outcome' = "idle"
  /\ command' = "none" /\ target' \in Targets /\ configured' = {}
  /\ UNCHANGED marks

Next ==
  \/ Begin \/ Succeed \/ Fail \/ End
  \/ \E m \in Modules : MarkDone(m)
  \/ \E m \in marks : ConfigureFor(m)

Spec == Init /\ [][Next]_vars
================================================================================
