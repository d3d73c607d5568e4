---------------------------- MODULE ScriptPasses ----------------------------
(***************************************************************************)
(* What reading a script promises: in each of the passes the reminders     *)
(* that the script means are executed one after the other, each once.      *)
(***************************************************************************)
EXTENDS Integers, Sequences

CONSTANT Reminders       \* what a script can execute

VARIABLES meaning, passes, executed

vars == <<meaning, passes, executed>>

Init ==
  /\ meaning \in Seq(Reminders) /\ passes \in Nat
  /\ executed = << >>

Execute ==
  /\ passes > 0 /\ Len(executed) < Len(meaning)
  /\ executed' = Append(executed, meaning[Len(executed) + 1])
  /\ UNCHANGED <<meaning, passes>>

NextPass ==
  /\ passes > 0 /\ executed = meaning
  /\ passes' = passes - 1
  /\ executed' = << >>
  /\ UNCHANGED meaning

Next == Execute \/ NextPass

Spec == Init /\ [][Next]_vars /\ WF_vars(Next)
=============================================================================
