----------------------------- MODULE Dictionary -----------------------------
(***************************************************************************)
(* What TRANSLATE promises: a dictionary that a command changes in one     *)
(* entry or empties at once, and that a dump shows as it is, every entry   *)
(* once and the entry for LANGID before the others.                        *)
(***************************************************************************)
EXTENDS Naturals, Sequences, SequencesExt

CONSTANTS Words, Initial     \* a dictionary is a function on a part of the Words

VARIABLES dict, shown

vars == <<dict, shown>>

Entries == {<<w, dict[w]>> : w \in DOMAIN dict}

Init == dict = Initial /\ shown = << >>

Enter(w, translation) ==
  /\ dict' = [v \in DOMAIN dict \cup {w} |-> IF v = w THEN translation ELSE dict[v]]
  /\ UNCHANGED shown

Forget(w) ==
  /\ w \notin DOMAIN Initial
  /\ dict' = [v \in DOMAIN dict \ {w} |-> dict[v]]
  /\ UNCHANGED shown

Clear == dict' = Initial /\ UNCHANGED shown

ShowFirst ==
  /\ \E w \in DOMAIN Initial : shown' = <<<<w, dict[w]>>>>
  /\ UNCHANGED dict

ShowAnother ==
  /\ \E e \in Entries \ Range(shown) : shown' = Append(shown, e)
  /\ UNCHANGED dict

Shown ==
  /\ Range(shown) = Entries
  /\ shown' = << >>
  /\ UNCHANGED dict

Next ==
  \/ \E w, t \in Words : Enter(w, t)
  \/ \E w \in Words : Forget(w)
  \/ Clear
  \/ ShowFirst
  \/ ShowAnother
  \/ Shown

Spec == Init /\ [][Next]_vars
=============================================================================
