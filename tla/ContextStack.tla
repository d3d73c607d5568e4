---------------------------- MODULE ContextStack ----------------------------
(***************************************************************************)
(* What the pairs of commands PUSH-OMIT-CONTEXT and POP-OMIT-CONTEXT,      *)
(* PUSH-VARS and POP-VARS, PUSH-FUNCS and POP-FUNCS promise: an environment *)
(* that gives every name a value, and a stack of saved parts of it.  A pop *)
(* gives the names that the matching push was for the values that they had *)
(* then, and no other name a new one.  A new pass over the script starts   *)
(* with an empty stack.                                                    *)
(***************************************************************************)
EXTENDS Naturals, Sequences

CONSTANTS
  Names,
  Kept(_)   \* what a new pass keeps of an environment

VARIABLES env, saved
vars == <<env, saved>>

\* The names in DOMAIN part get the values of part
Restored(part) == [x \in Names |-> IF x \in DOMAIN part THEN part[x] ELSE env[x]]

Change == DOMAIN env' = Names /\ UNCHANGED saved
Push ==
  /\ saved' # << >> /\ Tail(saved') = saved
  /\ DOMAIN Head(saved') \subseteq Names
  /\ \A x \in DOMAIN Head(saved') : Head(saved')[x] = env[x]
  /\ UNCHANGED env
Pop == saved # << >> /\ env' = Restored(Head(saved)) /\ saved' = Tail(saved)
NewPass == saved' = << >> /\ env' = Kept(env)

Init == DOMAIN env = Names /\ saved = << >>
Next == Change \/ Push \/ Pop \/ NewPass
Spec == Init /\ [][Next]_vars
=============================================================================
