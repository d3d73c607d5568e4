--------------------------- MODULE ScriptMeaning ---------------------------
(***************************************************************************)
(* What a script means: the reminders that one pass over it executes, in   *)
(* order.  It is said of each file by itself, without stacks, so that      *)
(* RemindFiles can be compared with it: an included file means the same    *)
(* wherever it is included, and leaves no trace in the file after it.      *)
(***************************************************************************)
EXTENDS Integers, Sequences, FiniteSets
LOCAL INSTANCE SequencesExt

CONSTANT INCLUDE_NEST    \* how deep files may be nested, 9 in src/custom.h

\* Lines between j and i of the given commands
Count(lines, ops, j, i) == Cardinality({k \in j + 1 .. i : lines[k].op \in ops})

If == {"if", "iftrig"}

\* Line i comes before the ENDIF of the IF on line j, and after its ELSE
Within(lines, j, i) ==
  /\ lines[j].op \in If
  /\ \A k \in j + 1 .. i - 1 : Count(lines, {"endif"}, j, k) <= Count(lines, If, j, k)
AfterElse(lines, j, i) ==
  \E k \in j + 1 .. i - 1 : /\ lines[k].op = "else"
                            /\ Count(lines, {"endif"}, j, k) = Count(lines, If, j, k)

\* Every IF around line i selects it
Selected(lines, i) ==
  \A j \in 1 .. i - 1 : Within(lines, j, i) => (lines[j].arg = "true") # AfterElse(lines, j, i)

\* Line i is executed: nor does a RETURN or the end of the script come before it
Executed(lines, i) ==
  /\ Selected(lines, i)
  /\ \A k \in 1 .. i - 1 : lines[k].op # "eof" /\ (lines[k].op = "return" => ~Selected(lines, k))

\* The files that including f reads: f, or the readable ones of the directory f
Contents(s, f) ==
  SelectSeq(IF s.files[f].kind = "directory" THEN s.files[f].chain ELSE <<f>>,
            LAMBDA g : s.files[g].kind \in {"file", "command"} /\ ~s.files[g].fails)

Meaning(s) ==
  LET reminders[depth \in 1 .. INCLUDE_NEST] ==
        LET including(f) == LET fs == Contents(s, f)
                            IN  FlattenSeq([i \in DOMAIN fs |-> reminders[depth + 1][fs[i]]])
            line(f, i) ==
              LET c == s.files[f].lines[i]
              IN  CASE ~Executed(s.files[f].lines, i) -> << >>
                    [] c.op = "rem" -> <<[src |-> f, at |-> i]>>
                    [] c.op \in {"include", "includecmd"} /\ depth < INCLUDE_NEST -> including(c.arg)
                    [] OTHER -> << >>
        IN  [f \in DOMAIN s.files |->
               FlattenSeq([i \in DOMAIN s.files[f].lines |-> line(f, i)])]
      top == Contents(s, s.top)
  IN  FlattenSeq([i \in DOMAIN top |-> reminders[1][top[i]]])
=============================================================================
