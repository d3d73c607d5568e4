--------------------------- MODULE MCRemindFiles ---------------------------
(***************************************************************************)
(* Small scripts for RemindFiles: a file "main" that includes "inc", which *)
(* includes "sub", a directory of which one file is missing, and commands. *)
(***************************************************************************)
EXTENDS RemindFiles

None == "-"
AllNames == {"main", "inc", "sub", "gone", "refused", "dir", "empty", "cmd", "long"}

C(op) == [op |-> op, arg |-> None]
Cond(op, value) == [op |-> op, arg |-> value]
Include(f) == [op |-> "include", arg |-> f]
Output(f)  == [op |-> "includecmd", arg |-> f]

Text(lines, newline) ==
  [kind |-> "file", lines |-> lines, terminated |-> newline, fails |-> FALSE, chain |-> << >>]
OfKind(kind) == [Text(<< >>, TRUE) EXCEPT !.kind = kind]

Files(main, inc) ==
  [f \in AllNames |->
     CASE f = "main" -> main
       [] f = "inc"  -> inc
       [] f = "sub"  -> Text(<<C("rem"), C("comment"), Cond("if", "true"), C("rem")>>, FALSE)
       [] f = "gone" -> OfKind("missing")
       [] f = "refused" -> OfKind("unsafe")
       [] f = "dir"  -> [OfKind("directory") EXCEPT !.chain = <<"gone", "inc", "sub">>]
       [] f = "empty" -> OfKind("directory")
       [] f = "cmd"  -> [Text(<<C("comment"), C("else"), C("rem")>>, TRUE) EXCEPT !.kind = "command"]
       [] f = "long" -> [OfKind("command") EXCEPT !.fails = TRUE]]

Running(main, inc, n, max) ==
  [files |-> Files(main, inc), top |-> "main", passes |-> n, maxCached |-> max,
   purgeDepth |-> NotPurging]
Purging(main, inc, depth) ==
  [Running(main, inc, 1, 9) EXCEPT !.purgeDepth = depth]

Blocks == {Cond("if", "true"), Cond("if", "false"), Cond("iftrig", "false"), C("else"), C("endif")}

\* Two passes, cached or not.  The beginning of main is followed by lines that show
\* whether it left a block open.
Beginnings == Blocks \cup {C("return"), C("eof"), Include("inc"), Include("dir"), Include("empty"),
                           Output("cmd"), Output("long")}
Included == {Cond("if", "false"), C("else"), C("endif"), C("return"), Include("sub")}
Passes ==
  {Running(Text(<<a, b, C("rem"), C("else"), C("rem"), C("endif"), C("rem")>>, TRUE),
           Text(<<c, d, C("rem")>>, FALSE), 2, max) :
     a \in Beginnings, b \in Beginnings, c \in Included, d \in Included, max \in {2, 9}}

\* One purging pass
Purged == {C("badrem"), C("annotation"), C("return"), C("eof"), Cond("if", "false"), Include("main"),
           Include("inc"), Include("gone"), Include("refused"), Include("dir"), Output("cmd"), Output("long")}
Purges ==
  {Purging(Text(<<a, C("rem"), b>>, newline), Text(<<C("annotation"), c, C("rem")>>, TRUE), depth) :
     a \in Purged, b \in Purged \ {C("eof")}, newline \in BOOLEAN, depth \in 0 .. 2,
     c \in {C("return"), C("eof"), Include("main"), Include("refused"), Output("cmd")}}

\* A directory to start with, and a file that cannot be opened
Tops == {[s EXCEPT !.top = "dir"] :
           s \in {Running(Text(<<C("rem")>>, TRUE), Text(<<c, C("rem")>>, TRUE), 2, 9) : c \in Included}}
        \cup {[Running(Text(<<C("rem")>>, TRUE), Text(<<C("rem")>>, TRUE), 1, 9) EXCEPT !.top = "gone"]}

AllSetups == Passes \cup Purges \cup Tops

\* A script whose last line is __EOF__, without a newline
EofSetups == {Running(Text(<<C("rem"), C("eof")>>, FALSE), Text(<<C("rem")>>, TRUE), n, 9) : n \in {1, 2}}
=============================================================================
