---------------------------- MODULE RemindFiles ----------------------------
(***************************************************************************)
(* How a script is read: the stack of included files of src/files.c, the   *)
(* stack of IFs of src/ifelse.c and the loop of DoReminders in src/main.c  *)
(* that executes one line after the other, with INCLUDE, INCLUDECMD,       *)
(* RETURN, the cache for several passes, and the copy that a purge writes. *)
(*                                                                         *)
(* Remind is sequential: a behaviour is one run over one of the Setups.    *)
(***************************************************************************)
EXTENDS ScriptMeaning

CONSTANTS
  Names,     \* of files, directories and commands
  NoName,
  Setups,    \* files, the one to start with, and command line options
  IF_NEST    \* how many IFs may be open in all files together, 64 in the code

VARIABLES
  setup,         \* the setup of this run
  meaning,       \* (history) what the script means, by definition
  iterations,    \* Iterations: passes to go
  shouldCache,   \* ShouldCache
  cached,        \* CachedFiles: the names of the files and commands cached
  IStack,        \* the files that have included another, and
  IStackPtr,     \* how many there are; the current file has its includer on top
  reader,        \* fp and CLine, of which at most one is not NULL
  fileName,      \* FileName
  lineNo,        \* LineNo
  IfArray, if_pointer, base_pointer, return_encountered,
  purgeFP,       \* PurgeFP: the file whose copy is being written
  purged,        \* the copies
  pc,            \* begin, read, execute, unwind, chain; done, failed, crashed
  cur,           \* CurLine, by its place
  failure,       \* PopFile was called because an INCLUDE failed
  executed,      \* (history) the reminders executed in this pass
  before         \* (history) the IFs at the time each file of IStack was pushed

script  == <<setup, meaning>>
caching == <<shouldCache, cached>>
stack   == <<IStack, IStackPtr, before>>
place   == <<reader, fileName, lineNo>>
ifs     == <<IfArray, if_pointer, base_pointer, return_encountered>>
purging == <<purgeFP, purged>>
vars == <<script, iterations, caching, stack, place, ifs, purging, pc, cur, failure, executed>>

-----------------------------------------------------------------------------
(* Scripts.                                                                  *)

\* A line with what it does when it is executed: "rem" is a reminder that can be
\* computed and "badrem" one that cannot, "annotation" a comment that begins with #!P,
\* "eof" is __EOF__.  An IF whose expression is in error is as one that is true; an
\* IFTRIG may also be "unparsable".
Plain == {"rem", "badrem", "comment", "annotation", "else", "endif", "return", "eof"}
Command == [op : Plain, arg : {NoName}] \cup [op : {"if"}, arg : {"true", "false"}]
           \cup [op : {"iftrig"}, arg : {"true", "false", "unparsable"}]
           \cup [op : {"include", "includecmd"}, arg : Names]

\* kind: an "unsafe" file can be opened but is refused by CheckSafety.  terminated:
\* the last line ends in a newline.  fails: the output of a command is too long.
File == [kind : {"file", "missing", "unsafe", "directory", "command"}, lines : Seq(Command),
         terminated : BOOLEAN, fails : BOOLEAN, chain : Seq(Names)]

NotPurging == -1     \* without -j; else PurgeIncludeDepth
Setup == [files : [Names -> File], top : Names, passes : Nat \ {0}, maxCached : Nat,
          purgeDepth : Nat \cup {NotPurging}]

Line == [src : Names, at : Nat]

ASSUME FilesAssumption ==
  /\ NoName \notin Names
  /\ Setups \subseteq Setup
  /\ \A s \in Setups : s.purgeDepth # NotPurging => s.passes = 1   \* main.c:175
  /\ IF_NEST \in Nat \ {0}
  /\ INCLUDE_NEST \in Nat \ {0}

Lines(f) == setup.files[f].lines
Op  == Lines(cur.src)[cur.at].op
Arg == Lines(cur.src)[cur.at].arg

Comments == {"comment", "annotation"}
BlockOps == {"if", "iftrig", "else", "endif"}

\* The lines of a file that CacheFile keeps
EofOf(f) == {i \in DOMAIN Lines(f) : Lines(f)[i].op = "eof"}
CacheableLines(f) ==
  {i \in DOMAIN Lines(f) : Lines(f)[i].op \notin Comments /\ \A k \in EofOf(f) : i < k}

-----------------------------------------------------------------------------
(* Readers.                                                                  *)

NoReader == [from |-> "none", name |-> NoName, at |-> 0]
FileReader(f, at) == [from |-> "file", name |-> f, at |-> at]
\* CLine: the first line of the cache that is not above line n
CacheReader(f, n) ==
  LET left == {i \in CacheableLines(f) : i >= n}
  IN  IF left = {} THEN NoReader
      ELSE [from |-> "cache", name |-> f, at |-> CHOOSE i \in left : \A j \in left : i <= j]

\* A last line __EOF__ without a newline is found at the end of the file, when fp has
\* already been closed: it is closed, or read from, again
CrashesAtEof(f, i) == Lines(f)[i].op = "eof" /\ i = Len(Lines(f)) /\ ~setup.files[f].terminated
CacheCrashes(f) == \E i \in EofOf(f) : CrashesAtEof(f, i) /\ \A k \in EofOf(f) : i <= k

\* OpenPurgeFile
PurgeMode == setup.purgeDepth # NotPurging
PurgeFileOf(f, depth) == IF PurgeMode /\ depth - 2 < setup.purgeDepth THEN f ELSE NoName
Truncated(p, f) == IF f = NoName THEN p ELSE [p EXCEPT ![f] = << >>]

\* PurgeEchoLine of CurLine
Echo(p, f) == IF f = NoName THEN p ELSE [p EXCEPT ![f] = Append(@, cur)]

\* OpenFile of a file that can be opened, as the depth-th of the stack; p is what has
\* been purged before
CanOpen(f) == f \in cached \/ setup.files[f].kind = "file"
Caches(f) == shouldCache /\ Cardinality(CacheableLines(f)) <= setup.maxCached
OpenFile(f, depth, p) ==
  /\ fileName' = f /\ lineNo' = 0
  /\ IF f \in cached
     THEN /\ reader' = CacheReader(f, 1) /\ pc' = "read"
          /\ purgeFP' = NoName /\ purged' = p
          /\ UNCHANGED caching
     ELSE /\ purgeFP' = PurgeFileOf(f, depth) /\ purged' = Truncated(p, PurgeFileOf(f, depth))
          /\ reader' = IF Caches(f) THEN CacheReader(f, 1) ELSE FileReader(f, 1)
          /\ pc' = IF Caches(f) /\ CacheCrashes(f) THEN "crashed" ELSE "read"
          /\ cached' = IF Caches(f) THEN cached \cup {f} ELSE cached
          /\ shouldCache' = Caches(f)

\* OpenFile of one that cannot be opened: an unsafe file has a copy all the same
FailToOpen(f, depth, p) ==
  LET copy == IF setup.files[f].kind = "unsafe" THEN PurgeFileOf(f, depth) ELSE NoName
  IN  /\ purgeFP' = copy /\ purged' = Truncated(p, copy)
      /\ reader' = NoReader
      /\ UNCHANGED <<fileName, lineNo, caching>>

-----------------------------------------------------------------------------
(* The stack of files.                                                       *)

\* (faulty) taken after LineNo has been reset
FrameAtLine0(chain) ==
  [filename |-> fileName, chain |-> chain, LineNo |-> 0, base_if_pointer |-> base_pointer,
   reader |-> reader]

\* Where to resume the current file
Frame(chain) ==
  [filename |-> fileName, chain |-> chain, LineNo |-> lineNo, base_if_pointer |-> base_pointer,
   reader |-> reader]

\* The beginning of IncludeFile and IncludeCmd; the IFs of the includer are below
\* the base of the file
Push(chain) ==
  /\ IStack' = [IStack EXCEPT ![IStackPtr + 1] = Frame(chain)]
  /\ IStackPtr' = IStackPtr + 1
  /\ before' = [before EXCEPT ![IStackPtr + 1] = [IfArray |-> IfArray, if_pointer |-> if_pointer]]
  /\ base_pointer' = if_pointer
  /\ UNCHANGED <<IfArray, if_pointer, return_encountered>>

StackIsFull == IStackPtr >= INCLUDE_NEST

\* INCLUDE is refused; a purge echoes the line a second time
NestedTooDeep(p) ==
  /\ purged' = Echo(p, purgeFP)
  /\ pc' = "read"
  /\ UNCHANGED <<caching, stack, place, ifs, purgeFP, failure>>

FailInclude == pc' = "unwind" /\ failure' = TRUE

\* A directory: its files are opened by NextChainedFile
IncludeDirectory(f, p) ==
  /\ setup.files[f].kind = "directory"
  /\ Push(setup.files[f].chain)
  /\ reader' = NoReader /\ purged' = p
  /\ IF setup.files[f].chain = << >> THEN FailInclude ELSE pc' = "chain" /\ UNCHANGED failure
  /\ UNCHANGED <<fileName, lineNo, caching, purgeFP>>

IncludeOneFile(f, p) ==
  /\ setup.files[f].kind # "directory"
  /\ Push(<< >>)
  /\ IF CanOpen(f) THEN OpenFile(f, IStackPtr + 1, p) /\ UNCHANGED failure
                   ELSE FailToOpen(f, IStackPtr + 1, p) /\ FailInclude

IncludeFile(f, p) == IncludeDirectory(f, p) \/ IncludeOneFile(f, p)

\* PurgeFP while the output of a command is read: the copy of the includer, which a
\* newline at the end closes, and to which __EOF__ and what follows it are written
CommandEchoes(f, p) ==
  LET end == {i \in EofOf(f) : \A k \in EofOf(f) : i <= k}
      rest(i) == [k \in 1 .. Len(Lines(f)) - i + 1 |-> [src |-> f, at |-> i + k - 1]]
  IN  /\ purgeFP' = IF end # {} \/ setup.files[f].terminated THEN NoName ELSE purgeFP
      /\ purged' = IF purgeFP = NoName \/ end = {} THEN p
                   ELSE [p EXCEPT ![purgeFP] = @ \o rest(CHOOSE i \in end : TRUE)]

CommandIsCached(f) == ~setup.files[f].fails /\ Cardinality(CacheableLines(f)) <= setup.maxCached

\* IncludeCmd: the output is read to its end and cached, whatever ShouldCache is
IncludeCommand(f, p) ==
  /\ Push(<< >>)
  /\ \/ /\ f \in cached
        /\ fileName' = f /\ lineNo' = 0 /\ reader' = CacheReader(f, 1)
        /\ pc' = "read" /\ purged' = p
        /\ UNCHANGED <<caching, purgeFP, failure>>
     \/ /\ f \notin cached /\ ~CommandIsCached(f)
        /\ shouldCache' = FALSE /\ reader' = NoReader /\ purged' = p
        /\ FailInclude
        /\ UNCHANGED <<cached, fileName, lineNo, purgeFP>>
     \/ /\ f \notin cached /\ CommandIsCached(f)
        /\ cached' = cached \cup {f}
        /\ fileName' = f /\ lineNo' = 0 /\ reader' = CacheReader(f, 1)
        /\ pc' = IF CacheCrashes(f) THEN "crashed" ELSE "read"
        /\ CommandEchoes(f, p)
        /\ UNCHANGED <<shouldCache, failure>>

\* The beginning of PopFile: pop_excess_ifs
EndOfFile ==
  /\ (pc = "read" /\ reader = NoReader) \/ pc = "unwind"
  /\ return_encountered' = FALSE
  /\ if_pointer' = IF if_pointer <= base_pointer THEN if_pointer ELSE base_pointer
  /\ pc' = "chain"
  /\ UNCHANGED <<script, iterations, caching, stack, place, IfArray, base_pointer, purging, cur,
                 failure, executed>>

\* NextChainedFile, and the loop of IncludeFile over a directory: one file
NextChainedFile ==
  LET chain == IStack[IStackPtr].chain
  IN  /\ pc = "chain" /\ chain # << >>
      /\ IStack' = [IStack EXCEPT ![IStackPtr].chain = Tail(chain)]
      /\ IF CanOpen(Head(chain)) THEN OpenFile(Head(chain), IStackPtr, purged)
                                 ELSE FailToOpen(Head(chain), IStackPtr, purged) /\ UNCHANGED pc
      /\ UNCHANGED <<script, iterations, IStackPtr, before, ifs, cur, failure, executed>>

\* The rest of PopFile: the first file ends, and with it the pass
EndOfPass ==
  /\ pc = "chain" /\ IStack[IStackPtr].chain = << >> /\ IStackPtr <= 1
  /\ IStackPtr' = 0
  /\ executed' = << >>
  /\ IF failure THEN pc' = "failed" /\ iterations' = 0
     ELSE /\ iterations' = iterations - 1
          /\ pc' = IF iterations > 1 THEN "begin" ELSE "done"
  /\ UNCHANGED <<script, caching, IStack, before, place, ifs, purging, cur, failure>>

\* OpenPurgeFile in mode "a"
Reopened(p, f) == p

\* or its includer is resumed.  A purge echoes an INCLUDE that failed again.
Resume ==
  LET top == IStack[IStackPtr]
  IN  /\ pc = "chain" /\ top.chain = << >> /\ IStackPtr > 1
      /\ IStackPtr' = IStackPtr - 1
      /\ fileName' = top.filename /\ lineNo' = top.LineNo /\ reader' = top.reader
      /\ base_pointer' = top.base_if_pointer
      /\ purgeFP' = IF top.reader.from = "file" THEN PurgeFileOf(top.filename, IStackPtr - 1)
                    ELSE purgeFP
      /\ purged' = IF ~failure THEN Reopened(purged, purgeFP')
                   ELSE Echo(Reopened(purged, purgeFP'), purgeFP')
      /\ failure' = FALSE
      /\ pc' = "read"
      /\ UNCHANGED <<script, iterations, caching, IStack, before, IfArray, if_pointer,
                     return_encountered, cur, executed>>

-----------------------------------------------------------------------------
(* ReadLine.                                                                 *)

ReadFromCache ==
  /\ pc = "read" /\ reader.from = "cache"
  /\ cur' = [src |-> reader.name, at |-> reader.at]
  /\ lineNo' = reader.at
  /\ reader' = CacheReader(reader.name, reader.at + 1)
  /\ pc' = "execute"
  /\ UNCHANGED <<script, iterations, caching, stack, fileName, ifs, purging, failure, executed>>

\* ReadLineFromFile: an unterminated last line is found together with the end
ReadFromFile ==
  /\ pc = "read" /\ reader.from = "file" /\ reader.at <= Len(Lines(reader.name))
  /\ Lines(reader.name)[reader.at].op # "eof"
  /\ cur' = [src |-> reader.name, at |-> reader.at]
  /\ lineNo' = lineNo + 1
  /\ reader' = IF reader.at = Len(Lines(reader.name)) /\ ~setup.files[reader.name].terminated
               THEN NoReader ELSE FileReader(reader.name, reader.at + 1)
  /\ pc' = "execute"
  /\ UNCHANGED <<script, iterations, caching, stack, fileName, ifs, purging, failure, executed>>

\* The end after a last newline, or an __EOF__, behind which a purge copies the rest.
\* The blank line that is returned does nothing.
ReadEnd ==
  LET lines == Lines(reader.name)
      rest  == [k \in 1 .. Len(lines) - reader.at + 1 |->
                  [src |-> reader.name, at |-> reader.at + k - 1]]
  IN  /\ pc = "read" /\ reader.from = "file"
      /\ reader.at <= Len(lines) => lines[reader.at].op = "eof"
      /\ lineNo' = lineNo + 1
      /\ reader' = NoReader
      /\ purged' = IF purgeFP = NoName THEN purged ELSE [purged EXCEPT ![purgeFP] = @ \o rest]
      /\ purgeFP' = NoName
      /\ pc' = IF reader.at <= Len(lines) /\ CrashesAtEof(reader.name, reader.at)
               THEN "crashed" ELSE "read"
      /\ UNCHANGED <<script, iterations, caching, stack, fileName, ifs, cur, failure, executed>>

-----------------------------------------------------------------------------
(* DoReminders: a line is executed.                                          *)

\* (faulty) only the innermost IF is looked at
ignore_by_innermost ==
  \/ return_encountered
  \/ /\ if_pointer > base_pointer
     /\ IfArray[if_pointer].if_true # IfArray[if_pointer].before_else

should_ignore_line ==
  \/ return_encountered
  \/ \E i \in base_pointer + 1 .. if_pointer : IfArray[i].if_true # IfArray[i].before_else

\* What a command other than INCLUDE leaves alone
ExecuteOnly == UNCHANGED <<script, iterations, caching, stack, place, purgeFP, cur, failure>>

Executing(op) == pc = "execute" /\ Op = op /\ ~should_ignore_line

\* Ignored lines and comments; the annotations of an earlier purge are not copied
PassOver ==
  /\ pc = "execute" /\ Op \notin BlockOps
  /\ should_ignore_line \/ Op \in Comments
  /\ purged' = IF Op = "annotation" THEN purged ELSE Echo(purged, purgeFP)
  /\ pc' = "read"
  /\ UNCHANGED <<ifs, executed>> /\ ExecuteOnly

\* DoRem
Rem ==
  /\ Executing("rem")
  /\ executed' = Append(executed, [line |-> cur, fileName |-> fileName, lineNo |-> lineNo])
  /\ purged' = Echo(purged, purgeFP)
  /\ pc' = "read"
  /\ UNCHANGED ifs /\ ExecuteOnly

\* The trigger cannot be computed: both DoRem and DoReminders echo the line
BadRem ==
  /\ Executing("badrem")
  /\ purged' = Echo(Echo(purged, purgeFP), purgeFP)
  /\ pc' = "read"
  /\ UNCHANGED <<ifs, executed>> /\ ExecuteOnly

Return ==
  /\ Executing("return")
  /\ return_encountered' = TRUE
  /\ purged' = Echo(purged, purgeFP)
  /\ pc' = "read"
  /\ UNCHANGED <<IfArray, if_pointer, base_pointer, executed>> /\ ExecuteOnly

\* The commands of a block are executed even if the line is to be ignored
InBlock(op) ==
  /\ pc = "execute" /\ Op = op
  /\ purged' = Echo(purged, purgeFP)
  /\ pc' = "read"
  /\ UNCHANGED <<base_pointer, return_encountered, executed>> /\ ExecuteOnly

if_stack_full == if_pointer >= IF_NEST

push_if(is_true) ==
  /\ if_pointer' = if_pointer + 1
  /\ IfArray' = [IfArray EXCEPT ![if_pointer + 1] = [if_true |-> is_true, before_else |-> TRUE]]

DoIf ==
  /\ InBlock("if")
  /\ IF if_stack_full THEN UNCHANGED <<IfArray, if_pointer>>
                      ELSE push_if(should_ignore_line \/ Arg = "true")

\* An IFTRIG that cannot be parsed opens no block
DoIfTrig ==
  /\ InBlock("iftrig")
  /\ IF if_stack_full \/ (~should_ignore_line /\ Arg = "unparsable")
     THEN UNCHANGED <<IfArray, if_pointer>>
     ELSE push_if(should_ignore_line \/ Arg = "true")

\* encounter_else
DoElse ==
  /\ InBlock("else")
  /\ IfArray' = IF if_pointer <= base_pointer THEN IfArray
                ELSE [IfArray EXCEPT ![if_pointer].before_else = FALSE]
  /\ UNCHANGED if_pointer

\* (faulty) an ENDIF closes an IF of an includer
AnyIf == if_pointer > 0

OwnIf == if_pointer > base_pointer

\* encounter_endif
DoEndif ==
  /\ InBlock("endif")
  /\ if_pointer' = IF OwnIf THEN if_pointer - 1 ELSE if_pointer
  /\ UNCHANGED IfArray

\* The INCLUDE is echoed before it is executed, since that closes the copy
DoInclude ==
  /\ Executing("include")
  /\ IF StackIsFull THEN NestedTooDeep(Echo(purged, purgeFP))
                    ELSE IncludeFile(Arg, Echo(purged, purgeFP))
  /\ UNCHANGED <<script, iterations, cur, executed>>

DoIncludeCmd ==
  /\ Executing("includecmd")
  /\ IF StackIsFull THEN NestedTooDeep(Echo(purged, purgeFP))
                    ELSE IncludeCommand(Arg, Echo(purged, purgeFP))
  /\ UNCHANGED <<script, iterations, cur, executed>>

-----------------------------------------------------------------------------
(* The specification.                                                        *)

NoIf == [if_true |-> FALSE, before_else |-> FALSE]

Init ==
  /\ setup \in Setups
  /\ meaning = Meaning(setup)
  /\ iterations = setup.passes
  /\ shouldCache = (iterations > 1) /\ cached = {}
  /\ IStack = [k \in 1 .. INCLUDE_NEST |-> [filename |-> NoName, chain |-> << >>, LineNo |-> 0,
                                            base_if_pointer |-> 0, reader |-> NoReader]]
  /\ IStackPtr = 0
  /\ reader = NoReader /\ fileName = NoName /\ lineNo = 0
  /\ IfArray = [i \in 1 .. IF_NEST |-> NoIf]
  /\ if_pointer = 0 /\ base_pointer = 0 /\ return_encountered = FALSE
  /\ purgeFP = NoName /\ purged = [f \in Names |-> << >>]
  /\ pc = "begin" /\ cur = [src |-> setup.top, at |-> 0] /\ failure = FALSE
  /\ executed = << >>
  /\ before = [k \in 1 .. INCLUDE_NEST |-> [IfArray |-> IfArray, if_pointer |-> 0]]

\* The beginning of DoReminders
Begin ==
  /\ pc = "begin"
  /\ IncludeFile(setup.top, purged)
  /\ UNCHANGED <<script, iterations, cur, executed>>

Ended == pc \in {"done", "failed", "crashed"}

Next ==
  \/ Begin
  \/ EndOfFile \/ NextChainedFile \/ EndOfPass \/ Resume
  \/ ReadFromCache \/ ReadFromFile \/ ReadEnd
  \/ PassOver \/ Rem \/ BadRem \/ Return
  \/ DoIf \/ DoIfTrig \/ DoElse \/ DoEndif
  \/ DoInclude \/ DoIncludeCmd

Spec == Init /\ [][Next]_vars

\* A process runs until it exits
FairSpec == Spec /\ WF_vars(Next)

-----------------------------------------------------------------------------
(* Properties.                                                               *)

\* Whatever an included file does with IF, ELSE, ENDIF and RETURN, the blocks that were
\* open in its includers are as they were, and no others are open when it is left
BlocksKept ==
  /\ \A k \in 1 .. IStackPtr :
       /\ before[k].if_pointer <= if_pointer
       /\ \A i \in 1 .. before[k].if_pointer : IfArray[i] = before[k].IfArray[i]
  /\ pc = "chain" => if_pointer = before[IStackPtr].if_pointer /\ ~return_encountered

\* FileName and LineNo, which messages and filename() report, are those of the line
Located ==
  \A i \in DOMAIN executed : /\ executed[i].fileName = executed[i].line.src
                             /\ executed[i].lineNo = executed[i].line.at

\* The passes execute what the script means, in order, each reminder once
Promise == INSTANCE ScriptPasses WITH
  Reminders <- Line, passes <- iterations, executed <- [i \in DOMAIN executed |-> executed[i].line]
KeepsPromise == Promise!Spec

\* The lines of a file that its copy should hold: all but the annotations before __EOF__
Kept(f) ==
  {i \in DOMAIN Lines(f) : Lines(f)[i].op = "annotation" => \E k \in EofOf(f) : k < i}

\* A copy has these lines of f, in order, whatever stands between them
Holds(copy, f, places) ==
  \E at \in [places -> DOMAIN copy] : \A i, j \in places :
    /\ copy[at[i]] = [src |-> f, at |-> i]
    /\ i < j => at[i] < at[j]

\* The files that have been copied
Copied == {f \in Names : setup.files[f].kind = "file" /\ (purged[f] # << >> \/ f = setup.top)}

\* A purge loses no line: every copy has all lines of the original, in order
NothingLost == pc = "done" /\ PurgeMode => \A f \in Copied : Holds(purged[f], f, Kept(f))

\* (man/remind.1.in:33) A line __EOF__ ends the script
EofEndsScript == pc # "crashed"
=============================================================================
