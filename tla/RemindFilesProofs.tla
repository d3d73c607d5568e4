------------------------- MODULE RemindFilesProofs -------------------------
(***************************************************************************)
(* Proofs about RemindFiles, for every script and every limit: the stack   *)
(* of files and the stack of IFs do not overflow, an included file leaves  *)
(* the blocks of its includers as they were, every line is executed under  *)
(* its own file name and number, and a purge loses no line of the files    *)
(* that it copies.                                                         *)
(*                                                                         *)
(* base_pointer is a cached value: it is what if_pointer was when the      *)
(* current file was included, and IStack keeps that of each includer.      *)
(* BaseInv says so, and that these values increase; with it, nothing that  *)
(* ELSE, ENDIF and the end of a file touch belongs to an includer.         *)
(***************************************************************************)
EXTENDS RemindFiles, RemindInduction, TLAPS

\* The two stacks as arrays and their pointers
StackTypes ==
  /\ IStackPtr \in 0 .. INCLUDE_NEST
  /\ DOMAIN IStack = 1 .. INCLUDE_NEST
  /\ \A k \in 1 .. INCLUDE_NEST :
       DOMAIN IStack[k] = {"filename", "chain", "LineNo", "base_if_pointer", "reader"}
  /\ DOMAIN before = 1 .. INCLUDE_NEST
  /\ \A k \in 1 .. IStackPtr : before[k].if_pointer \in 0 .. IF_NEST
  /\ DOMAIN IfArray = 1 .. IF_NEST
  /\ if_pointer \in 0 .. IF_NEST

\* Whose IFs are below base_pointer, now and after each return to an includer
BaseInv ==
  /\ IStackPtr > 0 => base_pointer = before[IStackPtr].if_pointer
  /\ \A k \in 1 .. IStackPtr - 1 : IStack[k + 1].base_if_pointer = before[k].if_pointer
  /\ \A j, k \in 1 .. IStackPtr : j <= k => before[j].if_pointer <= before[k].if_pointer

\* Where a file is open, and where no RETURN has effect
PcInv ==
  /\ pc \in {"read", "execute", "unwind", "chain"} => IStackPtr > 0
  /\ pc = "begin" => IStackPtr = 0
  /\ pc \in {"begin", "chain"} => ~return_encountered

IInv == StackTypes /\ BaseInv /\ PcInv /\ BlocksKept

-----------------------------------------------------------------------------
(***************************************************************************)
(* Steps that leave the two stacks alone.                                  *)
(***************************************************************************)
LEMMA StacksAlone ==
  ASSUME IInv, UNCHANGED <<stack, IfArray, if_pointer, base_pointer>>, pc \in {"read", "execute"},
         pc' \in {"read", "execute", "crashed"}
  PROVE  IInv'
  <1>1. UNCHANGED <<IStack, IStackPtr, before, IfArray, if_pointer, base_pointer>>
    BY DEF stack
  <1>2. StackTypes'
    BY <1>1 DEF IInv, StackTypes
  <1>3. BaseInv'
    BY <1>1 DEF IInv, BaseInv
  <1>4. PcInv'
    BY <1>1 DEF IInv, PcInv
  <1>5. BlocksKept'
    BY <1>1 DEF IInv, BlocksKept
  <1> QED BY <1>2, <1>3, <1>4, <1>5 DEF IInv

(***************************************************************************)
(* A file is included.                                                     *)
(***************************************************************************)
LEMMA PushKeeps ==
  ASSUME IInv, NEW chain, Push(chain), IStackPtr < INCLUDE_NEST, ~return_encountered,
         pc' \in {"read", "unwind", "chain", "crashed"}, pc' = "chain" => if_pointer' = base_pointer'
  PROVE  IInv'
  <1>1. /\ IStackPtr' = IStackPtr + 1 /\ base_pointer' = if_pointer
        /\ UNCHANGED <<IfArray, if_pointer, return_encountered>>
    BY DEF Push
  <1>2. IStackPtr \in Nat /\ INCLUDE_NEST \in Nat /\ IStackPtr + 1 \in 1 .. INCLUDE_NEST
    BY FilesAssumption DEF IInv, StackTypes
  <1>3. /\ DOMAIN before' = DOMAIN before
        /\ before'[IStackPtr + 1] = [IfArray |-> IfArray, if_pointer |-> if_pointer]
        /\ \A k \in 1 .. IStackPtr : before'[k] = before[k]
    BY <1>2 DEF Push, IInv, StackTypes
  <1>4. /\ DOMAIN IStack' = DOMAIN IStack
        /\ IStack'[IStackPtr + 1] = Frame(chain)
        /\ \A k \in DOMAIN IStack : k # IStackPtr + 1 => IStack'[k] = IStack[k]
    BY <1>2 DEF Push, IInv, StackTypes
  <1>5. \A k \in 1 .. IStackPtr' : k = IStackPtr + 1 \/ k \in 1 .. IStackPtr
    BY <1>1, <1>2
  <1>6. if_pointer \in 0 .. IF_NEST /\ IF_NEST \in Nat
    BY FilesAssumption DEF IInv, StackTypes
  <1>7. \A k \in 1 .. IStackPtr : /\ before[k].if_pointer \in 0 .. IF_NEST
                                  /\ before[k].if_pointer <= if_pointer
    BY DEF IInv, StackTypes, BlocksKept
  <1>8. StackTypes'
    <2>1. DOMAIN Frame(chain) = {"filename", "chain", "LineNo", "base_if_pointer", "reader"}
      BY DEF Frame
    <2>2. \A k \in 1 .. INCLUDE_NEST :
            DOMAIN IStack'[k] = {"filename", "chain", "LineNo", "base_if_pointer", "reader"}
      BY <2>1, <1>4 DEF IInv, StackTypes
    <2>3. \A k \in 1 .. IStackPtr' : before'[k].if_pointer \in 0 .. IF_NEST
      BY <1>3, <1>5, <1>6, <1>7
    <2> QED BY <2>2, <2>3, <1>1, <1>2, <1>3, <1>4 DEF IInv, StackTypes
  <1>9. BaseInv'
    <2>1. base_pointer' = before'[IStackPtr'].if_pointer
      BY <1>1, <1>3
    <2>2. ASSUME NEW k \in 1 .. IStackPtr' - 1
          PROVE  IStack'[k + 1].base_if_pointer = before'[k].if_pointer
      <3>1. k \in 1 .. IStackPtr
        BY <1>1, <1>2
      <3>2. CASE k = IStackPtr
        BY <3>1, <3>2, <1>2, <1>3, <1>4 DEF Frame, IInv, BaseInv
      <3>3. CASE k # IStackPtr
        <4>1. k \in 1 .. IStackPtr - 1 /\ k + 1 \in 1 .. INCLUDE_NEST /\ k + 1 # IStackPtr + 1
          BY <3>1, <3>3, <1>2
        <4>2. IStack'[k + 1] = IStack[k + 1]
          BY <4>1, <1>4 DEF IInv, StackTypes
        <4> QED BY <3>1, <4>1, <4>2, <1>3 DEF IInv, BaseInv
      <3> QED BY <3>2, <3>3
    <2>3. ASSUME NEW j \in 1 .. IStackPtr', NEW k \in 1 .. IStackPtr', j <= k
          PROVE  before'[j].if_pointer <= before'[k].if_pointer
      <3>1. CASE k \in 1 .. IStackPtr
        <4>1. j \in 1 .. IStackPtr
          BY <2>3, <3>1, <1>2, <1>5
        <4> QED BY <2>3, <3>1, <4>1, <1>3 DEF IInv, BaseInv
      <3>2. CASE k = IStackPtr + 1
        BY <3>2, <1>3, <1>5, <1>6, <1>7
      <3> QED BY <3>1, <3>2, <1>5
    <2> QED BY <2>1, <2>2, <2>3 DEF BaseInv
  <1>10. PcInv'
    BY <1>1, <1>2 DEF PcInv
  <1>11. BlocksKept'
    <2>1. ASSUME NEW k \in 1 .. IStackPtr'
          PROVE  /\ before'[k].if_pointer <= if_pointer'
                 /\ \A i \in 1 .. before'[k].if_pointer : IfArray'[i] = before'[k].IfArray[i]
      <3>1. CASE k \in 1 .. IStackPtr
        BY <3>1, <1>1, <1>3 DEF IInv, BlocksKept
      <3>2. CASE k = IStackPtr + 1
        BY <3>2, <1>1, <1>3, <1>6
      <3> QED BY <3>1, <3>2, <1>5
    <2>2. pc' = "chain" => if_pointer' = before'[IStackPtr'].if_pointer /\ ~return_encountered'
      BY <1>1, <1>3
    <2> QED BY <2>1, <2>2 DEF BlocksKept
  <1> QED BY <1>8, <1>9, <1>10, <1>11 DEF IInv

LEMMA IncludeKeeps ==
  ASSUME IInv, NEW f, NEW p, IncludeFile(f, p) \/ IncludeCommand(f, p), IStackPtr < INCLUDE_NEST,
         ~return_encountered
  PROVE  IInv'
  <1>1. ASSUME NEW chain, Push(chain) PROVE if_pointer' = base_pointer'
    BY <1>1 DEF Push
  <1>2. CASE IncludeDirectory(f, p)
    <2>1. Push(setup.files[f].chain) /\ pc' \in {"unwind", "chain"}
      BY <1>2 DEF IncludeDirectory, FailInclude
    <2> QED BY <2>1, <1>1, PushKeeps
  <1>3. CASE IncludeOneFile(f, p)
    <2>1. Push(<< >>) /\ pc' \in {"read", "crashed", "unwind"}
      BY <1>3 DEF IncludeOneFile, OpenFile, FailInclude
    <2> QED BY <2>1, <1>1, PushKeeps
  <1>4. CASE IncludeCommand(f, p)
    <2>1. Push(<< >>) /\ pc' \in {"read", "crashed", "unwind"}
      BY <1>4 DEF IncludeCommand, FailInclude
    <2> QED BY <2>1, <1>1, PushKeeps
  <1> QED BY <1>2, <1>3, <1>4 DEF IncludeFile

(***************************************************************************)
(* The commands of blocks, and RETURN.                                     *)
(***************************************************************************)
LEMMA BlocksChange ==
  ASSUME IInv, UNCHANGED <<stack, base_pointer>>, pc = "execute", pc' = "read",
         DOMAIN IfArray' = DOMAIN IfArray, if_pointer' \in 0 .. IF_NEST, if_pointer' >= base_pointer,
         \A i \in 1 .. base_pointer : IfArray'[i] = IfArray[i]
  PROVE  IInv'
  <1>1. UNCHANGED <<IStack, IStackPtr, before, base_pointer>>
    BY DEF stack
  <1>2. IStackPtr \in Nat \ {0} /\ base_pointer = before[IStackPtr].if_pointer /\ base_pointer \in 0 .. IF_NEST
    BY DEF IInv, StackTypes, BaseInv, PcInv
  <1>3. \A k \in 1 .. IStackPtr : /\ before[k].if_pointer \in 0 .. IF_NEST
                                  /\ before[k].if_pointer <= base_pointer
    BY <1>2 DEF IInv, StackTypes, BaseInv
  <1>4. StackTypes'
    BY <1>1 DEF IInv, StackTypes
  <1>5. BaseInv'
    BY <1>1 DEF IInv, BaseInv
  <1>6. PcInv'
    BY <1>1, <1>2 DEF PcInv
  <1>7. BlocksKept'
    <2>1. ASSUME NEW k \in 1 .. IStackPtr
          PROVE  /\ before[k].if_pointer <= if_pointer'
                 /\ \A i \in 1 .. before[k].if_pointer : IfArray'[i] = before[k].IfArray[i]
      <3>1. before[k].if_pointer <= if_pointer'
        BY <1>2, <1>3, FilesAssumption
      <3>2. ASSUME NEW i \in 1 .. before[k].if_pointer
            PROVE  IfArray'[i] = before[k].IfArray[i]
        <4>1. i \in 1 .. base_pointer
          BY <1>2, <1>3
        <4> QED BY <4>1 DEF IInv, BlocksKept
      <3> QED BY <3>1, <3>2
    <2> QED BY <2>1, <1>1 DEF BlocksKept
  <1> QED BY <1>4, <1>5, <1>6, <1>7 DEF IInv

LEMMA BlocksStep ==
  ASSUME IInv, Return \/ DoIf \/ DoIfTrig \/ DoElse \/ DoEndif
  PROVE  IInv'
  <1>1. /\ UNCHANGED <<stack, base_pointer>> /\ pc = "execute" /\ pc' = "read"
    BY DEF Return, DoIf, DoIfTrig, DoElse, DoEndif, InBlock, Executing, ExecuteOnly
  <1>2. /\ if_pointer \in 0 .. IF_NEST /\ IF_NEST \in Nat /\ base_pointer \in Nat
        /\ base_pointer <= if_pointer
        /\ DOMAIN IfArray = 1 .. IF_NEST
    BY <1>1, FilesAssumption DEF IInv, StackTypes, BaseInv, PcInv, BlocksKept
  <1>3. CASE UNCHANGED <<IfArray, if_pointer>>
    BY <1>1, <1>2, <1>3, BlocksChange
  <1>4. ASSUME NEW is_true, push_if(is_true), ~if_stack_full
        PROVE  IInv'
    <2>1. /\ if_pointer' = if_pointer + 1 /\ if_pointer' \in 0 .. IF_NEST
          /\ DOMAIN IfArray' = DOMAIN IfArray
          /\ \A i \in 1 .. base_pointer : IfArray'[i] = IfArray[i]
      BY <1>2, <1>4 DEF push_if, if_stack_full
    <2> QED BY <2>1, <1>1, <1>2, BlocksChange
  <1>5. CASE DoElse /\ if_pointer > base_pointer
    <2>1. /\ if_pointer' = if_pointer
          /\ DOMAIN IfArray' = DOMAIN IfArray
          /\ \A i \in 1 .. base_pointer : IfArray'[i] = IfArray[i]
      BY <1>2, <1>5 DEF DoElse
    <2> QED BY <2>1, <1>1, <1>2, BlocksChange
  <1>6. CASE DoEndif /\ OwnIf
    <2>1. if_pointer' = if_pointer - 1 /\ IfArray' = IfArray
      BY <1>6 DEF DoEndif
    <2>2. if_pointer' \in 0 .. IF_NEST /\ if_pointer' >= base_pointer
      BY <2>1, <1>2, <1>6 DEF OwnIf
    <2> QED BY <2>1, <2>2, <1>1, <1>2, BlocksChange
  <1>7. CASE Return
    BY <1>7, <1>3 DEF Return
  <1>8. CASE DoIf
    BY <1>8, <1>3, <1>4 DEF DoIf
  <1>9. CASE DoIfTrig
    BY <1>9, <1>3, <1>4 DEF DoIfTrig
  <1>10. CASE DoElse
    BY <1>10, <1>2, <1>3, <1>5 DEF DoElse
  <1>11. CASE DoEndif
    BY <1>11, <1>3, <1>6 DEF DoEndif
  <1> QED BY <1>7, <1>8, <1>9, <1>10, <1>11

(***************************************************************************)
(* The end of a file.                                                      *)
(***************************************************************************)
LEMMA EndOfFileKeeps ==
  ASSUME IInv, EndOfFile
  PROVE  IInv'
  <1>1. /\ UNCHANGED <<IStack, IStackPtr, before, IfArray, base_pointer>>
        /\ pc \in {"read", "unwind"} /\ pc' = "chain" /\ return_encountered' = FALSE
    BY DEF EndOfFile, stack
  <1>2. /\ IStackPtr \in Nat \ {0} /\ base_pointer = before[IStackPtr].if_pointer
        /\ base_pointer \in 0 .. IF_NEST /\ base_pointer <= if_pointer
        /\ if_pointer \in 0 .. IF_NEST
    BY <1>1 DEF IInv, StackTypes, BaseInv, PcInv, BlocksKept
  <1>3. if_pointer' = base_pointer
    BY <1>2 DEF EndOfFile
  <1>4. \A k \in 1 .. IStackPtr : before[k].if_pointer <= base_pointer
    BY <1>2 DEF IInv, BaseInv
  <1>5. StackTypes'
    BY <1>1, <1>2, <1>3 DEF IInv, StackTypes
  <1>6. BaseInv'
    BY <1>1 DEF IInv, BaseInv
  <1>7. PcInv'
    BY <1>1, <1>2 DEF PcInv
  <1>8. BlocksKept'
    BY <1>1, <1>2, <1>3, <1>4 DEF IInv, BlocksKept
  <1> QED BY <1>5, <1>6, <1>7, <1>8 DEF IInv

LEMMA NextChainedFileKeeps ==
  ASSUME IInv, NextChainedFile
  PROVE  IInv'
  <1> DEFINE chain == IStack[IStackPtr].chain
  <1>1. /\ UNCHANGED <<IStackPtr, before, IfArray, if_pointer, base_pointer, return_encountered>>
        /\ IStack' = [IStack EXCEPT ![IStackPtr].chain = Tail(chain)]
        /\ pc = "chain" /\ pc' \in {"chain", "read", "crashed"}
    BY DEF NextChainedFile, ifs, OpenFile
  <1>2. /\ DOMAIN IStack' = DOMAIN IStack
        /\ \A k \in 1 .. INCLUDE_NEST : /\ DOMAIN IStack'[k] = DOMAIN IStack[k]
                                        /\ IStack'[k].base_if_pointer = IStack[k].base_if_pointer
    BY <1>1 DEF IInv, StackTypes
  <1>3. StackTypes'
    BY <1>1, <1>2 DEF IInv, StackTypes
  <1>4. BaseInv'
    <2>1. \A k \in 1 .. IStackPtr - 1 : k + 1 \in 1 .. INCLUDE_NEST
      BY FilesAssumption DEF IInv, StackTypes
    <2> QED BY <2>1, <1>1, <1>2 DEF IInv, BaseInv
  <1>5. PcInv'
    BY <1>1 DEF IInv, PcInv
  <1>6. BlocksKept'
    BY <1>1 DEF IInv, BlocksKept
  <1> QED BY <1>3, <1>4, <1>5, <1>6 DEF IInv

LEMMA EndOfPassKeeps ==
  ASSUME IInv, EndOfPass
  PROVE  IInv'
  <1>1. /\ UNCHANGED <<IStack, before, IfArray, if_pointer, base_pointer, return_encountered>>
        /\ IStackPtr' = 0 /\ pc = "chain" /\ pc' \in {"begin", "done", "failed"}
    BY DEF EndOfPass, ifs
  <1>2. \A k \in 1 .. IStackPtr' : FALSE
    BY <1>1
  <1>3. StackTypes'
    BY <1>1, <1>2, FilesAssumption DEF IInv, StackTypes
  <1>4. BaseInv'
    BY <1>1, <1>2 DEF BaseInv
  <1>5. PcInv'
    BY <1>1 DEF IInv, PcInv
  <1>6. BlocksKept'
    BY <1>1, <1>2 DEF BlocksKept
  <1> QED BY <1>3, <1>4, <1>5, <1>6 DEF IInv

LEMMA ResumeKeeps ==
  ASSUME IInv, Resume
  PROVE  IInv'
  <1>1. /\ UNCHANGED <<IStack, before, IfArray, if_pointer, return_encountered>>
        /\ IStackPtr' = IStackPtr - 1 /\ base_pointer' = IStack[IStackPtr].base_if_pointer
        /\ pc = "chain" /\ pc' = "read" /\ IStackPtr > 1
    BY DEF Resume
  <1>2. IStackPtr \in 2 .. INCLUDE_NEST /\ INCLUDE_NEST \in Nat
    BY <1>1, FilesAssumption DEF IInv, StackTypes
  <1>3. 1 .. IStackPtr' \subseteq 1 .. IStackPtr
    BY <1>1, <1>2
  <1>4. StackTypes'
    BY <1>1, <1>2, <1>3 DEF IInv, StackTypes
  <1>5. BaseInv'
    <2>1. base_pointer' = before[IStackPtr'].if_pointer
      BY <1>1, <1>2 DEF IInv, BaseInv
    <2> QED BY <2>1, <1>1, <1>2, <1>3 DEF IInv, BaseInv
  <1>6. PcInv'
    BY <1>1, <1>2 DEF PcInv
  <1>7. BlocksKept'
    BY <1>1, <1>3 DEF IInv, BlocksKept
  <1> QED BY <1>4, <1>5, <1>6, <1>7 DEF IInv

-----------------------------------------------------------------------------
(***************************************************************************)
(* Init, and every step.                                                   *)
(***************************************************************************)
LEMMA InitInv == Init => IInv
  <1> SUFFICES ASSUME Init PROVE IInv
    OBVIOUS
  <1>1. /\ IStackPtr = 0 /\ if_pointer = 0 /\ pc = "begin" /\ return_encountered = FALSE
        /\ DOMAIN IStack = 1 .. INCLUDE_NEST /\ DOMAIN before = 1 .. INCLUDE_NEST
        /\ DOMAIN IfArray = 1 .. IF_NEST
    BY DEF Init
  <1>2. \A k \in 1 .. INCLUDE_NEST :
          DOMAIN IStack[k] = {"filename", "chain", "LineNo", "base_if_pointer", "reader"}
    BY DEF Init
  <1>3. \A k \in 1 .. IStackPtr : FALSE
    BY <1>1
  <1>4. StackTypes
    BY <1>1, <1>2, <1>3, FilesAssumption DEF StackTypes
  <1>5. BaseInv /\ PcInv /\ BlocksKept
    BY <1>1, <1>3 DEF BaseInv, PcInv, BlocksKept
  <1> QED BY <1>4, <1>5 DEF IInv

LEMMA Step ==
  ASSUME IInv, [Next]_vars
  PROVE  IInv'
  <1>1. CASE Begin
    <2>1. PICK f, p : IncludeFile(f, p)
      BY <1>1 DEF Begin
    <2>2. IStackPtr < INCLUDE_NEST /\ ~return_encountered
      BY <1>1, FilesAssumption DEF Begin, IInv, PcInv
    <2> QED BY <2>1, <2>2, IncludeKeeps
  <1>2. CASE EndOfFile
    BY <1>2, EndOfFileKeeps
  <1>3. CASE NextChainedFile
    BY <1>3, NextChainedFileKeeps
  <1>4. CASE EndOfPass
    BY <1>4, EndOfPassKeeps
  <1>5. CASE Resume
    BY <1>5, ResumeKeeps
  <1>6. CASE ReadFromCache \/ ReadFromFile \/ ReadEnd
    <2>1. /\ UNCHANGED <<stack, IfArray, if_pointer, base_pointer>>
          /\ pc = "read" /\ pc' \in {"read", "execute", "crashed"}
      BY <1>6 DEF ReadFromCache, ReadFromFile, ReadEnd, ifs
    <2> QED BY <2>1, StacksAlone
  <1>7. CASE PassOver \/ Rem \/ BadRem
    <2>1. /\ UNCHANGED <<stack, IfArray, if_pointer, base_pointer>>
          /\ pc = "execute" /\ pc' = "read"
      BY <1>7 DEF PassOver, Rem, BadRem, Executing, ExecuteOnly, ifs
    <2> QED BY <2>1, StacksAlone
  <1>8. CASE Return \/ DoIf \/ DoIfTrig \/ DoElse \/ DoEndif
    BY <1>8, BlocksStep
  <1>9. CASE DoInclude \/ DoIncludeCmd
    <2>1. pc = "execute" /\ ~return_encountered
      BY <1>9 DEF DoInclude, DoIncludeCmd, Executing, should_ignore_line
    <2>2. CASE StackIsFull
      <3>1. UNCHANGED <<stack, IfArray, if_pointer, base_pointer>> /\ pc' = "read"
        BY <1>9, <2>2 DEF DoInclude, DoIncludeCmd, NestedTooDeep, ifs
      <3> QED BY <3>1, <2>1, StacksAlone
    <2>3. CASE ~StackIsFull
      <3>1. IStackPtr < INCLUDE_NEST
        BY <2>3, FilesAssumption DEF StackIsFull, IInv, StackTypes
      <3>2. PICK f, p : IncludeFile(f, p) \/ IncludeCommand(f, p)
        BY <1>9, <2>3 DEF DoInclude, DoIncludeCmd
      <3> QED BY <3>1, <3>2, <2>1, IncludeKeeps
    <2> QED BY <2>2, <2>3
  <1>10. CASE UNCHANGED vars
    <2>1. UNCHANGED <<IStack, IStackPtr, before, IfArray, if_pointer, base_pointer,
                      return_encountered, pc>>
      BY <1>10 DEF vars, stack, ifs
    <2> QED BY <2>1 DEF IInv, StackTypes, BaseInv, PcInv, BlocksKept
  <1> QED BY <1>1, <1>2, <1>3, <1>4, <1>5, <1>6, <1>7, <1>8, <1>9, <1>10 DEF Next

-----------------------------------------------------------------------------
(***************************************************************************)
(* The theorems.                                                           *)
(***************************************************************************)
\* The strengthened invariant: base_pointer and those kept in IStack are the
\* heights that the stack of IFs had at the includes, one above the other
THEOREM FilesInvariant == Spec => []IInv
  <1>1. Init => IInv
    BY InitInv
  <1>2. IInv /\ [Next]_vars => IInv'
    BY Step
  <1> QED BY <1>1, <1>2, PTL DEF Spec

\* IF, ELSE, ENDIF and RETURN of an included file, matched or not, leave the open
\* blocks of all its includers as they were, and none of its own is left open
THEOREM BlocksOfIncluders == Spec => []BlocksKept
  <1>1. IInv => BlocksKept
    BY DEF IInv
  <1> QED BY <1>1, FilesInvariant, PTL

\* The arrays of the two stacks are never indexed beyond their ends
NoOverflow == IStackPtr \in 0 .. INCLUDE_NEST /\ if_pointer \in 0 .. IF_NEST

\* Neither INCLUDE nor IF, however deep, makes its stack overflow
THEOREM StacksBounded == Spec => []NoOverflow
  <1>1. IInv => NoOverflow
    BY DEF IInv, StackTypes, NoOverflow
  <1> QED BY <1>1, FilesInvariant, PTL
-----------------------------------------------------------------------------
(***************************************************************************)
(* FileName and LineNo.  A reader of a file remembers how many lines it    *)
(* has read, and LineNo counts them apart from it; the two are saved in    *)
(* IStack and resumed one by one.  PlaceInv says that they always agree,   *)
(* for the current file and for each of its includers.                     *)
(***************************************************************************)
\* Reader r is of file f, the n-th line of which has been read
At(r, f, n) == r.from # "none" => r.name = f /\ (r.from = "file" => r.at = n + 1)

PlaceInv ==
  /\ At(reader, fileName, lineNo)
  /\ \A k \in 1 .. IStackPtr : At(IStack[k].reader, IStack[k].filename, IStack[k].LineNo)
  /\ pc = "execute" => cur.src = fileName /\ cur.at = lineNo
  /\ executed \in Seq({executed[i] : i \in DOMAIN executed})
  /\ Located

\* A file that has just been opened, and none
LEMMA NewReader ==
  ASSUME NEW f, NEW n, NEW at, NEW r, r \in {NoReader, FileReader(f, 1), CacheReader(f, at)},
         r = FileReader(f, 1) => n = 0
  PROVE  At(r, f, n)
  BY DEF At, NoReader, FileReader, CacheReader

LEMMA AnyFileAt ==
  ASSUME NEW f, NEW n
  PROVE  At(NoReader, f, n)
  BY DEF At, NoReader

\* A sequence is one of its own elements
LEMMA SeqOfElements ==
  ASSUME NEW S, NEW t \in Seq(S)
  PROVE  t \in Seq({t[i] : i \in DOMAIN t})
  <1> DEFINE R == {t[i] : i \in DOMAIN t}
  <1>1. Len(t) \in Nat /\ DOMAIN t = 1 .. Len(t) /\ t = [i \in 1 .. Len(t) |-> t[i]]
    OBVIOUS
  <1>2. \A i \in 1 .. Len(t) : t[i] \in R
    BY <1>1
  <1>3. [i \in 1 .. Len(t) |-> t[i]] \in Seq(R)
    BY <1>1, <1>2
  <1> QED BY <1>1, <1>3

\* A sequence stays one whatever is appended
LEMMA Appended ==
  ASSUME NEW s, s \in Seq({s[i] : i \in DOMAIN s}), NEW e
  PROVE  /\ Append(s, e) \in Seq({Append(s, e)[i] : i \in DOMAIN Append(s, e)})
         /\ \A i \in DOMAIN Append(s, e) : Append(s, e)[i] = e \/ (i \in DOMAIN s /\ Append(s, e)[i] = s[i])
  <1> DEFINE S == {s[i] : i \in DOMAIN s} \cup {e}
             t == Append(s, e)
  <1>1. s \in Seq(S)
    OBVIOUS
  <1>2. t \in Seq(S) /\ Len(t) = Len(s) + 1
    BY <1>1
  <1>3. \A i \in DOMAIN t : t[i] = e \/ (i \in DOMAIN s /\ t[i] = s[i])
    BY <1>1, <1>2
  <1>4. t \in Seq({t[i] : i \in DOMAIN t})
    BY <1>2, SeqOfElements
  <1> QED BY <1>3, <1>4

(***************************************************************************)
(* Steps that leave the stack of files alone.                              *)
(***************************************************************************)
LEMMA SamePlace ==
  ASSUME PlaceInv, UNCHANGED <<stack, place, cur, executed>>, pc' = "execute" => pc = "execute"
  PROVE  PlaceInv'
  BY DEF PlaceInv, Located, stack, place

LEMMA OpenedPlace ==
  ASSUME NEW f, NEW depth, NEW p, OpenFile(f, depth, p) \/ FailToOpen(f, depth, p),
         At(reader, fileName, lineNo)
  PROVE  At(reader', fileName', lineNo')
  <1>1. CASE OpenFile(f, depth, p)
    <2>1. fileName' = f /\ lineNo' = 0 /\ reader' \in {FileReader(f, 1), CacheReader(f, 1)}
      BY <1>1 DEF OpenFile
    <2> QED BY <2>1, NewReader
  <1>2. CASE FailToOpen(f, depth, p)
    BY <1>2, AnyFileAt DEF FailToOpen
  <1> QED BY <1>1, <1>2

LEMMA PushedPlace ==
  ASSUME IInv, PlaceInv, NEW chain, Push(chain), IStackPtr < INCLUDE_NEST,
         At(reader', fileName', lineNo'), pc' # "execute", UNCHANGED executed
  PROVE  PlaceInv'
  <1>1. IStackPtr' = IStackPtr + 1 /\ IStackPtr \in Nat /\ IStackPtr + 1 \in 1 .. INCLUDE_NEST
    BY FilesAssumption DEF Push, IInv, StackTypes
  <1>2. /\ IStack'[IStackPtr + 1] = Frame(chain)
        /\ \A k \in 1 .. IStackPtr : IStack'[k] = IStack[k]
    BY <1>1 DEF Push, IInv, StackTypes
  <1>3. At(Frame(chain).reader, Frame(chain).filename, Frame(chain).LineNo)
    BY DEF Frame, PlaceInv
  <1>4. ASSUME NEW k \in 1 .. IStackPtr'
        PROVE  At(IStack'[k].reader, IStack'[k].filename, IStack'[k].LineNo)
    BY <1>1, <1>2, <1>3 DEF PlaceInv
  <1> QED BY <1>4 DEF PlaceInv, Located

LEMMA IncludedPlace ==
  ASSUME IInv, PlaceInv, NEW f, NEW p, IncludeFile(f, p) \/ IncludeCommand(f, p),
         IStackPtr < INCLUDE_NEST, UNCHANGED executed
  PROVE  PlaceInv'
  <1>0. At(reader, fileName, lineNo)
    BY DEF PlaceInv
  <1>1. CASE IncludeDirectory(f, p)
    <2>1. Push(setup.files[f].chain) /\ pc' \in {"unwind", "chain"} /\ reader' = NoReader
      BY <1>1 DEF IncludeDirectory, FailInclude
    <2> QED BY <2>1, AnyFileAt, PushedPlace
  <1>2. CASE IncludeOneFile(f, p)
    <2>1. Push(<< >>) /\ pc' \in {"read", "crashed", "unwind"}
      BY <1>2 DEF IncludeOneFile, OpenFile, FailInclude
    <2>2. At(reader', fileName', lineNo')
      BY <1>0, <1>2, OpenedPlace DEF IncludeOneFile
    <2> QED BY <2>1, <2>2, PushedPlace
  <1>3. CASE IncludeCommand(f, p)
    <2>1. Push(<< >>) /\ pc' \in {"read", "crashed", "unwind"}
      BY <1>3 DEF IncludeCommand, FailInclude
    <2>2. reader' = NoReader \/ (fileName' = f /\ lineNo' = 0 /\ reader' = CacheReader(f, 1))
      BY <1>3 DEF IncludeCommand
    <2>3. At(reader', fileName', lineNo')
      BY <2>2, AnyFileAt, NewReader
    <2> QED BY <2>1, <2>3, PushedPlace
  <1> QED BY <1>1, <1>2, <1>3 DEF IncludeFile

LEMMA NextChainedPlace ==
  ASSUME IInv, PlaceInv, NextChainedFile
  PROVE  PlaceInv'
  <1> DEFINE chain == IStack[IStackPtr].chain
  <1>1. /\ UNCHANGED <<IStackPtr, executed>> /\ pc = "chain" /\ pc' # "execute"
        /\ IStack' = [IStack EXCEPT ![IStackPtr].chain = Tail(chain)]
    BY DEF NextChainedFile, OpenFile
  <1>2. At(reader', fileName', lineNo')
    BY OpenedPlace DEF NextChainedFile, PlaceInv
  <1>3. \A k \in 1 .. IStackPtr : /\ IStack'[k].reader = IStack[k].reader
                                  /\ IStack'[k].filename = IStack[k].filename
                                  /\ IStack'[k].LineNo = IStack[k].LineNo
    <2>1. \A k \in 1 .. IStackPtr : k \in 1 .. INCLUDE_NEST
      BY FilesAssumption DEF IInv, StackTypes
    <2> QED BY <1>1, <2>1 DEF IInv, StackTypes
  <1> QED BY <1>1, <1>2, <1>3 DEF PlaceInv, Located

LEMMA PoppedPlace ==
  ASSUME IInv, PlaceInv, EndOfPass \/ Resume
  PROVE  PlaceInv'
  <1>1. IStackPtr \in 1 .. INCLUDE_NEST /\ INCLUDE_NEST \in Nat
    BY FilesAssumption DEF EndOfPass, Resume, IInv, PcInv, StackTypes
  <1>2. CASE EndOfPass
    <2>1. /\ UNCHANGED <<IStack, reader, fileName, lineNo>> /\ IStackPtr' = 0 /\ executed' = << >>
          /\ pc' # "execute"
      BY <1>2 DEF EndOfPass, place
    <2>2. \A k \in 1 .. IStackPtr' : FALSE
      BY <2>1
    <2>3. executed' \in Seq({executed'[i] : i \in DOMAIN executed'}) /\ Located'
      BY <2>1 DEF Located
    <2> QED BY <2>1, <2>2, <2>3 DEF PlaceInv
  <1>3. CASE Resume
    <2>1. /\ UNCHANGED <<IStack, executed>> /\ IStackPtr' = IStackPtr - 1 /\ pc' # "execute"
          /\ fileName' = IStack[IStackPtr].filename /\ lineNo' = IStack[IStackPtr].LineNo
          /\ reader' = IStack[IStackPtr].reader
      BY <1>3 DEF Resume
    <2>2. At(reader', fileName', lineNo')
      BY <1>1, <2>1 DEF PlaceInv
    <2>3. \A k \in 1 .. IStackPtr' : k \in 1 .. IStackPtr
      BY <1>1, <2>1
    <2> QED BY <2>1, <2>2, <2>3 DEF PlaceInv, Located
  <1> QED BY <1>2, <1>3

(***************************************************************************)
(* ReadLine: LineNo and CurLine come from the same reader.                 *)
(***************************************************************************)
LEMMA ReadPlace ==
  ASSUME PlaceInv, ReadFromCache \/ ReadFromFile \/ ReadEnd
  PROVE  PlaceInv'
  <1>1. UNCHANGED <<IStack, IStackPtr, fileName, executed>>
    BY DEF ReadFromCache, ReadFromFile, ReadEnd, stack
  <1>2. At(reader, fileName, lineNo)
    BY DEF PlaceInv
  <1>3. /\ At(reader', fileName', lineNo')
        /\ pc' = "execute" => cur'.src = fileName' /\ cur'.at = lineNo'
    <2>1. CASE ReadFromCache
      <3>1. reader.name = fileName /\ reader' = CacheReader(fileName, reader.at + 1)
        BY <1>2, <2>1 DEF ReadFromCache, At
      <3>2. At(reader', fileName', lineNo')
        BY <3>1, <1>1, NewReader DEF At, CacheReader, NoReader
      <3> QED BY <3>1, <3>2, <1>1, <2>1 DEF ReadFromCache
    <2>2. CASE ReadFromFile
      <3>1. reader.name = fileName /\ reader.at = lineNo + 1 /\ lineNo' = lineNo + 1
        BY <1>2, <2>2 DEF ReadFromFile, At
      <3>2. reader' \in {NoReader, FileReader(fileName, lineNo' + 1)}
        BY <3>1, <2>2 DEF ReadFromFile
      <3>3. At(reader', fileName', lineNo')
        BY <3>2, <1>1 DEF At, NoReader, FileReader
      <3> QED BY <3>1, <3>3, <1>1, <2>2 DEF ReadFromFile
    <2>3. CASE ReadEnd
      BY <2>3, AnyFileAt DEF ReadEnd
    <2> QED BY <2>1, <2>2, <2>3
  <1> QED BY <1>1, <1>3 DEF PlaceInv, Located

LEMMA RemPlace ==
  ASSUME PlaceInv, Rem
  PROVE  PlaceInv'
  <1> DEFINE e == [line |-> cur, fileName |-> fileName, lineNo |-> lineNo]
  <1>1. /\ UNCHANGED <<IStack, IStackPtr, reader, fileName, lineNo, cur>>
        /\ executed' = Append(executed, e) /\ pc = "execute" /\ pc' # "execute"
    BY DEF Rem, Executing, ExecuteOnly, stack, place
  <1>2. e.fileName = e.line.src /\ e.lineNo = e.line.at
    BY <1>1 DEF PlaceInv
  <1>3. /\ executed' \in Seq({executed'[i] : i \in DOMAIN executed'})
        /\ \A i \in DOMAIN executed' : executed'[i] = e \/ (i \in DOMAIN executed /\ executed'[i] = executed[i])
    BY <1>1, Appended DEF PlaceInv
  <1>4. Located'
    BY <1>2, <1>3 DEF PlaceInv, Located
  <1> QED BY <1>1, <1>3, <1>4 DEF PlaceInv

LEMMA PlaceStep ==
  ASSUME IInv, PlaceInv, [Next]_vars
  PROVE  PlaceInv'
  <1>1. CASE Begin
    <2>1. PICK f, p : IncludeFile(f, p)
      BY <1>1 DEF Begin
    <2>2. IStackPtr < INCLUDE_NEST /\ UNCHANGED executed
      BY <1>1, FilesAssumption DEF Begin, IInv, PcInv
    <2> QED BY <2>1, <2>2, IncludedPlace
  <1>2. CASE EndOfFile
    <2>1. UNCHANGED <<stack, place, cur, executed>> /\ pc' # "execute"
      BY <1>2 DEF EndOfFile
    <2> QED BY <2>1, SamePlace
  <1>3. CASE NextChainedFile
    BY <1>3, NextChainedPlace
  <1>4. CASE EndOfPass \/ Resume
    BY <1>4, PoppedPlace
  <1>5. CASE ReadFromCache \/ ReadFromFile \/ ReadEnd
    BY <1>5, ReadPlace
  <1>6. CASE Rem
    BY <1>6, RemPlace
  <1>7. CASE PassOver \/ BadRem \/ Return \/ DoIf \/ DoIfTrig \/ DoElse \/ DoEndif
    <2>1. UNCHANGED <<stack, place, cur, executed>> /\ pc' # "execute"
      BY <1>7 DEF PassOver, BadRem, Return, DoIf, DoIfTrig, DoElse, DoEndif, InBlock, ExecuteOnly
    <2> QED BY <2>1, SamePlace
  <1>8. CASE DoInclude \/ DoIncludeCmd
    <2>1. CASE StackIsFull
      <3>1. UNCHANGED <<stack, place, cur, executed>> /\ pc' # "execute"
        BY <1>8, <2>1 DEF DoInclude, DoIncludeCmd, NestedTooDeep
      <3> QED BY <3>1, SamePlace
    <2>2. CASE ~StackIsFull
      <3>1. IStackPtr < INCLUDE_NEST /\ UNCHANGED executed
        BY <1>8, <2>2, FilesAssumption DEF DoInclude, DoIncludeCmd, StackIsFull, IInv, StackTypes
      <3>2. PICK f, p : IncludeFile(f, p) \/ IncludeCommand(f, p)
        BY <1>8, <2>2 DEF DoInclude, DoIncludeCmd
      <3> QED BY <3>1, <3>2, IncludedPlace
    <2> QED BY <2>1, <2>2
  <1>9. CASE UNCHANGED vars
    BY <1>9, SamePlace DEF vars
  <1> QED BY <1>1, <1>2, <1>3, <1>4, <1>5, <1>6, <1>7, <1>8, <1>9 DEF Next

LEMMA PlaceInit == Init => PlaceInv
  <1> SUFFICES ASSUME Init PROVE PlaceInv
    OBVIOUS
  <1>1. IStackPtr = 0 /\ reader = NoReader /\ pc = "begin" /\ executed = << >>
    BY DEF Init
  <1>2. \A k \in 1 .. IStackPtr : FALSE
    BY <1>1
  <1>3. executed \in Seq({executed[i] : i \in DOMAIN executed}) /\ Located
    BY <1>1 DEF Located
  <1> QED BY <1>1, <1>2, <1>3, AnyFileAt DEF PlaceInv

\* The file name and the line number that filename() and the messages report are those
\* of the line being executed, whatever was included before it: an include, the end of
\* a file, a directory and the cache keep the two counts of lines together
THEOREM LinesLocated == Spec => []Located
  <1>1. Init => PlaceInv
    BY PlaceInit
  <1>2. IInv /\ PlaceInv /\ [Next]_vars => PlaceInv'
    BY PlaceStep
  <1>3. PlaceInv => Located
    BY DEF PlaceInv
  <1> QED BY <1>1, <1>2, <1>3, FilesInvariant, PTL DEF Spec
-----------------------------------------------------------------------------
(***************************************************************************)
(* The copies of a purge.  A copy is written by whoever has PurgeFP, line  *)
(* by line or from __EOF__ on at once, and PurgeFP follows the stack of    *)
(* files by rules of its own.  CopyInv says, of every copy, that it has    *)
(* all lines, or that there is a reader of its file, the current one or a  *)
(* suspended one, which will have PurgeFP when it reads on, and that the   *)
(* copy has all lines before the next of this reader.  A file that         *)
(* includes itself has several readers and one copy.                       *)
(***************************************************************************)
\* A sequence, of whatever
IsCopy(s) == s \in Seq({s[i] : i \in DOMAIN s})

Continues(t, s) == DOMAIN s \subseteq DOMAIN t /\ \A i \in DOMAIN s : t[i] = s[i]

\* A sequence of anything is one
LEMMA CopyOf ==
  ASSUME NEW S, NEW t, t \in Seq(S)
  PROVE  IsCopy(t)
  BY SeqOfElements DEF IsCopy

\* Where the elements of two sequences are when the second follows the first
LEMMA Concatenated ==
  ASSUME NEW s, IsCopy(s), NEW r, IsCopy(r), NEW t, t = s \o r
  PROVE  /\ IsCopy(t) /\ Len(s) \in Nat /\ Len(r) \in Nat
         /\ DOMAIN s = 1 .. Len(s) /\ DOMAIN t = 1 .. Len(s) + Len(r)
         /\ \A i \in 1 .. Len(s) : t[i] = s[i]
         /\ \A i \in 1 .. Len(r) : t[Len(s) + i] = r[i]
  <1>1. PICK S : s \in Seq(S) /\ r \in Seq(S)
    <2>1. /\ s \in Seq({s[i] : i \in DOMAIN s} \cup {r[i] : i \in DOMAIN r})
          /\ r \in Seq({s[i] : i \in DOMAIN s} \cup {r[i] : i \in DOMAIN r})
      BY DEF IsCopy
    <2> QED BY <2>1
  <1>2. /\ t \in Seq(S) /\ Len(t) = Len(s) + Len(r) /\ Len(s) \in Nat /\ Len(r) \in Nat
        /\ DOMAIN s = 1 .. Len(s)
    BY <1>1
  <1>3. DOMAIN t = 1 .. Len(s) + Len(r)
    BY <1>2
  <1>4. \A i \in 1 .. Len(s) : t[i] = s[i]
    BY <1>1
  <1>5. \A i \in 1 .. Len(r) : t[Len(s) + i] = r[i]
    BY <1>1
  <1>6. IsCopy(t)
    BY <1>2, CopyOf
  <1> QED BY <1>2, <1>3, <1>4, <1>5, <1>6

\* A sequence that goes on with another is one
LEMMA Joined ==
  ASSUME NEW s, IsCopy(s), NEW r, IsCopy(r)
  PROVE  IsCopy(s \o r) /\ Continues(s \o r, s)
  <1>1. PICK t : t = s \o r
    OBVIOUS
  <1>2. /\ IsCopy(t) /\ Len(s) \in Nat /\ Len(r) \in Nat
        /\ DOMAIN s = 1 .. Len(s) /\ DOMAIN t = 1 .. Len(s) + Len(r)
        /\ \A i \in 1 .. Len(s) : t[i] = s[i]
    BY <1>1, Concatenated
  <1>3. Continues(t, s)
    BY <1>2 DEF Continues
  <1> QED BY <1>1, <1>2, <1>3

\* ... and so is one to which an element is appended
LEMMA OneMore ==
  ASSUME NEW s, IsCopy(s), NEW e
  PROVE  /\ IsCopy(Append(s, e)) /\ Continues(Append(s, e), s)
         /\ Append(s, e)[Len(s) + 1] = e /\ Len(s) + 1 \in DOMAIN Append(s, e)
  <1>1. s \in Seq({s[i] : i \in DOMAIN s} \cup {e})
    BY DEF IsCopy
  <1>2. IsCopy(Append(s, e))
    BY <1>1, Appended DEF IsCopy
  <1> QED BY <1>1, <1>2 DEF Continues

\* A function on the numbers up to m is a sequence
LEMMA IsRow ==
  ASSUME NEW m \in Int, NEW r, r = [k \in 1 .. m |-> r[k]]
  PROVE  IsCopy(r) /\ (m \in Nat => Len(r) = m)
  <1>1. CASE m \in Nat
    <2>1. PICK S : \A k \in 1 .. m : r[k] \in S
      <3>1. \A k \in 1 .. m : r[k] \in {r[i] : i \in 1 .. m}
        OBVIOUS
      <3> QED BY <3>1
    <2>2. [k \in 1 .. m |-> r[k]] \in Seq(S) /\ Len([k \in 1 .. m |-> r[k]]) = m
      BY <1>1, <2>1
    <2>3. IsCopy(r)
      BY <2>2, CopyOf
    <2> QED BY <2>2, <2>3
  <1>2. CASE m \notin Nat
    <2>1. 1 .. m = 1 .. 0
      BY <1>2
    <2>2. r = [k \in 1 .. 0 |-> r[k]]
      BY <2>1
    <2>3. r \in Seq({})
      BY <2>2
    <2>4. IsCopy(r)
      BY <2>3, CopyOf
    <2> QED BY <1>2, <2>4
  <1> QED BY <1>1, <1>2

\* What a copy has it keeps when it goes on
LEMMA HoldsMore ==
  ASSUME NEW s, NEW t, Continues(t, s), NEW f, NEW I, Holds(s, f, I)
  PROVE  Holds(t, f, I)
  <1>1. PICK at \in [I -> DOMAIN s] : \A i, j \in I : /\ s[at[i]] = [src |-> f, at |-> i]
                                                      /\ i < j => at[i] < at[j]
    BY DEF Holds
  <1>2. at \in [I -> DOMAIN t] /\ \A i \in I : t[at[i]] = s[at[i]]
    BY <1>1 DEF Continues
  <1> QED BY <1>1, <1>2 DEF Holds

\* Nothing is held by every copy
LEMMA HoldsNothing ==
  ASSUME NEW s, NEW f
  PROVE  Holds(s, f, {})
  <1> DEFINE at == [i \in {} |-> 0]
  <1>1. at \in [{} -> DOMAIN s]
    OBVIOUS
  <1> QED BY <1>1 DEF Holds

\* A copy has lines of a file when each of them has a place in it, in the order of the file
LEMMA HoldsIs ==
  ASSUME NEW t, NEW f, NEW I
  PROVE  Holds(t, f, I) <=> \E at_ \in [I -> DOMAIN t] :
                              \A i, j \in I : t[at_[i]] = [src |-> f, at |-> i] /\ (i < j => at_[i] < at_[j])
  BY DEF Holds

\* A copy to which the lines from n + 1 to n + m of a file are added has any of these as well
LEMMA HoldsRest ==
  ASSUME NEW L \in Nat, NEW n \in Nat, NEW m \in Nat, NEW f,
         NEW s, DOMAIN s = 1 .. L,
         NEW t, DOMAIN t = 1 .. L + m, \A i \in 1 .. L : t[i] = s[i],
         \A k \in 1 .. m : t[L + k] = [src |-> f, at |-> n + k],
         NEW I, \A i \in I : i \in 1 .. n + m, Holds(s, f, I \cap (1 .. n))
  PROVE  Holds(t, f, I)
  <1>0. PICK at \in [I \cap (1 .. n) -> DOMAIN s] :
          \A i, j \in I \cap (1 .. n) : /\ s[at[i]] = [src |-> f, at |-> i]
                                        /\ i < j => at[i] < at[j]
    BY DEF Holds
  <1> DEFINE to == [i \in I |-> IF i <= n THEN at[i] ELSE L + (i - n)]
  <1>3. \A i \in I : i \in Nat /\ (i <= n => i \in I \cap (1 .. n)) /\ (~(i <= n) => i - n \in 1 .. m)
    OBVIOUS
  <1>4. ASSUME NEW i \in I
        PROVE  /\ to[i] \in DOMAIN t /\ t[to[i]] = [src |-> f, at |-> i]
               /\ i <= n => to[i] = at[i] /\ at[i] \in 1 .. L
               /\ ~(i <= n) => to[i] = L + (i - n)
    <2>1. CASE i <= n
      BY <1>0, <1>3, <2>1
    <2>2. CASE ~(i <= n)
      <3>1. to[i] = L + (i - n) /\ i - n \in 1 .. m
        BY <1>3, <2>2
      <3>2. t[to[i]] = [src |-> f, at |-> n + (i - n)]
        BY <3>1
      <3>3. n + (i - n) = i
        BY <1>3
      <3> QED BY <3>1, <3>2, <3>3, <2>2
    <2> QED BY <2>1, <2>2
  <1>5. \A i, j \in I : i < j => to[i] < to[j]
    <2>1. ASSUME NEW i \in I, NEW j \in I, i < j
          PROVE  to[i] < to[j]
      <3>1. CASE j <= n
        <4>1. i <= n
          BY <2>1, <3>1, <1>3
        <4> QED BY <3>1, <4>1, <2>1, <1>0, <1>3, <1>4
      <3>2. CASE ~(j <= n) /\ i <= n
        BY <3>2, <1>3, <1>4
      <3>3. CASE ~(j <= n) /\ ~(i <= n)
        BY <3>3, <2>1, <1>3, <1>4
      <3> QED BY <3>1, <3>2, <3>3
    <2> QED BY <2>1
  <1>6. to \in [I -> DOMAIN t]
    BY <1>4
  <1> HIDE DEF to
  <1>7. \A i, j \in I : t[to[i]] = [src |-> f, at |-> i] /\ (i < j => to[i] < to[j])
    BY <1>4, <1>5
  <1>8. \E at_ \in [I -> DOMAIN t] : \A i, j \in I : t[at_[i]] = [src |-> f, at |-> i] /\ (i < j => at_[i] < at_[j])
    <2> WITNESS to \in [I -> DOMAIN t]
    <2> QED BY <1>6, <1>7
  <1> QED BY <1>8, HoldsIs, Zenon

\* A copy to which the next line is added has it
LEMMA HoldsNext ==
  ASSUME NEW s, IsCopy(s), NEW f, NEW n \in Nat, NEW K \in SUBSET (Nat \ {0}),
         Holds(s, f, K \cap (1 .. n))
  PROVE  Holds(Append(s, [src |-> f, at |-> n + 1]), f, K \cap (1 .. n + 1))
  <1> DEFINE e == [src |-> f, at |-> n + 1]
             t == Append(s, e)
             I == K \cap (1 .. n + 1)
  <1>1. /\ Len(s) \in Nat /\ DOMAIN s = 1 .. Len(s) /\ DOMAIN t = 1 .. Len(s) + 1
        /\ \A i \in 1 .. Len(s) : t[i] = s[i]
        /\ t[Len(s) + 1] = e
    <2> HIDE DEF e
    <2>1. s \in Seq({s[i] : i \in DOMAIN s} \cup {e})
      BY DEF IsCopy
    <2> QED BY <2>1
  <1>2. \A k \in 1 .. 1 : t[Len(s) + k] = [src |-> f, at |-> n + k]
    BY <1>1
  <1>3. (\A i \in I : i \in 1 .. n + 1) /\ I \cap (1 .. n) = K \cap (1 .. n)
    OBVIOUS
  <1> HIDE DEF t, I
  <1>4. Holds(t, f, I)
    BY <1>1, <1>2, <1>3, HoldsRest
  <1> QED BY <1>4 DEF t, I

\* A copy to which a row of lines is added
LEMMA RowAdded ==
  ASSUME NEW s, IsCopy(s), NEW m \in Nat, NEW r, r = [k \in 1 .. m |-> r[k]], NEW t, t = s \o r
  PROVE  /\ Len(s) \in Nat /\ DOMAIN s = 1 .. Len(s) /\ DOMAIN t = 1 .. Len(s) + m
         /\ \A i \in 1 .. Len(s) : t[i] = s[i]
         /\ \A i \in 1 .. m : t[Len(s) + i] = r[i]
  <1>1. IsCopy(r) /\ Len(r) = m
    BY IsRow
  <1>2. /\ Len(s) \in Nat /\ DOMAIN s = 1 .. Len(s) /\ DOMAIN t = 1 .. Len(s) + Len(r)
        /\ \A i \in 1 .. Len(s) : t[i] = s[i]
        /\ \A i \in 1 .. Len(r) : t[Len(s) + i] = r[i]
    BY <1>1, Concatenated
  <1> QED BY <1>1, <1>2

\* ... and one to which all lines that are left are added has every line
LEMMA HoldsAll ==
  ASSUME NEW s, IsCopy(s), NEW n \in Nat, NEW m \in Nat,
         NEW r, r = [k \in 1 .. m |-> r[k]], NEW t, t = s \o r,
         NEW f, \A k \in 1 .. m : r[k] = [src |-> f, at |-> n + k],
         NEW K, \A i \in K : i \in 1 .. n + m, Holds(s, f, K \cap (1 .. n))
  PROVE  Holds(t, f, K)
  <1>1. /\ Len(s) \in Nat /\ DOMAIN s = 1 .. Len(s) /\ DOMAIN t = 1 .. Len(s) + m
        /\ \A i \in 1 .. Len(s) : t[i] = s[i]
        /\ \A i \in 1 .. m : t[Len(s) + i] = r[i]
    BY RowAdded
  <1>2. \A i \in 1 .. m : t[Len(s) + i] = [src |-> f, at |-> n + i]
    BY <1>1
  <1> QED BY <1>1, <1>2, HoldsRest

-----------------------------------------------------------------------------
(***************************************************************************)
(* What is read exists: a reader is of a file of the setup and at one of   *)
(* its lines, a line that is executed is one, and what it includes is a    *)
(* name.                                                                   *)
(***************************************************************************)
OfFile(r) ==
  /\ r.from # "none" => r.name \in Names
  /\ r.from = "file" => r.at \in Nat \ {0}
  /\ r.from = "cache" => r.at \in DOMAIN Lines(r.name)

ReadersInv ==
  /\ setup \in Setups
  /\ OfFile(reader)
  /\ \A k \in 1 .. IStackPtr : OfFile(IStack[k].reader) /\ IStack[k].chain \in Seq(Names)
  /\ pc = "execute" => cur.src \in Names /\ cur.at \in DOMAIN Lines(cur.src)

\* The parts of a setup
LEMMA SetupParts ==
  ASSUME setup \in Setups, NEW f \in Names
  PROVE  /\ setup.files[f] \in File /\ Lines(f) \in Seq(Command) /\ setup.files[f].chain \in Seq(Names)
         /\ setup.top \in Names /\ setup.purgeDepth \in Nat \cup {NotPurging}
         /\ Len(Lines(f)) \in Nat /\ DOMAIN Lines(f) = 1 .. Len(Lines(f))
  <1>1. setup \in Setup
    BY FilesAssumption
  <1>2. setup.files \in [Names -> File] /\ setup.top \in Names /\ setup.purgeDepth \in Nat \cup {NotPurging}
    BY <1>1 DEF Setup
  <1>3. setup.files[f] \in File
    BY <1>2
  <1>4. Lines(f) \in Seq(Command) /\ setup.files[f].chain \in Seq(Names)
    BY <1>3 DEF File, Lines
  <1> QED BY <1>2, <1>3, <1>4

\* A reader of the cache is at a line, or at the end
LEMMA CacheReaderOfFile ==
  ASSUME setup \in Setups, NEW f \in Names, NEW n \in Nat
  PROVE  OfFile(CacheReader(f, n))
  <1> DEFINE left == {i \in CacheableLines(f) : i >= n}
  <1>1. DOMAIN Lines(f) = 1 .. Len(Lines(f)) /\ Len(Lines(f)) \in Nat
    BY SetupParts
  <1>2. left \in SUBSET Nat /\ left \subseteq DOMAIN Lines(f)
    BY <1>1 DEF CacheableLines
  <1>3. CASE left = {}
    <2>1. CacheReader(f, n) = NoReader
      BY <1>3 DEF CacheReader
    <2> QED BY <2>1 DEF OfFile, NoReader
  <1>4. CASE left # {}
    <2>1. \E i \in left : \A j \in left : i <= j
      BY <1>2, <1>4, LeastNumber
    <2>2. (CHOOSE i \in left : \A j \in left : i <= j) \in left
      BY <2>1
    <2>3. CacheReader(f, n) = [from |-> "cache", name |-> f, at |-> CHOOSE i \in left : \A j \in left : i <= j]
      BY <1>4 DEF CacheReader
    <2> QED BY <1>2, <2>2, <2>3 DEF OfFile
  <1> QED BY <1>3, <1>4

\* ... and so is one that has just been opened
LEMMA NewReaderOfFile ==
  ASSUME setup \in Setups, NEW f \in Names, NEW r,
         r \in {NoReader, FileReader(f, 1), CacheReader(f, 1)}
  PROVE  OfFile(r)
  <1>1. OfFile(NoReader) /\ OfFile(FileReader(f, 1))
    BY DEF OfFile, NoReader, FileReader
  <1>2. OfFile(CacheReader(f, 1))
    BY CacheReaderOfFile
  <1> QED BY <1>1, <1>2

\* An INCLUDE names a file
LEMMA ArgIsName ==
  ASSUME ReadersInv, pc = "execute", Op \in {"include", "includecmd"}
  PROVE  Arg \in Names
  <1>1. cur.src \in Names /\ cur.at \in DOMAIN Lines(cur.src) /\ setup \in Setups
    BY DEF ReadersInv
  <1>2. Lines(cur.src) \in Seq(Command)
    BY <1>1, SetupParts
  <1>3. PICK c : c = Lines(cur.src)[cur.at] /\ c \in Command
    BY <1>1, <1>2
  <1>4. c.op = Op /\ c.arg = Arg
    BY <1>3 DEF Op, Arg
  <1>5. c \in [op : {"include", "includecmd"}, arg : Names]
    BY <1>3, <1>4 DEF Command, Plain
  <1> QED BY <1>4, <1>5

\* The readers when a file has been included
LEMMA IncludedReaders ==
  ASSUME IInv, ReadersInv, NEW f \in Names, NEW p, IncludeFile(f, p) \/ IncludeCommand(f, p),
         IStackPtr < INCLUDE_NEST, UNCHANGED setup, pc' # "execute"
  PROVE  ReadersInv'
  <1>1. IStackPtr \in Nat /\ IStackPtr + 1 \in 1 .. INCLUDE_NEST /\ setup \in Setups
    BY FilesAssumption DEF IInv, StackTypes, ReadersInv
  <1>2. PICK chain \in {<< >>, setup.files[f].chain} : Push(chain)
    BY DEF IncludeFile, IncludeDirectory, IncludeOneFile, IncludeCommand
  <1>3. chain \in Seq(Names)
    <2>1. setup.files[f].chain \in Seq(Names)
      BY <1>1, SetupParts
    <2>2. << >> \in Seq(Names)
      OBVIOUS
    <2> QED BY <1>2, <2>1, <2>2
  <1>4. /\ IStackPtr' = IStackPtr + 1 /\ IStack'[IStackPtr + 1] = Frame(chain)
        /\ \A k \in 1 .. IStackPtr : IStack'[k] = IStack[k]
    BY <1>1, <1>2 DEF Push, IInv, StackTypes
  <1>5. reader' \in {NoReader, FileReader(f, 1), CacheReader(f, 1)}
    BY DEF IncludeFile, IncludeDirectory, IncludeOneFile, IncludeCommand, OpenFile, FailToOpen
  <1>6. OfFile(reader)' /\ setup' \in Setups
    BY <1>1, <1>5, NewReaderOfFile DEF OfFile, Lines
  <1>7. ASSUME NEW k \in 1 .. IStackPtr'
        PROVE  OfFile(IStack[k].reader)' /\ IStack'[k].chain \in Seq(Names)
    <2>1. CASE k \in 1 .. IStackPtr
      BY <1>4, <2>1 DEF ReadersInv, OfFile, Lines
    <2>2. CASE k = IStackPtr + 1
      <3>1. IStack'[k].reader = reader /\ IStack'[k].chain = chain
        BY <1>4, <2>2 DEF Frame
      <3> QED BY <1>3, <3>1 DEF ReadersInv, OfFile, Lines
    <2> QED BY <1>1, <1>4, <2>1, <2>2
  <1> QED BY <1>6, <1>7 DEF ReadersInv

\* The readers when nothing is included or left
LEMMA SameReaders ==
  ASSUME ReadersInv, UNCHANGED <<setup, IStack, IStackPtr, reader, cur>>, pc' = "execute" => pc = "execute"
  PROVE  ReadersInv'
  BY DEF ReadersInv, OfFile, Lines

\* Every step keeps the readers in the files of the setup
LEMMA ReadersStep ==
  ASSUME IInv, ReadersInv, [Next]_vars
  PROVE  ReadersInv'
  <1>0. UNCHANGED setup /\ setup \in Setups
    BY DEF Next, vars, script, Begin, EndOfFile, NextChainedFile, EndOfPass, Resume, ReadFromCache,
       ReadFromFile, ReadEnd, PassOver, Rem, BadRem, Return, DoIf, DoIfTrig, DoElse, DoEndif, InBlock,
       ExecuteOnly, DoInclude, DoIncludeCmd, ReadersInv
  <1>1. CASE Begin
    <2>1. PICK p : IncludeFile(setup.top, p)
      BY <1>1 DEF Begin
    <2>2. IStackPtr < INCLUDE_NEST
      BY <1>1, FilesAssumption DEF Begin, IInv, PcInv
    <2>3. setup.top \in Names /\ setup \in Setup
      BY <1>0, FilesAssumption DEF Setup
    <2>4. pc' # "execute"
      BY <1>1 DEF Begin, IncludeFile, IncludeDirectory, IncludeOneFile, FailInclude, OpenFile
    <2>5. PICK f : f = setup.top
      OBVIOUS
    <2> QED BY <1>0, <2>1, <2>2, <2>3, <2>4, <2>5, IncludedReaders
  <1>2. CASE EndOfFile
    <2>1. UNCHANGED <<IStack, IStackPtr, reader, cur>> /\ pc' # "execute"
      BY <1>2 DEF EndOfFile, stack, place
    <2> QED BY <1>0, <2>1, SameReaders
  <1>3. CASE NextChainedFile
    <2>1. IStackPtr \in 1 .. INCLUDE_NEST
      BY <1>3, FilesAssumption DEF NextChainedFile, IInv, PcInv, StackTypes
    <2>2. PICK chain : chain = IStack[IStackPtr].chain
      OBVIOUS
    <2>3. chain \in Seq(Names) /\ chain # << >> /\ pc = "chain" /\ pc' # "execute"
      BY <1>3, <2>1, <2>2 DEF NextChainedFile, OpenFile, ReadersInv
    <2>4. PICK f : f = Head(chain)
      OBVIOUS
    <2>5. f \in Names /\ Tail(chain) \in Seq(Names)
      BY <2>3, <2>4
    <2>6. reader' \in {NoReader, FileReader(f, 1), CacheReader(f, 1)}
      BY <1>3, <2>2, <2>4 DEF NextChainedFile, OpenFile, FailToOpen
    <2>7. OfFile(reader)'
      BY <1>0, <2>5, <2>6, NewReaderOfFile DEF OfFile, Lines
    <2>8. IStackPtr' = IStackPtr /\ IStack' = [IStack EXCEPT ![IStackPtr].chain = Tail(chain)]
      BY <1>3, <2>2 DEF NextChainedFile
    <2>9. \A k \in 1 .. IStackPtr : k \in 1 .. INCLUDE_NEST
      BY <2>1, FilesAssumption
    <2>10. \A k \in 1 .. IStackPtr : /\ IStack'[k].reader = IStack[k].reader
                                     /\ IStack'[k].chain \in {IStack[k].chain, Tail(chain)}
      BY <2>1, <2>8, <2>9 DEF IInv, StackTypes
    <2>11. \A k \in 1 .. IStackPtr' : OfFile(IStack[k].reader)' /\ IStack'[k].chain \in Seq(Names)
      BY <1>0, <2>5, <2>8, <2>10 DEF ReadersInv, OfFile, Lines
    <2> QED BY <1>0, <2>3, <2>7, <2>11 DEF ReadersInv
  <1>4. CASE EndOfPass
    <2>1. UNCHANGED <<IStack, reader>> /\ IStackPtr' = 0 /\ pc' # "execute"
      BY <1>4 DEF EndOfPass, place
    <2>2. OfFile(reader)' /\ \A k \in 1 .. IStackPtr' : FALSE
      BY <1>0, <2>1 DEF ReadersInv, OfFile, Lines
    <2> QED BY <1>0, <2>1, <2>2 DEF ReadersInv
  <1>5. CASE Resume
    <2>1. /\ UNCHANGED IStack /\ IStackPtr' = IStackPtr - 1 /\ pc' # "execute"
          /\ reader' = IStack[IStackPtr].reader /\ IStackPtr \in Nat \ {0}
      BY <1>5, FilesAssumption DEF Resume, IInv, StackTypes
    <2>2. OfFile(reader)'
      BY <1>0, <2>1 DEF ReadersInv, OfFile, Lines
    <2>3. \A k \in 1 .. IStackPtr' : k \in 1 .. IStackPtr
      BY <2>1
    <2>4. \A k \in 1 .. IStackPtr' : OfFile(IStack[k].reader)' /\ IStack'[k].chain \in Seq(Names)
      BY <1>0, <2>1, <2>3 DEF ReadersInv, OfFile, Lines
    <2> QED BY <1>0, <2>1, <2>2, <2>4 DEF ReadersInv
  <1>6. CASE ReadFromCache \/ ReadFromFile \/ ReadEnd
    <2>1. UNCHANGED <<IStack, IStackPtr>>
      BY <1>6 DEF ReadFromCache, ReadFromFile, ReadEnd, stack
    <2>2. \A k \in 1 .. IStackPtr' : OfFile(IStack[k].reader)' /\ IStack'[k].chain \in Seq(Names)
      BY <1>0, <2>1 DEF ReadersInv, OfFile, Lines
    <2>3. OfFile(reader)' /\ (pc' = "execute" => cur'.src \in Names /\ cur'.at \in DOMAIN (Lines(cur.src)'))
      <3>1. CASE ReadFromCache
        <4>1. reader.name \in Names /\ reader.at \in DOMAIN Lines(reader.name) /\ reader.at + 1 \in Nat
          <5>1. reader.name \in Names /\ reader.at \in DOMAIN Lines(reader.name)
            BY <3>1 DEF ReadFromCache, ReadersInv, OfFile
          <5>2. DOMAIN Lines(reader.name) = 1 .. Len(Lines(reader.name))
            BY <1>0, <5>1, SetupParts
          <5> QED BY <5>1, <5>2
        <4>2. PICK f \in Names, n \in Nat : f = reader.name /\ n = reader.at + 1
          BY <4>1
        <4>3. reader' = CacheReader(f, n)
          BY <3>1, <4>2 DEF ReadFromCache
        <4>4. OfFile(reader)'
          BY <1>0, <4>3, CacheReaderOfFile DEF OfFile, Lines
        <4> QED BY <1>0, <3>1, <4>1, <4>4 DEF ReadFromCache, Lines
      <3>2. CASE ReadFromFile
        <4>1. /\ reader.name \in Names /\ reader.at \in Nat \ {0} /\ reader.at <= Len(Lines(reader.name))
              /\ cur' = [src |-> reader.name, at |-> reader.at]
              /\ reader' \in {NoReader, FileReader(reader.name, reader.at + 1)}
          BY <3>2 DEF ReadFromFile, ReadersInv, OfFile
        <4>2. DOMAIN Lines(reader.name) = 1 .. Len(Lines(reader.name)) /\ Len(Lines(reader.name)) \in Nat
          BY <1>0, <4>1, SetupParts
        <4>3. OfFile(reader)'
          BY <4>1 DEF OfFile, NoReader, FileReader
        <4>4. reader.at \in DOMAIN Lines(reader.name)
          BY <4>1, <4>2
        <4> QED BY <1>0, <4>1, <4>3, <4>4 DEF Lines
      <3>3. CASE ReadEnd
        <4>1. reader' = NoReader /\ pc' # "execute"
          BY <3>3 DEF ReadEnd
        <4> QED BY <4>1 DEF OfFile, NoReader
      <3> QED BY <1>6, <3>1, <3>2, <3>3
    <2> QED BY <1>0, <2>2, <2>3 DEF ReadersInv
  <1>7. CASE PassOver \/ Rem \/ BadRem \/ Return \/ DoIf \/ DoIfTrig \/ DoElse \/ DoEndif
    <2>1. UNCHANGED <<IStack, IStackPtr, reader, cur>> /\ pc' # "execute"
      BY <1>7 DEF PassOver, Rem, BadRem, Return, DoIf, DoIfTrig, DoElse, DoEndif, InBlock, ExecuteOnly, stack, place
    <2> QED BY <1>0, <2>1, SameReaders
  <1>8. CASE DoInclude \/ DoIncludeCmd
    <2>1. CASE StackIsFull
      <3>1. UNCHANGED <<IStack, IStackPtr, reader, cur>> /\ pc' # "execute"
        BY <1>8, <2>1 DEF DoInclude, DoIncludeCmd, NestedTooDeep, stack, place
      <3> QED BY <1>0, <3>1, SameReaders
    <2>2. CASE ~StackIsFull
      <3>1. IStackPtr < INCLUDE_NEST
        BY <1>8, <2>2, FilesAssumption DEF StackIsFull, IInv, StackTypes
      <3>2. PICK f, p : f = Arg /\ (IncludeFile(f, p) \/ IncludeCommand(f, p))
        BY <1>8, <2>2 DEF DoInclude, DoIncludeCmd
      <3>3. f \in Names
        BY <1>8, <3>2, ArgIsName DEF DoInclude, DoIncludeCmd, Executing
      <3>4. pc' # "execute"
        BY <3>2 DEF IncludeFile, IncludeCommand, IncludeDirectory, IncludeOneFile, FailInclude, OpenFile
      <3> QED BY <1>0, <3>1, <3>2, <3>3, <3>4, IncludedReaders
    <2> QED BY <2>1, <2>2
  <1>9. CASE UNCHANGED vars
    <2>1. UNCHANGED <<IStack, IStackPtr, reader, cur>> /\ pc' = pc
      BY <1>9 DEF vars, stack, place
    <2> QED BY <1>0, <2>1, SameReaders
  <1> QED BY <1>1, <1>2, <1>3, <1>4, <1>5, <1>6, <1>7, <1>8, <1>9 DEF Next

\* Nothing is read at first
LEMMA ReadersInit == Init => ReadersInv
  <1> SUFFICES ASSUME Init PROVE ReadersInv
    OBVIOUS
  <1>1. setup \in Setups /\ reader = NoReader /\ IStackPtr = 0 /\ pc = "begin"
    BY DEF Init
  <1>2. OfFile(reader) /\ \A k \in 1 .. IStackPtr : FALSE
    BY <1>1 DEF OfFile, NoReader
  <1> QED BY <1>1, <1>2 DEF ReadersInv

-----------------------------------------------------------------------------
(***************************************************************************)
(* Copies and readers.                                                     *)
(***************************************************************************)
NoEof(f, n) == \A i \in 1 .. n : Lines(f)[i].op # "eof"

\* Reader r comes to line n + 1 of f next, and the copy has what is before
Upto(f, copy, r, n) ==
  /\ r = FileReader(f, n + 1) /\ n <= Len(Lines(f)) /\ NoEof(f, n)
  /\ Holds(copy, f, Kept(f) \cap (1 .. n))

\* The reader in IStack[k], of the file that is the (k - 1)-th of the stack
Suspended(f, copy, k) ==
  /\ IStack[k].filename = f /\ PurgeFileOf(f, k - 1) = f
  /\ \E n \in Nat : Upto(f, copy, IStack[k].reader, n)

Accounted(f, copy) ==
  Holds(copy, f, Kept(f)) \/ \E k \in 2 .. IStackPtr : Suspended(f, copy, k)

OpenHere(f) == fileName = f /\ purgeFP = f /\ PurgeFileOf(f, IStackPtr) = f
Reading(f, copy) == OpenHere(f) /\ \E n \in Nat : Upto(f, copy, reader, n)

\* A line that has been read and is not in the copy yet
Pending(f, copy) ==
  /\ OpenHere(f)
  /\ \E n \in Nat :
       /\ cur = [src |-> f, at |-> n + 1] /\ n < Len(Lines(f)) /\ NoEof(f, n + 1)
       /\ reader = FileReader(f, n + 2) \/ (reader = NoReader /\ n + 1 = Len(Lines(f)))
       /\ Holds(copy, f, Kept(f) \cap (1 .. n))

\* Whose copy has been begun
HasReader(f, k) ==
  IStack[k].reader.from = "file" /\ IStack[k].filename = f /\ PurgeFileOf(f, k - 1) = f
Copying(f) ==
  \/ purged[f] # << >> \/ purgeFP = f
  \/ f = setup.top /\ pc # "begin"
  \/ \E k \in 2 .. IStackPtr : HasReader(f, k)

Copies(p) == DOMAIN p = Names /\ \A f \in Names : IsCopy(p[f])
CopyIsOpen == pc \in {"read", "execute"} /\ reader.from = "file" => purgeFP = PurgeFileOf(fileName, IStackPtr)
CopiesKept ==
  \A f \in Names : setup.files[f].kind = "file" /\ Copying(f) =>
    \/ Accounted(f, purged[f])
    \/ pc = "read" /\ Reading(f, purged[f])
    \/ pc = "execute" /\ Pending(f, purged[f])

\* A purge reads the script once, without a cache
OnePass ==
  /\ iterations = 1 \/ pc \in {"done", "failed"}
  /\ pc = "begin" => cached = {} /\ reader = NoReader
  /\ pc = "done" => IStackPtr = 0

Whole == ~shouldCache /\ Copies(purged) /\ CopyIsOpen /\ CopiesKept

CopyInv == PurgeMode => OnePass /\ Whole

\* The lines that a copy should have are lines
LEMMA KeptLines ==
  ASSUME setup \in Setups, NEW f \in Names
  PROVE  /\ Kept(f) \in SUBSET (Nat \ {0}) /\ Len(Lines(f)) \in Nat
         /\ Kept(f) \cap (1 .. Len(Lines(f))) = Kept(f)
         /\ \A i \in Kept(f) : i \in 1 .. Len(Lines(f))
  <1>1. Len(Lines(f)) \in Nat /\ DOMAIN Lines(f) = 1 .. Len(Lines(f))
    BY SetupParts
  <1>2. Kept(f) \subseteq 1 .. Len(Lines(f))
    BY <1>1 DEF Kept
  <1> QED BY <1>1, <1>2

\* A file that is accounted for stays so when its copy goes on
LEMMA AccountedMore ==
  ASSUME NEW f, NEW s, NEW t, Continues(t, s)
  PROVE  (Accounted(f, s) => Accounted(f, t)) /\ (Accounted(f, s)' => Accounted(f, t)')
  <1>1. \A I : Holds(s, f, I) => Holds(t, f, I)
    BY HoldsMore
  <1>2. Accounted(f, s) => Accounted(f, t)
    BY <1>1 DEF Accounted, Suspended, Upto
  <1>3. ASSUME Holds(s, f, Kept(f))'
        PROVE  Holds(t, f, Kept(f))'
    <2>1. PICK K : K = Kept(f)'
      OBVIOUS
    <2>2. Holds(s, f, K)
      BY <1>3, <2>1 DEF Holds
    <2>3. Holds(t, f, K)
      BY <1>1, <2>2
    <2> QED BY <2>1, <2>3 DEF Holds
  <1>4. ASSUME NEW k \in 2 .. IStackPtr', Suspended(f, s, k)'
        PROVE  Suspended(f, t, k)'
    <2>1. PICK n \in Nat : Upto(f, s, IStack[k].reader, n)'
      BY <1>4 DEF Suspended
    <2>2. PICK K : K = (Kept(f) \cap (1 .. n))'
      OBVIOUS
    <2>3. Holds(s, f, Kept(f) \cap (1 .. n))'
      BY <2>1 DEF Upto
    <2>4. Holds(s, f, K)
      BY <2>2, <2>3 DEF Holds
    <2>5. Holds(t, f, K)
      BY <1>1, <2>4
    <2>6. Holds(t, f, Kept(f) \cap (1 .. n))'
      BY <2>2, <2>5 DEF Holds
    <2>7. Upto(f, t, IStack[k].reader, n)'
      BY <2>1, <2>6 DEF Upto
    <2> QED BY <1>4, <2>7 DEF Suspended
  <1>5. Accounted(f, s)' => Accounted(f, t)'
    BY <1>3, <1>4 DEF Accounted
  <1> QED BY <1>2, <1>5

\* What is said of a setup remains true
LEMMA SameSetup ==
  ASSUME UNCHANGED setup, NEW f
  PROVE  /\ Lines(f)' = Lines(f) /\ Kept(f)' = Kept(f)
         /\ \A n : NoEof(f, n)' <=> NoEof(f, n)
         /\ \A k : PurgeFileOf(f, k)' = PurgeFileOf(f, k)
         /\ PurgeMode' <=> PurgeMode
         /\ \A s : \A I : Holds(s, f, I)' <=> Holds(s, f, I)
  <1>1. Lines(f)' = Lines(f)
    BY DEF Lines
  <1>2. EofOf(f)' = EofOf(f)
    BY <1>1 DEF EofOf
  <1>3. Kept(f)' = Kept(f)
    BY <1>1, <1>2 DEF Kept
  <1>4. \A n : NoEof(f, n)' <=> NoEof(f, n)
    BY <1>1 DEF NoEof
  <1>5. PurgeMode' <=> PurgeMode
    BY DEF PurgeMode
  <1>6. \A k : PurgeFileOf(f, k)' = PurgeFileOf(f, k)
    BY <1>5 DEF PurgeFileOf
  <1>7. \A s : \A I : Holds(s, f, I)' <=> Holds(s, f, I)
    BY DEF Holds
  <1> QED BY <1>1, <1>3, <1>4, <1>5, <1>6, <1>7

\* Where a reader is depends on the setup alone
LEMMA UptoAgain ==
  ASSUME NEW f, NEW s, NEW n, NEW r, UNCHANGED setup, Upto(f, s, r, n)
  PROVE  Upto(f, s, r, n)'
  <1>1. /\ r = FileReader(f, n + 1) /\ n <= Len(Lines(f)) /\ NoEof(f, n)
        /\ Holds(s, f, Kept(f) \cap (1 .. n))
    BY DEF Upto
  <1>2. NoEof(f, n)' /\ n <= Len(Lines(f)')
    BY <1>1, SameSetup
  <1>3. Holds(s, f, Kept(f) \cap (1 .. n))'
    <2>1. Kept(f)' = Kept(f)
      BY SameSetup
    <2> QED BY <1>1, <2>1 DEF Holds
  <1>4. FileReader(f, n + 1)' = FileReader(f, n + 1)
    BY DEF FileReader
  <1> QED BY <1>1, <1>2, <1>3, <1>4 DEF Upto

\* The stack and the setup decide whether a file is accounted for
LEMMA AccountedAgain ==
  ASSUME NEW f, NEW s, UNCHANGED setup, Accounted(f, s),
         \A k \in 2 .. IStackPtr : /\ k \in 2 .. IStackPtr' /\ IStack'[k].filename = IStack[k].filename
                                   /\ IStack'[k].reader = IStack[k].reader
  PROVE  Accounted(f, s)'
  <1>1. CASE Holds(s, f, Kept(f))
    <2>1. Kept(f)' = Kept(f)
      BY SameSetup
    <2>2. Holds(s, f, Kept(f))'
      BY <1>1, <2>1 DEF Holds
    <2> QED BY <2>2 DEF Accounted
  <1>2. CASE \E k \in 2 .. IStackPtr : Suspended(f, s, k)
    <2>1. PICK k \in 2 .. IStackPtr, n \in Nat :
            IStack[k].filename = f /\ PurgeFileOf(f, k - 1) = f /\ Upto(f, s, IStack[k].reader, n)
      BY <1>2 DEF Suspended
    <2>2. PICK r : r = IStack[k].reader
      OBVIOUS
    <2>3. Upto(f, s, r, n)'
      BY <2>1, <2>2, UptoAgain
    <2>4. Upto(f, s, IStack[k].reader, n)'
      BY <2>1, <2>2, <2>3 DEF Upto
    <2>5. PurgeFileOf(f, k - 1)' = f
      BY <2>1, SameSetup
    <2>6. Suspended(f, s, k)'
      BY <2>1, <2>4, <2>5 DEF Suspended
    <2> QED BY <2>1, <2>6 DEF Accounted
  <1> QED BY <1>1, <1>2 DEF Accounted

(***************************************************************************)
(* A line is copied.                                                       *)
(***************************************************************************)
LEMMA Echoed ==
  ASSUME NEW p, Copies(p), NEW g, NEW q, q = Echo(p, g)
  PROVE  /\ Copies(q)
         /\ \A f \in Names : /\ Continues(q[f], p[f])
                             /\ f # g => q[f] = p[f]
                             /\ f = g => q[f] = Append(p[f], cur)
  <1>0. \A s : Continues(s, s)
    BY DEF Continues
  <1>1. CASE g \notin Names
    <2>1. DOMAIN q = Names /\ \A f \in Names : q[f] = p[f]
      BY <1>1 DEF Echo, Copies
    <2> QED BY <2>1, <1>0, <1>1 DEF Copies
  <1>2. CASE g \in Names
    <2>1. PICK c : c = cur
      OBVIOUS
    <2>2. g # NoName
      BY <1>2, FilesAssumption
    <2>3. q = [p EXCEPT ![g] = Append(p[g], c)]
      BY <2>1, <2>2 DEF Echo
    <2>4. DOMAIN q = Names /\ q[g] = Append(p[g], c) /\ \A f \in Names : f # g => q[f] = p[f]
      BY <1>2, <2>3 DEF Copies
    <2>5. IsCopy(q[g]) /\ Continues(q[g], p[g])
      BY <1>2, <2>4, OneMore DEF Copies
    <2>6. \A f \in Names : IsCopy(q[f]) /\ Continues(q[f], p[f])
      BY <1>0, <2>4, <2>5 DEF Copies
    <2> QED BY <2>1, <2>4, <2>6 DEF Copies
  <1> QED BY <1>1, <1>2

\* What is in the copies when the line has been executed
Written(p) ==
  /\ Copies(p)
  /\ \A f \in Names : /\ Continues(p[f], purged[f])
                      /\ f # purgeFP => p[f] = purged[f]
                      /\ f = purgeFP /\ Op # "annotation" => Continues(p[f], Append(purged[f], cur))

\* A line is echoed once or twice, or is an annotation
LEMMA WrittenOnce ==
  ASSUME Copies(purged), NEW p, p \in {Echo(purged, purgeFP), Echo(Echo(purged, purgeFP), purgeFP)}
         \/ (p = purged /\ Op = "annotation")
  PROVE  Written(p)
  <1>0. \A s : Continues(s, s)
    BY DEF Continues
  <1>1. PICK p0, g, c : p0 = purged /\ g = purgeFP /\ c = cur
    OBVIOUS
  <1>2. PICK q : q = Echo(p0, g)
    OBVIOUS
  <1>3. /\ Copies(q)
        /\ \A f \in Names : /\ Continues(q[f], p0[f])
                            /\ f # g => q[f] = p0[f]
                            /\ f = g => q[f] = Append(p0[f], cur)
    BY <1>1, <1>2, Echoed
  <1>4. CASE p = q
    BY <1>0, <1>1, <1>3, <1>4 DEF Written
  <1>5. CASE p = Echo(q, g)
    <2>1. /\ Copies(p)
          /\ \A f \in Names : Continues(p[f], q[f]) /\ (f # g => p[f] = q[f])
      BY <1>3, <1>5, Echoed
    <2>2. \A f \in Names : Continues(p[f], p0[f])
      BY <1>3, <2>1 DEF Continues
    <2> QED BY <1>1, <1>3, <2>1, <2>2 DEF Written
  <1>6. CASE p = purged /\ Op = "annotation"
    BY <1>0, <1>6 DEF Written
  <1> QED BY <1>1, <1>2, <1>4, <1>5, <1>6

\* The line that was read is in the copy, or should not be
LEMMA LineDone ==
  ASSUME setup \in Setups, CopiesKept, Copies(purged), pc = "execute",
         NEW f \in Names, setup.files[f].kind = "file", Copying(f), NEW p, Written(p)
  PROVE  Accounted(f, p[f]) \/ Reading(f, p[f])
  <1>1. PICK s, t : s = purged[f] /\ t = p[f]
    OBVIOUS
  <1>2. Continues(t, s) /\ IsCopy(s)
    BY <1>1 DEF Written, Copies
  <1>3. CASE Accounted(f, purged[f])
    BY <1>1, <1>2, <1>3, AccountedMore
  <1>4. CASE Pending(f, purged[f])
    <2>1. PICK n \in Nat :
            /\ cur = [src |-> f, at |-> n + 1] /\ n < Len(Lines(f)) /\ NoEof(f, n + 1)
            /\ reader = FileReader(f, n + 2) \/ (reader = NoReader /\ n + 1 = Len(Lines(f)))
            /\ Holds(s, f, Kept(f) \cap (1 .. n))
      BY <1>1, <1>4 DEF Pending
    <2>2. PICK K : K = Kept(f) /\ K \in SUBSET (Nat \ {0}) /\ Kept(f) \cap (1 .. Len(Lines(f))) = Kept(f)
      BY KeptLines
    <2>3. OpenHere(f) /\ Op = Lines(f)[n + 1].op
      BY <1>4, <2>1 DEF Pending, Op
    <2>4. Holds(t, f, K \cap (1 .. n + 1))
      <3>1. CASE Op = "annotation"
        <4>1. \A k \in EofOf(f) : ~(k < n + 1)
          <5>1. ASSUME NEW k \in EofOf(f), k < n + 1 PROVE FALSE
            <6>1. k \in 1 .. Len(Lines(f)) /\ Lines(f)[k].op = "eof"
              BY SetupParts DEF EofOf
            <6>2. k \in 1 .. n + 1
              BY <5>1, <6>1
            <6> QED BY <2>1, <6>1, <6>2 DEF NoEof
          <5> QED BY <5>1
        <4>2. n + 1 \notin K
          BY <2>2, <2>3, <3>1, <4>1 DEF Kept
        <4>3. K \cap (1 .. n + 1) = K \cap (1 .. n)
          BY <2>2, <4>2
        <4> QED BY <1>2, <2>1, <2>2, <4>3, HoldsMore
      <3>2. CASE Op # "annotation"
        <4>1. PICK u : u = Append(s, [src |-> f, at |-> n + 1])
          OBVIOUS
        <4>2. Holds(u, f, K \cap (1 .. n + 1))
          BY <1>2, <2>1, <2>2, <4>1, HoldsNext
        <4>3. Continues(t, u)
          BY <1>1, <2>1, <2>3, <3>2, <4>1 DEF Written, OpenHere
        <4> QED BY <4>2, <4>3, HoldsMore
      <3> QED BY <3>1, <3>2
    <2>5. CASE reader = FileReader(f, n + 2)
      <3>1. PICK m \in Nat : m = n + 1
        OBVIOUS
      <3>2. reader = FileReader(f, m + 1) /\ m <= Len(Lines(f))
        <4>1. m + 1 = n + 2 /\ Len(Lines(f)) \in Nat
          BY <3>1, KeptLines
        <4> QED BY <2>1, <2>5, <3>1, <4>1
      <3>3. Upto(f, t, reader, m)
        BY <2>1, <2>2, <2>4, <3>1, <3>2 DEF Upto
      <3> QED BY <1>1, <2>3, <3>3 DEF Reading
    <2>6. CASE n + 1 = Len(Lines(f))
      BY <1>1, <2>2, <2>4, <2>6 DEF Accounted
    <2> QED BY <2>1, <2>5, <2>6
  <1> QED BY <1>3, <1>4 DEF CopiesKept

(***************************************************************************)
(* A file is included.  T are the files whose copies have been begun.      *)
(***************************************************************************)
Prepared(p, T) ==
  /\ Copies(p)
  /\ \A f \in Names : p[f] # << >> \/ (\E k \in 2 .. IStackPtr : HasReader(f, k)) => f \in T
  /\ \A f \in Names : f \in T /\ setup.files[f].kind = "file" => Accounted(f, p[f])

\* The includer, if a copy of it is being written, is suspended with its copy
LEMMA PushPrepares ==
  ASSUME IInv, ReadersInv, PurgeMode, CopyInv, UNCHANGED setup,
         NEW chain, Push(chain), IStackPtr < INCLUDE_NEST,
         NEW p, (pc = "begin" /\ p = purged) \/ (pc = "execute" /\ Written(p)),
         NEW T, \A f \in Names : f \in T <=> Copying(f)
  PROVE  Prepared(p, T)'
  <1>1. /\ IStackPtr \in Nat /\ IStackPtr + 1 \in 1 .. INCLUDE_NEST /\ setup \in Setups
        /\ IStackPtr' = IStackPtr + 1
        /\ pc = "execute" => IStackPtr > 0
        /\ pc = "begin" => IStackPtr = 0
    BY FilesAssumption DEF IInv, StackTypes, PcInv, ReadersInv, Push
  <1>2. /\ IStack'[IStackPtr + 1] = Frame(chain)
        /\ \A k \in 1 .. IStackPtr : IStack'[k] = IStack[k]
    BY <1>1 DEF Push, IInv, StackTypes
  <1>3. Copies(purged) /\ CopyIsOpen /\ CopiesKept /\ (pc = "begin" => reader = NoReader)
    BY DEF CopyInv, Whole, OnePass
  <1>4. Copies(p)
    BY <1>3 DEF Written
  <1>5. Copies(p)'
    BY <1>4 DEF Copies, IsCopy
  <1>6. ASSUME NEW f \in Names, p[f] # << >>
        PROVE  f \in T
    BY <1>6 DEF Written, Copying
  <1>7. ASSUME NEW f \in Names, NEW k \in 2 .. IStackPtr', HasReader(f, k)'
        PROVE  f \in T
    <2>1. /\ IStack'[k].reader.from = "file" /\ IStack'[k].filename = f /\ PurgeFileOf(f, k - 1) = f
      BY <1>7, SameSetup DEF HasReader
    <2>2. CASE k \in 2 .. IStackPtr
      <3>1. IStack'[k] = IStack[k]
        BY <1>1, <1>2, <2>2
      <3> QED BY <2>1, <2>2, <3>1 DEF Copying, HasReader
    <2>3. CASE k = IStackPtr + 1
      <3>1. reader.from = "file" /\ fileName = f
        BY <1>2, <2>1, <2>3 DEF Frame
      <3>2. pc = "execute" /\ k - 1 = IStackPtr
        BY <1>1, <1>3, <2>3, <3>1 DEF NoReader
      <3>3. purgeFP = f
        BY <1>3, <2>1, <3>1, <3>2 DEF CopyIsOpen
      <3> QED BY <3>3 DEF Copying
    <2> QED BY <1>1, <2>2, <2>3
  <1>8. ASSUME NEW f \in Names, f \in T, setup.files[f].kind = "file"
        PROVE  Accounted(f, p[f])'
    <2>1. PICK t : t = p[f]
      OBVIOUS
    <2>2. Accounted(f, t) \/ (pc = "execute" /\ Reading(f, t))
      BY <1>1, <1>3, <1>8, <2>1, LineDone DEF CopiesKept
    <2>3. CASE Accounted(f, t)
      <3>1. \A k \in 2 .. IStackPtr : k \in 2 .. IStackPtr' /\ IStack'[k] = IStack[k]
        BY <1>1, <1>2
      <3>2. Accounted(f, t)'
        BY <2>3, <3>1, AccountedAgain
      <3> QED BY <2>1, <3>2
    <2>4. CASE pc = "execute" /\ Reading(f, t)
      <3>1. PICK r, k : r = reader /\ k = IStackPtr + 1
        OBVIOUS
      <3>2. PICK n \in Nat : Upto(f, t, r, n)
        BY <2>4, <3>1 DEF Reading
      <3>3. fileName = f /\ PurgeFileOf(f, IStackPtr) = f
        BY <2>4 DEF Reading, OpenHere
      <3>4. IStack'[k].filename = f /\ IStack'[k].reader = r
        BY <1>2, <3>1, <3>3 DEF Frame
      <3>5. Upto(f, t, r, n)'
        BY <3>2, UptoAgain
      <3>6. Upto(f, t, IStack[k].reader, n)'
        BY <3>4, <3>5 DEF Upto
      <3>7. k - 1 = IStackPtr /\ k \in 2 .. IStackPtr'
        BY <1>1, <2>4, <3>1
      <3>8. PurgeFileOf(f, k - 1)' = f
        BY <3>3, <3>7, SameSetup
      <3>9. Suspended(f, t, k)'
        BY <3>4, <3>6, <3>8 DEF Suspended
      <3>10. Accounted(f, t)'
        BY <3>7, <3>9 DEF Accounted
      <3> QED BY <2>1, <3>10
    <2> QED BY <2>2, <2>3, <2>4
  <1> QED BY <1>5, <1>6, <1>7, <1>8 DEF Prepared

\* Nobody but the files of T has a copy, and they are accounted for
LEMMA WholeAgain ==
  ASSUME NEW p, NEW T, Prepared(p, T)', NEW q, q = purged', Copies(q),
         ~shouldCache', CopyIsOpen',
         \A f \in Names : q[f] = p[f] \/ (f \in T /\ Continues(q[f], p[f])),
         \A f \in Names : f = purgeFP' => f \in T,
         \A f \in Names : f = setup.top' /\ setup'.files[f].kind = "file" => f \in T
  PROVE  Whole'
  <1>1. Copies(purged)'
    BY DEF Copies, IsCopy
  <1>2. ASSUME NEW f \in Names, setup'.files[f].kind = "file", Copying(f)'
        PROVE  Accounted(f, purged[f])'
    <2>1. f \in T
      BY <1>2 DEF Copying, Prepared
    <2>2. PICK s, t : s = p[f] /\ t = q[f]
      OBVIOUS
    <2>3. Accounted(f, s)'
      BY <1>2, <2>1, <2>2 DEF Prepared
    <2>4. Continues(t, s)
      BY <2>2 DEF Continues
    <2>5. Accounted(f, t)'
      BY <2>3, <2>4, AccountedMore
    <2> QED BY <2>2, <2>5
  <1>3. CopiesKept'
    BY <1>2 DEF CopiesKept
  <1> QED BY <1>1, <1>3 DEF Whole

\* A file is opened, its copy begun anew
LEMMA OpenedCopies ==
  ASSUME setup \in Setups, PurgeMode, UNCHANGED setup, ~shouldCache, NEW g \in Names, NEW depth \in Nat,
         NEW p, NEW T, Prepared(p, T)', depth = IStackPtr',
         OpenFile(g, depth, p) \/ (FailToOpen(g, depth, p) /\ ~CanOpen(g)),
         setup.top \in T \/ (g = setup.top /\ depth = 1 /\ g \notin cached)
  PROVE  Whole'
  <1>0. Copies(p)
    BY DEF Prepared, Copies, IsCopy
  <1>1. CASE OpenFile(g, depth, p) /\ g \in cached
    <2>1. /\ purged' = p /\ purgeFP' = NoName /\ UNCHANGED shouldCache /\ reader' = CacheReader(g, 1)
      BY <1>1 DEF OpenFile, caching
    <2>2. reader'.from # "file"
      BY <2>1 DEF CacheReader, NoReader
    <2>3. NoName \notin Names
      BY FilesAssumption
    <2> QED BY <1>0, <1>1, <2>1, <2>2, <2>3, WholeAgain DEF CopyIsOpen
  <1>2. CASE OpenFile(g, depth, p) /\ g \notin cached
    <2>1. PICK q : q = PurgeFileOf(g, depth)
      OBVIOUS
    <2>2. ~Caches(g)
      BY DEF Caches
    <2>3. /\ purged' = Truncated(p, q) /\ purgeFP' = q /\ shouldCache' = Caches(g)
          /\ reader' = FileReader(g, 1) /\ fileName' = g /\ pc' = "read"
      BY <1>2, <2>1, <2>2 DEF OpenFile
    <2>4. q \in {g, NoName} /\ NoName \notin Names
      BY <2>1, FilesAssumption DEF PurgeFileOf
    <2>5. PICK w : w = purged'
      OBVIOUS
    <2>6. DOMAIN w = Names /\ \A f \in Names : w[f] = IF f = q THEN << >> ELSE p[f]
      BY <1>0, <2>3, <2>4, <2>5 DEF Truncated, Copies
    <2>7. IsCopy(<< >>)
      BY DEF IsCopy
    <2>8. Copies(w)
      BY <1>0, <2>6, <2>7 DEF Copies
    <2>9. Copies(purged)'
      BY <2>5, <2>8 DEF Copies, IsCopy
    <2>10. CopyIsOpen'
      BY <2>1, <2>3, SameSetup DEF CopyIsOpen
    <2>11. ASSUME NEW f \in Names, f = q
           PROVE  Reading(f, purged[f])'
      <3>1. f = g /\ PurgeFileOf(f, IStackPtr)' = f
        BY <2>1, <2>4, <2>11, SameSetup
      <3>2. OpenHere(f)'
        BY <2>3, <2>11, <3>1 DEF OpenHere
      <3>3. PICK s, r : s = << >> /\ r = FileReader(f, 1)
        OBVIOUS
      <3>4. Holds(s, f, {}) /\ Kept(f) \cap (1 .. 0) = {}
        BY HoldsNothing
      <3>5. 0 <= Len(Lines(f))
        BY KeptLines
      <3>6. Upto(f, s, r, 0)
        BY <3>3, <3>4, <3>5 DEF Upto, NoEof
      <3>7. Upto(f, s, r, 0)'
        BY <3>6, UptoAgain
      <3>8. reader' = r /\ purged'[f] = s
        BY <2>3, <2>5, <2>6, <2>11, <3>1, <3>3
      <3>9. Upto(f, purged[f], reader, 0)'
        BY <3>7, <3>8 DEF Upto
      <3> QED BY <3>2, <3>9 DEF Reading
    <2>12. ASSUME NEW f \in Names, f # q, setup.files[f].kind = "file", Copying(f)'
           PROVE  Accounted(f, purged[f])'
      <3>1. purged'[f] = p[f]
        BY <2>5, <2>6, <2>12
      <3>2. CASE f = setup.top /\ setup.top \notin T
        <4>1. g = f /\ depth = 1
          BY <3>2
        <4>2. PurgeFileOf(f, 1) = f
          <5>1. setup.purgeDepth \in Nat \cup {NotPurging} /\ setup.purgeDepth # NotPurging
            BY SetupParts DEF PurgeMode
          <5> QED BY <5>1 DEF PurgeFileOf
        <4> QED BY <2>1, <2>12, <4>1, <4>2
      <3>3. CASE ~(f = setup.top /\ setup.top \notin T)
        <4>1. f \in T
          BY <2>3, <2>12, <3>1, <3>3 DEF Copying, Prepared
        <4>2. Accounted(f, p[f])'
          BY <2>12, <4>1 DEF Prepared
        <4> QED BY <3>1, <4>2
      <3> QED BY <3>2, <3>3
    <2>13. CopiesKept'
      BY <2>3, <2>11, <2>12 DEF CopiesKept
    <2> QED BY <2>2, <2>3, <2>9, <2>10, <2>13 DEF Whole
  <1>3. CASE FailToOpen(g, depth, p) /\ ~CanOpen(g)
    <2>1. PICK q : q = IF setup.files[g].kind = "unsafe" THEN PurgeFileOf(g, depth) ELSE NoName
      OBVIOUS
    <2>2. purgeFP' = q /\ purged' = Truncated(p, q) /\ reader' = NoReader /\ UNCHANGED shouldCache
      BY <1>3, <2>1 DEF FailToOpen, caching
    <2>3. q = NoName \/ (q = g /\ setup.files[g].kind = "unsafe")
      BY <2>1 DEF PurgeFileOf
    <2>4. setup.files[g].kind # "file"
      BY <1>3 DEF CanOpen
    <2>5. PICK w : w = purged'
      OBVIOUS
    <2>6. DOMAIN w = Names /\ \A f \in Names : w[f] = IF f = q THEN << >> ELSE p[f]
      BY <1>0, <2>2, <2>3, <2>5, FilesAssumption DEF Truncated, Copies
    <2>7. IsCopy(<< >>)
      BY DEF IsCopy
    <2>8. Copies(w)
      BY <1>0, <2>6, <2>7 DEF Copies
    <2>9. Copies(purged)'
      BY <2>5, <2>8 DEF Copies, IsCopy
    <2>10. CopyIsOpen'
      BY <2>2 DEF CopyIsOpen, NoReader
    <2>11. ASSUME NEW f \in Names, setup.files[f].kind = "file", Copying(f)'
           PROVE  Accounted(f, purged[f])'
      <3>1. f # q /\ f # g
        BY <2>3, <2>4, <2>11, FilesAssumption
      <3>2. purged'[f] = p[f]
        BY <2>5, <2>6, <3>1
      <3>3. f \in T
        BY <2>2, <2>11, <3>1, <3>2 DEF Copying, Prepared
      <3>4. Accounted(f, p[f])'
        BY <2>11, <3>3 DEF Prepared
      <3> QED BY <3>2, <3>4
    <2>12. CopiesKept'
      BY <2>11 DEF CopiesKept
    <2> QED BY <2>2, <2>9, <2>10, <2>12 DEF Whole
  <1> QED BY <1>1, <1>2, <1>3

\* INCLUDE and INCLUDECMD: the copy of the includer waits for it
LEMMA IncludedCopies ==
  ASSUME IInv, ReadersInv, PurgeMode, CopyInv, UNCHANGED setup, NEW g \in Names, NEW p,
         \/ pc = "begin" /\ p = purged /\ g = setup.top /\ IncludeFile(g, p)
         \/ pc = "execute" /\ Written(p) /\ (IncludeFile(g, p) \/ IncludeCommand(g, p)),
         IStackPtr < INCLUDE_NEST
  PROVE  Whole'
  <1>1. PICK T : T = {f \in Names : Copying(f)}
    OBVIOUS
  <1>2. /\ setup \in Setups /\ ~shouldCache /\ setup.top \in Names
        /\ IStackPtr \in Nat /\ (pc = "begin" => IStackPtr = 0 /\ cached = {})
    <2>1. setup \in Setups /\ setup \in Setup
      BY FilesAssumption DEF ReadersInv
    <2> QED BY <2>1 DEF CopyInv, Whole, OnePass, IInv, StackTypes, PcInv, Setup
  <1>3. PICK chain : Push(chain)
    BY DEF IncludeFile, IncludeDirectory, IncludeOneFile, IncludeCommand
  <1>4. Prepared(p, T)'
    BY <1>1, <1>3, PushPrepares
  <1>5. IStackPtr' = IStackPtr + 1
    BY <1>3 DEF Push
  <1>6. pc = "execute" => setup.top \in T
    BY <1>1, <1>2 DEF Copying
  <1>7. \A f \in Names : f = purgeFP => f \in T
    BY <1>1 DEF Copying
  <1>8. Copies(p)
    BY DEF Written, CopyInv, Whole
  <1>9. CASE IncludeOneFile(g, p)
    <2>1. PICK depth \in Nat : depth = IStackPtr + 1
      BY <1>2
    <2>2. OpenFile(g, depth, p) \/ (FailToOpen(g, depth, p) /\ ~CanOpen(g))
      BY <1>9, <2>1 DEF IncludeOneFile
    <2>3. setup.top \in T \/ (g = setup.top /\ depth = 1 /\ g \notin cached)
      BY <1>2, <1>6, <2>1
    <2> QED BY <1>2, <1>4, <1>5, <2>1, <2>2, <2>3, OpenedCopies
  <1>10. CASE IncludeDirectory(g, p)
    <2>1. /\ purged' = p /\ UNCHANGED <<shouldCache, purgeFP>> /\ reader' = NoReader
          /\ setup.files[g].kind = "directory"
      BY <1>10 DEF IncludeDirectory, caching
    <2>2. CopyIsOpen'
      BY <2>1 DEF CopyIsOpen, NoReader
    <2>3. \A f \in Names : f = setup.top' /\ setup'.files[f].kind = "file" => f \in T
      BY <1>6, <2>1
    <2>4. \A f \in Names : f = purgeFP' => f \in T
      BY <1>7, <2>1
    <2> QED BY <1>2, <1>4, <1>8, <2>1, <2>2, <2>3, <2>4, WholeAgain
  <1>11. CASE pc = "execute" /\ IncludeCommand(g, p)
    <2>1. ~shouldCache' /\ reader' \in {NoReader, CacheReader(g, 1)}
      BY <1>2, <1>11 DEF IncludeCommand, caching
    <2>2. CopyIsOpen'
      BY <2>1 DEF CopyIsOpen, NoReader, CacheReader
    <2>3. NoName \notin Names
      BY FilesAssumption
    <2>4. CASE purged' = p /\ UNCHANGED purgeFP
      BY <1>4, <1>6, <1>7, <1>8, <1>11, <2>1, <2>2, <2>4, WholeAgain
    <2>5. CASE CommandEchoes(g, p)
      <3>1. purgeFP' \in {NoName, purgeFP}
        BY <2>5 DEF CommandEchoes
      <3>2. PICK q : q = purged'
        OBVIOUS
      <3>3. Copies(q) /\ \A f \in Names : q[f] = p[f] \/ (f \in T /\ Continues(q[f], p[f]))
        <4>1. CASE q = p
          BY <1>8, <4>1
        <4>2. CASE q # p
          <5>1. PICK i \in EofOf(g) :
                  q = [p EXCEPT ![purgeFP] =
                         @ \o [k \in 1 .. Len(Lines(g)) - i + 1 |-> [src |-> g, at |-> i + k - 1]]]
            BY <2>5, <3>2, <4>2 DEF CommandEchoes
          <5>2. i \in Int /\ Len(Lines(g)) \in Nat
            BY <1>2, SetupParts DEF EofOf
          <5>3. PICK m \in Int : m = Len(Lines(g)) - i + 1
            BY <5>2
          <5>4. PICK r, h : r = [k \in 1 .. m |-> [src |-> g, at |-> i + k - 1]] /\ h = purgeFP
            OBVIOUS
          <5>5. IsCopy(r)
            <6>1. r = [k \in 1 .. m |-> r[k]]
              BY <5>4
            <6> QED BY <6>1, IsRow
          <5>6. q = [p EXCEPT ![h] = p[h] \o r]
            BY <5>1, <5>3, <5>4
          <5>7. DOMAIN q = Names /\ \A f \in Names : q[f] = IF f = h THEN p[f] \o r ELSE p[f]
            BY <1>8, <5>6 DEF Copies
          <5>8. \A f \in Names : IsCopy(p[f] \o r) /\ Continues(p[f] \o r, p[f])
            BY <1>8, <5>5, Joined DEF Copies
          <5> QED BY <1>7, <1>8, <5>4, <5>7, <5>8 DEF Copies
        <4> QED BY <4>1, <4>2
      <3>4. \A f \in Names : f = purgeFP' => f \in T
        BY <1>7, <2>3, <3>1
      <3>5. \A f \in Names : f = setup.top' /\ setup'.files[f].kind = "file" => f \in T
        BY <1>6, <1>11
      <3> QED BY <1>4, <2>1, <2>2, <3>2, <3>3, <3>4, <3>5, WholeAgain
    <2> QED BY <1>11, <2>4, <2>5 DEF IncludeCommand, caching
  <1> QED BY <1>9, <1>10, <1>11 DEF IncludeFile, IncludeOneFile, IncludeCommand

(***************************************************************************)
(* Steps that leave every reader where it is, or at its end.               *)
(***************************************************************************)
LEMMA StillPrepared ==
  ASSUME UNCHANGED setup, NEW p, Copies(p), NEW T, \A f \in Names : f \in T <=> Copying(f),
         \A f \in Names : p[f] # << >> => f \in T,
         \A f \in Names : f \in T /\ setup.files[f].kind = "file" => Accounted(f, p[f]),
         \A k \in 2 .. IStackPtr : /\ k \in 2 .. IStackPtr' /\ IStack'[k].filename = IStack[k].filename
                                   /\ IStack'[k].reader = IStack[k].reader,
         \A k \in 2 .. IStackPtr' : k \in 2 .. IStackPtr
  PROVE  Prepared(p, T)'
  <1>1. Copies(p)'
    BY DEF Copies, IsCopy
  <1>2. ASSUME NEW f \in Names, NEW k \in 2 .. IStackPtr', HasReader(f, k)'
        PROVE  f \in T
    <2>1. HasReader(f, k) /\ k \in 2 .. IStackPtr
      BY <1>2, SameSetup DEF HasReader
    <2> QED BY <2>1 DEF Copying
  <1>3. ASSUME NEW f \in Names, f \in T, setup.files[f].kind = "file"
        PROVE  Accounted(f, p[f])'
    <2>1. PICK s : s = p[f]
      OBVIOUS
    <2>2. Accounted(f, s)'
      BY <1>3, <2>1, AccountedAgain
    <2> QED BY <2>1, <2>2
  <1> QED BY <1>1, <1>2, <1>3 DEF Prepared

\* The file that was read has ended: all copies are complete or will go on with a suspended reader
LEMMA AllAccounted ==
  ASSUME CopiesKept, pc \notin {"read", "execute"} \/ (pc = "read" /\ reader.from # "file"),
         NEW f \in Names, setup.files[f].kind = "file", Copying(f)
  PROVE  Accounted(f, purged[f])
  <1>1. \A g, n : FileReader(g, n).from = "file"
    BY DEF FileReader
  <1>2. pc # "execute" /\ (pc = "read" => reader.from # "file")
    OBVIOUS
  <1>3. Reading(f, purged[f]) => reader.from = "file"
    BY <1>1 DEF Reading, Upto
  <1> QED BY <1>2, <1>3 DEF CopiesKept

\* The end of a file, the end of the pass, and a line of the cache
LEMMA EndCopies ==
  ASSUME IInv, ReadersInv, PurgeMode, CopyInv, EndOfFile \/ EndOfPass \/ ReadFromCache
  PROVE  Whole'
  <1>0. /\ ~shouldCache /\ Copies(purged) /\ CopyIsOpen /\ CopiesKept
        /\ UNCHANGED <<setup, shouldCache, purged, purgeFP, IStack>> /\ pc # "begin"
    BY DEF CopyInv, Whole, EndOfFile, EndOfPass, ReadFromCache, script, caching, stack, purging
  <1>1. PICK p, T : p = purged /\ T = {f \in Names : Copying(f)}
    OBVIOUS
  <1>2. pc \notin {"read", "execute"} \/ (pc = "read" /\ reader.from # "file")
    BY DEF EndOfFile, EndOfPass, ReadFromCache, NoReader
  <1>3. \A f \in Names : f \in T /\ setup.files[f].kind = "file" => Accounted(f, p[f])
    BY <1>0, <1>1, <1>2, AllAccounted
  <1>4. /\ \A k \in 2 .. IStackPtr : k \in 2 .. IStackPtr'
        /\ \A k \in 2 .. IStackPtr' : k \in 2 .. IStackPtr
    <2>1. IStackPtr \in Nat
      BY FilesAssumption DEF IInv, StackTypes
    <2>2. IStackPtr' = IStackPtr \/ (IStackPtr' = 0 /\ IStackPtr <= 1)
      BY DEF EndOfFile, EndOfPass, ReadFromCache, stack
    <2> QED BY <2>1, <2>2
  <1>5. \A f \in Names : f \in T <=> Copying(f)
    BY <1>1
  <1>6. \A f \in Names : p[f] # << >> => f \in T
    BY <1>1 DEF Copying
  <1>7. Prepared(p, T)'
    BY <1>0, <1>1, <1>3, <1>4, <1>5, <1>6, StillPrepared
  <1>8. CopyIsOpen'
    <2>1. CASE EndOfFile \/ EndOfPass
      BY <2>1 DEF CopyIsOpen, EndOfFile, EndOfPass
    <2>2. CASE ReadFromCache
      <3>1. reader'.from # "file"
        BY <2>2 DEF ReadFromCache, CacheReader, NoReader
      <3> QED BY <3>1 DEF CopyIsOpen
    <2> QED BY <2>1, <2>2
  <1>9. \A f \in Names : f = purgeFP' \/ f = setup.top' => f \in T
    BY <1>0, <1>1 DEF Copying
  <1>10. p = purged' /\ Copies(p)
    BY <1>0, <1>1
  <1> QED BY <1>0, <1>7, <1>8, <1>9, <1>10, WholeAgain

\* The next file of a directory
LEMMA ChainedCopies ==
  ASSUME IInv, ReadersInv, PurgeMode, CopyInv, NextChainedFile
  PROVE  Whole'
  <1>0. /\ setup \in Setups /\ ~shouldCache /\ Copies(purged) /\ CopyIsOpen /\ CopiesKept
        /\ UNCHANGED <<setup, IStackPtr>> /\ pc = "chain" /\ setup.top \in Names
    <2>1. setup \in Setups /\ setup \in Setup
      BY FilesAssumption DEF ReadersInv
    <2> QED BY <2>1 DEF CopyInv, Whole, NextChainedFile, script, Setup
  <1>1. PICK p, T : p = purged /\ T = {f \in Names : Copying(f)}
    OBVIOUS
  <1>2. IStackPtr \in 1 .. INCLUDE_NEST /\ INCLUDE_NEST \in Nat
    BY <1>0, FilesAssumption DEF IInv, StackTypes, PcInv
  <1>3. PICK chain : chain = IStack[IStackPtr].chain /\ chain \in Seq(Names) /\ chain # << >>
    BY <1>2 DEF ReadersInv, NextChainedFile
  <1>4. PICK g \in Names, depth \in Nat : g = Head(chain) /\ depth = IStackPtr
    BY <1>2, <1>3
  <1>5. \A f \in Names : f \in T /\ setup.files[f].kind = "file" => Accounted(f, p[f])
    BY <1>0, <1>1, AllAccounted
  <1>6. IStack' = [IStack EXCEPT ![IStackPtr].chain = Tail(chain)]
    BY <1>3 DEF NextChainedFile
  <1>7. \A k \in 1 .. IStackPtr : /\ IStack'[k].filename = IStack[k].filename
                                  /\ IStack'[k].reader = IStack[k].reader
    <2>1. \A k \in 1 .. IStackPtr : k \in 1 .. INCLUDE_NEST
      BY <1>2
    <2> QED BY <1>2, <1>6, <2>1 DEF IInv, StackTypes
  <1>8. \A f \in Names : f \in T <=> Copying(f)
    BY <1>1
  <1>9. \A f \in Names : p[f] # << >> => f \in T
    BY <1>1 DEF Copying
  <1>10. \A k \in 2 .. IStackPtr : /\ k \in 2 .. IStackPtr' /\ IStack'[k].filename = IStack[k].filename
                                   /\ IStack'[k].reader = IStack[k].reader
    BY <1>0, <1>2, <1>7
  <1>11. \A k \in 2 .. IStackPtr' : k \in 2 .. IStackPtr
    BY <1>0
  <1>12. Prepared(p, T)'
    BY <1>0, <1>1, <1>5, <1>8, <1>9, <1>10, <1>11, StillPrepared
  <1>13. OpenFile(g, depth, p) \/ (FailToOpen(g, depth, p) /\ ~CanOpen(g))
    BY <1>1, <1>3, <1>4 DEF NextChainedFile
  <1>14. setup.top \in T
    BY <1>0, <1>1 DEF Copying
  <1> QED BY <1>0, <1>4, <1>12, <1>13, <1>14, OpenedCopies

\* The includer goes on, with its copy if that is not complete
LEMMA ResumedCopies ==
  ASSUME IInv, ReadersInv, PurgeMode, CopyInv, Resume
  PROVE  Whole'
  <1>0. /\ setup \in Setups /\ ~shouldCache /\ Copies(purged) /\ CopiesKept
        /\ UNCHANGED <<setup, shouldCache, IStack>> /\ pc = "chain" /\ pc' = "read"
        /\ IStackPtr' = IStackPtr - 1
    BY DEF CopyInv, Whole, Resume, ReadersInv, script, caching
  <1>1. IStackPtr \in Nat /\ IStackPtr > 1
    BY FilesAssumption DEF Resume, IInv, StackTypes
  <1>2. PICK r, name, g, p : r = IStack[IStackPtr].reader /\ name = IStack[IStackPtr].filename
                             /\ g = purgeFP' /\ p = purged'
    OBVIOUS
  <1>3. /\ fileName' = name /\ reader' = r
        /\ g = IF r.from = "file" THEN PurgeFileOf(name, IStackPtr - 1) ELSE purgeFP
    BY <1>2 DEF Resume
  <1>4. p = purged \/ p = Echo(purged, g)
    BY <1>2 DEF Resume, Reopened
  <1>5. Copies(p) /\ \A f \in Names : Continues(p[f], purged[f]) /\ (f # g => p[f] = purged[f])
    <2>1. CASE p = purged
      BY <1>0, <2>1 DEF Continues
    <2>2. CASE p = Echo(purged, g)
      <3>1. PICK p0 : p0 = purged
        OBVIOUS
      <3>2. Copies(p) /\ \A f \in Names : Continues(p[f], p0[f]) /\ (f # g => p[f] = p0[f])
        BY <1>0, <2>2, <3>1, Echoed
      <3> QED BY <3>1, <3>2
    <2> QED BY <1>4, <2>1, <2>2
  <1>6. Copies(purged)'
    BY <1>2, <1>5 DEF Copies, IsCopy
  <1>7. CopyIsOpen'
    <2>1. PICK k : k = IStackPtr - 1
      OBVIOUS
    <2>2. PurgeFileOf(fileName, IStackPtr)' = PurgeFileOf(name, k)
      BY <1>0, <1>3, <2>1, SameSetup DEF PurgeFileOf
    <2> QED BY <1>2, <1>3, <2>1, <2>2 DEF CopyIsOpen
  <1>8. ASSUME NEW f \in Names, Copying(f)'
        PROVE  Copying(f)
    <2>1. g = f => Copying(f)
      <3>1. CASE r.from = "file" /\ g = f
        <4>1. PurgeFileOf(name, IStackPtr - 1) = f
          BY <1>3, <3>1
        <4>2. name = f
          BY <4>1, FilesAssumption DEF PurgeFileOf
        <4>3. HasReader(f, IStackPtr)
          BY <1>2, <3>1, <4>1, <4>2 DEF HasReader
        <4> QED BY <1>1, <4>3 DEF Copying
      <3>2. CASE r.from # "file" /\ g = f
        BY <1>3, <3>2 DEF Copying
      <3> QED BY <3>1, <3>2
    <2>2. f # g => purged'[f] = purged[f]
      BY <1>2, <1>5
    <2>3. CASE \E k \in 2 .. IStackPtr' : HasReader(f, k)'
      <3>1. PICK k \in 2 .. IStackPtr' : HasReader(f, k)'
        BY <2>3
      <3>2. HasReader(f, k) /\ k \in 2 .. IStackPtr
        BY <1>0, <1>1, <3>1, SameSetup DEF HasReader
      <3> QED BY <3>2 DEF Copying
    <2> QED BY <1>0, <1>2, <1>8, <2>1, <2>2, <2>3 DEF Copying
  <1>9. ASSUME NEW f \in Names, setup.files[f].kind = "file", Copying(f)'
        PROVE  Accounted(f, purged[f])' \/ Reading(f, purged[f])'
    <2>1. Accounted(f, purged[f])
      BY <1>0, <1>8, <1>9, AllAccounted
    <2>2. PICK s, t : s = purged[f] /\ t = p[f]
      OBVIOUS
    <2>3. Accounted(f, t)
      BY <1>5, <2>1, <2>2, AccountedMore
    <2>4. t = purged'[f]
      BY <1>2, <2>2
    <2>5. CASE Holds(t, f, Kept(f))
      <3>1. Kept(f)' = Kept(f)
        BY <1>0, SameSetup
      <3>2. Holds(purged[f], f, Kept(f))'
        BY <2>4, <2>5, <3>1 DEF Holds
      <3> QED BY <3>2 DEF Accounted
    <2>6. CASE \E k \in 2 .. IStackPtr : Suspended(f, t, k)
      <3>1. PICK k \in 2 .. IStackPtr, n \in Nat :
              IStack[k].filename = f /\ PurgeFileOf(f, k - 1) = f /\ Upto(f, t, IStack[k].reader, n)
        BY <2>6 DEF Suspended
      <3>2. PICK q : q = IStack[k].reader
        OBVIOUS
      <3>3. Upto(f, t, q, n)'
        BY <1>0, <3>1, <3>2, UptoAgain
      <3>4. CASE k = IStackPtr
        <4>1. q = r /\ name = f
          BY <1>2, <3>1, <3>2, <3>4
        <4>2. r.from = "file"
          BY <3>1, <3>2, <4>1 DEF Upto, FileReader
        <4>3. g = f
          BY <1>3, <3>1, <3>4, <4>1, <4>2
        <4>4. PurgeFileOf(f, IStackPtr)' = f
          BY <1>0, <3>1, <3>4, SameSetup DEF PurgeFileOf
        <4>5. OpenHere(f)'
          BY <1>2, <1>3, <4>1, <4>3, <4>4 DEF OpenHere
        <4>6. Upto(f, purged[f], reader, n)'
          BY <1>3, <2>4, <3>3, <4>1 DEF Upto
        <4> QED BY <4>5, <4>6 DEF Reading
      <3>5. CASE k # IStackPtr
        <4>1. k \in 2 .. IStackPtr'
          BY <1>0, <1>1, <3>5
        <4>2. Upto(f, purged[f], IStack[k].reader, n)'
          BY <1>0, <2>4, <3>2, <3>3 DEF Upto
        <4>3. PurgeFileOf(f, k - 1)' = f
          BY <1>0, <3>1, SameSetup
        <4>4. Suspended(f, purged[f], k)'
          BY <1>0, <3>1, <4>2, <4>3 DEF Suspended
        <4> QED BY <4>1, <4>4 DEF Accounted
      <3> QED BY <3>4, <3>5
    <2> QED BY <2>3, <2>5, <2>6 DEF Accounted
  <1>10. CopiesKept'
    BY <1>0, <1>9 DEF CopiesKept
  <1> QED BY <1>0, <1>6, <1>7, <1>10 DEF Whole

(***************************************************************************)
(* A line is read.                                                         *)
(***************************************************************************)
\* The stack is as it was, and so are the copies
LEMMA SameCopies ==
  ASSUME setup \in Setups, UNCHANGED <<setup, IStack, IStackPtr>>, NEW p, Copies(p),
         NEW f, Accounted(f, p[f])
  PROVE  Accounted(f, p[f])'
  <1>1. PICK s : s = p[f]
    OBVIOUS
  <1>2. Accounted(f, s)'
    BY <1>1, AccountedAgain
  <1> QED BY <1>1, <1>2

\* A line of a file waits to be copied
LEMMA ReadCopies ==
  ASSUME IInv, ReadersInv, PurgeMode, CopyInv, ReadFromFile
  PROVE  Whole'
  <1>0. /\ setup \in Setups /\ ~shouldCache /\ Copies(purged) /\ CopyIsOpen /\ CopiesKept
        /\ UNCHANGED <<setup, shouldCache, purged, purgeFP, IStack, IStackPtr, fileName>>
        /\ pc = "read" /\ pc' = "execute" /\ reader.from = "file"
    BY DEF CopyInv, Whole, ReadFromFile, ReadersInv, script, caching, stack, purging
  <1>1. PICK g, at : g = reader.name /\ at = reader.at
    OBVIOUS
  <1>2. /\ at <= Len(Lines(g)) /\ Lines(g)[at].op # "eof"
        /\ cur' = [src |-> g, at |-> at]
        /\ reader' = FileReader(g, at + 1) \/ (reader' = NoReader /\ at = Len(Lines(g)))
    BY <1>1 DEF ReadFromFile
  <1>3. Copies(purged)'
    BY <1>0 DEF Copies, IsCopy
  <1>4. CopyIsOpen'
    BY <1>0, SameSetup DEF CopyIsOpen, PurgeFileOf
  <1>5. ASSUME NEW f \in Names, Copying(f)'
        PROVE  Copying(f)
    BY <1>0, <1>5, SameSetup DEF Copying, HasReader
  <1>6. ASSUME NEW f \in Names, setup.files[f].kind = "file", Copying(f)'
        PROVE  Accounted(f, purged[f])' \/ Pending(f, purged[f])'
    <2>1. Accounted(f, purged[f]) \/ Reading(f, purged[f])
      BY <1>0, <1>5, <1>6 DEF CopiesKept
    <2>2. PICK p, s : p = purged /\ s = p[f]
      OBVIOUS
    <2>3. CASE Accounted(f, purged[f])
      <3>1. Accounted(f, p[f])'
        BY <1>0, <2>2, <2>3, SameCopies
      <3> QED BY <1>0, <2>2, <3>1
    <2>4. CASE Reading(f, purged[f])
      <3>1. PICK n \in Nat : Upto(f, s, reader, n)
        BY <2>2, <2>4 DEF Reading
      <3>2. reader = FileReader(f, n + 1) /\ NoEof(f, n) /\ Holds(s, f, Kept(f) \cap (1 .. n))
        BY <3>1 DEF Upto
      <3>3. g = f /\ at = n + 1
        BY <1>1, <3>2 DEF FileReader
      <3>4. Len(Lines(f)) \in Nat /\ n < Len(Lines(f))
        BY <1>2, <3>3, KeptLines
      <3>5. NoEof(f, n + 1)
        BY <1>2, <3>2, <3>3 DEF NoEof
      <3>6. reader' = FileReader(f, n + 2) \/ (reader' = NoReader /\ n + 1 = Len(Lines(f)))
        <4>1. at + 1 = n + 2
          BY <3>3
        <4> QED BY <1>2, <3>3, <4>1
      <3>7. OpenHere(f)'
        <4>1. OpenHere(f)
          BY <2>4 DEF Reading
        <4> QED BY <1>0, <4>1, SameSetup DEF OpenHere
      <3>8. Lines(f)' = Lines(f) /\ NoEof(f, n + 1)' /\ Kept(f)' = Kept(f)
        BY <1>0, <3>5, SameSetup
      <3>9. Holds(purged[f], f, Kept(f) \cap (1 .. n))'
        BY <1>0, <2>2, <3>2, <3>8 DEF Holds
      <3>10. FileReader(f, n + 2)' = FileReader(f, n + 2) /\ NoReader' = NoReader
        BY DEF FileReader, NoReader
      <3> QED BY <1>2, <3>3, <3>4, <3>6, <3>7, <3>8, <3>9, <3>10 DEF Pending
    <2> QED BY <2>1, <2>3, <2>4
  <1>7. CopiesKept'
    BY <1>0, <1>6 DEF CopiesKept
  <1> QED BY <1>0, <1>3, <1>4, <1>7 DEF Whole

\* The rest of a file is copied at once
LEMMA RestOfFile ==
  ASSUME setup \in Setups, NEW f \in Names, NEW s, IsCopy(s),
         NEW n \in Nat, Holds(s, f, Kept(f) \cap (1 .. n)),
         NEW m \in Nat, n + m = Len(Lines(f)),
         NEW r, r = [k \in 1 .. m |-> r[k]], \A k \in 1 .. m : r[k] = [src |-> f, at |-> n + k]
  PROVE  Accounted(f, s \o r)
  <1>1. PICK K : K = Kept(f) /\ \A i \in K : i \in 1 .. Len(Lines(f))
    BY KeptLines
  <1>2. (\A i \in K : i \in 1 .. n + m) /\ Holds(s, f, K \cap (1 .. n))
    BY <1>1
  <1>3. PICK t : t = s \o r
    OBVIOUS
  <1>4. Holds(t, f, K)
    BY <1>2, <1>3, HoldsAll
  <1> QED BY <1>1, <1>3, <1>4 DEF Accounted

\* The end of a file, or what follows its __EOF__: its copy is complete
LEMMA ReadEndCopies ==
  ASSUME IInv, ReadersInv, PurgeMode, CopyInv, ReadEnd
  PROVE  Whole'
  <1>0. /\ setup \in Setups /\ ~shouldCache /\ Copies(purged) /\ CopiesKept
        /\ UNCHANGED <<setup, shouldCache, IStack, IStackPtr>>
        /\ pc = "read" /\ reader.from = "file" /\ reader' = NoReader /\ purgeFP' = NoName
    BY DEF CopyInv, Whole, ReadEnd, ReadersInv, script, caching, stack
  <1>1. PICK p, q, h, g, at : p = purged /\ q = purged' /\ h = purgeFP /\ g = reader.name /\ at = reader.at
    OBVIOUS
  <1>2. g \in Names /\ at \in Nat \ {0}
    BY <1>0, <1>1 DEF ReadersInv, OfFile
  <1>3. PICK m \in Int : m = Len(Lines(g)) - at + 1
    <2>1. Len(Lines(g)) \in Nat
      BY <1>0, <1>2, KeptLines
    <2> QED BY <1>2, <2>1
  <1>4. PICK r : r = [k \in 1 .. m |-> [src |-> g, at |-> at + k - 1]]
    OBVIOUS
  <1>5. q = IF h = NoName THEN p ELSE [p EXCEPT ![h] = p[h] \o r]
    BY <1>1, <1>3, <1>4 DEF ReadEnd
  <1>6. DOMAIN q = Names /\ \A f \in Names : q[f] = IF f = h THEN p[f] \o r ELSE p[f]
    <2>1. DOMAIN p = Names /\ NoName \notin Names
      BY <1>0, <1>1, FilesAssumption DEF Copies
    <2> QED BY <1>5, <2>1
  <1>7. IsCopy(r)
    <2>1. r = [k \in 1 .. m |-> r[k]]
      BY <1>4
    <2> QED BY <2>1, IsRow
  <1>8. \A f \in Names : IsCopy(p[f]) /\ IsCopy(p[f] \o r) /\ Continues(p[f] \o r, p[f])
    BY <1>0, <1>1, <1>7, Joined DEF Copies
  <1>9. Copies(q)
    BY <1>6, <1>8 DEF Copies
  <1>10. PICK T : T = {f \in Names : Copying(f)}
    OBVIOUS
  <1>11. ASSUME NEW f \in Names, f \in T, setup.files[f].kind = "file"
         PROVE  Accounted(f, q[f])
    <2>1. Accounted(f, p[f]) \/ Reading(f, p[f])
      BY <1>0, <1>1, <1>10, <1>11 DEF CopiesKept
    <2>2. PICK s, t : s = p[f] /\ t = q[f]
      OBVIOUS
    <2>3. CASE Accounted(f, p[f])
      <3>1. Continues(t, s)
        BY <1>6, <1>8, <2>2 DEF Continues
      <3> QED BY <2>2, <2>3, <3>1, AccountedMore
    <2>4. CASE Reading(f, p[f])
      <3>1. PICK n \in Nat : Upto(f, s, reader, n)
        BY <2>2, <2>4 DEF Reading
      <3>2. reader = FileReader(f, n + 1) /\ n <= Len(Lines(f)) /\ Holds(s, f, Kept(f) \cap (1 .. n))
        BY <3>1 DEF Upto
      <3>3. g = f /\ at = n + 1 /\ h = f
        BY <1>1, <2>4, <3>2 DEF FileReader, Reading, OpenHere
      <3>4. t = s \o r
        BY <1>6, <2>2, <3>3
      <3>5. IsCopy(s)
        BY <1>8, <2>2
      <3>6. m \in Nat /\ n + m = Len(Lines(f))
        <4>1. Len(Lines(f)) \in Nat
          BY <1>0, KeptLines
        <4> QED BY <1>3, <3>2, <3>3, <4>1
      <3>7. r = [k \in 1 .. m |-> r[k]]
        BY <1>4
      <3>8. \A k \in 1 .. m : r[k] = [src |-> f, at |-> n + k]
        <4>1. ASSUME NEW k \in 1 .. m PROVE at + k - 1 = n + k
          BY <3>3, <3>6
        <4> QED BY <1>4, <3>3, <4>1
      <3>9. Accounted(f, s \o r)
        BY <1>0, <3>2, <3>5, <3>6, <3>7, <3>8, RestOfFile
      <3> QED BY <2>2, <3>4, <3>9
    <2> QED BY <2>1, <2>3, <2>4
  <1>12. \A f \in Names : f \in T <=> Copying(f)
    BY <1>10
  <1>13. \A f \in Names : q[f] # << >> => f \in T
    BY <1>1, <1>6, <1>10 DEF Copying
  <1>14. \A k \in 2 .. IStackPtr : /\ k \in 2 .. IStackPtr' /\ IStack'[k].filename = IStack[k].filename
                                   /\ IStack'[k].reader = IStack[k].reader
    BY <1>0
  <1>15. \A k \in 2 .. IStackPtr' : k \in 2 .. IStackPtr
    BY <1>0
  <1>16. Prepared(q, T)'
    BY <1>0, <1>9, <1>11, <1>12, <1>13, <1>14, <1>15, StillPrepared
  <1>17. CopyIsOpen'
    BY <1>0 DEF CopyIsOpen, NoReader
  <1>18. \A f \in Names : f = purgeFP' \/ f = setup.top' => f \in T
    BY <1>0, <1>10, FilesAssumption DEF Copying
  <1>19. q = purged'
    BY <1>1
  <1> QED BY <1>0, <1>9, <1>16, <1>17, <1>18, <1>19, WholeAgain

(***************************************************************************)
(* A line is executed.                                                     *)
(***************************************************************************)
LEMMA ExecutedCopies ==
  ASSUME IInv, ReadersInv, PurgeMode, CopyInv, pc = "execute", pc' = "read", Written(purged'),
         UNCHANGED <<setup, shouldCache, IStack, IStackPtr, reader, fileName, purgeFP>>
  PROVE  Whole'
  <1>0. /\ setup \in Setups /\ ~shouldCache /\ Copies(purged) /\ CopyIsOpen /\ CopiesKept
    BY DEF CopyInv, Whole, ReadersInv
  <1>1. PICK q : q = purged'
    OBVIOUS
  <1>2. Written(q) /\ Copies(q)
    BY <1>1 DEF Written
  <1>3. Copies(purged)'
    BY <1>1, <1>2 DEF Copies, IsCopy
  <1>4. CopyIsOpen'
    BY <1>0, SameSetup DEF CopyIsOpen, PurgeFileOf
  <1>5. ASSUME NEW f \in Names, Copying(f)'
        PROVE  Copying(f)
    <2>1. q[f] # << >> => Copying(f)
      BY <1>2 DEF Written, Copying
    <2>2. (\E k \in 2 .. IStackPtr' : HasReader(f, k)') => Copying(f)
      BY SameSetup DEF Copying, HasReader
    <2> QED BY <1>1, <1>5, <2>1, <2>2 DEF Copying
  <1>6. ASSUME NEW f \in Names, setup.files[f].kind = "file", Copying(f)'
        PROVE  Accounted(f, purged[f])' \/ Reading(f, purged[f])'
    <2>1. Accounted(f, q[f]) \/ Reading(f, q[f])
      BY <1>0, <1>2, <1>5, <1>6, LineDone
    <2>2. CASE Accounted(f, q[f])
      <3>1. Accounted(f, q[f])'
        BY <1>0, <1>2, <2>2, SameCopies
      <3> QED BY <1>1, <3>1
    <2>3. CASE Reading(f, q[f])
      <3>1. PICK s, r : s = q[f] /\ r = reader
        OBVIOUS
      <3>2. PICK n \in Nat : Upto(f, s, r, n)
        BY <2>3, <3>1 DEF Reading
      <3>3. Upto(f, s, r, n)'
        BY <3>2, UptoAgain
      <3>4. Upto(f, purged[f], reader, n)'
        BY <1>1, <3>1, <3>3 DEF Upto
      <3>5. OpenHere(f)'
        <4>1. OpenHere(f)
          BY <2>3 DEF Reading
        <4> QED BY <4>1, SameSetup DEF OpenHere
      <3> QED BY <3>4, <3>5 DEF Reading
    <2> QED BY <2>1, <2>2, <2>3
  <1>7. CopiesKept'
    BY <1>6 DEF CopiesKept
  <1> QED BY <1>0, <1>3, <1>4, <1>7 DEF Whole

-----------------------------------------------------------------------------
\* A purge does not begin a second pass
LEMMA OnePassStep ==
  ASSUME OnePass, [Next]_vars
  PROVE  OnePass'
  <1>1. CASE EndOfPass
    <2>1. iterations = 1
      BY <1>1 DEF EndOfPass, OnePass
    <2>2. pc' \in {"failed", "done"} /\ IStackPtr' = 0
      BY <1>1, <2>1 DEF EndOfPass
    <2> QED BY <2>2 DEF OnePass
  <1>2. CASE Next /\ ~EndOfPass
    <2>1. iterations' = iterations /\ pc \notin {"done", "failed"}
      BY <1>2 DEF Next, Begin, EndOfFile, NextChainedFile, Resume, ReadFromCache, ReadFromFile, ReadEnd,
         PassOver, Rem, BadRem, Return, DoIf, DoIfTrig, DoElse, DoEndif, InBlock, ExecuteOnly, Executing,
         DoInclude, DoIncludeCmd
    <2>2. pc' \notin {"begin", "done"}
      <3>1. CASE Begin \/ DoInclude \/ DoIncludeCmd
        BY <3>1 DEF Begin, DoInclude, DoIncludeCmd, NestedTooDeep, IncludeFile, IncludeDirectory,
           IncludeOneFile, IncludeCommand, OpenFile, FailInclude
      <3>2. CASE EndOfFile \/ NextChainedFile \/ Resume \/ ReadFromCache \/ ReadFromFile \/ ReadEnd
        BY <3>2 DEF EndOfFile, NextChainedFile, OpenFile, Resume, ReadFromCache, ReadFromFile, ReadEnd
      <3>3. CASE PassOver \/ Rem \/ BadRem \/ Return \/ DoIf \/ DoIfTrig \/ DoElse \/ DoEndif
        BY <3>3 DEF PassOver, Rem, BadRem, Return, DoIf, DoIfTrig, DoElse, DoEndif, InBlock
      <3> QED BY <1>2, <3>1, <3>2, <3>3 DEF Next
    <2> QED BY <2>1, <2>2 DEF OnePass
  <1>3. CASE UNCHANGED vars
    BY <1>3 DEF vars, caching, stack, place, OnePass
  <1> QED BY <1>1, <1>2, <1>3

\* An INCLUDE that is refused is a line like another; one that is executed includes a file
LEMMA DoIncludeCopies ==
  ASSUME IInv, ReadersInv, PurgeMode, CopyInv, DoInclude \/ DoIncludeCmd
  PROVE  Whole'
  <1>1. /\ pc = "execute" /\ Op \in {"include", "includecmd"} /\ UNCHANGED setup /\ Copies(purged)
    BY DEF DoInclude, DoIncludeCmd, Executing, script, CopyInv, Whole
  <1>2. PICK p : p = Echo(purged, purgeFP)
    OBVIOUS
  <1>3. CASE StackIsFull
    <2>1. NestedTooDeep(p)
      BY <1>2, <1>3 DEF DoInclude, DoIncludeCmd
    <2>2. Written(Echo(Echo(purged, purgeFP), purgeFP))
      BY <1>1, WrittenOnce
    <2>3. /\ pc' = "read" /\ purged' = Echo(Echo(purged, purgeFP), purgeFP)
          /\ UNCHANGED <<shouldCache, IStack, IStackPtr, reader, fileName, purgeFP>>
      BY <1>2, <2>1 DEF NestedTooDeep, caching, stack, place
    <2>4. Written(purged')
      BY <2>2, <2>3
    <2> QED BY <1>1, <2>3, <2>4, ExecutedCopies
  <1>4. CASE ~StackIsFull
    <2>1. PICK g : g = Arg
      OBVIOUS
    <2>2. g \in Names
      BY <1>1, <2>1, ArgIsName
    <2>3. IncludeFile(g, p) \/ IncludeCommand(g, p)
      BY <1>2, <1>4, <2>1 DEF DoInclude, DoIncludeCmd
    <2>4. Written(p)
      BY <1>1, <1>2, WrittenOnce
    <2>5. IStackPtr < INCLUDE_NEST
      BY <1>4, FilesAssumption DEF StackIsFull, IInv, StackTypes
    <2> QED BY <1>1, <2>2, <2>3, <2>4, <2>5, IncludedCopies
  <1> QED BY <1>3, <1>4

\* Nothing happens
LEMMA SameWhole ==
  ASSUME ReadersInv, PurgeMode, CopyInv, UNCHANGED vars
  PROVE  Whole'
  <1>1. UNCHANGED <<setup, shouldCache, purged, purgeFP, reader, fileName, IStack, IStackPtr, pc, cur>>
    BY DEF vars, script, caching, stack, place, purging
  <1>2. setup \in Setups /\ ~shouldCache /\ Copies(purged) /\ CopyIsOpen /\ CopiesKept
    BY DEF CopyInv, Whole, ReadersInv
  <1>3. Copies(purged)' /\ CopyIsOpen'
    BY <1>1, <1>2, SameSetup DEF Copies, IsCopy, CopyIsOpen, PurgeFileOf
  <1>4. ASSUME NEW f \in Names, setup.files[f].kind = "file", Copying(f)'
        PROVE  \/ Accounted(f, purged[f])'
               \/ (pc = "read" /\ Reading(f, purged[f]))'
               \/ (pc = "execute" /\ Pending(f, purged[f]))'
    <2>1. Copying(f)
      BY <1>1, <1>4, SameSetup DEF Copying, HasReader
    <2>2. PICK p, s : p = purged /\ s = p[f]
      OBVIOUS
    <2>3. OpenHere(f) => OpenHere(f)'
      BY <1>1, SameSetup DEF OpenHere
    <2>4. CASE Accounted(f, p[f])
      <3>1. Accounted(f, p[f])'
        BY <1>1, <1>2, <2>2, <2>4, SameCopies
      <3> QED BY <1>1, <2>2, <3>1
    <2>5. CASE pc = "read" /\ Reading(f, s)
      <3>1. PICK r : r = reader
        OBVIOUS
      <3>2. PICK n \in Nat : Upto(f, s, r, n)
        BY <2>5, <3>1 DEF Reading
      <3>3. Upto(f, s, r, n)'
        BY <1>1, <3>2, UptoAgain
      <3>4. Upto(f, purged[f], reader, n)'
        BY <1>1, <2>2, <3>1, <3>3 DEF Upto
      <3> QED BY <1>1, <2>3, <2>5, <3>4 DEF Reading
    <2>6. CASE pc = "execute" /\ Pending(f, s)
      <3>1. PICK n \in Nat :
              /\ cur = [src |-> f, at |-> n + 1] /\ n < Len(Lines(f)) /\ NoEof(f, n + 1)
              /\ reader = FileReader(f, n + 2) \/ (reader = NoReader /\ n + 1 = Len(Lines(f)))
              /\ Holds(s, f, Kept(f) \cap (1 .. n))
        BY <2>6 DEF Pending
      <3>2. Lines(f)' = Lines(f) /\ NoEof(f, n + 1)' /\ Kept(f)' = Kept(f)
        BY <1>1, <3>1, SameSetup
      <3>3. Holds(purged[f], f, Kept(f) \cap (1 .. n))'
        BY <1>1, <2>2, <3>1, <3>2 DEF Holds
      <3>4. FileReader(f, n + 2)' = FileReader(f, n + 2) /\ NoReader' = NoReader
        BY DEF FileReader, NoReader
      <3>5. OpenHere(f)'
        BY <2>3, <2>6 DEF Pending
      <3> QED BY <1>1, <2>6, <3>1, <3>2, <3>3, <3>4, <3>5 DEF Pending
    <2> QED BY <1>2, <1>4, <2>1, <2>2, <2>4, <2>5, <2>6 DEF CopiesKept
  <1>5. CopiesKept'
    BY <1>1, <1>4 DEF CopiesKept
  <1> QED BY <1>1, <1>2, <1>3, <1>5 DEF Whole

\* Every step keeps the copies
LEMMA CopyStep ==
  ASSUME IInv, ReadersInv, CopyInv, [Next]_vars
  PROVE  CopyInv'
  <1>0. UNCHANGED setup
    BY DEF Next, vars, script, Begin, EndOfFile, NextChainedFile, EndOfPass, Resume, ReadFromCache,
       ReadFromFile, ReadEnd, PassOver, Rem, BadRem, Return, DoIf, DoIfTrig, DoElse, DoEndif, InBlock,
       ExecuteOnly, DoInclude, DoIncludeCmd
  <1>1. PurgeMode' <=> PurgeMode
    BY <1>0 DEF PurgeMode
  <1>2. SUFFICES ASSUME PurgeMode PROVE Whole'
    BY <1>1, OnePassStep DEF CopyInv
  <1>4. OnePass /\ Whole
    BY <1>2 DEF CopyInv
  <1>5. CASE Begin
    <2>1. PICK g, p : g = setup.top /\ p = purged
      OBVIOUS
    <2>2. pc = "begin" /\ IncludeFile(g, p)
      BY <1>5, <2>1 DEF Begin
    <2>3. IStackPtr < INCLUDE_NEST
      BY <2>2, FilesAssumption DEF IInv, PcInv
    <2>4. g \in Names
      BY <2>1, FilesAssumption DEF ReadersInv, Setup
    <2> QED BY <1>0, <1>2, <2>1, <2>2, <2>3, <2>4, IncludedCopies
  <1>6. CASE EndOfFile \/ EndOfPass \/ ReadFromCache
    BY <1>2, <1>6, EndCopies
  <1>7. CASE NextChainedFile
    BY <1>2, <1>7, ChainedCopies
  <1>8. CASE Resume
    BY <1>2, <1>8, ResumedCopies
  <1>9. CASE ReadFromFile
    BY <1>2, <1>9, ReadCopies
  <1>10. CASE ReadEnd
    BY <1>2, <1>10, ReadEndCopies
  <1>11. CASE PassOver \/ Rem \/ BadRem \/ Return \/ DoIf \/ DoIfTrig \/ DoElse \/ DoEndif
    <2>1. /\ pc = "execute" /\ pc' = "read"
          /\ UNCHANGED <<shouldCache, IStack, IStackPtr, reader, fileName, purgeFP>>
      BY <1>11 DEF PassOver, Rem, BadRem, Return, DoIf, DoIfTrig, DoElse, DoEndif, InBlock, Executing,
         ExecuteOnly, caching, stack, place
    <2>2. \/ purged' \in {Echo(purged, purgeFP), Echo(Echo(purged, purgeFP), purgeFP)}
          \/ purged' = purged /\ Op = "annotation"
      BY <1>11 DEF PassOver, Rem, BadRem, Return, DoIf, DoIfTrig, DoElse, DoEndif, InBlock
    <2>3. PICK q : q = purged'
      OBVIOUS
    <2>4. Written(q)
      BY <1>4, <2>2, <2>3, WrittenOnce DEF Whole
    <2> QED BY <1>0, <1>2, <2>1, <2>3, <2>4, ExecutedCopies
  <1>12. CASE DoInclude \/ DoIncludeCmd
    BY <1>2, <1>12, DoIncludeCopies
  <1>13. CASE UNCHANGED vars
    BY <1>2, <1>13, SameWhole
  <1> QED BY <1>5, <1>6, <1>7, <1>8, <1>9, <1>10, <1>11, <1>12, <1>13 DEF Next

\* Nothing has been copied at first
LEMMA CopyInit == Init => CopyInv
  <1> SUFFICES ASSUME Init, PurgeMode PROVE OnePass /\ Whole
    BY DEF CopyInv
  <1>1. /\ setup \in Setups /\ iterations = setup.passes /\ shouldCache = (iterations > 1) /\ cached = {}
        /\ IStackPtr = 0 /\ reader = NoReader /\ purgeFP = NoName /\ purged = [f \in Names |-> << >>]
        /\ pc = "begin"
    BY DEF Init
  <1>2. iterations = 1
    BY <1>1, FilesAssumption DEF PurgeMode
  <1>3. IsCopy(<< >>)
    BY DEF IsCopy
  <1>4. Copies(purged)
    BY <1>1, <1>3 DEF Copies
  <1>5. \A f \in Names : ~Copying(f)
    BY <1>1, FilesAssumption DEF Copying
  <1>6. OnePass
    BY <1>1, <1>2 DEF OnePass
  <1>7. ~shouldCache
    <2>1. ~(iterations > 1)
      BY <1>2
    <2>2. shouldCache = (iterations > 1)
      BY <1>1
    <2> QED BY <2>1, <2>2, Zenon
  <1>8. CopyIsOpen /\ CopiesKept
    BY <1>1, <1>5 DEF CopyIsOpen, CopiesKept
  <1> QED BY <1>4, <1>6, <1>7, <1>8 DEF Whole

\* The three invariants together
LEMMA CopiesInvariant == Spec => [](IInv /\ ReadersInv /\ CopyInv)
  <1>1. Init => ReadersInv /\ CopyInv
    BY ReadersInit, CopyInit
  <1>2. IInv /\ ReadersInv /\ CopyInv /\ [Next]_vars => ReadersInv' /\ CopyInv'
    BY ReadersStep, CopyStep
  <1> QED BY <1>1, <1>2, FilesInvariant, PTL DEF Spec

\* main.c, PurgeEchoLine, and files.c, OpenPurgeFile: whatever files a script includes, and
\* however it ends, a purge that comes to the end of it has all lines of every file it
\* copied in the copy, in their order
THEOREM CopiesComplete == Spec => []NothingLost
  <1>1. IInv /\ ReadersInv /\ CopyInv => NothingLost
    <2> SUFFICES ASSUME ReadersInv, CopyInv, pc = "done", PurgeMode, NEW f \in Copied
                 PROVE  Holds(purged[f], f, Kept(f))
      BY DEF NothingLost
    <2>1. f \in Names /\ setup.files[f].kind = "file" /\ Copying(f)
      BY DEF Copied, Copying
    <2>2. CopiesKept /\ IStackPtr = 0
      BY DEF CopyInv, Whole, OnePass
    <2>3. Accounted(f, purged[f])
      BY <2>1, <2>2, AllAccounted
    <2> QED BY <2>2, <2>3 DEF Accounted
  <1> QED BY <1>1, CopiesInvariant, PTL
=============================================================================
