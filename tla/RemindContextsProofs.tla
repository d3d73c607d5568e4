------------------------ MODULE RemindContextsProofs ------------------------
(***************************************************************************)
(* Theorems about RemindContexts, for all scripts: omits, variables and    *)
(* functions are a ContextStack each, whatever is pushed, changed and      *)
(* popped in between; what is popped can be set again; the parts of the    *)
(* date of today are those of today; what outlives a pass; the arrays of   *)
(* omits can be searched; and an OMIT omits the days it means, no others.  *)
(***************************************************************************)
EXTENDS RemindContexts, RemindDateProofs, SequenceTheorems, TLAPS

(***************************************************************************)
(* Stacks, whose entries can be anything.                                  *)
(***************************************************************************)
Sequence(s) == s \in Seq({s[i] : i \in DOMAIN s})

\* Nothing is a sequence, and so is
LEMMA EmptyIsSequence == Sequence(<< >>)
BY DEF Sequence

\* ... what is in Seq of anything,
LEMMA IsSequence ==
  ASSUME NEW S, NEW s \in Seq(S)
  PROVE  Sequence(s) /\ Len(s) \in Nat /\ DOMAIN s = 1 .. Len(s)
BY DEF Sequence

\* ... or is a function on 1 .. n
LEMMA SequenceOf ==
  ASSUME NEW n \in Nat, NEW s, s = [i \in 1 .. n |-> s[i]]
  PROVE  Sequence(s) /\ Len(s) = n /\ DOMAIN s = 1 .. n
BY DEF Sequence

\* A push puts an entry in front ...
LEMMA PushSequence ==
  ASSUME NEW s, Sequence(s), NEW a
  PROVE  LET p == <<a>> \o s
         IN  /\ Sequence(p) /\ Len(p) = Len(s) + 1 /\ DOMAIN p = 1 .. Len(s) + 1
             /\ p[1] = a /\ \A i \in 1 .. Len(s) : p[i + 1] = s[i]
<1> DEFINE S == {s[i] : i \in DOMAIN s} \cup {a}
           p == <<a>> \o s
<1>1. s \in Seq(S) /\ <<a>> \in Seq(S)
  BY DEF Sequence
<1>2. p \in Seq(S) /\ Len(p) = Len(s) + 1 /\ p[1] = a /\ \A i \in 1 .. Len(s) : p[i + 1] = s[i]
  BY <1>1
<1> QED
  BY <1>2, IsSequence

\* ... and a pop takes it away.
LEMMA PopSequence ==
  ASSUME NEW s, Sequence(s), s # << >>
  PROVE  /\ Sequence(Tail(s)) /\ Len(s) \in Nat \ {0} /\ Len(Tail(s)) = Len(s) - 1
         /\ DOMAIN s = 1 .. Len(s) /\ DOMAIN Tail(s) = 1 .. Len(s) - 1
         /\ Head(s) = s[1] /\ \A i \in 1 .. Len(s) - 1 : Tail(s)[i] = s[i + 1]
<1> DEFINE S == {s[i] : i \in DOMAIN s}
<1>1. s \in Seq(S)
  BY DEF Sequence
<1>2. /\ Tail(s) \in Seq(S) /\ Len(s) \in Nat \ {0} /\ Len(Tail(s)) = Len(s) - 1
      /\ Head(s) = s[1] /\ \A i \in 1 .. Len(s) - 1 : Tail(s)[i] = s[i + 1]
  BY <1>1
<1>3. DOMAIN s = 1 .. Len(s) /\ DOMAIN Tail(s) = 1 .. Len(s) - 1 /\ Sequence(Tail(s))
  BY <1>1, <1>2, IsSequence
<1> HIDE DEF S
<1> QED
  BY <1>2, <1>3

\* What is one longer and goes on with s has s for its tail
LEMMA TailIs ==
  ASSUME NEW s, NEW t, Sequence(s), Sequence(t), Len(t) = Len(s) + 1, \A i \in 1 .. Len(s) : t[i + 1] = s[i]
  PROVE  t # << >> /\ Tail(t) = s /\ Head(t) = t[1]
<1>1. Len(s) \in Nat /\ DOMAIN s = 1 .. Len(s) /\ DOMAIN t = 1 .. Len(s) + 1
  BY IsSequence DEF Sequence
<1>2. t # << >>
  BY <1>1
<1>3. Sequence(Tail(t)) /\ Len(Tail(t)) = Len(s) /\ Head(t) = t[1] /\ \A i \in 1 .. Len(s) : Tail(t)[i] = s[i]
  BY <1>1, <1>2, PopSequence
<1>4. Tail(t) = s
  <2> DEFINE S == {s[i] : i \in DOMAIN s} \cup {Tail(t)[i] : i \in DOMAIN Tail(t)}
  <2>1. s \in Seq(S) /\ Tail(t) \in Seq(S)
    BY <1>3, SeqMonotonic DEF Sequence
  <2> HIDE DEF S
  <2> QED
    BY <2>1, <1>3, SeqEqual
<1> QED
  BY <1>2, <1>3, <1>4

(***************************************************************************)
(* Functions.                                                              *)
(***************************************************************************)
\* Entries of the stack, whose names are in lower case
FuncStacks(s) ==
  /\ Sequence(s)
  /\ \A i \in 1 .. Len(s) :
       /\ s[i] \in [DOMAIN s[i] -> UserFunc \cup {UNDEFINED}]
       /\ \A n \in DOMAIN s[i] : n \in Names /\ strtolower(n) = n

FuncsInv ==
  /\ FuncHash \in [Names -> UserFunc \cup {UNDEFINED}]
  /\ FuncStacks(UserFuncStack)

\* What is saved, for FuncsStack
SavedFuncs(s) ==
  [i \in DOMAIN s |->
     [n \in Lower(DOMAIN s[i]) |-> LET w == CHOOSE w \in DOMAIN s[i] : strtolower(w) = n IN s[i][w]]]

\* As all names in it are in lower case, it is the stack itself.
LEMMA SavedFuncsIs ==
  ASSUME NEW s, FuncStacks(s)
  PROVE  SavedFuncs(s) = s
<1>1. Len(s) \in Nat /\ DOMAIN s = 1 .. Len(s)
  BY IsSequence DEF FuncStacks, Sequence
<1>2. ASSUME NEW i \in DOMAIN s
      PROVE  SavedFuncs(s)[i] = s[i]
  <2> DEFINE f == s[i]
  <2>1. /\ f = [n \in DOMAIN f |-> f[n]]
        /\ \A n \in DOMAIN f : strtolower(n) = n
    BY <1>1 DEF FuncStacks
  <2>2. Lower(DOMAIN f) = DOMAIN f
    BY <2>1 DEF Lower
  <2>3. \A n \in DOMAIN f : (CHOOSE w \in DOMAIN f : strtolower(w) = n) = n
    BY <2>1
  <2> QED
    BY <2>1, <2>2, <2>3 DEF SavedFuncs
<1> QED
  BY <1>1, <1>2 DEF SavedFuncs, FuncStacks, Sequence

\* The step of the abstract stack, in terms of the two states
LEMMA FuncsStackSteps ==
  ASSUME FuncsInv, FuncsInv'
  PROVE  /\ FuncsStack!Push <=>
              /\ UserFuncStack' # << >> /\ Tail(UserFuncStack') = UserFuncStack
              /\ DOMAIN Head(UserFuncStack') \subseteq Names
              /\ \A x \in DOMAIN Head(UserFuncStack') : Head(UserFuncStack')[x] = FuncHash[x]
              /\ UNCHANGED FuncHash
         /\ FuncsStack!Pop <=>
              /\ UserFuncStack # << >> /\ UserFuncStack' = Tail(UserFuncStack)
              /\ FuncHash' = [x \in Names |-> IF x \in DOMAIN Head(UserFuncStack)
                                             THEN Head(UserFuncStack)[x] ELSE FuncHash[x]]
         /\ FuncsStack!Change <=> DOMAIN FuncHash' = Names /\ UNCHANGED UserFuncStack
         /\ FuncsStack!NewPass <=> UserFuncStack' = << >> /\ UNCHANGED FuncHash
<1>1. SavedFuncs(UserFuncStack) = UserFuncStack /\ SavedFuncs(UserFuncStack') = UserFuncStack'
  BY SavedFuncsIs DEF FuncsInv
<1>2. FuncsStack!Push <=>
        /\ SavedFuncs(UserFuncStack') # << >> /\ Tail(SavedFuncs(UserFuncStack')) = SavedFuncs(UserFuncStack)
        /\ DOMAIN Head(SavedFuncs(UserFuncStack')) \subseteq Names
        /\ \A x \in DOMAIN Head(SavedFuncs(UserFuncStack')) : Head(SavedFuncs(UserFuncStack'))[x] = FuncHash[x]
        /\ UNCHANGED FuncHash
  BY DEF SavedFuncs, FuncsStack!Push
<1>3. FuncsStack!Pop <=>
        /\ SavedFuncs(UserFuncStack) # << >> /\ SavedFuncs(UserFuncStack') = Tail(SavedFuncs(UserFuncStack))
        /\ FuncHash' = [x \in Names |-> IF x \in DOMAIN Head(SavedFuncs(UserFuncStack))
                                        THEN Head(SavedFuncs(UserFuncStack))[x] ELSE FuncHash[x]]
  BY DEF SavedFuncs, FuncsStack!Pop, FuncsStack!Restored
<1>4. /\ FuncsStack!Change <=> DOMAIN FuncHash' = Names /\ SavedFuncs(UserFuncStack') = SavedFuncs(UserFuncStack)
      /\ FuncsStack!NewPass <=> SavedFuncs(UserFuncStack') = << >> /\ UNCHANGED FuncHash
  BY DEF SavedFuncs, FuncsStack!Change, FuncsStack!NewPass, Same
<1> QED
  BY <1>1, <1>2, <1>3, <1>4

\* At the start no function is defined or saved
LEMMA FuncsInitial == FuncsInit => FuncsInv /\ FuncsStack!Init
<1> SUFFICES ASSUME FuncsInit
             PROVE  FuncsInv /\ FuncsStack!Init
  OBVIOUS
<1>1. FuncsInv
  BY EmptyIsSequence DEF FuncsInit, FuncsInv, FuncStacks
<1>2. SavedFuncs(UserFuncStack) = UserFuncStack
  BY <1>1, SavedFuncsIs DEF FuncsInv
<1> QED
  BY <1>1, <1>2 DEF FuncsInit, FuncsStack!Init, SavedFuncs

\* PUSH-FUNCS
LEMMA FuncsPushed ==
  ASSUME FuncsInv, NEW names \in FuncLists, PushUserFuncs(names)
  PROVE  FuncsInv' /\ FuncsStack!Push
<1> DEFINE pf == Clones(names)
<1>1. /\ \A n \in DOMAIN pf : n \in Names /\ strtolower(n) = n /\ pf[n] = FuncHash[n]
      /\ pf \in [DOMAIN pf -> UserFunc \cup {UNDEFINED}]
  BY FunctionsAssumption DEF Clones, Pushed, FindUserFunc, Names, Lower, FuncsInv
<1>2. UserFuncStack' = <<pf>> \o UserFuncStack /\ UNCHANGED FuncHash
  BY DEF PushUserFuncs
<1>3. /\ Sequence(UserFuncStack') /\ Len(UserFuncStack') = Len(UserFuncStack) + 1 /\ UserFuncStack'[1] = pf
      /\ \A i \in 1 .. Len(UserFuncStack) : UserFuncStack'[i + 1] = UserFuncStack[i]
  BY <1>2, PushSequence DEF FuncsInv, FuncStacks
<1>4. Len(UserFuncStack) \in Nat
  BY IsSequence DEF FuncsInv, FuncStacks, Sequence
<1>5. FuncsInv'
  <2>1. ASSUME NEW i \in 1 .. Len(UserFuncStack')
        PROVE  /\ UserFuncStack'[i] \in [DOMAIN UserFuncStack'[i] -> UserFunc \cup {UNDEFINED}]
               /\ \A n \in DOMAIN UserFuncStack'[i] : n \in Names /\ strtolower(n) = n
    <3>1. CASE i = 1
      BY <1>1, <1>3, <3>1
    <3>2. CASE i # 1
      <4> i - 1 \in 1 .. Len(UserFuncStack) /\ UserFuncStack'[i] = UserFuncStack[i - 1]
        BY <1>3, <1>4, <3>2
      <4> QED
        BY DEF FuncsInv, FuncStacks
    <3> QED
      BY <3>1, <3>2
  <2>2. FuncHash' \in [Names -> UserFunc \cup {UNDEFINED}]
    BY <1>2 DEF FuncsInv
  <2> QED
    BY <1>3, <2>1, <2>2 DEF FuncsInv, FuncStacks
<1>6. UserFuncStack' # << >> /\ Tail(UserFuncStack') = UserFuncStack /\ Head(UserFuncStack') = pf
  BY <1>3, TailIs DEF FuncsInv, FuncStacks
<1> QED
  BY <1>1, <1>2, <1>5, <1>6, FuncsStackSteps

\* POP-FUNCS
LEMMA FuncsPopped ==
  ASSUME FuncsInv, PopUserFuncs
  PROVE  FuncsInv' /\ FuncsStack!Pop
<1>1. /\ UserFuncStack # << >> /\ UserFuncStack' = Tail(UserFuncStack)
      /\ FuncHash' = [n \in Names |-> IF n \in DOMAIN Head(UserFuncStack)
                                     THEN Head(UserFuncStack)[n] ELSE FuncHash[n]]
  BY DEF PopUserFuncs
<1>2. /\ Sequence(UserFuncStack') /\ Len(UserFuncStack) \in Nat \ {0}
      /\ Len(UserFuncStack') = Len(UserFuncStack) - 1 /\ Head(UserFuncStack) = UserFuncStack[1]
      /\ \A i \in 1 .. Len(UserFuncStack') : UserFuncStack'[i] = UserFuncStack[i + 1]
  BY <1>1, PopSequence DEF FuncsInv, FuncStacks
<1>3. FuncStacks(UserFuncStack')
  <2> SUFFICES ASSUME NEW i \in 1 .. Len(UserFuncStack')
               PROVE  i + 1 \in 1 .. Len(UserFuncStack) /\ UserFuncStack'[i] = UserFuncStack[i + 1]
    BY <1>2 DEF FuncsInv, FuncStacks
  <2> QED
    BY <1>2
<1>4. FuncHash' \in [Names -> UserFunc \cup {UNDEFINED}]
  <2>1. 1 \in 1 .. Len(UserFuncStack)
    BY <1>2
  <2>2. Head(UserFuncStack) \in [DOMAIN Head(UserFuncStack) -> UserFunc \cup {UNDEFINED}]
    BY <1>2, <2>1 DEF FuncsInv, FuncStacks
  <2> QED
    BY <1>1, <2>2 DEF FuncsInv
<1> QED
  BY <1>1, <1>3, <1>4, FuncsStackSteps DEF FuncsInv

\* FSET, FUNSET and FRENAME change functions and leave the stack alone.
LEMMA FuncsChanged ==
  ASSUME FuncsInv, UNCHANGED UserFuncStack,
         \/ \E d \in Definitions : DoFset(d)
         \/ \E names \in FuncLists : DoFunset(names)
         \/ \E old, new \in FuncNames : RenameUserFunc(old, new)
  PROVE  FuncsInv' /\ FuncsStack!Change
<1>1. FuncHash' \in [Names -> UserFunc \cup {UNDEFINED}]
  <2>1. ASSUME NEW d \in Definitions, DoFset(d)
        PROVE  FuncHash' \in [Names -> UserFunc \cup {UNDEFINED}]
    <3>1. NewFunc(d) \in UserFunc
      BY FunctionsAssumption DEF NewFunc, UserFunc
    <3>2. \A n \in Names : FuncHash[n] # UNDEFINED =>
            [FuncHash[n] EXCEPT !.is_constant = FALSE] \in UserFunc
      BY DEF FuncsInv, UserFunc
    <3> QED
      BY <2>1, <3>1, <3>2, FunctionsAssumption DEF DoFset, FuncsInv, FindUserFunc
  <2>2. ASSUME NEW names \in FuncLists, DoFunset(names)
        PROVE  FuncHash' \in [Names -> UserFunc \cup {UNDEFINED}]
    BY <2>2 DEF DoFunset, FuncsInv
  <2>3. ASSUME NEW old \in FuncNames, NEW new \in FuncNames, RenameUserFunc(old, new)
        PROVE  FuncHash' \in [Names -> UserFunc \cup {UNDEFINED}]
    BY <2>3 DEF RenameUserFunc, FuncsInv, Names, Lower
  <2> QED
    BY <2>1, <2>2, <2>3
<1> QED
  BY <1>1, FuncsStackSteps DEF FuncsInv

\* Every step of the functions is one of the abstract stack.
LEMMA FuncsStep ==
  ASSUME FuncsInv, FuncsNext \/ EmptyUserFuncStack \/ UNCHANGED funcs_vars
  PROVE  FuncsInv' /\ [FuncsStack!Next]_(FuncsStack!vars)
<1>1. CASE FuncsNext
  <2>1. ASSUME NEW names \in FuncLists, PushUserFuncs(names)
        PROVE  FuncsInv' /\ FuncsStack!Next
    BY <2>1, FuncsPushed DEF FuncsStack!Next
  <2>2. ASSUME PopUserFuncs
        PROVE  FuncsInv' /\ FuncsStack!Next
    BY <2>2, FuncsPopped DEF FuncsStack!Next
  <2>3. ASSUME \/ \E d \in Definitions : DoFset(d)
               \/ \E names \in FuncLists : DoFunset(names)
               \/ \E old, new \in FuncNames : RenameUserFunc(old, new)
        PROVE  FuncsInv' /\ FuncsStack!Next
    BY <2>3, FuncsChanged DEF FuncsStack!Next, DoFset, DoFunset, RenameUserFunc
  <2> QED
    BY <1>1, <2>1, <2>2, <2>3 DEF FuncsNext
<1>2. CASE EmptyUserFuncStack
  <2>1. FuncsInv'
    BY <1>2, EmptyIsSequence DEF EmptyUserFuncStack, FuncsInv, FuncStacks
  <2> QED
    BY <1>2, <2>1, FuncsStackSteps DEF EmptyUserFuncStack, FuncsStack!Next
<1>3. CASE UNCHANGED funcs_vars
  BY <1>3 DEF funcs_vars, FuncsInv, FuncStacks, FuncsStack!vars
<1> QED
  BY <1>1, <1>2, <1>3

(***************************************************************************)
(* Omits.                                                                  *)
(***************************************************************************)
OmitKinds == {"full", "part", "weekdays"}
OmitStackInv == Sequence(SavedOmitContexts)

\* What is saved, for OmitStack
SavedOmits(s) == [i \in DOMAIN s |-> Omitted(s[i])]

\* What is omitted has three kinds
LEMMA OmittedIs ==
  ASSUME NEW om
  PROVE  /\ DOMAIN Omitted(om) = OmitKinds
         /\ Omitted(om) = [k \in OmitKinds |-> Omitted(om)[k]]
BY DEF Omitted, OmitKinds

\* What is saved, entry by entry
LEMMA SavedOmitsIs ==
  ASSUME NEW s, Sequence(s)
  PROVE  /\ Sequence(SavedOmits(s)) /\ Len(SavedOmits(s)) = Len(s) /\ Len(s) \in Nat
         /\ \A i \in 1 .. Len(s) : SavedOmits(s)[i] = Omitted(s[i])
<1>1. Len(s) \in Nat /\ DOMAIN s = 1 .. Len(s)
  BY IsSequence DEF Sequence
<1>2. SavedOmits(s) = [i \in 1 .. Len(s) |-> SavedOmits(s)[i]]
  BY <1>1 DEF SavedOmits
<1>3. Sequence(SavedOmits(s)) /\ Len(SavedOmits(s)) = Len(s)
  BY <1>1, <1>2, SequenceOf
<1> QED
  BY <1>1, <1>3 DEF SavedOmits

\* ... which may be nothing
LEMMA SavedOmitsEmpty == SavedOmits(<< >>) = << >>
BY DEF SavedOmits

\* The steps of the abstract stack, in terms of the two states
LEMMA OmitStackSteps ==
  /\ OmitStack!Push <=>
       /\ SavedOmits(SavedOmitContexts') # << >>
       /\ Tail(SavedOmits(SavedOmitContexts')) = SavedOmits(SavedOmitContexts)
       /\ DOMAIN Head(SavedOmits(SavedOmitContexts')) \subseteq OmitKinds
       /\ \A x \in DOMAIN Head(SavedOmits(SavedOmitContexts')) :
            Head(SavedOmits(SavedOmitContexts'))[x] = Omitted(OMITS)[x]
       /\ Omitted(OMITS') = Omitted(OMITS)
  /\ OmitStack!Pop <=>
       /\ SavedOmits(SavedOmitContexts) # << >>
       /\ SavedOmits(SavedOmitContexts') = Tail(SavedOmits(SavedOmitContexts))
       /\ Omitted(OMITS') =
            [x \in OmitKinds |-> IF x \in DOMAIN Head(SavedOmits(SavedOmitContexts))
                                 THEN Head(SavedOmits(SavedOmitContexts))[x] ELSE Omitted(OMITS)[x]]
  /\ OmitStack!Change <=>
       DOMAIN Omitted(OMITS') = OmitKinds /\ SavedOmits(SavedOmitContexts') = SavedOmits(SavedOmitContexts)
  /\ OmitStack!NewPass <=>
       SavedOmits(SavedOmitContexts') = << >> /\ Omitted(OMITS') = NothingOmitted(Omitted(OMITS))
<1>1. OmitStack!Push <=>
       /\ SavedOmits(SavedOmitContexts') # << >>
       /\ Tail(SavedOmits(SavedOmitContexts')) = SavedOmits(SavedOmitContexts)
       /\ DOMAIN Head(SavedOmits(SavedOmitContexts')) \subseteq OmitKinds
       /\ \A x \in DOMAIN Head(SavedOmits(SavedOmitContexts')) :
            Head(SavedOmits(SavedOmitContexts'))[x] = Omitted(OMITS)[x]
       /\ Omitted(OMITS') = Omitted(OMITS)
  BY DEF OmitStack!Push, SavedOmits, OmitKinds
<1>2. OmitStack!Pop <=>
       /\ SavedOmits(SavedOmitContexts) # << >>
       /\ SavedOmits(SavedOmitContexts') = Tail(SavedOmits(SavedOmitContexts))
       /\ Omitted(OMITS') =
            [x \in OmitKinds |-> IF x \in DOMAIN Head(SavedOmits(SavedOmitContexts))
                                 THEN Head(SavedOmits(SavedOmitContexts))[x] ELSE Omitted(OMITS)[x]]
  BY DEF OmitStack!Pop, OmitStack!Restored, SavedOmits, OmitKinds
<1>3. OmitStack!Change <=>
       DOMAIN Omitted(OMITS') = OmitKinds /\ SavedOmits(SavedOmitContexts') = SavedOmits(SavedOmitContexts)
  BY DEF OmitStack!Change, SavedOmits, OmitKinds
<1>4. OmitStack!NewPass <=>
       SavedOmits(SavedOmitContexts') = << >> /\ Omitted(OMITS') = NothingOmitted(Omitted(OMITS))
  BY DEF OmitStack!NewPass, SavedOmits, NothingOmitted
<1> QED
  BY <1>1, <1>2, <1>3, <1>4

\* At the start nothing is omitted or saved
LEMMA OmitsInitial == OmitsInit => OmitStackInv /\ OmitStack!Init
<1> SUFFICES ASSUME OmitsInit
             PROVE  OmitStackInv /\ OmitStack!Init
  OBVIOUS
<1>1. SavedOmitContexts = << >>
  BY DEF OmitsInit
<1>2. OmitStack!Init <=> DOMAIN Omitted(OMITS) = OmitKinds /\ SavedOmits(SavedOmitContexts) = << >>
  BY DEF OmitStack!Init, SavedOmits, OmitKinds
<1> QED
  BY <1>1, <1>2, EmptyIsSequence, OmittedIs, SavedOmitsEmpty DEF OmitStackInv

\* PUSH-OMIT-CONTEXT
LEMMA OmitsPushed ==
  ASSUME OmitStackInv, PushOmitContext
  PROVE  OmitStackInv' /\ OmitStack!Push
<1> DEFINE s == SavedOmits(SavedOmitContexts)
           t == SavedOmits(SavedOmitContexts')
<1>1. SavedOmitContexts' = <<OMITS>> \o SavedOmitContexts /\ OMITS' = OMITS
  BY DEF PushOmitContext, OMITS
<1>2. /\ Sequence(SavedOmitContexts') /\ Len(SavedOmitContexts') = Len(SavedOmitContexts) + 1
      /\ SavedOmitContexts'[1] = OMITS
      /\ \A i \in 1 .. Len(SavedOmitContexts) : SavedOmitContexts'[i + 1] = SavedOmitContexts[i]
  BY <1>1, PushSequence DEF OmitStackInv
<1>3. /\ Sequence(s) /\ Sequence(t) /\ Len(s) = Len(SavedOmitContexts) /\ Len(t) = Len(s) + 1
      /\ Len(s) \in Nat
      /\ \A i \in 1 .. Len(s) : t[i + 1] = s[i]
      /\ t[1] = Omitted(OMITS)
  BY <1>2, SavedOmitsIs DEF OmitStackInv
<1>4. t # << >> /\ Tail(t) = s /\ Head(t) = Omitted(OMITS)
  BY <1>3, TailIs
<1> HIDE DEF s, t
<1>5. OmitStack!Push
  BY <1>1, <1>4, OmittedIs, OmitStackSteps DEF s, t
<1> QED
  BY <1>2, <1>5 DEF OmitStackInv

\* POP-OMIT-CONTEXT
LEMMA OmitsPopped ==
  ASSUME OmitStackInv, PopOmitContext
  PROVE  OmitStackInv' /\ OmitStack!Pop
<1> DEFINE s == SavedOmits(SavedOmitContexts')
           t == SavedOmits(SavedOmitContexts)
           om == Head(SavedOmitContexts)
<1>1. SavedOmitContexts # << >> /\ SetOmits(om) /\ SavedOmitContexts' = Tail(SavedOmitContexts)
  BY DEF PopOmitContext
<1>2. /\ Sequence(SavedOmitContexts') /\ Len(SavedOmitContexts) \in Nat \ {0}
      /\ Len(SavedOmitContexts') = Len(SavedOmitContexts) - 1 /\ om = SavedOmitContexts[1]
      /\ \A i \in 1 .. Len(SavedOmitContexts') : SavedOmitContexts'[i] = SavedOmitContexts[i + 1]
  BY <1>1, PopSequence DEF OmitStackInv
<1>3. /\ Sequence(s) /\ Sequence(t) /\ Len(s) = Len(SavedOmitContexts') /\ Len(t) = Len(s) + 1
      /\ Len(s) \in Nat
      /\ \A i \in 1 .. Len(s) : t[i + 1] = s[i]
      /\ t[1] = Omitted(om)
  BY <1>2, SavedOmitsIs DEF OmitStackInv
<1>4. t # << >> /\ Tail(t) = s /\ Head(t) = Omitted(om)
  BY <1>3, TailIs
<1>5. Omitted(OMITS') = Omitted(om)
  BY <1>1 DEF SetOmits, OMITS, Omitted
<1> HIDE DEF s, t, om
<1>6. OmitStack!Pop
  BY <1>4, <1>5, OmittedIs, OmitStackSteps DEF s, t
<1> QED
  BY <1>2, <1>6 DEF OmitStackInv

\* Every step of the omits is one of the abstract stack.
LEMMA OmitsStep ==
  ASSUME OmitStackInv, OmitsNext \/ NewOmits \/ UNCHANGED omit_vars
  PROVE  OmitStackInv' /\ [OmitStack!Next]_(OmitStack!vars)
<1>1. CASE OmitsNext
  <2>1. CASE UNCHANGED SavedOmitContexts
    <3>1. OmitStack!Change
      BY <2>1, OmittedIs, OmitStackSteps
    <3> QED
      BY <2>1, <3>1 DEF OmitStackInv, OmitStack!Next
  <2>2. CASE PushOmitContext
    BY <2>2, OmitsPushed DEF OmitStack!Next
  <2>3. CASE PopOmitContext
    BY <2>3, OmitsPopped DEF OmitStack!Next
  <2> QED
    BY <1>1, <2>1, <2>2, <2>3 DEF OmitsNext, Omit, AddOmit, DoClear
<1>2. CASE NewOmits
  <2>1. SavedOmitContexts' = << >> /\ SetOmits(NoOmits)
    BY <1>2 DEF NewOmits
  <2>2. Omitted(OMITS') = [k \in OmitKinds |-> {}]
    <3>1. Range(<< >>) = {}
      BY DEF Range
    <3>2. OMITS' = NoOmits
      BY <2>1 DEF SetOmits, NoOmits, OMITS
    <3>3. Omitted(NoOmits) = [full |-> {}, part |-> {}, weekdays |-> {}]
      BY <3>1 DEF Omitted, NoOmits
    <3> QED
      BY <3>2, <3>3 DEF OmitKinds
  <2>3. OmitStack!NewPass
    BY <2>1, <2>2, OmittedIs, SavedOmitsEmpty, OmitStackSteps DEF NothingOmitted
  <2> QED
    BY <2>1, <2>3, EmptyIsSequence DEF OmitStackInv, OmitStack!Next
<1>3. CASE UNCHANGED omit_vars
  BY <1>3 DEF omit_vars, OMITS, OmitStackInv, OmitStack!vars
<1> QED
  BY <1>1, <1>2, <1>3

(***************************************************************************)
(* Variables.                                                              *)
(***************************************************************************)
\* What a system variable can hold
GoodValue(n, val) == val \in Value /\ (SysVarArr[n].modifiable => Holds(SysVarArr[n], val))

\* What it can be set to in addition: a value that is translated
Translatable(val) ==
  val.type = "STR_TYPE" =>
    LET new == Translate(val) IN new \in Value /\ new.type = "STR_TYPE" /\ Translate(new) = new

SavedVars(e) ==
  /\ e.vars = [x \in DOMAIN e.vars |-> e.vars[x]] /\ DOMAIN e.vars \subseteq VarNames
  /\ e.sysvars = [n \in DOMAIN e.sysvars |-> e.sysvars[n]] /\ DOMAIN e.sysvars \subseteq SysVarNames
  /\ \A n \in DOMAIN e.sysvars : SysVarArr[n].modifiable /\ GoodValue(n, e.sysvars[n])

VarsInv ==
  /\ VHashTbl = [x \in VarNames |-> VHashTbl[x]]
  /\ SysVars = [n \in SysVarNames |-> SysVars[n]]
  /\ \A n \in SysVarNames : GoodValue(n, SysVars[n])
  /\ Sequence(VarStack)
  /\ \A i \in 1 .. Len(VarStack) : SavedVars(VarStack[i])

\* An assignment ends with a value that the variable can hold: the new one or the old one.
LEMMA SetSysVarHolds ==
  ASSUME NEW n \in SysVarNames, NEW old, GoodValue(n, old),
         NEW val \in Value, SysVarArr[n].type = "TRANS_TYPE" => Translatable(val), NEW top \in BOOLEAN
  PROVE  GoodValue(n, SetSysVar(n, val, old, top).v)
<1> DEFINE v == SysVarArr[n]
           new == SetSysVar(n, val, old, top).v
<1>1. CASE ~v.modifiable
  BY <1>1, VarsAssumption DEF SetSysVar, SetSysVarHelper, GoodValue
<1>2. CASE v.modifiable /\ v.type = "TRANS_TYPE"
  BY <1>2, VarsAssumption DEF SetSysVar, SetSysVarHelper, GoodValue, Holds, Translatable, Accepted
<1>3. CASE v.modifiable /\ v.type = "expr_time_limit_func"
  BY <1>3, VarsAssumption DEF SetSysVar, SetSysVarHelper, expr_time_limit_func, GoodValue, Holds, Value, Accepted
<1>4. CASE v.modifiable /\ v.type = "oncefile_func"
  BY <1>4, VarsAssumption DEF SetSysVar, SetSysVarHelper, oncefile_func, GoodValue, Holds, Value, Accepted
<1>5. CASE v.modifiable /\ v.type \in DOMAIN Accepted
  <2>1. new = old \/ (new = [val EXCEPT !.type = "STR_TYPE"] /\ val.val \in v.min .. v.max)
    BY <1>5, VarsAssumption DEF SetSysVar, SetSysVarHelper, checked_func, Accepted
  <2>2. [val EXCEPT !.type = "STR_TYPE"] = [type |-> "STR_TYPE", val |-> val.val]
        /\ [type |-> "STR_TYPE", val |-> val.val] \in Value
    BY DEF Value
  <2>3. ASSUME NEW w, w \in Value, w.type = "STR_TYPE", w.val \in v.min .. v.max
        PROVE  GoodValue(n, w)
    BY <1>5, <2>3 DEF GoodValue, Holds, Accepted
  <2> QED
    BY <2>1, <2>2, <2>3
<1>6. CASE v.modifiable /\ v.type = "INT_TYPE"
  <2>1. v.min \in Int /\ v.max \in Int /\ val.val \in Int
    BY VarsAssumption DEF Value
  <2>2. new = old \/ (new = val /\ val.type = "INT_TYPE" /\ Range_error(v, val) = "OK")
    BY <1>6 DEF SetSysVar, SetSysVarHelper, Accepted
  <2>3. Range_error(v, val) = "OK" => ~(val.val < v.min) /\ ~(val.val > v.max)
    BY DEF Range_error
  <2>4. Range_error(v, val) = "OK" => v.min <= val.val /\ val.val <= v.max
    BY <2>1, <2>3
  <2> QED
    BY <1>6, <2>2, <2>4 DEF GoodValue, Holds, Accepted
<1>7. CASE v.modifiable /\ v.type = "STR_TYPE"
  BY <1>7, VarsAssumption DEF SetSysVar, SetSysVarHelper, Range_error, GoodValue, Holds, Value, Accepted
<1> QED
  BY <1>1, <1>2, <1>3, <1>4, <1>5, <1>6, <1>7, VarsAssumption DEF Kinds

\* A value that a variable can hold, it gets: always, unless it is the limit on evaluation or
\* the ONCE file, and these two if they have it already.
LEMMA SetSysVarAgain ==
  ASSUME NEW n \in SysVarNames, SysVarArr[n].modifiable, NEW old, GoodValue(n, old),
         NEW val, GoodValue(n, val), n \notin Fixed \/ val = old, NEW top \in BOOLEAN
  PROVE  SetSysVar(n, val, old, top) = [r |-> "OK", v |-> val]
<1> DEFINE v == SysVarArr[n]
<1>1. CASE v.type = "TRANS_TYPE"
  BY <1>1, VarsAssumption DEF SetSysVar, SetSysVarHelper, GoodValue, Holds, Accepted
<1>2. CASE v.type = "expr_time_limit_func"
  <2>1. val = old /\ val \in Value /\ val.type = "INT_TYPE" /\ val.val >= 0
    BY <1>2 DEF Fixed, GoodValue, Holds, Accepted
  <2>2. ~(val.val < 0)
    BY <2>1 DEF Value
  <2> QED
    BY <1>2, <2>1, <2>2 DEF SetSysVar, SetSysVarHelper, expr_time_limit_func, Accepted
<1>3. CASE v.type = "oncefile_func"
  BY <1>3, VarsAssumption DEF SetSysVar, SetSysVarHelper, oncefile_func, GoodValue, Holds, Accepted, Fixed
<1>4. CASE v.type \in DOMAIN Accepted
  <2>1. val \in Value /\ val.type = "STR_TYPE" /\ val.val \in v.min .. v.max
    BY <1>4 DEF GoodValue, Holds, Accepted
  <2>2. [val EXCEPT !.type = "STR_TYPE"] = val
    BY <2>1 DEF Value
  <2>3. val.type \in Accepted[v.type]
    BY <1>4, <2>1 DEF Accepted
  <2>4. SetSysVar(n, val, old, top) = checked_func(v, Accepted[v.type], val, old)
    BY <1>4 DEF SetSysVar, SetSysVarHelper, Accepted
  <2> QED
    BY <2>1, <2>2, <2>3, <2>4 DEF checked_func
<1>5. CASE v.type = "INT_TYPE"
  <2>1. v.min \in Int /\ v.max \in Int /\ val.val \in Int
    BY VarsAssumption DEF GoodValue, Value
  <2>2. val.type = "INT_TYPE" /\ v.min <= val.val /\ val.val <= v.max
    BY <1>5 DEF GoodValue, Holds, Accepted
  <2>3. ~(val.val < v.min) /\ ~(val.val > v.max)
    BY <2>1, <2>2
  <2>4. Range_error(v, val) = "OK"
    BY <2>3 DEF Range_error
  <2> QED
    BY <1>5, <2>2, <2>4 DEF SetSysVar, SetSysVarHelper, GoodValue, Holds, Value, Accepted
<1>6. CASE v.type = "STR_TYPE"
  BY <1>6, VarsAssumption DEF SetSysVar, SetSysVarHelper, GoodValue, Holds, Value, Accepted
<1> QED
  BY <1>1, <1>2, <1>3, <1>4, <1>5, <1>6, VarsAssumption DEF Kinds

\* The names of VarsStack, and what is saved
AllNames == VarNames \cup (SysVarNames \ Fixed)
SavedPart(e) == Together(e.vars, e.sysvars)
SavedParts(s) == [i \in DOMAIN s |-> SavedPart(s[i])]
Environment == Together(VHashTbl, SysVars)

\* The environment of variables, name by name
LEMMA EnvironmentIs ==
  ASSUME NEW v, v = [x \in VarNames |-> v[x]], NEW sys, sys = [n \in SysVarNames |-> sys[n]]
  PROVE  Together(v, sys) = [x \in AllNames |-> IF x \in VarNames THEN v[x] ELSE sys[x]]
BY DEF Together, AllNames

\* What of an entry of the stack is saved for good
LEMMA SavedPartIs ==
  ASSUME NEW e, SavedVars(e)
  PROVE  /\ DOMAIN SavedPart(e) = DOMAIN e.vars \cup (DOMAIN e.sysvars \ Fixed)
         /\ DOMAIN SavedPart(e) \subseteq AllNames
         /\ \A x \in DOMAIN SavedPart(e) :
              SavedPart(e)[x] = IF x \in DOMAIN e.vars THEN e.vars[x] ELSE e.sysvars[x]
BY DEF SavedPart, SavedVars, Together, AllNames

\* ... and of the stack
LEMMA SavedPartsIs ==
  ASSUME NEW s, Sequence(s)
  PROVE  /\ Sequence(SavedParts(s)) /\ Len(SavedParts(s)) = Len(s) /\ Len(s) \in Nat
         /\ \A i \in 1 .. Len(s) : SavedParts(s)[i] = SavedPart(s[i])
<1>1. Len(s) \in Nat /\ DOMAIN s = 1 .. Len(s)
  BY IsSequence DEF Sequence
<1>2. SavedParts(s) = [i \in 1 .. Len(s) |-> SavedParts(s)[i]]
  BY <1>1 DEF SavedParts
<1>3. Sequence(SavedParts(s)) /\ Len(SavedParts(s)) = Len(s)
  BY <1>1, <1>2, SequenceOf
<1> QED
  BY <1>1, <1>3 DEF SavedParts

\* ... which may be empty
LEMMA SavedPartsEmpty == SavedParts(<< >>) = << >>
BY DEF SavedParts

\* The steps of the abstract stack, in terms of the two states: a push,
LEMMA VarsPushIs ==
  VarsStack!Push <=>
    /\ SavedParts(VarStack') # << >> /\ Tail(SavedParts(VarStack')) = SavedParts(VarStack)
    /\ DOMAIN Head(SavedParts(VarStack')) \subseteq AllNames
    /\ \A x \in DOMAIN Head(SavedParts(VarStack')) :
         Head(SavedParts(VarStack'))[x] = Environment[x]
    /\ Environment' = Environment
BY DEF VarsStack!Push, SavedParts, SavedPart, Together, Environment, AllNames

\* ... a pop
LEMMA VarsPopIs ==
  VarsStack!Pop <=>
    /\ SavedParts(VarStack) # << >> /\ SavedParts(VarStack') = Tail(SavedParts(VarStack))
    /\ Environment' =
         [x \in AllNames |-> IF x \in DOMAIN Head(SavedParts(VarStack)) THEN Head(SavedParts(VarStack))[x]
                           ELSE Environment[x]]
BY DEF VarsStack!Pop, VarsStack!Restored, SavedParts, SavedPart, Together, Environment, AllNames

\* ... a change
LEMMA VarsChangeIs ==
  VarsStack!Change <=>
    DOMAIN Environment' = AllNames /\ SavedParts(VarStack') = SavedParts(VarStack)
BY DEF VarsStack!Change, SavedParts, SavedPart, Together, Environment, AllNames

\* ... a new pass
LEMMA VarsNewPassIs ==
  VarsStack!NewPass <=>
    SavedParts(VarStack') = << >> /\ Environment' = KeptVars(Environment)
BY DEF VarsStack!NewPass, SavedParts, SavedPart, Together, Environment, AllNames, KeptVars

\* ... and the start
LEMMA VarsInitIs ==
  VarsStack!Init <=> DOMAIN Environment = AllNames /\ SavedParts(VarStack) = << >>
BY DEF VarsStack!Init, SavedParts, SavedPart, Together, Environment, AllNames

\* At the start no variable is set or saved
LEMMA VarsInitial == VarsInit => VarsInv /\ VarsStack!Init
<1> SUFFICES ASSUME VarsInit
             PROVE  VarsInv /\ VarsStack!Init
  OBVIOUS
<1>1. /\ VHashTbl = [x \in VarNames |-> VHashTbl[x]]
      /\ SysVars = [n \in SysVarNames |-> SysVars[n]]
      /\ \A n \in SysVarNames : GoodValue(n, SysVars[n])
  BY VarsAssumption DEF VarsInit, GoodValue
<1>2. VarStack = << >>
  BY DEF VarsInit
<1>3. VarsInv
  BY <1>1, <1>2, EmptyIsSequence DEF VarsInv
<1>4. DOMAIN Environment = AllNames
  BY <1>1, EnvironmentIs DEF Environment
<1> QED
  BY <1>2, <1>3, <1>4, SavedPartsEmpty, VarsInitIs

\* PUSH-VARS
LEMMA VarsPushed ==
  ASSUME VarsInv, NEW names, PushVars(names)
  PROVE  VarsInv' /\ VarsStack!Push
<1> DEFINE e == [sysvars |-> [n \in names \cap SysVarNames |-> SysVars[n]],
                 vars |-> [x \in names \cap VarNames |-> VHashTbl[x]]]
           s == SavedParts(VarStack)
           t == SavedParts(VarStack')
<1>1. VarStack' = <<e>> \o VarStack /\ VHashTbl' = VHashTbl /\ SysVars' = SysVars
  BY DEF PushVars
<1>2. SavedVars(e)
  <2>1. \A n \in names \cap SysVarNames : SysVarArr[n].modifiable /\ GoodValue(n, SysVars[n])
    BY DEF PushVars, Modifiable, VarsInv
  <2> QED
    BY <2>1 DEF SavedVars
<1> HIDE DEF e
<1>3. /\ Sequence(VarStack') /\ Len(VarStack') = Len(VarStack) + 1 /\ VarStack'[1] = e
      /\ \A i \in 1 .. Len(VarStack) : VarStack'[i + 1] = VarStack[i]
      /\ Len(VarStack) \in Nat
  <2>1. Sequence(VarStack)
    BY DEF VarsInv
  <2>2. Len(VarStack) \in Nat
    BY <2>1, IsSequence DEF Sequence
  <2> QED
    BY <1>1, <2>1, <2>2, PushSequence
<1>4. VarsInv'
  <2>1. ASSUME NEW i \in 1 .. Len(VarStack')
        PROVE  SavedVars(VarStack'[i])
    <3>1. CASE i = 1
      BY <1>2, <1>3, <3>1
    <3>2. CASE i # 1
      <4> i - 1 \in 1 .. Len(VarStack) /\ VarStack'[i] = VarStack[i - 1]
        BY <1>3, <3>2
      <4> QED
        BY DEF VarsInv
    <3> QED
      BY <3>1, <3>2
  <2> QED
    BY <1>1, <1>3, <2>1 DEF VarsInv, GoodValue, SavedVars
<1>5. /\ Sequence(s) /\ Sequence(t) /\ Len(t) = Len(s) + 1 /\ \A i \in 1 .. Len(s) : t[i + 1] = s[i]
      /\ t[1] = SavedPart(e)
  BY <1>3, SavedPartsIs DEF VarsInv
<1>6. t # << >> /\ Tail(t) = s /\ Head(t) = SavedPart(e)
  BY <1>5, TailIs
<1>7. Environment = [x \in AllNames |-> IF x \in VarNames THEN VHashTbl[x] ELSE SysVars[x]]
  BY EnvironmentIs DEF VarsInv, Environment
<1>8. /\ DOMAIN SavedPart(e) \subseteq AllNames
      /\ \A x \in DOMAIN SavedPart(e) : SavedPart(e)[x] = Environment[x]
  <2>1. /\ DOMAIN SavedPart(e) \subseteq AllNames
        /\ \A x \in DOMAIN SavedPart(e) :
             SavedPart(e)[x] = IF x \in DOMAIN e.vars THEN e.vars[x] ELSE e.sysvars[x]
        /\ DOMAIN SavedPart(e) = DOMAIN e.vars \cup (DOMAIN e.sysvars \ Fixed)
    BY <1>2, SavedPartIs
  <2>2. /\ DOMAIN e.vars = names \cap VarNames /\ \A x \in DOMAIN e.vars : e.vars[x] = VHashTbl[x]
        /\ DOMAIN e.sysvars = names \cap SysVarNames /\ \A x \in DOMAIN e.sysvars : e.sysvars[x] = SysVars[x]
    BY DEF e
  <2>3. ASSUME NEW x \in DOMAIN SavedPart(e)
        PROVE  SavedPart(e)[x] = Environment[x]
    <3>1. x \in AllNames
      BY <2>1
    <3>2. Environment[x] = IF x \in VarNames THEN VHashTbl[x] ELSE SysVars[x]
      BY <1>7, <3>1
    <3>3. CASE x \in DOMAIN e.vars
      BY <2>1, <2>2, <3>2, <3>3
    <3>4. CASE x \notin DOMAIN e.vars
      <4>1. x \in DOMAIN e.sysvars
        BY <2>1, <3>4
      <4>2. SavedPart(e)[x] = SysVars[x] /\ x \in SysVarNames
        BY <2>1, <2>2, <3>4, <4>1
      <4>3. x \notin VarNames
        BY <4>2, VarsAssumption
      <4> QED BY <3>2, <4>2, <4>3
    <3> QED BY <3>3, <3>4
  <2> QED BY <2>1, <2>3
<1>9. Environment' = Environment
  BY <1>1 DEF Environment, Together
<1> HIDE DEF s, t
<1> QED
  BY <1>4, <1>6, <1>8, <1>9, VarsPushIs DEF s, t

\* POP-VARS: all but the fixed ones get back what was saved.
LEMMA VarsPopped ==
  ASSUME VarsInv, NEW top \in BOOLEAN, PopVars(top)
  PROVE  VarsInv' /\ VarsStack!Pop
<1> DEFINE e == Head(VarStack)
           s == SavedParts(VarStack')
           t == SavedParts(VarStack)
<1>1. /\ VarStack # << >> /\ VarStack' = Tail(VarStack)
      /\ SysVars' = [n \in SysVarNames |-> IF n \in DOMAIN e.sysvars
                                          THEN SetSysVar(n, e.sysvars[n], SysVars[n], top).v ELSE SysVars[n]]
      /\ VHashTbl' = [x \in VarNames |-> IF x \in DOMAIN e.vars THEN e.vars[x] ELSE VHashTbl[x]]
  BY DEF PopVars
<1>2. /\ Sequence(VarStack') /\ Len(VarStack) \in Nat \ {0} /\ Len(VarStack') = Len(VarStack) - 1
      /\ e = VarStack[1] /\ \A i \in 1 .. Len(VarStack') : VarStack'[i] = VarStack[i + 1]
  BY <1>1, PopSequence DEF VarsInv
<1>3. SavedVars(e)
  <2>1. 1 \in 1 .. Len(VarStack)
    BY <1>2
  <2> QED
    BY <1>2, <2>1 DEF VarsInv
<1> HIDE DEF e
<1>4. ASSUME NEW n \in SysVarNames
      PROVE  /\ GoodValue(n, SysVars'[n])
             /\ n \notin Fixed /\ n \in DOMAIN e.sysvars => SysVars'[n] = e.sysvars[n]
             /\ n \notin DOMAIN e.sysvars => SysVars'[n] = SysVars[n]
  <2>1. GoodValue(n, SysVars[n])
    BY DEF VarsInv
  <2>2. CASE n \notin DOMAIN e.sysvars
    BY <1>1, <2>1, <2>2
  <2>3. CASE n \in DOMAIN e.sysvars /\ n \notin Fixed
    <3>1. SysVarArr[n].modifiable /\ GoodValue(n, e.sysvars[n])
      BY <1>3, <2>3 DEF SavedVars
    <3>2. SetSysVar(n, e.sysvars[n], SysVars[n], top) = [r |-> "OK", v |-> e.sysvars[n]]
      BY <2>1, <2>3, <3>1, SetSysVarAgain
    <3> QED
      BY <1>1, <2>3, <3>1, <3>2
  <2>4. CASE n \in DOMAIN e.sysvars /\ n \in Fixed
    <3>1. e.sysvars[n] \in Value /\ SysVarArr[n].type # "TRANS_TYPE"
      BY <1>3, <2>4 DEF SavedVars, GoodValue, Fixed
    <3>2. GoodValue(n, SetSysVar(n, e.sysvars[n], SysVars[n], top).v)
      BY <2>1, <3>1, SetSysVarHolds
    <3> QED
      BY <1>1, <2>4, <3>2
  <2> QED
    BY <2>2, <2>3, <2>4
<1>5. VarsInv'
  <2>1. ASSUME NEW i \in 1 .. Len(VarStack')
        PROVE  SavedVars(VarStack'[i])
    <3> i + 1 \in 1 .. Len(VarStack) /\ VarStack'[i] = VarStack[i + 1]
      BY <1>2
    <3> QED
      BY DEF VarsInv
  <2> QED
    BY <1>1, <1>2, <1>4, <2>1 DEF VarsInv, GoodValue, SavedVars
<1>6. /\ Sequence(s) /\ Sequence(t) /\ Len(t) = Len(s) + 1 /\ \A i \in 1 .. Len(s) : t[i + 1] = s[i]
      /\ t[1] = SavedPart(e)
  <2>1. /\ Sequence(s) /\ Len(s) = Len(VarStack') /\ \A i \in 1 .. Len(VarStack') : s[i] = SavedPart(VarStack'[i])
    BY <1>2, SavedPartsIs
  <2>2. /\ Sequence(t) /\ Len(t) = Len(VarStack) /\ \A i \in 1 .. Len(VarStack) : t[i] = SavedPart(VarStack[i])
    BY SavedPartsIs DEF VarsInv
  <2> HIDE DEF s, t
  <2> QED
    BY <1>2, <2>1, <2>2
<1>7. t # << >> /\ Tail(t) = s /\ Head(t) = SavedPart(e)
  BY <1>6, TailIs
<1>8. /\ Environment = [x \in AllNames |-> IF x \in VarNames THEN VHashTbl[x] ELSE SysVars[x]]
      /\ Environment' = [x \in AllNames |-> IF x \in VarNames THEN VHashTbl'[x] ELSE SysVars'[x]]
  <2>1. VHashTbl' = [x \in VarNames |-> VHashTbl'[x]] /\ SysVars' = [n \in SysVarNames |-> SysVars'[n]]
    BY <1>1
  <2> QED
    BY <2>1, EnvironmentIs DEF VarsInv, Environment
<1>9. ASSUME NEW x \in AllNames
      PROVE  Environment'[x] = IF x \in DOMAIN SavedPart(e) THEN SavedPart(e)[x] ELSE Environment[x]
  <2>1. DOMAIN e.vars \subseteq VarNames /\ DOMAIN e.sysvars \subseteq SysVarNames
    BY <1>3 DEF SavedVars
  <2>2. CASE x \in VarNames
    <3>1. x \notin SysVarNames
      BY <2>2, VarsAssumption
    <3> QED
      BY <1>1, <1>3, <1>8, <2>1, <2>2, <3>1, SavedPartIs
  <2>3. CASE x \notin VarNames
    <3>1. x \in SysVarNames /\ x \notin Fixed
      BY <2>3 DEF AllNames
    <3> QED
      BY <1>3, <1>4, <1>8, <2>1, <2>3, <3>1, SavedPartIs
  <2> QED
    BY <2>2, <2>3
<1>10. Environment' = [x \in AllNames |-> IF x \in DOMAIN SavedPart(e) THEN SavedPart(e)[x] ELSE Environment[x]]
  BY <1>8, <1>9
<1> HIDE DEF s, t
<1> QED
  BY <1>5, <1>7, <1>10, VarsPopIs DEF s, t

\* SET, UNSET, PRESERVE and what reads today's date change variables and leave the stack alone.
LEMMA VarsChanged ==
  ASSUME VarsInv, ScriptVarsNext \/ SysVarsNext
  PROVE  VarsInv' /\ VarsStack!Change
<1>1. VarStack' = VarStack
  BY DEF ScriptVarsNext, SysVarsNext, DoSet, DoUnset, DoPreserve, GetToday, DoSetSysVar, ProcessOnce
<1>2. VHashTbl' = [x \in VarNames |-> VHashTbl'[x]]
  <2>1. VHashTbl = [x \in VarNames |-> VHashTbl[x]]
    BY DEF VarsInv
  <2>2. ASSUME NEW l \in SetLines, DoSet(l.name, l.val, l.nonconst, l.ignoring, l.constant)
        PROVE  VHashTbl' = [x \in VarNames |-> VHashTbl'[x]]
    BY <2>1, <2>2 DEF DoSet, SetVar
  <2>3. ASSUME NEW names, DoUnset(names) \/ DoPreserve(names)
        PROVE  VHashTbl' = [x \in VarNames |-> VHashTbl'[x]]
    BY <2>3 DEF DoUnset, DoPreserve, Without
  <2> QED
    BY <2>1, <2>2, <2>3 DEF ScriptVarsNext, SysVarsNext, GetToday, DoSetSysVar, ProcessOnce
<1>3. SysVars' = [n \in SysVarNames |-> SysVars'[n]] /\ \A n \in SysVarNames : GoodValue(n, SysVars'[n])
  <2>1. SysVars = [n \in SysVarNames |-> SysVars[n]] /\ \A n \in SysVarNames : GoodValue(n, SysVars[n])
    BY DEF VarsInv
  <2>2. CASE SysVars' = SysVars
    BY <2>1, <2>2
  <2>3. ASSUME NEW l \in SetSysLines, NEW top \in BOOLEAN, DoSetSysVar(l.name, l.val, top)
        PROVE  SysVars' = [n \in SysVarNames |-> SysVars'[n]] /\ \A n \in SysVarNames : GoodValue(n, SysVars'[n])
    <3>1. SysVars' = [SysVars EXCEPT ![l.name] = SetSysVar(l.name, l.val, SysVars[l.name], top).v]
      BY <2>3 DEF DoSetSysVar
    <3>2. l.name \in SysVarNames => GoodValue(l.name, SetSysVar(l.name, l.val, SysVars[l.name], top).v)
      BY <2>1, SetSysVarHolds, VarsAssumption DEF Translatable
    <3> QED
      BY <2>1, <3>1, <3>2
  <2> QED
    BY <2>2, <2>3 DEF ScriptVarsNext, SysVarsNext, DoSet, DoUnset, DoPreserve, GetToday, ProcessOnce
<1>4. VarsInv'
  BY <1>1, <1>2, <1>3 DEF VarsInv, GoodValue, SavedVars
<1>5. DOMAIN Environment' = AllNames
  BY <1>2, <1>3, EnvironmentIs DEF Environment
<1>6. SavedParts(VarStack') = SavedParts(VarStack)
  BY <1>1
<1> QED
  BY <1>4, <1>5, <1>6, VarsChangeIs

\* A new pass keeps what was preserved.
LEMMA VarsNewPass ==
  ASSUME VarsInv, NewVars
  PROVE  VarsInv' /\ VarsStack!NewPass
<1>1. /\ VHashTbl' = [x \in VarNames |-> IF IsSet(x) /\ ~VHashTbl[x].preserve THEN UNSET ELSE VHashTbl[x]]
      /\ VarStack' = << >> /\ SysVars' = SysVars
  BY DEF NewVars, DestroyVars
<1>2. VarsInv'
  BY <1>1, EmptyIsSequence DEF VarsInv, GoodValue
<1>3. /\ Environment = [x \in AllNames |-> IF x \in VarNames THEN VHashTbl[x] ELSE SysVars[x]]
      /\ Environment' = [x \in AllNames |-> IF x \in VarNames THEN VHashTbl'[x] ELSE SysVars'[x]]
  <2>1. /\ VHashTbl = [x \in VarNames |-> VHashTbl[x]] /\ SysVars = [n \in SysVarNames |-> SysVars[n]]
        /\ VHashTbl' = [x \in VarNames |-> VHashTbl'[x]] /\ SysVars' = [n \in SysVarNames |-> SysVars'[n]]
    BY <1>1 DEF VarsInv
  <2> QED
    BY <2>1, EnvironmentIs DEF Environment
<1>4. KeptVars(Environment) =
        [x \in AllNames |-> IF x \in VarNames /\ Environment[x] # UNSET /\ ~Environment[x].preserve THEN UNSET ELSE Environment[x]]
  BY <1>3 DEF KeptVars
<1>5. ASSUME NEW x \in AllNames
      PROVE  Environment'[x] = KeptVars(Environment)[x]
  BY <1>1, <1>3, <1>4 DEF IsSet
<1>6. Environment' = KeptVars(Environment)
  BY <1>3, <1>4, <1>5
<1> QED
  BY <1>1, <1>2, <1>6, SavedPartsEmpty, VarsNewPassIs

\* Every step of the variables is one of the abstract stack.
LEMMA VarsStep ==
  ASSUME VarsInv, VarsNext \/ NewVars \/ UNCHANGED vars_vars
  PROVE  VarsInv' /\ [VarsStack!Next]_(VarsStack!vars)
<1>1. CASE ScriptVarsNext \/ SysVarsNext
  BY <1>1, VarsChanged DEF VarsStack!Next
<1>2. CASE StackNext
  <2>1. ASSUME NEW names, PushVars(names)
        PROVE  VarsInv' /\ VarsStack!Next
    BY <2>1, VarsPushed DEF VarsStack!Next
  <2>2. ASSUME NEW top \in BOOLEAN, PopVars(top)
        PROVE  VarsInv' /\ VarsStack!Next
    BY <2>2, VarsPopped DEF VarsStack!Next
  <2> QED
    BY <1>2, <2>1, <2>2 DEF StackNext
<1>3. CASE NewVars
  BY <1>3, VarsNewPass DEF VarsStack!Next
<1>4. CASE UNCHANGED vars_vars
  BY <1>4 DEF vars_vars, VarsInv, GoodValue, SavedVars, VarsStack!vars
<1> QED
  BY <1>1, <1>2, <1>3, <1>4 DEF VarsNext

(***************************************************************************)
(* The date of today.                                                      *)
(***************************************************************************)
TodayInv == DSEToday \in Nat /\ (Ucached.day # -1 => Ucached.date = DateOf(Ucached.day))

\* The cache is filled with the date of its day only (FILL_U_CACHE)
LEMMA TodayStep ==
  ASSUME TodayInv, VarsNext \/ NewVars \/ UNCHANGED vars_vars
  PROVE  TodayInv'
<1>1. CASE GetToday
  BY <1>1 DEF GetToday, FILL_U_CACHE, TodayInv
<1>2. CASE NewVars
  BY <1>2 DEF NewVars, TodayInv
<1>3. CASE UNCHANGED <<DSEToday, Ucached>>
  BY <1>3 DEF TodayInv
<1> QED
  BY <1>1, <1>2, <1>3 DEF VarsNext, ScriptVarsNext, SysVarsNext, StackNext, DoSet, DoUnset, DoPreserve, DoSetSysVar,
                          ProcessOnce, PushVars, PopVars, vars_vars

(***************************************************************************)
(* Arrays in their order.                                                  *)
(***************************************************************************)
\* In an increasing array, every later item is greater
LEMMA LaterIsGreater ==
  ASSUME NEW array \in Seq(Int), Increasing(array)
  PROVE  \A i, j \in 1 .. Len(array) : i < j => array[i] < array[j]
  <1> DEFINE n == Len(array)
  <1>0. n \in Nat /\ \A i \in 1 .. n : array[i] \in Int
    OBVIOUS
  <1>1. ASSUME NEW i \in 1 .. n PROVE \A k \in 0 .. n : i + k + 1 <= n => array[i] < array[i + k + 1]
    <2> DEFINE T == {k \in 0 .. n : i + k + 1 <= n => array[i] < array[i + k + 1]}
    <2>1. 0 \in T
      <3>1. i + 1 <= n => i + 1 \in 2 .. Len(array) /\ (i + 1) - 1 = i
        BY <1>0
      <3>2. i + 1 <= n => array[i] < array[i + 1]
        BY <3>1 DEF Increasing
      <3> QED BY <1>0, <3>2
    <2>2. ASSUME NEW k \in 0 .. n - 1, k \in T PROVE k + 1 \in T
      <3>1. CASE i + (k + 1) + 1 <= n
        <4>1. i + (k + 1) + 1 \in 2 .. Len(array) /\ (i + (k + 1) + 1) - 1 = i + k + 1 /\ i + k + 1 \in 1 .. n
          BY <1>0, <3>1
        <4>2. array[i + k + 1] < array[i + (k + 1) + 1]
          BY <4>1 DEF Increasing
        <4>3. array[i] < array[i + k + 1]
          BY <2>2, <4>1, <1>0
        <4>4. array[i] < array[i + (k + 1) + 1]
          BY <1>0, <4>1, <4>2, <4>3
        <4> QED BY <1>0, <4>4
      <3> QED BY <1>0, <3>1
    <2> HIDE DEF T
    <2>3. \A k \in 0 .. n : k \in T
      BY <1>0, <2>1, <2>2, UpTo
    <2> QED BY <2>3 DEF T
  <1>2. ASSUME NEW i \in 1 .. n, NEW j \in 1 .. n, i < j PROVE array[i] < array[j]
    <2>1. j - i - 1 \in 0 .. n /\ i + (j - i - 1) + 1 = j /\ j <= n
      BY <1>0, <1>2
    <2> QED BY <1>1, <2>1
  <1> QED BY <1>2

\* The binary search finds what is in the array, and nothing else
LEMMA SearchFinds ==
  ASSUME NEW array \in Seq(Int), Increasing(array), NEW key \in Int
  PROVE  BexistsIntArray(array, key) <=> \E i \in 1 .. Len(array) : array[i] = key
  <1> DEFINE n == Len(array)
  <1> DEFINE Found(bot, top) == \E i \in bot .. top : array[i + 1] = key
  <1> DEFINE Either(mid, below, above) ==
               \/ array[mid + 1] = key
               \/ array[mid + 1] > key /\ below
               \/ array[mid + 1] < key /\ above
  <1> DEFINE Turn(h, bot, top) ==
               LET mid == (top + bot) \div 2
               IN  bot <= top /\ Either(mid, h[bot][mid - 1], h[mid + 1][top])
  <1> DEFINE Search(h) == [bot \in 0 .. n |-> [top \in -1 .. n - 1 |-> Turn(h, bot, top)]]
  <1> DEFINE search == CHOOSE h : h = Search(h)
  <1>1. BexistsIntArray(array, key) = search[0][n - 1]
    BY DEF BexistsIntArray
  <1> HIDE DEF search
  <1>2. n \in Nat /\ \A i \in 1 .. n : array[i] \in Int
    OBVIOUS
  <1>3. \A i, j \in 1 .. n : i < j => array[i] < array[j]
    BY LaterIsGreater
  <1>4. ASSUME NEW bot \in 0 .. n, NEW top \in -1 .. n - 1, NEW mid, mid = (top + bot) \div 2, bot <= top
        PROVE  /\ mid \in bot .. top /\ mid + 1 \in 1 .. n /\ mid - 1 \in -1 .. n - 1 /\ mid + 1 \in 0 .. n
               /\ Found(bot, top) <=> Either(mid, Found(bot, mid - 1), Found(mid + 1, top))
    <2>1. top + bot \in Nat /\ bot \in Nat /\ top \in Nat
      BY <1>2, <1>4
    <2>2. mid \in Int /\ 2 * mid <= top + bot /\ top + bot < 2 * mid + 2
      BY <1>4, <2>1
    <2>3. mid \in bot .. top /\ mid + 1 \in 1 .. n /\ mid - 1 \in -1 .. n - 1 /\ mid + 1 \in 0 .. n
      BY <1>2, <1>4, <2>1, <2>2
    <2>4. \A i \in bot .. top : i + 1 \in 1 .. n /\ i \in Int
      BY <1>2
    <2>5. \A i \in bot .. top : array[i + 1] \in Int /\ (i < mid => array[i + 1] < array[mid + 1]) /\ (i > mid => array[i + 1] > array[mid + 1])
      <3> TAKE i \in bot .. top
      <3>1. i + 1 \in 1 .. n /\ i \in Int /\ mid \in Int /\ (i < mid => i + 1 < mid + 1) /\ (i > mid => mid + 1 < i + 1)
        BY <2>3, <2>4
      <3>2. array[i + 1] \in Int /\ array[mid + 1] \in Int
        BY <1>2, <2>3, <3>1
      <3> QED BY <1>3, <2>3, <3>1, <3>2
    <2>6. ASSUME NEW i \in bot .. top, array[i + 1] = key
          PROVE  \/ array[mid + 1] = key
                 \/ array[mid + 1] > key /\ i \in bot .. mid - 1
                 \/ array[mid + 1] < key /\ i \in mid + 1 .. top
      <3>1. i < mid \/ i = mid \/ i > mid
        BY <2>3
      <3>2. i < mid => i \in bot .. mid - 1
        BY <2>3
      <3>3. i > mid => i \in mid + 1 .. top
        BY <2>3
      <3> QED BY <2>3, <2>5, <2>6, <3>1, <3>2, <3>3
    <2>7. bot .. mid - 1 \subseteq bot .. top /\ mid + 1 .. top \subseteq bot .. top
      BY <2>3
    <2> QED BY <2>3, <2>6, <2>7
  <1> DEFINE found == [bot \in 0 .. n |-> [top \in -1 .. n - 1 |-> Found(bot, top)]]
  <1>5. \A bot \in 0 .. n, top \in -1 .. n - 1 : Found(bot, top) \in BOOLEAN /\ (top < bot => ~Found(bot, top)) /\ (~(top < bot) => bot <= top)
    BY <1>2
  <1> HIDE DEF Found, Either
  <1>6. found = Search(found)
    <2>1. ASSUME NEW bot \in 0 .. n, NEW top \in -1 .. n - 1
          PROVE  Found(bot, top) = Turn(found, bot, top)
      <3> DEFINE mid == (top + bot) \div 2
      <3>1. CASE top < bot
        BY <1>5, <3>1, <1>2
      <3>2. CASE bot <= top
        <4>1. /\ mid - 1 \in -1 .. n - 1 /\ mid + 1 \in 0 .. n
              /\ Found(bot, top) <=> Either(mid, Found(bot, mid - 1), Found(mid + 1, top))
          BY <1>4, <3>2
        <4> HIDE DEF mid
        <4>2. found[bot][mid - 1] = Found(bot, mid - 1) /\ found[mid + 1][top] = Found(mid + 1, top)
          BY <4>1
        <4> HIDE DEF found
        <4>3. Turn(found, bot, top) = (bot <= top /\ Either(mid, found[bot][mid - 1], found[mid + 1][top]))
          BY DEF mid
        <4>4. Turn(found, bot, top) = (bot <= top /\ Either(mid, Found(bot, mid - 1), Found(mid + 1, top)))
          BY <4>2, <4>3
        <4> QED BY <1>5, <3>2, <4>1, <4>4
      <3>3. top < bot \/ bot <= top
        BY <1>2
      <3> QED BY <3>1, <3>2, <3>3
    <2> HIDE DEF Turn
    <2> QED BY <2>1
  <1> HIDE DEF found, Search
  <1>7. search = Search(search)
    BY <1>6 DEF search
  <1>8. ASSUME NEW bot \in 0 .. n, NEW top \in -1 .. n - 1, NEW mid, mid = (top + bot) \div 2
        PROVE  search[bot][top] = (bot <= top /\ Either(mid, search[bot][mid - 1], search[mid + 1][top]))
    <2>1. search[bot][top] = Turn(search, bot, top)
      <3> HIDE DEF Turn
      <3> SUFFICES ASSUME NEW g, search = Search(g) PROVE search[bot][top] = Turn(g, bot, top)
        BY <1>7
      <3> QED BY DEF Search
    <2> QED BY <1>8, <2>1
  <1> DEFINE T == {k \in 0 .. n + 1 : \A bot \in 0 .. n, top \in -1 .. n - 1 : top - bot + 1 <= k => (search[bot][top] <=> Found(bot, top))}
  <1>9. 0 \in T
    <2> SUFFICES ASSUME NEW bot \in 0 .. n, NEW top \in -1 .. n - 1, top - bot + 1 <= 0 PROVE search[bot][top] <=> Found(bot, top)
      BY <1>2
    <2>1. top < bot /\ ~(bot <= top)
      BY <1>2
    <2> QED BY <1>5, <1>8, <2>1
  <1>10. ASSUME NEW k \in 0 .. n, k \in T PROVE k + 1 \in T
    <2> SUFFICES ASSUME NEW bot \in 0 .. n, NEW top \in -1 .. n - 1, top - bot + 1 <= k + 1 PROVE search[bot][top] <=> Found(bot, top)
      BY <1>2
    <2> DEFINE mid == (top + bot) \div 2
    <2>0. search[bot][top] = (bot <= top /\ Either(mid, search[bot][mid - 1], search[mid + 1][top]))
      BY <1>8
    <2>1. CASE ~(bot <= top)
      <3>1. top < bot
        BY <2>1, <1>2
      <3> QED BY <1>5, <2>0, <2>1, <3>1
    <2>2. CASE bot <= top
      <3>1. /\ mid \in bot .. top /\ mid - 1 \in -1 .. n - 1 /\ mid + 1 \in 0 .. n
            /\ Found(bot, top) <=> Either(mid, Found(bot, mid - 1), Found(mid + 1, top))
        BY <1>4, <2>2
      <3> HIDE DEF mid
      <3>3. (mid - 1) - bot + 1 <= k /\ top - (mid + 1) + 1 <= k
        BY <3>1, <1>2
      <3>4. (search[bot][mid - 1] <=> Found(bot, mid - 1)) /\ (search[mid + 1][top] <=> Found(mid + 1, top))
        BY <1>10, <3>1, <3>3
      <3>5. Either(mid, search[bot][mid - 1], search[mid + 1][top]) <=> Either(mid, Found(bot, mid - 1), Found(mid + 1, top))
        BY <3>4 DEF Either
      <3> QED BY <2>0, <2>2, <3>1, <3>5
    <2> QED BY <2>1, <2>2
  <1>11. n + 1 \in T
    <2> HIDE DEF T, n
    <2>0. n + 1 \in Nat /\ (n + 1) - 1 = n
      BY <1>2
    <2>1. \A k \in 0 .. (n + 1) - 1 : k \in T => k + 1 \in T
      BY <1>10, <2>0
    <2>2. \A k \in 0 .. n + 1 : k \in T
      BY <1>9, <2>0, <2>1, UpTo
    <2> QED BY <1>2, <2>2
  <1>12. search[0][n - 1] <=> Found(0, n - 1)
    <2>1. 0 \in 0 .. n /\ n - 1 \in -1 .. n - 1 /\ (n - 1) - 0 + 1 <= n + 1
      BY <1>2
    <2> QED BY <1>11, <2>1
  <1>13. Found(0, n - 1) <=> \E i \in 1 .. n : array[i] = key
    <2>1. \A i \in 0 .. n - 1 : i + 1 \in 1 .. n
      BY <1>2
    <2>2. \A i \in 1 .. n : i - 1 \in 0 .. n - 1 /\ (i - 1) + 1 = i
      BY <1>2
    <2> QED BY <2>1, <2>2 DEF Found
  <1> QED BY <1>1, <1>12, <1>13

\* What is in an array
In(array, x) == \E i \in 1 .. Len(array) : array[i] = x

\* An insertion adds the key, keeps the rest, and keeps the order
LEMMA InsertionSorts ==
  ASSUME NEW S, S \subseteq Int, NEW array \in Seq(S), Increasing(array), NEW key \in S, ~In(array, key)
  PROVE  LET new == InsertIntoSortedArray(array, key)
         IN  /\ new \in Seq(S) /\ Len(new) = Len(array) + 1 /\ Increasing(new)
             /\ \A x : In(new, x) <=> x = key \/ In(array, x)
  <1> DEFINE n == Len(array)
  <1> DEFINE Place(i) == (i = 0 \/ array[i] <= key) /\ \A j \in i + 1 .. n : array[j] > key
  <1> DEFINE cur == CHOOSE i \in 0 .. n : Place(i)
  <1> DEFINE new == InsertIntoSortedArray(array, key)
  <1>1. n \in Nat /\ (\A i \in 1 .. n : array[i] \in Int /\ array[i] \in S /\ array[i] # key) /\ key \in Int
    <2>1. \A i \in 1 .. n : array[i] \in S
      OBVIOUS
    <2>2. \A i \in 1 .. n : array[i] # key
      BY DEF In
    <2>3. n \in Nat /\ key \in Int
      OBVIOUS
    <2>4. \A i \in 1 .. n : array[i] \in Int
      BY <2>1
    <2> QED BY <2>1, <2>2, <2>3, <2>4
  <1>2. array \in Seq(Int)
    BY SeqMonotonic
  <1>3. \A i, j \in 1 .. n : i < j => array[i] < array[j]
    BY <1>2, LaterIsGreater
  <1>4. cur \in 0 .. n /\ Place(cur)
    <2> DEFINE T == {i \in 0 .. n : i = 0 \/ array[i] <= key}
    <2>1. T \in SUBSET (0 .. n) /\ 0 \in T
      BY <1>1
    <2>2. PICK i \in T : \A j \in T : j <= i
      <3> HIDE DEF T
      <3> QED BY <1>1, <2>1, Greatest
    <2>3. i \in 0 .. n /\ (i = 0 \/ array[i] <= key)
      BY <2>2
    <2>4. ASSUME NEW j \in i + 1 .. n PROVE array[j] > key
      <3>1. j \in 1 .. n /\ ~(j <= i) /\ j # 0
        BY <2>3
      <3>2. ~(array[j] <= key)
        BY <2>2, <3>1
      <3> QED BY <1>1, <3>1, <3>2
    <2> HIDE DEF T
    <2> QED BY <2>3, <2>4
  <1>5. \A i \in 1 .. cur : array[i] < key
    <2> TAKE i \in 1 .. cur
    <2>1. i \in 1 .. n /\ cur \in 1 .. n /\ cur # 0
      BY <1>1, <1>4
    <2>3. array[cur] <= key /\ array[cur] # key /\ array[cur] \in Int /\ array[i] \in Int
      BY <1>1, <1>4, <2>1
    <2>2. i = cur \/ array[i] < array[cur]
      BY <1>3, <2>1
    <2>4. CASE i = cur
      BY <1>1, <2>3, <2>4
    <2>5. CASE array[i] < array[cur]
      <3> HIDE DEF cur
      <3> QED BY <1>1, <2>3, <2>5
    <2> QED BY <2>2, <2>4, <2>5
  <1>6. new = SubSeq(array, 1, cur) \o <<key>> \o SubSeq(array, cur + 1, n)
    <2>1. new = InsertAt(array, cur + 1, key)
      BY DEF InsertIntoSortedArray
    <2>2. (cur + 1) - 1 = cur
      BY <1>4
    <2> HIDE DEF cur, new
    <2> QED BY <2>1, <2>2 DEF InsertAt
  <1> HIDE DEF cur, new
  <1>7. /\ new \in Seq(S) /\ Len(new) = n + 1
        /\ \A i \in 1 .. n + 1 : new[i] = IF i <= cur THEN array[i] ELSE IF i = cur + 1 THEN key ELSE array[i - 1]
    <2>1. /\ SubSeq(array, 1, cur) \in Seq(S) /\ Len(SubSeq(array, 1, cur)) = cur
          /\ \A i \in 1 .. cur : SubSeq(array, 1, cur)[i] = array[i]
      BY <1>1, <1>4
    <2>2. /\ SubSeq(array, cur + 1, n) \in Seq(S) /\ Len(SubSeq(array, cur + 1, n)) = n - cur
          /\ \A i \in 1 .. n - cur : SubSeq(array, cur + 1, n)[i] = array[cur + i]
      BY <1>1, <1>4
    <2>3. <<key>> \in Seq(S) /\ Len(<<key>>) = 1 /\ <<key>>[1] = key
      OBVIOUS
    <2> DEFINE a == SubSeq(array, 1, cur)
    <2> DEFINE c == SubSeq(array, cur + 1, n)
    <2> DEFINE b == <<key>>
    <2> HIDE DEF a, c, b
    <2>4. a \o b \in Seq(S) /\ Len(a \o b) = cur + 1 /\ \A i \in 1 .. cur + 1 : (a \o b)[i] = IF i <= cur THEN array[i] ELSE key
      BY <1>4, <2>1, <2>3 DEF a, b
    <2> DEFINE e == a \o b
    <2> HIDE DEF e
    <2>5. e \o c \in Seq(S) /\ Len(e \o c) = n + 1
          /\ \A i \in 1 .. n + 1 : (e \o c)[i] = IF i <= cur + 1 THEN e[i] ELSE c[i - (cur + 1)]
      <3>1. e \in Seq(S) /\ c \in Seq(S) /\ Len(e) = cur + 1 /\ Len(c) = n - cur
        BY <2>2, <2>4 DEF e, c
      <3>2. (cur + 1) + (n - cur) = n + 1 /\ \A i \in 1 .. n + 1 : i \in 1 .. (cur + 1) + (n - cur)
        BY <1>1, <1>4
      <3> QED BY <3>1, <3>2
    <2>6. new = e \o c
      BY <1>6 DEF a, b, c, e
    <2>7. \A i \in 1 .. n + 1 : i > cur + 1 => c[i - (cur + 1)] = array[i - 1]
      <3> TAKE i \in 1 .. n + 1
      <3>1. i > cur + 1 => i - (cur + 1) \in 1 .. n - cur /\ cur + (i - (cur + 1)) = i - 1
        BY <1>1, <1>4
      <3> QED BY <2>2, <3>1 DEF c
    <2>8. \A i \in 1 .. n + 1 : i <= cur + 1 => i \in 1 .. cur + 1
      BY <1>4
    <2>9. \A i \in 1 .. n + 1 : (i <= cur => i <= cur + 1) /\ (i <= cur + 1 /\ i # cur + 1 => i <= cur) /\ (~(i <= cur + 1) => i > cur + 1)
      BY <1>1, <1>4
    <2>10. \A i \in 1 .. n + 1 : new[i] = IF i <= cur THEN array[i] ELSE IF i = cur + 1 THEN key ELSE array[i - 1]
      BY <2>4, <2>5, <2>6, <2>7, <2>8, <2>9, <1>4 DEF e
    <2> QED BY <2>5, <2>6, <2>10
  <1>8. Increasing(new)
    <2> SUFFICES ASSUME NEW i \in 2 .. n + 1 PROVE new[i - 1] < new[i]
      BY <1>7 DEF Increasing
    <2>1. i - 1 \in 1 .. n + 1 /\ i \in 1 .. n + 1
      BY <1>1
    <2>2. CASE i <= cur
      <3>1. i \in 1 .. n /\ i - 1 \in 1 .. n /\ i - 1 < i /\ i - 1 <= cur
        BY <1>4, <2>2
      <3> QED BY <1>3, <1>7, <2>1, <2>2, <3>1
    <2>3. CASE i = cur + 1
      <3>1. i - 1 = cur /\ cur \in 1 .. cur /\ ~(i <= cur) /\ i - 1 <= cur
        BY <1>4, <2>3
      <3> QED BY <1>5, <1>7, <2>1, <2>3, <3>1
    <2>4. CASE i = cur + 2
      <3>1. i - 1 = cur + 1 /\ ~(i <= cur) /\ i # cur + 1 /\ ~(i - 1 <= cur) /\ i - 1 \in cur + 1 .. n
        BY <1>1, <1>4, <2>4
      <3>2. array[i - 1] > key /\ array[i - 1] \in Int
        BY <1>1, <1>4, <3>1
      <3> QED BY <1>1, <1>7, <2>1, <3>1, <3>2
    <2>5. CASE i > cur + 2
      <3>1. ~(i <= cur) /\ i # cur + 1 /\ ~(i - 1 <= cur) /\ i - 1 # cur + 1 /\ i - 1 \in 1 .. n /\ (i - 1) - 1 \in 1 .. n /\ (i - 1) - 1 < i - 1
        BY <1>1, <1>4, <2>5
      <3>2. array[(i - 1) - 1] < array[i - 1]
        BY <1>3, <3>1
      <3> QED BY <1>7, <2>1, <3>1, <3>2
    <2>6. i <= cur \/ i = cur + 1 \/ i = cur + 2 \/ i > cur + 2
      BY <1>1, <1>4
    <2> QED BY <2>2, <2>3, <2>4, <2>5, <2>6
  <1>9. ASSUME NEW x PROVE In(new, x) <=> x = key \/ In(array, x)
    <2>1. ASSUME In(new, x) PROVE x = key \/ In(array, x)
      <3>1. PICK i \in 1 .. n + 1 : new[i] = x
        BY <1>7, <2>1 DEF In
      <3>2. CASE i <= cur
        <4>1. i \in 1 .. n
          BY <1>4, <3>2
        <4> QED BY <1>7, <3>1, <3>2, <4>1 DEF In
      <3>3. CASE i = cur + 1
        <4>1. ~(i <= cur)
          BY <1>4, <3>3
        <4> QED BY <1>7, <3>1, <3>3, <4>1
      <3>4. CASE i > cur + 1
        <4>1. ~(i <= cur) /\ i # cur + 1 /\ i - 1 \in 1 .. n
          BY <1>1, <1>4, <3>4
        <4> QED BY <1>7, <3>1, <4>1 DEF In
      <3>5. i <= cur \/ i = cur + 1 \/ i > cur + 1
        BY <1>1, <1>4
      <3> QED BY <3>2, <3>3, <3>4, <3>5
    <2>2. ASSUME x = key PROVE In(new, x)
      <3>1. cur + 1 \in 1 .. n + 1 /\ ~(cur + 1 <= cur)
        BY <1>1, <1>4
      <3>2. new[cur + 1] = key
        BY <1>7, <3>1
      <3> QED BY <1>7, <2>2, <3>1, <3>2 DEF In
    <2>3. ASSUME In(array, x) PROVE In(new, x)
      <3>1. PICK i \in 1 .. n : array[i] = x
        BY <2>3 DEF In
      <3>2. CASE i <= cur
        <4>1. i \in 1 .. n + 1
          BY <1>1
        <4> QED BY <1>7, <3>1, <3>2, <4>1 DEF In
      <3>3. CASE ~(i <= cur)
        <4>1. i + 1 \in 1 .. n + 1 /\ ~(i + 1 <= cur) /\ i + 1 # cur + 1 /\ (i + 1) - 1 = i
          BY <1>1, <1>4, <3>3
        <4>2. new[i + 1] = x
          BY <1>7, <3>1, <4>1
        <4> QED BY <1>7, <4>1, <4>2 DEF In
      <3> QED BY <3>2, <3>3
    <2> QED BY <2>1, <2>2, <2>3
  <1> QED BY <1>7, <1>8, <1>9 DEF new

\* An array in its order
Sorted(S) == {array \in Seq(S) : Increasing(array)}

\* In a sorted array of numbers the search finds what is there
LEMMA SortedNumbers ==
  ASSUME NEW S, S \subseteq Int, NEW array \in Sorted(S), NEW key \in Int
  PROVE  (BexistsIntArray(array, key) <=> In(array, key)) /\ array \in Seq(S) /\ Increasing(array) /\ Len(array) \in Nat
  <1>1. array \in Seq(S) /\ Increasing(array)
    BY DEF Sorted
  <1>2. array \in Seq(Int)
    BY <1>1, SeqMonotonic
  <1> QED BY <1>1, <1>2, SearchFinds DEF In

\* What Inserted adds
LEMMA InsertedIs ==
  ASSUME NEW S, S \subseteq Int, NEW array \in Sorted(S), NEW key \in S
  PROVE  Inserted(array, key) \in Sorted(S) /\ \A x : In(Inserted(array, key), x) <=> x = key \/ In(array, x)
  <1>0. key \in Int
    OBVIOUS
  <1>1. (BexistsIntArray(array, key) <=> In(array, key)) /\ array \in Seq(S) /\ Increasing(array)
    BY <1>0, SortedNumbers
  <1>2. CASE In(array, key)
    <2>1. Inserted(array, key) = array
      BY <1>1, <1>2 DEF Inserted
    <2> QED BY <1>2, <2>1
  <1>3. CASE ~In(array, key)
    <2>1. Inserted(array, key) = InsertIntoSortedArray(array, key)
      BY <1>1, <1>3 DEF Inserted
    <2>2. /\ InsertIntoSortedArray(array, key) \in Seq(S) /\ Increasing(InsertIntoSortedArray(array, key))
          /\ \A x : In(InsertIntoSortedArray(array, key), x) <=> x = key \/ In(array, x)
      BY <1>1, <1>3, InsertionSorts
    <2> QED BY <2>1, <2>2 DEF Sorted
  <1> QED BY <1>2, <1>3

(***************************************************************************)
(* Days one by one.                                                        *)
(***************************************************************************)

FullResults == {"OK", "E_2MANY_FULL"}
FullArrays == {a \in Sorted(Nat) : Len(a) <= MAX_FULL_OMITS}
FullStates == [array : FullArrays, r : FullResults]

\* A day is added, if it is not there, or the array is full
LEMMA OneDay ==
  ASSUME NEW a \in FullStates, NEW x \in Nat
  PROVE  LET new == AddFullOmit(a, x)
         IN  /\ new \in FullStates
             /\ \A z : (In(a.array, z) => In(new.array, z)) /\ (In(new.array, z) => z = x \/ In(a.array, z))
             /\ new.r = "OK" => a.r = "OK" /\ In(new.array, x)
  <1> DEFINE new == AddFullOmit(a, x)
  <1> SUFFICES /\ new \in FullStates
               /\ \A z : (In(a.array, z) => In(new.array, z)) /\ (In(new.array, z) => z = x \/ In(a.array, z))
               /\ new.r = "OK" => a.r = "OK" /\ In(new.array, x)
    OBVIOUS
  <1>1. a = [array |-> a.array, r |-> a.r] /\ a.array \in Sorted(Nat) /\ Len(a.array) <= MAX_FULL_OMITS /\ a.r \in FullResults
    BY DEF FullStates, FullArrays
  <1>2. /\ BexistsIntArray(a.array, x) <=> In(a.array, x)
        /\ a.array \in Seq(Nat) /\ Increasing(a.array) /\ Len(a.array) \in Nat
    BY <1>1, SortedNumbers
  <1>3. CASE a.r # "OK" \/ In(a.array, x)
    <2>1. new = a
      BY <1>2, <1>3 DEF AddFullOmit
    <2> HIDE DEF new
    <2> QED BY <1>3, <2>1
  <1>4. CASE a.r = "OK" /\ ~In(a.array, x) /\ Len(a.array) >= MAX_FULL_OMITS
    <2>1. new = [a EXCEPT !.r = "E_2MANY_FULL"]
      BY <1>2, <1>4 DEF AddFullOmit
    <2>2. new = [array |-> a.array, r |-> "E_2MANY_FULL"]
      BY <1>1, <2>1
    <2> HIDE DEF new
    <2> QED BY <1>1, <2>2 DEF FullStates, FullArrays, FullResults
  <1>5. CASE a.r = "OK" /\ ~In(a.array, x) /\ ~(Len(a.array) >= MAX_FULL_OMITS)
    <2>1. new = [a EXCEPT !.array = InsertIntoSortedArray(a.array, x)]
      BY <1>2, <1>5 DEF AddFullOmit
    <2>2. new = [array |-> InsertIntoSortedArray(a.array, x), r |-> "OK"]
      BY <1>1, <1>5, <2>1
    <2> DEFINE more == InsertIntoSortedArray(a.array, x)
    <2>3. /\ more \in Seq(Nat) /\ Len(more) = Len(a.array) + 1 /\ Increasing(more)
          /\ \A z : In(more, z) <=> z = x \/ In(a.array, z)
      BY <1>2, <1>5, InsertionSorts
    <2> HIDE DEF new, more
    <2>4. new.array = more /\ new.r = "OK"
      BY <2>2 DEF more
    <2>5. Len(more) <= MAX_FULL_OMITS
      BY <1>2, <1>5, <2>3, OmitsAssumption
    <2>6. new \in FullStates
      BY <2>2, <2>3, <2>5 DEF FullStates, FullArrays, FullResults, Sorted, more
    <2> QED BY <1>5, <2>3, <2>4, <2>6
  <1>6. a.r # "OK" \/ In(a.array, x) \/ (a.r = "OK" /\ ~In(a.array, x) /\ Len(a.array) >= MAX_FULL_OMITS)
        \/ (a.r = "OK" /\ ~In(a.array, x) /\ ~(Len(a.array) >= MAX_FULL_OMITS))
    OBVIOUS
  <1> HIDE DEF new
  <1> QED BY <1>3, <1>4, <1>5, <1>6

\* The days from start to end are added, as far as they find room
LEMMA DaysAreAdded ==
  ASSUME NEW full \in FullArrays, NEW start \in Nat, NEW end \in Nat, start <= end
  PROVE  LET a == WithDays(full, start, end)
         IN  /\ a \in FullStates
             /\ \A z : (In(full, z) => In(a.array, z)) /\ (In(a.array, z) => z \in start .. end \/ In(full, z))
             /\ a.r = "OK" => \A z \in start .. end : In(a.array, z)
  <1> DEFINE N == end - start + 1
  <1> DEFINE base == [array |-> full, r |-> "OK"]
  <1> DEFINE next == [n \in 1 .. N |-> [a \in FullStates |-> AddFullOmit(a, start + n - 1)]]
  <1> DEFINE With(h) == [n \in 0 .. N |-> IF n = 0 THEN base ELSE AddFullOmit(h[n - 1], start + n - 1)]
  <1> DEFINE with == CHOOSE h : h = With(h)
  <1>1. N \in Nat /\ \A n \in 1 .. N : start + n - 1 \in Nat /\ n - 1 \in 0 .. N /\ n \in 0 .. N /\ n # 0
    OBVIOUS
  <1>2. WithDays(full, start, end) = with[N]
    BY DEF WithDays
  <1>3. base \in FullStates
    BY DEF FullStates, FullResults
  <1>4. /\ next \in [1 .. N -> [FullStates -> FullStates]]
        /\ \A n \in 1 .. N, a \in FullStates : next[n][a] = AddFullOmit(a, start + n - 1)
    BY <1>1, OneDay
  <1> HIDE DEF base, next, with
  <1>5. PICK f \in [0 .. N -> FullStates] : Recurs(f, N, base, next)
    <2> HIDE DEF N
    <2> QED BY <1>1, <1>3, <1>4, Recursion
  <1>6. f[0] = base /\ \A n \in 1 .. N : f[n] = AddFullOmit(f[n - 1], start + n - 1) /\ f[n - 1] \in FullStates /\ f[n] \in FullStates
    BY <1>1, <1>4, <1>5 DEF Recurs
  <1>7. f = With(f)
    <2>1. \A n \in 0 .. N : n # 0 => n \in 1 .. N
      BY <1>1
    <2>2. \A n \in 0 .. N : f[n] = IF n = 0 THEN base ELSE AddFullOmit(f[n - 1], start + n - 1)
      BY <1>6, <2>1
    <2> QED BY <1>5, <2>2
  <1> HIDE DEF N
  <1>8. with = With(with)
    BY <1>7 DEF with
  <1>9. with[0] = base /\ \A n \in 1 .. N : with[n] = AddFullOmit(with[n - 1], start + n - 1)
    <2> SUFFICES ASSUME NEW g, with = With(g) PROVE with[0] = base /\ \A n \in 1 .. N : with[n] = AddFullOmit(g[n - 1], start + n - 1)
      BY <1>8
    <2>1. 0 \in 0 .. N
      BY <1>1
    <2> QED BY <1>1, <2>1
  <1> DEFINE Means(a, n) ==
        /\ a \in FullStates
        /\ \A z : (In(full, z) => In(a.array, z)) /\ (In(a.array, z) => z \in start .. start + n - 1 \/ In(full, z))
        /\ a.r = "OK" => \A z \in start .. start + n - 1 : In(a.array, z)
  <1> DEFINE T == {n \in 0 .. N : Means(with[n], n)}
  <1>10. 0 \in T
    <2>1. base.array = full /\ 0 \in 0 .. N /\ start .. start + 0 - 1 = {}
      BY <1>1 DEF base
    <2> QED BY <1>3, <1>9, <2>1
  <1>11. ASSUME NEW n \in 0 .. N - 1, n \in T PROVE n + 1 \in T
    <2>1. n + 1 \in 1 .. N /\ (n + 1) - 1 = n /\ start + (n + 1) - 1 = start + n /\ start + n \in Nat /\ n + 1 \in 0 .. N
      BY <1>1
    <2>2. with[n + 1] = AddFullOmit(with[n], start + n)
      BY <1>9, <2>1
    <2>3. Means(with[n], n)
      BY <1>11
    <2>4. \A z : z \in start .. start + (n + 1) - 1 <=> z = start + n \/ z \in start .. start + n - 1
      BY <2>1
    <2> DEFINE old == with[n]
    <2> DEFINE new == with[n + 1]
    <2> HIDE DEF old, new
    <2>5. /\ new \in FullStates
          /\ \A z : (In(old.array, z) => In(new.array, z)) /\ (In(new.array, z) => z = start + n \/ In(old.array, z))
          /\ new.r = "OK" => old.r = "OK" /\ In(new.array, start + n)
      <3>1. old \in FullStates /\ start + n \in Nat
        BY <2>1, <2>3 DEF old
      <3>2. new = AddFullOmit(old, start + n)
        BY <2>2 DEF old, new
      <3> HIDE DEF Means, With, T
      <3> QED BY <3>1, <3>2, OneDay
    <2>6. Means(new, n + 1)
      BY <2>3, <2>4, <2>5 DEF old
    <2> QED BY <2>1, <2>6 DEF new
  <1>12. N \in T
    <2> HIDE DEF T
    <2>1. \A n \in 0 .. N : n \in T
      BY <1>1, <1>10, <1>11, UpTo
    <2> QED BY <1>1, <2>1
  <1>13. Means(with[N], N) /\ start + N - 1 = end
    BY <1>12 DEF N
  <1> QED BY <1>2, <1>13

(***************************************************************************)
(* Pairs of months and days.                                               *)
(***************************************************************************)

Pairs == {p \in Months \X Nat : p[2] \in 1 .. MonthDays[p[1] + 1]}
Code(p) == Syndrome(p[1], p[2])
Codes == {Code(p) : p \in Pairs}

\* The place of a pair among all pairs, those of a leap year
Place(p) == MonthIndex(p[1], 0) + p[2] - 1

\* Year 0 is a leap year, with all the days of the months
LEMMA LeapYearOfPairs ==
  /\ \A m \in Months : DaysInMonth(m, 0) = MonthDays[m + 1]
  /\ DaysInYear(0) = OrdinaryYear + 1 /\ OrdinaryYear \in Nat \ {0}
  <1>1. ASSUME NEW k \in Nat \ {0} PROVE 0 % k = 0
    BY <1>1, QuotientOf
  <1>2. IsLeapYear(0)
    BY <1>1, CalendarAssumption DEF IsLeapYear
  <1> QED BY <1>2, YearLengths DEF DaysInMonth

\* A pair has a month and a day, and its code keeps them apart
LEMMA PairIs ==
  ASSUME NEW p \in Pairs
  PROVE  /\ p = <<p[1], p[2]>> /\ p[1] \in Months /\ p[1] \in Nat /\ p[1] <= 15 /\ p[1] < MonthsInYear
         /\ p[2] \in 1 .. MonthDays[p[1] + 1] /\ p[2] \in 1 .. 31 /\ MonthDays[p[1] + 1] \in Nat /\ MonthsInYear \in Nat
         /\ Code(p) = 32 * p[1] + p[2] /\ Code(p) \in Codes
  <1>1. p \in Months \X Nat /\ p[2] \in 1 .. MonthDays[p[1] + 1]
    BY DEF Pairs
  <1>2. p = <<p[1], p[2]>> /\ p[1] \in Months /\ p[2] \in Nat
    BY <1>1
  <1>3. MonthsInYear \in Nat /\ MonthsInYear <= 16 /\ p[1] + 1 \in 1 .. MonthsInYear /\ p[1] \in Nat
    BY <1>2, MonthLengths, OmitsAssumption DEF Months
  <1>4. MonthDays[p[1] + 1] \in Nat /\ MonthDays[p[1] + 1] < 32
    BY <1>3, MonthLengths, OmitsAssumption
  <1>5. p[2] \in 1 .. 31
    BY <1>1, <1>4
  <1> QED BY <1>1, <1>2, <1>3, <1>4, <1>5 DEF Code, Codes, Syndrome

\* A pair, from its month and day
LEMMA IsPair ==
  ASSUME NEW m \in Months, NEW d \in Nat \ {0}, d <= MonthDays[m + 1]
  PROVE  <<m, d>> \in Pairs
  <1>1. MonthDays[m + 1] \in Nat
    BY MonthLengths DEF Months
  <1> QED BY <1>1 DEF Pairs

\* The places of the pairs of a month follow those of the month before, up to that of the last day of the year
LEMMA PlaceIs ==
  ASSUME NEW p \in Pairs
  PROVE  /\ MonthIndex(p[1], 0) \in Nat /\ Place(p) = MonthIndex(p[1], 0) + p[2] - 1 /\ Place(p) \in 0 .. OrdinaryYear
         /\ p[1] + 1 = MonthsInYear => MonthIndex(p[1], 0) + MonthDays[p[1] + 1] = OrdinaryYear + 1
         /\ p[1] + 1 \in Months => /\ MonthIndex(p[1] + 1, 0) = MonthIndex(p[1], 0) + MonthDays[p[1] + 1]
                                   /\ MonthIndex(p[1] + 1, 0) <= OrdinaryYear
  <1>1. p[1] \in Months /\ p[1] \in Nat /\ p[1] < MonthsInYear /\ MonthsInYear \in Nat /\ p[2] \in 1 .. MonthDays[p[1] + 1] /\ MonthDays[p[1] + 1] \in Nat
    BY PairIs
  <1>2. /\ DaysInMonth(p[1], 0) = MonthDays[p[1] + 1] /\ DaysInYear(0) = OrdinaryYear + 1 /\ OrdinaryYear \in Nat
    BY <1>1, LeapYearOfPairs
  <1>3. MonthIndex(p[1], 0) \in Nat /\ MonthIndex(p[1] + 1, 0) = MonthIndex(p[1], 0) + DaysInMonth(p[1], 0)
    <2>1. p[1] \in 0 .. MonthsInYear
      BY <1>1
    <2> QED BY <1>1, <2>1, MonthIndexIs
  <1>4. MonthIndex(MonthsInYear, 0) = OrdinaryYear + 1
    BY <1>2 DEF DaysInYear
  <1>5. MonthIndex(p[1], 0) + DaysInMonth(p[1], 0) <= OrdinaryYear + 1
    <2>1. MonthsInYear \in 0 .. MonthsInYear
      BY <1>1
    <2> QED BY <1>1, <1>4, <2>1, MonthsInOrder
  <1>6. Place(p) \in 0 .. OrdinaryYear /\ Place(p) = MonthIndex(p[1], 0) + p[2] - 1
    BY <1>1, <1>2, <1>3, <1>5 DEF Place
  <1>7. ASSUME p[1] + 1 = MonthsInYear PROVE MonthIndex(p[1], 0) + MonthDays[p[1] + 1] = OrdinaryYear + 1
    BY <1>2, <1>3, <1>4, <1>7
  <1>8. ASSUME p[1] + 1 \in Months PROVE MonthIndex(p[1] + 1, 0) <= OrdinaryYear
    <2>1. p[1] + 1 \in Months /\ MonthsInYear \in 0 .. MonthsInYear /\ p[1] + 1 < MonthsInYear
      BY <1>1, <1>8 DEF Months
    <2>2. MonthIndex(p[1] + 1, 0) + DaysInMonth(p[1] + 1, 0) <= MonthIndex(MonthsInYear, 0)
      BY <2>1, MonthsInOrder
    <2>3. DaysInMonth(p[1] + 1, 0) \in Nat \ {0} /\ MonthIndex(p[1] + 1, 0) \in Nat
      BY <1>1, <1>2, <1>3, <2>1, MonthLengths
    <2> QED BY <1>2, <1>4, <2>2, <2>3
  <1> QED BY <1>2, <1>3, <1>6, <1>7, <1>8

\* Places and codes have the same order, and no two pairs share one
LEMMA PlacesOrdered ==
  ASSUME NEW p \in Pairs, NEW q \in Pairs
  PROVE  /\ Place(p) <= Place(q) <=> Code(p) <= Code(q)
         /\ Place(p) = Place(q) => p = q
         /\ Code(p) = Code(q) => p = q
  <1> DEFINE Before(a, b) == Place(a) < Place(b) /\ Code(a) < Code(b)
  <1>1. ASSUME NEW a \in Pairs, NEW b \in Pairs, a[1] < b[1] PROVE Before(a, b)
    <2>1. /\ a[1] \in Months /\ a[1] \in Nat /\ b[1] \in Nat /\ a[2] \in 1 .. 31 /\ b[2] \in 1 .. 31 /\ b[1] \in 0 .. MonthsInYear
          /\ a[2] \in 1 .. MonthDays[a[1] + 1] /\ MonthDays[a[1] + 1] \in Nat
          /\ Code(a) = 32 * a[1] + a[2] /\ Code(b) = 32 * b[1] + b[2]
      BY PairIs
    <2>2. MonthIndex(a[1], 0) \in Nat /\ Place(a) = MonthIndex(a[1], 0) + a[2] - 1 /\ MonthIndex(b[1], 0) \in Nat /\ Place(b) = MonthIndex(b[1], 0) + b[2] - 1
      BY PlaceIs
    <2>3. MonthIndex(a[1], 0) + MonthDays[a[1] + 1] <= MonthIndex(b[1], 0)
      BY <1>1, <2>1, MonthsInOrder, LeapYearOfPairs
    <2>4. Place(a) < Place(b)
      BY <2>1, <2>2, <2>3
    <2>5. Code(a) < Code(b)
      BY <1>1, <2>1
    <2> QED BY <2>4, <2>5
  <1>2. /\ p[1] \in Nat /\ q[1] \in Nat /\ p[2] \in Nat /\ q[2] \in Nat /\ p = <<p[1], p[2]>> /\ q = <<q[1], q[2]>>
        /\ Code(p) = 32 * p[1] + p[2] /\ Code(q) = 32 * q[1] + q[2]
    BY PairIs
  <1>3. /\ MonthIndex(p[1], 0) \in Nat /\ Place(p) = MonthIndex(p[1], 0) + p[2] - 1
        /\ MonthIndex(q[1], 0) \in Nat /\ Place(q) = MonthIndex(q[1], 0) + q[2] - 1
    BY PlaceIs
  <1>4. CASE p[1] < q[1]
    <2>1. Before(p, q)
      BY <1>1, <1>4
    <2> QED BY <1>2, <1>3, <2>1
  <1>5. CASE q[1] < p[1]
    <2>1. Before(q, p)
      BY <1>1, <1>5
    <2> QED BY <1>2, <1>3, <2>1
  <1>6. CASE p[1] = q[1]
    <2>1. (Place(p) <= Place(q) <=> p[2] <= q[2]) /\ (Place(p) = Place(q) => p[2] = q[2])
      BY <1>2, <1>3, <1>6
    <2>2. (Code(p) <= Code(q) <=> p[2] <= q[2]) /\ (Code(p) = Code(q) => p[2] = q[2])
      BY <1>2, <1>6
    <2> QED BY <1>2, <1>6, <2>1, <2>2
  <1> QED BY <1>2, <1>4, <1>5, <1>6

\* The next pair has the next place
LEMMA NextPlace ==
  ASSUME NEW p \in Pairs
  PROVE  NextPair(p) \in Pairs /\ Place(NextPair(p)) = IF Place(p) = OrdinaryYear THEN 0 ELSE Place(p) + 1
  <1>1. /\ p[1] \in Months /\ p[1] \in Nat /\ p[1] < MonthsInYear /\ MonthsInYear \in Nat
        /\ p[2] \in 1 .. MonthDays[p[1] + 1] /\ MonthDays[p[1] + 1] \in Nat
    BY PairIs
  <1>2. /\ MonthIndex(p[1], 0) \in Nat /\ Place(p) = MonthIndex(p[1], 0) + p[2] - 1 /\ Place(p) \in 0 .. OrdinaryYear
        /\ p[1] + 1 = MonthsInYear => MonthIndex(p[1], 0) + MonthDays[p[1] + 1] = OrdinaryYear + 1
        /\ p[1] + 1 \in Months => /\ MonthIndex(p[1] + 1, 0) = MonthIndex(p[1], 0) + MonthDays[p[1] + 1]
                                  /\ MonthIndex(p[1] + 1, 0) <= OrdinaryYear
    BY PlaceIs
  <1>3. OrdinaryYear \in Nat \ {0}
    BY LeapYearOfPairs
  <1>4. CASE p[2] < MonthDays[p[1] + 1]
    <2>1. NextPair(p) = <<p[1], p[2] + 1>>
      BY <1>4 DEF NextPair
    <2>2. <<p[1], p[2] + 1>> \in Pairs
      <3>1. p[2] + 1 \in Nat \ {0} /\ p[2] + 1 <= MonthDays[p[1] + 1]
        BY <1>1, <1>4
      <3> QED BY <1>1, <3>1, IsPair
    <2>3. Place(NextPair(p)) = MonthIndex(p[1], 0) + (p[2] + 1) - 1 /\ Place(NextPair(p)) \in 0 .. OrdinaryYear
      BY <2>1, <2>2, PlaceIs
    <2> QED BY <1>1, <1>2, <1>3, <2>1, <2>2, <2>3
  <1>5. CASE ~(p[2] < MonthDays[p[1] + 1]) /\ p[1] + 1 > MonthsInYear - 1
    <2>1. NextPair(p) = <<0, 1>>
      BY <1>5 DEF NextPair
    <2>2. p[1] + 1 = MonthsInYear /\ p[2] = MonthDays[p[1] + 1] /\ 0 \in Months
      BY <1>1, <1>5 DEF Months
    <2>3. 1 <= MonthDays[0 + 1] /\ 1 \in Nat \ {0}
      BY <2>2, MonthLengths DEF Months
    <2>4. <<0, 1>> \in Pairs
      BY <2>2, <2>3, IsPair
    <2>5. MonthIndex(0, 0) = 0
      BY MonthIndexIs
    <2>6. Place(<<0, 1>>) = 0
      BY <2>5 DEF Place
    <2>7. Place(p) = OrdinaryYear
      BY <1>1, <1>2, <1>3, <2>2
    <2> QED BY <2>1, <2>4, <2>6, <2>7
  <1>6. CASE ~(p[2] < MonthDays[p[1] + 1]) /\ ~(p[1] + 1 > MonthsInYear - 1)
    <2>1. NextPair(p) = <<p[1] + 1, 1>>
      BY <1>6 DEF NextPair
    <2>2. p[1] + 1 \in Months /\ p[2] = MonthDays[p[1] + 1]
      BY <1>1, <1>6 DEF Months
    <2>3. 1 <= MonthDays[(p[1] + 1) + 1] /\ 1 \in Nat \ {0}
      <3>1. (p[1] + 1) + 1 \in 1 .. MonthsInYear
        BY <1>1, <2>2 DEF Months
      <3> QED BY <3>1, MonthLengths
    <2>4. <<p[1] + 1, 1>> \in Pairs
      BY <2>2, <2>3, IsPair
    <2>5. Place(<<p[1] + 1, 1>>) = MonthIndex(p[1] + 1, 0) + 1 - 1
      BY DEF Place
    <2> QED BY <1>1, <1>2, <1>3, <2>1, <2>2, <2>4, <2>5
  <1> QED BY <1>4, <1>5, <1>6

\* p is one of the pairs from the first to the last, over the end of the year if need be
Between(from, last, p) ==
  IF Place(from) <= Place(last) THEN Place(from) <= Place(p) /\ Place(p) <= Place(last)
  ELSE Place(from) <= Place(p) \/ Place(p) <= Place(last)

PairStates == [array : Sorted(Codes), at : Pairs]

\* Codes are numbers
LEMMA CodesAreNumbers == Codes \subseteq Nat /\ Codes \subseteq Int
  <1>1. \A p \in Pairs : Code(p) \in Nat
    <2> SUFFICES ASSUME NEW p \in Pairs PROVE Code(p) \in Nat
      OBVIOUS
    <2> QED BY PairIs
  <1> QED BY <1>1 DEF Codes

\* One pair
LEMMA OnePair ==
  ASSUME NEW array \in Sorted(Codes), NEW p \in Pairs
  PROVE  /\ WithPair(array, p) \in PairStates /\ WithPair(array, p).at = p
         /\ \A c : In(WithPair(array, p).array, c) <=> c = Code(p) \/ In(array, c)
  <1>1. Code(p) \in Codes /\ Code(p) = Syndrome(p[1], p[2])
    BY PairIs DEF Code
  <1>2. Inserted(array, Code(p)) \in Sorted(Codes) /\ \A c : In(Inserted(array, Code(p)), c) <=> c = Code(p) \/ In(array, c)
    BY <1>1, CodesAreNumbers, InsertedIs
  <1> QED BY <1>1, <1>2 DEF WithPair, PairStates

\* The pairs from the first to the last are added
LEMMA PairsAreAdded ==
  ASSUME NEW part \in Sorted(Codes), NEW from \in Pairs, NEW last \in Pairs
  PROVE  /\ WithPairs(part, from, last) \in Sorted(Codes)
         /\ \A c : In(WithPairs(part, from, last), c) <=> In(part, c) \/ \E p \in Pairs : c = Code(p) /\ Between(from, last, p)
  <1> DEFINE N == OrdinaryYear + 1
  <1> DEFINE base == WithPair(part, from)
  <1> DEFINE next == [n \in 1 .. N |-> [a \in PairStates |-> AddPair(a, last)]]
  <1> DEFINE With(h) == [n \in 0 .. N |-> IF n = 0 THEN base ELSE AddPair(h[n - 1], last)]
  <1> DEFINE with == CHOOSE h : h = With(h)
  <1>1. N \in Nat /\ (\A n \in 1 .. N : n - 1 \in 0 .. N /\ n \in 0 .. N /\ n # 0) /\ OrdinaryYear \in Nat
    BY LeapYearOfPairs
  <1>2. WithPairs(part, from, last) = with[N].array
    BY DEF WithPairs
  <1>3. base \in PairStates /\ base.at = from /\ \A c : In(base.array, c) <=> c = Code(from) \/ In(part, c)
    BY OnePair
  <1>4. ASSUME NEW a \in PairStates
        PROVE  AddPair(a, last) \in PairStates /\ a.at \in Pairs /\ a.array \in Sorted(Codes)
    BY NextPlace, OnePair DEF AddPair, PairStates
  <1>5. /\ next \in [1 .. N -> [PairStates -> PairStates]]
        /\ \A n \in 1 .. N, a \in PairStates : next[n][a] = AddPair(a, last)
    BY <1>4
  <1> HIDE DEF base, next, with
  <1>6. PICK f \in [0 .. N -> PairStates] : Recurs(f, N, base, next)
    <2> HIDE DEF N
    <2> QED BY <1>1, <1>3, <1>5, Recursion
  <1>7. f[0] = base /\ \A n \in 1 .. N : f[n] = AddPair(f[n - 1], last) /\ f[n - 1] \in PairStates /\ f[n] \in PairStates
    BY <1>1, <1>5, <1>6 DEF Recurs
  <1>8. f = With(f)
    <2>1. \A n \in 0 .. N : n # 0 => n \in 1 .. N
      BY <1>1
    <2>2. \A n \in 0 .. N : f[n] = IF n = 0 THEN base ELSE AddPair(f[n - 1], last)
      BY <1>7, <2>1
    <2> QED BY <1>6, <2>2
  <1> HIDE DEF N
  <1>9. with = With(with)
    BY <1>8 DEF with
  <1>10. with[0] = base /\ \A n \in 1 .. N : with[n] = AddPair(with[n - 1], last)
    <2> SUFFICES ASSUME NEW g, with = With(g) PROVE with[0] = base /\ \A n \in 1 .. N : with[n] = AddPair(g[n - 1], last)
      BY <1>9
    <2>1. 0 \in 0 .. N
      BY <1>1
    <2> QED BY <1>1, <2>1
  <1> DEFINE i0 == Place(from)
  <1> DEFINE i1 == Place(last)
  <1> DEFINE distance == IF i0 <= i1 THEN i1 - i0 ELSE i1 - i0 + N
  <1> DEFINE walked(n) == IF n <= distance THEN n ELSE distance
  <1> DEFINE Ahead(j) == IF i0 + j < N THEN i0 + j ELSE i0 + j - N
  <1> DEFINE Means(a, n) ==
        /\ a \in PairStates /\ Place(a.at) = Ahead(walked(n))
        /\ \A c : In(a.array, c) <=> In(part, c) \/ \E p \in Pairs : c = Code(p) /\ Between(from, a.at, p)
  <1> DEFINE T == {n \in 0 .. N : Means(with[n], n)}
  <1>11. /\ i0 \in 0 .. N - 1 /\ i1 \in 0 .. N - 1 /\ distance \in 0 .. N - 1 /\ Ahead(distance) = i1
         /\ \A j \in 0 .. N - 1 : Ahead(j) = i1 => j = distance
    <2>1. i0 \in 0 .. N - 1 /\ i1 \in 0 .. N - 1
      BY <1>1, PlaceIs DEF N
    <2> HIDE DEF i0, i1
    <2> QED BY <1>1, <2>1
  <1>12. 0 \in T
    <2>1. walked(0) = 0 /\ Ahead(0) = i0 /\ 0 \in 0 .. N
      BY <1>1, <1>11
    <2>2. ASSUME NEW p \in Pairs PROVE Between(from, from, p) <=> p = from
      <3>1. Place(p) \in Int /\ Place(from) \in Int
        BY PlaceIs
      <3>2. Place(p) = Place(from) => p = from
        BY PlacesOrdered
      <3> QED BY <3>1, <3>2 DEF Between
    <2> HIDE DEF i0, Ahead, walked
    <2>3. Means(base, 0)
      <3>1. \A c : In(base.array, c) <=> In(part, c) \/ \E p \in Pairs : c = Code(p) /\ Between(from, base.at, p)
        BY <1>3, <2>2
      <3>2. Place(base.at) = Ahead(walked(0))
        BY <1>3, <2>1 DEF i0
      <3> QED BY <1>3, <3>1, <3>2
    <2> HIDE DEF Means
    <2> QED BY <1>10, <2>1, <2>3
  <1>13. ASSUME NEW n \in 0 .. N - 1, n \in T PROVE n + 1 \in T
    <2> DEFINE a == with[n]
    <2> DEFINE b == with[n + 1]
    <2>1. n + 1 \in 1 .. N /\ (n + 1) - 1 = n /\ n + 1 \in 0 .. N
      BY <1>1
    <2>2. b = AddPair(a, last)
      BY <1>10, <2>1
    <2>3. Means(a, n)
      BY <1>13
    <2> HIDE DEF a, b
    <2>4. a.at \in Pairs /\ a.array \in Sorted(Codes)
      BY <1>4, <2>3
    <2>5. walked(n) \in 0 .. N - 1
      BY <1>11, <1>1
    <2>6. CASE a.at = last
      <3>1. b = a
        BY <2>2, <2>6 DEF AddPair
      <3>2. Ahead(walked(n)) = i1
        BY <2>3, <2>6
      <3>3. walked(n) = distance
        <4> HIDE DEF walked, Ahead, distance, i1
        <4> QED BY <1>11, <2>5, <3>2
      <3>4. walked(n + 1) = distance
        <4> HIDE DEF distance
        <4> QED BY <1>11, <3>3, <1>1
      <3>5. Means(b, n + 1)
        <4> HIDE DEF walked, Ahead, distance, i1
        <4> QED BY <2>3, <3>1, <3>3, <3>4
      <3> HIDE DEF Means
      <3> QED BY <2>1, <3>5 DEF b
    <2>7. CASE a.at # last
      <3>1. b = WithPair(a.array, NextPair(a.at))
        BY <2>2, <2>7 DEF AddPair
      <3>2. NextPair(a.at) \in Pairs /\ Place(NextPair(a.at)) = IF Place(a.at) = OrdinaryYear THEN 0 ELSE Place(a.at) + 1
        BY <2>4, NextPlace
      <3>3. b \in PairStates /\ b.at = NextPair(a.at) /\ \A c : In(b.array, c) <=> c = Code(b.at) \/ In(a.array, c)
        BY <2>4, <3>1, <3>2, OnePair
      <3>4. Place(a.at) # i1
        BY <2>4, <2>7, PlacesOrdered
      <3>5. walked(n) # distance
        <4> HIDE DEF walked, Ahead, distance, i1
        <4> QED BY <1>11, <2>3, <3>4
      <3>6. n < distance /\ walked(n) = n /\ walked(n + 1) = n + 1 /\ n + 1 \in 0 .. N - 1
        <4> HIDE DEF distance
        <4> QED BY <1>1, <1>11, <3>5
      <3>7. Place(a.at) = Ahead(n)
        <4> HIDE DEF walked, Ahead
        <4> QED BY <2>3, <3>6
      <3>8. Place(b.at) = Ahead(n + 1)
        <4> HIDE DEF i0, walked
        <4> QED BY <1>1, <1>11, <3>2, <3>3, <3>6, <3>7 DEF N
      <3>9. ASSUME NEW p \in Pairs PROVE Between(from, b.at, p) <=> p = b.at \/ Between(from, a.at, p)
        <4>1. Place(p) \in 0 .. N - 1 /\ Place(from) = i0 /\ b.at \in Pairs
          BY PlaceIs, <1>1, <3>2, <3>3 DEF N
        <4>2. Place(p) = Place(b.at) <=> p = b.at
          BY <4>1, PlacesOrdered
        <4> DEFINE j == Place(p)
        <4> HIDE DEF i0, j, walked, distance
        <4>3. (IF i0 <= Ahead(n + 1) THEN i0 <= j /\ j <= Ahead(n + 1) ELSE i0 <= j \/ j <= Ahead(n + 1))
                <=> j = Ahead(n + 1) \/ (IF i0 <= Ahead(n) THEN i0 <= j /\ j <= Ahead(n) ELSE i0 <= j \/ j <= Ahead(n))
          BY <1>1, <1>11, <3>6, <4>1 DEF j
        <4> HIDE DEF Ahead
        <4> QED BY <3>7, <3>8, <4>1, <4>2, <4>3 DEF Between, j
      <3>10. Means(b, n + 1)
        <4> HIDE DEF i0, Ahead, walked
        <4>1. Place(b.at) = Ahead(walked(n + 1))
          BY <3>6, <3>8
        <4>2. \A c : In(b.array, c) <=> In(part, c) \/ \E p \in Pairs : c = Code(p) /\ Between(from, b.at, p)
          <5> TAKE c
          <5>1. In(a.array, c) <=> In(part, c) \/ \E p \in Pairs : c = Code(p) /\ Between(from, a.at, p)
            BY <2>3
          <5>2. b.at \in Pairs
            BY <3>2, <3>3
          <5> QED BY <3>3, <3>9, <5>1, <5>2
        <4> QED BY <3>3, <4>1, <4>2
      <3> HIDE DEF Means
      <3> QED BY <2>1, <3>10 DEF b
    <2> QED BY <2>6, <2>7
  <1>14. N \in T
    <2> HIDE DEF T
    <2>1. \A n \in 0 .. N : n \in T
      BY <1>1, <1>12, <1>13, UpTo
    <2> QED BY <1>1, <2>1
  <1>15. Means(with[N], N)
    BY <1>14
  <1>16. Place(with[N].at) = i1
    <2>1. walked(N) = distance
      <3> HIDE DEF distance
      <3> QED BY <1>1, <1>11
    <2> HIDE DEF walked, Ahead, distance, i1
    <2> QED BY <1>11, <1>15, <2>1
  <1>17. \A p : Between(from, with[N].at, p) <=> Between(from, last, p)
    BY <1>16 DEF Between
  <1>18. with[N].array \in Sorted(Codes)
    <2> HIDE DEF walked, Ahead
    <2> QED BY <1>15 DEF PairStates
  <1> HIDE DEF walked, Ahead
  <1> QED BY <1>2, <1>15, <1>17, <1>18

(***************************************************************************)
(* What an OMIT line is read as.                                           *)
(***************************************************************************)

Years == {y \in Nat : BASE <= y}
ReadAs == {"parsing", "OK", "dump", "E_PARSE_AS_REM", "E_PARSE_ERR", "E_UNKNOWN_TOKEN", "E_WD_TWICE",
           "E_YR_TWICE", "E_MON_TWICE", "E_DAY_TWICE", "E_UNTIL_TWICE"}
Lines == [y : [1 .. 2 -> Years \cup {NO_YR}], m : [1 .. 2 -> Months \cup {NO_MON}], d : [1 .. 2 -> (Nat \ {0}) \cup {NO_DAY}],
          wd : SUBSET WeekDays, n : 1 .. 2, r : ReadAs, first : BOOLEAN]

\* The number of a token is one of its kind
Fits(tok) ==
  /\ tok.type = "T_WkDay" => tok.val \in WeekDays
  /\ tok.type = "T_Year" => tok.val \in Years
  /\ tok.type = "T_Month" => tok.val \in Months
  /\ tok.type = "T_Day" => tok.val \in Nat \ {0}
  /\ tok.type = "T_Date" => tok.val \in Nat

\* The lines of a script have such tokens
LEMMA TokensFit ==
  ASSUME NEW tokens \in OmitLines \cup OtherLines, NEW i \in 1 .. Len(tokens)
  PROVE  Fits(tokens[i])
BY OmitsAssumption DEF Fits, Years

\* A line of which nothing has been read
LEMMA UnparsedIs == Unparsed \in Lines
  <1> DEFINE y == <<NO_YR, NO_YR>>
  <1> DEFINE m == <<NO_MON, NO_MON>>
  <1> DEFINE d == <<NO_DAY, NO_DAY>>
  <1>1. y \in [1 .. 2 -> Years \cup {NO_YR}]
    OBVIOUS
  <1>2. m \in [1 .. 2 -> Months \cup {NO_MON}]
    OBVIOUS
  <1>3. d \in [1 .. 2 -> (Nat \ {0}) \cup {NO_DAY}]
    OBVIOUS
  <1>4. Unparsed = [y |-> y, m |-> m, d |-> d, wd |-> {}, n |-> 1, r |-> "parsing", first |-> TRUE]
    BY DEF Unparsed
  <1>5. {} \in SUBSET WeekDays /\ 1 \in 1 .. 2 /\ "parsing" \in ReadAs /\ TRUE \in BOOLEAN
    BY DEF ReadAs
  <1> HIDE DEF y, m, d
  <1> QED BY <1>1, <1>2, <1>3, <1>4, <1>5 DEF Lines

\* The parts of a line, with one of them changed
LEMMA LineChanged ==
  ASSUME NEW q \in Lines
  PROVE  /\ q.n \in 1 .. 2
         /\ \A e \in ReadAs : Error(q, e) \in Lines
         /\ \A w \in WeekDays : WithWeekday(q, w) \in Lines
         /\ \A n \in 1 .. 2, v \in Years : WithYear(q, n, v) \in Lines
         /\ \A n \in 1 .. 2, v \in Months : WithMonth(q, n, v) \in Lines
         /\ \A n \in 1 .. 2, v \in Nat \ {0} : WithDay(q, n, v) \in Lines
         /\ SeenThrough(q) \in Lines
         /\ [q EXCEPT !.first = FALSE] \in Lines
  <1>1. q.n \in 1 .. 2
    BY DEF Lines
  <1>2. ASSUME NEW e \in ReadAs PROVE Error(q, e) \in Lines
    BY DEF Lines, Error
  <1>3. ASSUME NEW w \in WeekDays PROVE WithWeekday(q, w) \in Lines
    BY DEF Lines, WithWeekday
  <1>4. ASSUME NEW n \in 1 .. 2, NEW v \in Years PROVE WithYear(q, n, v) \in Lines
    BY DEF Lines, WithYear
  <1>5. ASSUME NEW n \in 1 .. 2, NEW v \in Months PROVE WithMonth(q, n, v) \in Lines
    BY DEF Lines, WithMonth
  <1>6. ASSUME NEW n \in 1 .. 2, NEW v \in Nat \ {0} PROVE WithDay(q, n, v) \in Lines
    BY DEF Lines, WithDay
  <1>7. SeenThrough(q) \in Lines
    <2>1. [q EXCEPT !.n = 2] \in Lines
      BY DEF Lines
    <2> QED BY <2>1, <1>2 DEF SeenThrough, ReadAs
  <1>8. [q EXCEPT !.first = FALSE] \in Lines
    BY DEF Lines
  <1> QED BY <1>1, <1>2, <1>3, <1>4, <1>5, <1>6, <1>7, <1>8

\* A whole date is given
LEMMA DateGiven ==
  ASSUME NEW q \in Lines, NEW n \in 1 .. 2, NEW t, IsDate(t.y, t.m, t.d)
  PROVE  GiveDate(q, n, t) \in Lines
  <1>1. t.y \in Years /\ t.m \in Months /\ t.d \in Nat \ {0}
    <2>1. DaysInMonth(t.m, t.y) \in Nat /\ BASE \in Nat
      BY MonthLengths, CalendarAssumption DEF IsDate
    <2> QED BY <2>1 DEF IsDate, Years
  <1>2. WithYear(q, n, t.y) \in Lines
    BY <1>1, LineChanged
  <1>3. WithMonth(WithYear(q, n, t.y), n, t.m) \in Lines
    BY <1>1, <1>2, LineChanged
  <1>4. WithDay(WithMonth(WithYear(q, n, t.y), n, t.m), n, t.d) \in Lines
    BY <1>1, <1>3, LineChanged
  <1> QED BY <1>4, LineChanged DEF GiveDate, ReadAs

\* A token is read
LEMMA TokenRead ==
  ASSUME NEW q \in Lines, NEW tok, Fits(tok)
  PROVE  OmitToken(q, tok) \in Lines
  <1> DEFINE next == OmitTokenOfType(q, q.n, tok.type, tok.val)
  <1>1. q.n \in 1 .. 2 /\ \A e \in ReadAs : Error(q, e) \in Lines
    BY LineChanged
  <1>2. next \in Lines
    <2>1. tok.type = "T_WkDay" => WithWeekday(q, tok.val) \in Lines
      BY LineChanged DEF Fits
    <2>2. tok.type = "T_Date" => GiveDate(q, q.n, FromDSE(tok.val)) \in Lines
      <3> SUFFICES ASSUME tok.type = "T_Date" PROVE GiveDate(q, q.n, FromDSE(tok.val)) \in Lines
        OBVIOUS
      <3>1. IsDate(FromDSE(tok.val).y, FromDSE(tok.val).m, FromDSE(tok.val).d)
        BY DayHasDate DEF Fits
      <3> QED BY <1>1, <3>1, DateGiven
    <2>3. tok.type = "T_Year" => WithYear(q, q.n, tok.val) \in Lines
      BY <1>1, LineChanged DEF Fits
    <2>4. tok.type = "T_Month" => WithMonth(q, q.n, tok.val) \in Lines
      BY <1>1, LineChanged DEF Fits
    <2>5. tok.type = "T_Day" => WithDay(q, q.n, tok.val) \in Lines
      BY <1>1, LineChanged DEF Fits
    <2>6. SeenThrough(q) \in Lines
      BY LineChanged
    <2> QED BY <1>1, <2>1, <2>2, <2>3, <2>4, <2>5, <2>6 DEF OmitTokenOfType, ReadAs
  <1> HIDE DEF next
  <1> QED BY <1>2, LineChanged DEF OmitToken, next

\* ... and so is the line
LEMMA LineRead ==
  ASSUME NEW tokens \in OmitLines \cup OtherLines, Len(tokens) \in Nat
  PROVE  ParsedOmit(tokens) \in Lines
  <1> DEFINE N == Len(tokens)
  <1> DEFINE next == [i \in 1 .. N |-> [q \in Lines |-> OmitToken(q, tokens[i])]]
  <1> DEFINE Read(h) == [i \in 0 .. N |-> IF i = 0 THEN Unparsed ELSE OmitToken(h[i - 1], tokens[i])]
  <1> DEFINE read == CHOOSE h : h = Read(h)
  <1>1. ParsedOmit(tokens) = OmitToken(read[N], [type |-> "T_Empty", val |-> 0])
    BY DEF ParsedOmit
  <1>2. /\ next \in [1 .. N -> [Lines -> Lines]]
        /\ \A i \in 1 .. N, q \in Lines : next[i][q] = OmitToken(q, tokens[i])
    BY TokensFit, TokenRead
  <1> HIDE DEF next, read
  <1>3. N \in Nat /\ \A i \in 1 .. N : i - 1 \in 0 .. N /\ i \in 0 .. N /\ i # 0
    OBVIOUS
  <1>4. PICK f \in [0 .. N -> Lines] : Recurs(f, N, Unparsed, next)
    <2> HIDE DEF N
    <2> QED BY <1>2, <1>3, UnparsedIs, Recursion
  <1>5. f[0] = Unparsed /\ \A i \in 1 .. N : f[i] = OmitToken(f[i - 1], tokens[i])
    BY <1>2, <1>3, <1>4 DEF Recurs
  <1>6. f = Read(f)
    <2>1. \A i \in 0 .. N : i # 0 => i \in 1 .. N
      BY <1>3
    <2>2. \A i \in 0 .. N : f[i] = IF i = 0 THEN Unparsed ELSE OmitToken(f[i - 1], tokens[i])
      BY <1>5, <2>1
    <2> QED BY <1>4, <2>2
  <1> HIDE DEF N
  <1>7. read = Read(read)
    BY <1>6 DEF read
  <1>8. read[0] = Unparsed /\ \A i \in 1 .. N : read[i] = OmitToken(read[i - 1], tokens[i])
    <2> SUFFICES ASSUME NEW g, read = Read(g) PROVE read[0] = Unparsed /\ \A i \in 1 .. N : read[i] = OmitToken(g[i - 1], tokens[i])
      BY <1>7
    <2>1. 0 \in 0 .. N
      BY <1>3
    <2> QED BY <1>3, <2>1
  <1> DEFINE T == {i \in 0 .. N : read[i] \in Lines}
  <1>9. 0 \in T
    BY <1>3, <1>8, UnparsedIs
  <1>10. ASSUME NEW i \in 0 .. N - 1, i \in T PROVE i + 1 \in T
    <2>1. i + 1 \in 1 .. N /\ (i + 1) - 1 = i
      BY <1>3
    <2>2. read[i + 1] = OmitToken(read[i], tokens[i + 1])
      BY <1>8, <2>1
    <2>3. Fits(tokens[i + 1])
      BY <2>1, TokensFit DEF N
    <2> QED BY <1>3, <1>10, <2>1, <2>2, <2>3, TokenRead
  <1>11. N \in T
    <2> HIDE DEF T
    <2>1. \A i \in 0 .. N : i \in T
      BY <1>3, <1>9, <1>10, UpTo
    <2> QED BY <1>3, <2>1
  <1>12. Fits([type |-> "T_Empty", val |-> 0])
    BY DEF Fits
  <1> QED BY <1>1, <1>11, <1>12, TokenRead

(***************************************************************************)
(* What an OMIT line omits.                                                *)
(***************************************************************************)

OmitStates == [full : FullArrays, part : Sorted(Codes), weekdays : (SUBSET WeekDays) \ {WeekDays}]
PairOf(x) == <<FromDSE(x).m, FromDSE(x).d>>

\* A day is omitted by its day of the week, by itself, or by its month and day
LEMMA DayOmittedIs ==
  ASSUME NEW om \in OmitStates, NEW x \in OmitDays
  PROVE  /\ x \in Nat /\ PairOf(x) \in Pairs /\ SyndromeOf[x] = Code(PairOf(x)) /\ Code(PairOf(x)) \in Nat
         /\ IsOmittedBy(om, x) <=> x % DaysInWeek \in om.weekdays \/ In(om.full, x) \/ In(om.part, Code(PairOf(x)))
  <1>1. x \in Nat
    BY DEF OmitDays
  <1>2. PairOf(x) \in Pairs
    <2> DEFINE t == FromDSE(x)
    <2>1. IsDate(t.y, t.m, t.d)
      BY <1>1, DayHasDate
    <2> HIDE DEF t
    <2>2. t.m \in Months /\ t.d \in 1 .. DaysInMonth(t.m, t.y)
      BY <2>1 DEF IsDate
    <2>3. DaysInMonth(t.m, t.y) \in Nat /\ DaysInMonth(t.m, t.y) <= MonthDays[t.m + 1]
      <3>1. t.m \in Int /\ t.m + 1 \in 1 .. MonthsInYear
        BY <2>2, MonthLengths DEF Months
      <3> QED BY <2>2, <3>1, MonthLengths
    <2>4. t.d \in Nat \ {0} /\ t.d <= MonthDays[t.m + 1]
      <3>1. t.m \in Int /\ t.m + 1 \in 1 .. MonthsInYear
        BY <2>2, MonthLengths DEF Months
      <3>2. MonthDays[t.m + 1] \in Nat
        BY <3>1, MonthLengths
      <3> QED BY <2>2, <2>3, <3>2
    <2> QED BY <2>2, <2>4, IsPair DEF PairOf, t
  <1>3. SyndromeOf[x] = Code(PairOf(x)) /\ PairOf(x)[1] = FromDSE(x).m /\ PairOf(x)[2] = FromDSE(x).d
    BY DEF SyndromeOf, Code, PairOf
  <1>4. Code(PairOf(x)) \in Nat
    BY <1>2, PairIs, CodesAreNumbers
  <1>5. /\ om.full \in Sorted(Nat) /\ om.part \in Sorted(Codes)
    BY DEF OmitStates, FullArrays
  <1>6. /\ BexistsIntArray(om.full, x) <=> In(om.full, x)
        /\ BexistsIntArray(om.part, Code(PairOf(x))) <=> In(om.part, Code(PairOf(x)))
    <2>1. Nat \subseteq Int /\ Codes \subseteq Int /\ x \in Int /\ Code(PairOf(x)) \in Int
      BY <1>1, <1>4, CodesAreNumbers
    <2>2. BexistsIntArray(om.full, x) <=> In(om.full, x)
      BY <1>5, <2>1, SortedNumbers
    <2> QED BY <1>5, <2>1, <2>2, SortedNumbers
  <1> QED BY <1>1, <1>2, <1>3, <1>4, <1>6 DEF IsOmittedBy

\* The months of a line are there, and its years both or none
DatesGiven(q) ==
  /\ q.m[1] # NO_MON /\ (q.n = 2 => q.m[2] # NO_MON)
  /\ q.n = 2 => (q.y[1] = NO_YR <=> q.y[2] = NO_YR)

\* What was left out is completed to days of months (the part of DoOmit after its switch)
LEMMA CompletedIs ==
  ASSUME NEW q \in Lines, DatesGiven(q)
  PROVE  LET s == Completed(q)
         IN  /\ s.y[1] = q.y[1] /\ s.m[1] \in Months /\ s.m[2] \in Months /\ s.d[1] \in Nat \ {0} /\ s.d[2] \in Nat \ {0}
             /\ s.y[1] # NO_YR => s.y[1] \in Years /\ s.y[2] \in Years
  <1> DEFINE y == IF q.n = 1 THEN <<q.y[1], q.y[1]>> ELSE q.y
  <1> DEFINE m == IF q.n = 1 THEN <<q.m[1], q.m[1]>> ELSE q.m
  <1> DEFINE last == IF y[2] = NO_YR THEN MonthDays[m[2] + 1] ELSE DaysInMonth(m[2], y[2])
  <1> DEFINE d == IF q.n = 1 /\ q.d[1] # NO_DAY THEN <<q.d[1], q.d[1]>>
                  ELSE <<IF q.d[1] = NO_DAY THEN 1 ELSE q.d[1], IF q.d[2] = NO_DAY THEN last ELSE q.d[2]>>
  <1> DEFINE s == [y |-> y, m |-> m, d |-> d]
  <1>1. /\ q.n \in 1 .. 2 /\ \A i \in 1 .. 2 : /\ q.y[i] \in Years \cup {NO_YR} /\ q.m[i] \in Months \cup {NO_MON}
                                              /\ q.d[i] \in (Nat \ {0}) \cup {NO_DAY}
    BY DEF Lines
  <1>2. y[1] = q.y[1] /\ (y[1] # NO_YR => y[1] \in Years /\ y[2] \in Years)
    BY <1>1 DEF DatesGiven
  <1>3. m[1] \in Months /\ m[2] \in Months
    BY <1>1 DEF DatesGiven
  <1>4. last \in Nat \ {0}
    <2>1. m[2] \in Int /\ m[2] + 1 \in 1 .. MonthsInYear
      BY <1>3, MonthLengths DEF Months
    <2> HIDE DEF y, m
    <2> QED BY <1>3, <2>1, MonthLengths
  <1> HIDE DEF last
  <1>5. d[1] \in Nat \ {0} /\ d[2] \in Nat \ {0}
    BY <1>1, <1>4
  <1>6. Completed(q) = s
    BY DEF Completed, last
  <1> HIDE DEF y, m, d
  <1> QED BY <1>2, <1>3, <1>5, <1>6

\* Days of certain years
LEMMA DaysOmitted ==
  ASSUME NEW om \in OmitStates, NEW start \in Nat, NEW end \in Nat, start <= end, NEW r \in {"OK", "E_PARSE_AS_REM"}
  PROVE  LET new == OmitEveryDay(om, r, WithDays(om.full, start, end))
         IN  /\ new.om \in OmitStates /\ new.r \in {"OK", "E_PARSE_AS_REM", "E_2MANY_FULL"}
             /\ \A x \in OmitDays :
                  /\ IsOmittedBy(om, x) => IsOmittedBy(new.om, x)
                  /\ IsOmittedBy(new.om, x) => IsOmittedBy(om, x) \/ (start <= x /\ x <= end)
                  /\ new.r # "E_2MANY_FULL" /\ start <= x /\ x <= end => IsOmittedBy(new.om, x)
  <1> DEFINE a == WithDays(om.full, start, end)
  <1> DEFINE after == [om EXCEPT !.full = a.array]
  <1> DEFINE new == OmitEveryDay(om, r, a)
  <1>1. /\ om.full \in FullArrays /\ om.part \in Sorted(Codes) /\ om.weekdays \in (SUBSET WeekDays) \ {WeekDays}
    BY DEF OmitStates
  <1>2. /\ a \in FullStates
        /\ \A z : (In(om.full, z) => In(a.array, z)) /\ (In(a.array, z) => z \in start .. end \/ In(om.full, z))
        /\ a.r = "OK" => \A z \in start .. end : In(a.array, z)
    BY <1>1, DaysAreAdded
  <1> HIDE DEF a
  <1>3. new.om = after /\ new.r = IF a.r = "OK" THEN r ELSE a.r
    BY DEF OmitEveryDay
  <1> HIDE DEF new
  <1>4. a.array \in FullArrays /\ a.r \in {"OK", "E_2MANY_FULL"}
    BY <1>2 DEF FullStates, FullResults
  <1>5. after \in OmitStates /\ after.full = a.array /\ after.part = om.part /\ after.weekdays = om.weekdays
    BY <1>4 DEF OmitStates
  <1> HIDE DEF after
  <1>6. ASSUME NEW x \in OmitDays
        PROVE  /\ IsOmittedBy(om, x) => IsOmittedBy(after, x)
               /\ IsOmittedBy(after, x) => IsOmittedBy(om, x) \/ (start <= x /\ x <= end)
               /\ a.r = "OK" /\ start <= x /\ x <= end => IsOmittedBy(after, x)
    <2>1. /\ IsOmittedBy(om, x) <=> x % DaysInWeek \in om.weekdays \/ In(om.full, x) \/ In(om.part, Code(PairOf(x)))
          /\ IsOmittedBy(after, x) <=> x % DaysInWeek \in om.weekdays \/ In(a.array, x) \/ In(om.part, Code(PairOf(x)))
      BY <1>5, DayOmittedIs
    <2>2. x \in Nat /\ (x \in start .. end <=> start <= x /\ x <= end)
      BY DEF OmitDays
    <2> QED BY <1>2, <2>1, <2>2
  <1>7. new.r \in {"OK", "E_PARSE_AS_REM", "E_2MANY_FULL"} /\ (new.r # "E_2MANY_FULL" => a.r = "OK")
    BY <1>3, <1>4
  <1> SUFFICES /\ new.om \in OmitStates /\ new.r \in {"OK", "E_PARSE_AS_REM", "E_2MANY_FULL"}
               /\ \A x \in OmitDays :
                    /\ IsOmittedBy(om, x) => IsOmittedBy(new.om, x)
                    /\ IsOmittedBy(new.om, x) => IsOmittedBy(om, x) \/ (start <= x /\ x <= end)
                    /\ new.r # "E_2MANY_FULL" /\ start <= x /\ x <= end => IsOmittedBy(new.om, x)
    BY DEF new, a
  <1> QED BY <1>3, <1>5, <1>6, <1>7

\* Pairs of months and days, of all years
LEMMA PairsOmitted ==
  ASSUME NEW om \in OmitStates, NEW r, NEW s, <<s.m[1], s.d[1]>> \in Pairs, <<s.m[2], s.d[2]>> \in Pairs
  PROVE  LET new == OmitEveryPair(om, r, s)
             from == Syndrome(s.m[1], s.d[1])
             to == Syndrome(s.m[2], s.d[2])
         IN  /\ new.om \in OmitStates /\ new.r = r
             /\ \A x \in OmitDays :
                  IsOmittedBy(new.om, x) <=> \/ IsOmittedBy(om, x)
                                             \/ IF from <= to THEN from <= SyndromeOf[x] /\ SyndromeOf[x] <= to
                                                ELSE from <= SyndromeOf[x] \/ SyndromeOf[x] <= to
  <1> DEFINE p == <<s.m[1], s.d[1]>>
  <1> DEFINE q == <<s.m[2], s.d[2]>>
  <1> DEFINE part == WithPairs(om.part, p, q)
  <1> DEFINE after == [om EXCEPT !.part = part]
  <1> DEFINE new == OmitEveryPair(om, r, s)
  <1>1. /\ om.full \in FullArrays /\ om.part \in Sorted(Codes) /\ om.weekdays \in (SUBSET WeekDays) \ {WeekDays}
    BY DEF OmitStates
  <1>2. p \in Pairs /\ q \in Pairs /\ Code(p) = Syndrome(s.m[1], s.d[1]) /\ Code(q) = Syndrome(s.m[2], s.d[2])
    BY DEF Code
  <1>3. new.om = after /\ new.r = r
    BY DEF OmitEveryPair
  <1> HIDE DEF new, p, q
  <1>4. /\ part \in Sorted(Codes)
        /\ \A c : In(part, c) <=> In(om.part, c) \/ \E z \in Pairs : c = Code(z) /\ Between(p, q, z)
    BY <1>1, <1>2, PairsAreAdded
  <1> HIDE DEF part
  <1>5. after \in OmitStates /\ after.full = om.full /\ after.part = part /\ after.weekdays = om.weekdays
    BY <1>4 DEF OmitStates
  <1> HIDE DEF after
  <1>6. ASSUME NEW z \in Pairs
        PROVE  /\ Between(p, q, z) <=> IF Code(p) <= Code(q) THEN Code(p) <= Code(z) /\ Code(z) <= Code(q)
                                       ELSE Code(p) <= Code(z) \/ Code(z) <= Code(q)
               /\ In(part, Code(z)) <=> In(om.part, Code(z)) \/ Between(p, q, z)
    <2>1. /\ Place(p) <= Place(q) <=> Code(p) <= Code(q)
          /\ Place(p) <= Place(z) <=> Code(p) <= Code(z)
          /\ Place(z) <= Place(q) <=> Code(z) <= Code(q)
      BY <1>2, PlacesOrdered
    <2>2. \A w \in Pairs : Code(z) = Code(w) => z = w
      BY PlacesOrdered
    <2> QED BY <1>4, <2>1, <2>2 DEF Between
  <1>7. ASSUME NEW x \in OmitDays
        PROVE  IsOmittedBy(after, x) <=> \/ IsOmittedBy(om, x)
                                         \/ IF Code(p) <= Code(q) THEN Code(p) <= SyndromeOf[x] /\ SyndromeOf[x] <= Code(q)
                                            ELSE Code(p) <= SyndromeOf[x] \/ SyndromeOf[x] <= Code(q)
    <2>1. /\ IsOmittedBy(om, x) <=> x % DaysInWeek \in om.weekdays \/ In(om.full, x) \/ In(om.part, Code(PairOf(x)))
          /\ IsOmittedBy(after, x) <=> x % DaysInWeek \in om.weekdays \/ In(om.full, x) \/ In(part, Code(PairOf(x)))
          /\ PairOf(x) \in Pairs /\ SyndromeOf[x] = Code(PairOf(x))
      BY <1>5, DayOmittedIs
    <2> QED BY <1>6, <2>1
  <1> SUFFICES /\ new.om \in OmitStates /\ new.r = r
               /\ \A x \in OmitDays :
                    IsOmittedBy(new.om, x) <=> \/ IsOmittedBy(om, x)
                                               \/ IF Code(p) <= Code(q) THEN Code(p) <= SyndromeOf[x] /\ SyndromeOf[x] <= Code(q)
                                                  ELSE Code(p) <= SyndromeOf[x] \/ SyndromeOf[x] <= Code(q)
    BY <1>2 DEF new
  <1> QED BY <1>3, <1>5, <1>7

\* Days of the week
LEMMA WeekdaysOmitted ==
  ASSUME NEW om \in OmitStates, NEW wd \in SUBSET WeekDays, om.weekdays \cup wd # WeekDays
  PROVE  LET after == [om EXCEPT !.weekdays = @ \cup wd]
         IN  /\ after \in OmitStates
             /\ \A x \in OmitDays : IsOmittedBy(after, x) <=> IsOmittedBy(om, x) \/ x % DaysInWeek \in wd
  <1> DEFINE after == [om EXCEPT !.weekdays = @ \cup wd]
  <1>1. after \in OmitStates /\ after.full = om.full /\ after.part = om.part /\ after.weekdays = om.weekdays \cup wd
    BY DEF OmitStates
  <1> HIDE DEF after
  <1>2. ASSUME NEW x \in OmitDays PROVE IsOmittedBy(after, x) <=> IsOmittedBy(om, x) \/ x % DaysInWeek \in wd
    <2>1. /\ IsOmittedBy(om, x) <=> x % DaysInWeek \in om.weekdays \/ In(om.full, x) \/ In(om.part, Code(PairOf(x)))
          /\ IsOmittedBy(after, x) <=> x % DaysInWeek \in om.weekdays \cup wd \/ In(om.full, x) \/ In(om.part, Code(PairOf(x)))
      BY <1>1, DayOmittedIs
    <2> QED BY <2>1
  <1> QED BY <1>1, <1>2 DEF after

\* A refused line omits nothing
LEMMA RefusedMeans ==
  ASSUME NEW om \in OmitStates, NEW q, NEW s, NEW e, e \notin {"OK", "E_PARSE_AS_REM"} \/ q.r = "dump"
  PROVE  Refused(om, e).om \in OmitStates /\ LineMeans(OmittedDays(om), q, s, Refused(om, e))
  <1>1. Refused(om, e).om = om /\ Refused(om, e).r = e /\ om.weekdays # WeekDays
    BY DEF Refused, OmitStates
  <1> QED BY <1>1 DEF LineMeans, AsMeant, OmittedDays

\* A line of days
LEMMA DatesMean ==
  ASSUME NEW om \in OmitStates, NEW q \in Lines, q.r \in {"OK", "E_PARSE_AS_REM"}, q.wd = {},
         NEW s, s = Completed(q)
  PROVE  LET after == OmitDates(om, q, s, StartOf(s), EndOf(s))
         IN  after.om \in OmitStates /\ LineMeans(OmittedDays(om), q, s, after)
  <1> DEFINE start == StartOf(s)
  <1> DEFINE end == EndOf(s)
  <1> DEFINE after == OmitDates(om, q, s, start, end)
  <1> HIDE DEF start, end
  <1> SUFFICES after.om \in OmitStates /\ LineMeans(OmittedDays(om), q, s, after)
    BY DEF start, end
  <1>1. /\ Refused(om, "E_SPEC_MON").om \in OmitStates /\ LineMeans(OmittedDays(om), q, s, Refused(om, "E_SPEC_MON"))
        /\ Refused(om, "E_BAD_DATE").om \in OmitStates /\ LineMeans(OmittedDays(om), q, s, Refused(om, "E_BAD_DATE"))
    BY RefusedMeans
  <1>2. CASE q.m[1] = NO_MON \/ (q.n = 2 /\ q.m[2] = NO_MON)
    BY <1>1, <1>2 DEF OmitDates
  <1>3. CASE /\ ~(q.m[1] = NO_MON \/ (q.n = 2 /\ q.m[2] = NO_MON))
             /\ q.n = 2 /\ ((q.y[1] = NO_YR) # (q.y[2] = NO_YR))
    BY <1>1, <1>3 DEF OmitDates
  <1>4. CASE /\ ~(q.m[1] = NO_MON \/ (q.n = 2 /\ q.m[2] = NO_MON))
             /\ ~(q.n = 2 /\ ((q.y[1] = NO_YR) # (q.y[2] = NO_YR)))
    <2>1. DatesGiven(q)
      BY <1>4 DEF DatesGiven
    <2>2. /\ s.y[1] = q.y[1] /\ s.m[1] \in Months /\ s.m[2] \in Months /\ s.d[1] \in Nat \ {0} /\ s.d[2] \in Nat \ {0}
          /\ s.y[1] # NO_YR => s.y[1] \in Years /\ s.y[2] \in Years
      BY <2>1, CompletedIs
    <2>3. CASE s.y[1] = NO_YR
      <3>1. CASE \E i \in 1 .. 2 : s.d[i] > MonthDays[s.m[i] + 1]
        <4>1. after = Refused(om, "E_BAD_DATE")
          BY <1>4, <2>3, <3>1 DEF OmitDates
        <4> QED BY <1>1, <4>1
      <3>2. CASE \A i \in 1 .. 2 : ~(s.d[i] > MonthDays[s.m[i] + 1])
        <4>1. after = OmitEveryPair(om, q.r, s)
          BY <1>4, <2>3, <3>2 DEF OmitDates
        <4>2. \A i \in 1 .. 2 : s.d[i] <= MonthDays[s.m[i] + 1]
          <5> SUFFICES ASSUME NEW i \in 1 .. 2 PROVE s.d[i] <= MonthDays[s.m[i] + 1]
            OBVIOUS
          <5>1. s.m[i] \in Int /\ s.m[i] + 1 \in 1 .. MonthsInYear
            BY <2>2, MonthLengths DEF Months
          <5>2. MonthDays[s.m[i] + 1] \in Nat /\ s.d[i] \in Nat
            BY <2>2, <5>1, MonthLengths
          <5> QED BY <3>2, <5>2
        <4>3. <<s.m[1], s.d[1]>> \in Pairs /\ <<s.m[2], s.d[2]>> \in Pairs
          BY <2>2, <4>2, IsPair
        <4> DEFINE from == Syndrome(s.m[1], s.d[1])
        <4> DEFINE to == Syndrome(s.m[2], s.d[2])
        <4>4. /\ after.om \in OmitStates /\ after.r = q.r
              /\ \A x \in OmitDays :
                   IsOmittedBy(after.om, x) <=> \/ IsOmittedBy(om, x)
                                                \/ IF from <= to THEN from <= SyndromeOf[x] /\ SyndromeOf[x] <= to
                                                   ELSE from <= SyndromeOf[x] \/ SyndromeOf[x] <= to
          BY <4>1, <4>3, PairsOmitted
        <4> HIDE DEF after
        <4>5. \A x \in OmitDays :
                Meant(q, s, x) <=> IF from <= to THEN from <= SyndromeOf[x] /\ SyndromeOf[x] <= to
                                   ELSE from <= SyndromeOf[x] \/ SyndromeOf[x] <= to
          BY <2>2, <2>3 DEF Meant
        <4> HIDE DEF from, to
        <4>6. \A x \in OmitDays : IsOmittedBy(after.om, x) <=> IsOmittedBy(om, x) \/ Meant(q, s, x)
          BY <4>4, <4>5
        <4>7. q.r # "dump" /\ after.r \in {"OK", "E_PARSE_AS_REM"} /\ after.om.weekdays # WeekDays
          BY <4>4 DEF OmitStates
        <4> QED BY <4>4, <4>6, <4>7 DEF LineMeans, AsMeant, OmittedDays
      <3> QED BY <3>1, <3>2
    <2>4. CASE s.y[1] # NO_YR
      <3>1. CASE \E i \in 1 .. 2 : s.d[i] > DaysInMonth(s.m[i], s.y[i])
        <4>1. after = Refused(om, "E_BAD_DATE")
          BY <1>4, <2>4, <3>1 DEF OmitDates
        <4> QED BY <1>1, <4>1
      <3>2. CASE (\A i \in 1 .. 2 : ~(s.d[i] > DaysInMonth(s.m[i], s.y[i]))) /\ end < start
        <4>1. after = Refused(om, "E_BAD_DATE")
          BY <1>4, <2>4, <3>2 DEF OmitDates
        <4> QED BY <1>1, <4>1
      <3>3. CASE (\A i \in 1 .. 2 : ~(s.d[i] > DaysInMonth(s.m[i], s.y[i]))) /\ ~(end < start)
        <4>1. after = OmitEveryDay(om, q.r, WithDays(om.full, start, end))
          BY <1>4, <2>4, <3>3 DEF OmitDates
        <4>2. ASSUME NEW i \in 1 .. 2 PROVE IsDate(s.y[i], s.m[i], s.d[i])
          <5>1. DaysInMonth(s.m[i], s.y[i]) \in Nat /\ s.d[i] \in Nat \ {0} /\ s.m[i] \in Months /\ s.y[i] \in Years
            BY <2>2, <2>4, MonthLengths
          <5>2. s.d[i] \in 1 .. DaysInMonth(s.m[i], s.y[i])
            BY <3>3, <5>1
          <5>3. BASE \in Nat /\ s.y[i] \in Int /\ s.y[i] >= BASE
            BY <5>1, CalendarAssumption DEF Years
          <5> QED BY <5>1, <5>2, <5>3 DEF IsDate
        <4>3. start \in Nat /\ end \in Nat
          <5>1. IsDate(s.y[1], s.m[1], s.d[1]) /\ IsDate(s.y[2], s.m[2], s.d[2])
            BY <4>2
          <5> QED BY <5>1, DateHasDay DEF start, end, StartOf, EndOf
        <4>4. start <= end
          BY <3>3, <4>3
        <4>5. /\ after.om \in OmitStates /\ after.r \in {"OK", "E_PARSE_AS_REM", "E_2MANY_FULL"}
              /\ \A x \in OmitDays :
                   /\ IsOmittedBy(om, x) => IsOmittedBy(after.om, x)
                   /\ IsOmittedBy(after.om, x) => IsOmittedBy(om, x) \/ (start <= x /\ x <= end)
                   /\ after.r # "E_2MANY_FULL" /\ start <= x /\ x <= end => IsOmittedBy(after.om, x)
          BY <4>1, <4>3, <4>4, DaysOmitted
        <4> HIDE DEF after
        <4>6. \A x \in OmitDays : Meant(q, s, x) <=> start <= x /\ x <= end
          BY <2>2, <2>4 DEF Meant, start, end
        <4>7. q.r # "dump" /\ after.om.weekdays # WeekDays
          BY <4>5 DEF OmitStates
        <4>8. CASE after.r = "E_2MANY_FULL"
          BY <4>5, <4>6, <4>7, <4>8 DEF LineMeans, AsMeant, OmittedDays
        <4>9. CASE after.r # "E_2MANY_FULL"
          <5>1. after.r \in {"OK", "E_PARSE_AS_REM"}
            BY <4>5, <4>9
          <5>2. \A x \in OmitDays : IsOmittedBy(after.om, x) <=> IsOmittedBy(om, x) \/ Meant(q, s, x)
            BY <4>5, <4>6, <4>9
          <5> QED BY <4>5, <4>7, <5>1, <5>2 DEF LineMeans, AsMeant, OmittedDays
        <4> QED BY <4>8, <4>9
      <3> QED BY <3>1, <3>2, <3>3
    <2> QED BY <2>3, <2>4
  <1> QED BY <1>2, <1>3, <1>4

\* A line of days of the week
LEMMA WeekdaysMean ==
  ASSUME NEW om \in OmitStates, NEW q \in Lines, q.r \in {"OK", "E_PARSE_AS_REM"}, q.wd # {}, NEW s
  PROVE  OmitWeekdays(om, q).om \in OmitStates /\ LineMeans(OmittedDays(om), q, s, OmitWeekdays(om, q))
  <1> DEFINE after == OmitWeekdays(om, q)
  <1>1. /\ Refused(om, "E_PARSE_ERR").om \in OmitStates /\ LineMeans(OmittedDays(om), q, s, Refused(om, "E_PARSE_ERR"))
        /\ Refused(om, "E_2MANY_LOCALOMIT").om \in OmitStates /\ LineMeans(OmittedDays(om), q, s, Refused(om, "E_2MANY_LOCALOMIT"))
    BY RefusedMeans
  <1>2. CASE q.y[1] # NO_YR \/ q.m[1] # NO_MON \/ q.d[1] # NO_DAY
    BY <1>1, <1>2 DEF OmitWeekdays
  <1>3. CASE ~(q.y[1] # NO_YR \/ q.m[1] # NO_MON \/ q.d[1] # NO_DAY) /\ om.weekdays \cup q.wd = WeekDays
    BY <1>1, <1>3 DEF OmitWeekdays
  <1>4. CASE ~(q.y[1] # NO_YR \/ q.m[1] # NO_MON \/ q.d[1] # NO_DAY) /\ om.weekdays \cup q.wd # WeekDays
    <2> DEFINE more == [om EXCEPT !.weekdays = @ \cup q.wd]
    <2>1. after.om = more /\ after.r = q.r
      BY <1>4 DEF OmitWeekdays
    <2>2. q.wd \in SUBSET WeekDays
      BY DEF Lines
    <2>3. more \in OmitStates /\ \A x \in OmitDays : IsOmittedBy(more, x) <=> IsOmittedBy(om, x) \/ x % DaysInWeek \in q.wd
      BY <1>4, <2>2, WeekdaysOmitted
    <2> HIDE DEF more, after
    <2>4. \A x \in OmitDays : IsOmittedBy(after.om, x) <=> IsOmittedBy(om, x) \/ Meant(q, s, x)
      BY <2>1, <2>3 DEF Meant
    <2>5. q.r # "dump" /\ after.r \in {"OK", "E_PARSE_AS_REM"} /\ after.om.weekdays # WeekDays
      BY <2>1, <2>3 DEF OmitStates
    <2>6. after.om \in OmitStates /\ LineMeans(OmittedDays(om), q, s, after)
      BY <2>1, <2>3, <2>4, <2>5 DEF LineMeans, AsMeant, OmittedDays
    <2> QED BY <2>6 DEF after
  <1> QED BY <1>2, <1>3, <1>4

\* Whatever a line is read as, it omits what it means
LEMMA LinesMean ==
  ASSUME NEW om \in OmitStates, NEW q \in Lines
  PROVE  OmitAsRead(om, q).om \in OmitStates /\ MeansAsRead(om, OmittedDays(om), q)
  <1> DEFINE s == Completed(q)
  <1> DEFINE after == OmitAsRead(om, q)
  <1> SUFFICES after.om \in OmitStates /\ LineMeans(OmittedDays(om), q, s, after)
    BY DEF MeansAsRead
  <1> HIDE DEF s
  <1>1. CASE q.r \notin {"OK", "E_PARSE_AS_REM"}
    <2> DEFINE e == IF q.r = "dump" THEN "OK" ELSE q.r
    <2>1. e \notin {"OK", "E_PARSE_AS_REM"} \/ q.r = "dump"
      BY <1>1
    <2>2. after = Refused(om, e)
      BY <1>1 DEF OmitAsRead
    <2> HIDE DEF after, e
    <2>3. Refused(om, e).om \in OmitStates /\ LineMeans(OmittedDays(om), q, s, Refused(om, e))
      BY <2>1, RefusedMeans
    <2> QED BY <2>2, <2>3
  <1>2. CASE q.r \in {"OK", "E_PARSE_AS_REM"} /\ q.wd # {}
    <2>1. after = OmitWeekdays(om, q)
      BY <1>2 DEF OmitAsRead
    <2> HIDE DEF after
    <2> QED BY <1>2, <2>1, WeekdaysMean
  <1>3. CASE q.r \in {"OK", "E_PARSE_AS_REM"} /\ q.wd = {}
    <2>1. after = OmitDates(om, q, s, StartOf(s), EndOf(s))
      BY <1>3 DEF OmitAsRead, s
    <2> HIDE DEF after
    <2>2. s = Completed(q)
      BY DEF s
    <2> QED BY <1>3, <2>1, <2>2, DatesMean
  <1> QED BY <1>1, <1>2, <1>3

(***************************************************************************)
(* What is in force, and what is saved: arrays in their order.             *)
(***************************************************************************)
ArraysInv ==
  /\ OMITS \in OmitStates /\ Sequence(SavedOmitContexts)
  /\ \A i \in 1 .. Len(SavedOmitContexts) : SavedOmitContexts[i] \in OmitStates

\* At the start, and after CLEAR, the arrays are empty
LEMMA NothingIsSorted ==
  /\ << >> \in FullArrays /\ << >> \in Sorted(Codes) /\ NoOmits \in OmitStates
  /\ [full |-> << >>, part |-> << >>, weekdays |-> {}] \in OmitStates
  <1>1. \A S : << >> \in Sorted(S)
    <2>1. \A S : << >> \in Seq(S)
      OBVIOUS
    <2>2. Len(<< >>) = 0
      OBVIOUS
    <2> QED BY <2>1, <2>2 DEF Sorted, Increasing
  <1>2. Len(<< >>) = 0 /\ MAX_FULL_OMITS \in Nat
    BY OmitsAssumption
  <1>3. {} # WeekDays
    <2>1. 0 \in WeekDays
      BY CalendarAssumption DEF WeekDays
    <2> QED BY <2>1
  <1>4. << >> \in FullArrays
    BY <1>1, <1>2 DEF FullArrays
  <1> QED BY <1>1, <1>3, <1>4 DEF OmitStates, NoOmits

\* A command sets all of them
LEMMA OmitsSet ==
  ASSUME NEW om \in OmitStates, SetOmits(om)
  PROVE  OMITS' = om
  <1>1. om = [full |-> om.full, part |-> om.part, weekdays |-> om.weekdays]
    BY DEF OmitStates
  <1> QED BY <1>1 DEF SetOmits, OMITS

\* ADDOMIT
LEMMA GlobalOmitAdded ==
  ASSUME NEW om \in OmitStates, NEW x \in Int
  PROVE  AddGlobalOmit(om, x).om \in OmitStates
  <1>1. om.full \in FullArrays
    BY DEF OmitStates
  <1>2. ASSUME x >= 0, Len(om.full) # MAX_FULL_OMITS
        PROVE  Inserted(om.full, x) \in FullArrays
    <2>1. om.full \in Sorted(Nat) /\ Len(om.full) <= MAX_FULL_OMITS /\ x \in Nat /\ MAX_FULL_OMITS \in Nat
      BY <1>1, <1>2, OmitsAssumption DEF FullArrays
    <2>2. /\ BexistsIntArray(om.full, x) <=> In(om.full, x)
          /\ om.full \in Seq(Nat) /\ Increasing(om.full) /\ Len(om.full) \in Nat
      BY <2>1, SortedNumbers
    <2>3. CASE In(om.full, x)
      BY <1>1, <2>2, <2>3 DEF Inserted
    <2>4. CASE ~In(om.full, x)
      <3> DEFINE new == InsertIntoSortedArray(om.full, x)
      <3>1. new \in Seq(Nat) /\ Len(new) = Len(om.full) + 1 /\ Increasing(new)
        BY <2>1, <2>2, <2>4, InsertionSorts
      <3>2. Inserted(om.full, x) = new
        BY <2>2, <2>4 DEF Inserted
      <3> HIDE DEF new
      <3>3. Len(new) <= MAX_FULL_OMITS
        BY <1>2, <2>1, <2>2, <3>1
      <3> QED BY <3>1, <3>2, <3>3 DEF FullArrays, Sorted
    <2> QED BY <2>3, <2>4
  <1>3. CASE x < 0 \/ Len(om.full) = MAX_FULL_OMITS
    BY <1>3 DEF AddGlobalOmit
  <1>4. CASE x >= 0 /\ Len(om.full) # MAX_FULL_OMITS
    <2> DEFINE new == Inserted(om.full, x)
    <2>1. AddGlobalOmit(om, x).om = [om EXCEPT !.full = new]
      BY <1>4 DEF AddGlobalOmit
    <2>2. new \in FullArrays
      BY <1>2, <1>4
    <2> HIDE DEF new
    <2>3. [om EXCEPT !.full = new] \in OmitStates
      BY <2>2 DEF OmitStates
    <2> QED BY <2>1, <2>3
  <1> QED BY <1>3, <1>4

\* Every command keeps the arrays as they should be
LEMMA ArraysStep ==
  ASSUME ArraysInv, OmitsNext \/ NewOmits \/ UNCHANGED omit_vars
  PROVE  ArraysInv'
  <1>1. OMITS \in OmitStates /\ Sequence(SavedOmitContexts)
    BY DEF ArraysInv
  <1>2. ASSUME NEW tokens \in OmitLines, Omit(tokens) PROVE ArraysInv'
    <2>1. ParsedOmit(tokens) \in Lines
      <3>1. Len(tokens) \in Nat
        BY OmitsAssumption
      <3> QED BY <3>1, LineRead
    <2>2. DoOmit(OMITS, tokens).om \in OmitStates
      BY <1>1, <2>1, LinesMean DEF DoOmit
    <2>3. OMITS' \in OmitStates
      BY <1>2, <2>2, OmitsSet DEF Omit
    <2> QED BY <1>2, <2>3 DEF ArraysInv, Omit
  <1>3. ASSUME NEW x \in AddedDays, AddOmit(x) PROVE ArraysInv'
    <2>1. x \in Int
      BY OmitsAssumption
    <2>2. AddGlobalOmit(OMITS, x).om \in OmitStates
      BY <1>1, <2>1, GlobalOmitAdded
    <2>3. OMITS' \in OmitStates
      BY <1>3, <2>2, OmitsSet DEF AddOmit
    <2> QED BY <1>3, <2>3 DEF ArraysInv, AddOmit
  <1>4. CASE DoClear
    <2>1. OMITS' \in OmitStates
      BY <1>4, NothingIsSorted, OmitsSet DEF DoClear
    <2> QED BY <1>4, <2>1 DEF ArraysInv, DoClear
  <1>5. CASE PushOmitContext
    <2>1. SavedOmitContexts' = <<OMITS>> \o SavedOmitContexts /\ OMITS' = OMITS
      BY <1>5 DEF PushOmitContext, OMITS
    <2>2. /\ Sequence(SavedOmitContexts') /\ Len(SavedOmitContexts') = Len(SavedOmitContexts) + 1
          /\ SavedOmitContexts'[1] = OMITS /\ \A i \in 1 .. Len(SavedOmitContexts) : SavedOmitContexts'[i + 1] = SavedOmitContexts[i]
      BY <1>1, <2>1, PushSequence
    <2>3. Len(SavedOmitContexts) \in Nat
      BY <1>1, IsSequence DEF Sequence
    <2>4. \A i \in 1 .. Len(SavedOmitContexts) + 1 : SavedOmitContexts'[i] \in OmitStates
      <3> SUFFICES ASSUME NEW i \in 1 .. Len(SavedOmitContexts) + 1 PROVE SavedOmitContexts'[i] \in OmitStates
        OBVIOUS
      <3>1. CASE i = 1
        BY <1>1, <2>2, <3>1
      <3>2. CASE i # 1
        <4>1. i - 1 \in 1 .. Len(SavedOmitContexts) /\ (i - 1) + 1 = i
          BY <2>3, <3>2
        <4>2. SavedOmitContexts'[i] = SavedOmitContexts[i - 1]
          BY <2>2, <4>1
        <4> QED BY <4>1, <4>2 DEF ArraysInv
      <3> QED BY <3>1, <3>2
    <2> QED BY <1>1, <2>1, <2>2, <2>4 DEF ArraysInv
  <1>6. CASE PopOmitContext
    <2>1. SavedOmitContexts # << >> /\ SetOmits(Head(SavedOmitContexts)) /\ SavedOmitContexts' = Tail(SavedOmitContexts)
      BY <1>6 DEF PopOmitContext
    <2>2. /\ Sequence(Tail(SavedOmitContexts)) /\ Len(SavedOmitContexts) \in Nat \ {0}
          /\ Len(Tail(SavedOmitContexts)) = Len(SavedOmitContexts) - 1 /\ Head(SavedOmitContexts) = SavedOmitContexts[1]
          /\ \A i \in 1 .. Len(SavedOmitContexts) - 1 : Tail(SavedOmitContexts)[i] = SavedOmitContexts[i + 1]
      BY <1>1, <2>1, PopSequence
    <2>3. Head(SavedOmitContexts) \in OmitStates
      BY <2>2 DEF ArraysInv
    <2>4. OMITS' \in OmitStates
      BY <2>1, <2>3, OmitsSet
    <2>5. \A i \in 1 .. Len(SavedOmitContexts) - 1 : Tail(SavedOmitContexts)[i] \in OmitStates
      <3> SUFFICES ASSUME NEW i \in 1 .. Len(SavedOmitContexts) - 1 PROVE Tail(SavedOmitContexts)[i] \in OmitStates
        OBVIOUS
      <3>1. i + 1 \in 1 .. Len(SavedOmitContexts)
        BY <2>2
      <3> QED BY <2>2, <3>1 DEF ArraysInv
    <2> QED BY <2>1, <2>2, <2>4, <2>5 DEF ArraysInv
  <1>7. CASE NewOmits
    <2>1. OMITS' \in OmitStates
      BY <1>7, NothingIsSorted, OmitsSet DEF NewOmits
    <2>2. Sequence(<< >>) /\ Len(<< >>) = 0
      BY EmptyIsSequence
    <2> QED BY <1>7, <2>1, <2>2 DEF ArraysInv, NewOmits
  <1>8. CASE UNCHANGED omit_vars
    BY <1>8 DEF omit_vars, OMITS, ArraysInv
  <1> QED BY <1>2, <1>3, <1>4, <1>5, <1>6, <1>7, <1>8 DEF OmitsNext

\* There are no more pairs than days in a leap year, so their array has room for them all
LEMMA RoomForPairs ==
  ASSUME NEW part \in Sorted(Codes)
  PROVE  Len(part) <= MAX_PARTIAL_OMITS
  <1>1. /\ part \in Seq(Codes) /\ Len(part) \in Nat /\ \A i \in 1 .. Len(part) : part[i] \in Codes
        /\ \A i \in 2 .. Len(part) : part[i - 1] < part[i]
    BY DEF Sorted, Increasing
  <1> DEFINE pair == [i \in 1 .. Len(part) |-> CHOOSE p \in Pairs : part[i] = Code(p)]
  <1>2. \A i \in 1 .. Len(part) : pair[i] \in Pairs /\ part[i] = Code(pair[i])
    <2> SUFFICES ASSUME NEW i \in 1 .. Len(part) PROVE pair[i] \in Pairs /\ part[i] = Code(pair[i])
      OBVIOUS
    <2>1. \E p \in Pairs : part[i] = Code(p)
      BY <1>1 DEF Codes
    <2> QED BY <2>1
  <1> HIDE DEF pair
  <1> DEFINE T == {n \in 0 .. Len(part) : n > 0 => Place(pair[n]) >= n - 1}
  <1>3. 0 \in T
    BY <1>1
  <1>4. ASSUME NEW n \in 0 .. Len(part) - 1, n \in T PROVE n + 1 \in T
    <2>1. n + 1 \in 1 .. Len(part) /\ n + 1 > 0 /\ (n + 1) - 1 = n
      BY <1>1
    <2>2. Place(pair[n + 1]) \in Nat
      BY <1>2, <2>1, PlaceIs
    <2>3. CASE n = 0
      BY <1>1, <2>1, <2>2, <2>3
    <2>4. CASE n # 0
      <3>1. n \in 1 .. Len(part) /\ n + 1 \in 2 .. Len(part)
        BY <1>1, <2>4
      <3>2. part[n] < part[n + 1]
        BY <1>1, <3>1, <2>1
      <3>3. pair[n] \in Pairs /\ pair[n + 1] \in Pairs /\ part[n] = Code(pair[n]) /\ part[n + 1] = Code(pair[n + 1])
        BY <1>2, <2>1, <3>1
      <3>4. Code(pair[n]) \in Nat /\ Code(pair[n + 1]) \in Nat /\ Place(pair[n]) \in Nat
        <4>1. \A p \in Pairs : Code(p) \in Nat
          <5> SUFFICES ASSUME NEW p \in Pairs PROVE Code(p) \in Nat
            OBVIOUS
          <5>1. Code(p) \in Codes
            BY PairIs
          <5> QED BY <5>1, CodesAreNumbers
        <4>2. \A p \in Pairs : Place(p) \in Nat
          <5> SUFFICES ASSUME NEW p \in Pairs PROVE Place(p) \in Nat
            OBVIOUS
          <5>1. Place(p) \in 0 .. OrdinaryYear
            BY PlaceIs
          <5> QED BY <5>1
        <4> QED BY <3>3, <4>1, <4>2
      <3>5. ~(Place(pair[n + 1]) <= Place(pair[n]))
        <4>1. Place(pair[n + 1]) <= Place(pair[n]) <=> Code(pair[n + 1]) <= Code(pair[n])
          BY <3>3, PlacesOrdered
        <4> QED BY <3>2, <3>3, <3>4, <4>1
      <3>6. Place(pair[n]) >= n - 1
        BY <1>4, <3>1
      <3>7. Place(pair[n + 1]) >= n
        BY <2>2, <3>1, <3>4, <3>5, <3>6
      <3> QED BY <2>1, <3>7
    <2> QED BY <2>3, <2>4
  <1>5. \A n \in 0 .. Len(part) : n \in T
    <2> HIDE DEF T
    <2> QED BY <1>1, <1>3, <1>4, UpTo
  <1>6. CASE Len(part) = 0
    BY <1>6, OmitsAssumption
  <1>7. CASE Len(part) # 0
    <2>1. Len(part) \in 1 .. Len(part) /\ Len(part) > 0
      BY <1>1, <1>7
    <2>2. Place(pair[Len(part)]) >= Len(part) - 1
      BY <1>1, <1>5, <2>1
    <2>3. Place(pair[Len(part)]) \in 0 .. OrdinaryYear
      BY <1>2, <2>1, PlaceIs
    <2> QED BY <1>1, <2>2, <2>3, LeapYearOfPairs, OmitsAssumption
  <1> QED BY <1>6, <1>7

\* So every day in them is found, in force and saved ...
LEMMA Searchable == ArraysInv => ArraysSearchable
  <1> SUFFICES ASSUME ArraysInv, NEW om \in {OMITS} \cup Range(SavedOmitContexts)
               PROVE  /\ Increasing(om.full) /\ Increasing(om.part)
                      /\ Len(om.full) <= MAX_FULL_OMITS /\ Len(om.part) <= MAX_PARTIAL_OMITS
                      /\ \A x \in OmitDays : /\ BexistsIntArray(om.full, x) <=> x \in Range(om.full)
                                             /\ BexistsIntArray(om.part, x) <=> x \in Range(om.part)
    BY DEF ArraysSearchable
  <1>1. om \in OmitStates
    <2>1. DOMAIN SavedOmitContexts = 1 .. Len(SavedOmitContexts)
      BY IsSequence DEF ArraysInv, Sequence
    <2> QED BY <2>1 DEF ArraysInv, Range
  <1>2. om.full \in Sorted(Nat) /\ Len(om.full) <= MAX_FULL_OMITS /\ om.part \in Sorted(Codes)
        /\ Len(om.part) <= MAX_PARTIAL_OMITS
    BY <1>1, RoomForPairs DEF OmitStates, FullArrays
  <1>3. Increasing(om.full) /\ Increasing(om.part)
    BY <1>2 DEF Sorted
  <1>4. \A S : \A array \in Seq(S) : \A x : x \in Range(array) <=> In(array, x)
    BY DEF Range, In
  <1>5. \A x : (x \in Range(om.full) <=> In(om.full, x)) /\ (x \in Range(om.part) <=> In(om.part, x))
    BY <1>2, <1>4 DEF Sorted
  <1>6. ASSUME NEW x \in OmitDays
        PROVE  (BexistsIntArray(om.full, x) <=> In(om.full, x)) /\ (BexistsIntArray(om.part, x) <=> In(om.part, x))
    <2>1. x \in Int /\ Nat \subseteq Int /\ Codes \subseteq Int
      BY CodesAreNumbers DEF OmitDays
    <2>2. BexistsIntArray(om.full, x) <=> In(om.full, x)
      BY <1>2, <2>1, SortedNumbers
    <2> QED BY <1>2, <2>1, <2>2, SortedNumbers
  <1> QED BY <1>2, <1>3, <1>5, <1>6

\* A code is that of one month and day
LEMMA CodesDecoded ==
  ASSUME NEW c \in Codes
  PROVE  \A p \in Pairs : p = <<(c \div 32) % 16, c % 32>> <=> c = Code(p)
  <1>1. PICK m \in Months, d \in 1 .. 31 : c = 32 * m + d
    BY PairIs DEF Codes
  <1>2. m \in Nat /\ m <= 15
    BY OmitsAssumption, MonthLengths DEF Months
  <1>3. c \div 32 = m /\ c % 32 = d
    <2>1. c \in Int /\ d \in 0 .. 31 /\ 32 \in Nat \ {0} /\ 32 - 1 = 31
      BY <1>1, <1>2
    <2> QED BY <1>1, <1>2, <2>1, QuotientOf
  <1>4. m % 16 = m
    BY <1>2
  <1>5. <<(c \div 32) % 16, c % 32>> = <<m, d>>
    BY <1>3, <1>4
  <1>6. ASSUME NEW p \in Pairs PROVE p = <<m, d>> <=> c = Code(p)
    <2>1. p = <<p[1], p[2]>> /\ Code(p) = 32 * p[1] + p[2] /\ p[1] \in Nat /\ p[2] \in 1 .. 31
      BY PairIs
    <2>2. c = Code(p) => p[1] = m /\ p[2] = d
      BY <1>1, <1>2, <2>1
    <2> QED BY <1>1, <2>1, <2>2
  <1> QED BY <1>5, <1>6

\* ... and OMIT DUMP lists what is in force
LEMMA Complete == ArraysInv => DumpIsComplete
  <1> SUFFICES ASSUME ArraysInv, NEW x \in OmitDays
               PROVE  IsOmittedBy(OMITS, x) <=> \/ x % DaysInWeek \in DumpOmits(OMITS).weekdays
                                                \/ FromDSE(x) \in Range(DumpOmits(OMITS).days)
                                                \/ <<FromDSE(x).m, FromDSE(x).d>> \in Range(DumpOmits(OMITS).pairs)
    BY DEF DumpIsComplete
  <1> DEFINE full == OMITS.full
  <1> DEFINE part == OMITS.part
  <1>1. full \in Sorted(Nat) /\ part \in Sorted(Codes) /\ OMITS \in OmitStates
    BY DEF ArraysInv, OmitStates, FullArrays
  <1>2. /\ x \in Nat /\ PairOf(x) \in Pairs
        /\ IsOmittedBy(OMITS, x) <=> x % DaysInWeek \in OMITS.weekdays \/ In(full, x) \/ In(part, Code(PairOf(x)))
    BY <1>1, DayOmittedIs
  <1>3. /\ DumpOmits(OMITS).weekdays = OMITS.weekdays
        /\ Range(DumpOmits(OMITS).days) = {FromDSE(full[i]) : i \in DOMAIN full}
        /\ Range(DumpOmits(OMITS).pairs) = {<<(part[i] \div 32) % 16, part[i] % 32>> : i \in DOMAIN part}
    BY DEF DumpOmits, Range
  <1> HIDE DEF full, part
  <1>4. /\ DOMAIN full = 1 .. Len(full) /\ \A i \in 1 .. Len(full) : full[i] \in Nat
        /\ DOMAIN part = 1 .. Len(part) /\ \A i \in 1 .. Len(part) : part[i] \in Codes
    BY <1>1 DEF Sorted
  <1>5. \A a \in Nat : FromDSE(a) = FromDSE(x) => a = x
    <2>1. \A a \in Nat : DSE(FromDSE(a).y, FromDSE(a).m, FromDSE(a).d) = a
      BY DayHasDate
    <2> QED BY <1>2, <2>1
  <1>6. FromDSE(x) \in Range(DumpOmits(OMITS).days) <=> In(full, x)
    BY <1>3, <1>4, <1>5 DEF In
  <1>7. PairOf(x) \in Range(DumpOmits(OMITS).pairs) <=> In(part, Code(PairOf(x)))
    <2>1. \A i \in 1 .. Len(part) : PairOf(x) = <<(part[i] \div 32) % 16, part[i] % 32>> <=> part[i] = Code(PairOf(x))
      BY <1>2, <1>4, CodesDecoded
    <2> QED BY <1>3, <1>4, <2>1 DEF In
  <1> QED BY <1>2, <1>3, <1>6, <1>7 DEF PairOf

(***************************************************************************)
(* The types of variables.                                                 *)
(***************************************************************************)
TableEntry == [v : Value, preserve : BOOLEAN, is_constant : BOOLEAN] \cup {UNSET}

VarsTyped ==
  /\ VHashTbl \in [VarNames -> TableEntry]
  /\ Sequence(VarStack)
  /\ \A i \in 1 .. Len(VarStack) : \A x \in DOMAIN VarStack[i].vars : VarStack[i].vars[x] \in TableEntry
  /\ DOMAIN SysVars = SysVarNames
  /\ DSEToday \in 0 .. LastDay /\ Ucached.day \in -1 .. LastDay

\* A variable that is looked up has its type, and so does one that is changed
LEMMA FoundIs ==
  ASSUME VarsTyped, NEW x \in VarNames
  PROVE  FindVar(x) \in [v : Value, preserve : BOOLEAN, is_constant : BOOLEAN]
  <1>1. NewVar \in [v : Value, preserve : BOOLEAN, is_constant : BOOLEAN]
    BY DEF NewVar, Zero, Value
  <1>2. VHashTbl[x] \in TableEntry
    BY DEF VarsTyped
  <1> QED BY <1>1, <1>2 DEF FindVar, IsSet, TableEntry

\* What SET and PRESERVE change
LEMMA EntryChanged ==
  ASSUME NEW e \in [v : Value, preserve : BOOLEAN, is_constant : BOOLEAN], NEW val \in Value, NEW b \in BOOLEAN
  PROVE  /\ [e EXCEPT !.v = val, !.is_constant = b] \in TableEntry
         /\ [e EXCEPT !.is_constant = b] \in TableEntry
         /\ [e EXCEPT !.preserve = b] \in TableEntry
  BY DEF TableEntry

\* Every command keeps the types of the variables, in the table and on the stack
LEMMA VarsTypedStep ==
  ASSUME VarsTyped, VarsNext \/ NewVars \/ UNCHANGED vars_vars
  PROVE  VarsTyped'
  <1>1. /\ VHashTbl \in [VarNames -> TableEntry] /\ Sequence(VarStack)
        /\ \A i \in 1 .. Len(VarStack) : \A x \in DOMAIN VarStack[i].vars : VarStack[i].vars[x] \in TableEntry
        /\ DOMAIN SysVars = SysVarNames /\ DSEToday \in 0 .. LastDay /\ Ucached.day \in -1 .. LastDay
    BY DEF VarsTyped
  <1>2. ASSUME UNCHANGED <<SysVars, VarStack, DSEToday, Ucached>>, VHashTbl' \in [VarNames -> TableEntry]
        PROVE  VarsTyped'
    BY <1>1, <1>2 DEF VarsTyped
  <1>3. ASSUME NEW l \in SetLines, DoSet(l.name, l.val, l.nonconst, l.ignoring, l.constant) PROVE VarsTyped'
    <2>1. l.val \in Value /\ l.nonconst \in BOOLEAN /\ l.constant \in BOOLEAN
      BY VarsAssumption
    <2>2. ASSUME NEW new \in TableEntry PROVE [VHashTbl EXCEPT ![l.name] = new] \in [VarNames -> TableEntry]
      BY <1>1
    <2>3. CASE l.ignoring /\ ~l.constant /\ IsSet(l.name)
      <3>1. VHashTbl' = [VHashTbl EXCEPT ![l.name] = [@ EXCEPT !.is_constant = FALSE]]
        BY <1>3, <2>3 DEF DoSet
      <3>2. CASE l.name \in VarNames
        <4>1. VHashTbl[l.name] \in [v : Value, preserve : BOOLEAN, is_constant : BOOLEAN]
          BY <1>1, <2>3, <3>2 DEF IsSet, TableEntry
        <4>2. [VHashTbl[l.name] EXCEPT !.is_constant = FALSE] \in TableEntry
          BY <4>1 DEF TableEntry
        <4>3. VHashTbl' \in [VarNames -> TableEntry]
          BY <2>2, <3>1, <4>2
        <4> QED BY <1>2, <1>3, <4>3 DEF DoSet
      <3>3. CASE l.name \notin VarNames
        <4>1. VHashTbl' \in [VarNames -> TableEntry]
          BY <1>1, <3>1, <3>3
        <4> QED BY <1>2, <1>3, <4>1 DEF DoSet
      <3> QED BY <3>2, <3>3
    <2>4. CASE l.ignoring /\ ~(~l.constant /\ IsSet(l.name))
      BY <1>1, <1>2, <1>3, <2>4 DEF DoSet
    <2>5. CASE ~l.ignoring
      <3> DEFINE new == [FindVar(l.name) EXCEPT !.v = l.val, !.is_constant = ~(l.nonconst \/ ~l.constant)]
      <3>1. VHashTbl' = [VHashTbl EXCEPT ![l.name] = new]
        BY <1>3, <2>5 DEF DoSet, SetVar
      <3>2. l.name \in VarNames => new \in TableEntry
        <4>1. (~(l.nonconst \/ ~l.constant)) \in BOOLEAN
          OBVIOUS
        <4>2. l.name \in VarNames => FindVar(l.name) \in [v : Value, preserve : BOOLEAN, is_constant : BOOLEAN]
          BY FoundIs
        <4> QED BY <2>1, <4>1, <4>2, EntryChanged
      <3> HIDE DEF new
      <3>3. VHashTbl' \in [VarNames -> TableEntry]
        BY <1>1, <3>1, <3>2
      <3> QED BY <1>2, <1>3, <3>3 DEF DoSet
    <2> QED BY <2>3, <2>4, <2>5
  <1>4. ASSUME NEW names, DoUnset(names) PROVE VarsTyped'
    <2>1. VHashTbl' \in [VarNames -> TableEntry]
      BY <1>1, <1>4 DEF DoUnset, Without, TableEntry
    <2> QED BY <1>2, <1>4, <2>1 DEF DoUnset
  <1>5. ASSUME NEW names, DoPreserve(names) PROVE VarsTyped'
    <2>1. \A x \in VarNames : [FindVar(x) EXCEPT !.preserve = TRUE] \in TableEntry
      BY FoundIs DEF TableEntry
    <2>2. VHashTbl' = [x \in VarNames |-> IF x \in names THEN [FindVar(x) EXCEPT !.preserve = TRUE] ELSE VHashTbl[x]]
      BY <1>5 DEF DoPreserve
    <2>3. VHashTbl' \in [VarNames -> TableEntry]
      BY <1>1, <2>1, <2>2
    <2> QED BY <1>2, <1>5, <2>3 DEF DoPreserve
  <1>6. CASE GetToday
    <2>1. DSEToday \in -1 .. LastDay
      BY <1>1, VarsAssumption
    <2>2. Ucached'.day \in -1 .. LastDay
      BY <1>1, <1>6, <2>1 DEF GetToday, FILL_U_CACHE
    <2> QED BY <1>1, <1>6, <2>2 DEF VarsTyped, GetToday
  <1>7. ASSUME NEW l \in SetSysLines, NEW top \in BOOLEAN, DoSetSysVar(l.name, l.val, top) PROVE VarsTyped'
    <2>1. DOMAIN SysVars' = SysVarNames
      BY <1>1, <1>7 DEF DoSetSysVar
    <2> QED BY <1>1, <1>7, <2>1 DEF VarsTyped, DoSetSysVar
  <1>8. CASE ProcessOnce
    BY <1>1, <1>2, <1>8 DEF ProcessOnce
  <1>9. ASSUME NEW names, PushVars(names) PROVE VarsTyped'
    <2> DEFINE e == [sysvars |-> [n \in names \cap SysVarNames |-> SysVars[n]], vars |-> [x \in names \cap VarNames |-> VHashTbl[x]]]
    <2>1. VarStack' = <<e>> \o VarStack /\ UNCHANGED <<VHashTbl, SysVars, DSEToday, Ucached>>
      BY <1>9 DEF PushVars
    <2>2. \A x \in DOMAIN e.vars : e.vars[x] \in TableEntry
      BY <1>1
    <2> HIDE DEF e
    <2>3. /\ Sequence(VarStack') /\ Len(VarStack') = Len(VarStack) + 1
          /\ VarStack'[1] = e /\ \A i \in 1 .. Len(VarStack) : VarStack'[i + 1] = VarStack[i]
      BY <1>1, <2>1, PushSequence
    <2>4. Len(VarStack) \in Nat
      BY <1>1, IsSequence DEF Sequence
    <2>5. \A i \in 1 .. Len(VarStack) + 1 : \A x \in DOMAIN VarStack'[i].vars : VarStack'[i].vars[x] \in TableEntry
      <3> SUFFICES ASSUME NEW i \in 1 .. Len(VarStack) + 1
                   PROVE  \A x \in DOMAIN VarStack'[i].vars : VarStack'[i].vars[x] \in TableEntry
        OBVIOUS
      <3>1. CASE i = 1
        BY <2>2, <2>3, <3>1
      <3>2. CASE i # 1
        <4>1. i - 1 \in 1 .. Len(VarStack) /\ (i - 1) + 1 = i
          BY <2>4, <3>2
        <4>2. VarStack'[i] = VarStack[i - 1]
          BY <2>3, <4>1
        <4> QED BY <1>1, <4>1, <4>2
      <3> QED BY <3>1, <3>2
    <2> QED BY <1>1, <2>1, <2>3, <2>5 DEF VarsTyped
  <1>10. ASSUME NEW top \in BOOLEAN, PopVars(top) PROVE VarsTyped'
    <2>1. /\ VarStack # << >> /\ VarStack' = Tail(VarStack) /\ UNCHANGED <<DSEToday, Ucached>>
          /\ VHashTbl' = [x \in VarNames |-> IF x \in DOMAIN Head(VarStack).vars THEN Head(VarStack).vars[x] ELSE VHashTbl[x]]
          /\ DOMAIN SysVars' = SysVarNames
      BY <1>10 DEF PopVars
    <2>2. /\ Sequence(Tail(VarStack)) /\ Len(VarStack) \in Nat \ {0} /\ Len(Tail(VarStack)) = Len(VarStack) - 1
          /\ Head(VarStack) = VarStack[1] /\ \A i \in 1 .. Len(VarStack) - 1 : Tail(VarStack)[i] = VarStack[i + 1]
      BY <1>1, <2>1, PopSequence
    <2>3. \A x \in DOMAIN Head(VarStack).vars : Head(VarStack).vars[x] \in TableEntry
      BY <1>1, <2>2
    <2>4. VHashTbl' \in [VarNames -> TableEntry]
      BY <1>1, <2>1, <2>3
    <2>5. \A i \in 1 .. Len(VarStack) - 1 : \A x \in DOMAIN Tail(VarStack)[i].vars : Tail(VarStack)[i].vars[x] \in TableEntry
      <3> SUFFICES ASSUME NEW i \in 1 .. Len(VarStack) - 1
                   PROVE  \A x \in DOMAIN Tail(VarStack)[i].vars : Tail(VarStack)[i].vars[x] \in TableEntry
        OBVIOUS
      <3>1. i + 1 \in 1 .. Len(VarStack)
        BY <2>2
      <3> QED BY <1>1, <2>2, <3>1
    <2> QED BY <1>1, <2>1, <2>2, <2>4, <2>5 DEF VarsTyped
  <1>11. CASE NewVars
    <2>1. VHashTbl' \in [VarNames -> TableEntry]
      BY <1>1, <1>11 DEF NewVars, DestroyVars, TableEntry
    <2>2. DSEToday' \in 0 .. LastDay
      BY <1>1, <1>11, VarsAssumption DEF NewVars
    <2>3. VarStack' = << >> /\ Sequence(<< >>) /\ Len(<< >>) = 0
      BY <1>11, EmptyIsSequence DEF NewVars
    <2>4. Sequence(VarStack') /\ Len(VarStack') = 0
      BY <2>3
    <2>5. \A i \in 1 .. Len(VarStack') : \A x \in DOMAIN VarStack'[i].vars : VarStack'[i].vars[x] \in TableEntry
      BY <2>4
    <2>6. SysVars' = SysVars /\ Ucached' = Ucached
      BY <1>11 DEF NewVars
    <2> QED BY <1>1, <2>1, <2>2, <2>4, <2>5, <2>6 DEF VarsTyped
  <1>12. CASE UNCHANGED vars_vars
    BY <1>1, <1>2, <1>12 DEF vars_vars
  <1> QED BY <1>3, <1>4, <1>5, <1>6, <1>7, <1>8, <1>9, <1>10, <1>11, <1>12 DEF VarsNext, ScriptVarsNext, SysVarsNext, StackNext

\* The types at the start
LEMMA VarsTypedFirst == VarsInit => VarsTyped
  <1> SUFFICES ASSUME VarsInit PROVE VarsTyped
    OBVIOUS
  <1>1. VHashTbl \in [VarNames -> TableEntry] /\ VarStack = << >> /\ DSEToday = 0 /\ Ucached.day = -1
    BY DEF VarsInit, TableEntry
  <1>2. DOMAIN SysVars = SysVarNames
    BY VarsAssumption DEF VarsInit
  <1>3. Sequence(<< >>) /\ Len(<< >>) = 0
    BY EmptyIsSequence
  <1>4. 0 \in 0 .. LastDay /\ -1 \in -1 .. LastDay
    BY VarsAssumption
  <1> QED BY <1>1, <1>2, <1>3, <1>4 DEF VarsTyped

(***************************************************************************)
(* Theorems.                                                               *)
(***************************************************************************)
IInv == OmitStackInv /\ ArraysInv /\ VarsInv /\ VarsTyped /\ FuncsInv /\ TodayInv
StackSteps ==
  [OmitStack!Next]_(OmitStack!vars) /\ [VarsStack!Next]_(VarsStack!vars) /\ [FuncsStack!Next]_(FuncsStack!vars)

\* The invariant holds at the start, and the three stacks are empty
LEMMA Initially == Init => IInv /\ OmitStack!Init /\ VarsStack!Init /\ FuncsStack!Init
<1> SUFFICES ASSUME Init
             PROVE  IInv /\ OmitStack!Init /\ VarsStack!Init /\ FuncsStack!Init
  OBVIOUS
<1>1. OmitStackInv /\ OmitStack!Init /\ VarsInv /\ VarsStack!Init /\ FuncsInv /\ FuncsStack!Init /\ VarsTyped
  BY OmitsInitial, VarsInitial, VarsTypedFirst, FuncsInitial DEF Init
<1>2. ArraysInv
  <2>1. OMITS \in OmitStates /\ SavedOmitContexts = << >>
    BY NothingIsSorted DEF Init, OmitsInit, OMITS
  <2>2. Sequence(<< >>) /\ Len(<< >>) = 0
    BY EmptyIsSequence
  <2> QED
    BY <2>1, <2>2 DEF ArraysInv
<1>3. TodayInv
  BY DEF Init, VarsInit, TodayInv
<1> QED
  BY <1>1, <1>2, <1>3 DEF IInv

\* Every step keeps the invariant, and is one of each of the three stacks
LEMMA EveryStep == IInv /\ [Next]_vars => IInv' /\ StackSteps
<1> SUFFICES ASSUME IInv, [Next]_vars
             PROVE  IInv' /\ StackSteps
  OBVIOUS
<1>1. /\ OmitsNext \/ NewOmits \/ UNCHANGED omit_vars
      /\ VarsNext \/ NewVars \/ UNCHANGED vars_vars
      /\ FuncsNext \/ EmptyUserFuncStack \/ UNCHANGED funcs_vars
  BY DEF Next, vars, PerIterationInit
<1> QED
  BY <1>1, OmitsStep, ArraysStep, VarsStep, VarsTypedStep, FuncsStep, TodayStep DEF IInv, StackSteps

\* The invariant: every saved context is a part of an environment; the omits in force and all those that are saved are
\* arrays in their order, of days and of codes of pairs; a system variable has a value that it can be set to; and the
\* cache of today's date holds the date of its day.
THEOREM Invariant == Spec => []IInv
<1>1. Init => IInv
  BY Initially
<1>2. IInv /\ [Next]_vars => IInv'
  BY EveryStep
<1> QED
  BY <1>1, <1>2, PTL DEF Spec

\* Whatever is pushed, changed and popped, in whatever order and over however many passes, omits, variables and functions
\* are a ContextStack each (PushVars, PopVars and what they are for omits and functions).
THEOREM Restored == Spec => ContextsRestored
<1>1. Init => OmitStack!Init /\ VarsStack!Init /\ FuncsStack!Init
  BY Initially
<1>2. IInv /\ [Next]_vars => /\ [OmitStack!Next]_(OmitStack!vars)
                            /\ [VarsStack!Next]_(VarsStack!vars)
                            /\ [FuncsStack!Next]_(FuncsStack!vars)
  BY EveryStep DEF StackSteps
<1> QED
  BY <1>1, <1>2, Invariant, PTL
  DEF Spec, ContextsRestored, OmitContextsRestored, VarsRestored, FuncsRestored, OmitStack!Spec, VarsStack!Spec, FuncsStack!Spec

\* A system variable that can be set can always be set to the value it has, and that changes nothing (SetSysVarHelper).
THEOREM Settable == Spec => []SettableToItself
<1>1. IInv => SettableToItself
  BY SetSysVarAgain DEF IInv, VarsInv, SettableToItself
<1> QED
  BY <1>1, Invariant, PTL

\* The cached parts of today's date are never those of another day (FILL_U_CACHE).
THEOREM Today == Spec => []TodayIsToday
<1>1. IInv => TodayIsToday
  BY DEF IInv, TodayInv, TodayIsToday, TodayDate, FILL_U_CACHE
<1> QED
  BY <1>1, Invariant, PTL

\* What a script sets stays usable, in force and saved, for every script and however many passes: the binary search finds
\* what is in the arrays and nothing else (BexistsIntArray, InsertIntoSortedArray), OMIT DUMP lists what is in force
\* (DumpOmits), every variable has its type, and the above.
THEOREM Sound == Spec => []StateSound
<1>1. ASSUME IInv
      PROVE  TypeOK
  <2>1. FullOmitArray \in Seq(Nat) /\ PartialOmitArray \in Seq(Nat) /\ WeekdayOmits \subseteq WeekDays
    <3>1. FullOmitArray \in FullArrays /\ PartialOmitArray \in Sorted(Codes) /\ WeekdayOmits \in SUBSET WeekDays
      BY <1>1 DEF IInv, ArraysInv, OMITS, OmitStates
    <3>2. Seq(Codes) \subseteq Seq(Nat)
      BY CodesAreNumbers, SeqMonotonic
    <3> QED
      BY <3>1, <3>2 DEF FullArrays, Sorted
  <2>2. \A x \in VarNames : IsSet(x) => VHashTbl[x].preserve \in BOOLEAN /\ VHashTbl[x].is_constant \in BOOLEAN
    <3>1. \A x \in VarNames : VHashTbl[x] \in TableEntry
      BY <1>1 DEF IInv, VarsTyped
    <3> QED
      BY <3>1 DEF IsSet, TableEntry
  <2>3. DOMAIN SysVars = SysVarNames /\ DSEToday \in 0 .. LastDay /\ Ucached.day \in -1 .. LastDay
    BY <1>1 DEF IInv, VarsTyped
  <2>4. FuncsTypeOK
    <3>1. DOMAIN UserFuncStack = 1 .. Len(UserFuncStack)
      BY <1>1, IsSequence DEF IInv, FuncsInv, FuncStacks, Sequence
    <3> QED
      BY <1>1, <3>1 DEF IInv, FuncsInv, FuncStacks, FuncsTypeOK
  <2> QED
    BY <2>1, <2>2, <2>3, <2>4 DEF TypeOK
<1>2. IInv => ArraysSearchable /\ DumpIsComplete
  BY Searchable, Complete DEF IInv
<1> QED
  BY <1>1, <1>2, Invariant, Settable, Today, PTL DEF StateSound

\* In whatever context, and with whatever arrays, an OMIT that is accepted omits exactly the days it means in addition to
\* those that were omitted, one that the arrays have no room for only some of them, and any other none (DoOmit).
THEOREM OmitsMean == Spec => []OmitMeansItsDays
<1>1. ASSUME IInv, NEW tokens \in OmitLines \cup OtherLines
      PROVE  MeansAsRead(OMITS, OmittedDays(OMITS), ParsedOmit(tokens))
  <2>1. ParsedOmit(tokens) \in Lines
    <3>1. Len(tokens) \in Nat
      BY OmitsAssumption
    <3> QED
      BY <3>1, LineRead
  <2> QED
    BY <1>1, <2>1, LinesMean DEF IInv, ArraysInv
<1>2. IInv => OmitMeansItsDays
  BY <1>1 DEF OmitMeansItsDays
<1> QED
  BY <1>2, Invariant, PTL

\* No pass starts with a context that an earlier one left, and of the variables only the preserved ones outlive it
\* (PerIterationInit).
THEOREM Outlive == Spec => OnlyTheseOutlive
<1> DEFINE Outlives ==
      DSEToday' # DSEToday =>
        /\ SavedOmitContexts' = << >> /\ VarStack' = << >> /\ UserFuncStack' = << >>
        /\ OMITS' = NoOmits
        /\ \A x \in VarNames : VHashTbl'[x] # UNSET => VHashTbl[x] # UNSET /\ VHashTbl[x].preserve
        /\ UNCHANGED <<SysVars, FuncHash>>
<1>1. ASSUME [Next]_vars
      PROVE  [Outlives]_vars
  <2>1. CASE PerIterationInit
    BY <2>1 DEF PerIterationInit, NewOmits, SetOmits, OMITS, NoOmits, NewVars, DestroyVars, IsSet, EmptyUserFuncStack
  <2>2. CASE DSEToday' = DSEToday
    BY <2>2
  <2> QED
    BY <1>1, <2>1, <2>2 DEF Next, vars, vars_vars, VarsNext, ScriptVarsNext, SysVarsNext, StackNext, DoSet, DoUnset, DoPreserve,
                            DoSetSysVar, GetToday, ProcessOnce, PushVars, PopVars
<1> QED
  BY <1>1, PTL DEF Spec, OnlyTheseOutlive
=============================================================================
