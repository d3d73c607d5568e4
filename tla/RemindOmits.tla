----------------------------- MODULE RemindOmits -----------------------------
(***************************************************************************)
(* The global OMITs of src/omit.c: two sorted arrays of bounded length, of *)
(* days and of (month, day) pairs, a set of days of the week, and the      *)
(* stack of contexts.  A command is a sequence of tokens.                  *)
(***************************************************************************)
EXTENDS RemindDate, SequencesExt, FiniteSets

CONSTANTS
  OmitLines,       \* the OMIT commands of the script
  OtherLines,      \* more of them, which are tried in every context but not carried out
  AddedDays,       \* the days for which REM ... ADDOMIT is triggered
  NO_YR, NO_MON, NO_DAY,
  MAX_FULL_OMITS, MAX_PARTIAL_OMITS,   \* the sizes of the arrays
  MaxOmitPushes    \* (bound) contexts on the stack

VARIABLES
  FullOmitArray, PartialOmitArray,   \* the numbers of items are their lengths
  WeekdayOmits,
  SavedOmitContexts

omit_vars == <<FullOmitArray, PartialOmitArray, WeekdayOmits, SavedOmitContexts>>
WeekDays == 0 .. DaysInWeek - 1

\* What is missing is no date; the codes of pairs have room for the months and days, and their array for those of a
\* leap year; and numbers are what their tokens say
ASSUME OmitsAssumption ==
  /\ NO_YR \in Int \ Nat /\ NO_MON \in Int \ Nat /\ NO_DAY \in Int \ Nat
  /\ MonthsInYear <= 16 /\ \A k \in 1 .. MonthsInYear : MonthDays[k] < 32
  /\ MAX_FULL_OMITS \in Nat /\ MAX_PARTIAL_OMITS \in Nat /\ OrdinaryYear < MAX_PARTIAL_OMITS
  /\ AddedDays \subseteq Int
  /\ \A tokens \in OmitLines \cup OtherLines : Len(tokens) \in Nat /\ \A i \in 1 .. Len(tokens) :
       LET val == tokens[i].val
       IN  CASE tokens[i].type = "T_WkDay" -> val \in WeekDays
             [] tokens[i].type = "T_Year" -> val \in Nat /\ val >= BASE
             [] tokens[i].type = "T_Month" -> val \in Months
             [] tokens[i].type = "T_Day" -> val \in Nat \ {0}
             [] tokens[i].type = "T_Date" -> val \in Nat
             [] OTHER -> TRUE

OMITS == [full |-> FullOmitArray, part |-> PartialOmitArray, weekdays |-> WeekdayOmits]
NoOmits == [full |-> << >>, part |-> << >>, weekdays |-> {}]

\* The binary search, and the insertion from the end.  Arrays of the code start at 0.
BexistsIntArray(array, key) ==
  LET search[bot \in 0 .. Len(array)] == [top \in -1 .. Len(array) - 1 |->
        LET mid == (top + bot) \div 2
        IN  /\ bot <= top
            /\ \/ array[mid + 1] = key
               \/ array[mid + 1] > key /\ search[bot][mid - 1]
               \/ array[mid + 1] < key /\ search[mid + 1][top]]
  IN  search[0][Len(array) - 1]

InsertIntoSortedArray(array, key) ==
  LET cur == CHOOSE i \in 0 .. Len(array) : /\ i = 0 \/ array[i] <= key
                                            /\ \A j \in i + 1 .. Len(array) : array[j] > key
  IN  InsertAt(array, cur + 1, key)

Inserted(array, key) ==
  IF BexistsIntArray(array, key) THEN array ELSE InsertIntoSortedArray(array, key)

Syndrome(m, d) == 32 * m + d

\* The days that the properties are about
OmitDays == 0 .. DSE(BASE + 2, 0, 1) - 1
SyndromeOf == [x \in OmitDays |-> Syndrome(FromDSE(x).m, FromDSE(x).d)]

\* IsOmitted, without local omits and OMITFUNC
IsOmittedBy(om, x) ==
  \/ x % DaysInWeek \in om.weekdays
  \/ BexistsIntArray(om.full, x)
  \/ BexistsIntArray(om.part, SyndromeOf[x])

-----------------------------------------------------------------------------
(* OMIT: the tokens, the days they stand for, and the effect.                *)

AsRem  == {"T_RemType", "T_Priority", "T_Tag", "T_Info", "T_Duration"}
Ending == {"T_Empty", "T_Comment"} \cup AsRem

Unparsed == [y |-> <<NO_YR, NO_YR>>, m |-> <<NO_MON, NO_MON>>, d |-> <<NO_DAY, NO_DAY>>,
             wd |-> {}, n |-> 1, r |-> "parsing", first |-> TRUE]

Error(q, e) == [q EXCEPT !.r = e]
WithWeekday(q, w)  == [q EXCEPT !.wd = @ \cup {w}]
WithYear(q, n, y)  == [q EXCEPT !.y[n] = y]
WithMonth(q, n, m) == [q EXCEPT !.m[n] = m]
WithDay(q, n, d)   == [q EXCEPT !.d[n] = d]

GiveDate(q, n, date) ==
  IF q.y[n] # NO_YR THEN Error(q, "E_YR_TWICE")
  ELSE IF q.m[n] # NO_MON THEN Error(q, "E_MON_TWICE")
  ELSE IF q.d[n] # NO_DAY THEN Error(q, "E_DAY_TWICE")
  ELSE WithDay(WithMonth(WithYear(q, n, date.y), n, date.m), n, date.d)

SeenThrough(q) ==
  IF q.wd # {} THEN Error(q, "E_PARSE_ERR")
  ELSE IF q.n = 2 THEN Error(q, "E_UNTIL_TWICE") ELSE [q EXCEPT !.n = 2]

\* One token; n is 2 after a THROUGH
OmitTokenOfType(q, n, type, val) ==
  CASE type = "T_WkDay" -> IF val \in q.wd THEN Error(q, "E_WD_TWICE") ELSE WithWeekday(q, val)
    [] type = "T_Dumpvars" -> Error(q, IF q.first THEN "dump" ELSE "E_PARSE_ERR")
    [] type = "T_Date"    -> GiveDate(q, n, FromDSE(val))
    [] type = "T_Year"    -> IF q.y[n] # NO_YR THEN Error(q, "E_YR_TWICE") ELSE WithYear(q, n, val)
    [] type = "T_Month"   -> IF q.m[n] # NO_MON THEN Error(q, "E_MON_TWICE") ELSE WithMonth(q, n, val)
    [] type = "T_Day"     -> IF q.d[n] # NO_DAY THEN Error(q, "E_DAY_TWICE") ELSE WithDay(q, n, val)
    [] type = "T_Delta"   -> q
    [] type = "T_Through" -> SeenThrough(q)
    [] type \in Ending    -> Error(q, IF type \in AsRem THEN "E_PARSE_AS_REM" ELSE "OK")
    [] OTHER              -> Error(q, "E_UNKNOWN_TOKEN")

OmitToken(q, tok) ==
  IF q.r # "parsing" THEN q
  ELSE [OmitTokenOfType(q, q.n, tok.type, tok.val) EXCEPT !.first = FALSE]

\* All of them, and the end of the line
ParsedOmit(tokens) ==
  LET read[i \in 0 .. Len(tokens)] == IF i = 0 THEN Unparsed ELSE OmitToken(read[i - 1], tokens[i])
  IN  OmitToken(read[Len(tokens)], [type |-> "T_Empty", val |-> 0])

\* The first and the last day where they were left out
Completed(q) ==
  LET y == IF q.n = 1 THEN <<q.y[1], q.y[1]>> ELSE q.y
      m == IF q.n = 1 THEN <<q.m[1], q.m[1]>> ELSE q.m
      last == IF y[2] = NO_YR THEN MonthDays[m[2] + 1] ELSE DaysInMonth(m[2], y[2])
      d == IF q.n = 1 /\ q.d[1] # NO_DAY THEN <<q.d[1], q.d[1]>>
           ELSE <<IF q.d[1] = NO_DAY THEN 1 ELSE q.d[1], IF q.d[2] = NO_DAY THEN last ELSE q.d[2]>>
  IN  [y |-> y, m |-> m, d |-> d]

\* (faulty) from the last month the loop goes on in the month after the first one
NextPairFebruary(p) ==
  IF p[2] < MonthDays[p[1] + 1] THEN <<p[1], p[2] + 1>>
  ELSE IF p[1] + 1 > MonthsInYear - 1 THEN <<1, 1>> ELSE <<p[1] + 1, 1>>

NextPair(p) ==
  IF p[2] < MonthDays[p[1] + 1] THEN <<p[1], p[2] + 1>>
  ELSE IF p[1] + 1 > MonthsInYear - 1 THEN <<0, 1>> ELSE <<p[1] + 1, 1>>

\* Pairs of months and days, one by one, from the first to the last, over the end of the year if need be
WithPair(array, p) == [array |-> Inserted(array, Syndrome(p[1], p[2])), at |-> p]
AddPair(a, last) == IF a.at = last THEN a ELSE WithPair(a.array, NextPair(a.at))

WithPairs(part, from, last) ==
  LET with[n \in 0 .. OrdinaryYear + 1] == IF n = 0 THEN WithPair(part, from) ELSE AddPair(with[n - 1], last)
  IN  with[OrdinaryYear + 1].array

\* Days one by one until the array is full
AddFullOmit(a, x) ==
  IF a.r # "OK" \/ BexistsIntArray(a.array, x) THEN a
  ELSE IF Len(a.array) >= MAX_FULL_OMITS THEN [a EXCEPT !.r = "E_2MANY_FULL"]
  ELSE [a EXCEPT !.array = InsertIntoSortedArray(@, x)]

WithDays(full, start, end) ==
  LET with[n \in 0 .. end - start + 1] ==
        IF n = 0 THEN [array |-> full, r |-> "OK"] ELSE AddFullOmit(with[n - 1], start + n - 1)
  IN  with[end - start + 1]

Refused(om, e) == [om |-> om, r |-> e]

\* What is omitted after the days of a line in the years that it names, and in all years
OmitEveryDay(om, r, full) ==
  [om |-> [om EXCEPT !.full = full.array], r |-> IF full.r = "OK" THEN r ELSE full.r]
OmitEveryPair(om, r, s) ==
  [om |-> [om EXCEPT !.part = WithPairs(@, <<s.m[1], s.d[1]>>, <<s.m[2], s.d[2]>>)], r |-> r]

StartOf(s) == DSE(s.y[1], s.m[1], s.d[1])
EndOf(s)   == DSE(s.y[2], s.m[2], s.d[2])

\* A line of weekdays, and one of days: s, from day start to end
OmitWeekdays(om, q) ==
  IF q.y[1] # NO_YR \/ q.m[1] # NO_MON \/ q.d[1] # NO_DAY THEN Refused(om, "E_PARSE_ERR")
  ELSE IF om.weekdays \cup q.wd = WeekDays THEN Refused(om, "E_2MANY_LOCALOMIT")
  ELSE [om |-> [om EXCEPT !.weekdays = @ \cup q.wd], r |-> q.r]

OmitDates(om, q, s, start, end) ==
  IF q.m[1] = NO_MON \/ (q.n = 2 /\ q.m[2] = NO_MON) THEN Refused(om, "E_SPEC_MON")
  ELSE IF q.n = 2 /\ ((q.y[1] = NO_YR) # (q.y[2] = NO_YR)) THEN Refused(om, "E_BAD_DATE")
  ELSE IF s.y[1] = NO_YR THEN
    IF \E i \in 1 .. 2 : s.d[i] > MonthDays[s.m[i] + 1] THEN Refused(om, "E_BAD_DATE") ELSE OmitEveryPair(om, q.r, s)
  ELSE IF \E i \in 1 .. 2 : s.d[i] > DaysInMonth(s.m[i], s.y[i]) THEN Refused(om, "E_BAD_DATE")
  ELSE IF end < start THEN Refused(om, "E_BAD_DATE")
  ELSE OmitEveryDay(om, q.r, WithDays(om.full, start, end))

\* The global OMITs after a command, which was read as q, and its return value
OmitAsRead(om, q) ==
  LET Dates(s) == OmitDates(om, q, s, StartOf(s), EndOf(s))
  IN  IF q.r \notin {"OK", "E_PARSE_AS_REM"} THEN Refused(om, IF q.r = "dump" THEN "OK" ELSE q.r)
      ELSE IF q.wd # {} THEN OmitWeekdays(om, q)
      ELSE Dates(Completed(q))

DoOmit(om, tokens) == OmitAsRead(om, ParsedOmit(tokens))

\* ADDOMIT: a full array is an error even when the day is in it
AddGlobalOmit(om, x) ==
  IF x < 0 THEN [om |-> om, r |-> "OK"]
  ELSE IF Len(om.full) = MAX_FULL_OMITS THEN [om |-> om, r |-> "E_2MANY_FULL"]
  ELSE [om |-> [om EXCEPT !.full = Inserted(@, x)], r |-> "OK"]

\* What OMIT DUMP lists: the pairs are taken out of their encoding again
DumpOmits(om) ==
  [days |-> [i \in DOMAIN om.full |-> FromDSE(om.full[i])],
   pairs |-> [i \in DOMAIN om.part |-> <<(om.part[i] \div 32) % 16, om.part[i] % 32>>],
   weekdays |-> om.weekdays]

-----------------------------------------------------------------------------
(* The commands.  A push or pop with something after it reports an error     *)
(* and has its effect all the same.                                          *)

SetOmits(om) ==
  /\ FullOmitArray' = om.full /\ PartialOmitArray' = om.part /\ WeekdayOmits' = om.weekdays

Omit(tokens) == SetOmits(DoOmit(OMITS, tokens).om) /\ UNCHANGED SavedOmitContexts
AddOmit(x)   == SetOmits(AddGlobalOmit(OMITS, x).om) /\ UNCHANGED SavedOmitContexts
DoClear      == SetOmits(NoOmits) /\ UNCHANGED SavedOmitContexts

PushOmitContext ==
  /\ Len(SavedOmitContexts) < MaxOmitPushes
  /\ SavedOmitContexts' = <<OMITS>> \o SavedOmitContexts
  /\ UNCHANGED <<FullOmitArray, PartialOmitArray, WeekdayOmits>>

PopOmitContext ==
  /\ SavedOmitContexts # << >>
  /\ SetOmits(Head(SavedOmitContexts))
  /\ SavedOmitContexts' = Tail(SavedOmitContexts)

\* The part of PerIterationInit that is about omits
NewOmits == SetOmits(NoOmits) /\ SavedOmitContexts' = << >>

OmitsInit ==
  /\ FullOmitArray = << >> /\ PartialOmitArray = << >> /\ WeekdayOmits = {}
  /\ SavedOmitContexts = << >>

OmitsNext ==
  \/ \E tokens \in OmitLines : Omit(tokens)
  \/ \E x \in AddedDays : AddOmit(x)
  \/ DoClear \/ PushOmitContext \/ PopOmitContext

-----------------------------------------------------------------------------
(* Properties.                                                               *)

Increasing(array) == \A i \in 2 .. Len(array) : array[i - 1] < array[i]

\* The arrays keep their order and their bounds, which the binary search and the memory
\* of the arrays rest on: every item is found, and nothing else.  The code never asks
\* whether there is room for another pair.
ArraysSearchable ==
  \A om \in {OMITS} \cup Range(SavedOmitContexts) :
    /\ Increasing(om.full) /\ Increasing(om.part)
    /\ Len(om.full) <= MAX_FULL_OMITS /\ Len(om.part) <= MAX_PARTIAL_OMITS
    /\ \A x \in OmitDays :
         /\ BexistsIntArray(om.full, x) <=> x \in Range(om.full)
         /\ BexistsIntArray(om.part, x) <=> x \in Range(om.part)

\* The days an OMIT line means: those between the first and the last day named, of the
\* years named or of all years.
Meant(q, s, x) ==
  LET pair == SyndromeOf[x]
      from == Syndrome(s.m[1], s.d[1])
      to   == Syndrome(s.m[2], s.d[2])
  IN  IF q.wd # {} THEN x % DaysInWeek \in q.wd
      ELSE IF q.y[1] # NO_YR THEN StartOf(s) <= x /\ x <= EndOf(s)
      ELSE IF from <= to THEN from <= pair /\ pair <= to
      ELSE from <= pair \/ pair <= to

AsMeant(after, dump, was, is, meant) ==
  CASE after.r \in {"OK", "E_PARSE_AS_REM"} /\ ~dump -> is <=> was \/ meant
    [] after.r = "E_2MANY_FULL" -> (was => is) /\ (is => was \/ meant)
    [] OTHER -> is <=> was

\* was: the days that were omitted before
LineMeans(was, q, s, after) ==
  /\ after.om.weekdays # WeekDays
  /\ \A x \in OmitDays : AsMeant(after, q.r = "dump", x \in was, IsOmittedBy(after.om, x), Meant(q, s, x))

MeansAsRead(om, was, q) == LineMeans(was, q, Completed(q), OmitAsRead(om, q))
OmittedDays(om) == {x \in OmitDays : IsOmittedBy(om, x)}

\* After an OMIT that was accepted, in whatever context, exactly its days are omitted in
\* addition.  One that the arrays have no room for omits some of its days, and one that is
\* refused for another reason none; an OMIT never omits all days of the week by their name.
OmitMeansItsDays ==
  LET AllMean(was) == \A tokens \in OmitLines \cup OtherLines : MeansAsRead(OMITS, was, ParsedOmit(tokens))
  IN  AllMean(OmittedDays(OMITS))

\* OMIT DUMP shows the pairs that are in force, not just their codes.
DumpIsComplete ==
  LET dump == DumpOmits(OMITS) IN
    \A x \in OmitDays :
      IsOmittedBy(OMITS, x) <=>
        \/ x % DaysInWeek \in dump.weekdays
        \/ FromDSE(x) \in Range(dump.days)
        \/ <<FromDSE(x).m, FromDSE(x).d>> \in Range(dump.pairs)

\* A context that is popped omits exactly the days that were omitted when it was pushed.
Omitted(om) == [full |-> Range(om.full), part |-> Range(om.part), weekdays |-> om.weekdays]
NothingOmitted(kinds) == [k \in DOMAIN kinds |-> {}]
OmitStack == INSTANCE ContextStack WITH
  Names <- {"full", "part", "weekdays"},
  Kept  <- NothingOmitted,
  env   <- Omitted(OMITS),
  saved <- [i \in DOMAIN SavedOmitContexts |-> Omitted(SavedOmitContexts[i])]
OmitContextsRestored == OmitStack!Spec
=============================================================================
