---------------------------- MODULE RemindTables ----------------------------
(***************************************************************************)
(* Two users of the hash tables: the translations of src/trans.c, which    *)
(* TRANSLATE changes, dumps and clears, and the table of src/dedupe.c of   *)
(* the reminders that were issued.  Both delete items while they iterate.  *)
(***************************************************************************)
EXTENDS Naturals, Sequences, SequencesExt, FiniteSets

CONSTANTS
  bucket_choices,
  Originals, Translations,   \* sequences of characters that a script translates
  LANGID, en,                \* an original and a translation
  HashVal_preservecase(_),
  Reminders,      \* [date, time, body] with a body that is a sequence of characters
  NULL, NO_TIME

ASSUME BucketsGrow ==
  /\ bucket_choices \in Seq(Nat \ {0}) /\ Len(bucket_choices) > 0
  /\ \A i \in 2 .. Len(bucket_choices) : bucket_choices[i - 1] < bucket_choices[i]

ASSUME StringsOK == LANGID \in Originals /\ en \in Translations

VARIABLES
  TranslationTable,
  job,            \* what TRANSLATE is doing: "none", "dump", "clear"
  item,           \* the item it has come to, NULL at the end
  printed,        \* the output of the dump so far
  DedupeTable,
  clearing,       \* ClearDedupeTable is at this item, NULL when it is not running
  issued          \* (history) the reminders issued since the table was cleared

translation == <<TranslationTable, job, item, printed>>
dedupe == <<DedupeTable, clearing, issued>>
tables_vars == <<translation, dedupe>>

\* One command or reminder at a time
Idle == job = "none" /\ clearing = NULL

-----------------------------------------------------------------------------
(* The translations.                                                         *)

XlateItem == [orig : Originals, translated : Translations]
HashXlateItem(x) == HashVal_preservecase(x.orig)
SameXlateItem(x, y) == x.orig = y.orig

XlateTable == INSTANCE RemindHash WITH hashfunc <- HashXlateItem, Same <- SameXlateItem

FindTranslation(orig) == XlateTable!hash_table_find(TranslationTable, [orig |-> orig])

\* The conversions of a printf format, one after the other
Flags == {"#", "0", "-", "+", " ", "1", ".", "l"}
get_printf_escapes[s \in Seq(STRING)] ==
  IF Len(s) < 2 THEN << >>
  ELSE IF s[1] # "%" THEN get_printf_escapes[Tail(s)]
  ELSE IF s[2] = "%" THEN get_printf_escapes[SubSeq(s, 3, Len(s))]
  ELSE LET ends == {i \in 2 .. Len(s) : s[i] \notin Flags \/ i = Len(s)}
           end  == CHOOSE i \in ends : \A j \in ends : i <= j
       IN  SubSeq(s, 2, end) \o get_printf_escapes[SubSeq(s, end + 1, Len(s))]

printf_formatters_are_safe(orig, translated) ==
  get_printf_escapes[orig] = get_printf_escapes[translated]

InitTranslationTable ==
  XlateTable!hash_table_insert(XlateTable!hash_table_init, [orig |-> LANGID, translated |-> en])

\* (faulty) the item that was there stays
InsertAnother(table, orig, translated) ==
  XlateTable!hash_table_insert(table, [orig |-> orig, translated |-> translated])

InsertTranslation(table, orig, translated) ==
  LET old  == XlateTable!hash_table_find(table, [orig |-> orig])
      left == IF old = NULL THEN table ELSE XlateTable!hash_table_delete(table, old)
  IN  IF old # NULL /\ old.translated = translated THEN table
      ELSE IF orig # LANGID /\ orig = translated THEN left
      ELSE XlateTable!hash_table_insert(left, [orig |-> orig, translated |-> translated])

\* TRANSLATE "orig" "translated"
DoTranslate(orig, translated) ==
  /\ Idle
  /\ printf_formatters_are_safe(orig, translated)
  /\ TranslationTable' = InsertTranslation(TranslationTable, orig, translated)
  /\ UNCHANGED <<job, item, printed, dedupe>>

\* TRANSLATE "orig"
RemoveTranslation(orig) ==
  LET old  == FindTranslation(orig)
      left == IF old = NULL THEN TranslationTable ELSE XlateTable!hash_table_delete(TranslationTable, old)
  IN  /\ Idle
      /\ TranslationTable' = IF orig = LANGID THEN InsertTranslation(left, LANGID, en) ELSE left
      /\ UNCHANGED <<job, item, printed, dedupe>>

\* TRANSLATE CLEAR and TRANSLATE DUMP
Begin(what) ==
  /\ Idle
  /\ job' = what
  /\ item' = XlateTable!hash_table_next(TranslationTable, NULL)
  /\ printed' = IF what = "dump" /\ FindTranslation(LANGID) # NULL
                THEN <<FindTranslation(LANGID)>> ELSE << >>
  /\ UNCHANGED <<TranslationTable, dedupe>>

\* (faulty) LANGID is shown again
DumpItemAgain ==
  /\ job = "dump" /\ item # NULL
  /\ printed' = Append(printed, item)
  /\ item' = XlateTable!hash_table_next(TranslationTable, item)
  /\ UNCHANGED <<TranslationTable, job, dedupe>>

DumpItem ==
  /\ job = "dump" /\ item # NULL
  /\ printed' = IF item.orig = LANGID THEN printed ELSE Append(printed, item)
  /\ item' = XlateTable!hash_table_next(TranslationTable, item)
  /\ UNCHANGED <<TranslationTable, job, dedupe>>

ClearItem ==
  /\ job = "clear" /\ item # NULL
  /\ item' = XlateTable!hash_table_next(TranslationTable, item)
  /\ TranslationTable' = XlateTable!hash_table_delete_no_resize(TranslationTable, item)
  /\ UNCHANGED <<job, printed, dedupe>>

Finish ==
  /\ job # "none" /\ item = NULL
  /\ TranslationTable' = IF job = "clear" THEN InitTranslationTable ELSE TranslationTable
  /\ job' = "none" /\ printed' = << >>
  /\ UNCHANGED <<item, dedupe>>

-----------------------------------------------------------------------------
(* Looking up a word in another case.                                        *)

UpperOf == [a |-> "A", b |-> "B", c |-> "C", d |-> "D"]
LowerOf == [C \in Range(UpperOf) |-> CHOOSE c \in DOMAIN UpperOf : UpperOf[c] = C]
tolower(c) == IF c \in DOMAIN LowerOf THEN LowerOf[c] ELSE c
str_tolower(s) == [i \in DOMAIN s |-> tolower(s[i])]
ucfirst(s) ==
  [i \in DOMAIN s |-> IF i = 1 /\ s[i] \in DOMAIN UpperOf THEN UpperOf[s[i]] ELSE s[i]]

GetTranslatedStringTryingVariants(orig) ==
  LET lower == str_tolower(orig)
      Has(s) == FindTranslation(s) # NULL
      Of(s) == FindTranslation(s).translated
  IN  IF Has(orig) THEN Of(orig)
      ELSE IF lower # orig /\ Has(lower) THEN ucfirst(str_tolower(Of(lower)))
      ELSE IF orig # << >> /\ orig[1] \in DOMAIN UpperOf /\ Has(ucfirst(lower))
           THEN str_tolower(Of(ucfirst(lower)))
      ELSE NULL

-----------------------------------------------------------------------------
(* The reminders issued.                                                     *)

DedupeHashFunc(r) ==
  r.date + (IF r.time = NO_TIME THEN 0 ELSE r.time) + HashVal_preservecase(r.body)
CompareDedupes(r, s) == r.date = s.date /\ r.time = s.time /\ r.body = s.body

DedupeHash == INSTANCE RemindHash WITH hashfunc <- DedupeHashFunc, Same <- CompareDedupes

\* A reminder is triggered and is issued unless it was before.
ShouldDedupe(r) ==
  LET found == DedupeHash!hash_table_find(DedupeTable, r)
  IN  /\ Idle
      /\ DedupeTable' = IF found = NULL THEN DedupeHash!hash_table_insert(DedupeTable, r) ELSE DedupeTable
      /\ issued' = IF found = NULL THEN issued \cup {r} ELSE issued
      /\ UNCHANGED <<clearing, translation>>

\* ClearDedupeTable, at the end of an iteration and before the queue is run
BeginClearing ==
  /\ Idle /\ DedupeTable.num_entries > 0
  /\ clearing' = DedupeHash!hash_table_next(DedupeTable, NULL)
  /\ UNCHANGED <<DedupeTable, issued, translation>>

ClearDedupe ==
  LET left == DedupeHash!hash_table_delete_no_resize(DedupeTable, clearing)
  IN  /\ clearing # NULL
      /\ clearing' = DedupeHash!hash_table_next(DedupeTable, clearing)
      /\ issued' = issued \ {clearing}
      /\ DedupeTable' = IF clearing' = NULL THEN DedupeHash!hash_table_init ELSE left
      /\ UNCHANGED translation

-----------------------------------------------------------------------------
TablesInit ==
  /\ TranslationTable = InitTranslationTable
  /\ job = "none" /\ item = NULL /\ printed = << >>
  /\ DedupeTable = DedupeHash!hash_table_init
  /\ clearing = NULL /\ issued = {}

Translating ==
  \/ \E orig \in Originals, translated \in Translations : DoTranslate(orig, translated)
  \/ \E orig \in Originals : RemoveTranslation(orig)
  \/ \E what \in {"dump", "clear"} : Begin(what)
  \/ DumpItem \/ ClearItem \/ Finish

Issuing ==
  \/ \E r \in Reminders : ShouldDedupe(r)
  \/ BeginClearing \/ ClearDedupe

TablesNext == Translating \/ Issuing


-----------------------------------------------------------------------------
(* Properties.                                                               *)

\* Every item has its type.
TablesTypeOK ==
  /\ job \in {"none", "dump", "clear"} /\ item \in XlateItem \cup {NULL}
  /\ printed \in Seq(XlateItem)
  /\ Range(XlateTable!InOrder(TranslationTable)) \subseteq XlateItem
  /\ Range(DedupeHash!InOrder(DedupeTable)) \subseteq Reminders
  /\ clearing \in Reminders \cup {NULL} /\ issued \subseteq Reminders

\* After every operation each item is where the find looks for it and hidden by no other,
\* and the count that decides over growing is right.
ItemsFound ==
  /\ XlateTable!Placed(TranslationTable) /\ XlateTable!NoneHidden(TranslationTable) /\ XlateTable!Counted(TranslationTable)
  /\ DedupeHash!Placed(DedupeTable) /\ DedupeHash!NoneHidden(DedupeTable) /\ DedupeHash!Counted(DedupeTable)

\* No sequence of operations makes the chains longer than two on the average, and the
\* statistics of -dh tell them as they are.
LoadBounded ==
  /\ XlateTable!LoadBounded(TranslationTable) /\ DedupeHash!LoadBounded(DedupeTable)
  /\ LET s == XlateTable!Stats(TranslationTable) IN
       /\ s.sum = s.num_entries
       /\ s.min_len * s.num_buckets <= s.sum
       /\ s.max_len + s.min_len * (s.num_buckets - 1) <= s.sum
       /\ s.sum <= s.max_len * s.num_nonempty_buckets

\* A table that was just grown is not shrunk by the next deletion, nor one that was just
\* shrunk grown by the next insertion: they do not go back and forth.
NoThrashing ==
  [][LET old == TranslationTable
         new == TranslationTable'
     IN  /\ new.bucket_choice_index > old.bucket_choice_index =>
              ~ XlateTable!TooFew([new EXCEPT !.num_entries = @ - 1])
         /\ new.bucket_choice_index < old.bucket_choice_index /\ job = "none" =>
              new.num_entries + 1 <= 2 * XlateTable!NUM_BUCKETS(new)]_TranslationTable

\* Deleting every item while iterating over the table leaves none behind when the
\* buckets are freed, although the iterator must not be used on a table that changes.
NothingLeaks ==
  /\ job = "clear" /\ item = NULL => TranslationTable.num_entries = 0
  /\ clearing = NULL => DedupeHash!InOrder(DedupeTable) = << >> \/ issued # {}

\* A reminder is suppressed exactly if the same text was issued for the same date and
\* time since the table was cleared.
IssuedRemembered ==
  clearing = NULL =>
    \A r \in Reminders : r \in issued <=> DedupeHash!hash_table_find(DedupeTable, r) # NULL

\* The tables are sound after every operation, also those that delete while they iterate
TablesSound == TablesTypeOK /\ ItemsFound /\ LoadBounded /\ NothingLeaks /\ IssuedRemembered

\* A message that is printed with printf has, translated, the conversions that its
\* arguments are for.
Conversions(s) ==
  LET Starts(i) == s[i] = "%" /\ i < Len(s) /\ ~ s[i + 1] = "%"
                   /\ (Cardinality({j \in 1 .. i : \A k \in j .. i : s[k] = "%"}) % 2 = 1)
      Text(i) == CHOOSE t \in {SubSeq(s, i + 1, j) : j \in i + 1 .. Len(s)} :
                   Last(t) \notin Flags /\ \A k \in 1 .. Len(t) - 1 : t[k] \in Flags
  IN  [n \in 1 .. Cardinality({i \in DOMAIN s : Starts(i)}) |->
         LET i == CHOOSE i \in DOMAIN s : Starts(i) /\ Cardinality({j \in 1 .. i : Starts(j)}) = n
         IN  Text(i)]

FormatsKept ==
  \A x \in Range(XlateTable!InOrder(TranslationTable)) : Conversions(x.orig) = Conversions(x.translated)

\* A word that has a translation is found in lower case and with a capital as well, and
\* translated into the same letters.
FoundInEitherCase ==
  Idle =>
    \A x \in Range(XlateTable!InOrder(TranslationTable)) : x.orig \in {str_tolower(x.orig), ucfirst(str_tolower(x.orig))} =>
      \A w \in {str_tolower(x.orig), ucfirst(str_tolower(x.orig))} :
        LET found == GetTranslatedStringTryingVariants(w)
        IN  /\ found # NULL
            /\ FindTranslation(w) = NULL => str_tolower(found) = str_tolower(x.translated)
                                          /\ (found = ucfirst(found) <=> w = ucfirst(w))

\* Seen from the script the table is a dictionary, which a dump shows entry by entry;
\* what it prints with keeps its conversions, a word is found in either case, and the
\* table behind it does not go back and forth between two sizes.
Translated(w) == FindTranslation(w).translated
DictionaryNow ==
  IF job = "clear" THEN LANGID :> en
  ELSE [w \in {w \in Originals : FindTranslation(w) # NULL} |-> Translated(w)]

AsDictionary == INSTANCE Dictionary WITH
  Words   <- Originals \cup Translations,
  Initial <- LANGID :> en,
  dict    <- DictionaryNow,
  shown   <- [i \in DOMAIN printed |-> <<printed[i].orig, printed[i].translated>>]

ShowsDictionary == AsDictionary!Spec /\ [](FormatsKept /\ FoundInEitherCase) /\ NoThrashing
=============================================================================
