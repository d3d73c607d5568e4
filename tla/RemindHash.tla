----------------------------- MODULE RemindHash -----------------------------
(***************************************************************************)
(* The hash tables of src/hashtab.c: chains of items, in an array of       *)
(* buckets that grows and shrinks.  A table is a record; the operations    *)
(* return the table they leave.                                            *)
(*                                                                         *)
(* An item is a value that the table holds at most once, as the code links *)
(* an item by a pointer inside it.  malloc does not fail.                  *)
(***************************************************************************)
EXTENDS Naturals, Sequences, SequencesExt

CONSTANTS
  bucket_choices,   \* how many buckets a table may have, in increasing order
  hashfunc(_),      \* t->hashfunc
  Same(_, _),       \* t->compare returns 0
  NULL

NUM_BUCKETS(t) == bucket_choices[t.bucket_choice_index]

Empty(choice) ==
  [bucket_choice_index |-> choice,
   buckets             |-> [b \in 0 .. bucket_choices[choice] - 1 |-> << >>],
   num_entries         |-> 0]

hash_table_init == Empty(1)

\* Every item, in the order in which hash_table_next comes to it
InOrder(t) == FlattenSeq([i \in 1 .. NUM_BUCKETS(t) |-> t.buckets[i - 1]])

Link(t, item) ==
  [t EXCEPT !.buckets[hashfunc(item) % NUM_BUCKETS(t)] = <<item>> \o @,
            !.num_entries = @ + 1]

hash_table_resize(t, choice) ==
  IF choice \in DOMAIN bucket_choices THEN FoldLeft(Link, Empty(choice), InOrder(t)) ELSE t

\* Grow for a load factor above 2, shrink below 1/2
hash_table_insert(t, item) ==
  LET linked == Link(t, item)
  IN  IF linked.num_entries > 2 * NUM_BUCKETS(t)
      THEN hash_table_resize(linked, t.bucket_choice_index + 1) ELSE linked

Bucket(t, x) == t.buckets[hashfunc(x) % NUM_BUCKETS(t)]

hash_table_find(t, candidate) ==
  LET found == SelectSeq(Bucket(t, candidate), LAMBDA x : Same(candidate, x))
  IN  IF found = << >> THEN NULL ELSE Head(found)

hash_table_delete_no_resize(t, item) ==
  IF Contains(Bucket(t, item), item)
  THEN [t EXCEPT !.buckets[hashfunc(item) % NUM_BUCKETS(t)] = RemoveFirst(@, item),
                 !.num_entries = @ - 1]
  ELSE t

TooFew(t) == t.num_entries < NUM_BUCKETS(t) \div 2

hash_table_delete(t, item) ==
  LET left == hash_table_delete_no_resize(t, item)
  IN  IF left # t /\ TooFew(left)
      THEN hash_table_resize(left, t.bucket_choice_index - 1) ELSE left

FirstAfter(t, bucket) ==
  LET later == {b \in DOMAIN t.buckets : b >= bucket /\ t.buckets[b] # << >>}
  IN  IF later = {} THEN NULL ELSE Head(t.buckets[CHOOSE b \in later : \A c \in later : b <= c])

\* cur is NULL or in the table
hash_table_next(t, cur) ==
  IF cur = NULL THEN FirstAfter(t, 0)
  ELSE LET chain == Bucket(t, cur)
           i == CHOOSE i \in DOMAIN chain : chain[i] = cur
       IN  IF i < Len(chain) THEN chain[i + 1]
           ELSE FirstAfter(t, (hashfunc(cur) % NUM_BUCKETS(t)) + 1)

hash_table_chain_len(t, b) == Len(t.buckets[b])

\* hash_table_get_stats, without the averages
Stats(t) ==
  LET lengths == [b \in DOMAIN t.buckets |-> hash_table_chain_len(t, b)]
  IN  [num_entries |-> t.num_entries,
       num_buckets |-> NUM_BUCKETS(t),
       num_nonempty_buckets |-> Cardinality({b \in DOMAIN lengths : lengths[b] # 0}),
       max_len |-> CHOOSE n \in Range(lengths) : \A l \in Range(lengths) : l <= n,
       min_len |-> CHOOSE n \in Range(lengths) : \A l \in Range(lengths) : n <= l,
       sum |-> SumFunction(lengths)]

-----------------------------------------------------------------------------
(* What a table must be between two operations.                              *)

\* An item is in the chain where it will be looked for.
Placed(t) ==
  \A b \in DOMAIN t.buckets : \A i \in DOMAIN t.buckets[b] :
     hashfunc(t.buckets[b][i]) % NUM_BUCKETS(t) = b

\* No two items compare equal: the find hides none of them.
NoneHidden(t) ==
  \A x \in Range(InOrder(t)) : hash_table_find(t, x) = x

Counted(t) ==
  /\ Len(InOrder(t)) = t.num_entries
  /\ Cardinality(Range(InOrder(t))) = t.num_entries

\* The chains stay short, however the table came to what it holds.
LoadBounded(t) ==
  t.num_entries > 2 * NUM_BUCKETS(t) => t.bucket_choice_index = Len(bucket_choices)
=============================================================================
