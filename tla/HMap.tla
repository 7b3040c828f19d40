--------------------------------- MODULE HMap ---------------------------------
(***************************************************************************)
(* hmap.c: a hash map with chained buckets, at the level of its pointers.  *)
(* A map holds at most one HMapEntry per key, so an entry is named by its  *)
(* key; NoKey is the null pointer, and a freed entry has no value.  A key  *)
(* that is itself NULL is one of the keys, with hash 0.                    *)
(***************************************************************************)
EXTENDS Naturals, FiniteSets, Sequences, SequencesExt

CONSTANTS HKeys, HValues, NoKey,
          HashOf,               \* hash_fn_t, as a function of the key
          DEFAULT_CAPACITY

\* A comparison and a hash function that tell the same keys apart; the callers
\* put no null values (plan.c:52 and list.c:161 put FileSpecs).
ASSUME HMapAssumption ==
  /\ IsFiniteSet(HKeys) /\ NoKey \notin HKeys /\ NoKey \notin HValues
  /\ HashOf \in [HKeys -> Nat]
  /\ DEFAULT_CAPACITY \in Nat \ {0}

VARIABLES buckets,              \* struct _HMap: the array, with its length
          hsize,
          hvalue, hnext,        \* struct _HMapEntry
          hiterator,            \* struct _HMapIteratorPriv
          hlast                 \* the last call and what it returned

hmapVars == <<buckets, hsize, hvalue, hnext, hiterator, hlast>>
hdata == <<buckets, hsize, hvalue, hnext>>

\* DEFAULT_LOAD_FACTOR is 0.75; the conversion to an integer cuts off.
Threshold(length) == (length * 3) \div 4

\* Arrays are indexed from 0.
Array(length) == [i \in 0 .. length - 1 |-> NoKey]
Length(b) == Cardinality(DOMAIN b)

hmap_hash(b, k) == HashOf[k] % Length(b)

HReturns(op, args, value) == hlast' = <<op, args, value>>
HNoIterator == [index |-> 0, entry |-> NoKey, previous_entry |-> NoKey]

\* The loop along the entries of a bucket, from e on.
EntriesAt(e, next) ==
  LET at[n \in 0 .. Cardinality(HKeys)] ==
        IF n = 0 THEN e ELSE IF at[n - 1] = NoKey THEN NoKey ELSE next[at[n - 1]]
  IN  at

\* What it visits, cut off when it would come round again.
EntriesFrom(e, next) ==
  LET at == EntriesAt(e, next)
      size == Cardinality({n \in 0 .. Cardinality(HKeys) : at[n] # NoKey})
  IN  [n \in 1 .. size |-> at[n - 1]]

\* The entries in the buckets from i on.
EntriesOfBuckets(b, next, i) ==
  UNION {Range(EntriesFrom(b[j], next)) : j \in i .. Length(b) - 1}

\* The loops over all entries go on to the next entry, or to the next bucket
\* when there is none, until there is no more bucket.
LoopSteps(b) == Length(b) + Cardinality(HKeys)
NextBucket(s, b) ==
  [s EXCEPT !.bucket = @ + 1,
            !.entry = IF s.bucket + 1 < Length(b) THEN b[s.bucket + 1] ELSE NoKey]

-----------------------------------------------------------------------------
(***************************************************************************)
(* hmap_rehash: twice as many buckets and one more; each entry goes to the *)
(* end of its new bucket.                                                  *)
(***************************************************************************)
Moved(s) ==
  LET i == hmap_hash(s.buckets, s.entry)
      dest == EntriesFrom(s.buckets[i], s.next)
  IN  [bucket |-> s.bucket, entry |-> s.next[s.entry],
       buckets |-> IF dest = <<>> THEN [s.buckets EXCEPT ![i] = s.entry] ELSE s.buckets,
       next |-> [k \in HKeys |-> IF k = s.entry THEN NoKey
                                 ELSE IF dest # <<>> /\ k = dest[Len(dest)] THEN s.entry
                                 ELSE s.next[k]]]

RehashStep(s, b) ==
  IF s.bucket = Length(b) THEN s
  ELSE IF s.entry = NoKey THEN NextBucket(s, b) ELSE Moved(s)

RehashRun(b, next) ==
  LET run[n \in 0 .. LoopSteps(b)] ==
        IF n = 0 THEN [bucket |-> 0, entry |-> b[0],
                       buckets |-> Array(2 * Length(b) + 1), next |-> next]
        ELSE RehashStep(run[n - 1], b)
  IN  run

Rehash(b, next) == RehashRun(b, next)[LoopSteps(b)]

Found(k) == k \in Range(EntriesFrom(buckets[hmap_hash(buckets, k)], hnext))

\* Replaces the value of an entry, or adds one in front of its bucket.
put_before_rehash(k, v) ==
  /\ ~Found(k)
  /\ HReturns("put", <<k, v>>, NoKey)
  /\ hsize' = hsize + 1
  /\ LET i == hmap_hash(buckets, k)
         grown == hsize + 1 > Threshold(Length(buckets))
         m == IF grown THEN Rehash(buckets, hnext) ELSE [buckets |-> buckets, next |-> hnext]
     IN  /\ buckets' = [m.buckets EXCEPT ![i] = k]
         /\ hnext' = [m.next EXCEPT ![k] = m.buckets[i]]
         /\ hiterator' = IF grown THEN HNoIterator ELSE hiterator
  /\ hvalue' = [hvalue EXCEPT ![k] = v]

PutNew(k, v) ==
  /\ ~Found(k)
  /\ HReturns("put", <<k, v>>, NoKey)
  /\ hsize' = hsize + 1
  /\ LET grown == hsize + 1 > Threshold(Length(buckets))
         m == IF grown THEN Rehash(buckets, hnext) ELSE [buckets |-> buckets, next |-> hnext]
         i == hmap_hash(m.buckets, k)
     IN  /\ buckets' = [m.buckets EXCEPT ![i] = k]
         /\ hnext' = [m.next EXCEPT ![k] = m.buckets[i]]
         /\ hiterator' = IF grown THEN HNoIterator ELSE hiterator  \* callers forget it
  /\ hvalue' = [hvalue EXCEPT ![k] = v]

PutExisting(k, v) ==
  /\ Found(k)
  /\ HReturns("put", <<k, v>>, hvalue[k])
  /\ hvalue' = [hvalue EXCEPT ![k] = v]
  /\ UNCHANGED <<buckets, hsize, hnext, hiterator>>

hmap_put(k, v) == PutExisting(k, v) \/ PutNew(k, v)

\* The map without k, which is found in chain `in' of bucket i.
Unlinked(k, b, next) ==
  LET i == hmap_hash(b, k)
      in == EntriesFrom(b[i], next)
      p == CHOOSE p \in 1 .. Len(in) : in[p] = k
  IN  IF p = 1
      THEN [buckets |-> [b EXCEPT ![i] = next[k]], next |-> [next EXCEPT ![k] = NoKey]]
      ELSE [buckets |-> b,
            next |-> [next EXCEPT ![in[p - 1]] = next[k], ![k] = NoKey]]

RemoveFound(k) ==
  /\ Found(k)
  /\ HReturns("remove", <<k>>, hvalue[k])
  /\ LET m == Unlinked(k, buckets, hnext)
     IN  buckets' = m.buckets /\ hnext' = m.next
  /\ hvalue' = [hvalue EXCEPT ![k] = NoKey]
  /\ hsize' = hsize - 1
  /\ hiterator' = IF hiterator.entry = k THEN HNoIterator   \* callers forget it
                  ELSE IF hiterator.previous_entry = k
                  THEN [hiterator EXCEPT !.previous_entry = NoKey] ELSE hiterator

hmap_remove(k) ==
  \/ RemoveFound(k)
  \/ ~Found(k) /\ HReturns("remove", <<k>>, NoKey) /\ UNCHANGED <<hdata, hiterator>>

\* Also hmap_contains_key: a key is contained when it is found.
hmap_get(k) ==
  /\ HReturns("get", <<k>>, IF Found(k) THEN hvalue[k] ELSE NoKey)
  /\ UNCHANGED <<hdata, hiterator>>

hmap_size == HReturns("size", <<>>, hsize) /\ UNCHANGED <<hdata, hiterator>>

\* The entries are freed bucket by bucket; the array keeps its length.
hmap_clear ==
  /\ HReturns("clear", <<>>, NoKey)
  /\ buckets' = Array(Length(buckets)) /\ hsize' = 0
  /\ LET freed == EntriesOfBuckets(buckets, hnext, 0)
     IN  /\ hvalue' = [k \in HKeys |-> IF k \in freed THEN NoKey ELSE hvalue[k]]
         /\ hnext' = [k \in HKeys |-> IF k \in freed THEN NoKey ELSE hnext[k]]
  /\ hiterator' = HNoIterator

(***************************************************************************)
(* hmap_foreach_key and hmap_foreach_value, whose callback removes the     *)
(* current entry when its key is in `drop'.  The next entry is read before *)
(* the callback runs.                                                      *)
(***************************************************************************)
Visited(s, drop) ==
  LET m == IF s.entry \in drop THEN Unlinked(s.entry, s.buckets, s.next) ELSE s
  IN  [bucket |-> s.bucket, entry |-> s.next[s.entry],
       visited |-> Append(s.visited, s.entry), buckets |-> m.buckets, next |-> m.next]

ForEachStep(s, drop) ==
  IF s.bucket = Length(s.buckets) THEN s
  ELSE IF s.entry = NoKey THEN NextBucket(s, s.buckets) ELSE Visited(s, drop)

ForEachRun(drop) ==
  LET run[n \in 0 .. LoopSteps(buckets)] ==
        IF n = 0 THEN [bucket |-> 0, entry |-> buckets[0], visited |-> <<>>,
                       buckets |-> buckets, next |-> hnext]
        ELSE ForEachStep(run[n - 1], drop)
  IN  run

hmap_foreach(drop) ==
  LET end == ForEachRun(drop)[LoopSteps(buckets)]
  IN  /\ \A k \in drop : Found(k)
      /\ HReturns("foreach", drop, end.visited)
      /\ buckets' = end.buckets /\ hnext' = end.next
      /\ hvalue' = [k \in HKeys |-> IF k \in drop THEN NoKey ELSE hvalue[k]]
      /\ hsize' = hsize - Cardinality(drop)
      /\ hiterator' = IF drop = {} THEN hiterator ELSE HNoIterator

\* The first entry of the first bucket from i on that has one.
FirstFrom(i) ==
  LET used == {j \in i .. Length(buckets) - 1 : buckets[j] # NoKey}
      j == IF used = {} THEN Length(buckets) ELSE Min(used)
  IN  [index |-> j, entry |-> IF used = {} THEN NoKey ELSE buckets[j]]

hmap_iterator ==
  /\ HReturns("iterator", <<>>, NoKey)
  /\ hiterator' = [index |-> FirstFrom(0).index, entry |-> FirstFrom(0).entry,
                   previous_entry |-> NoKey]
  /\ UNCHANGED hdata

iterator_next_same_bucket ==
  /\ HReturns("next", <<>>, IF hiterator.entry = NoKey THEN NoKey
                            ELSE hvalue[hiterator.entry])
  /\ hiterator' = IF hiterator.entry = NoKey THEN hiterator
                  ELSE [hiterator EXCEPT !.entry = hnext[@], !.previous_entry = hiterator.entry]
  /\ UNCHANGED hdata

hmap_iterator_next ==
  /\ HReturns("next", <<>>, IF hiterator.entry = NoKey THEN NoKey
                            ELSE hvalue[hiterator.entry])
  /\ hiterator' =
       IF hiterator.entry = NoKey THEN hiterator
       ELSE LET first == IF hnext[hiterator.entry] = NoKey THEN FirstFrom(hiterator.index + 1)
                         ELSE [hiterator EXCEPT !.entry = hnext[@]]
            IN  [index |-> first.index, entry |-> first.entry,
                 previous_entry |-> hiterator.entry]
  /\ UNCHANGED hdata

-----------------------------------------------------------------------------
\* hmap_new
HMapInit ==
  /\ buckets = Array(DEFAULT_CAPACITY) /\ hsize = 0
  /\ hvalue = [k \in HKeys |-> NoKey] /\ hnext = [k \in HKeys |-> NoKey]
  /\ hiterator = HNoIterator /\ hlast = <<NoKey, <<>>, NoKey>>

HMapNext ==
  \/ \E k \in HKeys : \/ hmap_remove(k) \/ hmap_get(k)
                      \/ \E v \in HValues : hmap_put(k, v)
  \/ hmap_size \/ hmap_clear \/ \E drop \in SUBSET HKeys : hmap_foreach(drop)
  \/ hmap_iterator \/ hmap_iterator_next

HMapSpec == HMapInit /\ [][HMapNext]_hmapVars

-----------------------------------------------------------------------------
(***************************************************************************)
(* Whatever was put, removed and rehashed before: each entry is in the     *)
(* bucket of its hash and in no other, size counts the entries, and the    *)
(* load never exceeds the threshold (hmap.c).                              *)
(***************************************************************************)
HMapWellFormed ==
  LET all == EntriesOfBuckets(buckets, hnext, 0)
  IN  /\ \A i \in DOMAIN buckets :
           LET chain == EntriesFrom(buckets[i], hnext)
           IN  IsInjective(chain) /\ \A k \in Range(chain) : hmap_hash(buckets, k) = i
      /\ all = {k \in HKeys : hvalue[k] # NoKey}
      /\ hsize = Cardinality(all) /\ hsize <= Threshold(Length(buckets))

(***************************************************************************)
(* The buckets implement a map, and the iterator and hmap_foreach_* visit  *)
(* each entry once, also when the current entry is removed on the way      *)
(* ("It is allowed to remove the current entry", hmap.c).                  *)
(***************************************************************************)
HashedMap == INSTANCE MapSpec WITH
  Keys <- HKeys, Values <- HValues, Ranges <- {}, None <- NoKey,
  dict <- [k \in HKeys |-> IF Found(k) THEN hvalue[k] ELSE NoKey],
  todo <- IF hiterator.entry = NoKey THEN {}
          ELSE Range(EntriesFrom(hiterator.entry, hnext))
               \cup EntriesOfBuckets(buckets, hnext, hiterator.index + 1),
  current <- hiterator.previous_entry,
  last <- hlast

HMapIsMap == HashedMap!Spec
==============================================================================
