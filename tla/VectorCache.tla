------------------------------ MODULE VectorCache ------------------------------
(***************************************************************************)
(* The in-memory vector indexes and the one memory budget they share       *)
(* (ryu-crypto, vector_index.rs).  A partition is hydrated as a whole from *)
(* the sealed store, changed one vector at a time, and evicted, the least  *)
(* recently used first, when another one of any index needs its room.      *)
(*                                                                         *)
(* Every call is one critical section of the budget's lock, but for a      *)
(* hydration, which builds its partition and takes its time stamp first.   *)
(***************************************************************************)
EXTENDS Naturals, FiniteSets, Selection

CONSTANTS
  Indexes, Partitions,
  Vectors,      \* vector ids
  SizesOf,      \* [Vectors -> sets of sizes]: a replaced vector may have other dimensions
  Limit,        \* the budget
  Loaders,      \* concurrent hydrations
  MaxUses,      \* bound: the clock
  NoSize, NoPartition

ASSUME CacheBounds ==
  /\ Limit \in Nat /\ MaxUses \in Nat /\ NoSize \notin Nat
  /\ SizesOf \in [Vectors -> SUBSET (Nat \ {0})]
  /\ IsFiniteSet(Indexes) /\ IsFiniteSet(Partitions) /\ IsFiniteSet(Vectors)

CacheSlots == Indexes \X Partitions
Contents == {c \in [Vectors -> (UNION {SizesOf[v] : v \in Vectors}) \cup {NoSize}] :
               \A v \in Vectors : c[v] # NoSize => c[v] \in SizesOf[v]}
Filled(c) == {v \in Vectors : c[v] # NoSize}
BytesOf(c) == TotalOf(c, Filled(c))

VARIABLES
  cache,     \* BudgetState.partitions: content and last_used
  used,      \* BudgetState.used
  totals,    \* IndexMeta.totals of each partition
  evicted,   \* IndexMeta.evicted, of all indexes
  uses,      \* VectorBudget.clock
  loading,   \* hydrations that have built their partition
  wanted     \* history: partitions hydrated, or refused, and not dropped since

vars_vc == <<cache, used, totals, evicted, uses, loading, wanted>>

Partition == [vectors: Contents, last: 0..MaxUses]
ASSUME NoPartitionAssumption == NoPartition \notin Partition

CacheTypeOK ==
  /\ cache \in [CacheSlots -> Partition \cup {NoPartition}]
  /\ used \in Nat
  /\ totals \in [CacheSlots -> Nat]
  /\ evicted \in SUBSET CacheSlots /\ wanted \in SUBSET CacheSlots
  /\ uses \in 0..MaxUses
  /\ loading \in [Loaders -> [slot: CacheSlots, part: Partition] \cup {NoPartition}]

CacheInit ==
  /\ cache = [s \in CacheSlots |-> NoPartition]
  /\ used = 0
  /\ totals = [s \in CacheSlots |-> 0]
  /\ evicted = {} /\ wanted = {}
  /\ uses = 0
  /\ loading = [l \in Loaders |-> NoPartition]

TickUse == uses < MaxUses /\ uses' = uses + 1

HeldSlots(c) == {s \in CacheSlots : c[s] # NoPartition}
SlotBytes(c) == [s \in HeldSlots(c) |-> BytesOf(c[s].vectors)]
Weight(c) == TotalOf(SlotBytes(c), HeldSlots(c))

\* make_room: the cache without the partitions that have to go, oldest first, for
\* `extra' more bytes; all but `keep' go when they never fit.
Older(c, s) == {t \in HeldSlots(c) : c[t].last < c[s].last}
Victims(c, bytes, extra, keep) ==
  LET free(out) == bytes - TotalOf(SlotBytes(c), out)
      choices == {out \in SUBSET (HeldSlots(c) \ {keep}) :
                    \A s \in out : Older(c, s) \ {keep} \subseteq out}
      enough == {out \in choices : free(out) + extra <= Limit}
  IN IF enough = {} THEN HeldSlots(c) \ {keep}
     ELSE CHOOSE out \in enough : \A other \in enough : Cardinality(out) <= Cardinality(other)

Without(c, out) == [s \in CacheSlots |-> IF s \in out THEN NoPartition ELSE c[s]]

\* hydrate_partition, outside the lock: the vectors that opened are built.
BuildPartition(l, s, content) ==
  /\ loading[l] = NoPartition /\ TickUse
  /\ loading' = [loading EXCEPT ![l] = [slot |-> s, part |-> [vectors |-> content, last |-> uses]]]
  /\ UNCHANGED <<cache, used, totals, evicted, wanted>>

\* hydrate_partition, under it: the old one goes first, then others make room.
Hydrate(l) ==
  LET s == loading[l].slot
      part == loading[l].part
      bytes == BytesOf(part.vectors)
      rest == Without(cache, {s})
      left == used - (IF cache[s] = NoPartition THEN 0 ELSE BytesOf(cache[s].vectors))
      count == Cardinality(Filled(part.vectors))
      out == Victims(rest, left, bytes, s)
  IN
  /\ loading[l] # NoPartition
  /\ loading' = [loading EXCEPT ![l] = NoPartition]
  /\ totals' = [totals EXCEPT ![s] = IF @ > count THEN @ ELSE count]
  /\ wanted' = wanted \cup {s}
  /\ IF bytes > Limit
     THEN /\ cache' = rest /\ used' = left /\ evicted' = evicted \cup {s}
     ELSE /\ cache' = [Without(rest, out) EXCEPT ![s] = part]
          /\ used' = left - TotalOf(SlotBytes(rest), out) + bytes
          /\ evicted' = (evicted \cup out) \ {s}
  /\ UNCHANGED uses

SetTotal(s, total) ==
  /\ totals' = [totals EXCEPT ![s] = total]
  /\ UNCHANGED <<cache, used, evicted, uses, loading, wanted>>

\* upsert: a partition that is not held is read from the store when it is next.
Upsert(s, v, size) ==
  LET old == cache[s].vectors[v]
      grown == [cache EXCEPT ![s] = [vectors |-> [@.vectors EXCEPT ![v] = size], last |-> uses]]
      bytes == used + size - (IF old = NoSize THEN 0 ELSE old)
      out == IF bytes > Limit THEN Victims(grown, bytes, 0, s) ELSE {}
  IN
  /\ cache[s] # NoPartition /\ TickUse
  /\ cache' = Without(grown, out)
  /\ used' = bytes - TotalOf(SlotBytes(grown), out)
  /\ evicted' = evicted \cup out
  /\ totals' = IF old = NoSize THEN [totals EXCEPT ![s] = @ + 1] ELSE totals
  /\ UNCHANGED <<loading, wanted>>

\* Mutant of RemoveVector: the total is not kept at zero.
RemoveVectorUnclamped(s, v) ==
  /\ cache[s] # NoPartition /\ cache[s].vectors[v] # NoSize
  /\ used' = used - cache[s].vectors[v]
  /\ cache' = [cache EXCEPT ![s].vectors[v] = NoSize]
  /\ totals' = [totals EXCEPT ![s] = @ - 1]
  /\ UNCHANGED <<evicted, uses, loading, wanted>>

RemoveVector(s, v) ==
  /\ cache[s] # NoPartition /\ cache[s].vectors[v] # NoSize
  /\ used' = used - cache[s].vectors[v]
  /\ cache' = [cache EXCEPT ![s].vectors[v] = NoSize]
  /\ totals' = [totals EXCEPT ![s] = IF @ = 0 THEN 0 ELSE @ - 1]
  /\ UNCHANGED <<evicted, uses, loading, wanted>>

\* Mutant of DropPartition: its bytes are not given back.
DropPartitionUncounted(s) ==
  /\ cache' = [cache EXCEPT ![s] = NoPartition]
  /\ totals' = [totals EXCEPT ![s] = 0]
  /\ evicted' = evicted \ {s} /\ wanted' = wanted \ {s}
  /\ UNCHANGED <<used, uses, loading>>

DropPartition(s) ==
  /\ used' = used - (IF cache[s] = NoPartition THEN 0 ELSE BytesOf(cache[s].vectors))
  /\ cache' = [cache EXCEPT ![s] = NoPartition]
  /\ totals' = [totals EXCEPT ![s] = 0]
  /\ evicted' = evicted \ {s} /\ wanted' = wanted \ {s}
  /\ UNCHANGED <<uses, loading>>

\* search and search_filtered only touch the time stamp.
Search(s) ==
  /\ cache[s] # NoPartition /\ TickUse
  /\ cache' = [cache EXCEPT ![s].last = uses]
  /\ UNCHANGED <<used, totals, evicted, loading, wanted>>

CacheNext ==
  \/ \E l \in Loaders : Hydrate(l) \/ \E s \in CacheSlots, c \in Contents : BuildPartition(l, s, c)
  \/ \E s \in CacheSlots :
       \/ Search(s) \/ DropPartition(s)
       \/ \E total \in 0..Cardinality(Vectors) : SetTotal(s, total)
       \/ \E v \in Vectors : RemoveVector(s, v) \/ \E size \in SizesOf[v] : Upsert(s, v, size)

CacheSpec == CacheInit /\ [][CacheNext]_vars_vc

(***************************************************************************)
(* Properties.                                                             *)
(***************************************************************************)
\* The budget counts what is held, over replaced, removed and evicted vectors and
\* hydrations that overlap, and is kept to, but by one partition that grew alone.
\* A partition that callers hydrated is held or reported as evicted, never
\* silently gone ("so degraded semantic recall is visible").
CacheFits ==
  /\ used = Weight(cache)
  /\ used > Limit => Cardinality(HeldSlots(cache)) = 1
  /\ evicted \cap HeldSlots(cache) = {}
  /\ wanted \subseteq evicted \cup HeldSlots(cache)
=============================================================================
