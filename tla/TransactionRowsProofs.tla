----------------------- MODULE TransactionRowsProofs -----------------------
(***************************************************************************)
(* Theorems about TransactionRows, for any transactions, batches, command  *)
(* lines, chunk size, concurrency and number of attempts.                  *)
(*                                                                         *)
(* Every property follows from one inductive invariant, IndInv.  A row is  *)
(* always exactly what one of the two mappings makes of its transaction    *)
(* (RowInv), so that what a row says is a matter of the mappings alone.    *)
(* A writer takes its locks in ascending order (TodoInv, LockInv), so that *)
(* in a cycle of writers the ids waited for would grow for ever: the least *)
(* of them contradicts it.  A chunk that is committed has resolved every   *)
(* row of it (UpsertInv), and the parties come from the batches alone      *)
(* (PartiesInv).                                                           *)
(*                                                                         *)
(* Where a proof is by induction over numbers it takes a least             *)
(* counterexample (LeastNatural), which exists because < is well-founded.  *)
(***************************************************************************)
EXTENDS TransactionRows, FiniteSetTheorems, SequenceTheorems, WellFoundedInduction,
        NaturalsInduction, TLAPS

(***************************************************************************)
(* The inductive invariant                                                 *)
(***************************************************************************)

\* A row is what the one or the other phase maps, nothing in between: an upsert that
\* finds a row of the transaction processor makes it one of the acceptance phase.  It
\* is the row of a transaction that was kept.
RowInv ==
    \A id \in Ids :
        /\ transactions[id] \in {NoRow, map_transaction(args, Transaction[id]),
                                 map_optional_transaction(args, Transaction[id])}
        /\ transactions[id] # NoRow => id \in Kept("insert") \cup Kept("upsert")

\* What a writer has still to lock is part of its chunk, in ascending order.
TodoInv ==
    \A s \in Writers \X Chunks :
        /\ Range(todo[s]) \subseteq Range(Chunk(Kind(s), s[2]))
        /\ \A i, j \in DOMAIN todo[s] : i < j => todo[s][i] < todo[s][j]

\* A lock of a writer is on a row of its chunk, below all it has still to lock; an
\* insert holds it only where there is no row.
LockInv ==
    \A s \in Writers \X Chunks, id \in Ids :
        lock[id] = s =>
            /\ id \in Range(Chunk(Kind(s), s[2]))
            /\ \A j \in DOMAIN todo[s] : id < todo[s][j]
            /\ Kind(s) = "insert" => transactions[id] = NoRow

\* An upsert passes over no row: it holds what it need not lock any more.  Once it is
\* committed the rows of its chunk are resolved, unless they were deleted since.
UpsertInv ==
    \A n \in Chunks : \A id \in Range(Chunk("upsert", n)) :
        LET s == <<"upsert", n>>
        IN  /\ phase[s] = "run" => id \in Range(todo[s]) \/ lock[id] = s
            /\ phase[s] = "done" => Resolved(id) \/ id \in pruned

\* Only the table that is in use has rows, those of the writers.
PartiesInv ==
    /\ DOMAIN parties = {"addresses_transactions", "scripts_transactions"}
    /\ \A table \in DOMAIN parties :
          parties[table] \subseteq
              IF table = PartyTable THEN Parties("insert") \cup Parties("upsert") ELSE {}
    /\ \A kind \in recorded : Parties(kind) \subseteq parties[PartyTable]

FunctionsInv ==
    /\ todo \in [Statements -> Seq(Ids)]
    /\ attempts \in [Statements -> 0..DEADLOCK_MAX_ATTEMPTS]
    /\ up => crashes <= MaxCrashes

IndInv ==
    /\ TypeOK
    /\ FunctionsInv
    /\ RowInv
    /\ TodoInv
    /\ LockInv
    /\ UpsertInv
    /\ PartiesInv

-----------------------------------------------------------------------------
(***************************************************************************)
(* Sorting                                                                 *)
(***************************************************************************)

\* How many members of S there are up to one of them.
Rank(S) == [id \in S |-> Cardinality({x \in S : x <= id})]

LEMMA RankGrows ==
    ASSUME NEW S \in SUBSET Int, IsFiniteSet(S)
    PROVE  /\ Cardinality(S) \in Nat
           /\ Rank(S) \in [S -> 1..Cardinality(S)]
           /\ \A x, y \in S : x < y => Rank(S)[x] < Rank(S)[y]
<1> DEFINE Upto(id) == {x \in S : x <= id}
<1>1. Cardinality(S) \in Nat
  BY FS_CardinalityType
<1>2. ASSUME NEW id \in S
      PROVE  /\ IsFiniteSet(Upto(id))
             /\ Cardinality(Upto(id)) \in 1..Cardinality(S)
  <2>1. Upto(id) \in SUBSET S
    OBVIOUS
  <2>2. IsFiniteSet(Upto(id)) /\ Cardinality(Upto(id)) <= Cardinality(S)
    BY <2>1, FS_Subset
  <2>3. id \in Upto(id)
    OBVIOUS
  <2>4. Cardinality(Upto(id)) # 0
    BY <2>2, <2>3, FS_EmptySet
  <2>5. Cardinality(Upto(id)) \in Nat
    BY <2>2, FS_CardinalityType
  <2> QED BY <1>1, <2>2, <2>4, <2>5
<1>3. ASSUME NEW x \in S, NEW y \in S, x < y
      PROVE  Cardinality(Upto(x)) < Cardinality(Upto(y))
  <2>1. Upto(x) \in SUBSET Upto(y)
    <3>1. x \in Int /\ y \in Int /\ \A z \in S : z \in Int
      OBVIOUS
    <3>2. \A z \in S : z <= x => z <= y
      BY <1>3, <3>1
    <3> QED BY <3>2
  <2>2. y \in Upto(y) /\ y \notin Upto(x)
    BY <1>3
  <2>3. /\ Cardinality(Upto(x)) <= Cardinality(Upto(y))
        /\ Cardinality(Upto(y)) = Cardinality(Upto(x)) => Upto(y) = Upto(x)
    BY <1>2, <2>1, FS_Subset
  <2> HIDE DEF Upto
  <2>4. Cardinality(Upto(x)) \in Nat /\ Cardinality(Upto(y)) \in Nat
    BY <1>1, <1>2
  <2> QED BY <2>2, <2>3, <2>4
<1> QED BY <1>1, <1>2, <1>3 DEF Rank

\* Sorted(S) lists S, each member once, in ascending order.
LEMMA SortedLists ==
    ASSUME NEW S \in SUBSET Int, IsFiniteSet(S)
    PROVE  /\ Sorted(S) \in Seq(S)
           /\ Len(Sorted(S)) = Cardinality(S)
           /\ \A m, n \in 1..Cardinality(S) : m < n => Sorted(S)[m] < Sorted(S)[n]
           /\ \A id \in S : \E n \in 1..Cardinality(S) : Sorted(S)[n] = id
<1> DEFINE N == Cardinality(S)
           R == Rank(S)
<1>1. N \in Nat /\ R \in [S -> 1..N]
  BY RankGrows
<1>2. \A x, y \in S : x < y => R[x] < R[y]
  BY RankGrows
<1>3. \A x, y \in S : R[x] = R[y] => x = y
  <2> SUFFICES ASSUME NEW x \in S, NEW y \in S, x # y PROVE R[x] # R[y]
    OBVIOUS
  <2>1. x < y \/ y < x
    OBVIOUS
  <2>2. R[x] \in Int /\ R[y] \in Int
    BY <1>1
  <2> HIDE DEF R
  <2> QED BY <1>2, <2>1, <2>2
<1>4. R \in Injection(S, 1..N)
  BY <1>1, <1>3 DEF Injection, IsInjective
<1>5. R \in Surjection(S, 1..N)
  <2>1. IsFiniteSet(1..N) /\ Cardinality(1..N) = N
    BY <1>1, FS_Interval
  <2> QED BY <1>4, <2>1, FS_Injection
<1>6. \A n \in 1..N : \E id \in S : R[id] = n
  BY <1>5 DEF Surjection
<1>7. ASSUME NEW n \in 1..N PROVE Sorted(S)[n] \in S /\ R[Sorted(S)[n]] = n
  <2>1. Sorted(S)[n] = CHOOSE id \in S : Cardinality({x \in S : x <= id}) = n
    BY DEF Sorted
  <2>2. \E id \in S : Cardinality({x \in S : x <= id}) = n
    BY <1>6 DEF Rank
  <2>3. /\ Sorted(S)[n] \in S
        /\ Cardinality({x \in S : x <= Sorted(S)[n]}) = n
    BY <2>1, <2>2, Zenon
  <2> QED BY <2>3 DEF Rank
<1> HIDE DEF R
<1>8. Sorted(S) \in Seq(S) /\ Len(Sorted(S)) = N
  <2>1. Sorted(S) \in [1..N -> S]
    BY <1>7 DEF Sorted
  <2> QED BY <1>1, <2>1
<1>9. ASSUME NEW m \in 1..N, NEW n \in 1..N, m < n PROVE Sorted(S)[m] < Sorted(S)[n]
  <2> DEFINE x == Sorted(S)[m]
             y == Sorted(S)[n]
  <2>1. x \in Int /\ y \in Int /\ x \in S /\ y \in S /\ R[x] = m /\ R[y] = n
    BY <1>7
  <2> HIDE DEF x, y
  <2>2. ~(y < x) /\ x # y
    BY <1>2, <1>9, <2>1
  <2>3. x < y
    BY <2>1, <2>2
  <2> QED BY <2>3 DEF x, y
<1>10. ASSUME NEW id \in S PROVE \E n \in 1..N : Sorted(S)[n] = id
  <2>1. R[id] \in 1..N
    BY <1>1
  <2>2. Sorted(S)[R[id]] = id
    BY <1>3, <1>7, <2>1
  <2> QED BY <2>1, <2>2
<1> QED BY <1>8, <1>9, <1>10

-----------------------------------------------------------------------------
(***************************************************************************)
(* Chunks                                                                  *)
(***************************************************************************)
LEMMA DivBelow ==
    ASSUME NEW d \in Nat, NEW n \in Nat \ {0}, NEW w \in Nat
    PROVE  d \div n < w <=> d < w * n
<1> DEFINE q == d \div n
           r == d % n
<1>1. q \in Nat /\ r \in 0..(n - 1) /\ d = n * q + r
  BY SMT
<1> HIDE DEF q, r
<1>2. ASSUME q < w PROVE d < w * n
  <2>1. (q + 1) * n <= w * n
    BY <1>1, <1>2, SMT
  <2>2. (q + 1) * n = n * q + n
    BY <1>1, SMT
  <2> QED BY <1>1, <2>1, <2>2, SMT
<1>3. ASSUME w <= q PROVE w * n <= d
  <2>1. w * n <= q * n
    BY <1>1, <1>3, SMT
  <2> QED BY <1>1, <2>1, SMT
<1> QED BY <1>1, <1>2, <1>3, SMT DEF q

LEMMA IdsFinite ==
    /\ Ids \in SUBSET Int /\ IsFiniteSet(Ids)
    /\ Range(AcceptedBatch) \subseteq Ids
<1>1. /\ Ids = Range(ProcessedBatch) /\ ProcessedBatch \in Seq(Int)
      /\ Range(AcceptedBatch) \subseteq Ids
  BY RowsAssumption DEF Ids
<1>2. ProcessedBatch \in Surjection(1..Len(ProcessedBatch), Range(ProcessedBatch))
  BY <1>1 DEF Surjection, Range
<1>3. IsFiniteSet(1..Len(ProcessedBatch))
  BY <1>1, FS_Interval
<1>4. Range(ProcessedBatch) \in SUBSET Int
  BY <1>1 DEF Range
<1> QED BY <1>1, <1>2, <1>3, <1>4, FS_Surjection

LEMMA KeptFinite ==
    ASSUME NEW kind
    PROVE  /\ Kept(kind) \in SUBSET Ids /\ Kept(kind) \in SUBSET Int
           /\ IsFiniteSet(Kept(kind))
           /\ Cardinality(Kept(kind)) \in Nat
           /\ Cardinality(Ids) \in Nat
           /\ Cardinality(Kept(kind)) <= Cardinality(Ids)
<1>1. Kept(kind) \in SUBSET Ids
  BY IdsFinite, RowsAssumption DEF Kept, Ids
<1>2. IsFiniteSet(Kept(kind)) /\ Cardinality(Kept(kind)) <= Cardinality(Ids)
  BY <1>1, IdsFinite, FS_Subset
<1> QED BY <1>1, <1>2, IdsFinite, FS_CardinalityType

\* What insert_txs sorts: the kept ids, each once, in ascending order.
LEMMA ValuesList ==
    ASSUME NEW kind
    PROVE  /\ Values(kind) \in Seq(Kept(kind))
           /\ Len(Values(kind)) \in Nat /\ Len(Values(kind)) <= Cardinality(Ids)
           /\ \A m, n \in 1..Len(Values(kind)) : m < n => Values(kind)[m] < Values(kind)[n]
           /\ Enabled(args, "TransactionsTable") =>
                 \A id \in Kept(kind) : \E n \in 1..Len(Values(kind)) : Values(kind)[n] = id
<1>1. CASE Enabled(args, "TransactionsTable")
  <2>1. Values(kind) = Sorted(Kept(kind))
    BY <1>1 DEF Values
  <2> QED BY <2>1, KeptFinite, SortedLists
<1>2. CASE ~Enabled(args, "TransactionsTable")
  <2>1. Values(kind) = <<>>
    BY <1>2 DEF Values
  <2> QED BY <1>2, <2>1, KeptFinite
<1> QED BY <1>1, <1>2

\* The i-th row of the n-th chunk.
LEMMA ChunkPositions ==
    ASSUME NEW kind, NEW n \in Nat \ {0}
    PROVE  /\ Chunk(kind, n) \in Seq(Kept(kind))
           /\ \A i \in 1..Len(Chunk(kind, n)) :
                 /\ i <= ChunkSize
                 /\ (n - 1) * ChunkSize + i \in 1..Len(Values(kind))
                 /\ Chunk(kind, n)[i] = Values(kind)[(n - 1) * ChunkSize + i]
           /\ \A p \in 1..Len(Values(kind)) :
                 (n - 1) * ChunkSize < p /\ p <= n * ChunkSize =>
                    \E i \in 1..Len(Chunk(kind, n)) : Chunk(kind, n)[i] = Values(kind)[p]
<1> DEFINE v == Values(kind)
           before == (n - 1) * ChunkSize
           upto == n * ChunkSize
           last == IF upto < Len(v) THEN upto ELSE Len(v)
           c == SubSeq(v, before + 1, last)
<1>1. Chunk(kind, n) = c
  BY DEF Chunk
<1>2. before \in Nat /\ upto = before + ChunkSize /\ ChunkSize \in Nat \ {0}
  BY RowsAssumption, SMT
<1>3. v \in Seq(Kept(kind)) /\ Len(v) \in Nat
  BY ValuesList
<1> HIDE DEF before, upto, v
<1>4. last \in Nat /\ last <= upto /\ last <= Len(v)
  BY <1>2, <1>3
<1>5. \A i \in (before + 1)..last : v[i] \in Kept(kind)
  BY <1>2, <1>3, <1>4
<1>6. /\ c \in Seq(Kept(kind))
      /\ Len(c) = IF before + 1 <= last THEN last - (before + 1) + 1 ELSE 0
      /\ \A i \in 1..(last - (before + 1) + 1) : c[i] = v[before + 1 + i - 1]
  <2>1. before + 1 \in Int /\ last \in Int
    BY <1>2, <1>4
  <2> HIDE DEF last
  <2> QED BY <1>5, <2>1, SubSeqProperties
<1> HIDE DEF c
<1>7. \A i \in 1..Len(c) :
          i <= ChunkSize /\ before + i \in 1..Len(v) /\ c[i] = v[before + i]
  <2> HIDE DEF last
  <2> TAKE i \in 1..Len(c)
  <2>1. i \in 1..(last - (before + 1) + 1) /\ i <= ChunkSize /\ before + i \in 1..Len(v)
    BY <1>2, <1>3, <1>4, <1>6
  <2>2. before + 1 + i - 1 = before + i
    BY <1>2, <2>1
  <2>3. c[i] = v[before + 1 + i - 1]
    BY <1>6, <2>1
  <2> QED BY <2>1, <2>2, <2>3
<1>8. ASSUME NEW p \in 1..Len(v), before < p, p <= upto
      PROVE  \E i \in 1..Len(c) : c[i] = v[p]
  <2>1. p - before \in 1..Len(c) /\ before + (p - before) = p
    BY <1>2, <1>3, <1>4, <1>6, <1>8
  <2>2. c[p - before] = v[p]
    BY <1>7, <2>1
  <2> QED BY <2>1, <2>2
<1> QED BY <1>1, <1>6, <1>7, <1>8 DEF before, upto, v

LEMMA ChunksAreNumbers == Chunks \subseteq Nat \ {0}
BY DEF Chunks

\* Each chunk is ascending,
LEMMA ChunkAscends ==
    ASSUME NEW kind, NEW n \in Chunks
    PROVE  /\ Chunk(kind, n) \in Seq(Kept(kind)) /\ Chunk(kind, n) \in Seq(Ids)
           /\ \A i, j \in 1..Len(Chunk(kind, n)) :
                 i < j => Chunk(kind, n)[i] < Chunk(kind, n)[j]
<1>1. n \in Nat \ {0}
  BY ChunksAreNumbers
<1>2. (n - 1) * ChunkSize \in Nat
  BY <1>1, RowsAssumption, SMT
<1>3. Chunk(kind, n) \in Seq(Kept(kind))
  BY <1>1, ChunkPositions
<1>4. Chunk(kind, n) \in Seq(Ids)
  BY <1>3, KeptFinite, SeqMonotonic
<1>5. ASSUME NEW i \in 1..Len(Chunk(kind, n)), NEW j \in 1..Len(Chunk(kind, n)), i < j
      PROVE  Chunk(kind, n)[i] < Chunk(kind, n)[j]
  <2> DEFINE p == (n - 1) * ChunkSize + i
             q == (n - 1) * ChunkSize + j
  <2>1. /\ p \in 1..Len(Values(kind)) /\ q \in 1..Len(Values(kind))
        /\ Chunk(kind, n)[i] = Values(kind)[p] /\ Chunk(kind, n)[j] = Values(kind)[q]
    BY <1>1, ChunkPositions
  <2>2. p < q
    BY <1>2, <1>3, <1>5
  <2> HIDE DEF p, q
  <2> QED BY <2>1, <2>2, ValuesList
<1> QED BY <1>3, <1>4, <1>5

\* no id is in two chunks of a batch,
LEMMA InOneChunk ==
    ASSUME NEW kind, NEW m \in Chunks, NEW n \in Chunks,
           NEW id \in Range(Chunk(kind, m)), id \in Range(Chunk(kind, n))
    PROVE  m = n
<1>1. m \in Nat \ {0} /\ n \in Nat \ {0} /\ ChunkSize \in Nat \ {0}
  BY ChunksAreNumbers, RowsAssumption
<1>2. PICK i \in 1..Len(Chunk(kind, m)) : Chunk(kind, m)[i] = id
  BY ChunkAscends DEF Range
<1>3. PICK j \in 1..Len(Chunk(kind, n)) : Chunk(kind, n)[j] = id
  BY ChunkAscends DEF Range
<1> DEFINE p == (m - 1) * ChunkSize + i
           q == (n - 1) * ChunkSize + j
           v == Values(kind)
<1>4. p \in 1..Len(v) /\ i <= ChunkSize /\ v[p] = id
  BY <1>1, <1>2, ChunkPositions
<1>5. q \in 1..Len(v) /\ j <= ChunkSize /\ v[q] = id
  BY <1>1, <1>3, ChunkPositions
<1>6. p = q
  <2> HIDE DEF p, q
  <2>1. v \in Seq(Kept(kind)) /\ Len(v) \in Nat
    BY ValuesList
  <2>2. v[p] \in Int /\ v[q] \in Int
    BY <1>4, <1>5, <2>1, KeptFinite
  <2>3. ~(p < q) /\ ~(q < p)
    BY <1>4, <1>5, <2>2, ValuesList
  <2> QED BY <1>4, <1>5, <2>1, <2>3
<1>7. i \in Nat \ {0} /\ j \in Nat \ {0}
  BY <1>1, ChunkAscends
<1>8. ASSUME NEW a \in Nat \ {0}, NEW b \in Nat \ {0}, a < b
      PROVE  a * ChunkSize <= (b - 1) * ChunkSize /\ a * ChunkSize = (a - 1) * ChunkSize + ChunkSize
  BY <1>1, <1>8, SMT
<1>9. ~(m < n)
  BY <1>1, <1>4, <1>5, <1>6, <1>7, <1>8, SMT
<1>10. ~(n < m)
  BY <1>1, <1>4, <1>5, <1>6, <1>7, <1>8, SMT
<1> QED BY <1>1, <1>9, <1>10

\* and every kept id is in one.
LEMMA InSomeChunk ==
    ASSUME NEW kind, Enabled(args, "TransactionsTable"), NEW id \in Kept(kind)
    PROVE  \E n \in Chunks : id \in Range(Chunk(kind, n))
<1> DEFINE C == ChunkSize
           M == Cardinality(Ids)
<1>1. PICK p \in 1..Len(Values(kind)) : Values(kind)[p] = id
  BY ValuesList
<1>2. C \in Nat \ {0} /\ M \in Nat /\ p \in Nat \ {0} /\ p <= M
  <2>1. C \in Nat \ {0}
    BY RowsAssumption
  <2>2. Len(Values(kind)) \in Nat /\ Len(Values(kind)) <= M
    BY ValuesList
  <2>3. M \in Nat
    BY KeptFinite
  <2> HIDE DEF C, M
  <2> QED BY <2>1, <2>2, <2>3
<1> HIDE DEF C, M
<1> DEFINE k == (p - 1) \div C
           n == k + 1
<1>3. k \in Nat
  BY <1>2, SMT
<1>4. p - 1 < (k + 1) * C /\ k * C <= p - 1
  <2>1. k < k + 1 /\ ~(k < k)
    BY <1>3
  <2>2. p - 1 \in Nat
    BY <1>2
  <2>3. k + 1 \in Nat
    BY <1>3
  <2>4. k < k + 1 <=> p - 1 < (k + 1) * C
    BY <1>2, <2>2, <2>3, DivBelow
  <2>5. k < k <=> p - 1 < k * C
    BY <1>2, <1>3, <2>2, DivBelow
  <2>6. k * C \in Int
    BY <1>2, <1>3, SMT
  <2> QED BY <1>2, <2>1, <2>2, <2>4, <2>5, <2>6
<1> HIDE DEF k
<1>5. (k + 1) * C = k * C + C /\ k * C \in Nat
  BY <1>2, <1>3, SMT
<1>6. ~(M + C - 1 < n * C)
  BY <1>2, <1>3, <1>4, <1>5
<1>7. ~((M + C - 1) \div C < n)
  <2>1. M + C - 1 \in Nat /\ n \in Nat
    BY <1>2, <1>3
  <2> HIDE DEF n
  <2> QED BY <1>2, <1>6, <2>1, DivBelow
<1>8. n \in 1..((M + C - 1) \div C)
  <2>1. M + C - 1 \in Nat
    BY <1>2
  <2>2. (M + C - 1) \div C \in Int
    BY <1>2, <2>1, SMT
  <2> QED BY <1>3, <1>7, <2>2
<1>9. n \in Chunks
  BY <1>8 DEF Chunks, C, M
<1>10. (n - 1) * ChunkSize < p /\ p <= n * ChunkSize
  <2>1. n - 1 = k
    BY <1>3
  <2> QED BY <1>2, <1>4, <1>5, <2>1 DEF C
<1>11. n \in Nat \ {0}
  BY <1>3
<1> HIDE DEF n
<1>12. \E i \in 1..Len(Chunk(kind, n)) : Chunk(kind, n)[i] = id
  BY <1>1, <1>10, <1>11, ChunkPositions
<1>13. DOMAIN Chunk(kind, n) = 1..Len(Chunk(kind, n))
  BY <1>9, ChunkAscends
<1> QED BY <1>9, <1>12, <1>13 DEF Range

-----------------------------------------------------------------------------
(***************************************************************************)
(* Statements                                                              *)
(***************************************************************************)

\* The command line does not change, and all that follows from it alone.
LEMMA ArgsFixed ==
    ASSUME args' = args
    PROVE  /\ \A kind : Kept(kind)' = Kept(kind)
           /\ \A kind, n : Chunk(kind, n)' = Chunk(kind, n)
           /\ \A kind : Parties(kind)' = Parties(kind)
           /\ PartyTable' = PartyTable
           /\ \A s : HasRows(s)' = HasRows(s)
<1>1. ASSUME NEW kind PROVE Kept(kind)' = Kept(kind)
  BY DEF Kept, processed, accepted
<1>2. ASSUME NEW kind PROVE Values(kind)' = Values(kind)
  BY <1>1 DEF Values, Enabled
<1>3. ASSUME NEW kind, NEW n PROVE Chunk(kind, n)' = Chunk(kind, n)
  BY <1>2 DEF Chunk
<1>4. ASSUME NEW kind PROVE Parties(kind)' = Parties(kind)
  BY <1>1 DEF Parties
<1>5. PartyTable' = PartyTable
  BY DEF PartyTable
<1>6. ASSUME NEW s PROVE HasRows(s)' = HasRows(s)
  BY <1>3 DEF HasRows
<1> QED BY <1>1, <1>3, <1>4, <1>5, <1>6

LEMMA StatementFacts ==
    /\ Nobody \notin Statements
    /\ prune \in Statements /\ Kind(prune) = "prune" /\ prune \notin Writers \X Chunks
    /\ \A s \in Statements : s # prune => s \in Writers \X Chunks
    /\ \A s \in Writers \X Chunks :
          /\ s \in Statements /\ s # prune
          /\ Kind(s) \in Writers /\ s[2] \in Chunks /\ s = <<Kind(s), s[2]>>
    /\ \A kind \in Writers, n \in Chunks :
          <<kind, n>> \in Writers \X Chunks /\ Kind(<<kind, n>>) = kind /\ <<kind, n>>[2] = n
BY NobodyAssumption DEF Statements, prune, Kind, Writers

LEMMA StatementsFinite == Cardinality(Statements) \in Nat
<1>1. IsFiniteSet(Writers)
  <2>1. IsFiniteSet({"insert"})
    BY FS_Singleton
  <2>2. IsFiniteSet({"insert"} \cup {"upsert"})
    BY <2>1, FS_AddElement
  <2>3. Writers = {"insert"} \cup {"upsert"}
    BY DEF Writers
  <2> QED BY <2>2, <2>3
<1>2. IsFiniteSet(Chunks)
  <2>1. (Cardinality(Ids) + ChunkSize - 1) \div ChunkSize \in Int
    <3>1. Cardinality(Ids) \in Nat
      BY KeptFinite
    <3> QED BY <3>1, RowsAssumption, SMT
  <2> QED BY <2>1, FS_Interval DEF Chunks
<1>3. IsFiniteSet(Writers \X Chunks)
  BY <1>1, <1>2, FS_Product
<1>4. IsFiniteSet(Statements)
  BY <1>3, FS_AddElement DEF Statements
<1> QED BY <1>4, FS_CardinalityType

-----------------------------------------------------------------------------
(***************************************************************************)
(* Waits                                                                   *)
(***************************************************************************)
LEMMA LeastNatural ==
    ASSUME NEW T \in SUBSET Nat, T # {}
    PROVE  \E m \in T : \A k \in T : m <= k
<1> DEFINE R == OpToRel(<, Nat)
<1>1. IsWellFoundedOn(R, Nat)
  BY NatLessThanWellFounded
<1>2. \E m \in T : \A k \in T : <<k, m>> \notin R
  <2> HIDE DEF R
  <2> QED BY <1>1, WFMin
<1>3. ASSUME NEW k \in T, NEW m \in T, <<k, m>> \notin R PROVE m <= k
  BY <1>3 DEF OpToRel
<1> QED BY <1>2, <1>3

\* f satisfies the recursion of Chain.
Hops(w, s, N, f) == f = [n \in 0..N |-> IF n = 0 THEN s ELSE w[f[n - 1]]]

LEMMA HopsExist ==
    ASSUME NEW w, NEW s, NEW N \in Nat
    PROVE  \E f : Hops(w, s, N, f)
<1> USE DEF Hops
<1> DEFINE T == {m \in Nat : ~\E f : Hops(w, s, m, f)}
<1>1. SUFFICES ASSUME T # {} PROVE FALSE
  OBVIOUS
<1>2. PICK m \in T : \A k \in T : m <= k
  BY <1>1, LeastNatural
<1>3. CASE m = 0
  <2> DEFINE f == [n \in 0..0 |-> s]
  <2>1. f = [n \in 0..0 |-> IF n = 0 THEN s ELSE w[f[n - 1]]]
    OBVIOUS
  <2> QED BY <1>3, <2>1, Zenon
<1>4. CASE m # 0
  <2>1. m - 1 \in Nat /\ m - 1 \notin T
    <3>1. m \in Nat
      OBVIOUS
    <3> HIDE DEF T
    <3> QED BY <1>2, <1>4, <3>1
  <2>2. PICK f : f = [n \in 0..(m - 1) |-> IF n = 0 THEN s ELSE w[f[n - 1]]]
    BY <2>1
  <2> DEFINE g == [n \in 0..m |-> IF n = m THEN w[f[m - 1]] ELSE f[n]]
  <2>3. ASSUME NEW n \in 0..m PROVE g[n] = IF n = 0 THEN s ELSE w[g[n - 1]]
    <3>1. CASE n = m
      <4>1. g[m] = w[f[m - 1]] /\ m - 1 \in 0..m /\ m - 1 # m
        BY <2>1
      <4>2. g[m - 1] = f[m - 1]
        BY <4>1
      <4> QED BY <1>4, <3>1, <4>1, <4>2
    <3>2. CASE n # m
      <4>1. n \in 0..(m - 1)
        BY <2>1, <3>2
      <4>2. g[n] = f[n] /\ f[n] = IF n = 0 THEN s ELSE w[f[n - 1]]
        BY <2>2, <3>2, <4>1
      <4>3. n # 0 => g[n - 1] = f[n - 1]
        <5> SUFFICES ASSUME n # 0 PROVE g[n - 1] = f[n - 1]
          OBVIOUS
        <5>1. n - 1 \in 0..m /\ n - 1 # m
          BY <2>1, <4>1
        <5> QED BY <5>1
      <4> QED BY <4>2, <4>3
    <3> QED BY <3>1, <3>2
  <2>4. g = [n \in 0..m |-> IF n = 0 THEN s ELSE w[g[n - 1]]]
    <3>1. g = [n \in 0..m |-> g[n]]
      OBVIOUS
    <3> HIDE DEF g
    <3> QED BY <2>3, <3>1
  <2> HIDE DEF g
  <2> QED BY <2>4
<1> QED BY <1>3, <1>4

\* A statement that waits is running and waits for one that holds the lock it needs.
LEMMA Waiting ==
    ASSUME IndInv, NEW s \in Statements \cup {Nobody}
    PROVE  /\ WaitsFor[s] \in Statements \cup {Nobody}
           /\ WaitsFor[s] # Nobody =>
                 /\ s \in Statements /\ phase[s] = "run" /\ todo[s] # <<>>
                 /\ Head(todo[s]) \in Ids /\ lock[Head(todo[s])] = WaitsFor[s]
<1>1. WaitsFor[s] = IF s # Nobody /\ phase[s] = "run" /\ todo[s] # <<>>
                    THEN lock[Head(todo[s])] ELSE Nobody
  BY DEF WaitsFor
<1>2. ASSUME s # Nobody, todo[s] # <<>> PROVE Head(todo[s]) \in Ids
  BY <1>2 DEF IndInv, FunctionsInv
<1>3. \A id \in Ids : lock[id] \in Statements \cup {Nobody}
  BY DEF IndInv, TypeOK
<1> QED BY <1>1, <1>2, <1>3

\* A deadlock is a cycle of waits: m of them lead from s back to s.
LEMMA Cycle ==
    ASSUME IndInv, NEW s \in Statements, Deadlocked(s)
    PROVE  \E m \in Nat \ {0} : \E hop :
              /\ hop[0] = s /\ hop[m] = s
              /\ \A n \in 1..m : hop[n] \in Chain(s)
              /\ \A n \in 0..m : hop[n] \in Statements
              /\ \A n \in 0..(m - 1) : hop[n + 1] = WaitsFor[hop[n]]
<1> DEFINE N == Cardinality(Statements)
           w == WaitsFor
           hop == CHOOSE f : f = [n \in 0..N |-> IF n = 0 THEN s ELSE w[f[n - 1]]]
<1>1. N \in Nat
  BY StatementsFinite
<1>2. Chain(s) = {hop[n] : n \in 1..N}
  BY DEF Chain
<1>3. hop = [n \in 0..N |-> IF n = 0 THEN s ELSE w[hop[n - 1]]]
  <2> HIDE DEF w, N
  <2>1. \E f : Hops(w, s, N, f)
    BY <1>1, HopsExist
  <2> QED BY <2>1, Zenon DEF Hops
<1> HIDE DEF hop
<1>4. hop[0] = s /\ \A n \in 0..(N - 1) : hop[n + 1] = w[hop[n]]
  <2>1. hop[0] = s
    BY <1>1, <1>3
  <2>2. ASSUME NEW n \in 0..(N - 1) PROVE hop[n + 1] = w[hop[n]]
    <3> HIDE DEF w, N
    <3>1. n + 1 \in 0..N /\ n + 1 # 0 /\ (n + 1) - 1 = n
      BY <1>1
    <3>2. hop[n + 1] = w[hop[(n + 1) - 1]]
      BY <1>3, <3>1
    <3> QED BY <3>1, <3>2
  <2> QED BY <2>1, <2>2
<1>5. PICK m \in 1..N : hop[m] = s
  BY <1>2 DEF Deadlocked
<1> HIDE DEF N, w
<1>6. ASSUME NEW n \in 0..N PROVE hop[n] \in Statements \cup {Nobody}
  <2> DEFINE T == {k \in 0..N : hop[k] \notin Statements \cup {Nobody}}
  <2>1. SUFFICES ASSUME T # {} PROVE FALSE
    OBVIOUS
  <2>2. PICK k \in T : \A j \in T : k <= j
    <3>1. T \in SUBSET Nat
      BY <1>1
    <3> QED BY <2>1, <3>1, LeastNatural
  <2>3. k # 0
    BY <1>4
  <2>4. k - 1 \in 0..(N - 1) /\ k - 1 \in 0..N /\ (k - 1) + 1 = k /\ ~(k <= k - 1)
    BY <1>1, <2>3
  <2>5. hop[k - 1] \in Statements \cup {Nobody}
    BY <2>2, <2>4
  <2>6. hop[k] = w[hop[k - 1]]
    BY <1>4, <2>4
  <2> QED BY <2>5, <2>6, Waiting DEF w
<1>7. ASSUME NEW n \in 0..m PROVE hop[n] \in Statements
  <2> DEFINE T == {k \in 0..m : hop[m - k] \notin Statements}
  <2>1. SUFFICES ASSUME T # {} PROVE FALSE
    <3>1. m - n \in 0..m /\ m - (m - n) = n
      BY <1>1
    <3>2. m - n \notin T
      OBVIOUS
    <3> QED BY <3>1, <3>2
  <2>2. PICK k \in T : \A j \in T : k <= j
    <3>1. T \in SUBSET Nat
      BY <1>1
    <3> QED BY <2>1, <3>1, LeastNatural
  <2>3. k # 0
    <3>1. m - 0 = m
      BY <1>1
    <3> QED BY <1>5, <3>1
  <2>4. k - 1 \in 0..m /\ ~(k <= k - 1) /\ m - k \in 0..(N - 1) /\ m - k \in 0..N
        /\ (m - k) + 1 = m - (k - 1)
    BY <1>1, <2>3
  <2>5. hop[m - (k - 1)] \in Statements
    BY <2>2, <2>4
  <2>6. hop[m - (k - 1)] = w[hop[m - k]]
    BY <1>4, <2>4
  <2>7. hop[m - k] \in Statements \cup {Nobody} /\ hop[m - k] \notin Statements
    BY <1>6, <2>2, <2>4
  <2> QED BY <2>5, <2>6, <2>7, Waiting, StatementFacts DEF w
<1>8. /\ m \in Nat \ {0}
      /\ \A n \in 1..m : n \in 1..N
      /\ \A n \in 0..(m - 1) : n \in 0..(N - 1)
  BY <1>1
<1>9. \A n \in 1..m : hop[n] \in Chain(s)
  BY <1>2, <1>8 DEF N
<1>10. \A n \in 0..(m - 1) : hop[n + 1] = WaitsFor[hop[n]]
  BY <1>4, <1>8 DEF w
<1> QED BY <1>4, <1>5, <1>7, <1>8, <1>9, <1>10

\* The victim of a deadlock was running, and holds a lock.
LEMMA VictimRuns ==
    ASSUME IndInv, NEW s \in Statements, Deadlocked(s)
    PROVE  phase[s] = "run"
<1>0. PICK m \in Nat \ {0} : \E hop :
          /\ hop[0] = s
          /\ \A n \in 0..m : hop[n] \in Statements
          /\ \A n \in 0..(m - 1) : hop[n + 1] = WaitsFor[hop[n]]
  BY Cycle
<1>1. PICK hop :
          /\ hop[0] = s
          /\ \A n \in 0..m : hop[n] \in Statements
          /\ \A n \in 0..(m - 1) : hop[n + 1] = WaitsFor[hop[n]]
  BY <1>0
<1>2. 0 \in 0..(m - 1) /\ 0 + 1 \in 0..m
  OBVIOUS
<1>3. WaitsFor[s] \in Statements
  BY <1>1, <1>2
<1> QED BY <1>3, Waiting, StatementFacts

\* Along a cycle without the pruner each statement waits for a higher id than the one
\* before it.
LEMMA NoCycleOfWriters == IndInv => WritersNeverDeadlock
<1> SUFFICES ASSUME IndInv, NEW s \in Statements, Deadlocked(s), prune \notin Chain(s)
             PROVE  FALSE
  BY DEF WritersNeverDeadlock
<1>0. PICK m \in Nat \ {0} : \E hop :
          /\ hop[0] = s /\ hop[m] = s
          /\ \A n \in 1..m : hop[n] \in Chain(s)
          /\ \A n \in 0..m : hop[n] \in Statements
          /\ \A n \in 0..(m - 1) : hop[n + 1] = WaitsFor[hop[n]]
  BY Cycle
<1>1. PICK hop :
          /\ hop[0] = s /\ hop[m] = s
          /\ \A n \in 1..m : hop[n] \in Chain(s)
          /\ \A n \in 0..m : hop[n] \in Statements
          /\ \A n \in 0..(m - 1) : hop[n + 1] = WaitsFor[hop[n]]
  BY <1>0
<1> DEFINE next(n) == Head(todo[hop[n]])
<1>2. ASSUME NEW n \in 0..(m - 1)
      PROVE  /\ next(n) \in Ids /\ next(n) \in Int
             /\ todo[hop[n]] # <<>>
             /\ lock[next(n)] = hop[n + 1]
             /\ hop[n + 1] \in Writers \X Chunks
  <2>1. n \in 0..m /\ n + 1 \in 1..m /\ n + 1 \in 0..m
    OBVIOUS
  <2>2. hop[n] \in Statements /\ hop[n + 1] \in Statements /\ hop[n + 1] # prune
    BY <1>1, <2>1
  <2>3. hop[n + 1] = WaitsFor[hop[n]] /\ hop[n + 1] # Nobody
    BY <1>1, <2>2, StatementFacts
  <2>4. hop[n + 1] \in Writers \X Chunks
    BY <2>2, StatementFacts
  <2> QED BY <2>2, <2>3, <2>4, Waiting, IdsFinite
<1>3. ASSUME NEW n \in 0..(m - 1), NEW k \in 0..(m - 1), hop[n + 1] = hop[k]
      PROVE  next(n) < next(k)
  <2>1. /\ next(n) \in Ids /\ lock[next(n)] = hop[k] /\ hop[k] \in Writers \X Chunks
        /\ todo[hop[k]] # <<>>
    BY <1>2, <1>3
  <2>2. todo[hop[k]] \in Seq(Ids)
    BY <2>1, StatementFacts DEF IndInv, FunctionsInv
  <2>3. 1 \in DOMAIN todo[hop[k]] /\ next(k) = todo[hop[k]][1]
    BY <2>1, <2>2
  <2>4. \A j \in DOMAIN todo[hop[k]] : next(n) < todo[hop[k]][j]
    BY <2>1 DEF IndInv, LockInv
  <2> QED BY <2>3, <2>4
<1> HIDE DEF next
<1>4. ASSUME NEW n \in 0..(m - 1) PROVE next(0) <= next(n)
  <2> DEFINE T == {k \in 0..(m - 1) : ~(next(0) <= next(k))}
  <2>1. SUFFICES ASSUME T # {} PROVE FALSE
    OBVIOUS
  <2>2. PICK k \in T : \A j \in T : k <= j
    <3>1. T \in SUBSET Nat
      OBVIOUS
    <3> QED BY <2>1, <3>1, LeastNatural
  <2>3. k # 0
    <3>1. next(0) \in Int
      BY <1>2
    <3> QED BY <2>2, <3>1
  <2>4. k - 1 \in 0..(m - 1) /\ k \in 0..(m - 1) /\ ~(k <= k - 1) /\ (k - 1) + 1 = k
    BY <2>2, <2>3
  <2>5. next(0) <= next(k - 1)
    BY <2>2, <2>4
  <2>6. next(k - 1) < next(k)
    BY <1>3, <2>4
  <2>7. next(0) \in Int /\ next(k - 1) \in Int /\ next(k) \in Int
    BY <1>2, <2>4
  <2> QED BY <2>2, <2>5, <2>6, <2>7
<1>5. 0 \in 0..(m - 1) /\ m - 1 \in 0..(m - 1) /\ (m - 1) + 1 = m
  OBVIOUS
<1>6. next(m - 1) < next(0)
  BY <1>1, <1>3, <1>5
<1>7. next(0) <= next(m - 1) /\ next(0) \in Int /\ next(m - 1) \in Int
  BY <1>2, <1>4, <1>5
<1> QED BY <1>6, <1>7

-----------------------------------------------------------------------------
(***************************************************************************)
(* The initial state                                                       *)
(***************************************************************************)
LEMMA InitIndInv == ASSUME Init PROVE IndInv
<1>1. TypeOK
  <2>1. /\ args \in CliArgs
        /\ \A id \in Ids : transactions[id] = NoRow
        /\ recorded \subseteq Writers
        /\ phase \in [Statements -> {"idle", "run", "backoff", "done", "failed"}]
        /\ \A s \in Statements : phase[s] # "run" /\ todo[s] = <<>> /\ attempts[s] = 0
        /\ pruned \subseteq Ids
        /\ lock \in [Ids -> Statements \cup {Nobody}]
        /\ \A id \in Ids : lock[id] = Nobody
        /\ crashes = 0
    BY DEF Init
  <2>2. up \in BOOLEAN
    BY Zenon DEF Init
  <2>3. \A s \in Statements : Locked(s) = {}
    BY <2>1, NobodyAssumption DEF Locked
  <2>4. Range(<<>>) = {}
    BY DEF Range
  <2> QED BY <2>1, <2>2, <2>3, <2>4, RowsAssumption DEF TypeOK
<1>2. FunctionsInv
  BY RowsAssumption DEF Init, FunctionsInv
<1>3. RowInv
  BY DEF Init, RowInv
<1>4. TodoInv /\ LockInv
  <2>1. Range(<<>>) = {} /\ DOMAIN <<>> = {}
    BY DEF Range
  <2>2. \A s \in Writers \X Chunks : todo[s] = <<>>
    BY StatementFacts DEF Init
  <2>3. \A s \in Writers \X Chunks, id \in Ids : lock[id] # s
    BY StatementFacts DEF Init
  <2> QED BY <2>1, <2>2, <2>3 DEF TodoInv, LockInv
<1>5. UpsertInv
  <2> SUFFICES ASSUME NEW n \in Chunks, NEW id \in Range(Chunk("upsert", n))
               PROVE  phase[<<"upsert", n>>] = "idle"
    BY DEF UpsertInv
  <2>1. <<"upsert", n>> \in Writers \X Chunks /\ Kind(<<"upsert", n>>) = "upsert"
        /\ <<"upsert", n>>[2] = n /\ <<"upsert", n>> \in Statements
    BY StatementFacts DEF Writers
  <2>2. Chunk("upsert", n) # <<>>
    BY DEF Range
  <2>3. HasRows(<<"upsert", n>>)
    BY <2>1, <2>2 DEF HasRows
  <2> QED BY <2>1, <2>3 DEF Init
<1>6. PartiesInv
  BY DEF Init, PartiesInv
<1> QED BY <1>1, <1>2, <1>3, <1>4, <1>5, <1>6 DEF IndInv

-----------------------------------------------------------------------------
(***************************************************************************)
(* A statement starts, or is given up                                      *)
(***************************************************************************)

\* The table, its locks and the parties.
LEMMA TablesKept ==
    ASSUME IndInv,
           UNCHANGED <<args, transactions, parties, recorded, pruned, lock, up, crashes>>
    PROVE  /\ RowInv' /\ PartiesInv'
           /\ \A kind, n : Chunk(kind, n)' = Chunk(kind, n)
           /\ \A id \in Ids : Resolved(id)' = Resolved(id)
           /\ \A s : Locked(s)' = Locked(s)
           /\ up' \in BOOLEAN /\ (up' => crashes' <= MaxCrashes)
<1>1. RowInv'
  BY ArgsFixed DEF IndInv, RowInv
<1>2. PartiesInv'
  BY ArgsFixed DEF IndInv, PartiesInv
<1>3. \A kind, n : Chunk(kind, n)' = Chunk(kind, n)
  BY ArgsFixed
<1>4. \A id \in Ids : Resolved(id)' = Resolved(id)
  BY DEF Resolved
<1>5. \A s : Locked(s)' = Locked(s)
  BY DEF Locked
<1>6. up' \in BOOLEAN /\ (up' => crashes' <= MaxCrashes)
  BY Zenon DEF IndInv, TypeOK, FunctionsInv
<1> QED BY <1>1, <1>2, <1>3, <1>4, <1>5, <1>6

LEMMA OrdersOfIds ==
    ASSUME NEW s \in Statements, NEW order \in Orders(s)
    PROVE  order \in Seq(Ids)
<1>1. CASE s = prune
  <2>1. Expired \in SUBSET Ids
    BY DEF Expired
  <2>2. Cardinality(Expired) \in Nat
    BY <2>1, IdsFinite, FS_Subset, FS_CardinalityType
  <2>3. order \in [1..Cardinality(Expired) -> Expired]
    BY <1>1 DEF Orders, SetToSeqs
  <2> QED BY <2>1, <2>2, <2>3
<1>2. CASE s # prune
  <2>1. order = Chunk(Kind(s), s[2])
    BY <1>2 DEF Orders
  <2> QED BY <1>2, <2>1, StatementFacts, ChunkAscends
<1> QED BY <1>1, <1>2

LEMMA BeginIndInv ==
    ASSUME IndInv, NEW s \in Statements, Begin(s), phase[s] \in {"idle", "backoff"}
    PROVE  IndInv'
<1> USE DEF IndInv
<1>1. PICK order \in Orders(s) : todo' = [todo EXCEPT ![s] = order]
  BY DEF Begin
<1>2. /\ phase' = [phase EXCEPT ![s] = "run"]
      /\ UNCHANGED <<args, transactions, parties, recorded, attempts, lock, pruned>>
      /\ UNCHANGED <<up, crashes>>
  BY DEF Begin
<1>3. order \in Seq(Ids)
  BY OrdersOfIds
<1>4. todo \in [Statements -> Seq(Ids)] /\ todo' \in [Statements -> Seq(Ids)]
  BY <1>1, <1>3 DEF FunctionsInv
<1>5. /\ phase \in [Statements -> {"idle", "run", "backoff", "done", "failed"}]
      /\ phase' \in [Statements -> {"idle", "run", "backoff", "done", "failed"}]
  BY <1>2 DEF TypeOK
<1>6. Locked(s) = {}
  BY DEF TypeOK
<1>7. /\ RowInv' /\ PartiesInv'
      /\ \A kind, n : Chunk(kind, n)' = Chunk(kind, n)
      /\ \A id \in Ids : Resolved(id)' = Resolved(id)
      /\ \A t : Locked(t)' = Locked(t)
      /\ up' \in BOOLEAN /\ (up' => crashes' <= MaxCrashes)
  BY <1>2, TablesKept
<1>8. TypeOK'
  <2>1. /\ args' \in CliArgs
        /\ \A id \in Ids : transactions'[id] = NoRow \/ transactions'[id].transaction_id = id
        /\ recorded' \subseteq Writers /\ pruned' \subseteq Ids
        /\ lock' \in [Ids -> Statements \cup {Nobody}]
        /\ crashes' \in 0..(MaxCrashes + 1)
    BY <1>2 DEF TypeOK
  <2>2. \A t \in Statements : Range(todo'[t]) \subseteq Ids
    BY <1>4 DEF Range
  <2>3. \A t \in Statements :
            /\ attempts'[t] \in 0..DEADLOCK_MAX_ATTEMPTS
            /\ attempts'[t] = DEADLOCK_MAX_ATTEMPTS => phase'[t] = "failed"
    BY <1>2, <1>5 DEF TypeOK
  <2>4. \A t \in Statements : phase'[t] # "run" => Locked(t)' = {}
    BY <1>2, <1>5, <1>7 DEF TypeOK
  <2> QED BY <1>5, <1>7, <2>1, <2>2, <2>3, <2>4 DEF TypeOK
<1>9. FunctionsInv'
  BY <1>2, <1>4, <1>7 DEF FunctionsInv
<1>10. s # prune => order = Chunk(Kind(s), s[2]) /\ s \in Writers \X Chunks
  BY StatementFacts DEF Orders
<1>11. TodoInv'
  <2> SUFFICES ASSUME NEW t \in Writers \X Chunks
               PROVE  /\ Range(todo'[t]) \subseteq Range(Chunk(Kind(t), t[2]))
                      /\ \A i, j \in DOMAIN todo'[t] : i < j => todo'[t][i] < todo'[t][j]
    BY <1>7 DEF TodoInv
  <2>1. CASE t = s
    <3>1. t \in Statements /\ t # prune /\ t[2] \in Chunks
      BY StatementFacts
    <3>2. todo'[t] = Chunk(Kind(t), t[2])
      BY <1>1, <1>4, <1>10, <2>1, <3>1
    <3>3. /\ Chunk(Kind(t), t[2]) \in Seq(Ids)
          /\ \A i, j \in 1..Len(Chunk(Kind(t), t[2])) :
                i < j => Chunk(Kind(t), t[2])[i] < Chunk(Kind(t), t[2])[j]
      BY <3>1, ChunkAscends
    <3> QED BY <3>2, <3>3
  <2>2. CASE t # s
    <3>1. todo'[t] = todo[t]
      BY <1>1, <1>4, <2>2, StatementFacts
    <3> QED BY <3>1 DEF TodoInv
  <2> QED BY <2>1, <2>2
<1>12. LockInv'
  <2> SUFFICES ASSUME NEW t \in Writers \X Chunks, NEW id \in Ids, lock[id] = t
               PROVE  /\ id \in Range(Chunk(Kind(t), t[2]))
                      /\ \A j \in DOMAIN todo'[t] : id < todo'[t][j]
                      /\ Kind(t) = "insert" => transactions[id] = NoRow
    BY <1>2, <1>7 DEF LockInv
  <2>1. t # s
    BY <1>6 DEF Locked
  <2>2. todo'[t] = todo[t]
    BY <1>1, <1>4, <2>1, StatementFacts
  <2> QED BY <2>2 DEF LockInv
<1>13. UpsertInv'
  <2> SUFFICES ASSUME NEW n \in Chunks, NEW id \in Range(Chunk("upsert", n))
               PROVE  LET t == <<"upsert", n>>
                      IN  /\ phase'[t] = "run" => id \in Range(todo'[t]) \/ lock[id] = t
                          /\ phase'[t] = "done" => Resolved(id)' \/ id \in pruned
    BY <1>2, <1>7 DEF UpsertInv
  <2> DEFINE t == <<"upsert", n>>
  <2>1. t \in Statements /\ t # prune /\ Kind(t) = "upsert" /\ t[2] = n
    BY StatementFacts DEF Writers
  <2>2. id \in Ids
    BY ChunkAscends DEF Range
  <2>3. /\ phase[t] = "run" => id \in Range(todo[t]) \/ lock[id] = t
        /\ phase[t] = "done" => Resolved(id) \/ id \in pruned
    BY DEF UpsertInv
  <2> HIDE DEF t
  <2>4. CASE t = s
    <3>1. phase'[t] = "run" /\ todo'[t] = Chunk("upsert", n)
      BY <1>1, <1>2, <1>4, <1>5, <1>10, <2>1, <2>4
    <3> QED BY <3>1, Zenon DEF t
  <2>5. CASE t # s
    <3>1. phase'[t] = phase[t] /\ todo'[t] = todo[t]
      BY <1>1, <1>2, <1>4, <1>5, <2>1, <2>5
    <3> QED BY <1>7, <2>2, <2>3, <3>1, Zenon DEF t
  <2> QED BY <2>4, <2>5 DEF t
<1> QED BY <1>7, <1>8, <1>9, <1>11, <1>12, <1>13

\* The pruner finds nothing to delete.
LEMMA PruneEndsIndInv ==
    ASSUME IndInv, phase[prune] \in {"idle", "backoff"},
           phase' = [phase EXCEPT ![prune] = "done"],
           UNCHANGED <<args, transactions, parties, recorded, todo, attempts, lock, pruned,
                       up, crashes>>
    PROVE  IndInv'
<1> USE DEF IndInv
<1>1. /\ RowInv' /\ PartiesInv'
      /\ \A kind, n : Chunk(kind, n)' = Chunk(kind, n)
      /\ \A id \in Ids : Resolved(id)' = Resolved(id)
      /\ \A t : Locked(t)' = Locked(t)
      /\ up' \in BOOLEAN /\ (up' => crashes' <= MaxCrashes)
  BY TablesKept
<1>2. /\ phase \in [Statements -> {"idle", "run", "backoff", "done", "failed"}]
      /\ phase' \in [Statements -> {"idle", "run", "backoff", "done", "failed"}]
      /\ phase'[prune] = "done"
      /\ \A t \in Statements : t # prune => phase'[t] = phase[t]
  BY StatementFacts DEF TypeOK
<1>3. TypeOK'
  <2>1. /\ args' \in CliArgs
        /\ \A id \in Ids : transactions'[id] = NoRow \/ transactions'[id].transaction_id = id
        /\ recorded' \subseteq Writers /\ pruned' \subseteq Ids
        /\ lock' \in [Ids -> Statements \cup {Nobody}]
        /\ crashes' \in 0..(MaxCrashes + 1)
        /\ \A t \in Statements : Range(todo'[t]) \subseteq Ids
    BY DEF TypeOK
  <2>2. \A t \in Statements :
            /\ attempts'[t] \in 0..DEADLOCK_MAX_ATTEMPTS
            /\ attempts'[t] = DEADLOCK_MAX_ATTEMPTS => phase'[t] = "failed"
            /\ phase'[t] # "run" => Locked(t)' = {}
    BY <1>1, <1>2 DEF TypeOK
  <2> QED BY <1>1, <1>2, <2>1, <2>2 DEF TypeOK
<1>4. FunctionsInv'
  BY <1>1 DEF FunctionsInv
<1>5. TodoInv' /\ LockInv'
  BY <1>1 DEF TodoInv, LockInv
<1>6. UpsertInv'
  <2> SUFFICES ASSUME NEW n \in Chunks, NEW id \in Range(Chunk("upsert", n))
               PROVE  LET t == <<"upsert", n>>
                      IN  /\ phase'[t] = "run" => id \in Range(todo[t]) \/ lock[id] = t
                          /\ phase'[t] = "done" => Resolved(id)' \/ id \in pruned
    BY <1>1 DEF UpsertInv
  <2>1. phase'[<<"upsert", n>>] = phase[<<"upsert", n>>] /\ id \in Ids
    BY <1>2, StatementFacts, ChunkAscends DEF Writers, Range
  <2> QED BY <1>1, <2>1, Zenon DEF UpsertInv
<1> QED BY <1>1, <1>3, <1>4, <1>5, <1>6

-----------------------------------------------------------------------------
(***************************************************************************)
(* A row is locked                                                         *)
(***************************************************************************)
LEMMA TailFacts ==
    ASSUME NEW S, NEW q \in Seq(S), q # <<>>
    PROVE  /\ Tail(q) \in Seq(S) /\ Head(q) = q[1] /\ 1 \in DOMAIN q /\ Head(q) \in Range(q)
           /\ \A j \in DOMAIN Tail(q) :
                 /\ j \in Nat /\ j + 1 \in DOMAIN q /\ 1 < j + 1
                 /\ Tail(q)[j] = q[j + 1]
           /\ \A x \in Range(q) : x = Head(q) \/ x \in Range(Tail(q))
           /\ Range(Tail(q)) \subseteq Range(q)
<1>1. /\ Tail(q) \in Seq(S) /\ Head(q) = q[1] /\ DOMAIN q = 1..Len(q) /\ Len(q) \in Nat \ {0}
      /\ DOMAIN Tail(q) = 1..(Len(q) - 1)
      /\ \A j \in 1..(Len(q) - 1) : Tail(q)[j] = q[j + 1]
  OBVIOUS
<1>2. \A j \in DOMAIN Tail(q) :
          j \in Nat /\ j + 1 \in DOMAIN q /\ 1 < j + 1 /\ Tail(q)[j] = q[j + 1]
  BY <1>1
<1>3. ASSUME NEW x \in Range(q) PROVE x = Head(q) \/ x \in Range(Tail(q))
  <2>1. PICK i \in DOMAIN q : x = q[i]
    BY DEF Range
  <2>2. CASE i = 1
    BY <1>1, <2>1, <2>2
  <2>3. CASE i # 1
    <3>1. i - 1 \in DOMAIN Tail(q) /\ (i - 1) + 1 = i
      BY <1>1, <2>3
    <3>2. Tail(q)[i - 1] = x
      BY <1>2, <2>1, <3>1
    <3> QED BY <3>1, <3>2 DEF Range
  <2> QED BY <2>2, <2>3
<1>4. Range(Tail(q)) \subseteq Range(q)
  BY <1>2 DEF Range
<1>5. 1 \in DOMAIN q /\ Head(q) \in Range(q)
  BY <1>1 DEF Range
<1> QED BY <1>1, <1>2, <1>3, <1>4, <1>5

LEMMA AcquireIndInv ==
    ASSUME IndInv, NEW s \in Statements, Acquire(s)
    PROVE  IndInv'
<1> USE DEF IndInv
<1> DEFINE next == Head(todo[s])
<1>1. /\ phase[s] = "run" /\ todo[s] # <<>> /\ lock[next] = Nobody
      /\ todo' = [todo EXCEPT ![s] = Tail(@)]
      /\ lock' = IF Kind(s) = "insert" /\ transactions[next] # NoRow
                 THEN lock ELSE [lock EXCEPT ![next] = s]
      /\ UNCHANGED <<args, transactions, parties, recorded, phase, attempts, pruned>>
      /\ UNCHANGED <<up, crashes>>
  BY DEF Acquire
<1>2. todo \in [Statements -> Seq(Ids)] /\ lock \in [Ids -> Statements \cup {Nobody}]
  BY DEF TypeOK, FunctionsInv
<1>3. /\ Tail(todo[s]) \in Seq(Ids) /\ next = todo[s][1] /\ 1 \in DOMAIN todo[s]
      /\ next \in Range(todo[s]) /\ next \in Ids
      /\ \A j \in DOMAIN Tail(todo[s]) :
            /\ j \in Nat /\ j + 1 \in DOMAIN todo[s] /\ 1 < j + 1
            /\ Tail(todo[s])[j] = todo[s][j + 1]
      /\ \A x \in Range(todo[s]) : x = next \/ x \in Range(Tail(todo[s]))
      /\ Range(Tail(todo[s])) \subseteq Range(todo[s])
  <2>1. todo[s] \in Seq(Ids)
    BY <1>2
  <2>2. Range(todo[s]) \subseteq Ids
    BY DEF TypeOK
  <2> QED BY <1>1, <2>1, <2>2, TailFacts
<1> HIDE DEF next
<1>4. /\ todo' \in [Statements -> Seq(Ids)] /\ todo'[s] = Tail(todo[s])
      /\ \A t \in Statements : t # s => todo'[t] = todo[t]
  BY <1>1, <1>2, <1>3
<1>5. /\ lock' \in [Ids -> Statements \cup {Nobody}]
      /\ \A id \in Ids : lock'[id] # lock[id] => id = next /\ lock'[id] = s
      /\ lock'[next] = s => (Kind(s) = "insert" => transactions[next] = NoRow)
      /\ Kind(s) = "upsert" => lock'[next] = s
  BY <1>1, <1>2, <1>3, StatementFacts
<1>6. \A kind, n : Chunk(kind, n)' = Chunk(kind, n)
  BY <1>1, ArgsFixed
<1>7. TypeOK'
  <2>1. /\ args' \in CliArgs
        /\ \A id \in Ids : transactions'[id] = NoRow \/ transactions'[id].transaction_id = id
        /\ recorded' \subseteq Writers /\ pruned' \subseteq Ids
        /\ phase' \in [Statements -> {"idle", "run", "backoff", "done", "failed"}]
        /\ crashes' \in 0..(MaxCrashes + 1)
        /\ \A t \in Statements :
              /\ attempts'[t] \in 0..DEADLOCK_MAX_ATTEMPTS
              /\ attempts'[t] = DEADLOCK_MAX_ATTEMPTS => phase'[t] = "failed"
    BY <1>1 DEF TypeOK
  <2>2. \A t \in Statements : Range(todo'[t]) \subseteq Ids
    BY <1>4 DEF Range
  <2>3. ASSUME NEW t \in Statements, phase'[t] # "run" PROVE Locked(t)' = {}
    <3>1. t # s /\ Locked(t) = {}
      BY <1>1, <2>3 DEF TypeOK
    <3> QED BY <1>5, <3>1 DEF Locked
  <2>4. up' \in BOOLEAN
    BY <1>1, Zenon DEF TypeOK
  <2> QED BY <1>5, <2>1, <2>2, <2>3, <2>4 DEF TypeOK
<1>8. FunctionsInv'
  <2>1. up' => crashes' <= MaxCrashes
    BY <1>1, Zenon DEF FunctionsInv
  <2> QED BY <1>1, <1>4, <2>1 DEF FunctionsInv
<1>9. RowInv' /\ PartiesInv'
  BY <1>1, ArgsFixed DEF RowInv, PartiesInv
<1>10. ASSUME s \in Writers \X Chunks
       PROVE  /\ Range(todo'[s]) \subseteq Range(Chunk(Kind(s), s[2]))
              /\ \A i, j \in DOMAIN todo'[s] : i < j => todo'[s][i] < todo'[s][j]
              /\ \A j \in DOMAIN todo'[s] : next < todo'[s][j]
              /\ \A id \in Ids : lock[id] = s => \A j \in DOMAIN todo'[s] : id < todo'[s][j]
  <2>1. /\ Range(todo[s]) \subseteq Range(Chunk(Kind(s), s[2]))
        /\ \A i, j \in DOMAIN todo[s] : i < j => todo[s][i] < todo[s][j]
    BY <1>10 DEF TodoInv
  <2>2. \A id \in Ids : lock[id] = s => \A j \in DOMAIN todo[s] : id < todo[s][j]
    BY <1>10 DEF LockInv
  <2>3. Range(todo'[s]) \subseteq Range(Chunk(Kind(s), s[2]))
    BY <1>3, <1>4, <2>1
  <2>4. \A i, j \in DOMAIN todo'[s] : i < j => todo'[s][i] < todo'[s][j]
    BY <1>3, <1>4, <2>1
  <2>5. \A j \in DOMAIN todo'[s] : next < todo'[s][j]
    BY <1>3, <1>4, <2>1
  <2>6. \A id \in Ids : lock[id] = s => \A j \in DOMAIN todo'[s] : id < todo'[s][j]
    BY <1>3, <1>4, <2>2
  <2> QED BY <2>3, <2>4, <2>5, <2>6
<1>11. TodoInv'
  <2> SUFFICES ASSUME NEW t \in Writers \X Chunks
               PROVE  /\ Range(todo'[t]) \subseteq Range(Chunk(Kind(t), t[2]))
                      /\ \A i, j \in DOMAIN todo'[t] : i < j => todo'[t][i] < todo'[t][j]
    BY <1>6 DEF TodoInv
  <2>1. CASE t = s
    BY <1>10, <2>1
  <2>2. CASE t # s
    <3>1. todo'[t] = todo[t]
      BY <1>4, <2>2, StatementFacts
    <3> QED BY <3>1 DEF TodoInv
  <2> QED BY <2>1, <2>2
<1>12. LockInv'
  <2> SUFFICES ASSUME NEW t \in Writers \X Chunks, NEW id \in Ids, lock'[id] = t
               PROVE  /\ id \in Range(Chunk(Kind(t), t[2]))
                      /\ \A j \in DOMAIN todo'[t] : id < todo'[t][j]
                      /\ Kind(t) = "insert" => transactions[id] = NoRow
    BY <1>1, <1>6 DEF LockInv
  <2>1. CASE lock[id] = t
    <3>1. /\ id \in Range(Chunk(Kind(t), t[2]))
          /\ \A j \in DOMAIN todo[t] : id < todo[t][j]
          /\ Kind(t) = "insert" => transactions[id] = NoRow
      BY <2>1 DEF LockInv
    <3>2. t # s => todo'[t] = todo[t]
      BY <1>4, StatementFacts
    <3> QED BY <1>10, <2>1, <3>1, <3>2
  <2>2. CASE lock[id] # t
    <3>1. id = next /\ t = s
      BY <1>5, <2>2
    <3>2. Range(todo[s]) \subseteq Range(Chunk(Kind(s), s[2]))
      BY <3>1 DEF TodoInv
    <3> QED BY <1>3, <1>5, <1>10, <3>1, <3>2
  <2> QED BY <2>1, <2>2
<1>13. UpsertInv'
  <2> SUFFICES ASSUME NEW n \in Chunks, NEW id \in Range(Chunk("upsert", n))
               PROVE  LET t == <<"upsert", n>>
                      IN  /\ phase[t] = "run" => id \in Range(todo'[t]) \/ lock'[id] = t
                          /\ phase[t] = "done" => Resolved(id)' \/ id \in pruned
    BY <1>1, <1>6 DEF UpsertInv
  <2> DEFINE t == <<"upsert", n>>
  <2>1. t \in Statements /\ Kind(t) = "upsert"
    BY StatementFacts DEF Writers
  <2>2. id \in Ids
    BY ChunkAscends DEF Range
  <2>3. /\ phase[t] = "run" => id \in Range(todo[t]) \/ lock[id] = t
        /\ phase[t] = "done" => Resolved(id) \/ id \in pruned
    BY DEF UpsertInv
  <2>4. Resolved(id) => Resolved(id)'
    BY <1>1 DEF Resolved
  <2> HIDE DEF t
  <2>5. lock[id] = t => lock'[id] = t
    BY <1>1, <1>5, <2>1, <2>2, StatementFacts
  <2>6. id \in Range(todo[t]) => id \in Range(todo'[t]) \/ lock'[id] = t
    BY <1>3, <1>4, <1>5, <2>1
  <2> QED BY <2>3, <2>4, <2>5, <2>6, Zenon DEF t
<1> QED BY <1>7, <1>8, <1>9, <1>11, <1>12, <1>13

-----------------------------------------------------------------------------
(***************************************************************************)
(* A statement is committed                                                *)
(***************************************************************************)

\* DO UPDATE SET inputs makes a row that is there a row of the acceptance phase.
LEMMA RowOf ==
    ASSUME IndInv, NEW id \in Ids, NEW s \in Statements, lock[id] = s
    PROVE  /\ Kind(s) = "insert" =>
                 /\ Row(s, id) = map_transaction(args, Transaction[id])
                 /\ transactions[id] = NoRow
           /\ Kind(s) = "upsert" =>
                 Row(s, id) = map_optional_transaction(args, Transaction[id])
           /\ s = prune => Row(s, id) = NoRow
           /\ s # prune => Kind(s) \in Writers /\ id \in Kept(Kind(s))
<1> DEFINE t == Transaction[id]
           new == map_optional_transaction(args, t)
<1>1. ASSUME Kind(s) = "insert"
      PROVE  Row(s, id) = map_transaction(args, t) /\ transactions[id] = NoRow
  <2>1. Row(s, id) = map_transaction(args, t)
    BY <1>1, Zenon DEF Row
  <2>2. s \in Writers \X Chunks
    BY <1>1, StatementFacts
  <2> QED BY <1>1, <2>1, <2>2 DEF IndInv, LockInv
<1>2. ASSUME Kind(s) = "upsert" PROVE Row(s, id) = new
  <2>1. CASE transactions[id] = NoRow
    BY <1>2, <2>1, Zenon DEF Row
  <2>2. CASE transactions[id] # NoRow
    <3>1. Row(s, id) = [transactions[id] EXCEPT !.inputs = new.inputs]
      BY <1>2, <2>2, Zenon DEF Row
    <3>2. transactions[id] = map_transaction(args, t) \/ transactions[id] = new
      BY <2>2 DEF IndInv, RowInv
    <3>3. [map_transaction(args, t) EXCEPT !.inputs = new.inputs] = new
      BY DEF map_transaction, map_optional_transaction, transaction_row
    <3>4. [new EXCEPT !.inputs = new.inputs] = new
      BY DEF map_optional_transaction, transaction_row
    <3> QED BY <3>1, <3>2, <3>3, <3>4
  <2> QED BY <2>1, <2>2
<1>3. s = prune => Row(s, id) = NoRow
  <2> SUFFICES ASSUME s = prune PROVE Row(s, id) = NoRow
    OBVIOUS
  <2>1. Kind(s) = "prune"
    BY StatementFacts
  <2> QED BY <2>1, Zenon DEF Row
<1>4. ASSUME s # prune PROVE Kind(s) \in Writers /\ id \in Kept(Kind(s))
  <2>1. s \in Writers \X Chunks /\ Kind(s) \in Writers /\ s[2] \in Chunks
    BY <1>4, StatementFacts
  <2>2. id \in Range(Chunk(Kind(s), s[2]))
    BY <2>1 DEF IndInv, LockInv
  <2>3. Chunk(Kind(s), s[2]) \in Seq(Kept(Kind(s)))
    BY <2>1, ChunkAscends
  <2> QED BY <2>1, <2>2, <2>3 DEF Range
<1> QED BY <1>1, <1>2, <1>3, <1>4

\* The table after a commit of the statements of S: rows as before, of which only the
\* pruner's are gone, and those of upserts resolved.
LEMMA CommittedRows ==
    ASSUME IndInv, NEW S \in SUBSET Statements, args' = args, transactions' = Committed(S)
    PROVE  /\ RowInv'
           /\ \A id \in Ids :
                 /\ transactions'[id] = NoRow \/ transactions'[id].transaction_id = id
                 /\ lock[id] \notin S => transactions'[id] = transactions[id]
                 /\ lock[id] \in S /\ Kind(lock[id]) = "upsert" => Resolved(id)'
                 /\ Resolved(id) => Resolved(id)' \/ (lock[id] = prune /\ prune \in S)
                 /\ Resolved(id) /\ transactions'[id] # NoRow => Resolved(id)'
<1> DEFINE old(id) == map_transaction(args, Transaction[id])
           new(id) == map_optional_transaction(args, Transaction[id])
<1>1. ASSUME NEW id \in Ids
      PROVE  /\ lock[id] \notin S => transactions'[id] = transactions[id]
             /\ lock[id] \in S => transactions'[id] = Row(lock[id], id)
  BY DEF Committed
<1>2. ASSUME NEW id \in Ids
      PROVE  /\ transactions'[id] \in {NoRow, old(id), new(id)}
             /\ transactions'[id] # NoRow => id \in Kept("insert") \cup Kept("upsert")
  <2>1. CASE lock[id] \notin S
    BY <1>1, <2>1 DEF IndInv, RowInv
  <2>2. CASE lock[id] \in S
    <3>1. lock[id] \in Statements /\ transactions'[id] = Row(lock[id], id)
      BY <1>1, <2>2
    <3> QED BY <3>1, RowOf DEF Writers
  <2> QED BY <2>1, <2>2
<1>3. RowInv'
  BY <1>2, ArgsFixed DEF RowInv
<1>4. ASSUME NEW id \in Ids PROVE new(id) # NoRow /\ old(id) # NoRow
  BY MarkerAssumption DEF Ids, IndInv, TypeOK
<1>5. ASSUME NEW id \in Ids
      PROVE  transactions'[id] = NoRow \/ transactions'[id].transaction_id = id
  <2>1. old(id).transaction_id = id /\ new(id).transaction_id = id
    BY TransactionAssumption
       DEF Ids, map_transaction, map_optional_transaction, transaction_row
  <2> QED BY <1>2, <2>1
<1>6. ASSUME NEW id \in Ids, transactions'[id] = new(id) PROVE Resolved(id)'
  <2>1. new(id).inputs = Then(Enabled(args, "TransactionsInputs"),
                              map_optional_transaction_inputs(args, Transaction[id]))
    BY DEF map_optional_transaction, transaction_row
  <2> QED BY <1>4, <1>6, <2>1 DEF Resolved
<1>7. ASSUME NEW id \in Ids, lock[id] \in S, Kind(lock[id]) = "upsert" PROVE Resolved(id)'
  <2>1. transactions'[id] = new(id)
    BY <1>1, <1>7, RowOf
  <2> QED BY <1>6, <2>1
<1>8. ASSUME NEW id \in Ids, Resolved(id)
      PROVE  Resolved(id)' \/ (lock[id] = prune /\ prune \in S /\ transactions'[id] = NoRow)
  <2>1. CASE lock[id] \notin S
    <3>1. transactions'[id] = transactions[id]
      BY <1>1, <2>1
    <3> QED BY <1>8, <3>1 DEF Resolved
  <2>2. CASE lock[id] \in S
    <3>1. lock[id] \in Statements /\ transactions[id] # NoRow
      BY <1>8, <2>2 DEF Resolved
    <3>2. CASE lock[id] = prune
      BY <1>1, <2>2, <3>2, RowOf, StatementFacts
    <3>3. CASE lock[id] # prune
      BY <1>7, <2>2, <3>1, <3>3, RowOf DEF Writers
    <3> QED BY <3>2, <3>3
  <2> QED BY <2>1, <2>2
<1> QED BY <1>1, <1>3, <1>5, <1>7, <1>8

LEMMA CommitIndInv ==
    ASSUME IndInv, NEW s \in Statements, Commit(s)
    PROVE  IndInv'
<1> USE DEF IndInv
<1>1. /\ phase[s] = "run" /\ todo[s] = <<>>
      /\ transactions' = Committed({s})
      /\ lock' = Unlock({s})
      /\ pruned' = IF s = prune THEN pruned \cup {id \in Locked(s) : Accepted(id)} ELSE pruned
      /\ phase' = [phase EXCEPT ![s] = IF s = prune THEN "idle" ELSE "done"]
      /\ UNCHANGED <<args, parties, recorded, todo, attempts>>
      /\ UNCHANGED <<up, crashes>>
  BY DEF Commit
<1>2. {s} \in SUBSET Statements
  OBVIOUS
<1>3. /\ RowInv'
      /\ \A id \in Ids :
            /\ transactions'[id] = NoRow \/ transactions'[id].transaction_id = id
            /\ lock[id] \notin {s} => transactions'[id] = transactions[id]
            /\ lock[id] \in {s} /\ Kind(lock[id]) = "upsert" => Resolved(id)'
            /\ Resolved(id) => Resolved(id)' \/ (lock[id] = prune /\ prune \in {s})
  BY <1>1, <1>2, CommittedRows
<1>4. /\ phase \in [Statements -> {"idle", "run", "backoff", "done", "failed"}]
      /\ phase' \in [Statements -> {"idle", "run", "backoff", "done", "failed"}]
      /\ \A t \in Statements : t # s => phase'[t] = phase[t]
  BY <1>1 DEF TypeOK
<1>5. /\ lock \in [Ids -> Statements \cup {Nobody}]
      /\ lock' \in [Ids -> Statements \cup {Nobody}]
      /\ \A id \in Ids : lock'[id] = IF lock[id] = s THEN Nobody ELSE lock[id]
  BY <1>1 DEF TypeOK, Unlock
<1>6. \A kind, n : Chunk(kind, n)' = Chunk(kind, n)
  BY <1>1, ArgsFixed
<1>7. TypeOK'
  <2>1. /\ args' \in CliArgs
        /\ recorded' \subseteq Writers
        /\ crashes' \in 0..(MaxCrashes + 1)
        /\ \A t \in Statements : Range(todo'[t]) \subseteq Ids
    BY <1>1 DEF TypeOK
  <2>2. pruned' \subseteq Ids
    BY <1>1 DEF TypeOK, Locked
  <2>3. \A t \in Statements :
            /\ attempts'[t] \in 0..DEADLOCK_MAX_ATTEMPTS
            /\ attempts'[t] = DEADLOCK_MAX_ATTEMPTS => phase'[t] = "failed"
    BY <1>1, <1>4 DEF TypeOK
  <2>4. ASSUME NEW t \in Statements, phase'[t] # "run" PROVE Locked(t)' = {}
    <3>1. t = s \/ Locked(t) = {}
      BY <1>4, <2>4 DEF TypeOK
    <3> QED BY <1>5, <3>1, StatementFacts DEF Locked
  <2>5. up' \in BOOLEAN
    BY <1>1, Zenon DEF TypeOK
  <2> QED BY <1>3, <1>4, <1>5, <2>1, <2>2, <2>3, <2>4, <2>5 DEF TypeOK
<1>8. FunctionsInv'
  <2>1. up' => crashes' <= MaxCrashes
    BY <1>1, Zenon DEF FunctionsInv
  <2> QED BY <1>1, <2>1 DEF FunctionsInv
<1>9. PartiesInv'
  BY <1>1, ArgsFixed DEF PartiesInv
<1>10. TodoInv'
  BY <1>1, <1>6 DEF TodoInv
<1>11. LockInv'
  <2> SUFFICES ASSUME NEW t \in Writers \X Chunks, NEW id \in Ids, lock'[id] = t
               PROVE  /\ id \in Range(Chunk(Kind(t), t[2]))
                      /\ \A j \in DOMAIN todo[t] : id < todo[t][j]
                      /\ Kind(t) = "insert" => transactions'[id] = NoRow
    BY <1>1, <1>6 DEF LockInv
  <2>1. lock[id] = t /\ t # s
    BY <1>5, StatementFacts
  <2>2. transactions'[id] = transactions[id]
    BY <1>3, <2>1
  <2> QED BY <2>1, <2>2 DEF LockInv
<1>12. UpsertInv'
  <2> SUFFICES ASSUME NEW n \in Chunks, NEW id \in Range(Chunk("upsert", n))
               PROVE  LET t == <<"upsert", n>>
                      IN  /\ phase'[t] = "run" => id \in Range(todo[t]) \/ lock'[id] = t
                          /\ phase'[t] = "done" => Resolved(id)' \/ id \in pruned'
    BY <1>1, <1>6 DEF UpsertInv
  <2> DEFINE t == <<"upsert", n>>
  <2>1. t \in Statements /\ t # prune /\ Kind(t) = "upsert" /\ t # Nobody
    BY StatementFacts DEF Writers
  <2>2. id \in Ids
    BY ChunkAscends DEF Range
  <2>3. /\ phase[t] = "run" => id \in Range(todo[t]) \/ lock[id] = t
        /\ phase[t] = "done" => Resolved(id) \/ id \in pruned
    BY DEF UpsertInv
  <2>4. phase[t] = "done" => Accepted(id)
    <3> SUFFICES ASSUME phase[t] = "done",
                        NEW m \in Chunks, id \in Range(Chunk("upsert", m))
                 PROVE  phase[<<"upsert", m>>] = "done"
      BY DEF Accepted
    <3>1. m = n
      BY InOneChunk
    <3> QED BY <3>1
  <2> HIDE DEF t
  <2>5. CASE t = s
    <3>1. phase'[t] = "done"
      BY <1>1, <1>4, <2>1, <2>5
    <3>2. lock[id] = s
      BY <1>1, <2>3, <2>5 DEF Range
    <3>3. Resolved(id)'
      BY <1>3, <2>1, <2>2, <2>5, <3>2
    <3> QED BY <3>1, <3>3, Zenon DEF t
  <2>6. CASE t # s
    <3>1. phase'[t] = phase[t]
      BY <1>4, <2>1, <2>6
    <3>2. lock[id] = t => lock'[id] = t
      BY <1>5, <2>2, <2>6
    <3>3. pruned \subseteq pruned'
      BY <1>1
    <3>4. ASSUME phase[t] = "done", Resolved(id), lock[id] = prune, s = prune
          PROVE  id \in pruned'
      BY <1>1, <2>2, <2>4, <3>4 DEF Locked
    <3>5. phase[t] = "done" => Resolved(id)' \/ id \in pruned'
      BY <1>3, <2>2, <2>3, <3>3, <3>4, Zenon
    <3> QED BY <2>3, <3>1, <3>2, <3>5, Zenon DEF t
  <2> QED BY <2>5, <2>6 DEF t
<1> QED BY <1>3, <1>7, <1>8, <1>9, <1>10, <1>11, <1>12

-----------------------------------------------------------------------------
(***************************************************************************)
(* The process ends                                                        *)
(***************************************************************************)
LEMMA EndsIndInv ==
    ASSUME IndInv, ProcessEnds, up
    PROVE  IndInv'
<1> USE DEF IndInv
<1>1. /\ args' = args /\ parties' = parties /\ recorded' = {} /\ pruned' = {}
      /\ lock' = [id \in Ids |-> Nobody]
      /\ phase' = [t \in Statements |-> IF HasRows(t) THEN "idle" ELSE "done"]
      /\ todo' = [t \in Statements |-> <<>>]
      /\ attempts' = [t \in Statements |-> 0]
      /\ crashes' = crashes + 1
  BY DEF ProcessEnds
<1>2. up' = FALSE
  BY DEF ProcessEnds
<1>3. PICK S \in SUBSET Statements : transactions' = Committed(S)
  BY DEF ProcessEnds
<1>4. /\ RowInv'
      /\ \A id \in Ids : transactions'[id] = NoRow \/ transactions'[id].transaction_id = id
  BY <1>1, <1>3, CommittedRows
<1>5. crashes' \in 0..(MaxCrashes + 1)
  <2>1. crashes <= MaxCrashes
    BY Zenon DEF FunctionsInv
  <2>2. crashes \in 0..(MaxCrashes + 1)
    BY DEF TypeOK
  <2> QED BY <1>1, <2>1, <2>2, RowsAssumption
<1>6. Range(<<>>) = {} /\ DOMAIN <<>> = {} /\ <<>> \in Seq(Ids)
  BY DEF Range
<1>7. TypeOK'
  <2>1. /\ args' \in CliArgs
        /\ recorded' \subseteq Writers /\ pruned' \subseteq Ids
        /\ phase' \in [Statements -> {"idle", "run", "backoff", "done", "failed"}]
        /\ lock' \in [Ids -> Statements \cup {Nobody}]
        /\ \A t \in Statements : Range(todo'[t]) \subseteq Ids
    BY <1>1, <1>6 DEF TypeOK
  <2>2. \A t \in Statements :
            /\ attempts'[t] \in 0..DEADLOCK_MAX_ATTEMPTS
            /\ attempts'[t] = DEADLOCK_MAX_ATTEMPTS => phase'[t] = "failed"
    BY <1>1, RowsAssumption
  <2>3. \A t \in Statements : Locked(t)' = {}
    BY <1>1, StatementFacts DEF Locked
  <2>4. up' \in BOOLEAN
    BY <1>2, Zenon
  <2> QED BY <1>4, <1>5, <2>1, <2>2, <2>3, <2>4 DEF TypeOK
<1>8. FunctionsInv'
  <2>1. up' => crashes' <= MaxCrashes
    BY <1>2, Zenon
  <2> QED BY <1>1, <1>6, <2>1, RowsAssumption DEF FunctionsInv
<1>9. PartiesInv'
  BY <1>1, ArgsFixed DEF PartiesInv
<1>10. TodoInv' /\ LockInv'
  <2>1. \A t \in Writers \X Chunks : todo'[t] = <<>>
    BY <1>1, StatementFacts
  <2>2. \A t \in Writers \X Chunks, id \in Ids : lock'[id] # t
    BY <1>1, StatementFacts
  <2> QED BY <1>6, <2>1, <2>2 DEF TodoInv, LockInv
<1>11. UpsertInv'
  <2> SUFFICES ASSUME NEW n \in Chunks, NEW id \in Range(Chunk("upsert", n))
               PROVE  phase'[<<"upsert", n>>] = "idle"
    BY <1>1, ArgsFixed DEF UpsertInv
  <2>1. <<"upsert", n>> \in Writers \X Chunks /\ Kind(<<"upsert", n>>) = "upsert"
        /\ <<"upsert", n>>[2] = n /\ <<"upsert", n>> \in Statements
    BY StatementFacts DEF Writers
  <2>2. Chunk("upsert", n) # <<>>
    BY DEF Range
  <2>3. HasRows(<<"upsert", n>>)
    BY <2>1, <2>2 DEF HasRows
  <2> QED BY <1>1, <2>1, <2>3
<1> QED BY <1>4, <1>7, <1>8, <1>9, <1>10, <1>11

-----------------------------------------------------------------------------
(***************************************************************************)
(* A victim of a deadlock, and the other steps                             *)
(***************************************************************************)
LEMMA Unlocked ==
    ASSUME lock \in [Ids -> Statements \cup {Nobody}], NEW s \in Statements,
           lock' = Unlock({s}), NEW t \in Statements
    PROVE  Locked(t)' = IF t = s THEN {} ELSE Locked(t)
<1>1. \A id \in Ids : lock'[id] = IF lock[id] = s THEN Nobody ELSE lock[id]
  BY DEF Unlock
<1> QED BY <1>1, NobodyAssumption DEF Locked

LEMMA RolledBackIndInv ==
    ASSUME IndInv, NEW s \in Statements, phase[s] = "run",
           phase' = [phase EXCEPT ![s] = IF attempts[s] + 1 >= DEADLOCK_MAX_ATTEMPTS
                                         THEN "failed" ELSE "backoff"],
           attempts' = [attempts EXCEPT ![s] = @ + 1],
           lock' = Unlock({s}),
           UNCHANGED <<args, transactions, parties, recorded, todo, pruned, up, crashes>>
    PROVE  IndInv'
<1> USE DEF IndInv
<1>1. /\ phase \in [Statements -> {"idle", "run", "backoff", "done", "failed"}]
      /\ phase' \in [Statements -> {"idle", "run", "backoff", "done", "failed"}]
      /\ phase'[s] \in {"failed", "backoff"}
      /\ phase'[s] = "failed" <=> attempts[s] + 1 >= DEADLOCK_MAX_ATTEMPTS
      /\ \A t \in Statements : t # s => phase'[t] = phase[t]
  BY DEF TypeOK
<1>2. /\ lock \in [Ids -> Statements \cup {Nobody}]
      /\ lock' \in [Ids -> Statements \cup {Nobody}]
      /\ \A id \in Ids : lock'[id] = IF lock[id] = s THEN Nobody ELSE lock[id]
  BY DEF TypeOK, Unlock
<1>3. \A kind, n : Chunk(kind, n)' = Chunk(kind, n)
  BY ArgsFixed
<1>4. attempts \in [Statements -> 0..DEADLOCK_MAX_ATTEMPTS]
  BY DEF FunctionsInv
<1>5. attempts[s] # DEADLOCK_MAX_ATTEMPTS
  BY DEF TypeOK
<1>6. /\ attempts' \in [Statements -> 0..DEADLOCK_MAX_ATTEMPTS]
      /\ attempts'[s] = attempts[s] + 1
      /\ \A t \in Statements : t # s => attempts'[t] = attempts[t]
  BY <1>4, <1>5, RowsAssumption
<1>7. TypeOK'
  <2>1. /\ args' \in CliArgs
        /\ \A id \in Ids : transactions'[id] = NoRow \/ transactions'[id].transaction_id = id
        /\ recorded' \subseteq Writers /\ pruned' \subseteq Ids
        /\ crashes' \in 0..(MaxCrashes + 1)
        /\ \A t \in Statements : Range(todo'[t]) \subseteq Ids
    BY DEF TypeOK
  <2>2. \A t \in Statements : attempts'[t] \in 0..DEADLOCK_MAX_ATTEMPTS
    BY <1>6
  <2>3. ASSUME NEW t \in Statements, attempts'[t] = DEADLOCK_MAX_ATTEMPTS
        PROVE  phase'[t] = "failed"
    <3>1. CASE t = s
      BY <1>1, <1>4, <1>6, <2>3, <3>1, RowsAssumption
    <3>2. CASE t # s
      BY <1>1, <1>6, <2>3, <3>2 DEF TypeOK
    <3> QED BY <3>1, <3>2
  <2>4. ASSUME NEW t \in Statements, phase'[t] # "run" PROVE Locked(t)' = {}
    <3>1. t = s \/ Locked(t) = {}
      BY <1>1, <2>4 DEF TypeOK
    <3> QED BY <3>1, Unlocked DEF TypeOK
  <2>5. up' \in BOOLEAN
    BY Zenon DEF TypeOK
  <2> QED BY <1>1, <1>2, <2>1, <2>2, <2>3, <2>4, <2>5 DEF TypeOK
<1>8. FunctionsInv'
  <2>1. up' => crashes' <= MaxCrashes
    BY Zenon DEF FunctionsInv
  <2>2. todo' \in [Statements -> Seq(Ids)]
    BY DEF FunctionsInv
  <2> QED BY <1>6, <2>1, <2>2 DEF FunctionsInv
<1>9. RowInv' /\ PartiesInv'
  BY ArgsFixed DEF RowInv, PartiesInv
<1>10. TodoInv'
  BY <1>3 DEF TodoInv
<1>11. LockInv'
  <2>1. \A t \in Writers \X Chunks, id \in Ids : lock'[id] = t => lock[id] = t
    BY <1>2, StatementFacts
  <2> QED BY <1>3, <2>1 DEF LockInv
<1>12. UpsertInv'
  <2> SUFFICES ASSUME NEW n \in Chunks, NEW id \in Range(Chunk("upsert", n))
               PROVE  LET t == <<"upsert", n>>
                      IN  /\ phase'[t] = "run" => id \in Range(todo[t]) \/ lock'[id] = t
                          /\ phase'[t] = "done" => Resolved(id)' \/ id \in pruned
    BY <1>3 DEF UpsertInv
  <2> DEFINE t == <<"upsert", n>>
  <2>1. t \in Statements
    BY StatementFacts DEF Writers
  <2>2. id \in Ids
    BY ChunkAscends DEF Range
  <2>3. /\ phase[t] = "run" => id \in Range(todo[t]) \/ lock[id] = t
        /\ phase[t] = "done" => Resolved(id) \/ id \in pruned
    BY DEF UpsertInv
  <2>4. Resolved(id) => Resolved(id)'
    BY DEF Resolved
  <2> HIDE DEF t
  <2>5. CASE t = s
    <3>1. phase'[t] # "run" /\ phase'[t] # "done"
      BY <1>1, <2>5
    <3> QED BY <3>1, Zenon DEF t
  <2>6. CASE t # s
    <3>1. phase'[t] = phase[t]
      BY <1>1, <2>1, <2>6
    <3>2. lock[id] = t => lock'[id] = t
      BY <1>2, <2>2, <2>6
    <3> QED BY <2>3, <2>4, <3>1, <3>2, Zenon DEF t
  <2> QED BY <2>5, <2>6 DEF t
<1> QED BY <1>7, <1>8, <1>9, <1>10, <1>11, <1>12

LEMMA VictimIndInv ==
    ASSUME IndInv, NEW s \in Statements, Victim(s)
    PROVE  IndInv'
<1>1. up /\ Deadlocked(s)
  BY DEF Victim
<1>2. phase[s] = "run"
  BY <1>1, VictimRuns
<1> DEFINE last == attempts[s] + 1 >= DEADLOCK_MAX_ATTEMPTS
<1>3. CASE last /\ Kind(s) \in Writers
  <2>1. ProcessEnds
    BY <1>3 DEF Victim
  <2> QED BY <1>1, <2>1, EndsIndInv
<1>4. CASE ~(last /\ Kind(s) \in Writers)
  <2>1. /\ phase' = [phase EXCEPT ![s] = IF last THEN "failed" ELSE "backoff"]
        /\ attempts' = [attempts EXCEPT ![s] = @ + 1]
        /\ lock' = Unlock({s})
        /\ UNCHANGED <<args, transactions, parties, recorded, todo, pruned, up, crashes>>
    BY <1>4 DEF Victim
  <2> QED BY <1>2, <2>1, RolledBackIndInv
<1> QED BY <1>3, <1>4

LEMMA RetryIndInv ==
    ASSUME IndInv, NEW s \in Statements, Retry(s)
    PROVE  IndInv'
<1>1. phase[s] = "backoff"
  BY DEF Retry
<1>2. CASE s = prune /\ Expired = {}
  BY <1>1, <1>2, PruneEndsIndInv DEF Retry
<1>3. CASE ~(s = prune /\ Expired = {})
  BY <1>1, <1>3, BeginIndInv DEF Retry
<1> QED BY <1>2, <1>3

LEMMA StartIndInv ==
    ASSUME IndInv, (\E s \in Statements : StartChunk(s)) \/ StartPrune
    PROVE  IndInv'
<1>1. ASSUME NEW s \in Statements, StartChunk(s) PROVE IndInv'
  BY <1>1, BeginIndInv DEF StartChunk
<1>2. CASE StartPrune
  <2>1. CASE Expired # {}
    BY <1>2, <2>1, BeginIndInv, StatementFacts DEF StartPrune
  <2>2. CASE Expired = {}
    BY <1>2, <2>2, PruneEndsIndInv DEF StartPrune
  <2> QED BY <2>1, <2>2
<1> QED BY <1>1, <1>2

LEMMA RecordIndInv ==
    ASSUME IndInv, NEW kind \in Writers, RecordParties(kind)
    PROVE  IndInv'
<1> USE DEF IndInv
<1>1. /\ parties' = [parties EXCEPT ![PartyTable] = @ \cup Parties(kind)]
      /\ recorded' = recorded \cup {kind}
      /\ UNCHANGED <<args, transactions, phase, todo, attempts, lock, pruned>>
      /\ UNCHANGED <<up, crashes>>
  BY DEF RecordParties
<1>2. \A k, n : Chunk(k, n)' = Chunk(k, n)
  BY <1>1, ArgsFixed
<1>3. TypeOK'
  <2>1. up' \in BOOLEAN
    BY <1>1, Zenon DEF TypeOK
  <2>2. \A s : Locked(s)' = Locked(s)
    BY <1>1 DEF Locked
  <2> QED BY <1>1, <2>1, <2>2 DEF TypeOK
<1>4. FunctionsInv'
  <2>1. up' => crashes' <= MaxCrashes
    BY <1>1, Zenon DEF FunctionsInv
  <2> QED BY <1>1, <2>1 DEF FunctionsInv
<1>5. RowInv' /\ TodoInv' /\ LockInv'
  BY <1>1, <1>2, ArgsFixed DEF RowInv, TodoInv, LockInv
<1>6. UpsertInv'
  <2>1. \A id : Resolved(id) => Resolved(id)'
    BY <1>1 DEF Resolved
  <2> QED BY <1>1, <1>2, <2>1 DEF UpsertInv
<1>7. PartiesInv'
  <2>1. PartyTable \in DOMAIN parties
    BY DEF PartiesInv, PartyTable
  <2>2. kind \in {"insert", "upsert"}
    BY DEF Writers
  <2> QED BY <1>1, <2>1, <2>2, ArgsFixed DEF PartiesInv
<1> QED BY <1>3, <1>4, <1>5, <1>6, <1>7

\* Only up changes, or nothing.
LEMMA RestartIndInv ==
    ASSUME IndInv, Restart \/ UNCHANGED vars
    PROVE  IndInv'
<1> USE DEF IndInv
<1>1. UNCHANGED <<args, transactions, parties, recorded, phase, todo, attempts, lock, pruned,
                  crashes>>
  BY DEF Restart, vars
<1>2. \A k, n : Chunk(k, n)' = Chunk(k, n)
  BY <1>1, ArgsFixed
<1>3. up' \in BOOLEAN /\ (up' => crashes' <= MaxCrashes)
  <2>1. CASE Restart
    BY <2>1, Zenon DEF Restart
  <2>2. CASE UNCHANGED vars
    BY <2>2, Zenon DEF vars, TypeOK, FunctionsInv
  <2> QED BY <2>1, <2>2
<1>4. TypeOK'
  <2>1. \A s : Locked(s)' = Locked(s)
    BY <1>1 DEF Locked
  <2> QED BY <1>1, <1>3, <2>1 DEF TypeOK
<1>5. FunctionsInv'
  BY <1>1, <1>3 DEF FunctionsInv
<1>6. RowInv' /\ TodoInv' /\ LockInv' /\ PartiesInv'
  BY <1>1, <1>2, ArgsFixed DEF RowInv, TodoInv, LockInv, PartiesInv
<1>7. UpsertInv'
  <2>1. \A id : Resolved(id) => Resolved(id)'
    BY <1>1 DEF Resolved
  <2> QED BY <1>1, <1>2, <2>1 DEF UpsertInv
<1> QED BY <1>4, <1>5, <1>6, <1>7

LEMMA NextIndInv == IndInv /\ [Next]_vars => IndInv'
<1> SUFFICES ASSUME IndInv, [Next]_vars PROVE IndInv'
  OBVIOUS
<1>1. ASSUME NEW s \in Statements, StartChunk(s) PROVE IndInv'
  BY <1>1, StartIndInv
<1>2. ASSUME NEW s \in Statements, Acquire(s) PROVE IndInv'
  BY <1>2, AcquireIndInv
<1>3. ASSUME NEW s \in Statements, Commit(s) PROVE IndInv'
  BY <1>3, CommitIndInv
<1>4. ASSUME NEW s \in Statements, Victim(s) PROVE IndInv'
  BY <1>4, VictimIndInv
<1>5. ASSUME NEW s \in Statements, Retry(s) PROVE IndInv'
  BY <1>5, RetryIndInv
<1>6. ASSUME NEW kind \in Writers, RecordParties(kind) PROVE IndInv'
  BY <1>6, RecordIndInv
<1>7. CASE StartPrune
  BY <1>7, StartIndInv
<1>8. CASE Crash
  BY <1>8, EndsIndInv DEF Crash
<1>9. CASE Restart \/ UNCHANGED vars
  BY <1>9, RestartIndInv
<1> QED BY <1>1, <1>2, <1>3, <1>4, <1>5, <1>6, <1>7, <1>8, <1>9 DEF Next

-----------------------------------------------------------------------------
(***************************************************************************)
(* Theorems                                                                *)
(***************************************************************************)
LEMMA Inductive == Spec => []IndInv
<1>1. Init => IndInv
  BY InitIndInv
<1>2. IndInv /\ [Next]_vars => IndInv'
  BY NextIndInv
<1> QED BY <1>1, <1>2, PTL DEF Spec

\* Statements, tables and locks have their types in every state; a statement that is not
\* running holds no lock, whatever deadlocks and crashes it met, and only one that has
\* failed has used all its attempts.  (insert_txs, retry_on_deadlock)
THEOREM RowsTypeCorrect == Spec => []TypeOK
<1>1. IndInv => TypeOK
  BY DEF IndInv
<1> QED BY <1>1, Inductive, PTL

\* Whatever batches the two writers have, in whatever chunks and however many of them at
\* once, each of their deadlocks goes through the pruner: insert_txs sorts its rows.
THEOREM WritersDoNotDeadlock == Spec => []WritersNeverDeadlock
BY NoCycleOfWriters, Inductive, PTL

\* Only a commit changes the table.
LEMMA TableSteps ==
    ASSUME [Next]_vars
    PROVE  /\ args' = args
           /\ \/ transactions' = transactions
              \/ \E S \in SUBSET Statements : transactions' = Committed(S)
<1>1. ASSUME ProcessEnds
      PROVE  args' = args /\ \E S \in SUBSET Statements : transactions' = Committed(S)
  BY <1>1 DEF ProcessEnds
<1>2. ASSUME NEW s \in Statements, Commit(s)
      PROVE  args' = args /\ \E S \in SUBSET Statements : transactions' = Committed(S)
  <2>1. {s} \in SUBSET Statements
    OBVIOUS
  <2> QED BY <1>2, <2>1 DEF Commit
<1>3. ASSUME NEW s \in Statements, Victim(s)
      PROVE  \/ ProcessEnds
             \/ args' = args /\ transactions' = transactions
  BY <1>3 DEF Victim
<1>4. ASSUME NEW s \in Statements, StartChunk(s) \/ Acquire(s) \/ Retry(s)
      PROVE  args' = args /\ transactions' = transactions
  BY <1>4 DEF StartChunk, Acquire, Retry, Begin
<1>5. ASSUME NEW kind \in Writers, RecordParties(kind)
      PROVE  args' = args /\ transactions' = transactions
  BY <1>5 DEF RecordParties
<1>6. ASSUME StartPrune \/ Restart \/ UNCHANGED vars
      PROVE  args' = args /\ transactions' = transactions
  BY <1>6 DEF StartPrune, Restart, Begin, vars
<1>7. Crash => ProcessEnds
  BY DEF Crash
<1> QED BY <1>1, <1>2, <1>3, <1>4, <1>5, <1>6, <1>7 DEF Next

\* A row whose inputs the acceptance phase has resolved keeps them for as long as it is
\* there, in every interleaving of the two writers, their retries and their crashes: an
\* insert locks only where there is no row, and an upsert writes resolved inputs again.
\* (insert_transactions with DO NOTHING and DO UPDATE SET inputs)
THEOREM ResolvedInputsStay == Spec => InputsStayResolved
<1>1. ASSUME IndInv, [Next]_vars
      PROVE  \A id \in Ids : Resolved(id) /\ transactions'[id] # NoRow => Resolved(id)'
  <2>1. args' = args
    BY <1>1, TableSteps
  <2>2. CASE transactions' = transactions
    BY <2>1, <2>2 DEF Resolved
  <2>3. CASE \E S \in SUBSET Statements : transactions' = Committed(S)
    BY <1>1, <2>1, <2>3, CommittedRows
  <2> QED BY <1>1, <2>2, <2>3, TableSteps
<1>2. IndInv /\ [Next]_vars =>
          [\A id \in Ids : Resolved(id) /\ transactions'[id] # NoRow => Resolved(id)']_vars
  BY <1>1
<1> QED BY <1>2, Inductive, PTL DEF Spec, InputsStayResolved

-----------------------------------------------------------------------------
(***************************************************************************)
(* Self-sends and parties                                                  *)
(***************************************************************************)

\* The two filters on one transaction: the first, which does not know the senders, drops
\* at least what the second drops, and the second exactly the self-sends.
LEMMA Filters ==
    ASSUME NEW id \in Ids
    PROVE  /\ SelfSend(Transaction[id]) => ~processed(Transaction[id])
           /\ SelfSend(Transaction[id]) <=> ~accepted(Transaction[id])
<1> DEFINE t == Transaction[id]
           payees == map_outputs_address(t)
           payers == map_inputs_address(t)
           groups == args.ignore_self_sends
<1>1. t.outputs \in Seq(Range(t.outputs))
  BY TransactionAssumption DEF Ids
<1>2. t.outputs # <<>> => payees # {}
  <2> SUFFICES ASSUME t.outputs # <<>> PROVE payees # {}
    OBVIOUS
  <2>1. 1 \in DOMAIN t.outputs
    BY <1>1
  <2> QED BY <2>1 DEF map_outputs_address
<1>3. SelfSend(t) <=> /\ ~is_builtin(t.subnetwork_id)
                      /\ t.outputs # <<>>
                      /\ \E group \in groups : payees \subseteq group /\ payers \subseteq group
  BY DEF SelfSend, map_outputs_address, map_inputs_address
<1> HIDE DEF t, payees, payers, groups
<1>4. ASSUME SelfSend(t)
      PROVE  is_self_send_outputs_only(args, t) /\ is_self_send_full(args, t)
  <2>1. PICK group \in groups : payees \subseteq group /\ payers \subseteq group
    BY <1>3, <1>4
  <2>2. group \in groups \ {{}}
    BY <1>2, <1>3, <1>4, <2>1
  <2> QED BY <1>3, <1>4, <2>1, <2>2
          DEF is_self_send_outputs_only, is_self_send_full, never_self_send,
              ignore_self_sends_groups, payees, payers, groups
<1>5. ASSUME is_self_send_full(args, t) PROVE SelfSend(t)
  BY <1>3, <1>5 DEF is_self_send_full, never_self_send, ignore_self_sends_groups,
                    payees, payers, groups
<1> QED BY <1>4, <1>5 DEF processed, accepted, t

\* A row of a party names a kept transaction.
LEMMA PartyOfKept ==
    ASSUME NEW kind, NEW p \in Parties(kind)
    PROVE  p[2] \in Kept(kind)
<1> DEFINE Named(what(_)) == UNION {{<<u, id>> : u \in what(Transaction[id])} : id \in Kept(kind)}
           AllNamed == UNION {Named(map_outputs_address), Named(map_inputs_address),
                              Named(map_outputs_script), Named(map_inputs_script)}
<1>1. p \in AllNamed
  BY DEF Parties
<1>2. PICK id \in Kept(kind) : \E u : p = <<u, id>>
  BY <1>1
<1> QED BY <1>2

\* Nothing that --ignore-self-sends names is ever stored, although the transaction
\* processor sees only one side of a transaction.
\* (is_self_send_outputs_only, is_self_send_full)
THEOREM SelfSendsAreIgnored == Spec => []SelfSendsIgnored
<1>1. ASSUME IndInv PROVE SelfSendsIgnored
  <2> SUFFICES ASSUME NEW id \in Ids, SelfSend(Transaction[id])
               PROVE  /\ transactions[id] = NoRow
                      /\ \A table \in DOMAIN parties : \A p \in parties[table] : p[2] # id
    BY DEF SelfSendsIgnored
  <2>1. id \notin Kept("insert") /\ id \notin Kept("upsert")
    BY Filters DEF Kept
  <2>2. transactions[id] = NoRow
    BY <1>1, <2>1 DEF IndInv, RowInv
  <2>3. ASSUME NEW table \in DOMAIN parties, NEW p \in parties[table] PROVE p[2] # id
    <3>1. p \in Parties("insert") \/ p \in Parties("upsert")
      BY <1>1 DEF IndInv, PartiesInv
    <3> QED BY <2>1, <3>1, PartyOfKept
  <2> QED BY <2>2, <2>3
<1> QED BY <1>1, Inductive, PTL

\* When the accepted batch is done every transaction of it that is not a self-send is in
\* the table with its inputs resolved, or was deleted since by the pruner: no chunk, no
\* retry and no crash loses one.  (accept_transactions, insert_txs, retry_on_deadlock)
THEOREM AcceptedAreStored == Spec => []AcceptedStored
<1>1. ASSUME IndInv PROVE AcceptedStored
  <2> SUFFICES ASSUME BatchDone("upsert"), Enabled(args, "TransactionsTable"),
                      NEW id \in Range(AcceptedBatch), ~SelfSend(Transaction[id])
               PROVE  Resolved(id) \/ id \in pruned
    BY DEF AcceptedStored
  <2>1. id \in Ids /\ id \in Kept("upsert")
    BY IdsFinite, Filters DEF Kept
  <2>2. PICK n \in Chunks : id \in Range(Chunk("upsert", n))
    BY <2>1, InSomeChunk
  <2>3. phase[<<"upsert", n>>] = "done"
    BY DEF BatchDone
  <2> QED BY <1>1, <2>2, <2>3 DEF IndInv, UpsertInv
<1> QED BY <1>1, Inductive, PTL

\* When the accepted batch is done, every payer and payee of a transaction of it that is
\* not a self-send finds it in the table that the settings select, and the other table
\* has no rows.  (accept_transactions, insert_tx_addr, insert_tx_script)
THEOREM PartiesAreRecorded == Spec => []PartiesRecorded
<1>1. ASSUME IndInv PROVE PartiesRecorded
  <2> DEFINE byAddress == Included(args, "TxOutScriptPublicKeyAddress")
             byScript == ~byAddress /\ Included(args, "TxOutScriptPublicKey")
             enabled == Enabled(args, "AddressesTransactionsTable")
             addresses == parties["addresses_transactions"]
             scripts == parties["scripts_transactions"]
  <2>1. /\ byAddress => PartyTable = "addresses_transactions"
        /\ ~byAddress => PartyTable = "scripts_transactions"
    BY DEF PartyTable
  <2>2. ASSUME NEW kind \in Writers, ~enabled \/ ~(byAddress \/ byScript)
        PROVE  Parties(kind) = {}
    BY <2>2 DEF Parties
  <2>3. (~byAddress \/ ~enabled) => addresses = {}
    BY <1>1, <2>1, <2>2 DEF IndInv, PartiesInv, Writers
  <2>4. (~byScript \/ ~enabled) => scripts = {}
    BY <1>1, <2>1, <2>2 DEF IndInv, PartiesInv, Writers
  <2>5. ASSUME BatchDone("upsert"), enabled,
               NEW id \in Range(AcceptedBatch), ~SelfSend(Transaction[id])
        PROVE  LET t == Transaction[id]
                   spent == {t.inputs[n].utxo : n \in DOMAIN t.inputs}
                   paid == {t.outputs[n] : n \in DOMAIN t.outputs}
               IN  \A u \in spent \cup paid :
                      /\ byAddress => <<u.address, id>> \in addresses
                      /\ byScript => <<u.script_public_key, id>> \in scripts
    <3> DEFINE t == Transaction[id]
               spent == {t.inputs[n].utxo : n \in DOMAIN t.inputs}
               paid == {t.outputs[n] : n \in DOMAIN t.outputs}
    <3>1. id \in Kept("upsert")
      BY <2>5, IdsFinite, Filters DEF Kept
    <3>2. Parties("upsert") \subseteq parties[PartyTable]
      BY <1>1, <2>5 DEF IndInv, PartiesInv, BatchDone
    <3>3. ASSUME NEW u \in spent \cup paid, byAddress PROVE <<u.address, id>> \in addresses
      <4>1. u.address \in map_inputs_address(t) \cup map_outputs_address(t)
        BY DEF map_inputs_address, map_outputs_address
      <4>2. <<u.address, id>> \in Parties("upsert")
        BY <2>5, <3>1, <3>3, <4>1 DEF Parties
      <4> QED BY <2>1, <3>2, <3>3, <4>2
    <3>4. ASSUME NEW u \in spent \cup paid, byScript
          PROVE  <<u.script_public_key, id>> \in scripts
      <4>1. u.script_public_key \in map_inputs_script(t) \cup map_outputs_script(t)
        BY DEF map_inputs_script, map_outputs_script
      <4>2. <<u.script_public_key, id>> \in Parties("upsert")
        BY <2>5, <3>1, <3>4, <4>1 DEF Parties
      <4> QED BY <2>1, <3>2, <3>4, <4>2
    <3> QED BY <3>3, <3>4
  <2> QED BY <2>3, <2>4, <2>5 DEF PartiesRecorded
<1> QED BY <1>1, Inductive, PTL

-----------------------------------------------------------------------------
(***************************************************************************)
(* Reading a row back                                                      *)
(***************************************************************************)

\* A number is told by quotient and remainder.
LEMMA Remainder ==
    ASSUME NEW n \in Nat \ {0}, NEW q \in Int, NEW r \in 0..(n - 1)
    PROVE  (n * q + r) % n = r
<1> DEFINE d == n * q + r
           p == d \div n
           s == d % n
<1>1. d \in Int
  OBVIOUS
<1>2. p \in Int /\ s \in 0..(n - 1) /\ d = n * p + s
  <2> HIDE DEF d
  <2> QED BY <1>1, SMT
<1>3. n * (q - p) = s - r
  <2> HIDE DEF p, s
  <2>1. n * (q - p) = n * q - n * p
    BY <1>2, SMT
  <2> QED BY <1>2, <2>1, SMT
<1>4. q = p
  <2> HIDE DEF p, s, d
  <2>1. ASSUME q > p PROVE FALSE
    <3>1. n * (q - p) >= n * 1
      BY <1>2, <2>1, SMT
    <3> QED BY <1>2, <1>3, <3>1, SMT
  <2>2. ASSUME q < p PROVE FALSE
    <3>1. n * (q - p) <= n * (-1)
      BY <1>2, <2>2, SMT
    <3> QED BY <1>2, <1>3, <3>1, SMT
  <2> QED BY <1>2, <2>1, <2>2
<1>5. s = r
  <2> HIDE DEF p, s, d
  <2> QED BY <1>2, <1>3, <1>4, SMT
<1> QED BY <1>5 DEF s, d

\* The same with a sign: where the upper half of n numbers stands for negative ones.
LEMMA Signed ==
    ASSUME NEW h \in Nat \ {0}, NEW n, n = 2 * h, NEW v \in 0..(n - 1)
    PROVE  LET signed == ((v + h) % n) - h
           IN  /\ signed \in Int /\ signed % n = v /\ v % n = v
               /\ v < h => signed = v
<1> DEFINE signed == ((v + h) % n) - h
<1>1. n \in Nat \ {0}
  OBVIOUS
<1>2. ASSUME NEW q \in Int, NEW r \in 0..(n - 1) PROVE (n * q + r) % n = r
  BY <1>1, Remainder
<1>3. v % n = v
  <2>1. n * 0 + v = v
    BY <1>1
  <2>2. (n * 0 + v) % n = v
    BY <1>2
  <2> QED BY <2>1, <2>2, Zenon
<1>4. CASE v < h
  <2>1. n * 0 + (v + h) = v + h /\ v + h \in 0..(n - 1) /\ (v + h) - h = v /\ v \in Int
    BY <1>1, <1>4
  <2>2. (n * 0 + (v + h)) % n = v + h
    BY <1>2, <2>1
  <2>3. signed = v
    BY <2>1, <2>2, Zenon
  <2> HIDE DEF signed
  <2>4. signed \in Int /\ signed % n = v /\ v % n = v /\ (v < h => signed = v)
    BY <1>3, <2>1, <2>3, Zenon
  <2> QED BY <2>4 DEF signed
<1>5. CASE ~(v < h)
  <2>1. n * 1 + (v - h) = v + h /\ v - h \in 0..(n - 1) /\ (v - h) - h = v - n
    BY <1>1, <1>5
  <2>2. (n * 1 + (v - h)) % n = v - h
    BY <1>2, <2>1
  <2>3. signed = v - n
    BY <2>1, <2>2, Zenon
  <2>4. n * (-1) + v = v - n /\ v - n \in Int
    BY <1>1
  <2>5. (n * (-1) + v) % n = v
    BY <1>2
  <2> HIDE DEF signed
  <2>6. signed \in Int /\ signed % n = v /\ v % n = v /\ (v < h => signed = v)
    BY <1>3, <1>5, <2>3, <2>4, <2>5, Zenon
  <2> QED BY <2>6 DEF signed
<1> QED BY <1>4, <1>5

\* What "as i16" does to 16 bits is undone by reading them without their sign, and it
\* does nothing to 15 bits.
LEMMA SixteenBits ==
    /\ \A v \in 0..(2^16 - 1) : I16(v) \in Int /\ I16(v) % 2^16 = v /\ v % 2^16 = v
    /\ \A v \in 0..(2^15 - 1) : I16(v) = v
<1>1. 2^15 \in Nat \ {0} /\ 2^16 = 2 * 2^15
  OBVIOUS
<1> DEFINE h == 2^15
           n == 2^16
<1>2. h \in Nat \ {0} /\ n = 2 * h
  BY <1>1
<1>3. \A v : I16(v) = ((v + h) % n) - h
  BY <1>1 DEF I16, AsSigned
<1>4. ASSUME NEW v \in 0..(n - 1)
      PROVE  I16(v) \in Int /\ I16(v) % n = v /\ v % n = v /\ (v < h => I16(v) = v)
  <2> HIDE DEF h, n
  <2>1. LET signed == ((v + h) % n) - h
        IN  /\ signed \in Int /\ signed % n = v /\ v % n = v
            /\ v < h => signed = v
    BY <1>2, Signed
  <2> QED BY <1>3, <2>1, Zenon
<1>5. ASSUME NEW v \in 0..(h - 1) PROVE v \in 0..(n - 1) /\ v < h
  <2> HIDE DEF h, n
  <2> QED BY <1>2
<1>6. /\ \A v \in 0..(n - 1) : I16(v) \in Int /\ I16(v) % n = v /\ v % n = v
      /\ \A v \in 0..(h - 1) : I16(v) = v
  <2> HIDE DEF h, n
  <2> QED BY <1>4, <1>5, Zenon
<1> QED BY <1>6, Zenon DEF h, n

\* What "as i32" does to 32 bits is undone in the same way.
LEMMA ThirtyTwoBits ==
    \A v \in 0..(2 * I32Half - 1) :
        I32(v) \in Int /\ I32(v) % (2 * I32Half) = v /\ v % (2 * I32Half) = v
<1> DEFINE n == 2 * I32Half
<1>1. I32Half \in Nat \ {0}
  BY MapperAssumption
<1>2. ASSUME NEW v \in 0..(n - 1)
      PROVE  I32(v) \in Int /\ I32(v) % n = v /\ v % n = v
  <2>1. I32(v) = ((v + I32Half) % n) - I32Half
    BY Zenon DEF I32, AsSigned
  <2>2. n = 2 * I32Half
    OBVIOUS
  <2> HIDE DEF n
  <2>3. LET signed == ((v + I32Half) % n) - I32Half
        IN  signed \in Int /\ signed % n = v /\ v % n = v
    BY <1>1, <2>2, Signed
  <2> QED BY <2>1, <2>3, Zenon
<1> QED BY <1>2

\* The number of bytes that compress_subnetwork_id keeps.
LEMMA LastByte ==
    ASSUME NEW bytes \in [1..SubnetworkBytes -> 0..255]
    PROVE  LET len == Max({0} \cup {i \in 1..SubnetworkBytes : bytes[i] # 0})
           IN  /\ len \in 0..SubnetworkBytes
               /\ \A i \in 1..SubnetworkBytes : i > len => bytes[i] = 0
<1> DEFINE S == {0} \cup {i \in 1..SubnetworkBytes : bytes[i] # 0}
           T == {SubnetworkBytes - i : i \in S}
<1>1. S \subseteq 0..SubnetworkBytes /\ 0 \in S /\ SubnetworkBytes \in Nat
  BY MapperAssumption
<1>2. T \in SUBSET Nat /\ T # {}
  <2> HIDE DEF S
  <2> QED BY <1>1
<1>3. PICK m \in T : \A k \in T : m <= k
  <2> HIDE DEF T
  <2> QED BY <1>2, LeastNatural
<1>4. \E x \in S : \A y \in S : x >= y
  <2> HIDE DEF S
  <2>1. PICK x \in S : m = SubnetworkBytes - x
    OBVIOUS
  <2>2. ASSUME NEW y \in S PROVE x >= y
    <3>1. m <= SubnetworkBytes - y
      BY <1>3
    <3> QED BY <1>1, <2>1, <3>1
  <2> QED BY <2>2
<1>5. Max(S) \in S /\ \A y \in S : Max(S) >= y
  <2> HIDE DEF S
  <2> QED BY <1>4, Zenon DEF Max
<1>6. Max(S) \in 0..SubnetworkBytes
  <2> HIDE DEF S
  <2> QED BY <1>1, <1>5
<1>7. ASSUME NEW i \in 1..SubnetworkBytes, i > Max(S) PROVE bytes[i] = 0
  <2>1. i \notin S
    <3> HIDE DEF S
    <3> QED BY <1>1, <1>5, <1>6, <1>7
  <2> QED BY <2>1
<1> QED BY <1>6, <1>7

\* A subnetwork id that is stored without its trailing zeros, or as NULL, reads back when
\* it is filled up with zeros.
LEMMA Padded ==
    ASSUME NEW bytes \in [1..SubnetworkBytes -> 0..255],
           \A len \in 1..SubnetworkBytes : SubSeq(bytes, 1, len) # Null
    PROVE  LET stored == Stored(compress_subnetwork_id(bytes), <<>>)
           IN  [n \in 1..SubnetworkBytes |-> IF n <= Len(stored) THEN stored[n] ELSE 0] = bytes
<1> DEFINE len == Max({0} \cup {i \in 1..SubnetworkBytes : bytes[i] # 0})
           stored == Stored(compress_subnetwork_id(bytes), <<>>)
<1>1. len \in 0..SubnetworkBytes /\ \A i \in 1..SubnetworkBytes : i > len => bytes[i] = 0
  BY LastByte
<1>2. SubnetworkBytes \in Nat \ {0} /\ bytes \in Seq(0..255) /\ Len(bytes) = SubnetworkBytes
  BY MapperAssumption
<1>3. compress_subnetwork_id(bytes) = IF len = 0 THEN Null ELSE SubSeq(bytes, 1, len)
  BY Zenon DEF compress_subnetwork_id
<1> HIDE DEF len
<1>4. stored = IF len = 0 THEN <<>> ELSE SubSeq(bytes, 1, len)
  BY <1>1, <1>3 DEF Stored
<1> HIDE DEF stored
<1>5. Len(stored) = len /\ \A n \in 1..len : stored[n] = bytes[n]
  <2>1. CASE len = 0
    BY <1>4, <2>1
  <2>2. CASE len # 0
    <3>1. stored = SubSeq(bytes, 1, len)
      BY <1>4, <2>2
    <3> QED BY <1>1, <1>2, <2>2, <3>1
  <2> QED BY <2>1, <2>2
<1>6. [n \in 1..SubnetworkBytes |-> IF n <= Len(stored) THEN stored[n] ELSE 0] = bytes
  <2>1. ASSUME NEW n \in 1..SubnetworkBytes
        PROVE  (IF n <= Len(stored) THEN stored[n] ELSE 0) = bytes[n]
    BY <1>1, <1>5
  <2> QED BY <2>1
<1> QED BY <1>6 DEF stored

\* The ways a value gets into a column, and how it reads back.
LEMMA Columns ==
    ASSUME NEW field, NEW value, NEW default
    PROVE  /\ ReadsAs(field, Then(Included(args, field), value), Null, value)
           /\ value # Null =>
                 ReadsAs(field, Then(Included(args, field) /\ value # default, value),
                         default, value)
BY Zenon DEF ReadsAs, Then, Stored

LEMMA Columns16 ==
    ASSUME NEW field, NEW v \in 0..(2^16 - 1)
    PROVE  /\ ReadsAsU16(field, Then(Included(args, field), I16(v)), v)
           /\ ReadsAsU16(field, Then(Included(args, field) /\ v # 0, I16(v)), v)
           /\ ReadsAsU16(field, Then(Included(args, field) /\ v # 0, v), v)
<1>1. I16(v) \in Int /\ I16(v) % 2^16 = v /\ v % 2^16 = v
  BY SixteenBits, Zenon
<1>2. v \in Int
  OBVIOUS
<1>3. I16(v) # Null /\ v # Null
  BY <1>1, <1>2, MarkerAssumption, Zenon
<1>4. v = 0 => 0 % 2^16 = v
  BY <1>1, Zenon
<1> QED BY <1>1, <1>3, <1>4, Zenon DEF ReadsAsU16, Then, Stored

\* The position of an input or output.
LEMMA Index ==
    ASSUME NEW len \in Nat, len <= 2^15, NEW n \in 1..len
    PROVE  I16(n - 1) = n - 1
<1> DEFINE h == 2^15
<1>1. h \in Nat
  OBVIOUS
<1>2. n - 1 \in 0..(h - 1)
  <2>1. len <= h
    OBVIOUS
  <2> HIDE DEF h
  <2> QED BY <1>1, <2>1
<1> QED BY <1>2, SixteenBits, Zenon DEF h

LEMMA InputColumns ==
    ASSUME NEW i, NEW len \in Nat, len <= 2^15, NEW n \in 1..len,
           {i.outpoint.index, i.sig_op_count, i.compute_budget} \subseteq 0..(2^16 - 1)
    PROVE  /\ InputReadsBack(map_transaction_input(args, i, n), n, i)
           /\ InputReadsBack(map_optional_transaction_input(args, i, n), n, i)
<1>1. I16(n - 1) = n - 1
  BY Index
<1>2. /\ i.outpoint.index \in 0..(2^16 - 1)
      /\ i.sig_op_count \in 0..(2^16 - 1)
      /\ i.compute_budget \in 0..(2^16 - 1)
  BY Zenon
<1>3. /\ ReadsAsU16("TxInPreviousOutpoint",
                    Then(Included(args, "TxInPreviousOutpoint"), I16(i.outpoint.index)),
                    i.outpoint.index)
      /\ ReadsAsU16("TxInSigOpCount",
                    Then(Included(args, "TxInSigOpCount") /\ i.sig_op_count # 0,
                         i.sig_op_count),
                    i.sig_op_count)
      /\ ReadsAsU16("TxInComputeBudget",
                    Then(Included(args, "TxInComputeBudget") /\ i.compute_budget # 0,
                         I16(i.compute_budget)),
                    i.compute_budget)
  BY <1>2, Columns16, Zenon
<1>4. /\ ReadsAs("TxInPreviousOutpoint",
                 Then(Included(args, "TxInPreviousOutpoint"), i.outpoint.transaction_id),
                 Null, i.outpoint.transaction_id)
      /\ ReadsAs("TxInSignatureScript",
                 Then(Included(args, "TxInSignatureScript"), i.signature_script),
                 Null, i.signature_script)
  BY Columns, Zenon
<1> DEFINE hash == Then(Included(args, "TxInPreviousOutpoint"), i.outpoint.transaction_id)
           index == Then(Included(args, "TxInPreviousOutpoint"), I16(i.outpoint.index))
           script == Then(Included(args, "TxInSignatureScript"), i.signature_script)
           count == Then(Included(args, "TxInSigOpCount") /\ i.sig_op_count # 0, i.sig_op_count)
           budget == Then(Included(args, "TxInComputeBudget") /\ i.compute_budget # 0,
                          I16(i.compute_budget))
           old == map_transaction_input(args, i, n)
           new == map_optional_transaction_input(args, i, n)
           Agrees(in) == /\ in.index = I16(n - 1)
                         /\ in.previous_outpoint_hash = hash
                         /\ in.previous_outpoint_index = index
                         /\ in.signature_script = script
                         /\ in.sig_op_count = count
                         /\ in.compute_budget = budget
<1>5. old = [index |-> I16(n - 1), previous_outpoint_hash |-> hash,
             previous_outpoint_index |-> index, signature_script |-> script,
             sig_op_count |-> count, previous_outpoint_script |-> Null,
             previous_outpoint_amount |-> Null, compute_budget |-> budget,
             covenant_id |-> Null]
  BY Zenon DEF map_transaction_input
<1>6. PICK spent, amount, covenant :
           new = [old EXCEPT !.previous_outpoint_script = spent,
                             !.previous_outpoint_amount = amount,
                             !.covenant_id = covenant]
  BY Zenon DEF map_optional_transaction_input
<1>7. Agrees(old) /\ Agrees(new)
  <2> HIDE DEF hash, index, script, count, budget, old, new
  <2>1. Agrees(old)
    BY <1>5
  <2>2. Agrees(new)
    BY <1>5, <1>6
  <2> QED BY <2>1, <2>2
<1>8. ASSUME NEW in, Agrees(in) PROVE InputReadsBack(in, n, i)
  BY <1>1, <1>3, <1>4, <1>8, Zenon DEF InputReadsBack
<1> HIDE DEF old, new, Agrees
<1>9. InputReadsBack(old, n, i) /\ InputReadsBack(new, n, i)
  BY <1>7, <1>8
<1> QED BY <1>9, Zenon DEF old, new

\* The columns inputs and outputs: a list that is empty, or whose table part is disabled,
\* is NULL, and every other one is mapped element by element.
LEMMA InputsColumn ==
    ASSUME NEW id \in Ids, args \in CliArgs,
           NEW mapped \in {map_transaction_inputs(args, Transaction[id]),
                           map_optional_transaction_inputs(args, Transaction[id])}
    PROVE  LET t == Transaction[id]
               stored == Stored(Then(Enabled(args, "TransactionsInputs"), mapped), <<>>)
           IN  /\ Len(stored) = IF Enabled(args, "TransactionsInputs") THEN Len(t.inputs) ELSE 0
               /\ \A n \in DOMAIN stored : InputReadsBack(stored[n], n, t.inputs[n])
<1> DEFINE t == Transaction[id]
           on == Enabled(args, "TransactionsInputs")
           stored == Stored(Then(on, mapped), <<>>)
           len == Len(t.inputs)
<1>1. /\ t.inputs \in Seq(Range(t.inputs)) /\ len <= 2^15
      /\ \A i \in Range(t.inputs) :
            {i.outpoint.index, i.sig_op_count, i.compute_budget} \subseteq 0..(2^16 - 1)
  BY TransactionAssumption, Zenon DEF Ids
<1>2. t.inputs # <<>> => mapped # Null
  BY MarkerAssumption, Zenon DEF Ids
<1>3. CASE ~on \/ t.inputs = <<>>
  <2>1. Then(on, mapped) = Null
    BY <1>3, Zenon DEF Then, map_transaction_inputs, map_optional_transaction_inputs
  <2>2. stored = <<>>
    BY <2>1, Zenon DEF Stored
  <2>3. Len(stored) = 0 /\ DOMAIN stored = {}
    BY <2>2
  <2>4. Len(stored) = IF on THEN Len(t.inputs) ELSE 0
    BY <1>3, <2>3, <2>2, Zenon
  <2> QED BY <2>3, <2>4, Zenon
<1>4. CASE on /\ t.inputs # <<>>
  <2>1. stored = mapped
    BY <1>2, <1>4, Zenon DEF Stored, Then
  <2>2. len \in Nat /\ DOMAIN t.inputs = 1..len
    <3>1. t.inputs \in Seq(Range(t.inputs))
      BY <1>1
    <3> QED BY <3>1
  <2>3. \/ mapped = [n \in DOMAIN t.inputs |-> map_transaction_input(args, t.inputs[n], n)]
        \/ mapped = [n \in DOMAIN t.inputs |->
                        map_optional_transaction_input(args, t.inputs[n], n)]
    BY <1>4, Zenon DEF Then, map_transaction_inputs, map_optional_transaction_inputs
  <2>4. DOMAIN mapped = 1..len
    BY <2>2, <2>3, Zenon
  <2>5. Len(stored) = len
    <3> HIDE DEF len, stored
    <3>1. mapped = [n \in 1..len |-> mapped[n]]
      BY <2>2, <2>3, <2>4, Zenon
    <3>2. Len([n \in 1..len |-> mapped[n]]) = len
      BY <2>2
    <3> QED BY <2>1, <3>1, <3>2, Zenon
  <2>6. ASSUME NEW n \in 1..len PROVE InputReadsBack(mapped[n], n, t.inputs[n])
    <3>1. t.inputs[n] \in Range(t.inputs)
      BY <2>2, Zenon DEF Range
    <3>2. /\ InputReadsBack(map_transaction_input(args, t.inputs[n], n), n, t.inputs[n])
          /\ InputReadsBack(map_optional_transaction_input(args, t.inputs[n], n), n,
                            t.inputs[n])
      BY <1>1, <2>2, <3>1, InputColumns, Zenon
    <3> QED BY <2>2, <2>3, <3>2, Zenon
  <2> QED BY <1>4, <2>1, <2>4, <2>5, <2>6, Zenon
<1> QED BY <1>3, <1>4, Zenon

LEMMA OutputsColumn ==
    ASSUME NEW id \in Ids, args \in CliArgs
    PROVE  LET t == Transaction[id]
               stored == Stored(Then(Enabled(args, "TransactionsOutputs"),
                                     map_transaction_outputs(args, t)), <<>>)
           IN  /\ Len(stored) = IF Enabled(args, "TransactionsOutputs")
                                THEN Len(t.outputs) ELSE 0
               /\ \A n \in DOMAIN stored : OutputReadsBack(stored[n], n, t.outputs[n])
<1> DEFINE t == Transaction[id]
           on == Enabled(args, "TransactionsOutputs")
           mapped == map_transaction_outputs(args, t)
           stored == Stored(Then(on, mapped), <<>>)
           len == Len(t.outputs)
           Output(n) ==
               LET o == t.outputs[n]
               IN  [index |-> I16(n - 1),
                    amount |-> Then(Included(args, "TxOutAmount"), o.value),
                    script_public_key |->
                       Then(Included(args, "TxOutScriptPublicKey"), o.script_public_key),
                    script_public_key_address |->
                       Then(Included(args, "TxOutScriptPublicKeyAddress"), o.address),
                    covenant_authorizing_input |->
                       Then(Included(args, "TxOutCovenantAuthorizingInput")
                               /\ o.covenant # Null,
                            I16(o.covenant.authorizing_input)),
                    covenant_id |->
                       Then(Included(args, "TxOutCovenantId") /\ o.covenant # Null,
                            o.covenant.covenant_id)]
<1>1. /\ t.outputs \in Seq(Range(t.outputs)) /\ len <= 2^15
      /\ \A o \in Range(t.outputs) :
            o.covenant # Null => o.covenant.authorizing_input \in 0..(2^16 - 1)
  BY TransactionAssumption, Zenon DEF Ids
<1>2. t.outputs # <<>> => mapped # Null
  BY MarkerAssumption, Zenon DEF Ids
<1>3. CASE ~on \/ t.outputs = <<>>
  <2>1. Then(on, mapped) = Null
    BY <1>3, Zenon DEF Then, map_transaction_outputs
  <2>2. stored = <<>>
    BY <2>1, Zenon DEF Stored
  <2>3. Len(stored) = 0 /\ DOMAIN stored = {}
    BY <2>2
  <2>4. Len(stored) = IF on THEN Len(t.outputs) ELSE 0
    BY <1>3, <2>3, <2>2, Zenon
  <2> QED BY <2>3, <2>4, Zenon
<1>4. CASE on /\ t.outputs # <<>>
  <2>1. stored = mapped
    BY <1>2, <1>4, Zenon DEF Stored, Then
  <2>2. len \in Nat /\ DOMAIN t.outputs = 1..len
    BY <1>1
  <2>3. mapped = [n \in DOMAIN t.outputs |-> Output(n)]
    BY <1>4, Zenon DEF Then, map_transaction_outputs
  <2>4. mapped = [n \in 1..len |-> Output(n)]
    BY <2>2, <2>3, Zenon
  <2>5. Len(stored) = len /\ DOMAIN mapped = 1..len
    <3> HIDE DEF len, stored, mapped, Output
    <3> QED BY <2>1, <2>2, <2>4
  <2>6. ASSUME NEW n \in 1..len PROVE OutputReadsBack(mapped[n], n, t.outputs[n])
    <3> DEFINE o == t.outputs[n]
               amount == Then(Included(args, "TxOutAmount"), o.value)
               script == Then(Included(args, "TxOutScriptPublicKey"), o.script_public_key)
               address == Then(Included(args, "TxOutScriptPublicKeyAddress"), o.address)
               input == Then(Included(args, "TxOutCovenantAuthorizingInput")
                                /\ o.covenant # Null,
                             I16(o.covenant.authorizing_input))
               covenant == Then(Included(args, "TxOutCovenantId") /\ o.covenant # Null,
                                o.covenant.covenant_id)
    <3>1. I16(n - 1) = n - 1
      BY <1>1, <2>2, Index
    <3>2. Output(n) =
            [index |-> I16(n - 1), amount |-> amount, script_public_key |-> script,
             script_public_key_address |-> address,
             covenant_authorizing_input |-> input, covenant_id |-> covenant]
      BY Zenon
    <3>3. mapped[n] = Output(n)
      BY <2>4, Zenon
    <3>4. /\ mapped[n].index = n - 1 /\ mapped[n].amount = amount
          /\ mapped[n].script_public_key = script
          /\ mapped[n].script_public_key_address = address
          /\ mapped[n].covenant_authorizing_input = input
          /\ mapped[n].covenant_id = covenant
      <4> HIDE DEF mapped, Output, amount, script, address, input, covenant
      <4> QED BY <3>1, <3>2, <3>3
    <3>5. /\ ReadsAs("TxOutAmount", amount, Null, o.value)
          /\ ReadsAs("TxOutScriptPublicKey", script, Null, o.script_public_key)
          /\ ReadsAs("TxOutScriptPublicKeyAddress", address, Null, o.address)
      BY Columns, Zenon
    <3>6. ReadsAs("TxOutCovenantId", covenant, Null,
                  IF o.covenant = Null THEN Null ELSE o.covenant.covenant_id)
      BY Zenon DEF ReadsAs, Then, Stored
    <3>7. ReadsAsInput("TxOutCovenantAuthorizingInput", input, o.covenant)
      <4>1. o \in Range(t.outputs)
        BY <2>2, Zenon DEF Range
      <4>2. ASSUME o.covenant # Null
            PROVE  LET v == I16(o.covenant.authorizing_input)
                   IN  v # Null /\ v % 2^16 = o.covenant.authorizing_input
        <5>1. o.covenant.authorizing_input \in 0..(2^16 - 1)
          BY <1>1, <4>1, <4>2, Zenon
        <5> QED BY <5>1, SixteenBits, MarkerAssumption, Zenon
      <4> QED BY <4>2, Zenon DEF ReadsAsInput, Then
    <3> HIDE DEF mapped, Output, amount, script, address, input, covenant
    <3> QED BY <3>4, <3>5, <3>6, <3>7, Zenon DEF OutputReadsBack
  <2> QED BY <1>4, <2>1, <2>5, <2>6, Zenon
<1> QED BY <1>3, <1>4, Zenon

\* A row of either writer reads back.
LEMMA RowColumns ==
    ASSUME NEW id \in Ids, args \in CliArgs,
           NEW mapped \in {map_transaction_inputs(args, Transaction[id]),
                           map_optional_transaction_inputs(args, Transaction[id])}
    PROVE  RowReadsBack(transaction_row(args, Transaction[id], mapped), Transaction[id])
<1> DEFINE t == Transaction[id]
           row == transaction_row(args, t, mapped)
           subnetwork == Then(Included(args, "TxSubnetworkId"),
                              compress_subnetwork_id(t.subnetwork_id))
           hash == Then(Included(args, "TxHash"), t.hash)
           mass == Then(Included(args, "TxMass") /\ t.mass # 0, I32(t.mass))
           payload == Then(Included(args, "TxPayload") /\ t.payload # <<>>, t.payload)
           time == Then(Included(args, "TxBlockTime"), t.block_time)
           block == Then(Included(args, "TxBlockHash"), t.block_hash)
           version == Then(t.version # 0, I16(t.version))
           inputs == Then(Enabled(args, "TransactionsInputs"), mapped)
           outputs == Then(Enabled(args, "TransactionsOutputs"),
                           map_transaction_outputs(args, t))
<1>1. row = [transaction_id |-> t.transaction_id, subnetwork_id |-> subnetwork,
             hash |-> hash, mass |-> mass, payload |-> payload, block_time |-> time,
             block_hash |-> block, version |-> version, inputs |-> inputs,
             outputs |-> outputs]
  BY Zenon DEF transaction_row
<1>2. /\ row.subnetwork_id = subnetwork /\ row.hash = hash /\ row.mass = mass
      /\ row.payload = payload /\ row.block_time = time /\ row.block_hash = block
      /\ row.version = version /\ row.inputs = inputs /\ row.outputs = outputs
  <2> HIDE DEF row, subnetwork, hash, mass, payload, time, block, version, inputs, outputs
  <2> QED BY <1>1
<1>3. /\ t.subnetwork_id \in [1..SubnetworkBytes -> 0..255]
      /\ \A len \in 1..SubnetworkBytes : SubSeq(t.subnetwork_id, 1, len) # Null
      /\ t.mass \in 0..(2 * I32Half - 1) /\ t.version \in 0..(2^16 - 1)
      /\ Null # t.payload
  BY TransactionAssumption, MarkerAssumption, Zenon DEF Ids
<1>4. LET bytes == Stored(subnetwork, <<>>)
          padded == [n \in 1..SubnetworkBytes |-> IF n <= Len(bytes) THEN bytes[n] ELSE 0]
      IN  IF Included(args, "TxSubnetworkId") THEN padded = t.subnetwork_id ELSE bytes = <<>>
  <2>1. CASE Included(args, "TxSubnetworkId")
    <3>1. subnetwork = compress_subnetwork_id(t.subnetwork_id)
      BY <2>1, Zenon DEF Then
    <3>2. LET stored == Stored(compress_subnetwork_id(t.subnetwork_id), <<>>)
          IN  [n \in 1..SubnetworkBytes |-> IF n <= Len(stored) THEN stored[n] ELSE 0]
                  = t.subnetwork_id
      BY <1>3, Padded, Zenon
    <3> HIDE DEF subnetwork
    <3> QED BY <2>1, <3>1, <3>2, Zenon
  <2>2. CASE ~Included(args, "TxSubnetworkId")
    BY <2>2, Zenon DEF Then, Stored
  <2> QED BY <2>1, <2>2
<1>5. /\ ReadsAs("TxHash", hash, Null, t.hash)
      /\ ReadsAs("TxPayload", payload, <<>>, t.payload)
      /\ ReadsAs("TxBlockTime", time, Null, t.block_time)
      /\ ReadsAs("TxBlockHash", block, Null, t.block_hash)
  BY <1>3, Columns, Zenon
<1>6. Stored(version, 0) % 2^16 = t.version
  <2>1. /\ I16(t.version) \in Int /\ I16(t.version) % 2^16 = t.version
        /\ t.version % 2^16 = t.version
    BY <1>3, SixteenBits, Zenon
  <2>2. I16(t.version) # Null
    BY <2>1, MarkerAssumption, Zenon
  <2> QED BY <2>1, <2>2, Zenon DEF Stored, Then
<1>10. IF Included(args, "TxMass")
       THEN Stored(mass, 0) % (2 * I32Half) = t.mass ELSE mass = Null
  <2>1. /\ I32(t.mass) \in Int /\ I32(t.mass) % (2 * I32Half) = t.mass
        /\ t.mass % (2 * I32Half) = t.mass
    BY <1>3, ThirtyTwoBits, Zenon
  <2>2. I32(t.mass) # Null
    BY <2>1, MarkerAssumption, Zenon
  <2> QED BY <2>1, <2>2, Zenon DEF Stored, Then
<1>7. LET stored == Stored(inputs, <<>>)
      IN  /\ Len(stored) = IF Enabled(args, "TransactionsInputs") THEN Len(t.inputs) ELSE 0
          /\ \A n \in DOMAIN stored : InputReadsBack(stored[n], n, t.inputs[n])
  BY InputsColumn, Zenon
<1>8. LET stored == Stored(outputs, <<>>)
      IN  /\ Len(stored) = IF Enabled(args, "TransactionsOutputs") THEN Len(t.outputs) ELSE 0
          /\ \A n \in DOMAIN stored : OutputReadsBack(stored[n], n, t.outputs[n])
  BY OutputsColumn, Zenon
<1>9. RowReadsBack(row, t)
  <2> HIDE DEF row, subnetwork, hash, mass, payload, time, block, version, inputs, outputs
  <2> QED BY <1>2, <1>4, <1>5, <1>6, <1>7, <1>8, <1>10, Zenon DEF RowReadsBack
<1> QED BY <1>9, Zenon DEF row

\* No row loses anything, whichever writer it is from and whatever the other one and
\* the pruner did to it: what is not excluded reads back as kaspad sent it, what is
\* excluded is NULL.  (map_transaction, map_optional_transaction, and the upsert that
\* replaces only the inputs)
THEOREM RowsReadBack == Spec => []ReadsBack
<1>1. ASSUME IndInv PROVE ReadsBack
  <2> SUFFICES ASSUME NEW id \in Ids, transactions[id] # NoRow
               PROVE  RowReadsBack(transactions[id], Transaction[id])
    BY DEF ReadsBack
  <2>1. args \in CliArgs
    BY <1>1 DEF IndInv, TypeOK
  <2>2. transactions[id] \in {map_transaction(args, Transaction[id]),
                              map_optional_transaction(args, Transaction[id])}
    BY <1>1, Zenon DEF IndInv, RowInv
  <2>3. ASSUME NEW mapped \in {map_transaction_inputs(args, Transaction[id]),
                               map_optional_transaction_inputs(args, Transaction[id])}
        PROVE  RowReadsBack(transaction_row(args, Transaction[id], mapped), Transaction[id])
    BY <2>1, RowColumns, Zenon
  <2> QED BY <2>2, <2>3, Zenon DEF map_transaction, map_optional_transaction
<1> QED BY <1>1, Inductive, PTL

=============================================================================
