---------------------------- MODULE PrunerProofs ----------------------------
(***************************************************************************)
(* What the pruner deletes and what it leaves, for every retention, every  *)
(* number of rows and any number of failing steps, panics and restarts.    *)
(***************************************************************************)
EXTENDS Pruner, FiniteSetTheorems, TLAPS

USE PrunerAssumption

-----------------------------------------------------------------------------
(***************************************************************************)
(* The inductive invariant                                                 *)
(***************************************************************************)

\* How many steps of the run lie before s.
Rank(s) ==
    CASE s = "block_parent" -> 0
      [] s = "transactions_acceptances" -> 1
      [] s = "blocks" -> 2
      [] s = "transactions" -> 3
      [] s = "addresses_transactions" -> 4
      [] OTHER -> 5

\* The table of an age has rows of its own.
Kept(t) == t = "blocks" => BlocksTable

\* The positions of the indexer: only written rows are there, and of those up to
\* the checkpoint only the late ones are still to be written.
WriterInv ==
    /\ \A t \in Tables : rows[t] \subseteq 1..written[t]
    /\ \A t \in Tables : \A i \in 1..checkpoint :
          Kept(t) => i <= written[t] \/ <<t, i>> \in late

\* A run in progress holds the flag and counts at most one error per step.
RunInv ==
    /\ step # "idle" => running
    /\ step_errors <= Rank(step)

\* The DELETE of t can find its rows: without table blocks there is nothing to
\* join block_parent with.
Joinable(t) == t = "block_parent" => BlocksTable

\* The steps of a run meet the expired rows of a joined table before the rows
\* they are joined with.
JoinedInv ==
    errors = 0 =>
        \A t \in Tables :
            (Joinable(t) /\ Retention[t] # None) =>
                \A i \in rows[t] :
                    i <= checkpoint /\ ~Late(t, i) => i \in rows[AgeOf(t)]

\* Nothing that expired at the start of the run is left in t, but for late rows.
Pruned(t) ==
    (Joinable(t) /\ EffectiveRetention(t) # None) =>
        \A i \in rows[t] : i >= Cutoff(t) \/ Late(t, i)

\* The tables whose step is behind the run, and all of them after a success.
PrunedInv ==
    errors = 0 =>
        /\ step # "idle" => \A t \in Tables : Rank(t) < Rank(step) => Pruned(t)
        /\ (~running /\ completed_successfully = TRUE) =>
              \A t \in Tables : Pruned(t)

IndInv ==
    /\ TypeOK /\ WriterInv /\ RunInv
    /\ YoungRowsKept /\ JoinedInv /\ PrunedInv

-----------------------------------------------------------------------------
(***************************************************************************)
(* Tables, steps and cutoffs                                               *)
(***************************************************************************)

\* There are five tables, so a run has five steps.
LEMMA FiveTables == Cardinality(Tables) = 5
<1> DEFINE T1 == {"block_parent"}
           T2 == T1 \cup {"transactions_acceptances"}
           T3 == T2 \cup {"blocks"}
           T4 == T3 \cup {"transactions"}
<1>1. IsFiniteSet(T1) /\ Cardinality(T1) = 1
  BY FS_Singleton
<1>2. IsFiniteSet(T2) /\ Cardinality(T2) = 2
  <2>1. "transactions_acceptances" \notin T1
    OBVIOUS
  <2> HIDE DEF T1
  <2> QED BY <1>1, <2>1, FS_AddElement
<1>3. IsFiniteSet(T3) /\ Cardinality(T3) = 3
  <2>1. "blocks" \notin T2
    OBVIOUS
  <2> HIDE DEF T2
  <2> QED BY <1>2, <2>1, FS_AddElement
<1>4. IsFiniteSet(T4) /\ Cardinality(T4) = 4
  <2>1. "transactions" \notin T3
    OBVIOUS
  <2> HIDE DEF T3
  <2> QED BY <1>3, <2>1, FS_AddElement
<1>5. Cardinality(T4 \cup {"addresses_transactions"}) = 5
  <2>1. "addresses_transactions" \notin T4
    OBVIOUS
  <2> HIDE DEF T4
  <2> QED BY <1>4, <2>1, FS_AddElement
<1>6. Tables = T4 \cup {"addresses_transactions"}
  BY DEF Tables
<1> QED
  BY <1>5, <1>6

\* Each step is followed by the one of the next rank.
LEMMA NextStepRank ==
    ASSUME NEW t \in Tables
    PROVE  /\ NextStep(t) \in Tables \cup {"finish"}
           /\ NextStep(t) # "idle"
           /\ Rank(t) \in 0..4
           /\ Rank(NextStep(t)) = Rank(t) + 1
           /\ \A u \in Tables : Rank(u) < Rank(t) + 1 => u = t \/ Rank(u) < Rank(t)
  BY DEF Tables, NextStep, Rank

\* A run starts with the first step, before which there is none.
LEMMA FirstStep ==
    /\ NextStep("idle") = "block_parent"
    /\ Rank("block_parent") = 0
    /\ \A t \in Tables : Rank(t) \in Nat
    /\ Rank("finish") = 5 /\ Rank("idle") = 5
    /\ \A t \in Tables : Rank(t) < 5
  BY DEF Tables, NextStep, Rank

\* The retention of a joined table is at most that of the table that ages it.
LEMMA Retentions ==
    ASSUME NEW t \in Tables
    PROVE  /\ AgeOf(t) \in Tables
           /\ AgeOf(AgeOf(t)) = AgeOf(t)
           /\ AgeOf(t) # t => Rank(t) < Rank(AgeOf(t))
           /\ EffectiveRetention(t) \in Nat \cup {None}
           /\ EffectiveRetention(t) = None <=> Retention[t] = None
           /\ (Retention[t] # None /\ EffectiveRetention(AgeOf(t)) # None) =>
                 EffectiveRetention(t) <= EffectiveRetention(AgeOf(t))
<1>1. AgeOf(t) \in Tables /\ AgeOf(AgeOf(t)) = AgeOf(t)
  BY DEF AgeOf, Tables
<1>2. AgeOf(t) # t => Rank(t) < Rank(AgeOf(t))
  BY DEF AgeOf, Tables, Rank
<1>3. Retention[t] \in Nat \cup {None} /\ Retention[AgeOf(t)] \in Nat \cup {None}
  BY <1>1
<1> HIDE DEF AgeOf
<1> QED
  BY <1>1, <1>2, <1>3 DEF EffectiveRetention

\* The cutoff of a run lies at most at its checkpoint, the less so the longer
\* the retention.
LEMMA Cutoffs ==
    ASSUME TypeOK, NEW t \in Tables, EffectiveRetention(t) # None
    PROVE  /\ Cutoff(t) \in 0..cutoff
           /\ \A i \in Nat : i < Cutoff(t) => i + EffectiveRetention(t) < cutoff
           /\ EffectiveRetention(AgeOf(t)) # None => Cutoff(AgeOf(t)) <= Cutoff(t)
<1>1. cutoff \in Nat
  BY DEF TypeOK
<1>2. EffectiveRetention(t) \in Nat /\ Retention[t] # None
  BY Retentions
<1>3. EffectiveRetention(AgeOf(t)) # None =>
         /\ EffectiveRetention(AgeOf(t)) \in Nat
         /\ EffectiveRetention(t) <= EffectiveRetention(AgeOf(t))
  BY <1>2, Retentions
<1> QED
  BY <1>1, <1>2, <1>3 DEF Cutoff

-----------------------------------------------------------------------------
(***************************************************************************)
(* The steps                                                               *)
(***************************************************************************)

\* The initial state satisfies the invariant.
LEMMA InitIndInv == Init => IndInv
<1> SUFFICES ASSUME Init PROVE IndInv
  OBVIOUS
<1>1. TypeOK
  <2>1. running \in BOOLEAN /\ completed_successfully \in BOOLEAN \cup {None}
    BY Zenon DEF Init
  <2>2. /\ rows \in [Tables -> SUBSET (1..MaxPosition)]
        /\ written \in [Tables -> 0..MaxPosition] /\ checkpoint \in 0..MaxPosition
        /\ step \in Tables \cup {"idle", "finish"}
        /\ cutoff \in 0..checkpoint
        /\ step_errors \in 0..Cardinality(Tables)
        /\ errors \in 0..MaxErrors /\ panics \in 0..MaxPanics
        /\ restarts \in 0..MaxRestarts
        /\ late \subseteq Tables \X (1..checkpoint)
    BY FiveTables DEF Init
  <2> QED
    BY <2>1, <2>2, Zenon DEF TypeOK
<1>2. WriterInv /\ YoungRowsKept
  BY DEF Init, WriterInv, YoungRowsKept, Tables
<1>3. RunInv
  BY FirstStep DEF Init, RunInv
<1>4. JoinedInv
  BY DEF Init, JoinedInv
<1>5. PrunedInv
  BY DEF Init, PrunedInv, Pruned
<1> QED
  BY <1>1, <1>2, <1>3, <1>4, <1>5 DEF IndInv

\* A row is written above all checkpoints, so it is neither expired nor due to
\* be joined.
LEMMA WriteRowInv ==
    ASSUME IndInv, NEW t \in Tables, WriteRow(t)
    PROVE  IndInv'
<1> USE DEF IndInv
<1>1. /\ written[t] \in 0..MaxPosition /\ written[t] < MaxPosition
      /\ written' = [written EXCEPT ![t] = written[t] + 1]
      /\ rows' = [rows EXCEPT ![t] = rows[t] \cup {written[t] + 1}]
      /\ UNCHANGED <<checkpoint, running, step, cutoff, step_errors,
                     completed_successfully, errors, panics, restarts, late>>
  BY DEF WriteRow, TypeOK
<1>2. \A u \in Tables : rows'[u] = IF u = t THEN rows[u] \cup {written[t] + 1}
                                            ELSE rows[u]
  BY <1>1 DEF TypeOK
<1>3. \A u \in Tables : written'[u] = IF u = t THEN written[t] + 1 ELSE written[u]
  BY <1>1 DEF TypeOK
<1>4. TypeOK'
  BY <1>1 DEF TypeOK
<1>5. WriterInv'
  <2>1. \A u \in Tables : rows'[u] \subseteq 1..written'[u]
    BY <1>1, <1>2, <1>3 DEF WriterInv, TypeOK
  <2>2. \A u \in Tables : \A i \in 1..checkpoint' :
           Kept(u) => i <= written'[u] \/ <<u, i>> \in late'
    BY <1>1, <1>3 DEF WriterInv, TypeOK, Kept
  <2> QED
    BY <2>1, <2>2 DEF WriterInv, Kept
<1>6. YoungRowsKept'
  BY <1>1, <1>2, <1>3 DEF YoungRowsKept, TypeOK
<1>7. written[t] + 1 > checkpoint \/ <<t, written[t] + 1>> \in late
  <2>1. Kept(t)
    BY DEF WriteRow, Kept
  <2>2. written[t] + 1 \in Nat /\ written[t] + 1 >= 1 /\ checkpoint \in Nat
    BY <1>1 DEF TypeOK
  <2> QED
    BY <1>1, <2>1, <2>2 DEF WriterInv
<1>8. JoinedInv'
  <2>1. \A u \in Tables : AgeOf(u) \in Tables
    BY Retentions
  <2> QED
    BY <1>1, <1>2, <1>7, <2>1 DEF JoinedInv, Joinable, Late, TypeOK
<1>9. \A u \in Tables : Pruned(u) => Pruned(u)'
  <2> SUFFICES ASSUME NEW u \in Tables, Pruned(u), Joinable(u),
                      EffectiveRetention(u) # None, NEW i \in rows'[u]
               PROVE  i >= Cutoff(u)' \/ Late(u, i)
    BY <1>1 DEF Pruned, Joinable, Late
  <2>1. Cutoff(u)' = Cutoff(u)
    BY <1>1 DEF Cutoff
  <2>2. Cutoff(u) \in 0..cutoff /\ cutoff \in 0..checkpoint /\ checkpoint \in Nat
    BY Cutoffs DEF TypeOK
  <2>3. i \in rows[u] \/ i = written[t] + 1
    BY <1>2
  <2> QED
    BY <1>1, <1>2, <1>7, <2>1, <2>2, <2>3 DEF Pruned, Late
<1>10. PrunedInv'
  BY <1>1, <1>9 DEF PrunedInv
<1>11. RunInv'
  BY <1>1 DEF RunInv
<1> QED
  BY <1>4, <1>5, <1>6, <1>8, <1>10, <1>11

\* A later checkpoint makes rows expire and none young; the rows between the two
\* checkpoints are all there.
LEMMA SaveCheckpointInv ==
    ASSUME IndInv, SaveCheckpoint
    PROVE  IndInv'
<1> USE DEF IndInv
<1>1. PICK c \in (checkpoint + 1)..MaxPosition :
         /\ \A t \in WaitedFor : c <= written[t]
         /\ checkpoint' = c
         /\ late' = late \cup Passed(c)
  BY DEF SaveCheckpoint
<1>2. UNCHANGED <<rows, written, running, step, cutoff, step_errors,
                  completed_successfully, errors, panics, restarts>>
  BY DEF SaveCheckpoint
<1>3. checkpoint \in Nat /\ c \in Nat /\ checkpoint < c /\ c <= MaxPosition
  BY <1>1 DEF TypeOK
<1>10. late' \subseteq Tables \X (1..c) /\ late \subseteq late'
  BY <1>1, <1>3 DEF TypeOK, Passed
<1>4. TypeOK'
  BY <1>1, <1>2, <1>3, <1>10 DEF TypeOK
<1>11. \A t \in Tables : \A i \in 1..c : Kept(t) => i <= written[t] \/ <<t, i>> \in late'
  <2> SUFFICES ASSUME NEW t \in Tables, NEW i \in 1..c, Kept(t), ~(i <= written[t])
               PROVE  <<t, i>> \in late'
    OBVIOUS
  <2>1. written[t] \in Nat /\ i > written[t]
    BY DEF TypeOK
  <2>2. t \notin WaitedFor
    BY <1>1, <1>3, <2>1
  <2>3. t # "blocks"
    BY <2>2 DEF WaitedFor, Kept
  <2>4. <<t, i>> \in Passed(c)
    BY <2>1, <2>3 DEF Passed
  <2> QED
    BY <1>1, <2>4
<1>5. WriterInv'
  BY <1>1, <1>2, <1>11 DEF WriterInv, Kept
<1>6. YoungRowsKept'
  <2>1. \A t \in Tables : /\ EffectiveRetention(t) \in Nat \cup {None}
                          /\ written[t] \in Nat
    BY Retentions DEF TypeOK
  <2> QED
    BY <1>1, <1>2, <1>3, <2>1 DEF YoungRowsKept
<1>7. JoinedInv'
  <2> SUFFICES ASSUME errors = 0, NEW t \in Tables, Joinable(t),
                      Retention[t] # None, NEW i \in rows[t], i <= c, ~Late(t, i)'
               PROVE  i \in rows[AgeOf(t)]
    BY <1>1, <1>2 DEF JoinedInv, Joinable
  <2>4. ~Late(t, i) /\ <<AgeOf(t), i>> \notin late'
    BY <1>10 DEF Late
  <2>1. CASE i <= checkpoint
    BY <2>1, <2>4 DEF JoinedInv
  <2>2. CASE AgeOf(t) = t
    BY <2>2
  <2>3. CASE ~(i <= checkpoint) /\ AgeOf(t) # t
    <3>1. i \in Nat /\ i > checkpoint /\ i >= 1
      BY <1>3, <2>3 DEF TypeOK
    <3>2. AgeOf(t) \in Tables /\ (AgeOf(t) = "blocks" => BlocksTable)
      BY <2>3, Retentions DEF AgeOf, Joinable
    <3>3. i \in 1..written[AgeOf(t)]
      BY <1>3, <1>11, <2>4, <3>1, <3>2 DEF TypeOK, Kept
    <3>4. \/ EffectiveRetention(AgeOf(t)) = None
          \/ i + EffectiveRetention(AgeOf(t)) >= checkpoint
      BY <1>3, <3>1, <3>2, Retentions
    <3> QED
      BY <3>2, <3>3, <3>4 DEF YoungRowsKept
  <2> QED
    BY <2>1, <2>2, <2>3
<1>8. PrunedInv'
  BY <1>2, <1>10 DEF PrunedInv, Pruned, Cutoff, Joinable, Late
<1>9. RunInv'
  BY <1>2 DEF RunInv
<1> QED
  BY <1>4, <1>5, <1>6, <1>7, <1>8, <1>9

\* A step that moves the run and leaves the rows and positions alone keeps what
\* is said of them.
LEMMA RunFrame ==
    ASSUME IndInv, UNCHANGED <<rows, written, checkpoint, late>>,
           errors' = 0 => errors = 0
    PROVE  WriterInv' /\ YoungRowsKept' /\ JoinedInv'
  BY DEF IndInv, WriterInv, YoungRowsKept, JoinedInv, Joinable, Kept, Late

\* After a restart there is no run, and no result.
LEMMA RestartInv ==
    ASSUME IndInv, Restart
    PROVE  IndInv'
<1> USE DEF IndInv
<1>1. /\ running' = FALSE /\ step' = "idle" /\ cutoff' = 0 /\ step_errors' = 0
      /\ restarts < MaxRestarts /\ restarts' = restarts + 1
      /\ UNCHANGED <<rows, written, checkpoint, errors, panics, late>>
  BY DEF Restart
<1>2. TypeOK'
  <2>1. running' \in BOOLEAN /\ completed_successfully' \in BOOLEAN \cup {None}
    BY Zenon DEF Restart
  <2>2. /\ cutoff' \in 0..checkpoint'
        /\ step_errors' \in 0..Cardinality(Tables)
        /\ restarts' \in 0..MaxRestarts
        /\ step' \in Tables \cup {"idle", "finish"}
    BY <1>1, FiveTables DEF TypeOK
  <2>3. UNCHANGED <<rows, written, checkpoint, errors, panics, late>>
    BY <1>1
  <2> QED
    BY <2>1, <2>2, <2>3, Zenon DEF TypeOK
<1>3. RunInv'
  BY <1>1, FirstStep DEF RunInv
<1>4. \A t \in Tables : Pruned(t)'
  <2> SUFFICES ASSUME NEW t \in Tables, EffectiveRetention(t) # None,
                      NEW i \in rows[t]
               PROVE  i >= Cutoff(t)'
    BY <1>1 DEF Pruned
  <2>1. Cutoff(t)' = 0
    BY <1>1, Retentions DEF Cutoff
  <2> QED
    BY <2>1 DEF TypeOK
<1>5. PrunedInv'
  BY <1>1, <1>4 DEF PrunedInv
<1> QED
  BY <1>1, <1>2, <1>3, <1>5, RunFrame

\* A run starts with no table behind it.
LEMMA StartRunInv ==
    ASSUME IndInv, StartRun
    PROVE  IndInv'
<1> USE DEF IndInv
<1>1. /\ running' = TRUE /\ step' = "block_parent"
      /\ cutoff' = checkpoint /\ step_errors' = 0
      /\ UNCHANGED <<rows, written, checkpoint, completed_successfully, errors,
                     panics, restarts, late>>
  BY FirstStep DEF StartRun
<1>2. "block_parent" \in Tables
  BY DEF Tables
<1>3. TypeOK'
  BY <1>1, <1>2, FiveTables DEF TypeOK
<1>4. RunInv'
  BY <1>1, FirstStep DEF RunInv
<1>5. PrunedInv'
  BY <1>1, FirstStep DEF PrunedInv
<1> QED
  BY <1>1, <1>3, <1>4, <1>5, RunFrame

\* A DELETE takes expired rows, and takes none that a joined row still needs:
\* the joined table is behind the run.
LEMMA DeleteBatchInv ==
    ASSUME IndInv, DeleteBatch
    PROVE  IndInv'
<1> USE DEF IndInv
<1>1. /\ step \in Tables /\ EffectiveRetention(step) # None
      /\ UNCHANGED <<written, checkpoint, running, step, cutoff, step_errors,
                     completed_successfully, errors, panics, restarts, late>>
  BY DEF DeleteBatch
<1>2. PICK batch \in SUBSET Expired(step) :
         rows' = [rows EXCEPT ![step] = rows[step] \ batch]
  BY DEF DeleteBatch
<1>3. \A t \in Tables : rows'[t] = IF t = step THEN rows[t] \ batch ELSE rows[t]
  BY <1>1, <1>2 DEF TypeOK
<1>4. \A i \in batch : i \in rows[step] /\ i \in Nat /\ i < Cutoff(step)
  BY <1>1, <1>2 DEF Expired, TypeOK
<1>5. TypeOK'
  BY <1>1, <1>2 DEF TypeOK
<1>6. WriterInv'
  BY <1>1, <1>3 DEF WriterInv, Kept
<1>7. YoungRowsKept'
  <2> SUFFICES ASSUME NEW t \in Tables, NEW i \in 1..written[t],
                      \/ EffectiveRetention(t) = None
                      \/ i + EffectiveRetention(t) >= checkpoint
               PROVE  i \in rows'[t]
    BY <1>1 DEF YoungRowsKept
  <2>1. i \in rows[t]
    BY DEF YoungRowsKept
  <2>2. ASSUME t = step PROVE i \notin batch
    <3>1. i \in Nat => (i < Cutoff(step) => i + EffectiveRetention(step) < cutoff)
      BY <1>1, Cutoffs
    <3>2. cutoff \in Nat /\ checkpoint \in Nat /\ cutoff <= checkpoint
      BY DEF TypeOK
    <3>3. EffectiveRetention(step) \in Nat
      BY <1>1, Retentions
    <3> QED
      BY <1>1, <1>4, <2>2, <3>1, <3>2, <3>3
  <2> QED
    BY <1>3, <2>1, <2>2
<1>8. JoinedInv'
  <2> SUFFICES ASSUME errors = 0, NEW t \in Tables, Joinable(t),
                      Retention[t] # None, NEW i \in rows'[t], i <= checkpoint,
                      ~Late(t, i)
               PROVE  i \in rows'[AgeOf(t)]
    BY <1>1 DEF JoinedInv, Joinable, Late
  <2>1. i \in rows[t] /\ i \in Nat /\ AgeOf(t) \in Tables
    <3>1. i \in rows[t] /\ AgeOf(t) \in Tables
      BY <1>3, Retentions
    <3> QED
      BY <3>1 DEF TypeOK
  <2>2. i \in rows[AgeOf(t)]
    BY <2>1 DEF JoinedInv
  <2>3. CASE AgeOf(t) = t
    BY <2>3
  <2>4. CASE AgeOf(t) # step
    BY <1>3, <2>1, <2>2, <2>4
  <2>5. CASE AgeOf(t) # t /\ AgeOf(t) = step
    <3>1. Rank(t) < Rank(step) /\ EffectiveRetention(t) # None
      BY <2>5, Retentions
    <3>2. step # "idle"
      BY <1>1 DEF Tables
    <3>3. i >= Cutoff(t)
      BY <2>1, <3>1, <3>2 DEF PrunedInv, Pruned
    <3>4. Cutoff(t) \in Nat /\ Cutoff(step) \in Nat /\ Cutoff(step) <= Cutoff(t)
      BY <1>1, <2>5, <3>1, Cutoffs DEF TypeOK
    <3>5. i \notin batch
      BY <1>4, <2>1, <3>3, <3>4
    <3> QED
      BY <1>1, <1>3, <2>2, <2>5, <3>5
  <2> QED
    BY <2>3, <2>4, <2>5
<1>9. \A t \in Tables : Pruned(t) => Pruned(t)'
  BY <1>1, <1>3 DEF Pruned, Cutoff, Joinable, Late
<1>10. PrunedInv'
  BY <1>1, <1>9 DEF PrunedInv
<1>11. RunInv'
  BY <1>1 DEF RunInv
<1> QED
  BY <1>5, <1>6, <1>7, <1>8, <1>10, <1>11

\* The run goes on to the next table, when nothing failed with this one pruned.
LEMMA NextStepInv ==
    ASSUME IndInv, step \in Tables, step' = NextStep(step),
           UNCHANGED <<rows, written, checkpoint, running, cutoff,
                       completed_successfully, panics, restarts, late>>,
           step_errors' \in {step_errors, step_errors + 1},
           errors' \in errors..MaxErrors,
           errors' = 0 => Pruned(step)
    PROVE  IndInv'
<1> USE DEF IndInv
<1>1. step' \in Tables \cup {"finish"} /\ Rank(step') = Rank(step) + 1
      /\ Rank(step) \in 0..4
  BY NextStepRank
<1>2. step \in Tables /\ step # "idle"
  BY DEF Tables
<1>3. RunInv'
  BY <1>1, <1>2 DEF RunInv, TypeOK
<1>4. TypeOK'
  BY <1>1, <1>3, FiveTables DEF TypeOK, RunInv
<1>5. errors' = 0 => errors = 0
  BY DEF TypeOK
<1>6. \A t \in Tables : Pruned(t)' <=> Pruned(t)
  BY DEF Pruned, Cutoff, Joinable, Late
<1>7. PrunedInv'
  <2> SUFFICES ASSUME errors' = 0 , NEW t \in Tables, Rank(t) < Rank(step')
               PROVE  Pruned(t)
    BY <1>2, <1>6 DEF PrunedInv, RunInv
  <2>1. t = step \/ Rank(t) < Rank(step)
    BY <1>1, NextStepRank
  <2> QED
    BY <1>2, <1>5, <2>1 DEF PrunedInv
<1> QED
  BY <1>3, <1>4, <1>5, <1>7, RunFrame

\* A table without retention is behind the run as it is.
LEMMA SkipStepInv ==
    ASSUME IndInv, SkipStep
    PROVE  IndInv'
<1>1. Pruned(step)
  BY DEF SkipStep, Pruned
<1>2. errors \in errors..MaxErrors
  BY DEF IndInv, TypeOK
<1> QED
  BY <1>1, <1>2, NextStepInv DEF SkipStep

\* A DELETE that finds nothing proves that nothing expired is left: every row it
\* could not join is above the checkpoint.
LEMMA StepDoneInv ==
    ASSUME IndInv, StepDone
    PROVE  IndInv'
<1>1. step \in Tables /\ EffectiveRetention(step) # None /\ Expired(step) = {}
  BY DEF StepDone
<1>2. ASSUME errors = 0 PROVE Pruned(step)
  <2> SUFFICES ASSUME Joinable(step), NEW i \in rows[step],
                      ~(i >= Cutoff(step)), ~Late(step, i)
               PROVE  FALSE
    BY DEF Pruned
  <2>1. /\ i \in Nat /\ Cutoff(step) \in 0..cutoff
        /\ cutoff \in Nat /\ checkpoint \in Nat /\ cutoff <= checkpoint
    BY <1>1, Cutoffs DEF IndInv, TypeOK
  <2>2. i < Cutoff(step) /\ i <= checkpoint
    BY <2>1
  <2>3. i \in rows[AgeOf(step)]
    BY <1>1, <1>2, <2>2, Retentions DEF IndInv, JoinedInv
  <2> QED
    BY <1>1, <2>2, <2>3 DEF Expired
<1>3. errors \in errors..MaxErrors
  BY DEF IndInv, TypeOK
<1> QED
  BY <1>2, <1>3, NextStepInv DEF StepDone

\* A failed step leaves its rows behind and says so.
LEMMA StepFailedInv ==
    ASSUME IndInv, StepFailed
    PROVE  IndInv'
<1>1. errors' \in errors..MaxErrors /\ errors' # 0
  BY DEF StepFailed, IndInv, TypeOK
<1> QED
  BY <1>1, NextStepInv DEF StepFailed

\* A panic keeps the flag: no run, and no result, until the next start.
LEMMA StepPanicsInv ==
    ASSUME IndInv, StepPanics
    PROVE  IndInv'
<1> USE DEF IndInv
<1>1. /\ step \in Tables /\ step' = "idle"
      /\ panics < MaxPanics /\ panics' = panics + 1
      /\ UNCHANGED <<rows, written, checkpoint, running, cutoff, step_errors,
                     completed_successfully, errors, restarts, late>>
  BY DEF StepPanics
<1>2. running /\ step # "idle"
  BY <1>1 DEF RunInv, Tables
<1>3. TypeOK'
  BY <1>1 DEF TypeOK
<1>4. RunInv'
  BY <1>1, FirstStep, FiveTables DEF RunInv, TypeOK
<1>5. PrunedInv'
  BY <1>1, <1>2 DEF PrunedInv
<1> QED
  BY <1>1, <1>3, <1>4, <1>5, RunFrame

\* At the end of a run every table is behind it.
LEMMA FinishRunInv ==
    ASSUME IndInv, FinishRun
    PROVE  IndInv'
<1> USE DEF IndInv
<1>1. /\ step = "finish" /\ step' = "idle" /\ running' = FALSE
      /\ UNCHANGED <<rows, written, checkpoint, cutoff, step_errors, errors,
                     panics, restarts, late>>
  BY DEF FinishRun
<1>2. TypeOK'
  <2>1. running' \in BOOLEAN /\ completed_successfully' \in BOOLEAN \cup {None}
    BY Zenon DEF FinishRun
  <2>2. step' \in Tables \cup {"idle", "finish"}
    BY <1>1
  <2> QED
    BY <1>1, <2>1, <2>2, Zenon DEF TypeOK
<1>3. RunInv'
  BY <1>1, FirstStep, FiveTables DEF RunInv, TypeOK
<1>4. errors = 0 => \A t \in Tables : Pruned(t)
  BY <1>1, FirstStep DEF PrunedInv
<1>5. PrunedInv'
  BY <1>1, <1>4 DEF PrunedInv, Pruned, Cutoff, Joinable, Late
<1> QED
  BY <1>1, <1>2, <1>3, <1>5, RunFrame

\* Every step preserves the invariant.
LEMMA NextIndInv == IndInv /\ [Next]_vars => IndInv'
<1> SUFFICES ASSUME IndInv, [Next]_vars
             PROVE  IndInv'
  OBVIOUS
<1>1. CASE UNCHANGED vars
  <2>1. UNCHANGED <<rows, written, checkpoint, running, step, cutoff,
                    step_errors, completed_successfully, errors, panics, restarts, late>>
    BY <1>1 DEF vars
  <2>2. TypeOK' /\ RunInv' /\ PrunedInv'
    BY <2>1 DEF IndInv, TypeOK, RunInv, PrunedInv, Pruned, Cutoff, Joinable, Late
  <2> QED
    BY <2>1, <2>2, RunFrame DEF IndInv
<1> QED
  BY <1>1, WriteRowInv, SaveCheckpointInv, RestartInv, StartRunInv, SkipStepInv,
     DeleteBatchInv, StepDoneInv, StepFailedInv, StepPanicsInv, FinishRunInv
     DEF Next, Prune

-----------------------------------------------------------------------------
(***************************************************************************)
(* The theorems                                                            *)
(***************************************************************************)

\* Every variable keeps its type: no run counts more errors than it has steps,
\* and none works with a checkpoint later than the saved one.
THEOREM PrunerTypeCorrect == Spec => []TypeOK
<1>1. IndInv => TypeOK
  BY DEF IndInv
<1> QED
  BY <1>1, InitIndInv, NextIndInv, PTL DEF Spec

\* prune never deletes a row younger than the retention that holds for its table,
\* for all retentions and with errors, panics and crashes anywhere.
THEOREM YoungRowsAreKept == Spec => []YoungRowsKept
<1>1. IndInv => YoungRowsKept
  BY DEF IndInv
<1> QED
  BY <1>1, InitIndInv, NextIndInv, PTL DEF Spec

\* The order of the steps and the cut retentions are enough: as long as no step
\* fails, no row of a joined table outlives the block it is joined with, unless it
\* was written after a checkpoint that was already past it.
THEOREM JoinedRowsGoFirst == Spec => []JoinedRowsFirst
<1>1. IndInv => JoinedRowsFirst
  BY DEF IndInv, JoinedInv, JoinedRowsFirst, Joinable, Tables
<1> QED
  BY <1>1, InitIndInv, NextIndInv, PTL DEF Spec

\* As long as no step fails, a run that reports success left no expired row, whatever
\* was written meanwhile, but for those that came late.  Retention of block_parent
\* needs table blocks for this: without it the DELETE joins with an empty table.
THEOREM CleanRunsDoPrune ==
    ASSUME BlocksTable \/ Retention["block_parent"] = None
    PROVE  Spec => []CleanRunsPrune
<1>1. IndInv => CleanRunsPrune
  <2>1. \A t \in Tables : EffectiveRetention(t) # None => Joinable(t)
    BY Retentions DEF Joinable
  <2> QED
    BY <2>1 DEF IndInv, PrunedInv, Pruned, CleanRunsPrune
<1> QED
  BY <1>1, InitIndInv, NextIndInv, PTL DEF Spec

\* With rejected_transactions no row comes late: the transaction processor waits for
\* the virtual chain processor before every checkpoint, so the two theorems hold there
\* without their exception.
THEOREM NoRowIsLate ==
    ASSUME RejectedTransactions
    PROVE  Spec => [](late = {})
<1>1. Init => late = {}
  BY DEF Init
<1>2. TypeOK /\ late = {} /\ [Next]_vars => (late = {})'
  <2> SUFFICES ASSUME TypeOK, late = {}, [Next]_vars PROVE late' = {}
    OBVIOUS
  <2>1. CASE SaveCheckpoint
    <3>1. PICK c \in (checkpoint + 1)..MaxPosition :
             /\ \A t \in WaitedFor : c <= written[t]
             /\ late' = late \cup Passed(c)
      BY <2>1 DEF SaveCheckpoint
    <3>2. Tables \ {"blocks"} \subseteq WaitedFor
      BY DEF Tables, WaitedFor
    <3>3. Passed(c) = {}
      <4> SUFFICES ASSUME NEW t \in Tables \ {"blocks"}, NEW i \in 1..c, i > written[t]
                   PROVE  FALSE
        BY DEF Passed
      <4>1. c <= written[t]
        BY <3>1, <3>2
      <4>2. c \in Nat /\ written[t] \in Nat
        BY DEF TypeOK
      <4> QED BY <4>1, <4>2
    <3> QED BY <3>1, <3>3
  <2>2. CASE ~SaveCheckpoint
    <3>1. late' = late
      BY <2>2 DEF Next, vars, WriteRow, Restart, Prune, StartRun, SkipStep, DeleteBatch,
                        StepDone, StepFailed, StepPanics, FinishRun
    <3> QED BY <3>1
  <2> QED BY <2>1, <2>2
<1> QED
  BY <1>1, <1>2, PrunerTypeCorrect, PTL DEF Spec

=============================================================================
