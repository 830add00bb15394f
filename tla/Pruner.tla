------------------------------- MODULE Pruner -------------------------------
(***************************************************************************)
(* The database pruner: a cron job that deletes expired rows table by      *)
(* table, in autocommitted batches, while the indexer keeps writing.       *)
(* block_parent and transactions_acceptances have no age of their own:     *)
(* their expired rows are found by a join with blocks (or, when that table *)
(* is disabled, with transactions), so they have to go first and their     *)
(* retention is cut to that of the table they are joined with.             *)
(*                                                                         *)
(* A block, its rows and the transaction it accepts are named by its       *)
(* position; blue score and block time are that position and a retention   *)
(* is a distance below the checkpoint of the run.                          *)
(***************************************************************************)
EXTENDS Naturals, FiniteSets

CONSTANTS
    MaxPosition,  \* bound: blocks in a behaviour
    Retention,    \* Retention[table], or None
    None,
    BlocksTable,  \* is table blocks enabled?
    RejectedTransactions,  \* is rejected_transactions enabled?
    MaxErrors,    \* bound: steps that fail with a database error
    MaxPanics,    \* bound: steps that end in a panic
    MaxRestarts   \* bound: restarts in a behaviour

Tables == {"block_parent", "transactions_acceptances", "blocks",
           "transactions", "addresses_transactions"}

ASSUME PrunerAssumption ==
    /\ MaxPosition \in Nat
    /\ Retention \in [Tables -> Nat \cup {None}]
    /\ None \notin Nat
    /\ BlocksTable \in BOOLEAN /\ RejectedTransactions \in BOOLEAN
    /\ MaxErrors \in Nat /\ MaxPanics \in Nat
    /\ MaxRestarts \in Nat

VARIABLES
    rows,        \* rows[table]: the positions table has a row of
    written,     \* written[table]: the indexer wrote the positions up to it
    checkpoint,  \* metrics.block_checkpoint
    running,     \* metrics.components.db_pruner.running
    step,        \* the table being pruned, or "idle"
    cutoff,      \* the checkpoint the run started from
    step_errors,
    completed_successfully,  \* of the last run, None before
    errors,      \* errors so far
    panics,      \* panics so far
    restarts,
    late         \* ghost: <<table, position>> that a checkpoint went past unwritten

vars == <<rows, written, checkpoint, running, step, cutoff, step_errors,
          completed_successfully, errors, panics, restarts, late>>

Init ==
    /\ rows = [t \in Tables |-> {}]
    /\ written = [t \in Tables |-> 0] /\ checkpoint = 0
    /\ running = FALSE /\ step = "idle" /\ cutoff = 0 /\ step_errors = 0
    /\ completed_successfully = None
    /\ errors = 0 /\ panics = 0 /\ restarts = 0
    /\ late = {}

-----------------------------------------------------------------------------
(***************************************************************************)
(* The indexer                                                             *)
(***************************************************************************)

\* The next row of t is written.  blocks comes before block_parent; the other
\* tables belong to other tasks.
WriteRow(t) ==
    /\ t = "blocks" => BlocksTable
    /\ t = "block_parent" /\ BlocksTable => written[t] < written["blocks"]
    /\ written[t] < MaxPosition
    /\ written' = [written EXCEPT ![t] = @ + 1]
    /\ rows' = [rows EXCEPT ![t] = @ \cup {written'[t]}]
    /\ UNCHANGED <<checkpoint, running, step, cutoff, step_errors,
                   completed_successfully, errors, panics, restarts, late>>

\* The tables whose rows a block_checkpoint waits for.  The transaction processor waits
\* for the virtual chain processor only before it writes transactions itself: without
\* rejected_transactions it writes none, and those of the virtual chain processor, like
\* the acceptances, come when they come.
WaitedFor ==
    {"block_parent"}
        \cup (IF BlocksTable THEN {"blocks"} ELSE {})
        \cup (IF RejectedTransactions
              THEN {"transactions_acceptances", "transactions", "addresses_transactions"}
              ELSE {})

\* Positions the checkpoint c goes past before table t has their rows.
Passed(c) ==
    {p \in (Tables \ {"blocks"}) \X (1..c) : p[2] > written[p[1]]}

\* Faulty: a checkpoint may be older than the last one.
SaveCheckpointAnyOrder ==
    /\ \E c \in 1..MaxPosition :
          /\ \A t \in WaitedFor : c <= written[t]
          /\ checkpoint' = c
          /\ late' = late \cup Passed(c)
    /\ UNCHANGED <<rows, written, running, step, cutoff, step_errors,
                   completed_successfully, errors, panics, restarts>>

\* A block_checkpoint is saved: what it waits for is written up to it (CheckpointSafe
\* of BlockPipeline, and the wait of process_transactions).
SaveCheckpoint ==
    /\ \E c \in (checkpoint + 1)..MaxPosition :
          /\ \A t \in WaitedFor : c <= written[t]
          /\ checkpoint' = c
          /\ late' = late \cup Passed(c)
    /\ UNCHANGED <<rows, written, running, step, cutoff, step_errors,
                   completed_successfully, errors, panics, restarts>>

\* The process ends, by itself or by a crash, and starts again.
Restart ==
    /\ restarts < MaxRestarts
    /\ restarts' = restarts + 1
    /\ running' = FALSE /\ step' = "idle" /\ cutoff' = 0 /\ step_errors' = 0
    /\ completed_successfully' = None
    /\ UNCHANGED <<rows, written, checkpoint, errors, panics, late>>

-----------------------------------------------------------------------------
(***************************************************************************)
(* prune                                                                   *)
(***************************************************************************)

\* The table whose age decides on t.
AgeOf(t) ==
    CASE t = "block_parent" -> "blocks"
      [] t = "transactions_acceptances" ->
            IF BlocksTable THEN "blocks" ELSE "transactions"
      [] OTHER -> t

\* Faulty: the retention of a joined table is not cut.
EffectiveRetentionOwn(t) == Retention[t]

\* retention.min(other.unwrap_or(Duration::MAX))
EffectiveRetention(t) ==
    LET own == Retention[t]
        age == Retention[AgeOf(t)]
    IN  IF own = None THEN None
        ELSE IF age # None /\ age < own THEN age ELSE own

\* checkpoint.saturating_sub(retention)
Cutoff(t) ==
    IF EffectiveRetention(t) > cutoff THEN 0 ELSE cutoff - EffectiveRetention(t)

\* Faulty: <= instead of <.
ExpiredInclusive(t) ==
    {i \in rows[t] : i \in rows[AgeOf(t)] /\ i <= Cutoff(t)}

\* The rows the DELETE of t's step selects.
Expired(t) == {i \in rows[t] : i \in rows[AgeOf(t)] /\ i < Cutoff(t)}

NextStep(t) ==
    CASE t = "idle" -> "block_parent"
      [] t = "block_parent" -> "transactions_acceptances"
      [] t = "transactions_acceptances" -> "blocks"
      [] t = "blocks" -> "transactions"
      [] t = "transactions" -> "addresses_transactions"
      [] t = "addresses_transactions" -> "finish"

\* The cron job fires; a run still in progress makes it return at once.
StartRun ==
    /\ ~running
    /\ running' = TRUE
    /\ step' = NextStep("idle")
    /\ cutoff' = checkpoint
    /\ step_errors' = 0
    /\ UNCHANGED <<rows, written, checkpoint, completed_successfully, errors,
                   panics, restarts, late>>

\* A table without a retention is left alone.
SkipStep ==
    /\ step \in Tables
    /\ EffectiveRetention(step) = None
    /\ step' = NextStep(step)
    /\ UNCHANGED <<rows, written, checkpoint, running, cutoff, step_errors,
                   completed_successfully, errors, panics, restarts, late>>

\* One DELETE with its LIMIT.
DeleteBatch ==
    /\ step \in Tables
    /\ EffectiveRetention(step) # None
    /\ \E batch \in SUBSET Expired(step) \ {{}} :
          rows' = [rows EXCEPT ![step] = @ \ batch]
    /\ UNCHANGED <<written, checkpoint, running, step, cutoff, step_errors,
                   completed_successfully, errors, panics, restarts, late>>

\* Faulty: one batch per step.
StepDoneEarly ==
    /\ step \in Tables
    /\ EffectiveRetention(step) # None
    /\ step' = NextStep(step)
    /\ UNCHANGED <<rows, written, checkpoint, running, cutoff, step_errors,
                   completed_successfully, errors, panics, restarts, late>>

\* A DELETE that found nothing ends the step.
StepDone ==
    /\ step \in Tables
    /\ EffectiveRetention(step) # None
    /\ Expired(step) = {}
    /\ step' = NextStep(step)
    /\ UNCHANGED <<rows, written, checkpoint, running, cutoff, step_errors,
                   completed_successfully, errors, panics, restarts, late>>

\* A DELETE fails, after the retries on a deadlock: the step is given up and
\* the run goes on with the next one.
StepFailed ==
    /\ step \in Tables
    /\ EffectiveRetention(step) # None
    /\ errors < MaxErrors
    /\ errors' = errors + 1
    /\ step_errors' = step_errors + 1
    /\ step' = NextStep(step)
    /\ UNCHANGED <<rows, written, checkpoint, running, cutoff,
                   completed_successfully, panics, restarts, late>>

\* The clock was set back since the step began: to_std() has no value for its
\* duration, whatever its result.  The job is gone and the flag stays.
StepPanics ==
    /\ step \in Tables
    /\ EffectiveRetention(step) # None
    /\ panics < MaxPanics
    /\ panics' = panics + 1
    /\ step' = "idle"
    /\ UNCHANGED <<rows, written, checkpoint, running, cutoff, step_errors,
                   completed_successfully, errors, restarts, late>>

\* Faulty: the flag that keeps runs apart is not cleared.
FinishRunFlagKept ==
    /\ step = "finish"
    /\ completed_successfully' = (step_errors = 0)
    /\ step' = "idle"
    /\ UNCHANGED <<rows, written, checkpoint, running, cutoff, step_errors,
                   errors, panics, restarts, late>>

\* The result is published and the next run may start.
FinishRun ==
    /\ step = "finish"
    /\ running' = FALSE
    /\ completed_successfully' = (step_errors = 0)
    /\ step' = "idle"
    /\ UNCHANGED <<rows, written, checkpoint, cutoff, step_errors, errors, panics, restarts, late>>

Prune ==
    \/ StartRun \/ SkipStep \/ DeleteBatch
    \/ StepDone \/ StepFailed \/ StepPanics
    \/ FinishRun

-----------------------------------------------------------------------------
Next == (\E t \in Tables : WriteRow(t)) \/ SaveCheckpoint \/ Restart \/ Prune

Spec == Init /\ [][Next]_vars

\* The job keeps firing and its statements return.
FairSpec == Spec /\ WF_vars(Prune)

-----------------------------------------------------------------------------
(***************************************************************************)
(* Properties                                                              *)
(***************************************************************************)

\* Every variable has its type.
TypeOK ==
    /\ rows \in [Tables -> SUBSET (1..MaxPosition)]
    /\ written \in [Tables -> 0..MaxPosition] /\ checkpoint \in 0..MaxPosition
    /\ running \in BOOLEAN
    /\ step \in Tables \cup {"idle", "finish"}
    /\ cutoff \in 0..checkpoint
    /\ step_errors \in 0..Cardinality(Tables)
    /\ completed_successfully \in BOOLEAN \cup {None}
    /\ errors \in 0..MaxErrors /\ panics \in 0..MaxPanics
    /\ restarts \in 0..MaxRestarts
    /\ late \subseteq Tables \X (1..checkpoint)

\* No row younger than the retention that holds for its table is ever deleted,
\* with errors and crashes in any step and whatever the indexer writes.
\* (prune, delete.rs)
YoungRowsKept ==
    \A t \in Tables : \A i \in 1..written[t] :
        EffectiveRetention(t) = None \/ i + EffectiveRetention(t) >= checkpoint
            => i \in rows[t]

\* The row of t at i, or the one it is joined with, came after a checkpoint that was
\* already past it.  Without rejected_transactions nothing keeps the virtual chain
\* processor ahead of the checkpoints.
Late(t, i) == <<t, i>> \in late \/ <<AgeOf(t), i>> \in late

\* Rows found by a join never outlive the row they are joined with, at any
\* moment of a run and after a crash in any step: afterwards no run could find
\* them.  Holds as long as no step fails, but for rows that came late.  (the order
\* of the steps of prune)
JoinedRowsFirst ==
    (errors = 0 /\ BlocksTable) =>
        \A t \in {"block_parent", "transactions_acceptances"} :
            Retention[t] # None =>
                {i \in rows[t] : i <= checkpoint /\ ~Late(t, i)} \subseteq rows[AgeOf(t)]

\* "Database pruning completed successfully!": no table with a retention holds a
\* row older than the cutoff of the run.  (prune, prune_step)
SuccessMeansPruned ==
    (~running /\ completed_successfully = TRUE) =>
        \A t \in Tables :
            EffectiveRetention(t) # None => \A i \in rows[t] : i >= Cutoff(t)

\* The same of the rows that did not come late, as long as no step failed before, in
\* this run or in an earlier one: neither concurrent writes nor a restart in the
\* middle of a run leave an expired row behind a success.  (prune, prune_step)
CleanRunsPrune ==
    (errors = 0 /\ ~running /\ completed_successfully = TRUE) =>
        \A t \in Tables :
            EffectiveRetention(t) # None =>
                \A i \in rows[t] : i >= Cutoff(t) \/ Late(t, i)

\* A late row of a joined table may have missed the row it is joined with.
Overdue(t, i) ==
    /\ i \in rows[t]
    /\ EffectiveRetention(t) # None
    /\ i + EffectiveRetention(t) < checkpoint
    /\ AgeOf(t) # t => ~Late(t, i)

\* A run that panicked left its flag behind: every later one returns at once.
StuckAfterPanic == panics > 0 /\ running /\ step = "idle"

\* The expired rows of a block are deleted eventually from all tables, if steps
\* do not fail, also the late ones that have an age of their own.  Only the panic
\* of a step ends this, and only until the process is started again.  (No checkpoint
\* comes after the last position, so that one never expires.)  (pruner, prune_step)
ExpiredDeleted ==
    \A i \in 1..(MaxPosition - 1) :
        (\E t \in Tables : Overdue(t, i))
            ~> \/ \A t \in Tables : ~Overdue(t, i)
               \/ errors > 0
               \/ []StuckAfterPanic

=============================================================================
