--------------------------- MODULE TransactionRows ---------------------------
(***************************************************************************)
(* The rows of one transaction are written twice, in either order and at   *)
(* the same time: by the transaction processor (INSERT ... DO NOTHING,     *)
(* from the block's transaction, without the utxos its inputs spend) and   *)
(* by the virtual chain processor (INSERT ... DO UPDATE SET inputs, from   *)
(* the accepted transaction).  The pruner deletes them.  Every writer      *)
(* sorts its rows and sends them in chunks, several at once, each of them  *)
(* one statement and so one database transaction that locks its rows one   *)
(* by one.  A statement that is the victim of a deadlock is retried.       *)
(*                                                                         *)
(* Each writer has one batch.  A crash, or a statement that has been a     *)
(* victim too often, ends the process; its successor starts from a         *)
(* checkpoint that is behind both batches and sends them again.            *)
(***************************************************************************)
EXTENDS Mapper, TLC

CONSTANTS
    Transaction,            \* the transactions, by transaction_id
    ProcessedBatch,         \* ids in the order the blocks bring them
    AcceptedBatch,          \* ids in the order the chain blocks bring them
    Cutoff,                 \* the pruner deletes rows with an earlier block_time
    CliArgs,                \* the command lines to consider
    ChunkSize,              \* batch_size of insert_txs
    BatchConcurrency,       \* batch_concurrency
    DEADLOCK_MAX_ATTEMPTS,
    MaxCrashes,             \* bound on the ends of the process
    NoRow, Nobody

ASSUME RowsAssumption ==
    /\ ChunkSize \in Nat \ {0}
    /\ BatchConcurrency \in Nat \ {0}
    /\ DEADLOCK_MAX_ATTEMPTS \in Nat \ {0}
    /\ MaxCrashes \in Nat
    /\ ProcessedBatch \in Seq(Int) /\ AcceptedBatch \in Seq(Int)
    /\ Range(AcceptedBatch) \subseteq Range(ProcessedBatch)
    /\ DOMAIN Transaction = Range(ProcessedBatch)

\* The transactions of the RPC.  What is stored in 16 bits fits into 16 bits: counters of
\* that width, and positions of inputs and outputs, whose number kaspad limits.  The mass
\* is a u64 there, which the mass kaspad allows a block (500 000) keeps within 32 bits.
ASSUME TransactionAssumption ==
    \A id \in DOMAIN Transaction :
        LET t == Transaction[id]
        IN  /\ t.transaction_id = id
            /\ t.subnetwork_id \in [1..SubnetworkBytes -> 0..255]
            /\ t.inputs \in Seq(Range(t.inputs)) /\ Len(t.inputs) <= 2^15
            /\ t.outputs \in Seq(Range(t.outputs)) /\ Len(t.outputs) <= 2^15
            /\ t.version \in 0..(2^16 - 1)
            /\ t.mass \in 0..(2 * I32Half - 1)
            /\ \A i \in Range(t.inputs) :
                  {i.outpoint.index, i.sig_op_count, i.compute_budget} \subseteq 0..(2^16 - 1)
            /\ \A o \in Range(t.outputs) :
                  o.covenant # Null => o.covenant.authorizing_input \in 0..(2^16 - 1)

\* NULL is no value of a column, and the marker of a missing row is no row.
ASSUME MarkerAssumption ==
    /\ Null \notin Int
    /\ \A id \in DOMAIN Transaction, cli \in CliArgs :
          LET t == Transaction[id]
          IN  /\ Null # t.payload
              /\ \A len \in 1..SubnetworkBytes : SubSeq(t.subnetwork_id, 1, len) # Null
              /\ t.inputs # <<>> =>
                    Null \notin {map_transaction_inputs(cli, t),
                                map_optional_transaction_inputs(cli, t)}
              /\ t.outputs # <<>> => map_transaction_outputs(cli, t) # Null
              /\ NoRow \notin {map_transaction(cli, t), map_optional_transaction(cli, t)}

VARIABLES
    args,          \* the command line
    transactions,  \* the table: transaction_id -> row
    parties,       \* addresses_transactions and scripts_transactions
    recorded,      \* the writers whose parties are committed
    phase,         \* of every statement
    todo,          \* the ids a running statement has still to lock
    attempts,      \* of retry_on_deadlock
    lock,          \* transaction_id -> the statement that holds its row
    pruned,        \* ids deleted after their upsert was committed (ghost)
    up,            \* the process runs
    crashes

vars == <<args, transactions, parties, recorded, phase, todo, attempts, lock, pruned, up,
          crashes>>

Ids == DOMAIN Transaction
Writers == {"insert", "upsert"}

-----------------------------------------------------------------------------
(***************************************************************************)
(* What the writers send                                                   *)
(***************************************************************************)

\* Faulty: leaves self-sends to the acceptance phase.
processed_unfiltered(t) ==
    /\ Enabled(args, "RejectedTransactions")
    /\ Enabled(args, "RejectedNonCbTransactions") \/ is_builtin(t.subnetwork_id)

\* What the transaction processor keeps of a block.
processed(t) ==
    /\ ~is_self_send_outputs_only(args, t)
    /\ Enabled(args, "RejectedTransactions")
    /\ Enabled(args, "RejectedNonCbTransactions") \/ is_builtin(t.subnetwork_id)

\* What accept_transactions keeps of a chain block.
accepted(t) == ~is_self_send_full(args, t)

\* The ids of the rows of a batch.  tx_id_cache drops those that come again: it is taken
\* to keep its ids for as long as one batch is put together.
Kept(kind) ==
    IF kind = "insert"
    THEN {id \in Range(ProcessedBatch) : processed(Transaction[id])}
    ELSE {id \in Range(AcceptedBatch) : accepted(Transaction[id])}

\* The members of S in ascending order: the n-th has n of them up to itself.
Sorted(S) ==
    [n \in 1..Cardinality(S) |-> CHOOSE id \in S : Cardinality({x \in S : x <= id}) = n]

\* Faulty: in the order of arrival.
ValuesUnsorted(kind) ==
    IF Enabled(args, "TransactionsTable")
    THEN SelectSeq(IF kind = "insert" THEN ProcessedBatch ELSE AcceptedBatch,
                   LAMBDA id : id \in Kept(kind))
    ELSE <<>>

\* The rows of insert_txs, sorted by transaction_id.
Values(kind) ==
    IF Enabled(args, "TransactionsTable") THEN Sorted(Kept(kind)) ELSE <<>>

Chunk(kind, n) ==
    LET values == Values(kind)
        last == IF n * ChunkSize < Len(values) THEN n * ChunkSize ELSE Len(values)
    IN  SubSeq(values, (n - 1) * ChunkSize + 1, last)

\* Faulty: the sender is forgotten.
SendersMissing(kind) ==
    LET ids == Kept(kind)
        Named(what(_)) == UNION {{<<p, id>> : p \in what(Transaction[id])} : id \in ids}
    IN  IF ~Enabled(args, "AddressesTransactionsTable") THEN {}
        ELSE IF Included(args, "TxOutScriptPublicKeyAddress") THEN Named(map_outputs_address)
        ELSE IF Included(args, "TxOutScriptPublicKey") THEN Named(map_outputs_script)
        ELSE {}

\* The rows of insert_tx_addr or of insert_tx_script, <<party, transaction_id>>:
\* the senders only once the transaction is accepted.
Parties(kind) ==
    LET ids == Kept(kind)
        Named(what(_)) == UNION {{<<p, id>> : p \in what(Transaction[id])} : id \in ids}
        Both(senders(_), receivers(_)) ==
            Named(receivers) \cup (IF kind = "upsert" THEN Named(senders) ELSE {})
    IN  IF ~Enabled(args, "AddressesTransactionsTable") THEN {}
        ELSE IF Included(args, "TxOutScriptPublicKeyAddress")
             THEN Both(map_inputs_address, map_outputs_address)
        ELSE IF Included(args, "TxOutScriptPublicKey")
             THEN Both(map_inputs_script, map_outputs_script)
        ELSE {}

PartyTable ==
    IF Included(args, "TxOutScriptPublicKeyAddress")
    THEN "addresses_transactions" ELSE "scripts_transactions"

-----------------------------------------------------------------------------
(***************************************************************************)
(* Statements: <<kind, number of the chunk>>.  The pruner sends one at a   *)
(* time, again and again until there is nothing left to delete.            *)
(***************************************************************************)
Chunks == 1..((Cardinality(Ids) + ChunkSize - 1) \div ChunkSize)
prune == <<"prune", 1>>
Statements == (Writers \X Chunks) \cup {prune}

ASSUME NobodyAssumption == Nobody \notin Statements

Kind(s) == s[1]

HasRows(s) == s = prune \/ Chunk(Kind(s), s[2]) # <<>>

Expired ==
    {id \in Ids : /\ transactions[id] # NoRow
                  /\ transactions[id].block_time # Null
                  /\ transactions[id].block_time < Cutoff}

\* The ids a statement locks, in order; a delete finds its rows in any order.
Orders(s) ==
    IF s = prune THEN SetToSeqs(Expired) ELSE {Chunk(Kind(s), s[2])}

Init ==
    /\ args \in CliArgs
    /\ transactions = [id \in Ids |-> NoRow]
    /\ parties = [table \in {"addresses_transactions", "scripts_transactions"} |-> {}]
    /\ recorded = {}
    /\ phase = [s \in Statements |-> IF HasRows(s) THEN "idle" ELSE "done"]
    /\ todo = [s \in Statements |-> <<>>]
    /\ attempts = [s \in Statements |-> 0]
    /\ lock = [id \in Ids |-> Nobody]
    /\ pruned = {}
    /\ up = TRUE
    /\ crashes = 0

-----------------------------------------------------------------------------
\* stream::iter(chunks).buffer_unordered(batch_concurrency): the chunks start in
\* order, each when one of the earlier ones has left a place.
InFlight(kind) == {s \in Statements : Kind(s) = kind /\ phase[s] \in {"run", "backoff"}}

Begin(s) ==
    /\ \E order \in Orders(s) : todo' = [todo EXCEPT ![s] = order]
    /\ phase' = [phase EXCEPT ![s] = "run"]
    /\ UNCHANGED <<args, transactions, parties, recorded, attempts, lock, pruned, up, crashes>>

\* Faulty: a place is never free again.
StartChunkOnce(s) ==
    /\ up /\ s # prune /\ phase[s] = "idle"
    /\ s[2] <= BatchConcurrency
    /\ Begin(s)

StartChunk(s) ==
    /\ up /\ s # prune /\ phase[s] = "idle"
    /\ \A n \in 1..(s[2] - 1) : phase[<<Kind(s), n>>] # "idle"
    /\ Cardinality(InFlight(Kind(s))) < BatchConcurrency
    /\ Begin(s)

\* prune_transactions: the loop ends with a delete that finds nothing.
StartPrune ==
    /\ up /\ phase[prune] = "idle"
    /\ IF Expired # {}
       THEN Begin(prune)
       ELSE /\ phase' = [phase EXCEPT ![prune] = "done"]
            /\ UNCHANGED <<args, transactions, parties, recorded, todo, attempts, lock,
                           pruned, up, crashes>>

\* Faulty: an insert updates a row that is there.
AcquireAlways(s) ==
    /\ up /\ phase[s] = "run" /\ todo[s] # <<>>
    /\ lock[Head(todo[s])] = Nobody
    /\ lock' = [lock EXCEPT ![Head(todo[s])] = s]
    /\ todo' = [todo EXCEPT ![s] = Tail(@)]
    /\ UNCHANGED <<args, transactions, parties, recorded, phase, attempts, pruned, up, crashes>>

\* PostgreSQL: the next row is locked, once nobody else holds it.  DO NOTHING
\* passes over a row that is there.
Acquire(s) ==
    /\ up /\ phase[s] = "run" /\ todo[s] # <<>>
    /\ LET id == Head(todo[s])
       IN  /\ lock[id] = Nobody
           /\ lock' = IF Kind(s) = "insert" /\ transactions[id] # NoRow
                      THEN lock ELSE [lock EXCEPT ![id] = s]
    /\ todo' = [todo EXCEPT ![s] = Tail(@)]
    /\ UNCHANGED <<args, transactions, parties, recorded, phase, attempts, pruned, up, crashes>>

Locked(s) == {id \in Ids : lock[id] = s}
Unlock(S) == [id \in Ids |-> IF lock[id] \in S THEN Nobody ELSE lock[id]]

\* The row that statement s leaves where it holds the lock.
Row(s, id) ==
    LET new == map_optional_transaction(args, Transaction[id])
    IN  CASE Kind(s) = "insert" -> map_transaction(args, Transaction[id])
          [] Kind(s) = "upsert" /\ transactions[id] = NoRow -> new
          [] Kind(s) = "upsert" /\ transactions[id] # NoRow ->
                [transactions[id] EXCEPT !.inputs = new.inputs]
          [] Kind(s) = "prune"  -> NoRow

\* The table once the statements of S are committed.
Committed(S) ==
    [id \in Ids |-> IF lock[id] \in S THEN Row(lock[id], id) ELSE transactions[id]]

Accepted(id) ==
    \A n \in Chunks :
        id \in Range(Chunk("upsert", n)) => phase[<<"upsert", n>>] = "done"

Commit(s) ==
    /\ up /\ phase[s] = "run" /\ todo[s] = <<>>
    /\ transactions' = Committed({s})
    /\ lock' = Unlock({s})
    /\ pruned' = IF s = prune THEN pruned \cup {id \in Locked(s) : Accepted(id)} ELSE pruned
    /\ phase' = [phase EXCEPT ![s] = IF s = prune THEN "idle" ELSE "done"]
    /\ UNCHANGED <<args, parties, recorded, todo, attempts, up, crashes>>

\* insert_tx_addr or insert_tx_script
RecordParties(kind) ==
    /\ up /\ kind \notin recorded
    /\ kind = "insert" => Enabled(args, "RejectedTransactions")
    /\ parties' = [parties EXCEPT ![PartyTable] = @ \cup Parties(kind)]
    /\ recorded' = recorded \cup {kind}
    /\ UNCHANGED <<args, transactions, phase, todo, attempts, lock, pruned, up, crashes>>

-----------------------------------------------------------------------------
(***************************************************************************)
(* Deadlocks                                                               *)
(***************************************************************************)
WaitsFor ==
    [s \in Statements \cup {Nobody} |->
        IF s # Nobody /\ phase[s] = "run" /\ todo[s] # <<>>
        THEN lock[Head(todo[s])] ELSE Nobody]

\* Those at the end of one or more waits of s.
Chain(s) ==
    LET waits == WaitsFor
        Hop[n \in 0..Cardinality(Statements)] == IF n = 0 THEN s ELSE waits[Hop[n - 1]]
    IN  {Hop[n] : n \in 1..Cardinality(Statements)}

Deadlocked(s) == s \in Chain(s)

\* The process ends.  The server has finished what it does not abort.
ProcessEnds ==
    /\ \E finished \in SUBSET {s \in Statements : phase[s] = "run" /\ todo[s] = <<>>} :
          transactions' = Committed(finished)
    /\ lock' = [id \in Ids |-> Nobody]
    /\ pruned' = {}
    /\ up' = FALSE
    /\ phase' = [s \in Statements |-> IF HasRows(s) THEN "idle" ELSE "done"]
    /\ todo' = [s \in Statements |-> <<>>]
    /\ attempts' = [s \in Statements |-> 0]
    /\ recorded' = {}
    /\ crashes' = crashes + 1
    /\ UNCHANGED <<args, parties>>

\* Faulty: one attempt too many.
VictimOnceMore(s) ==
    /\ up /\ Deadlocked(s)
    /\ LET last == attempts[s] >= DEADLOCK_MAX_ATTEMPTS
       IN  IF last /\ Kind(s) \in Writers
           THEN ProcessEnds
           ELSE /\ phase' = [phase EXCEPT ![s] = IF last THEN "failed" ELSE "backoff"]
                /\ attempts' = [attempts EXCEPT ![s] = @ + 1]
                /\ lock' = Unlock({s})
                /\ UNCHANGED <<args, transactions, parties, recorded, todo, pruned, up,
                               crashes>>

\* retry_on_deadlock: one of the statements of the cycle is rolled back and, unless
\* it was the last attempt, waits a little.  A writer's last failure is a panic, the
\* pruner's is an error of its step.
Victim(s) ==
    /\ up /\ Deadlocked(s)
    /\ LET last == attempts[s] + 1 >= DEADLOCK_MAX_ATTEMPTS
       IN  IF last /\ Kind(s) \in Writers
           THEN ProcessEnds
           ELSE /\ phase' = [phase EXCEPT ![s] = IF last THEN "failed" ELSE "backoff"]
                /\ attempts' = [attempts EXCEPT ![s] = @ + 1]
                /\ lock' = Unlock({s})
                /\ UNCHANGED <<args, transactions, parties, recorded, todo, pruned, up,
                               crashes>>

\* Faulty: goes on where the last attempt was interrupted.
RetryRest(s) ==
    /\ up /\ phase[s] = "backoff"
    /\ phase' = [phase EXCEPT ![s] = "run"]
    /\ UNCHANGED <<args, transactions, parties, recorded, todo, attempts, lock, pruned, up,
                   crashes>>

\* The whole statement again.
Retry(s) ==
    /\ up /\ phase[s] = "backoff"
    /\ IF s = prune /\ Expired = {}
       THEN /\ phase' = [phase EXCEPT ![s] = "done"]
            /\ UNCHANGED <<args, transactions, parties, recorded, todo, attempts, lock,
                           pruned, up, crashes>>
       ELSE Begin(s)

\* Killed, or a panic elsewhere.
Crash ==
    /\ up /\ crashes < MaxCrashes
    /\ ProcessEnds

\* Back with the same command line, as far as the bound on crashes goes.
Restart ==
    /\ ~up /\ crashes <= MaxCrashes
    /\ up' = TRUE
    /\ UNCHANGED <<args, transactions, parties, recorded, phase, todo, attempts, lock, pruned,
                   crashes>>

Next ==
    \/ \E s \in Statements :
          \/ StartChunk(s)
          \/ Acquire(s)
          \/ Commit(s)
          \/ Victim(s)
          \/ Retry(s)
    \/ \E kind \in Writers : RecordParties(kind)
    \/ StartPrune
    \/ Crash
    \/ Restart

\* The server executes what it is sent and resolves deadlocks, the chunks are sent,
\* and the process is restarted.  Nothing says that the pruner's time comes.
Fairness ==
    /\ \A s \in Writers \X Chunks :
          WF_vars(StartChunk(s) \/ Acquire(s) \/ Commit(s) \/ Retry(s))
    /\ WF_vars(Acquire(prune) \/ Commit(prune) \/ Retry(prune))
    /\ WF_vars(\E s \in Statements : Victim(s))
    /\ WF_vars(Restart \/ \E kind \in Writers : RecordParties(kind))

Spec == Init /\ [][Next]_vars /\ Fairness

-----------------------------------------------------------------------------
(***************************************************************************)
(* Properties                                                              *)
(***************************************************************************)

\* Statements, tables and locks have their types; a statement that is not running
\* holds no lock, and only one that has failed has used all its attempts.
TypeOK ==
    /\ args \in CliArgs
    /\ \A id \in Ids : transactions[id] = NoRow \/ transactions[id].transaction_id = id
    /\ recorded \subseteq Writers
    /\ phase \in [Statements -> {"idle", "run", "backoff", "done", "failed"}]
    /\ \A s \in Statements : Range(todo[s]) \subseteq Ids
    /\ \A s \in Statements :
          /\ attempts[s] \in 0..DEADLOCK_MAX_ATTEMPTS
          /\ attempts[s] = DEADLOCK_MAX_ATTEMPTS => phase[s] = "failed"
    /\ pruned \subseteq Ids
    /\ lock \in [Ids -> Statements \cup {Nobody}]
    /\ \A s \in Statements : phase[s] # "run" => Locked(s) = {}
    /\ up \in BOOLEAN
    /\ crashes \in 0..(MaxCrashes + 1)

\* The two writers never block each other for good: because insert_txs sorts the rows
\* of every chunk by transaction_id, whatever cycle of waits there is goes through the
\* pruner, whose delete finds rows in any order.
WritersNeverDeadlock ==
    \A s \in Statements : Deadlocked(s) => prune \in Chain(s)

Stored(column, default) == IF column = Null THEN default ELSE column

ReadsAs(field, column, default, value) ==
    IF Included(args, field) THEN Stored(column, default) = value ELSE column = Null

\* A column of 16 bits read as what it was before "as i16".
ReadsAsU16(field, column, value) ==
    IF Included(args, field) THEN Stored(column, 0) % 2^16 = value ELSE column = Null

\* One of a covenant: NULL where there is none, also where 0 is a value.
ReadsAsInput(field, column, covenant) ==
    IF Included(args, field) /\ covenant # Null
    THEN column # Null /\ column % 2^16 = covenant.authorizing_input
    ELSE column = Null

InputReadsBack(in, n, i) ==
    /\ in.index = n - 1
    /\ ReadsAs("TxInPreviousOutpoint", in.previous_outpoint_hash, Null, i.outpoint.transaction_id)
    /\ ReadsAsU16("TxInPreviousOutpoint", in.previous_outpoint_index, i.outpoint.index)
    /\ ReadsAs("TxInSignatureScript", in.signature_script, Null, i.signature_script)
    /\ ReadsAsU16("TxInSigOpCount", in.sig_op_count, i.sig_op_count)
    /\ ReadsAsU16("TxInComputeBudget", in.compute_budget, i.compute_budget)

OutputReadsBack(out, n, o) ==
    /\ out.index = n - 1
    /\ ReadsAs("TxOutAmount", out.amount, Null, o.value)
    /\ ReadsAs("TxOutScriptPublicKey", out.script_public_key, Null, o.script_public_key)
    /\ ReadsAs("TxOutScriptPublicKeyAddress", out.script_public_key_address, Null, o.address)
    /\ ReadsAsInput("TxOutCovenantAuthorizingInput", out.covenant_authorizing_input,
                    o.covenant)
    /\ ReadsAs("TxOutCovenantId", out.covenant_id, Null,
               IF o.covenant = Null THEN Null ELSE o.covenant.covenant_id)

RowReadsBack(row, t) ==
    LET bytes == Stored(row.subnetwork_id, <<>>)
        padded == [n \in 1..SubnetworkBytes |-> IF n <= Len(bytes) THEN bytes[n] ELSE 0]
        inputs == Stored(row.inputs, <<>>)
        outputs == Stored(row.outputs, <<>>)
    IN  /\ IF Included(args, "TxSubnetworkId") THEN padded = t.subnetwork_id ELSE bytes = <<>>
        /\ ReadsAs("TxHash", row.hash, Null, t.hash)
        /\ IF Included(args, "TxMass")
           THEN Stored(row.mass, 0) % (2 * I32Half) = t.mass ELSE row.mass = Null
        /\ ReadsAs("TxPayload", row.payload, <<>>, t.payload)
        /\ ReadsAs("TxBlockTime", row.block_time, Null, t.block_time)
        /\ ReadsAs("TxBlockHash", row.block_hash, Null, t.block_hash)
        /\ Stored(row.version, 0) % 2^16 = t.version
        /\ Len(inputs) = IF Enabled(args, "TransactionsInputs") THEN Len(t.inputs) ELSE 0
        /\ Len(outputs) = IF Enabled(args, "TransactionsOutputs") THEN Len(t.outputs) ELSE 0
        /\ \A n \in DOMAIN inputs : InputReadsBack(inputs[n], n, t.inputs[n])
        /\ \A n \in DOMAIN outputs : OutputReadsBack(outputs[n], n, t.outputs[n])

\* A row loses nothing: whichever writer it is from, every column that is not excluded
\* reads back as the value kaspad sent (NULL as zero or as empty, a subnetwork id
\* filled up with zeros, a 16 or 32 bit column without its sign), and one that is
\* excluded is NULL.
ReadsBack ==
    \A id \in Ids :
        transactions[id] # NoRow => RowReadsBack(transactions[id], Transaction[id])

\* The inputs of a row carry the scripts and amounts they spend.
Resolved(id) ==
    LET row == transactions[id]
        inputs == map_optional_transaction_inputs(args, Transaction[id])
    IN  row # NoRow /\ row.inputs = Then(Enabled(args, "TransactionsInputs"), inputs)

\* Once the acceptance phase has resolved the inputs of a row they stay resolved for as
\* long as the row is there: a late insert of the transaction processor, a retried
\* chunk or a batch that is sent again after a crash never takes them away.
InputsStayResolved ==
    [][\A id \in Ids :
          Resolved(id) /\ transactions'[id] # NoRow => Resolved(id)']_vars

BatchDone(kind) ==
    up /\ kind \in recorded /\ \A n \in Chunks : phase[<<kind, n>>] = "done"

\* Moves within one group of --ignore-self-sends, the coinbase excepted.
SelfSend(t) ==
    /\ ~is_builtin(t.subnetwork_id)
    /\ t.outputs # <<>>
    /\ \E group \in args.ignore_self_sends :
          /\ \A n \in DOMAIN t.outputs : t.outputs[n].address \in group
          /\ \A n \in DOMAIN t.inputs : t.inputs[n].utxo.address \in group

\* What --ignore-self-sends names is stored by neither phase, although the first of
\* them does not know the senders.
SelfSendsIgnored ==
    \A id \in Ids : SelfSend(Transaction[id]) =>
        /\ transactions[id] = NoRow
        /\ \A table \in DOMAIN parties : \A p \in parties[table] : p[2] # id

\* When the accepted batch is done each of its transactions is there with its inputs
\* resolved, whatever the statements met on the way (rows of the other writer, waits,
\* deadlocks and retries, a crash), but for self-sends and for what the pruner has
\* deleted after that.
AcceptedStored ==
    BatchDone("upsert") /\ Enabled(args, "TransactionsTable") =>
        \A id \in Range(AcceptedBatch) :
            SelfSend(Transaction[id]) \/ Resolved(id) \/ id \in pruned

\* Everybody an accepted and stored transaction pays or is paid by finds it in the table
\* the settings select, by address or else by script, and the other table is empty.
PartiesRecorded ==
    LET byAddress == Included(args, "TxOutScriptPublicKeyAddress")
        byScript == ~byAddress /\ Included(args, "TxOutScriptPublicKey")
        enabled == Enabled(args, "AddressesTransactionsTable")
    IN  /\ (~byAddress \/ ~enabled) => parties["addresses_transactions"] = {}
        /\ (~byScript \/ ~enabled) => parties["scripts_transactions"] = {}
        /\ BatchDone("upsert") /\ enabled =>
              \A id \in Range(AcceptedBatch) :
                  LET t == Transaction[id]
                      spent == {t.inputs[n].utxo : n \in DOMAIN t.inputs}
                      paid == {t.outputs[n] : n \in DOMAIN t.outputs}
                  IN  SelfSend(t) \/ \A u \in spent \cup paid :
                        /\ byAddress => <<u.address, id>> \in parties["addresses_transactions"]
                        /\ byScript =>
                              <<u.script_public_key, id>> \in parties["scripts_transactions"]

\* Waits, deadlocks and retries come to an end: every chunk a writer has to send is
\* committed, unless the process has ended more often than is considered here.
WritersFinish ==
    <>[](\/ ~up
         \/ \A s \in Writers \X Chunks : phase[s] = "done")

=============================================================================
