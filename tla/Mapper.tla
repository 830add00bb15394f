------------------------------- MODULE Mapper -------------------------------
(***************************************************************************)
(* KaspaDbMapper: rows from the structures of kaspad's RPC.  A column is   *)
(* NULL when the field is excluded and, for most fields, when its value is *)
(* zero or empty, so NULL reads back as the default of the column.         *)
(*                                                                         *)
(* The same record stands for a transaction of a block (RpcTransaction)    *)
(* and for an accepted one (RpcOptionalTransaction): only the latter comes *)
(* with the utxo entries its inputs spend.                                 *)
(***************************************************************************)
EXTENDS Integers, Sequences, FiniteSets, SequencesExt

CONSTANTS
    Null,             \* NULL
    SubnetworkBytes,  \* length of a subnetwork id
    I32Half           \* 2^31: one more than the largest i32.  A run takes less, the
                      \* model checker's own integers end there.

ASSUME MapperAssumption ==
    /\ SubnetworkBytes \in Nat \ {0}
    /\ I32Half \in Nat \ {0}

Included(args, field) == field \notin args.exclude
Enabled(args, flag) == flag \notin args.disable

\* condition.then_some(value)
Then(condition, value) == IF condition THEN value ELSE Null

\* "value as" a signed type of twice half values: what does not fit is cut off, and the
\* upper half turns negative.  (Amounts and times "as i64" keep their value: what there
\* is of coins and of milliseconds takes less than 63 bits.)
AsSigned(value, half) == ((value + half) % (2 * half)) - half

I16(value) == AsSigned(value, 2^15)
I32(value) == AsSigned(value, I32Half)

-----------------------------------------------------------------------------
(***************************************************************************)
(* Subnetworks: 20 bytes, and only the first few are ever other than zero. *)
(***************************************************************************)

\* COINBASE and REGISTRY
is_builtin(id) ==
    /\ id[1] \in {1, 2}
    /\ \A i \in 2..SubnetworkBytes : id[i] = 0

\* Faulty: stops at the first zero.
compress_to_first_zero(id) ==
    LET zeros == {i \in 1..SubnetworkBytes : id[i] = 0}
        len == IF zeros = {} THEN SubnetworkBytes ELSE Min(zeros) - 1
    IN  IF len = 0 THEN Null ELSE SubSeq(id, 1, len)

\* Trailing zeros stripped; NATIVE, which is all zeros, is NULL.
compress_subnetwork_id(id) ==
    LET len == Max({0} \cup {i \in 1..SubnetworkBytes : id[i] # 0})
    IN  IF len = 0 THEN Null ELSE SubSeq(id, 1, len)

-----------------------------------------------------------------------------
(***************************************************************************)
(* Transactions                                                            *)
(***************************************************************************)
map_transaction_input(args, i, index) ==
    [index |-> I16(index - 1),
     previous_outpoint_hash |->
        Then(Included(args, "TxInPreviousOutpoint"), i.outpoint.transaction_id),
     previous_outpoint_index |->
        Then(Included(args, "TxInPreviousOutpoint"), I16(i.outpoint.index)),
     signature_script |-> Then(Included(args, "TxInSignatureScript"), i.signature_script),
     sig_op_count |->
        Then(Included(args, "TxInSigOpCount") /\ i.sig_op_count # 0, i.sig_op_count),
     previous_outpoint_script |-> Null,
     previous_outpoint_amount |-> Null,
     compute_budget |->
        Then(Included(args, "TxInComputeBudget") /\ i.compute_budget # 0,
             I16(i.compute_budget)),
     covenant_id |-> Null]

\* The same with what the utxo entry adds.
map_optional_transaction_input(args, i, index) ==
    [map_transaction_input(args, i, index) EXCEPT
        !.previous_outpoint_script =
            Then(Included(args, "TxInPreviousOutpoint"), i.utxo.script_public_key),
        !.previous_outpoint_amount =
            Then(Included(args, "TxInPreviousOutpoint"), i.utxo.amount),
        !.covenant_id = Then(Included(args, "TxInCovenantId"), i.utxo.covenant_id)]

map_transaction_inputs(args, t) ==
    Then(t.inputs # <<>>,
         [n \in DOMAIN t.inputs |-> map_transaction_input(args, t.inputs[n], n)])

map_optional_transaction_inputs(args, t) ==
    Then(t.inputs # <<>>,
         [n \in DOMAIN t.inputs |-> map_optional_transaction_input(args, t.inputs[n], n)])

\* map_transaction_outputs and map_optional_transaction_outputs
map_transaction_outputs(args, t) ==
    Then(t.outputs # <<>>,
         [n \in DOMAIN t.outputs |->
            LET o == t.outputs[n]
            IN  [index |-> I16(n - 1),
                 amount |-> Then(Included(args, "TxOutAmount"), o.value),
                 script_public_key |->
                    Then(Included(args, "TxOutScriptPublicKey"), o.script_public_key),
                 script_public_key_address |->
                    Then(Included(args, "TxOutScriptPublicKeyAddress"), o.address),
                 covenant_authorizing_input |->
                    Then(Included(args, "TxOutCovenantAuthorizingInput")
                            /\ o.covenant # Null,
                         I16(o.covenant.authorizing_input)),
                 covenant_id |->
                    Then(Included(args, "TxOutCovenantId") /\ o.covenant # Null,
                         o.covenant.covenant_id)]])

\* The columns both phases write alike.
transaction_row(args, t, inputs) ==
    [transaction_id |-> t.transaction_id,
     subnetwork_id |-> Then(Included(args, "TxSubnetworkId"),
                            compress_subnetwork_id(t.subnetwork_id)),
     hash |-> Then(Included(args, "TxHash"), t.hash),
     mass |-> Then(Included(args, "TxMass") /\ t.mass # 0, I32(t.mass)),
     payload |-> Then(Included(args, "TxPayload") /\ t.payload # <<>>, t.payload),
     block_time |-> Then(Included(args, "TxBlockTime"), t.block_time),
     block_hash |-> Then(Included(args, "TxBlockHash"), t.block_hash),
     version |-> Then(t.version # 0, I16(t.version)),
     inputs |-> Then(Enabled(args, "TransactionsInputs"), inputs),
     outputs |-> Then(Enabled(args, "TransactionsOutputs"),
                      map_transaction_outputs(args, t))]

map_transaction(args, t) ==
    transaction_row(args, t, map_transaction_inputs(args, t))

map_optional_transaction(args, t) ==
    transaction_row(args, t, map_optional_transaction_inputs(args, t))

\* Rows of addresses_transactions or scripts_transactions: which party is named
\* by what.
map_outputs_address(t) == {t.outputs[n].address : n \in DOMAIN t.outputs}
map_inputs_address(t) == {t.inputs[n].utxo.address : n \in DOMAIN t.inputs}
map_outputs_script(t) == {t.outputs[n].script_public_key : n \in DOMAIN t.outputs}
map_inputs_script(t) == {t.inputs[n].utxo.script_public_key : n \in DOMAIN t.inputs}

-----------------------------------------------------------------------------
(***************************************************************************)
(* Self-sends: transactions within one of the groups of --ignore-self-sends *)
(***************************************************************************)

\* An empty group of the command line is dropped.
ignore_self_sends_groups(args) == args.ignore_self_sends \ {{}}

\* Neither of the two filters looks at such a transaction.
never_self_send(args, t) ==
    \/ ignore_self_sends_groups(args) = {}
    \/ t.outputs = <<>>
    \/ is_builtin(t.subnetwork_id)

\* The rejected-transactions phase does not know the inputs' addresses.
is_self_send_outputs_only(args, t) ==
    /\ ~never_self_send(args, t)
    /\ \E group \in ignore_self_sends_groups(args) : map_outputs_address(t) \subseteq group

\* The acceptance phase knows both sides.
is_self_send_full(args, t) ==
    /\ ~never_self_send(args, t)
    /\ \E group \in ignore_self_sends_groups(args) :
          map_outputs_address(t) \cup map_inputs_address(t) \subseteq group

=============================================================================
