-------------------------- MODULE MCTransactionRows --------------------------
(***************************************************************************)
(* Three transactions, for TransactionRows.                                *)
(***************************************************************************)
EXTENDS TransactionRows

Input(id, index, owner, amount, covenant) ==
    [outpoint |-> [transaction_id |-> id, index |-> index],
     signature_script |-> <<"sig", owner>>,
     sig_op_count |-> amount % 2,
     compute_budget |-> IF index > 2^15 THEN 65535 ELSE 0,
     utxo |-> [script_public_key |-> <<"pay", owner>>, address |-> owner,
               amount |-> amount, covenant_id |-> covenant]]

Output(owner, value, covenant) ==
    [value |-> value, script_public_key |-> <<"pay", owner>>, address |-> owner,
     covenant |-> covenant]

\* 1: from A to B, native, with an outpoint index and an authorizing input that do not
\*    fit into 16 bits with a sign.
\* 2: from C to A, in a user subnetwork with a zero inside, with a version and a mass
\*    that do not fit with a sign either.
\* 3: a coinbase to A.
ThreeTransactions ==
    <<[transaction_id |-> 1, subnetwork_id |-> <<0, 0, 0>>, hash |-> "h1", mass |-> 7,
       payload |-> <<>>, block_time |-> 1, block_hash |-> "b1", version |-> 0,
       inputs |-> <<Input("x", 40000, "A", 3, Null), Input("y", 0, "A", 2, "cov")>>,
       outputs |-> <<Output("B", 5, [authorizing_input |-> 50000, covenant_id |-> "cov"])>>],
      [transaction_id |-> 2, subnetwork_id |-> <<5, 0, 2>>, hash |-> "h2", mass |-> 1500000,
       payload |-> <<1>>, block_time |-> 2, block_hash |-> "b1", version |-> 65535,
       inputs |-> <<Input("z", 1, "C", 4, Null)>>,
       outputs |-> <<Output("A", 4, Null),
                     Output("A", 0, [authorizing_input |-> 0, covenant_id |-> "new"])>>],
      [transaction_id |-> 3, subnetwork_id |-> <<1, 0, 0>>, hash |-> "h3", mass |-> 0,
       payload |-> <<2>>, block_time |-> 3, block_hash |-> "b2", version |-> 0,
       inputs |-> <<>>,
       outputs |-> <<Output("A", 1, Null)>>]>>

\* The first one comes in two blocks.
ProcessedIds == <<1, 2, 1, 3>>
AcceptedIds == <<2, 1, 3>>

Line(exclude, disable, groups) ==
    [exclude |-> exclude, disable |-> disable, ignore_self_sends |-> groups]

ByAddress == "TxOutScriptPublicKeyAddress"

Lines ==
    {Line({}, {}, {}),
     Line({ByAddress, "TxSubnetworkId", "TxInPreviousOutpoint"}, {}, {{"A", "B"}, {}}),
     Line({ByAddress, "TxOutScriptPublicKey", "TxBlockTime", "TxPayload", "TxInSigOpCount"},
          {"RejectedNonCbTransactions"}, {{"A"}, {"B"}}),
     Line({"TxHash", "TxMass", "TxOutAmount", "TxOutCovenantAuthorizingInput"},
          {"RejectedTransactions"}, {{"A", "C"}}),
     Line({}, {"TransactionsTable", "TransactionsInputs"}, {}),
     Line({"TxBlockHash", "TxInCovenantId"}, {"TransactionsInputs", "AddressesTransactionsTable"},
          {})}

=============================================================================
