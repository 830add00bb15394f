------------------------------- MODULE Schema -------------------------------
(***************************************************************************)
(* The database schema and the SQL scripts that create it, drop it and     *)
(* bring it from one version to the next.                                  *)
(*                                                                         *)
(* A database is the set of its objects (a table or type <<t, Whole>>, or  *)
(* a column, attribute or constraint <<t, c>> of it), the schema_version   *)
(* in table vars and what the objects hold: the pair <<fact, o>> says that *)
(* object o holds that part of what the indexer stored, which may be       *)
(* nothing: NoRows names the facts that no row was ever stored of, as the  *)
(* tables were disabled.  A script is the sequence of its statements as    *)
(* split_statements cuts them.  Columns that no script touches are left    *)
(* out, and so are statements that can neither fail nor matter to a later  *)
(* one (indexes, planner statistics, types).                               *)
(***************************************************************************)
EXTENDS Naturals, Sequences

CONSTANT NoRows  \* facts without rows

SCHEMA_VERSION == 23

\* A database that schema_version cannot be read from.
NoVersion == 0

\* The table or type itself, and some of what belongs to it.
Whole == ""
Table(t) == <<t, Whole>>
Columns(t, cs) == {<<t, c>> : c \in cs}

-----------------------------------------------------------------------------
(***************************************************************************)
(* Statements                                                              *)
(***************************************************************************)
Statement ==
    [needs |-> {}, rows |-> {}, makes |-> {}, drops |-> {}, rename |-> <<>>,
     copies |-> {}, version |-> NoVersion]

\* CREATE TABLE t, CREATE TYPE t
Create(t, cs) ==
    [Statement EXCEPT !.makes = {Table(t)} \cup Columns(t, cs)]

\* CREATE TABLE t AS SELECT: copies is a set of <<fact, from, to>>.
CreateAs(t, cs, copies) ==
    [Statement EXCEPT !.makes = {Table(t)} \cup Columns(t, cs),
                      !.needs = {c[2] : c \in copies},
                      !.copies = copies]

\* INSERT INTO ... SELECT, UPDATE ... FROM; it fails without these rows.
Copy(copies, rows) ==
    [Statement EXCEPT !.needs = {c[2] : c \in copies} \cup {c[3] : c \in copies},
                      !.rows = rows,
                      !.copies = copies]

\* DROP TABLE, ALTER TABLE ... DROP COLUMN
Drop(o) == [Statement EXCEPT !.needs = {o}, !.drops = {o}]

DropIfExists(o) == [Statement EXCEPT !.drops = {o}]

\* ALTER TABLE t ADD COLUMN c, ADD PRIMARY KEY, ADD UNIQUE, ADD ATTRIBUTE
Add(t, c) == [Statement EXCEPT !.needs = {Table(t)}, !.makes = {<<t, c>>}]

Rename(o, n) == [Statement EXCEPT !.needs = {o}, !.rename = <<o, n>>]

Alter(t) == [Statement EXCEPT !.needs = {Table(t)}]

\* UPDATE vars SET value = v WHERE key = 'schema_version'
SetVersion(v) == [Statement EXCEPT !.needs = {Table("vars")}, !.version = v]

\* o goes when d is dropped, or is renamed when d is.
BelongsTo(o, d) == o[1] = d[1] /\ d[2] \in {Whole, o[2]}

\* A type of that name is the row type of a table before version 20, and the
\* server refuses to drop it.
RowTypes(db) ==
    {o \in {Table("transactions_inputs"), Table("transactions_outputs")} :
        o \in db.objects /\ <<o[1], "type">> \notin db.objects}

\* The server rejects the statement.
Fails(db, s) ==
    \/ ~ (s.needs \subseteq db.objects)
    \/ \E h \in s.rows : h \notin db.held \/ h[1] \in NoRows
    \/ s.makes \cap db.objects # {}
    \/ s.rename # <<>> /\ s.rename[2] \in db.objects
    \/ s.drops \cap RowTypes(db) # {}

\* What the statement drops, what it renames, and what it writes elsewhere.
Gone(o, s) == \E d \in s.drops : BelongsTo(o, d)

NewName(o, s) ==
    IF s.rename # <<>> /\ BelongsTo(o, s.rename[1])
    THEN <<s.rename[2][1], IF s.rename[1][2] = Whole THEN o[2] ELSE s.rename[2][2]>>
    ELSE o

\* The transactions of blocks are copied through a join with blocks: where that
\* table is empty, none are.
Joined(f) == f = "block_transactions" => "block" \notin NoRows

Copied(db, s) ==
    {<<c[1], c[3]>> : c \in {c \in s.copies : <<c[1], c[2]>> \in db.held
                                              /\ Joined(c[1])}}

\* The database after a statement that did not fail.
Execute(db, s) ==
    [objects |-> {NewName(o, s) : o \in {o \in db.objects \cup s.makes : ~Gone(o, s)}},
     held |-> {<<h[1], NewName(h[2], s)>> :
                  h \in {h \in db.held \cup Copied(db, s) : ~Gone(h[2], s)}},
     version |-> IF Table("vars") \in s.drops THEN NoVersion
                 ELSE IF s.version # NoVersion THEN s.version ELSE db.version]

-----------------------------------------------------------------------------
(***************************************************************************)
(* Scripts                                                                 *)
(***************************************************************************)
Empty == [objects |-> {}, held |-> {}, version |-> NoVersion]

up ==
    <<Create("vars", {}),
      SetVersion(SCHEMA_VERSION),
      Create("blocks", {"pkey", "transaction_ids"}),
      Create("block_parent", {"pkey"}),
      Create("transactions_inputs",
             {"type", "previous_outpoint_script", "previous_outpoint_amount",
              "compute_budget", "covenant_id"}),
      Create("transactions_outputs",
             {"type", "covenant_authorizing_input", "covenant_id"}),
      Create("transactions",
             {"pkey", "subnetwork_id", "version", "inputs", "outputs", "block_hash"}),
      Create("transactions_acceptances", {"unique"}),
      Create("addresses_transactions", {"pkey"}),
      Create("scripts_transactions", {"pkey"})>>

down ==
    <<DropIfExists(Table("scripts_transactions")),
      DropIfExists(Table("addresses_transactions")),
      DropIfExists(Table("transactions_acceptances")),
      DropIfExists(Table("transactions")),
      DropIfExists(Table("transactions_inputs")),
      DropIfExists(Table("transactions_outputs")),
      DropIfExists(Table("subnetworks")),
      DropIfExists(Table("block_parent")),
      DropIfExists(Table("blocks")),
      DropIfExists(Table("vars"))>>

v1_to_v2 ==
    <<Create("block_parent", {}),
      Copy({<<"parents", <<"blocks", "parents">>, Table("block_parent")>>}, {}),
      Add("block_parent", "pkey"),
      Drop(<<"blocks", "parents">>),
      SetVersion(2)>>

v2_to_v3 == <<SetVersion(3)>>

v3_to_v4 == <<Alter("subnetworks"), Alter("transactions"), SetVersion(4)>>

v4_to_v5 ==
    <<Drop(Table("chain_blocks")), Drop(<<"blocks", "difficulty">>), SetVersion(5)>>

v5_to_v6 ==
    <<Add("transactions_inputs", "block_time"),
      Add("transactions_outputs", "block_time"),
      SetVersion(6)>>

v6_to_v7 ==
    <<Drop(<<"transactions_acceptances", "pkey">>),
      Add("transactions_acceptances", "unique"),
      SetVersion(7)>>

\* The key is another one than up.sql's: it has no block_time.
v7_to_v8 ==
    <<Create("scripts_transactions", {"pkey_without_time"}), SetVersion(8)>>

v8_to_v9 ==
    <<Alter("transactions_acceptances"),
      Add("transactions_inputs", "previous_outpoint_script"),
      Add("transactions_inputs", "previous_outpoint_amount"),
      SetVersion(9)>>

v9_to_v10 == <<SetVersion(10)>>

\* Faulty: the old tables are dropped before their rows are copied.
v10_to_v20_drops_first ==
    <<Create("utxos", {}),
      Drop(Table("transactions")),
      Drop(Table("transactions_inputs")),
      Drop(Table("transactions_outputs")),
      Create("transactions_inputs",
             {"type", "previous_outpoint_script", "previous_outpoint_amount"}),
      Create("transactions_outputs", {"type"}),
      Create("transactions", {"subnetwork_id", "inputs", "outputs", "outputs_spent"}),
      Add("transactions", "pkey"),
      SetVersion(20)>>

v10_to_v20 ==
    <<SetVersion(20),
      Create("utxos", {}),
      Alter("transactions_outputs"),
      Alter("addresses_transactions"),
      Rename(Table("transactions"), Table("transactions_old")),
      Rename(Table("transactions_inputs"), Table("transactions_inputs_old")),
      Rename(Table("transactions_outputs"), Table("transactions_outputs_old")),
      Create("transactions_inputs",
             {"type", "previous_outpoint_script", "previous_outpoint_amount"}),
      Create("transactions_outputs", {"type"}),
      Create("transactions", {"subnetwork_id", "inputs", "outputs", "outputs_spent"}),
      Copy({<<"transaction", Table("transactions_old"), Table("transactions")>>,
            <<"subnetwork", <<"transactions_old", "subnetwork_id">>,
                            <<"transactions", "subnetwork_id">> >>,
            <<"inputs", Table("transactions_inputs_old"), <<"transactions", "inputs">> >>,
            <<"outputs", Table("transactions_outputs_old"),
                         <<"transactions", "outputs">> >>},
           {}),
      Drop(Table("transactions_old")),
      Drop(Table("transactions_inputs_old")),
      Drop(Table("transactions_outputs_old")),
      Add("transactions", "pkey")>>

\* Faulty: subnetworks goes before its ids are copied.
v20_to_v21_drops_first ==
    <<Drop(<<"transactions", "outputs_spent">>),
      Drop(Table("utxos")),
      Add("transactions", "version"),
      Drop(Table("subnetworks")),
      CreateAs("subnetwork_compressed", {},
               {<<"subnetwork_names", Table("subnetworks"), Table("subnetwork_compressed")>>}),
      SetVersion(21)>>

\* subnetwork_compressed is a temporary table.  CALL commits in batches and is
\* one statement here: it copied everything or it did not.  Without transactions
\* it fails, as it saves a position that is NULL (vars.value is NOT NULL).
v20_to_v21 ==
    <<Drop(<<"transactions", "outputs_spent">>),
      Drop(Table("utxos")),
      Add("transactions", "version"),
      CreateAs("subnetwork_compressed", {},
               {<<"subnetwork_names", Table("subnetworks"), Table("subnetwork_compressed")>>}),
      Add("transactions", "subnetwork_id_new"),
      Copy({<<"subnetwork", <<"transactions", "subnetwork_id">>,
                            <<"transactions", "subnetwork_id_new">> >>,
            <<"subnetwork_names", Table("subnetwork_compressed"),
                                  <<"transactions", "subnetwork_id_new">> >>},
           {<<"transaction", Table("transactions")>>}),
      Drop(Table("subnetwork_compressed")),
      Drop(<<"transactions", "subnetwork_id">>),
      Rename(<<"transactions", "subnetwork_id_new">>, <<"transactions", "subnetwork_id">>),
      Drop(Table("subnetworks")),
      SetVersion(21)>>

v21_to_v22 ==
    <<Add("transactions_inputs", "compute_budget"),
      Add("transactions_inputs", "covenant_id"),
      Add("transactions_outputs", "covenant_authorizing_input"),
      Add("transactions_outputs", "covenant_id"),
      SetVersion(22)>>

v22_to_v23 ==
    <<CreateAs("blocks_transactions_dedup", {},
               {<<"block_transactions", Table("blocks_transactions"),
                                        Table("blocks_transactions_dedup")>>,
                <<"block", Table("blocks"), Table("blocks_transactions_dedup")>>}),
      CreateAs("transactions_new",
               {"subnetwork_id", "version", "inputs", "outputs", "block_hash"},
               {<<"transaction", Table("transactions"), Table("transactions_new")>>,
                <<"subnetwork", <<"transactions", "subnetwork_id">>,
                                <<"transactions_new", "subnetwork_id">> >>,
                <<"subnetwork_names", <<"transactions", "subnetwork_id">>,
                                      <<"transactions_new", "subnetwork_id">> >>,
                <<"inputs", <<"transactions", "inputs">>,
                            <<"transactions_new", "inputs">> >>,
                <<"outputs", <<"transactions", "outputs">>,
                             <<"transactions_new", "outputs">> >>,
                <<"block_transactions", Table("blocks_transactions_dedup"),
                                        <<"transactions_new", "block_hash">> >>}),
      Drop(Table("transactions")),
      Rename(Table("transactions_new"), Table("transactions")),
      Add("transactions", "pkey"),
      Drop(Table("blocks_transactions_dedup")),
      CreateAs("blocks_new", {"transaction_ids"},
               {<<"block", Table("blocks"), Table("blocks_new")>>,
                <<"block_transactions", Table("blocks_transactions"),
                                        <<"blocks_new", "transaction_ids">> >>}),
      Drop(Table("blocks")),
      Rename(Table("blocks_new"), Table("blocks")),
      Add("blocks", "pkey"),
      Drop(Table("blocks_transactions")),
      SetVersion(23)>>

-----------------------------------------------------------------------------
(***************************************************************************)
(* The versions of create_schema                                           *)
(***************************************************************************)
Migrated == 1..10 \cup 20..22

NextVersion(v) == IF v = 10 THEN 20 ELSE v + 1

\* The scripts in the order of the ladder.
Migrations ==
    <<v1_to_v2, v2_to_v3, v3_to_v4, v4_to_v5, v5_to_v6, v6_to_v7, v7_to_v8,
      v8_to_v9, v9_to_v10, v10_to_v20, v20_to_v21, v21_to_v22, v22_to_v23>>

Migration(v) == Migrations[IF v <= 10 THEN v ELSE v - 9]

\* Schema v1 as the migrations use it.  Its key of addresses_transactions, which
\* no script touches, is not known.
Version1 ==
    [objects |->
        {Table(t) : t \in {"vars", "subnetworks", "blocks", "chain_blocks",
                        "transactions", "transactions_inputs",
                        "transactions_outputs", "blocks_transactions",
                        "transactions_acceptances", "addresses_transactions"}}
        \cup Columns("blocks", {"pkey", "parents", "difficulty"})
        \cup Columns("transactions", {"pkey", "subnetwork_id"})
        \cup Columns("transactions_acceptances", {"pkey"}),
     held |->
        {<<"block", Table("blocks")>>,
         <<"parents", <<"blocks", "parents">> >>,
         <<"transaction", Table("transactions")>>,
         <<"subnetwork", <<"transactions", "subnetwork_id">> >>,
         <<"subnetwork_names", Table("subnetworks")>>,
         <<"inputs", Table("transactions_inputs")>>,
         <<"outputs", Table("transactions_outputs")>>,
         <<"block_transactions", Table("blocks_transactions")>>,
         <<"acceptance", Table("transactions_acceptances")>>,
         <<"address", Table("addresses_transactions")>>},
     version |-> 1]

\* All that up.sql makes.
Fresh == UNION {up[n].makes : n \in DOMAIN up}

\* What the queries of the current version use of it: no query names the two keys.
Current ==
    Fresh \ {<<"addresses_transactions", "pkey">>, <<"scripts_transactions", "pkey">>}

\* scripts_transactions has its key, of up.sql or, after an upgrade, of v8.
Keyed(db) ==
    \/ <<"scripts_transactions", "pkey">> \in db.objects
    \/ <<"scripts_transactions", "pkey_without_time">> \in db.objects

Facts == {h[1] : h \in Version1.held}

\* What belongs to the rows of transactions and of blocks.
TransactionFacts ==
    {"transaction", "subnetwork", "subnetwork_names", "inputs", "outputs"}
BlockFacts == {"block", "parents"}

\* Where the current version looks for each fact.
Home ==
    {<<"block", Table("blocks")>>,
     <<"parents", Table("block_parent")>>,
     <<"transaction", Table("transactions")>>,
     <<"subnetwork", <<"transactions", "subnetwork_id">> >>,
     <<"subnetwork_names", <<"transactions", "subnetwork_id">> >>,
     <<"inputs", <<"transactions", "inputs">> >>,
     <<"outputs", <<"transactions", "outputs">> >>,
     <<"block_transactions", <<"blocks", "transaction_ids">> >>,
     <<"acceptance", Table("transactions_acceptances")>>,
     <<"address", Table("addresses_transactions")>>}

=============================================================================
