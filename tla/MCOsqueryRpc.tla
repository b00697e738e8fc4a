----------------------------- MODULE MCOsqueryRpc -----------------------------
(***************************************************************************)
(* The instance of OsqueryRpc that is checked: what osquery may write, with *)
(* fields left out and fields that are new ("later"), and the requests it  *)
(* may make of each plugin.                                                *)
(***************************************************************************)
EXTENDS OsqueryRpc, TLC

OkStatus == [code |-> 0, uuid |-> 7]

Statuses ==
  {OkStatus, [code |-> 1, uuid |-> 7], [uuid |-> 7], [code |-> 0],
   [code |-> 0, uuid |-> 7, later |-> 9]}

Row == [column |-> "text"]

Responses ==
  {[status |-> OkStatus], [response |-> <<Row>>],
   [status |-> [code |-> 1], response |-> <<Row>>]} \cup
  {[status |-> OkStatus, response |-> rows, later |-> 9] :
     rows \in {<<>>, <<Row>>, <<Row, Row>>}}

\* Keyed by uuid and by name, with fields missing.
ExtensionLists == {<<>>, 7 :> [name |-> "text", later |-> 9]}
OptionLists == {<<>>, "verbose" :> [value |-> "true"]}

-----------------------------------------------------------------------------
(* Requests. Key holds an absent key, an unreadable value or a good one. *)

Key(key, value) == {<<>>, key :> BAD, key :> value}

Join(A, B) == {a @@ b : a \in A, b \in B}

Entry(name, list) == [name |-> name, affinity |-> "TEXT", list |-> list]

\* 99 is no operator of osquery; the second entry of a column replaces the
\* first.
Documents ==
  {BAD, <<>>, <<Entry("c", {2, 99})>>, <<Entry(BAD, {2})>>, <<Entry("c", BAD)>>,
   <<[Entry("c", {2}) EXCEPT !.affinity = BAD]>>,
   <<Entry("c", {2}), Entry("c", {99, 4}), Entry("d", {})>>}

ForTables(action) == Join({[action |-> action]}, {<<>>} \cup {[context |-> d] : d \in Documents})

\* Mutations with a context that cannot be read, and with one that can.
ForMutations(action) ==
  Join({[action |-> action], [action |-> action, context |-> BAD],
        [action |-> action, context |-> <<Entry("c", {2, 99})>>]},
       Join(Key("id", 3), Key("json_value_array", <<"a">>)))

Inserts ==
  Join(ForMutations("insert"), {<<>>, [auto_rowid |-> "true"], [auto_rowid |-> "no"]})
Updates == Join(ForMutations("update"), Key("new_id", 4))

Logs ==
  Join({<<>>, [snapshot |-> "text"], [string |-> "text", gossip |-> "text"]},
       {<<>>, [status |-> "true"], [log |-> <<"one", "two">>],
        [status |-> "true", log |-> BAD], [status |-> "true", log |-> <<>>],
        [status |-> "true", log |-> <<"one", "two">>]})

Configs == {[action |-> "genConfig"], [action |-> "genPack"],
            [action |-> "genPack", name |-> "n"],
            [action |-> "genPack", name |-> "n", value |-> "v"]}

\* Two queries: a has a status or not, b has rows or not.
Batches ==
  [queries : {<<>>, [b |-> <<"row">>], [a |-> NONE, b |-> BAD]},
   statuses : {<<>>, [a |-> 1], [b |-> 0], [a |-> 0, b |-> BAD]}]

Distributeds ==
  {[action |-> "getQueries"], [action |-> "writeResults"],
   [action |-> "writeResults", results |-> BAD]} \cup
  {[action |-> "writeResults", results |-> b] : b \in Batches}

Unknown == {<<>>, [action |-> "other"], [action |-> "columns"]}

\* Every request of a plugin's own kind, and one of none.
Requests ==
  [table       |-> ForTables("generate") \cup Unknown,
   writable    |-> ForTables("generate") \cup Inserts \cup Updates \cup
                   ForMutations("delete") \cup Unknown,
   logger      |-> Logs,
   config      |-> Configs \cup Unknown,
   packs       |-> Configs \cup Unknown,
   distributed |-> Distributeds \cup Unknown,
   absent      |-> Unknown]

Complete ==
  UNION {{[registry |-> "text", item |-> item, request |-> r] : r \in Requests[item]} :
           item \in DOMAIN Requests}

\* An osquery of another version: an argument missing, one that is new.
CallArguments ==
  Complete \cup
  {[registry |-> "text", item |-> "table"],
   [item |-> "table", request |-> [action |-> "columns"]],
   [registry |-> "text", item |-> "table", request |-> [action |-> "columns"], later |-> 9]}
=============================================================================
