--------------------------- MODULE PluginAdapters ---------------------------
(***************************************************************************)
(* What the plugins of this crate make of a request: which of the          *)
(* embedding program's callbacks they invoke, with which arguments, and    *)
(* what they answer for each outcome. A plugin is an operator from a       *)
(* request to its possible answers; the callbacks' outcomes are the choice.*)
(*                                                                         *)
(* A request is a function from keys to values. A value that its parser    *)
(* rejects (bad JSON, a number that is none, another type) is BAD; a text  *)
(* nobody parses is any string.                                            *)
(***************************************************************************)
EXTENDS ThriftTypes, Sequences

CONSTANT BAD   \* a text that does not parse

Readable(req, key) == key \in DOMAIN req /\ req[key] # BAD

\* An Option argument: None when the key is absent or does not parse.
Optional(req, key) == IF Readable(req, key) THEN req[key] ELSE NONE

Action(req) == IF "action" \in DOMAIN req THEN req["action"] ELSE NONE

Ok(value) == [ok |-> TRUE, value |-> value]
Err(error) == [ok |-> FALSE, error |-> error]

Invocation(fn, args, outcome) == [fn |-> fn, args |-> args, outcome |-> outcome]
Answer(result, invoked) == [result |-> result, invoked |-> invoked]

Refused == {Answer(Err("other"), {})}

\* An Error::Status is the implementor's own, with any code: 5, or 0, the code
\* of success. Other errors are wrapped as text.
StatusCode == [rejected |-> 5, blank |-> 0]
CallbackErrors == DOMAIN StatusCode \cup {"io"}

Invoke(fn, args, rows) ==
  {Answer(Ok(rows), {Invocation(fn, args, "success")})} \cup
  {Answer(Err(IF e \in DOMAIN StatusCode THEN e ELSE "other"), {Invocation(fn, args, e)}) :
     e \in CallbackErrors}

-----------------------------------------------------------------------------
(* The WHERE clause osquery sends along *)

Operators == {1, 2, 3, 4, 8, 16, 32} \cup 64..74

\* Constraints are told apart by their operators alone. One that does not
\* parse is dropped, the others are kept.
DecodeList(list) == list \cap Operators

\* Anything else that does not parse rejects the whole context. Of two
\* entries for a column the later one counts.
DecodeContext(entries) ==
  IF \/ entries = BAD
     \/ \E i \in DOMAIN entries :
          entries[i].name = BAD \/ entries[i].affinity = BAD \/ entries[i].list = BAD
  THEN BAD
  ELSE [c \in {entries[i].name : i \in DOMAIN entries} |->
          LET last == CHOOSE i \in DOMAIN entries :
                        /\ entries[i].name = c
                        /\ \A j \in DOMAIN entries : entries[j].name = c => j <= i
          IN DecodeList(entries[last].list)]

-----------------------------------------------------------------------------
(* Tables *)

\* SELECT needs a context that parses.
HandleGenerate(req) ==
  IF ~Readable(req, "context") \/ DecodeContext(req["context"]) = BAD
  THEN Refused
  ELSE Invoke("generate", [context |-> DecodeContext(req["context"])], <<[of |-> "row"]>>)

NoConstraints == [c \in {} |-> {}]

\* A mutation takes a context it cannot read for an empty one.
MutationContext(req) ==
  IF ~Readable(req, "context") \/ DecodeContext(req["context"]) = BAD
  THEN NoConstraints ELSE DecodeContext(req["context"])

\* What insert, update and delete may return: a result, or an error.
MutationResults ==
  [kind : {"success"}, id : {NONE, 7}] \cup
  [kind : {"readonly", "failure", "constraint", "error"}, id : {NONE}]

\* Mutant: an error of the callback is reported as a success.
MutationRow_ErrorsSucceed(r) ==
  [status |-> IF r.kind = "error" THEN "success" ELSE r.kind, id |-> r.id]

MutationRow(r) ==
  [status |-> IF r.kind = "error" THEN "failure" ELSE r.kind, id |-> r.id]

\* All outcomes of a mutation travel as a row under a successful status.
FailureRow == {Answer(Ok(<<MutationRow([kind |-> "failure", id |-> NONE])>>), {})}

Mutate(fn, args) ==
  {Answer(Ok(<<MutationRow(r)>>), {Invocation(fn, args, r.kind)}) :
     r \in MutationResults}

\* "true" stands for the word in upper and lower case.
AutoRowId(req) == "auto_rowid" \in DOMAIN req /\ req["auto_rowid"] = "true"

\* Mutant: an array of values that does not parse is taken for an empty one.
HandleInsert_EmptyValues(req) ==
  Mutate("insert", [values |-> IF Readable(req, "json_value_array")
                               THEN req["json_value_array"] ELSE <<>>,
                    auto |-> FALSE, id |-> Optional(req, "id"),
                    context |-> MutationContext(req)])

HandleInsert(req) ==
  IF ~Readable(req, "json_value_array") THEN FailureRow
  ELSE Mutate("insert", [values |-> req["json_value_array"],
                         auto |-> AutoRowId(req),
                         id |-> Optional(req, "id"),
                         context |-> MutationContext(req)])

HandleUpdate(req) ==
  IF ~Readable(req, "id") \/ ~Readable(req, "json_value_array") THEN FailureRow
  ELSE Mutate("update", [values |-> req["json_value_array"],
                         id |-> req["id"], new_id |-> Optional(req, "new_id"),
                         context |-> MutationContext(req)])

HandleDelete(req) ==
  IF ~Readable(req, "id") THEN FailureRow
  ELSE Mutate("delete", [id |-> req["id"], context |-> MutationContext(req)])

Columns == {Answer(Ok(<<[of |-> "column"]>>), {})}

TableCall(req) ==
  CASE Action(req) = "generate" -> HandleGenerate(req)
    [] Action(req) = "columns"  -> Columns
    [] OTHER                    -> Refused

WritableTableCall(req) ==
  CASE Action(req) = "generate" -> HandleGenerate(req)
    [] Action(req) = "columns"  -> Columns
    [] Action(req) = "insert"   -> HandleInsert(req)
    [] Action(req) = "update"   -> HandleUpdate(req)
    [] Action(req) = "delete"   -> HandleDelete(req)
    [] OTHER                    -> Refused

-----------------------------------------------------------------------------
(* Logger: every key of the request is a log type; the lines of a status   *)
(* log are under the key "log".                                            *)

LogTypes == {"health", "init", "snapshot", "status", "string", "log"}

StatusLines(req) ==
  IF "status" \in DOMAIN req /\ Readable(req, "log") THEN DOMAIN req["log"] ELSE {}

LogEntries(req) ==
  {<<k, 0>> : k \in (DOMAIN req \cap LogTypes) \ {"status", "log"}} \cup
  {<<"status", i>> : i \in StatusLines(req)}

\* Mutant: the first entry that fails ends the request.
LoggerCall_StopsAtError(req) ==
  {Answer(IF DOMAIN req \subseteq LogTypes /\ failed = {} THEN Ok(<<>>) ELSE Err("other"),
          {Invocation("log", e, "success") : e \in LogEntries(req) \ failed}) :
     failed \in SUBSET LogEntries(req)}

Logged(req, failed) ==
  {Invocation("log", e, IF e \in failed THEN "io" ELSE "success") : e \in LogEntries(req)}

\* Each entry is tried whatever became of the others; one error fails the
\* reply.
LoggerCall(req) ==
  LET unknown == DOMAIN req \ LogTypes
      noLines == "status" \in DOMAIN req /\ ~Readable(req, "log")
  IN {Answer(IF unknown = {} /\ ~noLines /\ failed = {} THEN Ok(<<>>) ELSE Err("other"),
             Logged(req, failed)) :
        failed \in SUBSET LogEntries(req)}

-----------------------------------------------------------------------------
(* Configuration *)

ConfigCall(req, packs) ==
  CASE Action(req) = "genConfig" -> Invoke("gen_config", NONE, <<[of |-> "config"]>>)
    [] Action(req) = "genPack" /\ {"name", "value"} \subseteq DOMAIN req /\ packs ->
         Invoke("gen_pack", <<req["name"], req["value"]>>, <<[of |-> "pack"]>>)
    [] OTHER -> Refused

-----------------------------------------------------------------------------
(* Distributed queries *)

\* Rows of a query: an empty text or nothing at all is no rows (NONE).
RowsOf(results, n) ==
  IF n \in DOMAIN results.queries /\ results.queries[n] # NONE
  THEN results.queries[n] ELSE <<>>

\* One unreadable status, or unreadable rows of a query that has a status,
\* reject the whole batch. A result without a status is dropped.
BatchReadable(results) ==
  \A n \in DOMAIN results.statuses :
    results.statuses[n] # BAD /\ RowsOf(results, n) # BAD

\* Mutant: responses are made for the results, whatever has a status.
QueryResponses_OfQueries(results) ==
  [n \in DOMAIN results.queries |->
     [status |-> 0, rows |-> RowsOf(results, n)]]

\* Mutant: a query that has no rows gets no response.
QueryResponses_OfBoth(results) ==
  [n \in DOMAIN results.statuses \cap DOMAIN results.queries |->
     [status |-> results.statuses[n], rows |-> RowsOf(results, n)]]

QueryResponses(results) ==
  [n \in DOMAIN results.statuses |->
     [status |-> results.statuses[n], rows |-> RowsOf(results, n)]]

DistributedCall(req) ==
  CASE Action(req) = "getQueries" -> Invoke("get_queries", NONE, <<[of |-> "queries"]>>)
    [] /\ Action(req) = "writeResults"
       /\ Readable(req, "results")
       /\ BatchReadable(req["results"]) ->
         Invoke("write_queries", QueryResponses(req["results"]), <<>>)
    [] OTHER -> Refused

-----------------------------------------------------------------------------
(* The plugin that an extension registered under a name *)

PluginCall(item, req) ==
  CASE item = "table"       -> TableCall(req)
    [] item = "writable"    -> WritableTableCall(req)
    [] item = "logger"      -> LoggerCall(req)
    [] item = "config"      -> ConfigCall(req, FALSE)
    [] item = "packs"       -> ConfigCall(req, TRUE)
    [] item = "distributed" -> DistributedCall(req)
    [] OTHER                -> Refused

\* The wire form of a plugin's result: the status of a Status error is the
\* implementor's, whatever it is; any other error becomes status 1.
PluginResponseToWire(result) ==
  IF result.ok
  THEN [status |-> [code |-> 0, message |-> "OK", uuid |-> NONE], response |-> result.value]
  ELSE [status |-> [code |-> IF result.error \in DOMAIN StatusCode
                             THEN StatusCode[result.error] ELSE 1,
                    message |-> "text", uuid |-> NONE],
        response |-> NONE]

-----------------------------------------------------------------------------
(* What an answer should be *)

\* Whether osquery takes a response for a success: the row of a mutation says
\* what became of it.
ToldSuccess(response) ==
  /\ response.status.code = 0
  /\ \A i \in DOMAIN response.response :
       "status" \in DOMAIN response.response[i] => response.response[i].status = "success"

\* The response says what became of the callbacks. The one error that is told
\* as a success is the implementor's own Error::Status with the code 0.
Truthful(item, req, response, invoked) ==
  IF ToldSuccess(response)
  THEN /\ \A i \in invoked : i.outcome \in {"success", "blank"}
       /\ item = "logger" =>
            \A k \in DOMAIN req \ {"log"} :
              IF k = "status"
              THEN /\ Readable(req, "log")
                   /\ \A n \in DOMAIN req["log"] : \E i \in invoked : i.args = <<k, n>>
              ELSE \E i \in invoked : i.args = <<k, 0>>
       /\ item # "logger" /\ invoked = {} => req["action"] = "columns"
  ELSE item = "logger" \/ \A i \in invoked : i.outcome # "success"

\* The arguments of a callback are the request's.
Genuine(req, i) ==
  LET Sent(key, v) == key \in DOMAIN req /\ req[key] = v /\ v # BAD
  IN /\ i.fn \in {"insert", "update"} => Sent("json_value_array", i.args.values)
     /\ i.fn \in {"update", "delete"} => Sent("id", i.args.id)
     /\ i.fn = "insert" => i.args.id = NONE \/ Sent("id", i.args.id)
     /\ i.fn = "insert" /\ i.args.auto =>
          "auto_rowid" \in DOMAIN req /\ req["auto_rowid"] = "true"
     /\ i.fn = "update" => i.args.new_id = NONE \/ Sent("new_id", i.args.new_id)
     /\ i.fn \in {"generate", "insert", "update", "delete"} =>
          \A c \in DOMAIN i.args.context : \E e \in DOMAIN req["context"] :
            /\ req["context"][e].name = c
            /\ i.args.context[c] \subseteq req["context"][e].list
     /\ i.fn = "write_queries" =>
          \A n \in DOMAIN i.args :
            /\ n \in DOMAIN req["results"].statuses
            /\ i.args[n].status = req["results"].statuses[n] /\ i.args[n].status # BAD
            /\ i.args[n].rows # BAD

\* A request is carried out whole and once: a mutation by one callback of its
\* name, and by none in a plugin that has none; a batch of distributed results
\* with every result that has a status, rows and all; a log to its last line.
Changes == {"insert", "update", "delete"}

Thorough(item, req, invoked) ==
  /\ item # "logger" => \A i, j \in invoked : i = j
  /\ \A i \in invoked : i.fn \in Changes => item = "writable" /\ Action(req) = i.fn
  /\ \A i \in invoked : i.fn = "write_queries" =>
       /\ DOMAIN i.args = DOMAIN req["results"].statuses
       /\ \A n \in DOMAIN i.args : i.args[n].rows = RowsOf(req["results"], n)
  /\ item = "logger" => \A e \in LogEntries(req) : \E i \in invoked : i.args = e

\* What the theorems assume of a request.
ContextIsList(req) ==
  Readable(req, "context") =>
    Len(req["context"]) \in Nat /\ DOMAIN req["context"] = 1 .. Len(req["context"])

\* NONE is no other value. The rows of all answers are listed.
ASSUME NoneAssumption ==
  /\ NONE \notin {0, 1, 5} /\ NONE \notin {"OK", "text", "columns"}
  /\ \A code \in {0, 1, 5}, message \in {"OK", "text"} :
       LET status == [code |-> code, message |-> message, uuid |-> NONE]
       IN status # NONE /\ Write(status) # NONE
  /\ <<>> # NONE
  /\ \A of \in {"row", "column", "config", "pack", "queries"} : <<[of |-> of]>> # NONE
  /\ \A r \in MutationResults : <<MutationRow(r)>> # NONE
=============================================================================
