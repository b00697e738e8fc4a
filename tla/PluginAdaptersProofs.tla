------------------------ MODULE PluginAdaptersProofs ------------------------
(***************************************************************************)
(* Theorems about the plugins' answers, for every request.                 *)
(***************************************************************************)
EXTENDS PluginAdapters, WellFoundedInduction, TLAPS

-----------------------------------------------------------------------------
(* The WHERE clause *)

\* A non-empty set of positions has a last one.
LEMMA LastPosition ==
  ASSUME NEW n \in Nat, NEW T \in SUBSET (1 .. n), T # {}
  PROVE  \E m \in T : \A k \in T : k <= m
<1>. DEFINE R == OpToRel(<, Nat)
            U == {n - i : i \in T}
<1>1. U \subseteq Nat /\ U # {}
  <2>1. \A i \in T : n - i \in Nat
    OBVIOUS
  <2>2. \E i \in T : n - i \in U
    OBVIOUS
  <2>. HIDE DEF R
  <2>. QED
    BY <2>1, <2>2
<1>2. IsWellFoundedOn(R, Nat)
  BY NatLessThanWellFounded
<1>. HIDE DEF R
<1>3. \E x \in U : \A y \in U : ~ (<<y, x>> \in R)
  <2>. HIDE DEF U
  <2>. QED
    BY <1>1, <1>2, WFMin
<1>4. PICK x \in U : \A y \in U : ~ (<<y, x>> \in R)
  BY <1>3
<1>5. \A y \in U : ~ (y < x)
  BY <1>1, <1>4 DEF R, OpToRel
<1>6. PICK m \in T : x = n - m
  BY <1>4
<1>7. ASSUME NEW k \in T
      PROVE  k <= m
  <2>1. n - k \in U /\ k \in Int /\ m \in Int
    OBVIOUS
  <2>2. ~ (n - k < n - m)
    BY <1>5, <1>6, <2>1
  <2>. QED
    BY <2>1, <2>2
<1>. QED
  BY <1>7

\* A decoded context has constraints that an entry for the column holds.
LEMMA ConstraintsSent ==
  ASSUME NEW entries, Len(entries) \in Nat, DOMAIN entries = 1 .. Len(entries),
         DecodeContext(entries) # BAD,
         NEW c \in DOMAIN DecodeContext(entries)
  PROVE  \E e \in DOMAIN entries :
           entries[e].name = c /\ DecodeContext(entries)[c] \subseteq entries[e].list
<1>. DEFINE names == {entries[i].name : i \in DOMAIN entries}
            IsLast(name, i) == /\ i \in DOMAIN entries /\ entries[i].name = name
                               /\ \A j \in DOMAIN entries : entries[j].name = name => j <= i
            lastOf(name) == CHOOSE i \in DOMAIN entries :
                          /\ entries[i].name = name
                          /\ \A j \in DOMAIN entries : entries[j].name = name => j <= i
<1>1. DecodeContext(entries) = [name \in names |-> DecodeList(entries[lastOf(name)].list)]
  BY DEF DecodeContext
<1>2. c \in names /\ DecodeContext(entries)[c] = DecodeList(entries[lastOf(c)].list)
  BY <1>1
<1>3. \E i \in DOMAIN entries : IsLast(c, i)
  <2>. DEFINE T == {i \in DOMAIN entries : entries[i].name = c}
  <2>1. T \in SUBSET (1 .. Len(entries)) /\ T # {}
    BY <1>2
  <2>2. \E m \in T : \A k \in T : k <= m
    <3>. HIDE DEF T
    <3>. QED
      BY <2>1, LastPosition
  <2>. QED
    BY <2>2
<1>4. lastOf(c) \in DOMAIN entries /\ entries[lastOf(c)].name = c
  BY <1>3
<1>. QED
  BY <1>2, <1>4 DEF DecodeList

LEMMA MutationConstraintsSent ==
  ASSUME NEW req, ContextIsList(req), NEW c \in DOMAIN MutationContext(req)
  PROVE  \E e \in DOMAIN req["context"] :
           /\ req["context"][e].name = c
           /\ MutationContext(req)[c] \subseteq req["context"][e].list
<1>1. MutationContext(req) # NoConstraints
  BY DEF NoConstraints
<1>2. /\ Readable(req, "context") /\ DecodeContext(req["context"]) # BAD
      /\ MutationContext(req) = DecodeContext(req["context"])
  BY <1>1 DEF MutationContext
<1>. QED
  BY <1>2, ConstraintsSent DEF ContextIsList

-----------------------------------------------------------------------------
(* The callbacks' arguments *)

\* Invoke runs one callback.
LEMMA InvokedOnce ==
  ASSUME NEW fn, NEW args, NEW rows, NEW a \in Invoke(fn, args, rows), NEW i \in a.invoked
  PROVE  i.fn = fn /\ i.args = args
BY DEF Invoke, Answer, Invocation

LEMMA MutatedOnce ==
  ASSUME NEW fn, NEW args, NEW a \in Mutate(fn, args), NEW i \in a.invoked
  PROVE  i.fn = fn /\ i.args = args
<1>1. PICK r \in MutationResults :
        a = Answer(Ok(<<MutationRow(r)>>), {Invocation(fn, args, r.kind)})
  BY DEF Mutate
<1>2. i = Invocation(fn, args, r.kind)
  BY <1>1 DEF Answer
<1>3. \A o : Invocation(fn, args, o).fn = fn /\ Invocation(fn, args, o).args = args
  BY DEF Invocation
<1>. QED
  BY <1>2, <1>3, Zenon

LEMMA NoneInvoked ==
  ASSUME NEW a \in Refused \cup FailureRow \cup Columns
  PROVE  a.invoked = {}
BY DEF Refused, FailureRow, Columns, Answer

LEMMA GenuineGenerate ==
  ASSUME NEW req, ContextIsList(req), NEW a \in HandleGenerate(req), NEW i \in a.invoked
  PROVE  Genuine(req, i)
<1>1. a \notin Refused
  BY NoneInvoked
<1>2. /\ Readable(req, "context") /\ DecodeContext(req["context"]) # BAD
      /\ a \in Invoke("generate", [context |-> DecodeContext(req["context"])], <<[of |-> "row"]>>)
  BY <1>1 DEF HandleGenerate
<1>3. i.fn = "generate" /\ i.args = [context |-> DecodeContext(req["context"])]
  BY <1>2, InvokedOnce
<1>4. \A c \in DOMAIN DecodeContext(req["context"]) : \E e \in DOMAIN req["context"] :
         /\ req["context"][e].name = c
         /\ DecodeContext(req["context"])[c] \subseteq req["context"][e].list
  BY <1>2, ConstraintsSent DEF ContextIsList
<1>. QED
  BY <1>3, <1>4 DEF Genuine

LEMMA GenuineMutations ==
  ASSUME NEW req, ContextIsList(req),
         NEW a \in HandleInsert(req) \cup HandleUpdate(req) \cup HandleDelete(req),
         NEW i \in a.invoked
  PROVE  Genuine(req, i)
<1>1. a \notin FailureRow
  BY NoneInvoked
<1>2. \A c \in DOMAIN MutationContext(req) : \E e \in DOMAIN req["context"] :
         /\ req["context"][e].name = c
         /\ MutationContext(req)[c] \subseteq req["context"][e].list
  BY MutationConstraintsSent
<1>3. \A key : Optional(req, key) = NONE \/ (Readable(req, key) /\ Optional(req, key) = req[key])
  BY DEF Optional
<1>4. CASE a \in HandleInsert(req)
  <2>. DEFINE args == [values |-> req["json_value_array"], auto |-> AutoRowId(req),
                       id |-> Optional(req, "id"), context |-> MutationContext(req)]
  <2>1. Readable(req, "json_value_array") /\ a \in Mutate("insert", args)
    BY <1>1, <1>4 DEF HandleInsert
  <2>2. i.fn = "insert" /\ i.args = args
    BY <2>1, MutatedOnce
  <2>3. i.args.values = req["json_value_array"] /\ i.args.id = Optional(req, "id")
        /\ i.args.auto = AutoRowId(req) /\ i.args.context = MutationContext(req)
    BY <2>2
  <2>. QED
    BY <1>2, <1>3, <2>1, <2>2, <2>3 DEF Genuine, Readable, AutoRowId
<1>5. CASE a \in HandleUpdate(req)
  <2>. DEFINE args == [values |-> req["json_value_array"], id |-> req["id"],
                       new_id |-> Optional(req, "new_id"), context |-> MutationContext(req)]
  <2>1. /\ Readable(req, "json_value_array") /\ Readable(req, "id")
        /\ a \in Mutate("update", args)
    BY <1>1, <1>5 DEF HandleUpdate
  <2>2. i.fn = "update" /\ i.args = args
    BY <2>1, MutatedOnce
  <2>3. i.args.values = req["json_value_array"] /\ i.args.id = req["id"]
        /\ i.args.new_id = Optional(req, "new_id") /\ i.args.context = MutationContext(req)
    BY <2>2
  <2>. QED
    BY <1>2, <1>3, <2>1, <2>2, <2>3 DEF Genuine, Readable
<1>6. CASE a \in HandleDelete(req)
  <2>1. /\ Readable(req, "id")
        /\ a \in Mutate("delete", [id |-> req["id"], context |-> MutationContext(req)])
    BY <1>1, <1>6 DEF HandleDelete
  <2>2. i.fn = "delete" /\ i.args = [id |-> req["id"], context |-> MutationContext(req)]
    BY <2>1, MutatedOnce
  <2>. QED
    BY <1>2, <2>1, <2>2 DEF Genuine, Readable
<1>. QED
  BY <1>4, <1>5, <1>6

\* No callback is given what the request does not hold, whatever the plugin and
\* the request.
THEOREM GenuineCalls ==
  ASSUME NEW item, NEW req, ContextIsList(req),
         NEW a \in PluginCall(item, req), NEW i \in a.invoked
  PROVE  Genuine(req, i)
<1>1. a \notin Refused /\ a \notin Columns
  BY NoneInvoked
<1>2. CASE item = "table"
  <2>1. a \in HandleGenerate(req)
    BY <1>1, <1>2 DEF PluginCall, TableCall
  <2>. QED
    BY <2>1, GenuineGenerate
<1>3. CASE item = "writable"
  <2>1. a \in HandleGenerate(req) \/ a \in HandleInsert(req) \cup HandleUpdate(req) \cup HandleDelete(req)
    BY <1>1, <1>3 DEF PluginCall, WritableTableCall
  <2>. QED
    BY <2>1, GenuineGenerate, GenuineMutations
<1>4. CASE item = "logger"
  <2>1. i.fn = "log"
    BY <1>4 DEF PluginCall, LoggerCall, Logged, Answer, Invocation
  <2>. QED
    BY <2>1 DEF Genuine
<1>5. CASE item \in {"config", "packs"}
  <2>1. \E packs \in BOOLEAN : a \in ConfigCall(req, packs)
    BY <1>5 DEF PluginCall
  <2>2. i.fn \in {"gen_config", "gen_pack"}
    BY <1>1, <2>1, InvokedOnce DEF ConfigCall
  <2>. QED
    BY <2>2 DEF Genuine
<1>6. CASE item = "distributed"
  <2>1. a \in DistributedCall(req)
    BY <1>6 DEF PluginCall
  <2>2. CASE a \in Invoke("get_queries", NONE, <<[of |-> "queries"]>>)
    BY <2>2, InvokedOnce DEF Genuine
  <2>3. CASE /\ Readable(req, "results") /\ BatchReadable(req["results"])
             /\ a \in Invoke("write_queries", QueryResponses(req["results"]), <<>>)
    <3>1. i.fn = "write_queries" /\ i.args = QueryResponses(req["results"])
      BY <2>3, InvokedOnce
    <3>2. \A n \in DOMAIN i.args :
            /\ n \in DOMAIN req["results"].statuses
            /\ i.args[n].status = req["results"].statuses[n] /\ i.args[n].status # BAD
            /\ i.args[n].rows # BAD
      BY <2>3, <3>1 DEF QueryResponses, BatchReadable
    <3>. QED
      BY <3>1, <3>2 DEF Genuine
  <2>. QED
    BY <1>1, <2>1, <2>2, <2>3 DEF DistributedCall
<1>. QED
  BY <1>1, <1>2, <1>3, <1>4, <1>5, <1>6 DEF PluginCall

-----------------------------------------------------------------------------
(* What osquery is told *)

\* What osquery reads of a plugin's result.
Told(r) == ReadResponse(WriteResponse(PluginResponseToWire(r)))

\* A response that is written is read as it was, if it has a status.
LEMMA ResponseRoundTrip ==
  ASSUME NEW r, DOMAIN r = {"status", "response"}, r = [f \in DOMAIN r |-> r[f]],
         r.status # NONE, Write(r.status) # NONE,
         "code" \in DOMAIN r.status, r.status.code # NONE
  PROVE  /\ ReadResponse(WriteResponse(r)).status.code = r.status.code
         /\ r.response # NONE => ReadResponse(WriteResponse(r)).response = r.response
<1>. DEFINE r1 == [r EXCEPT !.status = IF @ = NONE THEN NONE ELSE Write(@)]
            w == Write(r1)
            v == Read(ExtensionResponse, w)
<1>1. r1 = [f \in {"status", "response"} |->
              IF f = "status" THEN Write(r.status) ELSE r.response]
  OBVIOUS
<1>2. "status" \in DOMAIN w /\ w["status"] = Write(r.status)
  BY <1>1 DEF Write
<1>3. r.response # NONE => ("response" \in DOMAIN w /\ w["response"] = r.response)
  BY <1>1 DEF Write
<1>4. "code" \in DOMAIN Write(r.status) /\ Write(r.status)["code"] = r.status.code
  BY DEF Write
<1>5. w = WriteResponse(r)
  BY DEF WriteResponse
<1>. HIDE DEF r1, w
<1>6. /\ v["status"] = Write(r.status)
      /\ r.response # NONE => v["response"] = r.response
      /\ DOMAIN v = {"status", "response"}
      /\ v = [f \in {"status", "response"} |-> v[f]]
  BY <1>2, <1>3 DEF Read, ExtensionResponse
<1>7. ReadResponse(w) = [v EXCEPT !["status"] = Read(ExtensionStatus, Write(r.status))]
  BY <1>6 DEF ReadResponse
<1>8. Read(ExtensionStatus, Write(r.status))["code"] = r.status.code
  BY <1>4 DEF Read, ExtensionStatus
<1>. HIDE DEF v
<1>9. /\ ReadResponse(w)["status"] = Read(ExtensionStatus, Write(r.status))
      /\ ReadResponse(w)["response"] = v["response"]
  BY <1>6, <1>7
<1>. QED
  BY <1>5, <1>6, <1>8, <1>9

LEMMA StatusWritten ==
  ASSUME NEW code \in {0, 1, 5}, NEW message \in {"OK", "text"}, NEW rows,
         NEW r, r = [status |-> [code |-> code, message |-> message, uuid |-> NONE],
                     response |-> rows]
  PROVE  /\ ReadResponse(WriteResponse(r)).status.code = code
         /\ rows # NONE => ReadResponse(WriteResponse(r)).response = rows
<1>. DEFINE status == [code |-> code, message |-> message, uuid |-> NONE]
<1>1. status # NONE /\ Write(status) # NONE /\ code # NONE
  BY NoneAssumption
<1>2. "code" \in DOMAIN status /\ status.code = code
  OBVIOUS
<1>. HIDE DEF status
<1>3. /\ DOMAIN r = {"status", "response"} /\ r = [f \in DOMAIN r |-> r[f]]
      /\ r.status = status /\ r.response = rows
  BY DEF status
<1>4. /\ ReadResponse(WriteResponse(r)).status.code = code
      /\ rows # NONE => ReadResponse(WriteResponse(r)).response = rows
  BY <1>1, <1>2, <1>3, ResponseRoundTrip
<1>. QED
  BY <1>4

LEMMA ToldOk ==
  ASSUME NEW rows, rows # NONE
  PROVE  Told(Ok(rows)).status.code = 0 /\ Told(Ok(rows)).response = rows
<1>1. PluginResponseToWire(Ok(rows)) =
        [status |-> [code |-> 0, message |-> "OK", uuid |-> NONE], response |-> rows]
  BY DEF PluginResponseToWire, Ok
<1>. QED
  BY <1>1, StatusWritten DEF Told

\* Any error but a Status error with code 0 is told as an error.
LEMMA ToldErr ==
  ASSUME NEW error, error # "blank"
  PROVE  Told(Err(error)).status.code # 0
<1>1. \E code \in {1, 5} : PluginResponseToWire(Err(error)) =
        [status |-> [code |-> code, message |-> "text", uuid |-> NONE], response |-> NONE]
  BY DEF PluginResponseToWire, Err, StatusCode
<1>2. PICK code \in {1, 5} : PluginResponseToWire(Err(error)) =
        [status |-> [code |-> code, message |-> "text", uuid |-> NONE], response |-> NONE]
  BY <1>1
<1>. DEFINE r == [status |-> [code |-> code, message |-> "text", uuid |-> NONE],
                  response |-> NONE]
<1>3. ReadResponse(WriteResponse(r)).status.code = code
  <2>1. code \in {0, 1, 5} /\ "text" \in {"OK", "text"}
    OBVIOUS
  <2>2. ASSUME NEW s, s = r PROVE ReadResponse(WriteResponse(s)).status.code = code
    BY <2>1, <2>2, StatusWritten
  <2>. QED
    BY <2>2
<1>4. Told(Err(error)).status.code = code
  <2>1. PluginResponseToWire(Err(error)) = r
    BY <1>2
  <2>. HIDE DEF r
  <2>. QED
    BY <1>3, <2>1 DEF Told
<1>. QED
  BY <1>4

\* An error is told as one.
LEMMA TruthfulErrors ==
  ASSUME NEW item, NEW req, NEW error, error # "blank", NEW invoked,
         item = "logger" \/ \A i \in invoked : i.outcome # "success"
  PROVE  Truthful(item, req, Told(Err(error)), invoked)
<1>1. ~ToldSuccess(Told(Err(error)))
  BY ToldErr DEF ToldSuccess
<1>. QED
  BY <1>1 DEF Truthful

\* Rows without a status are told as a success.
LEMMA TruthfulRows ==
  ASSUME NEW item, item # "logger", NEW req, NEW invoked,
         \A i \in invoked : i.outcome = "success", invoked # {} \/ req["action"] = "columns",
         NEW rows, rows # NONE, \A n \in DOMAIN rows : "status" \notin DOMAIN rows[n]
  PROVE  Truthful(item, req, Told(Ok(rows)), invoked)
<1>1. ToldSuccess(Told(Ok(rows)))
  BY ToldOk DEF ToldSuccess
<1>. QED
  BY <1>1 DEF Truthful

\* The row of a mutation tells what became of it.
LEMMA TruthfulRow ==
  ASSUME NEW item, item # "logger", NEW req, NEW invoked,
         NEW r \in MutationResults,
         \A i \in invoked : i.outcome = r.kind,
         r.kind = "success" => invoked # {}
  PROVE  Truthful(item, req, Told(Ok(<<MutationRow(r)>>)), invoked)
<1>. DEFINE rows == <<MutationRow(r)>>
<1>1. rows # NONE
  BY NoneAssumption
<1>2. /\ DOMAIN rows = {1} /\ "status" \in DOMAIN rows[1]
      /\ rows[1].status = "success" <=> r.kind = "success"
  BY DEF MutationRow
<1>. HIDE DEF rows
<1>3. ToldSuccess(Told(Ok(rows))) <=> r.kind = "success"
  BY <1>1, <1>2, ToldOk DEF ToldSuccess
<1>4. Truthful(item, req, Told(Ok(rows)), invoked)
  BY <1>3, Zenon DEF Truthful
<1>. QED
  BY <1>4 DEF rows

LEMMA TruthfulInvoke ==
  ASSUME NEW item, item # "logger", NEW req, NEW fn, NEW args, NEW rows, rows # NONE,
         \A n \in DOMAIN rows : "status" \notin DOMAIN rows[n],
         NEW a \in Invoke(fn, args, rows)
  PROVE  Truthful(item, req, Told(a.result), a.invoked)
<1>0. \A o : Invocation(fn, args, o).outcome = o
  BY DEF Invocation
<1>1. CASE a = Answer(Ok(rows), {Invocation(fn, args, "success")})
  <2>1. a.result = Ok(rows) /\ a.invoked = {Invocation(fn, args, "success")}
    BY <1>1 DEF Answer
  <2>. QED
    BY <1>0, <2>1, TruthfulRows
<1>2. ASSUME a = Answer(Err("blank"), {Invocation(fn, args, "blank")})
      PROVE  Truthful(item, req, Told(a.result), a.invoked)
  <2>1. a.invoked = {Invocation(fn, args, "blank")}
    BY <1>2 DEF Answer
  <2>2. a.invoked # {} /\ \A i \in a.invoked : i.outcome = "blank"
    BY <1>0, <2>1
  <2>. QED
    BY <2>2 DEF Truthful
<1>3. ASSUME NEW error, error # "blank", NEW e, e # "success",
             a = Answer(Err(error), {Invocation(fn, args, e)})
      PROVE  Truthful(item, req, Told(a.result), a.invoked)
  <2>1. a.result = Err(error) /\ a.invoked = {Invocation(fn, args, e)}
    BY <1>3 DEF Answer
  <2>. QED
    BY <1>0, <1>3, <2>1, TruthfulErrors
<1>4. \/ a = Answer(Ok(rows), {Invocation(fn, args, "success")})
      \/ a = Answer(Err("blank"), {Invocation(fn, args, "blank")})
      \/ a = Answer(Err("rejected"), {Invocation(fn, args, "rejected")})
      \/ a = Answer(Err("other"), {Invocation(fn, args, "io")})
  BY DEF Invoke, CallbackErrors, StatusCode
<1>. QED
  BY <1>1, <1>2, <1>3, <1>4

LEMMA TruthfulMutate ==
  ASSUME NEW item, item # "logger", NEW req, NEW fn, NEW args, NEW a \in Mutate(fn, args)
  PROVE  Truthful(item, req, Told(a.result), a.invoked)
<1>1. PICK r \in MutationResults :
        a = Answer(Ok(<<MutationRow(r)>>), {Invocation(fn, args, r.kind)})
  BY DEF Mutate
<1>2. /\ a.result = Ok(<<MutationRow(r)>>)
      /\ a.invoked = {Invocation(fn, args, r.kind)}
  BY <1>1 DEF Answer
<1>3. \A o : Invocation(fn, args, o).outcome = o
  BY DEF Invocation
<1>4. \A i \in a.invoked : i.outcome = r.kind
  BY <1>2, <1>3, Zenon
<1>5. a.invoked # {}
  BY <1>2
<1>. QED
  BY <1>2, <1>4, <1>5, TruthfulRow

LEMMA TruthfulRefusals ==
  ASSUME NEW item, item # "logger", NEW req,
         NEW a \in Refused \cup FailureRow
  PROVE  Truthful(item, req, Told(a.result), a.invoked)
<1>1. a.invoked = {}
  BY NoneInvoked
<1>2. CASE a \in Refused
  BY <1>1, <1>2, TruthfulErrors DEF Refused, Answer
<1>3. CASE a \in FailureRow
  <2>. DEFINE r == [kind |-> "failure", id |-> NONE]
  <2>1. r \in MutationResults /\ r.kind # "success"
    BY DEF MutationResults
  <2>2. a.result = Ok(<<MutationRow(r)>>)
    BY <1>3 DEF FailureRow, Answer
  <2>. HIDE DEF r
  <2>. QED
    BY <1>1, <2>1, <2>2, TruthfulRow
<1>. QED
  BY <1>2, <1>3

LEMMA TruthfulColumns ==
  ASSUME NEW item, item # "logger", NEW req, Action(req) = "columns", NEW a \in Columns
  PROVE  Truthful(item, req, Told(a.result), a.invoked)
<1>. DEFINE rows == <<[of |-> "column"]>>
<1>1. a.invoked = {} /\ a.result = Ok(rows)
  BY DEF Columns, Answer
<1>2. req["action"] = "columns"
  BY NoneAssumption DEF Action
<1>3. rows # NONE /\ \A n \in DOMAIN rows : "status" \notin DOMAIN rows[n]
  BY NoneAssumption
<1>. HIDE DEF rows
<1>. QED
  BY <1>1, <1>2, <1>3, TruthfulRows

LEMMA TruthfulLogger ==
  ASSUME NEW req, NEW a \in LoggerCall(req)
  PROVE  Truthful("logger", req, Told(a.result), a.invoked)
<1>. DEFINE noLines == "status" \in DOMAIN req /\ ~Readable(req, "log")
<1>1. PICK failed \in SUBSET LogEntries(req) :
        a = Answer(IF DOMAIN req \subseteq LogTypes /\ ~noLines /\ failed = {}
                   THEN Ok(<<>>) ELSE Err("other"), Logged(req, failed))
  <2>1. \E failed \in SUBSET LogEntries(req) :
        a = Answer(IF DOMAIN req \ LogTypes = {} /\ ~noLines /\ failed = {}
                   THEN Ok(<<>>) ELSE Err("other"), Logged(req, failed))
    BY Zenon DEF LoggerCall
  <2>2. DOMAIN req \ LogTypes = {} <=> DOMAIN req \subseteq LogTypes
    OBVIOUS
  <2>. QED
    BY <2>1, <2>2
<1>2. CASE ~(DOMAIN req \subseteq LogTypes /\ ~noLines /\ failed = {})
  BY <1>1, <1>2, TruthfulErrors DEF Answer
<1>3. CASE DOMAIN req \subseteq LogTypes /\ ~noLines /\ failed = {}
  <2>1. a.result = Ok(<<>>) /\ a.invoked = Logged(req, {})
    BY <1>1, <1>3 DEF Answer
  <2>2. \A e \in LogEntries(req) : Invocation("log", e, "success") \in a.invoked
    BY <2>1 DEF Logged
  <2>3. \A e \in LogEntries(req) : \E i \in a.invoked : i.args = e
    BY <2>2 DEF Invocation
  <2>4. \A i \in a.invoked : i.outcome = "success"
    <3>1. \A i \in a.invoked : \E e \in LogEntries(req) : i = Invocation("log", e, "success")
      BY <2>1 DEF Logged
    <3>2. \A e : Invocation("log", e, "success").outcome = "success"
      BY DEF Invocation
    <3>. QED
      BY <3>1, <3>2
  <2>5. \A k \in DOMAIN req \ {"log"} :
          IF k = "status" THEN /\ Readable(req, "log")
                               /\ \A n \in DOMAIN req["log"] : <<k, n>> \in LogEntries(req)
                          ELSE <<k, 0>> \in LogEntries(req)
    BY <1>3 DEF LogEntries, StatusLines
  <2>. HIDE DEF noLines
  <2>6. ASSUME NEW k \in DOMAIN req \ {"log"}
        PROVE  IF k = "status"
               THEN /\ Readable(req, "log")
                    /\ \A n \in DOMAIN req["log"] : \E i \in a.invoked : i.args = <<k, n>>
               ELSE \E i \in a.invoked : i.args = <<k, 0>>
    BY <2>3, <2>5
  <2>. QED
    BY <2>4, <2>6 DEF Truthful
<1>. QED
  BY <1>2, <1>3

LEMMA PlainRows ==
  ASSUME NEW rows, rows = <<>> \/ \E of \in {"row", "column", "config", "pack", "queries"} :
                                     rows = <<[of |-> of]>>
  PROVE  rows # NONE /\ \A n \in DOMAIN rows : "status" \notin DOMAIN rows[n]
BY NoneAssumption

LEMMA TruthfulPlain ==
  ASSUME NEW item, item # "logger", NEW req, NEW fn, NEW args, NEW rows,
         rows = <<>> \/ \E of \in {"row", "column", "config", "pack", "queries"} :
                           rows = <<[of |-> of]>>,
         NEW a \in Invoke(fn, args, rows)
  PROVE  Truthful(item, req, Told(a.result), a.invoked)
<1>1. rows # NONE /\ \A n \in DOMAIN rows : "status" \notin DOMAIN rows[n]
  BY PlainRows
<1>. QED
  BY <1>1, TruthfulInvoke

LEMMA TruthfulGenerate ==
  ASSUME NEW item, item # "logger", NEW req, NEW a \in HandleGenerate(req)
  PROVE  Truthful(item, req, Told(a.result), a.invoked)
<1>1. a \in Refused \/ \E args : a \in Invoke("generate", args, <<[of |-> "row"]>>)
  BY DEF HandleGenerate
<1>. QED
  BY <1>1, TruthfulRefusals, TruthfulPlain

LEMMA TruthfulMutations ==
  ASSUME NEW item, item # "logger", NEW req,
         NEW a \in HandleInsert(req) \cup HandleUpdate(req) \cup HandleDelete(req)
  PROVE  Truthful(item, req, Told(a.result), a.invoked)
<1>1. a \in FailureRow \/ \E fn, args : a \in Mutate(fn, args)
  <2>1. CASE a \in HandleInsert(req)
    BY <2>1, Zenon DEF HandleInsert
  <2>2. CASE a \in HandleUpdate(req)
    BY <2>2, Zenon DEF HandleUpdate
  <2>3. CASE a \in HandleDelete(req)
    BY <2>3, Zenon DEF HandleDelete
  <2>. QED
    BY <2>1, <2>2, <2>3
<1>. QED
  BY <1>1, TruthfulRefusals, TruthfulMutate

\* osquery is told what became of the callbacks, whatever the plugin, the request
\* and the callbacks' outcomes: every error of a callback reaches it as an error,
\* except a Status error whose code is 0, and every success as a success
\* (plugin_response_to_wire).
THEOREM TruthfulCalls ==
  ASSUME NEW item, NEW req, NEW a \in PluginCall(item, req)
  PROVE  Truthful(item, req, Told(a.result), a.invoked)
<1>1. CASE item = "table"
  <2>1. \/ a \in HandleGenerate(req) \/ a \in Refused
        \/ Action(req) = "columns" /\ a \in Columns
    BY <1>1 DEF PluginCall, TableCall
  <2>. QED
    BY <1>1, <2>1, TruthfulGenerate, TruthfulRefusals, TruthfulColumns
<1>2. CASE item = "writable"
  <2>1. \/ a \in HandleGenerate(req) \/ a \in Refused
        \/ a \in HandleInsert(req) \cup HandleUpdate(req) \cup HandleDelete(req)
        \/ Action(req) = "columns" /\ a \in Columns
    BY <1>2 DEF PluginCall, WritableTableCall
  <2>. QED
    BY <1>2, <2>1, TruthfulGenerate, TruthfulRefusals, TruthfulColumns, TruthfulMutations
<1>3. CASE item = "logger"
  <2>1. a \in LoggerCall(req)
    BY <1>3 DEF PluginCall
  <2>. QED
    BY <1>3, <2>1, TruthfulLogger
<1>4. CASE item \in {"config", "packs"}
  <2>1. \E packs \in BOOLEAN : a \in ConfigCall(req, packs)
    BY <1>4 DEF PluginCall
  <2>2. \/ a \in Refused
        \/ \E args : a \in Invoke("gen_config", args, <<[of |-> "config"]>>)
        \/ \E args : a \in Invoke("gen_pack", args, <<[of |-> "pack"]>>)
    BY <2>1 DEF ConfigCall
  <2>. QED
    BY <1>4, <2>2, TruthfulRefusals, TruthfulPlain
<1>5. CASE item = "distributed"
  <2>1. \/ a \in Refused
        \/ \E args : a \in Invoke("get_queries", args, <<[of |-> "queries"]>>)
        \/ \E args : a \in Invoke("write_queries", args, <<>>)
    BY <1>5 DEF PluginCall, DistributedCall
  <2>. QED
    BY <1>5, <2>1, TruthfulRefusals, TruthfulPlain
<1>6. CASE item \notin {"table", "writable", "logger", "config", "packs", "distributed"}
  <2>1. a \in Refused
    BY <1>6 DEF PluginCall
  <2>. QED
    BY <1>6, <2>1, TruthfulRefusals
<1>. QED
  BY <1>1, <1>2, <1>3, <1>4, <1>5, <1>6

-----------------------------------------------------------------------------
(* What a request sets in motion *)

\* One callback was run, a mutation if that is what the request is.
JustOne(item, req, invoked) ==
  \E fn, args, outcome :
    /\ invoked = {Invocation(fn, args, outcome)}
    /\ fn \in Changes => item = "writable" /\ Action(req) = fn
    /\ fn = "write_queries" => args = QueryResponses(req["results"])

\* A plugin that is no logger runs one callback or none.
LEMMA OneCallback ==
  ASSUME NEW item, item # "logger", NEW req, NEW a \in PluginCall(item, req),
         a.invoked # {}
  PROVE  JustOne(item, req, a.invoked)
<1>. USE DEF JustOne
<1>. DEFINE One(fn, args) == \E o : a.invoked = {Invocation(fn, args, o)}
<1>0. \A fn, args, o, result : a = Answer(result, {Invocation(fn, args, o)}) => One(fn, args)
  BY DEF Answer
<1>. HIDE DEF One
<1>1. \A fn, args, rows : a \in Invoke(fn, args, rows) => One(fn, args)
  BY <1>0 DEF Invoke
<1>2. ASSUME NEW fn, NEW args, a \in Mutate(fn, args) PROVE One(fn, args)
  <2>1. PICK r \in MutationResults :
          a = Answer(Ok(<<MutationRow(r)>>), {Invocation(fn, args, r.kind)})
    BY <1>2 DEF Mutate
  <2>. QED
    BY <1>0, <2>1, Zenon
<1>3. a \notin Refused /\ a \notin Columns /\ a \notin FailureRow
  BY NoneInvoked
<1>4. a \in HandleGenerate(req) => \E args : One("generate", args)
  BY <1>1, <1>3 DEF HandleGenerate
<1>5. CASE item = "table"
  BY <1>3, <1>4, <1>5 DEF PluginCall, TableCall, One, Changes
<1>6. CASE item = "writable"
  <2>1. a \in HandleInsert(req) => \E args : One("insert", args)
    BY <1>2, <1>3, Zenon DEF HandleInsert
  <2>2. a \in HandleUpdate(req) => \E args : One("update", args)
    BY <1>2, <1>3, Zenon DEF HandleUpdate
  <2>3. a \in HandleDelete(req) => \E args : One("delete", args)
    BY <1>2, <1>3, Zenon DEF HandleDelete
  <2>4. \/ a \in HandleGenerate(req)
        \/ Action(req) = "insert" /\ a \in HandleInsert(req)
        \/ Action(req) = "update" /\ a \in HandleUpdate(req)
        \/ Action(req) = "delete" /\ a \in HandleDelete(req)
    BY <1>3, <1>6 DEF PluginCall, WritableTableCall
  <2>5. \E fn, args : One(fn, args) /\ (fn = "generate" \/ (fn \in Changes /\ Action(req) = fn))
    BY <1>4, <2>1, <2>2, <2>3, <2>4 DEF Changes
  <2>. QED
    BY <1>6, <2>5 DEF One, Changes
<1>7. CASE item \in {"config", "packs"}
  <2>1. \E packs \in BOOLEAN : a \in ConfigCall(req, packs)
    BY <1>7 DEF PluginCall
  <2>2. \E fn, args : One(fn, args) /\ fn \in {"gen_config", "gen_pack"}
    BY <1>1, <1>3, <2>1 DEF ConfigCall
  <2>. QED
    BY <2>2 DEF One, Changes
<1>8. CASE item = "distributed"
  <2>1. a \in DistributedCall(req)
    BY <1>8 DEF PluginCall
  <2>2. \/ \E args : One("get_queries", args)
        \/ One("write_queries", QueryResponses(req["results"]))
    BY <1>1, <1>3, <2>1 DEF DistributedCall
  <2>. QED
    BY <2>2 DEF One, Changes
<1>. QED
  BY <1>3, <1>5, <1>6, <1>7, <1>8 DEF PluginCall

\* A logger tries every entry of the request.
LEMMA EveryEntry ==
  ASSUME NEW req, NEW a \in LoggerCall(req)
  PROVE  /\ \A i \in a.invoked : i.fn = "log"
         /\ \A e \in LogEntries(req) : \E i \in a.invoked : i.args = e
<1>1. PICK failed \in SUBSET LogEntries(req) :
        a.invoked = Logged(req, failed)
  BY DEF LoggerCall, Answer
<1>2. \A e, o : Invocation("log", e, o).fn = "log" /\ Invocation("log", e, o).args = e
  BY DEF Invocation
<1>3. \A i \in a.invoked : \E e, o : i = Invocation("log", e, o)
  BY <1>1 DEF Logged
<1>4. \A e \in LogEntries(req) : \E o : Invocation("log", e, o) \in a.invoked
  BY <1>1 DEF Logged
<1>. QED
  BY <1>2, <1>3, <1>4

\* Whatever the plugin, the request and the callbacks' outcomes: one mutation at
\* most and only the one that was asked for, every distributed result, every line.
THEOREM ThoroughCalls ==
  ASSUME NEW item, NEW req, NEW a \in PluginCall(item, req)
  PROVE  Thorough(item, req, a.invoked)
<1>1. CASE item = "logger"
  <2>1. a \in LoggerCall(req)
    BY <1>1 DEF PluginCall
  <2>. QED
    BY <1>1, <2>1, EveryEntry DEF Thorough, Changes
<1>2. CASE item # "logger" /\ a.invoked # {}
  <2>1. PICK fn, args, outcome :
           /\ a.invoked = {Invocation(fn, args, outcome)}
           /\ fn \in Changes => item = "writable" /\ Action(req) = fn
           /\ fn = "write_queries" => args = QueryResponses(req["results"])
    <3>1. JustOne(item, req, a.invoked)
      BY <1>2, OneCallback
    <3>. QED
      BY <3>1 DEF JustOne
  <2>2. \A i \in a.invoked : i.fn = fn /\ i.args = args
    BY <2>1 DEF Invocation
  <2>3. \A i, j \in a.invoked : i = j
    BY <2>1
  <2>4. fn = "write_queries" =>
          /\ DOMAIN args = DOMAIN req["results"].statuses
          /\ \A n \in DOMAIN args : args[n].rows = RowsOf(req["results"], n)
    BY <2>1 DEF QueryResponses
  <2>. QED
    BY <1>2, <2>1, <2>2, <2>3, <2>4 DEF Thorough
<1>3. CASE item # "logger" /\ a.invoked = {}
  BY <1>3 DEF Thorough
<1>. QED
  BY <1>1, <1>2, <1>3
=============================================================================
