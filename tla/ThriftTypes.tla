---------------------------- MODULE ThriftTypes ----------------------------
(***************************************************************************)
(* The generated Thrift code: which fields a struct has, what its reader   *)
(* makes of those it does not find, and which arguments and result each    *)
(* method has. A struct on the wire is a function from the fields that     *)
(* were written to their values. Strings other than method names are left  *)
(* out of the structs' defaults: "" stands for any default text.           *)
(***************************************************************************)
EXTENDS Naturals

CONSTANT NONE   \* Rust's None: no value in a field

-----------------------------------------------------------------------------
(* Structs: for each field the value its reader starts from. *)

InternalOptionInfo == [value |-> "", default_value |-> "", type |-> ""]

InternalExtensionInfo ==
  [name |-> "", version |-> "", sdk_version |-> "", min_sdk_version |-> ""]

ExtensionStatus == [code |-> 0, message |-> "", uuid |-> 0]

ExtensionResponse == [status |-> NONE, response |-> <<>>]

\* A writer leaves out a field that is None.
Write(v) == [f \in {g \in DOMAIN v : v[g] # NONE} |-> v[f]]

\* Mutant: the value of a new field lands in one of the struct's own.
Read_KeepsUnknown(type, w) ==
  [f \in DOMAIN type |-> IF f = "uuid" /\ "later" \in DOMAIN w THEN w["later"]
                         ELSE IF f \in DOMAIN w THEN w[f] ELSE type[f]]

\* A reader skips the fields it does not know, whatever they hold.
Read(type, w) ==
  [f \in DOMAIN type |-> IF f \in DOMAIN w THEN w[f] ELSE type[f]]

-----------------------------------------------------------------------------
(* Values that methods return. *)

WriteResponse(r) ==
  Write([r EXCEPT !.status = IF @ = NONE THEN NONE ELSE Write(@)])

ReadResponse(w) ==
  LET r == Read(ExtensionResponse, w)
  IN [r EXCEPT !.status = IF @ = NONE THEN NONE ELSE Read(ExtensionStatus, @)]

ReadValue(kind, w) ==
  CASE kind = "status"     -> Read(ExtensionStatus, w)
    [] kind = "response"   -> ReadResponse(w)
    [] kind = "extensions" -> [u \in DOMAIN w |-> Read(InternalExtensionInfo, w[u])]
    [] kind = "options"    -> [o \in DOMAIN w |-> Read(InternalOptionInfo, w[o])]

-----------------------------------------------------------------------------
(* Methods: the arguments without which a call is refused, and the kind of *)
(* the result, of which at least `unit` may be absent.                     *)

Method(args, result) == [args |-> args, result |-> result]

Ping      == Method({}, "status")
Call      == Method({"registry", "item", "request"}, "response")
Shutdown  == Method({}, "unit")
Extensions == Method({}, "extensions")
Options   == Method({}, "options")
RegisterExtension   == Method({"info", "registry"}, "status")
DeregisterExtension == Method({"uuid"}, "status")
Query           == Method({"sql"}, "response")
GetQueryColumns == Method({"sql"}, "response")

ExtensionMethods == [ping |-> Ping, call |-> Call, shutdown |-> Shutdown]

\* The extension manager's service extends the extension's.
Methods ==
  [m \in {"ping", "call", "shutdown", "extensions", "options", "registerExtension",
          "deregisterExtension", "query", "getQueryColumns"} |->
     CASE m = "extensions"          -> Extensions
       [] m = "options"             -> Options
       [] m = "registerExtension"   -> RegisterExtension
       [] m = "deregisterExtension" -> DeregisterExtension
       [] m = "query"               -> Query
       [] m = "getQueryColumns"     -> GetQueryColumns
       [] OTHER                     -> ExtensionMethods[m]]

ArgsAccepted(m, args) == Methods[m].args \subseteq DOMAIN args

HasResult(m, result) ==
  Methods[m].result = "unit" \/ "result_value" \in DOMAIN result
=============================================================================
