------------------------------ MODULE Requests ------------------------------
(***************************************************************************)
(* From what is typed to what is sent: the options and arguments each      *)
(* command accepts (cmd/), the request message it builds                   *)
(* (common/client_*.go) and the payload the HTTP transport makes of it.    *)
(*                                                                         *)
(* An invocation inv is [command, args, flags]: the positional arguments,  *)
(* and the options that were given with their texts.                       *)
(***************************************************************************)
EXTENDS Naturals, Sequences, Commands, ServerTarget

CONSTANTS
    AttemptIDs,      \* the texts that are canonical UUIDs
    UnreadableFiles  \* paths of files that cannot be read, or not be used

ASSUME RequestsAssumption == "" \notin AttemptIDs \cup UnreadableFiles

----------------------------------------------------------------------------
(***************************************************************************)
(* The command line                                                        *)
(***************************************************************************)

ServerStateCommands == {"server-status", "server-halt", "server-resume"}
QueryViews == {"show", "sync"}
AllCommands == ChildCommands \cup ControlCommands \cup QueryViews \cup {"ping", "coroutine", "server-status"}

TargetFlags == {"host", "port"}
GlobalFlags == {"tls-ca", "tls-server-name", "secret-file"}
ChildFlags == {"node-path", "attempt-id"}
SelectionFlags == {"scope", "flow", "depth"}
ShowFlags == {"show-trigger", "show-parameter", "show-limit", "show-event", "show-meter"}

OwnFlags(command) ==
    CASE command = "init"     -> ChildFlags \cup {"task-id"}
      [] command = "complete" -> ChildFlags
      [] command = "abort"    -> ChildFlags \cup {"reason"}
      [] command = "event"    -> ChildFlags \cup {"source-task-path", "event-name"}
      [] command = "meter"    -> ChildFlags \cup {"source-task-path", "meter-name", "meter-value"}
      [] command \in {"run", "begin"} -> {"force"}
      [] command = "force"    -> {"recursive"}
      [] command = "free-dep" -> {"dep-type"}
      [] command = "load"     -> {"flow-type"}
      [] command = "show"     -> SelectionFlags \cup ShowFlags \cup {"show-all"}
      [] command = "sync"     -> SelectionFlags \cup {"polls", "interval"}
      [] OTHER -> {}

RequiredFlags(command) ==
    CASE command = "init"  -> {"task-id"}
      [] command = "event" -> {"event-name"}
      [] command = "meter" -> {"meter-name", "meter-value"}
      [] OTHER -> {}

ArgCountOK(command, n) ==
    CASE command \in {"requeue", "suspend", "resume", "run", "free-dep"} -> n >= 1
      [] command = "force"   -> n >= 2
      [] command = "load"    -> n = 1
      [] command = "replace" -> n = 2
      [] command = "begin"   -> n <= 1
      [] command \in ServerStateCommands -> n = 0
      [] OTHER -> TRUE

\* cobra: an unknown option, a missing one or a wrong number of arguments.
UsageError(inv) ==
    \/ ~(DOMAIN inv.flags \subseteq TargetFlags \cup GlobalFlags \cup OwnFlags(inv.command))
    \/ ~(RequiredFlags(inv.command) \subseteq DOMAIN inv.flags)
    \/ ~ArgCountOK(inv.command, Len(inv.args))

FlagOr(inv, flag, default) == IF flag \in DOMAIN inv.flags THEN inv.flags[flag] ELSE default
Text(inv, flag) == FlagOr(inv, flag, "")
IsOn(inv, flag) == FlagOr(inv, flag, "false") = "true"

----------------------------------------------------------------------------
(***************************************************************************)
(* Child commands                                                          *)
(***************************************************************************)

NodePath(inv, env) == FirstOf(<<Text(inv, "node-path"), env.name>>, Absent)
AttemptID(inv, env) == FirstOf(<<Text(inv, "attempt-id"), env.attempt>>, Absent)
SourceTaskPath(inv, env) ==
    FirstOf(<<Text(inv, "source-task-path"), env.name, NodePath(inv, env)>>, Absent)

ValidAttemptID(id) == id \in AttemptIDs

ChildOptions(inv, env, source) ==
    [node_path |-> NodePath(inv, env), attempt_id |-> AttemptID(inv, env), source_task_path |-> source]

----------------------------------------------------------------------------
(***************************************************************************)
(* What a command checks by itself                                         *)
(***************************************************************************)

ForceStates ==
    <<"unknown", "complete", "queued", "submitted", "active", "aborted", "clear", "set">>
DepTypes == <<"all", "trigger", "time">>

Names(enum) == {enum[i] : i \in DOMAIN enum}
NumberOf(enum, name) == (CHOOSE i \in DOMAIN enum : enum[i] = name) - 1

Readable(path) == path \notin UnreadableFiles
DepType(inv) == FlagOr(inv, "dep-type", "all")

\* Before the connection is opened.
ArgumentsOK(inv) ==
    CASE inv.command = "force"    -> inv.args[1] \in Names(ForceStates)
      [] inv.command = "free-dep" -> DepType(inv) \in Names(DepTypes)
      [] inv.command = "load"     -> Readable(inv.args[1])
      [] inv.command = "replace"  -> Readable(inv.args[2])
      [] inv.command = "sync"     -> FlagOr(inv, "polls", "1") # "0" /\ FlagOr(inv, "interval", "1s") # "-1s"
      [] OTHER -> TRUE

\* On the open connection: at most one of scope and flow, a path, a depth.
SelectionOK(inv) ==
    inv.command \in QueryViews =>
        /\ Text(inv, "scope") = "" \/ Text(inv, "flow") = ""
        /\ Text(inv, "scope") # "not a path" /\ Text(inv, "depth") # "-1"

----------------------------------------------------------------------------
(***************************************************************************)
(* The request message                                                     *)
(***************************************************************************)

Content(path) == <<"content of", path>>

\* An absent depth is no depth, and not depth 0.
Selection(inv) ==
    [scope |-> Text(inv, "scope"), flow |-> Text(inv, "flow"), depth |-> Text(inv, "depth")]
ShowGroups(inv) == IF IsOn(inv, "show-all") THEN ShowFlags ELSE {f \in ShowFlags : IsOn(inv, f)}

ChildMessage(inv, env) ==
    CASE inv.command = "init" ->
            [child_options |-> ChildOptions(inv, env, ""), task_id |-> Text(inv, "task-id")]
      [] inv.command = "complete" ->
            [child_options |-> ChildOptions(inv, env, "")]
      [] inv.command = "abort" ->
            [child_options |-> ChildOptions(inv, env, ""), reason |-> Text(inv, "reason")]
      [] inv.command = "event" ->
            [child_options |-> ChildOptions(inv, env, SourceTaskPath(inv, env)),
             event_name |-> Text(inv, "event-name")]
      [] inv.command = "meter" ->
            [child_options |-> ChildOptions(inv, env, SourceTaskPath(inv, env)),
             meter_name |-> Text(inv, "meter-name"), meter_value |-> Text(inv, "meter-value")]

NodeMessage(inv) ==
    CASE inv.command \in {"requeue", "suspend", "resume"} -> [node_path |-> inv.args]
      [] inv.command = "run" -> [node_path |-> inv.args, force |-> IsOn(inv, "force")]
      [] inv.command = "force" ->
            [state |-> NumberOf(ForceStates, inv.args[1]), path |-> Tail(inv.args),
             recursive |-> FlagOr(inv, "recursive", "true") = "true"]
      [] inv.command = "free-dep" -> [dep_type |-> NumberOf(DepTypes, DepType(inv)), path |-> inv.args]

\* An omitted flow name of begin is "", which means every flow.
FlowMessage(inv) ==
    CASE inv.command = "load" ->
            [flow_type |-> FlagOr(inv, "flow-type", "json"), flow |-> Content(inv.args[1])]
      [] inv.command = "begin" ->
            [flow_name |-> IF inv.args = <<>> THEN "" ELSE inv.args[1], force |-> IsOn(inv, "force")]
      [] inv.command = "replace" -> [target_path |-> inv.args[1], flow |-> Content(inv.args[2])]

\* show and sync start by asking for the pages of their selection; the groups are
\* what show asks of each node afterwards (DetailRead).
Message(inv, env) ==
    CASE inv.command \in ChildCommands -> ChildMessage(inv, env)
      [] inv.command = "show" -> [selection |-> Selection(inv), groups |-> ShowGroups(inv)]
      [] inv.command = "sync" -> [selection |-> Selection(inv), groups |-> {}]
      [] inv.command \in {"load", "begin", "replace"} -> FlowMessage(inv)
      [] inv.command \in BatchCommands \ {"begin"} -> NodeMessage(inv)
      [] OTHER -> [nothing |-> TRUE]

----------------------------------------------------------------------------
(***************************************************************************)
(* The HTTP payload                                                        *)
(***************************************************************************)

Base64(bytes) == <<"base64 of", bytes>>
FromBase64(text) == text[2]

\* Mutant: the attempt is forgotten.
ChildPayloadOfPath == {"node_path"}

ChildPayload == {"node_path", "attempt_id"}

PayloadFields(command) ==
    CASE command = "init"     -> ChildPayload \cup {"task_id"}
      [] command = "complete" -> ChildPayload
      [] command = "abort"    -> ChildPayload \cup {"reason"}
      [] command = "event"    -> ChildPayload \cup {"source_task_path", "event_name"}
      [] command = "meter"    -> ChildPayload \cup {"source_task_path", "meter_name", "meter_value"}
      [] command \in {"requeue", "suspend", "resume"} -> {"node_paths"}
      [] command = "run"      -> {"node_paths", "force"}
      [] command = "force"    -> {"paths", "state", "recursive"}
      [] command = "free-dep" -> {"paths", "dep_type"}
      [] command = "load"     -> {"flow_type", "flow_bytes"}
      [] command = "replace"  -> {"target_path", "flow_bytes"}
      [] command = "begin"    -> {"flow_name", "force"}
      [] OTHER -> {}

\* The wrapper of the child options is flattened, lists of paths are renamed,
\* enumerations travel as their names and file contents in base64.
Payload(command, m) ==
    [f \in PayloadFields(command) |->
        CASE f \in {"node_path", "attempt_id", "source_task_path"} -> m.child_options[f]
          [] f = "node_paths" -> m.node_path
          [] f = "paths"      -> m.path
          [] f = "state"      -> ForceStates[m.state + 1]
          [] f = "dep_type"   -> DepTypes[m.dep_type + 1]
          [] f = "flow_bytes" -> Base64(m.flow)
          [] OTHER -> m[f]]

\* The request as it goes out; the documents of show and sync are the same on
\* both transports.
Body(command, transport, m) ==
    IF transport = "http" /\ command \notin QueryViews THEN Payload(command, m) ELSE m

\* The server's reading of a payload: a field that is left out has its default.
Child(p) ==
    [node_path |-> p.node_path, attempt_id |-> p.attempt_id,
     source_task_path |-> IF "source_task_path" \in DOMAIN p THEN p.source_task_path ELSE ""]

ReadAs(m, p, f) ==
    CASE f = "child_options" -> {"node_path", "attempt_id"} \subseteq DOMAIN p /\ m[f] = Child(p)
      [] f = "node_path" -> "node_paths" \in DOMAIN p /\ m[f] = p.node_paths
      [] f = "path"      -> "paths" \in DOMAIN p /\ m[f] = p.paths
      [] f = "state"     -> "state" \in DOMAIN p /\ m[f] = NumberOf(ForceStates, p.state)
      [] f = "dep_type"  -> "dep_type" \in DOMAIN p /\ m[f] = NumberOf(DepTypes, p.dep_type)
      [] f = "flow"      -> "flow_bytes" \in DOMAIN p /\ m[f] = FromBase64(p.flow_bytes)
      [] f = "nothing"   -> p = <<>>
      [] OTHER -> f \in DOMAIN p /\ m[f] = p[f]

SameRequest(m, p) == \A f \in DOMAIN m : ReadAs(m, p, f)
=============================================================================
