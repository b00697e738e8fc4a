--------------------------- MODULE PluginDispatch ---------------------------
(***************************************************************************)
(* The plugin registry of an extension server and the two parties that     *)
(* take its locks: connection tasks dispatching `call` requests            *)
(* (ExtensionServerHandler::handle_call) and the owner thread notifying    *)
(* every plugin during teardown (the registry loop of                      *)
(* ExtensionManagerServer::shutdown).                                      *)
(*                                                                         *)
(* Locks are not variables of their own: who holds the registry mutex or a *)
(* plugin mutex follows from where each thread is.                         *)
(***************************************************************************)
EXTENDS Naturals, FiniteSets

CONSTANTS
  Plugins,    \* plugin objects an extension may register
  Key,        \* Key[p]: the <<registry, name>> pair p registers under
  Callers,    \* connection tasks that carry osquery's `call` requests
  NONE        \* "no plugin"

ASSUME DispatchAssumption ==
  /\ NONE \notin Plugins
  /\ DOMAIN Key = Plugins

VARIABLES
  entries,    \* the registry: plugins registered so far
  callerPc,   \* where each connection task is inside handle_call
  target,     \* the plugin a connection task was asked for, then found
  poisoned,   \* plugins whose mutex a panicking call poisoned
  todo,       \* plugins the teardown loop has still to visit
  current,    \* the plugin whose mutex the teardown loop is waiting for
  hooks,      \* how often each plugin's shutdown() was invoked
  registryPoisoned  \* a hook panicked while the loop held the registry mutex

dispatchVars == <<entries, callerPc, target, poisoned, todo, current, hooks,
                  registryPoisoned>>

CallerStates == {"idle", "lookup", "lock", "calling"}

DispatchTypeOK ==
  /\ entries \subseteq Plugins
  /\ callerPc \in [Callers -> CallerStates]
  /\ target \in [Callers -> Plugins \cup {NONE}]
  /\ \A c \in Callers : callerPc[c] = "idle" <=> target[c] = NONE
  /\ poisoned \subseteq Plugins
  /\ todo \subseteq Plugins
  /\ current \in Plugins \cup {NONE}
  /\ hooks \in [Plugins -> Nat]
  /\ registryPoisoned \in BOOLEAN

DispatchInit ==
  /\ entries = {}
  /\ callerPc = [c \in Callers |-> "idle"]
  /\ target = [c \in Callers |-> NONE]
  /\ poisoned = {}
  /\ todo = {}
  /\ current = NONE
  /\ hooks = [p \in Plugins |-> 0]
  /\ registryPoisoned = FALSE

-----------------------------------------------------------------------------
(* Locks *)

Calling(c, p) == callerPc[c] = "calling" /\ target[c] = p

\* A plugin's mutex is held for the whole of plugin.call(); the teardown
\* loop holds it only for the atomic step that notifies the plugin.
PluginFree(p) == \A c \in Callers : ~Calling(c, p)

\* The teardown loop keeps the registry mutex until its last plugin is done.
Sweeping == todo # {} \/ current # NONE
RegistryFree == ~Sweeping

-----------------------------------------------------------------------------
(* Registration, before the server runs *)

Taken(reg, p) == \E q \in reg : Key[q] = Key[p]

\* HashMap::insert: what was there under the key is gone.
Insert(reg, p) == {q \in reg : Key[q] # Key[p]} \cup {p}

RegisterPlugin(p) ==
  /\ ~registryPoisoned /\ ~Taken(entries, p)
  /\ entries' = Insert(entries, p)
  /\ UNCHANGED <<callerPc, target, poisoned, todo, current, hooks, registryPoisoned>>

\* A batch stops at its first duplicate and keeps what it inserted before it.
RegisterPlugins(p, q) ==
  /\ ~registryPoisoned /\ ~Taken(entries, p)
  /\ LET one == Insert(entries, p)
     IN entries' = IF Taken(one, q) THEN one ELSE Insert(one, q)
  /\ UNCHANGED <<callerPc, target, poisoned, todo, current, hooks, registryPoisoned>>

-----------------------------------------------------------------------------
(* handle_call *)

BeginCall(c, p) ==
  /\ callerPc[c] = "idle"
  /\ callerPc' = [callerPc EXCEPT ![c] = "lookup"]
  /\ target' = [target EXCEPT ![c] = p]
  /\ UNCHANGED <<entries, poisoned, todo, current, hooks, registryPoisoned>>

\* Phase 1: under the registry mutex, find the plugin that holds the key asked
\* for or answer "unknown"; a poisoned registry is reported as an application
\* error.
Lookup(c) ==
  /\ callerPc[c] = "lookup"
  /\ RegistryFree
  /\ \/ \E q \in entries :
          /\ ~registryPoisoned
          /\ Key[q] = Key[target[c]]
          /\ callerPc' = [callerPc EXCEPT ![c] = "lock"]
          /\ target' = [target EXCEPT ![c] = q]
     \/ /\ registryPoisoned \/ ~Taken(entries, target[c])
        /\ callerPc' = [callerPc EXCEPT ![c] = "idle"]
        /\ target' = [target EXCEPT ![c] = NONE]
  /\ UNCHANGED <<entries, poisoned, todo, current, hooks, registryPoisoned>>

\* Mutant: a poisoned mutex is retried instead of being reported.
LockPlugin_RetriesPoisoned(c) ==
  /\ callerPc[c] = "lock"
  /\ PluginFree(target[c])
  /\ target[c] \notin poisoned
  /\ callerPc' = [callerPc EXCEPT ![c] = "calling"]
  /\ UNCHANGED <<entries, target, poisoned, todo, current, hooks, registryPoisoned>>

\* Phase 2: take the plugin's mutex and run the call. A poisoned mutex is
\* reported to osquery as an application error.
LockPlugin(c) ==
  /\ callerPc[c] = "lock"
  /\ PluginFree(target[c])
  /\ IF target[c] \in poisoned
     THEN /\ callerPc' = [callerPc EXCEPT ![c] = "idle"]
          /\ target' = [target EXCEPT ![c] = NONE]
     ELSE /\ callerPc' = [callerPc EXCEPT ![c] = "calling"]
          /\ UNCHANGED target
  /\ UNCHANGED <<entries, poisoned, todo, current, hooks, registryPoisoned>>

\* plugin.call() returns, or panics: the panic unwinds the connection task
\* and poisons the mutex.
EndCall(c) ==
  /\ callerPc[c] = "calling"
  /\ callerPc' = [callerPc EXCEPT ![c] = "idle"]
  /\ target' = [target EXCEPT ![c] = NONE]
  /\ UNCHANGED <<entries, todo, current, hooks, registryPoisoned>>

ReturnCall(c) == EndCall(c) /\ UNCHANGED poisoned

PanicCall(c) == EndCall(c) /\ poisoned' = poisoned \cup {target[c]}

-----------------------------------------------------------------------------
(* The plugin loop of shutdown() *)

\* A poisoned registry is not looped over.
StartSweep ==
  /\ RegistryFree
  /\ todo' = IF registryPoisoned THEN {} ELSE entries
  /\ UNCHANGED <<entries, callerPc, target, poisoned, current, hooks, registryPoisoned>>

\* The hash map yields the plugins in an arbitrary order, one at a time.
SweepNext(p) ==
  /\ current = NONE
  /\ p \in todo
  /\ current' = p
  /\ todo' = todo \ {p}
  /\ UNCHANGED <<entries, callerPc, target, poisoned, hooks, registryPoisoned>>

\* Mutant: try_lock, so that a busy plugin is passed over.
NotifyPlugin_SkipsBusy ==
  /\ current # NONE
  /\ hooks' = IF current \in poisoned \/ ~PluginFree(current)
              THEN hooks ELSE [hooks EXCEPT ![current] = @ + 1]
  /\ current' = NONE
  /\ UNCHANGED <<entries, callerPc, target, poisoned, todo, registryPoisoned>>

\* Mutant: a poisoned plugin is put off to be tried again.
NotifyPlugin_PutsOff ==
  /\ current # NONE
  /\ PluginFree(current)
  /\ IF current \in poisoned
     THEN todo' = todo \cup {current} /\ UNCHANGED hooks
     ELSE hooks' = [hooks EXCEPT ![current] = @ + 1] /\ UNCHANGED todo
  /\ current' = NONE
  /\ UNCHANGED <<entries, callerPc, target, poisoned, registryPoisoned>>

\* Blocks while a call runs in the plugin; a poisoned plugin is passed over.
NotifyPlugin ==
  /\ current # NONE
  /\ PluginFree(current)
  /\ hooks' = IF current \in poisoned
              THEN hooks ELSE [hooks EXCEPT ![current] = @ + 1]
  /\ current' = NONE
  /\ UNCHANGED <<entries, callerPc, target, poisoned, todo, registryPoisoned>>

\* The hook panics: the unwinding drops both guards and so poisons both
\* mutexes, and the rest of the loop is lost.
NotifyPanics ==
  /\ current # NONE
  /\ PluginFree(current)
  /\ current \notin poisoned
  /\ hooks' = [hooks EXCEPT ![current] = @ + 1]
  /\ poisoned' = poisoned \cup {current}
  /\ registryPoisoned' = TRUE
  /\ current' = NONE
  /\ todo' = {}
  /\ UNCHANGED <<entries, callerPc, target>>

-----------------------------------------------------------------------------
(* Properties *)

(* A plugin is lent out as &mut to one thread at a time, and once a call   *)
(* or hook has panicked in it to none: the panic cannot come while another *)
(* thread is inside, and whoever takes the mutex afterwards finds it       *)
(* poisoned (handle_call, shutdown).                                       *)
PluginsLentOnce ==
  /\ \A c, d \in Callers :
       callerPc[c] = "calling" /\ callerPc[d] = "calling" /\ target[c] = target[d] => c = d
  /\ \A c \in Callers : callerPc[c] = "calling" => target[c] \notin poisoned

=============================================================================
