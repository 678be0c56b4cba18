------------------------------ MODULE Runtime -------------------------------
(***************************************************************************)
(* Saving the configuration and reloading the running process with it.  A  *)
(* save reads the env file, writes it with its own keys changed, builds    *)
(* the handles of a new generation and, holding the supervisor, exchanges  *)
(* the workers and the handles.  Saves of several operators overlap, each  *)
(* of them ends where it is when its client goes away, and plugins may     *)
(* fail to start.  A configuration is the set of the saves it contains.    *)
(***************************************************************************)
EXTENDS Integers, FiniteSets

CONSTANTS
    Saves,     \* requests to save
    Plugins    \* how many channel plugins a configuration enables

None == "none"

ASSUME RuntimeAssumption == Plugins \in Nat \ {0} /\ None \notin Saves

VARIABLES
    envFile,    \* the env file
    served,     \* the configuration of the handles, of the MCP runtime and of the API key
    workers,    \* the generation of workers the supervisor keeps, if any
    holder,     \* the save that holds the supervisor, or none
    save,       \* save -> its state
    stray,      \* generations of workers nobody keeps: each ends by itself
    mishaps     \* what a reload could not make good

runtimeVars == <<envFile, served, workers, holder, save, stray, mishaps>>

NoSave == [stage |-> "new", config |-> {}, previous |-> {}, started |-> 0]

\* The process has started with the file as it is.
RuntimeInit ==
    /\ envFile = {} /\ served = [handles |-> {}, mcp |-> {}, key |-> {}]
    /\ workers = {{}} /\ holder = None /\ stray = {} /\ mishaps = {}
    /\ save = [s \in Saves |-> NoSave]

Goes(s, stage) == save' = [save EXCEPT ![s].stage = stage]

\* The request is authorised, the file read and the request's keys put into it.
ReadEnvFile(s) ==
    /\ save[s].stage = "new"
    /\ save' = [save EXCEPT ![s] = [@ EXCEPT !.stage = "read", !.config = envFile \union {s}]]
    /\ UNCHANGED <<envFile, served, workers, holder, stray, mishaps>>

\* A required field is missing, or the file cannot be written: refused.
WriteEnvFile(s) ==
    /\ save[s].stage = "read"
    /\ \/ Goes(s, "refused") /\ UNCHANGED envFile
       \/ Goes(s, "written") /\ envFile' = save[s].config
    /\ UNCHANGED <<served, workers, holder, stray, mishaps>>

\* build_runtime_handles: the whole generation is built, or nothing has changed
\* but the file.
BuildHandles(s) ==
    /\ save[s].stage = "written"
    /\ Goes(s, "built") \/ Goes(s, "refused")
    /\ UNCHANGED <<envFile, served, workers, holder, stray, mishaps>>

\* The generation to go back to is read before the supervisor is locked.
ReadPrevious(s) ==
    /\ save[s].stage = "built"
    /\ save' = [save EXCEPT ![s] = [@ EXCEPT !.stage = "waiting", !.previous = served.handles]]
    /\ UNCHANGED <<envFile, served, workers, holder, stray, mishaps>>

LockSupervisor(s) ==
    /\ save[s].stage = "waiting" /\ holder = None
    /\ holder' = s
    /\ Goes(s, "stop")
    /\ UNCHANGED <<envFile, served, workers, stray, mishaps>>

\* stop_current: they are told, waited for, and aborted after five seconds.
StopCurrent(s) ==
    /\ save[s].stage = "stop"
    /\ workers' = {}
    /\ Goes(s, "start")
    /\ UNCHANGED <<envFile, served, holder, stray, mishaps>>

\* start_channel_workers: the plugins one after the other, then the tasks, which
\* cannot fail.  The workers started before a plugin fails are dropped; they see
\* their sender gone and end.
StartPlugin(s) ==
    /\ save[s].stage \in {"start", "restart"} /\ save[s].started < Plugins
    /\ save' = [save EXCEPT ![s].started = @ + 1]
    /\ UNCHANGED <<envFile, served, workers, holder, stray, mishaps>>

Dropped(s, generation) == IF save[s].started > 0 THEN {generation} ELSE {}

\* Mutant: the previous workers are not started again.
PluginFailsForGood(s) ==
    /\ save[s].stage = "start" /\ save[s].started < Plugins
    /\ stray' = stray \union Dropped(s, save[s].config)
    /\ holder' = None
    /\ Goes(s, "failed")
    /\ UNCHANGED <<envFile, served, workers, mishaps>>

PluginFails(s) ==
    /\ save[s].stage = "start" /\ save[s].started < Plugins
    /\ stray' = stray \union Dropped(s, save[s].config)
    /\ save' = [save EXCEPT ![s] = [@ EXCEPT !.stage = "restart", !.started = 0]]
    /\ UNCHANGED <<envFile, served, workers, holder, mishaps>>

\* The previous workers do not start either: there are none.
RestartFails(s) ==
    /\ save[s].stage = "restart" /\ save[s].started < Plugins
    /\ stray' = stray \union Dropped(s, save[s].previous)
    /\ mishaps' = mishaps \union {"restart_failed"}
    /\ holder' = None
    /\ Goes(s, "failed")
    /\ UNCHANGED <<envFile, served, workers>>

\* The save goes back to the workers of the handles it found.
Restarted(s) ==
    /\ save[s].stage = "restart" /\ save[s].started = Plugins
    /\ workers' = {save[s].previous}
    /\ mishaps' = mishaps \union IF save[s].previous = served.handles THEN {} ELSE {"stale_restart"}
    /\ holder' = None
    /\ Goes(s, "failed")
    /\ UNCHANGED <<envFile, served, stray>>

SwapHandles(s) ==
    /\ save[s].stage = "start" /\ save[s].started = Plugins
    /\ served' = [served EXCEPT !.handles = save[s].config]
    /\ Goes(s, "swap_mcp")
    /\ UNCHANGED <<envFile, workers, holder, stray, mishaps>>

\* Its lock is waited for: requests may be using the MCP runtime.
SwapMcp(s) ==
    /\ save[s].stage = "swap_mcp"
    /\ served' = [served EXCEPT !.mcp = save[s].config]
    /\ Goes(s, "install")
    /\ UNCHANGED <<envFile, workers, holder, stray, mishaps>>

\* The API key is set and the workers are handed over, without a wait.
Install(s) ==
    /\ save[s].stage = "install"
    /\ served' = [served EXCEPT !.key = save[s].config]
    /\ workers' = {save[s].config}
    /\ holder' = None
    /\ Goes(s, "applied")
    /\ UNCHANGED <<envFile, stray, mishaps>>

\* The client goes away while the save waits for something: it ends there, the
\* supervisor is free and the workers it had started end.
ClientGone(s) ==
    /\ save[s].stage \in {"read", "written", "built", "waiting", "stop", "start", "restart", "swap_mcp"}
    /\ Goes(s, "gone")
    /\ holder' = IF holder = s THEN None ELSE holder
    /\ workers' = IF save[s].stage = "stop" THEN {} ELSE workers
    /\ stray' = stray \union Dropped(s, IF save[s].stage = "restart" THEN save[s].previous
                                        ELSE save[s].config)
    /\ mishaps' = mishaps \union IF holder = s THEN {"cancelled"} ELSE {}
    /\ UNCHANGED <<envFile, served>>

StrayEnds ==
    /\ stray # {}
    /\ \E g \in stray : stray' = stray \ {g}
    /\ UNCHANGED <<envFile, served, workers, holder, save, mishaps>>

RuntimeNext ==
    \/ \E s \in Saves :
          \/ ReadEnvFile(s) \/ WriteEnvFile(s) \/ BuildHandles(s) \/ ReadPrevious(s)
          \/ LockSupervisor(s) \/ StopCurrent(s) \/ StartPlugin(s) \/ PluginFails(s)
          \/ RestartFails(s) \/ Restarted(s) \/ SwapHandles(s) \/ SwapMcp(s) \/ Install(s)
          \/ ClientGone(s)
    \/ StrayEnds

RuntimeSpec == RuntimeInit /\ [][RuntimeNext]_runtimeVars

\* The generations whose workers are at work on purpose.
AtWork ==
    LET starting(stages) == {s \in Saves : save[s].stage \in stages /\ save[s].started > 0}
    IN workers \union {save[s].config : s \in starting({"start", "swap_mcp", "install"})}
               \union {save[s].previous : s \in starting({"restart"})}

\* A reload exchanges everything or nothing, however saves overlap: two
\* generations of workers are never at work together, and when no one holds the
\* supervisor the workers, the handles, the MCP runtime and the API key are of one
\* generation.  The exceptions are a client that goes away during the exchange,
\* workers that did not start again, and a reload that went back to handles
\* another save had replaced meanwhile.
ReloadIsWhole ==
    /\ Cardinality(AtWork) <= 1
    /\ holder = None /\ "cancelled" \notin mishaps =>
          /\ served.mcp = served.handles /\ served.key = served.handles
          /\ mishaps = {} => workers = {served.handles}
=============================================================================
