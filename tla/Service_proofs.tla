--------------------------- MODULE Service_proofs ---------------------------
(***************************************************************************)
(* What the parts between the channel and the providers guarantee for any  *)
(* number of messages, saves, requests, providers, turns and processes.    *)
(***************************************************************************)
EXTENDS MCService, Swarm_proofs,
        FiniteSetTheorems, SequenceTheorems, WellFoundedInduction, TLAPS

-----------------------------------------------------------------------------
(* The memory and its index.                                               *)

\* What a spawned upsert can be; one the sidecar has accepted is in the index
\* before its outbox row is deleted.
UpsertsSound ==
    /\ messages \in Nat /\ writing \subseteq Nat
    /\ upserts \subseteq [chunk : Nat, accepted : BOOLEAN]
    /\ \A u \in upserts : u.accepted = TRUE => u.chunk \in index

RecallInvariant == OutboxCovers /\ UpsertsSound

LEMMA RecallStep ==
    ASSUME RecallInvariant, [RecallNext]_memoryVars
    PROVE  RecallInvariant'
<1> USE DEF RecallInvariant
<1>1. CASE StoreText
  BY <1>1 DEF StoreText, OutboxCovers, UpsertsSound
<1>2. CASE StoreChunk
  <2>1. PICK c \in writing :
           /\ writing' = writing \ {c}
           /\ chunks' = chunks \union {c} /\ outbox' = outbox \union {c}
           /\ upserts' = upserts \union {[chunk |-> c, accepted |-> FALSE]}
    BY <1>2 DEF StoreChunk
  <2>2. messages' = messages /\ index' = index
    BY <1>2 DEF StoreChunk
  <2>3. [chunk |-> c, accepted |-> FALSE] \in [chunk : Nat, accepted : BOOLEAN]
    BY DEF UpsertsSound
  <2>4. upserts' \subseteq [chunk : Nat, accepted : BOOLEAN]
    BY <2>1, <2>3 DEF UpsertsSound
  <2>5. \A u \in upserts' : u.accepted = TRUE => u.chunk \in index'
    BY <2>1, <2>2 DEF UpsertsSound
  <2> QED BY <2>1, <2>2, <2>4, <2>5 DEF OutboxCovers, UpsertsSound
<1>3. CASE Upsert
  <2>1. PICK u \in upserts :
           \/ /\ index' = index \union {u.chunk}
              /\ upserts' = (upserts \ {u}) \union {[u EXCEPT !.accepted = TRUE]}
           \/ upserts' = upserts \ {u} /\ index' = index
    BY <1>3 DEF Upsert
  <2>2. chunks' = chunks /\ outbox' = outbox
    BY <1>3 DEF Upsert
  <2>3. OutboxCovers'
    BY <2>1, <2>2 DEF OutboxCovers
  <2> DEFINE q == [u EXCEPT !.accepted = TRUE]
  <2>4. q \in [chunk : Nat, accepted : BOOLEAN] /\ q.chunk = u.chunk
    BY DEF UpsertsSound
  <2> HIDE DEF q
  <2>6. upserts' \subseteq [chunk : Nat, accepted : BOOLEAN]
    BY <2>1, <2>4 DEF UpsertsSound, q
  <2>7. \A v \in upserts' : v.accepted = TRUE => v.chunk \in index'
    BY <2>1, <2>4 DEF UpsertsSound, q
  <2>5. UpsertsSound'
    BY <2>2, <2>6, <2>7, <1>3 DEF UpsertsSound, Upsert
  <2> QED BY <2>3, <2>5
<1>4. CASE UpsertRecorded
  <2>1. PICK u \in upserts : /\ u.accepted /\ upserts' = upserts \ {u}
                             /\ outbox' = outbox \ {u.chunk} \/ outbox' = outbox
    BY <1>4 DEF UpsertRecorded, Outage
  <2>2. chunks' = chunks /\ index' = index
    BY <1>4 DEF UpsertRecorded
  <2>3. u.accepted = TRUE
    BY <2>1 DEF UpsertsSound
  <2>4. u.chunk \in index
    BY <2>3 DEF UpsertsSound
  <2>5. OutboxCovers'
    BY <2>1, <2>2, <2>4 DEF OutboxCovers
  <2>6. UpsertsSound'
    BY <1>4, <2>1, <2>2 DEF UpsertsSound, UpsertRecorded
  <2> QED BY <2>5, <2>6
<1>5. CASE StartSweep
  BY <1>5 DEF StartSweep, OutboxCovers, UpsertsSound
<1>6. CASE ReplayRow
  BY <1>6 DEF ReplayRow, Outage, OutboxCovers, UpsertsSound
<1>7. CASE MemoryDies
  BY <1>7 DEF MemoryDies, OutboxCovers, UpsertsSound
<1>8. CASE LoadMemories
  BY <1>8 DEF LoadMemories, OutboxCovers, UpsertsSound
<1>9. CASE UNCHANGED memoryVars
  BY <1>9 DEF memoryVars, OutboxCovers, UpsertsSound
<1> QED BY <1>1, <1>2, <1>3, <1>4, <1>5, <1>6, <1>7, <1>8, <1>9 DEF RecallNext

\* append_chunk_and_outbox and the reconciler: a chunk is never without both its
\* index entry and its outbox row, whatever upserts fail, die or overlap.
THEOREM OutboxHolds == RecallSpec => []OutboxCovers
<1>1. RecallInit => RecallInvariant
  BY DEF RecallInit, RecallInvariant, OutboxCovers, UpsertsSound
<1>2. RecallInvariant /\ [RecallNext]_memoryVars => RecallInvariant'
  BY RecallStep
<1>3. RecallInvariant => OutboxCovers
  BY DEF RecallInvariant
<1> QED BY <1>1, <1>2, <1>3, PTL DEF RecallSpec

-----------------------------------------------------------------------------
(* Saves and reloads.                                                      *)
(*                                                                         *)
(* Only the save that holds the supervisor is between stop and install, so *)
(* the exchange is one save's; from its stop to its install no worker is   *)
(* kept, and the handles, the MCP runtime and the key differ only between  *)
(* the swaps of that save.                                                 *)

Exchanging == {"stop", "start", "restart", "swap_mcp", "install"}

SaveStages ==
    {"new", "read", "written", "built", "waiting", "refused", "failed", "applied", "gone"}
       \union Exchanging
SaveRows == [stage : SaveStages, config : SUBSET Saves, previous : SUBSET Saves, started : Nat]
Generations == [handles : SUBSET Saves, mcp : SUBSET Saves, key : SUBSET Saves]

RuntimeShape ==
    /\ envFile \subseteq Saves /\ served \in Generations
    /\ save \in [Saves -> SaveRows]
    /\ holder \in Saves \union {None}
    /\ mishaps \subseteq {"cancelled", "restart_failed", "stale_restart"}

\* The supervisor's lock.
OneExchange == \A s \in Saves : save[s].stage \in Exchanging <=> holder = s

\* The holder, when there is one, has stopped the workers or is about to.
Staffed ==
    /\ workers = {} \/ \E g \in SUBSET Saves : workers = {g}
    /\ \A s \in Saves : save[s].stage \in Exchanging \ {"stop"} => workers = {}

OneGeneration ==
    "cancelled" \notin mishaps =>
       /\ (\A s \in Saves : save[s].stage \notin {"swap_mcp", "install"}) =>
             served.mcp = served.handles /\ served.key = served.handles
       /\ \A s \in Saves :
             /\ save[s].stage \in {"swap_mcp", "install"} => served.handles = save[s].config
             /\ save[s].stage = "install" => served.mcp = save[s].config

WorkersServed ==
    mishaps = {} /\ (\A s \in Saves : save[s].stage \notin Exchanging \ {"stop"}) =>
       workers = {served.handles}

RuntimeInvariant ==
    RuntimeShape /\ OneExchange /\ Staffed /\ OneGeneration /\ WorkersServed

\* What it means that only the record of save s changes, to q.
Becomes(s, q) ==
    /\ q \in SaveRows /\ save' \in [Saves -> SaveRows] /\ save'[s] = q
    /\ \A t \in Saves \ {s} : save'[t] = save[t]

LEMMA BecomesSound ==
    ASSUME RuntimeShape, NEW s \in Saves, NEW q \in SaveRows, save' = [save EXCEPT ![s] = q]
    PROVE  Becomes(s, q)
BY DEF RuntimeShape, Becomes

LEMMA GoesSound ==
    ASSUME RuntimeShape, NEW s \in Saves, NEW stage \in SaveStages, Goes(s, stage)
    PROVE  \E q \in SaveRows :
              /\ Becomes(s, q) /\ q.stage = stage /\ q.config = save[s].config
              /\ q.previous = save[s].previous /\ q.started = save[s].started
<1> DEFINE q == [save[s] EXCEPT !.stage = stage]
<1>1. /\ q \in SaveRows /\ q.stage = stage /\ q.config = save[s].config
      /\ q.previous = save[s].previous /\ q.started = save[s].started
  BY DEF RuntimeShape, SaveRows
<1>2. save' = [save EXCEPT ![s] = q]
  BY DEF Goes, RuntimeShape
<1> HIDE DEF q
<1>3. Becomes(s, q)
  BY <1>1, <1>2, BecomesSound
<1> QED BY <1>1, <1>3

LEMMA RuntimeStep ==
    ASSUME RuntimeInvariant, [RuntimeNext]_runtimeVars
    PROVE  RuntimeInvariant'
<1> USE RuntimeAssumption DEF RuntimeInvariant
<1>a. CASE UNCHANGED runtimeVars
  BY <1>a DEF runtimeVars, RuntimeShape, OneExchange, Staffed, OneGeneration, WorkersServed
<1>b. CASE StrayEnds
  BY <1>b DEF StrayEnds, RuntimeShape, OneExchange, Staffed, OneGeneration, WorkersServed
<1>c. ASSUME NEW s \in Saves,
             \/ ReadEnvFile(s) \/ WriteEnvFile(s) \/ BuildHandles(s) \/ ReadPrevious(s)
             \/ LockSupervisor(s) \/ StopCurrent(s) \/ StartPlugin(s) \/ PluginFails(s)
             \/ RestartFails(s) \/ Restarted(s) \/ SwapHandles(s) \/ SwapMcp(s) \/ Install(s)
             \/ ClientGone(s)
      PROVE  RuntimeInvariant'
  <2>1. CASE ReadEnvFile(s)
    <3> DEFINE q == [save[s] EXCEPT !.stage = "read", !.config = envFile \union {s}]
    <3>0. /\ save[s] \in SaveRows /\ envFile \union {s} \in SUBSET Saves
          /\ served.handles \in SUBSET Saves /\ {"read", "waiting", "restart"} \subseteq SaveStages
      BY <1>c DEF RuntimeShape, SaveStages, Exchanging, Generations
    <3>a. q \in SaveRows /\ q.stage = "read"
      BY <3>0 DEF SaveRows
    <3>b. save' = [save EXCEPT ![s] = q]
      BY <2>1 DEF ReadEnvFile, RuntimeShape
    <3> HIDE DEF q
    <3>1. Becomes(s, q)
      BY <3>a, <3>b, BecomesSound
    <3>2. RuntimeShape'
      BY <2>1, <3>1, <3>a DEF RuntimeShape, Becomes, ReadEnvFile, Generations, SaveRows
    <3>3. OneExchange'
      BY <2>1, <3>1, <3>a DEF RuntimeShape, Becomes, ReadEnvFile, OneExchange, Exchanging
    <3>4. Staffed'
      BY <2>1, <3>1, <3>a DEF RuntimeShape, Becomes, ReadEnvFile, OneExchange, Exchanging, Staffed, Generations, SaveRows
    <3>5. OneGeneration'
      BY <2>1, <3>1, <3>a DEF RuntimeShape, Becomes, ReadEnvFile, OneExchange, Exchanging, OneGeneration, Generations
    <3>6. WorkersServed'
      BY <2>1, <3>1, <3>a DEF RuntimeShape, Becomes, ReadEnvFile, OneExchange, Exchanging, WorkersServed, OneGeneration, Generations, Staffed
    <3> QED BY <3>2, <3>3, <3>4, <3>5, <3>6
  <2>2. CASE WriteEnvFile(s)
    <3>1. PICK q \in SaveRows :
             /\ Becomes(s, q) /\ q.stage \in {"refused", "written"} /\ q.config = save[s].config
             /\ q.previous = save[s].previous /\ q.started = save[s].started
      BY <2>2, GoesSound DEF WriteEnvFile, SaveStages, Exchanging
    <3>2. RuntimeShape'
      BY <2>2, <3>1 DEF RuntimeShape, Becomes, WriteEnvFile, Generations, SaveRows
    <3>3. OneExchange'
      BY <2>2, <3>1 DEF RuntimeShape, Becomes, WriteEnvFile, OneExchange, Exchanging
    <3>4. Staffed'
      BY <2>2, <3>1 DEF RuntimeShape, Becomes, WriteEnvFile, OneExchange, Exchanging, Staffed, Generations, SaveRows
    <3>5. OneGeneration'
      BY <2>2, <3>1 DEF RuntimeShape, Becomes, WriteEnvFile, OneExchange, Exchanging, OneGeneration, Generations
    <3>6. WorkersServed'
      BY <2>2, <3>1 DEF RuntimeShape, Becomes, WriteEnvFile, OneExchange, Exchanging, WorkersServed, OneGeneration, Generations, Staffed
    <3> QED BY <3>2, <3>3, <3>4, <3>5, <3>6
  <2>3. CASE BuildHandles(s)
    <3>1. PICK q \in SaveRows :
             /\ Becomes(s, q) /\ q.stage \in {"refused", "built"} /\ q.config = save[s].config
             /\ q.previous = save[s].previous /\ q.started = save[s].started
      BY <2>3, GoesSound DEF BuildHandles, SaveStages, Exchanging
    <3>2. RuntimeShape'
      BY <2>3, <3>1 DEF RuntimeShape, Becomes, BuildHandles, Generations, SaveRows
    <3>3. OneExchange'
      BY <2>3, <3>1 DEF RuntimeShape, Becomes, BuildHandles, OneExchange, Exchanging
    <3>4. Staffed'
      BY <2>3, <3>1 DEF RuntimeShape, Becomes, BuildHandles, OneExchange, Exchanging, Staffed, Generations, SaveRows
    <3>5. OneGeneration'
      BY <2>3, <3>1 DEF RuntimeShape, Becomes, BuildHandles, OneExchange, Exchanging, OneGeneration, Generations
    <3>6. WorkersServed'
      BY <2>3, <3>1 DEF RuntimeShape, Becomes, BuildHandles, OneExchange, Exchanging, WorkersServed, OneGeneration, Generations, Staffed
    <3> QED BY <3>2, <3>3, <3>4, <3>5, <3>6
  <2>4. CASE ReadPrevious(s)
    <3> DEFINE q == [save[s] EXCEPT !.stage = "waiting", !.previous = served.handles]
    <3>0. /\ save[s] \in SaveRows /\ envFile \union {s} \in SUBSET Saves
          /\ served.handles \in SUBSET Saves /\ {"read", "waiting", "restart"} \subseteq SaveStages
      BY <1>c DEF RuntimeShape, SaveStages, Exchanging, Generations
    <3>a. q \in SaveRows /\ q.stage = "waiting"
      BY <3>0 DEF SaveRows
    <3>b. save' = [save EXCEPT ![s] = q]
      BY <2>4 DEF ReadPrevious, RuntimeShape
    <3> HIDE DEF q
    <3>1. Becomes(s, q)
      BY <3>a, <3>b, BecomesSound
    <3>2. RuntimeShape'
      BY <2>4, <3>1, <3>a DEF RuntimeShape, Becomes, ReadPrevious, Generations, SaveRows
    <3>3. OneExchange'
      BY <2>4, <3>1, <3>a DEF RuntimeShape, Becomes, ReadPrevious, OneExchange, Exchanging
    <3>4. Staffed'
      BY <2>4, <3>1, <3>a DEF RuntimeShape, Becomes, ReadPrevious, OneExchange, Exchanging, Staffed, Generations, SaveRows
    <3>5. OneGeneration'
      BY <2>4, <3>1, <3>a DEF RuntimeShape, Becomes, ReadPrevious, OneExchange, Exchanging, OneGeneration, Generations
    <3>6. WorkersServed'
      BY <2>4, <3>1, <3>a DEF RuntimeShape, Becomes, ReadPrevious, OneExchange, Exchanging, WorkersServed, OneGeneration, Generations, Staffed
    <3> QED BY <3>2, <3>3, <3>4, <3>5, <3>6
  <2>5. CASE LockSupervisor(s)
    <3>1. PICK q \in SaveRows :
             /\ Becomes(s, q) /\ q.stage = "stop" /\ q.config = save[s].config
             /\ q.previous = save[s].previous /\ q.started = save[s].started
      BY <2>5, GoesSound DEF LockSupervisor, SaveStages, Exchanging
    <3>2. RuntimeShape'
      BY <2>5, <3>1 DEF RuntimeShape, Becomes, LockSupervisor, Generations, SaveRows
    <3>3. OneExchange'
      BY <2>5, <3>1 DEF RuntimeShape, Becomes, LockSupervisor, OneExchange, Exchanging
    <3>4. Staffed'
      BY <2>5, <3>1 DEF RuntimeShape, Becomes, LockSupervisor, OneExchange, Exchanging, Staffed, Generations, SaveRows
    <3>5. OneGeneration'
      BY <2>5, <3>1 DEF RuntimeShape, Becomes, LockSupervisor, OneExchange, Exchanging, OneGeneration, Generations
    <3>6. WorkersServed'
      BY <2>5, <3>1 DEF RuntimeShape, Becomes, LockSupervisor, OneExchange, Exchanging, WorkersServed, OneGeneration, Generations, Staffed
    <3> QED BY <3>2, <3>3, <3>4, <3>5, <3>6
  <2>6. CASE StopCurrent(s)
    <3>1. PICK q \in SaveRows :
             /\ Becomes(s, q) /\ q.stage = "start" /\ q.config = save[s].config
             /\ q.previous = save[s].previous /\ q.started = save[s].started
      BY <2>6, GoesSound DEF StopCurrent, SaveStages, Exchanging
    <3>2. RuntimeShape'
      BY <2>6, <3>1 DEF RuntimeShape, Becomes, StopCurrent, Generations, SaveRows
    <3>3. OneExchange'
      BY <2>6, <3>1 DEF RuntimeShape, Becomes, StopCurrent, OneExchange, Exchanging
    <3>4. Staffed'
      BY <2>6, <3>1 DEF RuntimeShape, Becomes, StopCurrent, OneExchange, Exchanging, Staffed, Generations, SaveRows
    <3>5. OneGeneration'
      BY <2>6, <3>1 DEF RuntimeShape, Becomes, StopCurrent, OneExchange, Exchanging, OneGeneration, Generations
    <3>6. WorkersServed'
      BY <2>6, <3>1 DEF RuntimeShape, Becomes, StopCurrent, OneExchange, Exchanging, WorkersServed, OneGeneration, Generations, Staffed
    <3> QED BY <3>2, <3>3, <3>4, <3>5, <3>6
  <2>7. CASE StartPlugin(s)
    <3> DEFINE q == [save[s] EXCEPT !.started = @ + 1]
    <3>0. /\ save[s] \in SaveRows /\ envFile \union {s} \in SUBSET Saves
          /\ served.handles \in SUBSET Saves /\ {"read", "waiting", "restart"} \subseteq SaveStages
      BY <1>c DEF RuntimeShape, SaveStages, Exchanging, Generations
    <3>a. q \in SaveRows /\ q.stage = save[s].stage /\ q.config = save[s].config
      BY <3>0 DEF SaveRows
    <3>b. save' = [save EXCEPT ![s] = q]
      BY <2>7 DEF StartPlugin, RuntimeShape
    <3> HIDE DEF q
    <3>1. Becomes(s, q)
      BY <3>a, <3>b, BecomesSound
    <3>2. RuntimeShape'
      BY <2>7, <3>1, <3>a DEF RuntimeShape, Becomes, StartPlugin, Generations, SaveRows
    <3>3. OneExchange'
      BY <2>7, <3>1, <3>a DEF RuntimeShape, Becomes, StartPlugin, OneExchange, Exchanging
    <3>4. Staffed'
      BY <2>7, <3>1, <3>a DEF RuntimeShape, Becomes, StartPlugin, OneExchange, Exchanging, Staffed, Generations, SaveRows
    <3>5. OneGeneration'
      BY <2>7, <3>1, <3>a DEF RuntimeShape, Becomes, StartPlugin, OneExchange, Exchanging, OneGeneration, Generations
    <3>6. WorkersServed'
      BY <2>7, <3>1, <3>a DEF RuntimeShape, Becomes, StartPlugin, OneExchange, Exchanging, WorkersServed, OneGeneration, Generations, Staffed
    <3> QED BY <3>2, <3>3, <3>4, <3>5, <3>6
  <2>8. CASE PluginFails(s)
    <3> DEFINE q == [save[s] EXCEPT !.stage = "restart", !.started = 0]
    <3>0. /\ save[s] \in SaveRows /\ envFile \union {s} \in SUBSET Saves
          /\ served.handles \in SUBSET Saves /\ {"read", "waiting", "restart"} \subseteq SaveStages
      BY <1>c DEF RuntimeShape, SaveStages, Exchanging, Generations
    <3>a. q \in SaveRows /\ q.stage = "restart"
      BY <3>0 DEF SaveRows
    <3>b. save' = [save EXCEPT ![s] = q]
      BY <2>8 DEF PluginFails, RuntimeShape
    <3> HIDE DEF q
    <3>1. Becomes(s, q)
      BY <3>a, <3>b, BecomesSound
    <3>2. RuntimeShape'
      BY <2>8, <3>1, <3>a DEF RuntimeShape, Becomes, PluginFails, Generations, SaveRows
    <3>3. OneExchange'
      BY <2>8, <3>1, <3>a DEF RuntimeShape, Becomes, PluginFails, OneExchange, Exchanging
    <3>4. Staffed'
      BY <2>8, <3>1, <3>a DEF RuntimeShape, Becomes, PluginFails, OneExchange, Exchanging, Staffed, Generations, SaveRows
    <3>5. OneGeneration'
      BY <2>8, <3>1, <3>a DEF RuntimeShape, Becomes, PluginFails, OneExchange, Exchanging, OneGeneration, Generations
    <3>6. WorkersServed'
      BY <2>8, <3>1, <3>a DEF RuntimeShape, Becomes, PluginFails, OneExchange, Exchanging, WorkersServed, OneGeneration, Generations, Staffed
    <3> QED BY <3>2, <3>3, <3>4, <3>5, <3>6
  <2>9. CASE RestartFails(s)
    <3>1. PICK q \in SaveRows :
             /\ Becomes(s, q) /\ q.stage = "failed" /\ q.config = save[s].config
             /\ q.previous = save[s].previous /\ q.started = save[s].started
      BY <2>9, GoesSound DEF RestartFails, SaveStages, Exchanging
    <3>2. RuntimeShape'
      BY <2>9, <3>1 DEF RuntimeShape, Becomes, RestartFails, Generations, SaveRows
    <3>3. OneExchange'
      BY <2>9, <3>1 DEF RuntimeShape, Becomes, RestartFails, OneExchange, Exchanging
    <3>4. Staffed'
      BY <2>9, <3>1 DEF RuntimeShape, Becomes, RestartFails, OneExchange, Exchanging, Staffed, Generations, SaveRows
    <3>5. OneGeneration'
      BY <2>9, <3>1 DEF RuntimeShape, Becomes, RestartFails, OneExchange, Exchanging, OneGeneration, Generations
    <3>6. WorkersServed'
      BY <2>9, <3>1 DEF RuntimeShape, Becomes, RestartFails, OneExchange, Exchanging, WorkersServed, OneGeneration, Generations, Staffed
    <3> QED BY <3>2, <3>3, <3>4, <3>5, <3>6
  <2>10. CASE Restarted(s)
    <3>1. PICK q \in SaveRows :
             /\ Becomes(s, q) /\ q.stage = "failed" /\ q.config = save[s].config
             /\ q.previous = save[s].previous /\ q.started = save[s].started
      BY <2>10, GoesSound DEF Restarted, SaveStages, Exchanging
    <3>2. RuntimeShape'
      BY <2>10, <3>1 DEF RuntimeShape, Becomes, Restarted, Generations, SaveRows
    <3>3. OneExchange'
      BY <2>10, <3>1 DEF RuntimeShape, Becomes, Restarted, OneExchange, Exchanging
    <3>4. Staffed'
      BY <2>10, <3>1 DEF RuntimeShape, Becomes, Restarted, OneExchange, Exchanging, Staffed, Generations, SaveRows
    <3>5. OneGeneration'
      BY <2>10, <3>1 DEF RuntimeShape, Becomes, Restarted, OneExchange, Exchanging, OneGeneration, Generations
    <3>6. WorkersServed'
      BY <2>10, <3>1 DEF RuntimeShape, Becomes, Restarted, OneExchange, Exchanging, WorkersServed, OneGeneration, Generations, Staffed
    <3> QED BY <3>2, <3>3, <3>4, <3>5, <3>6
  <2>11. CASE SwapHandles(s)
    <3>1. PICK q \in SaveRows :
             /\ Becomes(s, q) /\ q.stage = "swap_mcp" /\ q.config = save[s].config
             /\ q.previous = save[s].previous /\ q.started = save[s].started
      BY <2>11, GoesSound DEF SwapHandles, SaveStages, Exchanging
    <3>2. RuntimeShape'
      BY <2>11, <3>1 DEF RuntimeShape, Becomes, SwapHandles, Generations, SaveRows
    <3>3. OneExchange'
      BY <2>11, <3>1 DEF RuntimeShape, Becomes, SwapHandles, OneExchange, Exchanging
    <3>4. Staffed'
      BY <2>11, <3>1 DEF RuntimeShape, Becomes, SwapHandles, OneExchange, Exchanging, Staffed, Generations, SaveRows
    <3>5. OneGeneration'
      BY <2>11, <3>1 DEF RuntimeShape, Becomes, SwapHandles, OneExchange, Exchanging, OneGeneration, Generations
    <3>6. WorkersServed'
      BY <2>11, <3>1 DEF RuntimeShape, Becomes, SwapHandles, OneExchange, Exchanging, WorkersServed, OneGeneration, Generations, Staffed
    <3> QED BY <3>2, <3>3, <3>4, <3>5, <3>6
  <2>12. CASE SwapMcp(s)
    <3>1. PICK q \in SaveRows :
             /\ Becomes(s, q) /\ q.stage = "install" /\ q.config = save[s].config
             /\ q.previous = save[s].previous /\ q.started = save[s].started
      BY <2>12, GoesSound DEF SwapMcp, SaveStages, Exchanging
    <3>2. RuntimeShape'
      BY <2>12, <3>1 DEF RuntimeShape, Becomes, SwapMcp, Generations, SaveRows
    <3>3. OneExchange'
      BY <2>12, <3>1 DEF RuntimeShape, Becomes, SwapMcp, OneExchange, Exchanging
    <3>4. Staffed'
      BY <2>12, <3>1 DEF RuntimeShape, Becomes, SwapMcp, OneExchange, Exchanging, Staffed, Generations, SaveRows
    <3>5. OneGeneration'
      BY <2>12, <3>1 DEF RuntimeShape, Becomes, SwapMcp, OneExchange, Exchanging, OneGeneration, Generations
    <3>6. WorkersServed'
      BY <2>12, <3>1 DEF RuntimeShape, Becomes, SwapMcp, OneExchange, Exchanging, WorkersServed, OneGeneration, Generations, Staffed
    <3> QED BY <3>2, <3>3, <3>4, <3>5, <3>6
  <2>13. CASE Install(s)
    <3>1. PICK q \in SaveRows :
             /\ Becomes(s, q) /\ q.stage = "applied" /\ q.config = save[s].config
             /\ q.previous = save[s].previous /\ q.started = save[s].started
      BY <2>13, GoesSound DEF Install, SaveStages, Exchanging
    <3>2. RuntimeShape'
      BY <2>13, <3>1 DEF RuntimeShape, Becomes, Install, Generations, SaveRows
    <3>3. OneExchange'
      BY <2>13, <3>1 DEF RuntimeShape, Becomes, Install, OneExchange, Exchanging
    <3>4. Staffed'
      BY <2>13, <3>1 DEF RuntimeShape, Becomes, Install, OneExchange, Exchanging, Staffed, Generations, SaveRows
    <3>5. OneGeneration'
      BY <2>13, <3>1 DEF RuntimeShape, Becomes, Install, OneExchange, Exchanging, OneGeneration, Generations
    <3>6. WorkersServed'
      BY <2>13, <3>1 DEF RuntimeShape, Becomes, Install, OneExchange, Exchanging, WorkersServed, OneGeneration, Generations, Staffed
    <3> QED BY <3>2, <3>3, <3>4, <3>5, <3>6
  <2>14. CASE ClientGone(s)
    <3>1. PICK q \in SaveRows :
             /\ Becomes(s, q) /\ q.stage = "gone" /\ q.config = save[s].config
             /\ q.previous = save[s].previous /\ q.started = save[s].started
      BY <2>14, GoesSound DEF ClientGone, SaveStages, Exchanging
    <3>2. RuntimeShape'
      BY <2>14, <3>1 DEF RuntimeShape, Becomes, ClientGone, Generations, SaveRows
    <3>3. OneExchange'
      BY <2>14, <3>1 DEF RuntimeShape, Becomes, ClientGone, OneExchange, Exchanging
    <3>4. Staffed'
      BY <2>14, <3>1 DEF RuntimeShape, Becomes, ClientGone, OneExchange, Exchanging, Staffed, Generations, SaveRows
    <3>5. OneGeneration'
      BY <2>14, <3>1 DEF RuntimeShape, Becomes, ClientGone, OneExchange, Exchanging, OneGeneration, Generations
    <3>6. WorkersServed'
      BY <2>14, <3>1 DEF RuntimeShape, Becomes, ClientGone, OneExchange, Exchanging, WorkersServed, OneGeneration, Generations, Staffed
    <3> QED BY <3>2, <3>3, <3>4, <3>5, <3>6
  <2> QED BY <1>c, <2>1, <2>2, <2>3, <2>4, <2>5, <2>6, <2>7, <2>8, <2>9, <2>10, <2>11, <2>12, <2>13, <2>14
<1> QED BY <1>a, <1>b, <1>c DEF RuntimeNext

\* Everything at work is of one generation: the workers that are kept, or those the
\* holder of the supervisor is starting.
LEMMA OneAtWork ==
    ASSUME RuntimeInvariant
    PROVE  Cardinality(AtWork) <= 1
<1>1. \E g : AtWork \subseteq {g}
  <2>1. CASE \E s \in Saves : save[s].stage \in Exchanging \ {"stop"}
    <3>1. PICK s \in Saves : save[s].stage \in Exchanging \ {"stop"}
      BY <2>1
    <3>2. workers = {} /\ \A t \in Saves : save[t].stage \in Exchanging => t = s
      BY <3>1 DEF RuntimeInvariant, Staffed, OneExchange
    <3>3. CASE save[s].stage = "restart"
      <4>1. AtWork \subseteq {save[s].previous}
        BY <3>2, <3>3 DEF AtWork, Exchanging
      <4> QED BY <4>1
    <3>4. CASE save[s].stage # "restart"
      <4>1. AtWork \subseteq {save[s].config}
        BY <3>2, <3>4 DEF AtWork, Exchanging
      <4> QED BY <4>1
    <3> QED BY <3>3, <3>4
  <2>2. CASE \A s \in Saves : save[s].stage \notin Exchanging \ {"stop"}
    <3>1. AtWork = workers
      BY <2>2 DEF AtWork, Exchanging
    <3> QED BY <3>1 DEF RuntimeInvariant, Staffed
  <2> QED BY <2>1, <2>2
<1>2. PICK g : AtWork \subseteq {g}
  BY <1>1
<1>3. IsFiniteSet({g}) /\ Cardinality({g}) = 1
  BY FS_Singleton
<1>4. Cardinality(AtWork) <= Cardinality({g}) /\ Cardinality(AtWork) \in Nat
  BY <1>2, <1>3, FS_Subset, FS_CardinalityType
<1> QED BY <1>3, <1>4

\* The reload of runtime_config_save: for any number of overlapping saves and of
\* plugins, workers of two generations are never at work together, and a free
\* supervisor means one generation of everything, save for the named mishaps.
THEOREM ReloadHolds == RuntimeSpec => []ReloadIsWhole
<1>1. RuntimeInit => RuntimeInvariant
  <2> SUFFICES ASSUME RuntimeInit PROVE RuntimeInvariant
    OBVIOUS
  <2>1. NoSave \in SaveRows /\ NoSave.stage = "new"
    BY DEF NoSave, SaveRows, SaveStages
  <2>2. save \in [Saves -> SaveRows] /\ \A s \in Saves : save[s].stage = "new"
    BY <2>1 DEF RuntimeInit
  <2>3. RuntimeShape
    BY <2>2 DEF RuntimeInit, RuntimeShape, Generations
  <2>4. OneExchange
    BY <2>2, RuntimeAssumption DEF RuntimeInit, OneExchange, Exchanging
  <2>5. Staffed /\ OneGeneration /\ WorkersServed
    BY <2>2 DEF RuntimeInit, Staffed, OneGeneration, WorkersServed, Exchanging
  <2> QED BY <2>3, <2>4, <2>5 DEF RuntimeInvariant
<1>2. RuntimeInvariant /\ [RuntimeNext]_runtimeVars => RuntimeInvariant'
  BY RuntimeStep
<1>3. RuntimeInvariant => ReloadIsWhole
  <2> SUFFICES ASSUME RuntimeInvariant PROVE ReloadIsWhole
    OBVIOUS
  <2>1. Cardinality(AtWork) <= 1
    BY OneAtWork
  <2>2. holder = None => \A s \in Saves : save[s].stage \notin Exchanging
    BY RuntimeAssumption DEF RuntimeInvariant, OneExchange
  <2> QED BY <2>1, <2>2 DEF RuntimeInvariant, OneGeneration, WorkersServed, Exchanging, ReloadIsWhole
<1> QED BY <1>1, <1>2, <1>3, PTL DEF RuntimeSpec

-----------------------------------------------------------------------------
(* The provider chain.                                                     *)
(*                                                                         *)
(* While a request is under way, what it was admitted to is what it has    *)
(* tried and what it still plans to ask, and only the provider it is       *)
(* asking has spoken: it leaves that one only when it was silent.          *)

Active == {"stream", "plain", "fallback"}
Circuits == [fails : Nat, state : {"closed", "open", "half_open"}]
RequestRows ==
    [stage : {"idle", "ok", "error"} \union Active, plan : SUBSET Providers,
     tried : SUBSET Providers, admitted : SUBSET Providers, tries : Nat,
     error : {"none", "shape", "other"}, spoke : SUBSET Providers]

RequestSound(q) ==
    /\ q.stage \in Active => /\ q.plan # {} /\ q.tried \union q.plan = q.admitted
                             /\ q.spoke \subseteq {First(q.plan)}
    /\ \E p \in Nat : q.spoke \subseteq {p}
    /\ q.stage = "error" => q.tried = q.admitted \/ q.error = "shape" \/ q.spoke # {}

CircuitSound(c) == c.state # "closed" => c.fails >= Failures

FailoverInvariant ==
    /\ circuit \in [Providers -> Circuits] /\ request \in [Requests -> RequestRows]
    /\ \A r \in Requests : RequestSound(request[r])
    /\ \A p \in Providers : CircuitSound(circuit[p])

\* The provider that is asked is one of the plan.
LEMMA FirstIn ==
    ASSUME NEW plan \in SUBSET Providers, plan # {}
    PROVE  First(plan) \in plan
<1>1. plan \subseteq Nat
  BY FailoverAssumption DEF Providers
<1>2. PICK t \in plan : \A u \in plan : ~(<<u, t>> \in OpToRel(<, Nat))
  BY <1>1, NatLessThanWellFounded, WFMin
<1>3. \A u \in plan : t <= u
  <2> TAKE u \in plan
  <2>1. t \in Nat /\ u \in Nat
    BY <1>1
  <2>2. ~(u < t)
    BY <1>2, <2>1 DEF OpToRel
  <2> QED BY <2>1, <2>2
<1> QED BY <1>3 DEF First, Min

LEMMA SmallerOfTwo ==
    ASSUME NEW a \in Int, NEW b \in Int
    PROVE  Min({a, b}) = IF a <= b THEN a ELSE b
<1>1. \E x \in {a, b} : \A y \in {a, b} : x <= y
  OBVIOUS
<1>2. Min({a, b}) \in {a, b} /\ \A y \in {a, b} : Min({a, b}) <= y
  BY <1>1 DEF Min
<1> QED BY <1>2

LEMMA CircuitKept ==
    ASSUME NEW c \in Circuits, CircuitSound(c)
    PROVE  /\ Failed(c) \in Circuits /\ CircuitSound(Failed(c))
           /\ Succeeded(c) \in Circuits /\ CircuitSound(Succeeded(c))
<1> DEFINE n == Min({c.fails + 1, Failures})
<1>1. c.fails \in Nat /\ c.state \in {"closed", "open", "half_open"}
  BY DEF Circuits
<1>2. n = IF c.fails + 1 <= Failures THEN c.fails + 1 ELSE Failures
  BY <1>1, FailoverAssumption, SmallerOfTwo
<1>3. n \in Nat
  BY <1>1, <1>2, FailoverAssumption
<1>4. Failed(c) = [fails |-> n, state |-> IF n >= Failures \/ c.state # "closed" THEN "open" ELSE c.state]
  BY DEF Failed
<1> HIDE DEF n
<1>5. Failed(c) \in Circuits
  BY <1>1, <1>3, <1>4 DEF Circuits
<1>6. CircuitSound(Failed(c))
  BY <1>1, <1>2, <1>3, <1>4, FailoverAssumption DEF CircuitSound
<1>7. Succeeded(c) \in Circuits /\ CircuitSound(Succeeded(c))
  BY DEF Succeeded, Circuits, CircuitSound
<1> QED BY <1>5, <1>6, <1>7

\* The outcome of a call is recorded in the circuit of one provider.
LEMMA CircuitsKept ==
    ASSUME FailoverInvariant, NEW p \in Providers,
           \/ circuit' = [circuit EXCEPT ![p] = Failed(@)]
           \/ circuit' = [circuit EXCEPT ![p] = Succeeded(@)]
    PROVE  circuit' \in [Providers -> Circuits] /\ \A o \in Providers : CircuitSound(circuit'[o])
<1>1. circuit[p] \in Circuits /\ CircuitSound(circuit[p])
  BY DEF FailoverInvariant
<1>2. PICK c \in Circuits : CircuitSound(c) /\ circuit' = [circuit EXCEPT ![p] = c]
  BY <1>1, CircuitKept
<1> QED BY <1>2 DEF FailoverInvariant

LEMMA RequestKept ==
    ASSUME FailoverInvariant, NEW r \in Requests, NEW q \in RequestRows, RequestSound(q),
           request' = [request EXCEPT ![r] = q]
    PROVE  request' \in [Requests -> RequestRows] /\ \A o \in Requests : RequestSound(request'[o])
BY DEF FailoverInvariant

\* An active request asks a provider of the chain.
LEMMA AskedIn ==
    ASSUME NEW q \in RequestRows, RequestSound(q), q.stage \in Active
    PROVE  First(q.plan) \in q.plan /\ q.plan \subseteq Providers
BY FirstIn DEF RequestRows, RequestSound

LEMMA AnsweredSound ==
    ASSUME NEW q \in RequestRows, RequestSound(q), q.stage \in Active
    PROVE  Answered(q) \in RequestRows /\ RequestSound(Answered(q))
<1> DEFINE f == First(q.plan)
           spoken == q.spoke \union IF q.stage = "plain" THEN {} ELSE {f}
           a == [q EXCEPT !.stage = "ok", !.spoke = spoken]
<1>1. f \in Providers /\ q.spoke \subseteq {f}
  BY AskedIn DEF RequestSound
<1>2. spoken \in SUBSET Providers /\ spoken \subseteq {f}
  BY <1>1
<1>3. a \in RequestRows /\ a.stage = "ok" /\ a.spoke = spoken
  <2> HIDE DEF spoken
  <2> QED BY <1>2 DEF RequestRows
<1>4. Answered(q) = a
  BY DEF Answered
<1> HIDE DEF a, spoken, f
<1>5. f \in Nat
  BY <1>1, FailoverAssumption DEF Providers
<1> QED BY <1>2, <1>3, <1>4, <1>5 DEF RequestSound, Active

LEMMA NextProviderSound ==
    ASSUME NEW q \in RequestRows, RequestSound(q), q.stage \in Active, NEW stage \in {"plain", "stream"}
    PROVE  NextProvider(q, stage) \in RequestRows /\ RequestSound(NextProvider(q, stage))
<1> DEFINE f == First(q.plan)
           over == [q EXCEPT !.stage = "error", !.tried = @ \union {f}]
           on == [q EXCEPT !.plan = @ \ {f}, !.tried = @ \union {f}, !.stage = stage, !.tries = 0]
<1>1. f \in q.plan /\ f \in Providers /\ q.spoke \subseteq {f}
  BY AskedIn DEF RequestSound
<1>2. q.tried \union {f} \in SUBSET Providers /\ q.plan \ {f} \in SUBSET Providers
  BY <1>1 DEF RequestRows
<1>0. q.tried \union q.plan = q.admitted /\ \E p \in Nat : q.spoke \subseteq {p}
  BY DEF RequestSound
<1>3. CASE q.plan = {f} \/ ~Worthy(q.error) \/ f \in q.spoke
  <2>1. NextProvider(q, stage) = over
    BY <1>3 DEF NextProvider
  <2>2. /\ over \in RequestRows /\ over.stage = "error" /\ over.tried = q.tried \union {f}
        /\ over.spoke = q.spoke /\ over.error = q.error /\ over.admitted = q.admitted
    BY <1>2 DEF RequestRows
  <2> HIDE DEF over
  <2> QED BY <1>0, <1>3, <2>1, <2>2 DEF RequestSound, Active, Worthy
<1>4. CASE ~(q.plan = {f} \/ ~Worthy(q.error) \/ f \in q.spoke)
  <2>1. NextProvider(q, stage) = on
    BY <1>4 DEF NextProvider
  <2>2. /\ on \in RequestRows /\ on.stage = stage /\ on.tried = q.tried \union {f}
        /\ on.plan = q.plan \ {f} /\ on.spoke = q.spoke /\ on.admitted = q.admitted
    BY <1>2 DEF RequestRows, Active
  <2> HIDE DEF on
  <2>3. q.spoke = {} /\ q.plan \ {f} # {}
    BY <1>1, <1>4
  <2>4. on.tried \union on.plan = on.admitted
    BY <1>0, <1>1, <2>2
  <2> QED BY <1>0, <2>1, <2>2, <2>3, <2>4 DEF RequestSound
<1> QED BY <1>3, <1>4

\* Noting an error, or another attempt, changes nothing that is said or planned.
LEMMA NotedSound ==
    ASSUME NEW q \in RequestRows, RequestSound(q), q.stage \in Active,
           NEW p \in RequestRows, p.stage \in Active, p.plan = q.plan, p.tried = q.tried,
           p.admitted = q.admitted, p.spoke = q.spoke
    PROVE  RequestSound(p)
BY DEF RequestSound, Active

LEMMA WithErrorSound ==
    ASSUME NEW q \in RequestRows, RequestSound(q), q.stage \in Active, NEW error \in {"shape", "other"}
    PROVE  /\ WithError(q, error) \in RequestRows /\ RequestSound(WithError(q, error))
           /\ WithError(q, error).stage = q.stage /\ WithError(q, error).plan = q.plan
           /\ WithError(q, error).tries = q.tries
<1> DEFINE e == IF q.stage = "fallback" THEN q.error ELSE error
           p == [q EXCEPT !.error = e]
<1>1. e \in {"none", "shape", "other"}
  BY DEF RequestRows
<1>2. WithError(q, error) = p
  BY DEF WithError
<1> HIDE DEF e
<1>3. /\ p \in RequestRows /\ p.stage = q.stage /\ p.plan = q.plan /\ p.tried = q.tried
      /\ p.admitted = q.admitted /\ p.spoke = q.spoke /\ p.tries = q.tries
  BY <1>1 DEF RequestRows
<1> HIDE DEF p
<1>4. RequestSound(p)
  BY <1>3, NotedSound
<1> QED BY <1>2, <1>3, <1>4

\* A provider is given up: its circuit and the request move on.
LEMMA FailsKept ==
    ASSUME FailoverInvariant, NEW r \in Requests, NEW q \in RequestRows, RequestSound(q),
           q.stage \in Active, q.plan = request[r].plan, Fails(r, q)
    PROVE  FailoverInvariant'
<1>1. Asked(r) \in Providers
  BY AskedIn DEF Asked
<1>2. circuit' \in [Providers -> Circuits] /\ \A o \in Providers : CircuitSound(circuit'[o])
  BY <1>1, CircuitsKept DEF Fails
<1> DEFINE stage == IF q.stage = "plain" THEN "plain" ELSE "stream"
           p == NextProvider(q, stage)
<1>3. p \in RequestRows /\ RequestSound(p)
  BY NextProviderSound
<1>4. request' = [request EXCEPT ![r] = p]
  BY DEF Fails
<1> HIDE DEF p
<1>5. request' \in [Requests -> RequestRows] /\ \A o \in Requests : RequestSound(request'[o])
  BY <1>3, <1>4, RequestKept
<1> QED BY <1>2, <1>5 DEF FailoverInvariant

LEMMA NoRequestSound == NoRequest \in RequestRows /\ RequestSound(NoRequest)
<1>1. NoRequest \in RequestRows
  BY DEF NoRequest, RequestRows
<1>2. NoRequest.spoke \subseteq {0} /\ NoRequest.stage = "idle"
  BY DEF NoRequest
<1> QED BY <1>1, <1>2 DEF RequestSound, Active

LEMMA AskKept ==
    ASSUME FailoverInvariant, NEW r \in Requests, Ask(r) PROVE FailoverInvariant'
<1>1. PICK stage \in {"stream", "plain"} :
         request' = [request EXCEPT ![r] =
            [NoRequest EXCEPT !.plan = Admitted, !.admitted = Admitted,
                              !.stage = IF Admitted = {} THEN "error" ELSE stage]]
  BY DEF Ask
<1> DEFINE at == IF Admitted = {} THEN "error" ELSE stage
           q == [NoRequest EXCEPT !.plan = Admitted, !.admitted = Admitted, !.stage = at]
<1>2. Admitted \in SUBSET Providers
  BY DEF Admitted
<1>3. at \in {"idle", "ok", "error"} \union Active
  BY DEF Active
<1>4. /\ q \in RequestRows /\ q.plan = Admitted /\ q.admitted = Admitted /\ q.stage = at
      /\ q.spoke = {} /\ q.tried = {}
  <2> HIDE DEF at
  <2> QED BY <1>2, <1>3 DEF NoRequest, RequestRows
<1>5. RequestSound(q)
  <2> HIDE DEF q
  <2>1. q.spoke \subseteq {0}
    BY <1>4
  <2> QED BY <1>4, <2>1 DEF RequestSound, Active
<1>6. request' \in [Requests -> RequestRows] /\ \A o \in Requests : RequestSound(request'[o])
  <2>1. request' = [request EXCEPT ![r] = q]
    BY <1>1
  <2> HIDE DEF q
  <2> QED BY <1>4, <1>5, <2>1, RequestKept
<1> QED BY <1>6 DEF FailoverInvariant, Ask

LEMMA AnswerStepKept ==
    ASSUME FailoverInvariant, NEW r \in Requests, Answer(r) \/ AnswerCompatibly(r)
    PROVE  FailoverInvariant'
<1> DEFINE q == request[r]
           c == [q EXCEPT !.error = "shape"]
<1>1. q \in RequestRows /\ RequestSound(q) /\ q.stage \in Active
  BY DEF FailoverInvariant, Answer, AnswerCompatibly, Active
<1>2. Asked(r) \in Providers
  BY <1>1, AskedIn DEF Asked
<1>3. circuit' \in [Providers -> Circuits] /\ \A o \in Providers : CircuitSound(circuit'[o])
  BY <1>2, CircuitsKept DEF Answer, AnswerCompatibly
<1>4. /\ c \in RequestRows /\ c.stage = q.stage /\ c.plan = q.plan /\ c.tried = q.tried
      /\ c.admitted = q.admitted /\ c.spoke = q.spoke
  <2> HIDE DEF q
  <2> QED BY <1>1 DEF RequestRows
<1>5. request' = [request EXCEPT ![r] = Answered(q)] \/ request' = [request EXCEPT ![r] = Answered(c)]
  BY DEF Answer, AnswerCompatibly, FailoverInvariant
<1> HIDE DEF q, c
<1>6. RequestSound(c)
  BY <1>1, <1>4, NotedSound
<1>7. /\ Answered(q) \in RequestRows /\ RequestSound(Answered(q))
      /\ Answered(c) \in RequestRows /\ RequestSound(Answered(c))
  BY <1>1, <1>4, <1>6, AnsweredSound
<1>8. request' \in [Requests -> RequestRows] /\ \A o \in Requests : RequestSound(request'[o])
  BY <1>5, <1>7, RequestKept
<1> QED BY <1>3, <1>8 DEF FailoverInvariant

LEMMA DeltaKept ==
    ASSUME FailoverInvariant, NEW r \in Requests, Delta(r) PROVE FailoverInvariant'
<1> DEFINE q == request[r]
           f == First(q.plan)
           p == [q EXCEPT !.spoke = @ \union {f}]
<1>1. q \in RequestRows /\ RequestSound(q) /\ q.stage \in Active
  BY DEF FailoverInvariant, Delta, Active
<1>2. f \in Providers /\ q.spoke \subseteq {f}
  BY <1>1, AskedIn DEF RequestSound
<1>3. request' = [request EXCEPT ![r] = p]
  BY DEF Delta, Asked, FailoverInvariant
<1>4. /\ p \in RequestRows /\ p.stage = q.stage /\ p.plan = q.plan /\ p.tried = q.tried
      /\ p.admitted = q.admitted /\ p.spoke = q.spoke \union {f}
  <2> HIDE DEF q, f
  <2> QED BY <1>1, <1>2 DEF RequestRows
<1>5. f = First(p.plan) /\ f \in Nat
  BY <1>2, <1>4, FailoverAssumption DEF Providers
<1> HIDE DEF q, f, p
<1>6. RequestSound(p)
  BY <1>1, <1>2, <1>4, <1>5 DEF RequestSound, Active
<1>7. request' \in [Requests -> RequestRows] /\ \A o \in Requests : RequestSound(request'[o])
  BY <1>3, <1>4, <1>6, RequestKept
<1> QED BY <1>7 DEF FailoverInvariant, Delta

LEMMA AttemptFailsKept ==
    ASSUME FailoverInvariant, NEW r \in Requests, AttemptFails(r) PROVE FailoverInvariant'
<1> DEFINE q == request[r]
<1>1. q \in RequestRows /\ RequestSound(q) /\ q.stage \in Active
  BY DEF FailoverInvariant, AttemptFails, Active
<1>2. PICK error \in {"shape", "other"} :
         LET p == WithError(q, error)
         IN \/ request' = [request EXCEPT ![r] = [p EXCEPT !.tries = @ + 1]] /\ UNCHANGED circuit
            \/ /\ request' = [request EXCEPT ![r] = [p EXCEPT !.stage = "fallback", !.tries = 0]]
               /\ UNCHANGED circuit
            \/ Fails(r, p)
  BY DEF AttemptFails
<1> DEFINE p == WithError(q, error)
<1>3. p \in RequestRows /\ RequestSound(p) /\ p.stage \in Active /\ p.plan = q.plan
  <2> HIDE DEF q
  <2> QED BY <1>1, WithErrorSound
<1>4. CASE Fails(r, p)
  <2>1. p.plan = request[r].plan
    BY <1>3
  <2> HIDE DEF p
  <2> QED BY <1>3, <1>4, <2>1, FailsKept
<1>5. ASSUME NEW n \in RequestRows, n.stage \in Active, n.plan = p.plan, n.tried = p.tried,
             n.admitted = p.admitted, n.spoke = p.spoke,
             request' = [request EXCEPT ![r] = n], UNCHANGED circuit
      PROVE  FailoverInvariant'
  <2> HIDE DEF p, q
  <2>1. RequestSound(n)
    BY <1>3, <1>5, NotedSound
  <2>2. request' \in [Requests -> RequestRows] /\ \A o \in Requests : RequestSound(request'[o])
    BY <1>5, <2>1, RequestKept
  <2> QED BY <1>5, <2>2 DEF FailoverInvariant
<1> DEFINE n1 == [p EXCEPT !.tries = @ + 1]
           n2 == [p EXCEPT !.stage = "fallback", !.tries = 0]
<1>6. /\ n1 \in RequestRows /\ n1.stage = p.stage /\ n1.plan = p.plan /\ n1.tried = p.tried
      /\ n1.admitted = p.admitted /\ n1.spoke = p.spoke
  <2> HIDE DEF p
  <2> QED BY <1>3 DEF RequestRows
<1>7. /\ n2 \in RequestRows /\ n2.stage \in Active /\ n2.plan = p.plan /\ n2.tried = p.tried
      /\ n2.admitted = p.admitted /\ n2.spoke = p.spoke
  <2> HIDE DEF p
  <2> QED BY <1>3 DEF RequestRows, Active
<1>8. \/ request' = [request EXCEPT ![r] = n1] /\ UNCHANGED circuit
      \/ request' = [request EXCEPT ![r] = n2] /\ UNCHANGED circuit
      \/ Fails(r, p)
  BY <1>2
<1> HIDE DEF n1, n2, p, q
<1> QED BY <1>3, <1>4, <1>5, <1>6, <1>7, <1>8

LEMMA AttemptBreaksKept ==
    ASSUME FailoverInvariant, NEW r \in Requests, AttemptBreaks(r) PROVE FailoverInvariant'
<1> DEFINE q == request[r]
           p == WithError(q, "other")
           o == [q EXCEPT !.error = "other"]
<1>1. q \in RequestRows /\ RequestSound(q) /\ q.stage \in Active
  BY DEF FailoverInvariant, AttemptBreaks, Active
<1>2. Fails(r, p) \/ Fails(r, o)
  BY DEF AttemptBreaks
<1>3. p \in RequestRows /\ RequestSound(p) /\ p.stage \in Active /\ p.plan = request[r].plan
  BY <1>1, WithErrorSound
<1>4. /\ o \in RequestRows /\ o.stage = q.stage /\ o.plan = q.plan /\ o.tried = q.tried
      /\ o.admitted = q.admitted /\ o.spoke = q.spoke
  <2> HIDE DEF q
  <2> QED BY <1>1 DEF RequestRows
<1>5. o.plan = request[r].plan
  BY <1>4
<1> HIDE DEF q, p, o
<1>6. RequestSound(o)
  BY <1>1, <1>4, NotedSound
<1> QED BY <1>1, <1>2, <1>3, <1>4, <1>5, <1>6, FailsKept

LEMMA CooldownKept ==
    ASSUME FailoverInvariant, NEW p \in Providers, CooldownElapses(p) PROVE FailoverInvariant'
<1> DEFINE c == [circuit[p] EXCEPT !.state = "half_open"]
<1>1. circuit[p] \in Circuits /\ CircuitSound(circuit[p]) /\ circuit[p].state = "open"
  BY DEF FailoverInvariant, CooldownElapses
<1>2. c \in Circuits /\ c.fails = circuit[p].fails
  BY <1>1 DEF Circuits
<1>3. circuit' = [circuit EXCEPT ![p] = c]
  BY DEF CooldownElapses, FailoverInvariant
<1> HIDE DEF c
<1>4. CircuitSound(c)
  BY <1>1, <1>2 DEF CircuitSound
<1> QED BY <1>2, <1>3, <1>4 DEF FailoverInvariant, CooldownElapses

LEMMA FailoverStep ==
    ASSUME FailoverInvariant, [FailoverNext]_failoverVars PROVE FailoverInvariant'
<1>1. CASE UNCHANGED failoverVars
  BY <1>1 DEF failoverVars, FailoverInvariant
<1>2. ASSUME NEW r \in Requests, ReturnAnswer(r) PROVE FailoverInvariant'
  <2>1. request' = [request EXCEPT ![r] = NoRequest] /\ circuit' = circuit
    BY <1>2 DEF ReturnAnswer
  <2> QED BY <2>1, NoRequestSound, RequestKept DEF FailoverInvariant
<1> QED BY <1>1, <1>2, AskKept, AnswerStepKept, DeltaKept, AttemptFailsKept, AttemptBreaksKept,
           CooldownKept DEF FailoverNext

\* FailoverProvider::complete and complete_stream: for any number of providers,
\* thresholds, retries and concurrent requests that share the circuits, no reader
\* gets text of two providers, no admitted provider is passed over without a
\* reason, and no circuit opens early.
THEOREM FailoverHolds == FailoverSpec => []FailoverIsSound
<1>1. FailoverInit => FailoverInvariant
  <2> SUFFICES ASSUME FailoverInit PROVE FailoverInvariant
    OBVIOUS
  <2>1. \A p \in Providers : circuit[p] = [fails |-> 0, state |-> "closed"]
    BY DEF FailoverInit
  <2>2. circuit \in [Providers -> Circuits]
    BY DEF FailoverInit, Circuits
  <2> QED BY <2>1, <2>2, NoRequestSound DEF FailoverInit, FailoverInvariant, CircuitSound
<1>2. FailoverInvariant /\ [FailoverNext]_failoverVars => FailoverInvariant'
  BY FailoverStep
<1>3. FailoverInvariant => FailoverIsSound
  <2> SUFFICES ASSUME FailoverInvariant PROVE FailoverIsSound
    OBVIOUS
  <2>1. ASSUME NEW r \in Requests PROVE Cardinality(request[r].spoke) <= 1
    <3>1. PICK p \in Nat : request[r].spoke \subseteq {p}
      BY DEF FailoverInvariant, RequestSound
    <3>2. IsFiniteSet({p}) /\ Cardinality({p}) = 1
      BY FS_Singleton
    <3>3. /\ Cardinality(request[r].spoke) <= Cardinality({p})
          /\ Cardinality(request[r].spoke) \in Nat
      BY <3>1, <3>2, FS_Subset, FS_CardinalityType
    <3> QED BY <3>2, <3>3
  <2> QED BY <2>1 DEF FailoverInvariant, RequestSound, CircuitSound, FailoverIsSound
<1> QED BY <1>1, <1>2, <1>3, PTL DEF FailoverSpec

-----------------------------------------------------------------------------
(* Turns and their answers.                                                *)
(*                                                                         *)
(* Every way out of a turn goes through Finalized with the record of       *)
(* failed tools the turn ends with.  A plain call is verified as one that  *)
(* used no tool, which is what it is.                                      *)

TurnStages ==
    {"idle", "plain", "loop", "code", "load", "store", "trip", "reset", "decide", "done"}
RunEnds == {"final_answer", "tool_error", "max_iterations"}
Sayings == {"none", "error", "safe"} \union Shapes
TurnRows ==
    [stage : TurnStages, stream : BOOLEAN, attempt : {"none", "normal", "probe", "opened"},
     alert : BOOLEAN, seen : Nat, iteration : Nat, retried : BOOLEAN, failed : BOOLEAN,
     run : {"none", "open", "internal_error"} \union RunEnds, reply : Sayings, told : Sayings]
Breakers == [open : BOOLEAN, streak : Nat, probes : Nat]

\* What has been said, of a turn with such a record of failed tools.
Sayable(said, failed) ==
    said \in {"none", "error"} \/ (Blocking => said = "safe" \/ Passes(said, failed))

TurnSound(q) ==
    /\ q.stage = "plain" => q.failed = FALSE
    /\ q.stage = "done" =>
          /\ Sayable(q.reply, q.failed) /\ Sayable(q.told, q.failed)
          /\ q.run \notin {"none", "open"}
          /\ q.reply # "error" => q.run # "internal_error"

CompletionInvariant ==
    /\ breaker \in Breakers /\ turns \in [Turns -> TurnRows]
    /\ \A t \in Turns : TurnSound(turns[t])

LEMMA NoTurnSound == NoTurn \in TurnRows /\ TurnSound(NoTurn)
<1>1. NoTurn \in TurnRows
  BY DEF NoTurn, TurnRows, TurnStages, Sayings, RunEnds
<1>2. NoTurn.stage = "idle"
  BY DEF NoTurn
<1> QED BY <1>1, <1>2 DEF TurnSound

\* A turn that is neither over nor a plain call has nothing to answer for.
LEMMA UnderWay ==
    ASSUME NEW q \in TurnRows, q.stage \notin {"plain", "done"} PROVE TurnSound(q)
BY DEF TurnSound

LEMMA TurnKept ==
    ASSUME CompletionInvariant, NEW t \in Turns, NEW q \in TurnRows, TurnSound(q), To(t, q),
           mode' = mode
    PROVE  turns' \in [Turns -> TurnRows] /\ \A o \in Turns : TurnSound(turns[o])'
<1>1. turns' = [turns EXCEPT ![t] = q]
  BY DEF To
<1>2. turns' \in [Turns -> TurnRows]
  BY <1>1 DEF CompletionInvariant
<1>3. ASSUME NEW o \in Turns PROVE TurnSound(turns[o])'
  <2>1. turns'[o] = IF o = t THEN q ELSE turns[o]
    BY <1>1 DEF CompletionInvariant
  <2>2. TurnSound(turns[o])
    BY DEF CompletionInvariant
  <2>3. CASE o = t
    <3>1. turns'[o] = q
      BY <2>1, <2>3
    <3> QED BY <3>1 DEF TurnSound, Sayable, Blocking
  <2>4. CASE o # t
    <3>1. turns'[o] = turns[o]
      BY <2>1, <2>4
    <3> QED BY <2>2, <3>1 DEF TurnSound, Sayable, Blocking
  <2> QED BY <2>3, <2>4
<1> QED BY <1>2, <1>3

LEMMA TurnMoves ==
    ASSUME CompletionInvariant, NEW t \in Turns, NEW q \in TurnRows, TurnSound(q), To(t, q),
           mode' = mode, breaker' \in Breakers
    PROVE  CompletionInvariant'
BY TurnKept DEF CompletionInvariant

LEMMA EndedSound ==
    ASSUME NEW q \in TurnRows, NEW how \in {"internal_error"} \union RunEnds,
           NEW reply \in Sayings, NEW told \in Sayings,
           Sayable(reply, q.failed), Sayable(told, q.failed),
           reply # "error" => how # "internal_error"
    PROVE  /\ Ended(q, how, reply, told) \in TurnRows /\ TurnSound(Ended(q, how, reply, told))
           /\ Ended(q, how, reply, told).stage = "done"
<1> DEFINE f == q.failed
           e == [NoTurn EXCEPT !.stage = "done", !.failed = f, !.run = how, !.reply = reply, !.told = told]
<1>1. f \in BOOLEAN
  BY DEF TurnRows
<1>2. Ended(q, how, reply, told) = e
  BY DEF Ended
<1> HIDE DEF f
<1>3. NoTurn \in TurnRows
  BY NoTurnSound
<1>4. /\ e \in TurnRows /\ e.stage = "done" /\ e.failed = f /\ e.run = how /\ e.reply = reply
      /\ e.told = told
  BY <1>1, <1>3 DEF TurnRows, TurnStages
<1> HIDE DEF e
<1>5. Sayable(e.reply, e.failed) /\ Sayable(e.told, e.failed)
  BY <1>4 DEF f
<1>6. e.run \notin {"none", "open"} /\ (e.reply # "error" => e.run # "internal_error")
  BY <1>4 DEF RunEnds
<1> QED BY <1>2, <1>4, <1>5, <1>6 DEF TurnSound

LEMMA BrokenSound ==
    ASSUME NEW q \in TurnRows
    PROVE  Broken(q) \in TurnRows /\ TurnSound(Broken(q))
BY EndedSound DEF Broken, Sayings, Sayable

\* OutputExit::finalize lets nothing through that may not be said.
LEMMA FinalizedSound ==
    ASSUME NEW failed \in BOOLEAN, NEW reply \in Shapes, NEW r \in Finalized(reply, failed)
    PROVE  r \in Sayings /\ Sayable(r, failed)
<1>1. CASE mode.output \in {"off", "observe"}
  BY <1>1 DEF Finalized, Sayings, Sayable, Blocking
<1>2. CASE mode.output \notin {"off", "observe"} /\ Passes(reply, failed)
  BY <1>2 DEF Finalized, Sayings, Sayable
<1>3. CASE mode.output \notin {"off", "observe"} /\ ~Passes(reply, failed)
  <2>1. r \in {"error", "safe"} \union {s \in Shapes : Passes(s, failed)}
    BY <1>3 DEF Finalized
  <2> QED BY <2>1 DEF Sayings, Sayable
<1> QED BY <1>1, <1>2, <1>3

LEMMA ExitSound ==
    ASSUME NEW q \in TurnRows, NEW how \in RunEnds, NEW reply \in Shapes,
           NEW next \in Exit(q, how, reply)
    PROVE  next \in TurnRows /\ TurnSound(next)
<1>0. q.failed \in BOOLEAN /\ q.stream \in BOOLEAN
  BY DEF TurnRows
<1>1. PICK r \in Finalized(reply, q.failed) :
         next \in CASE r = "error" -> {Broken(q)}
                    [] r # "error" /\ ~q.stream -> {Ended(q, how, r, "none")}
                    [] r # "error" /\ q.stream -> {Ended(q, how, r, r), Ended(q, "internal_error", "error", r)}
  BY DEF Exit
<1>2. r \in Sayings /\ Sayable(r, q.failed)
  BY <1>0, FinalizedSound
<1>3. \/ next = Broken(q) \/ next = Ended(q, how, r, "none") \/ next = Ended(q, how, r, r)
      \/ next = Ended(q, "internal_error", "error", r)
  BY <1>0, <1>1
<1>4. {"none", "error"} \subseteq Sayings /\ Sayable("none", q.failed) /\ Sayable("error", q.failed)
  BY DEF Sayings, Sayable
<1>5. how # "internal_error"
  BY DEF RunEnds
<1> QED BY <1>2, <1>3, <1>4, <1>5, BrokenSound, EndedSound

LEMMA AskedForAnswerSound ==
    ASSUME NEW q \in TurnRows, NEW how \in RunEnds, NEW next \in AskedForAnswer(q, how)
    PROVE  next \in TurnRows /\ TurnSound(next)
BY ExitSound, BrokenSound DEF AskedForAnswer

LEMMA RejectedSound ==
    ASSUME NEW q \in TurnRows, q.stage = "loop", NEW next \in Rejected(q) \union Unparsed(q)
    PROVE  next \in TurnRows /\ TurnSound(next)
<1> DEFINE f == [q EXCEPT !.failed = TRUE]
           n == q.iteration + 1
           r == [q EXCEPT !.retried = TRUE, !.failed = TRUE, !.iteration = n]
           u == [q EXCEPT !.retried = TRUE, !.iteration = n]
<1>a. f \in TurnRows
  BY DEF TurnRows
<1>1. n \in Nat
  BY DEF TurnRows
<1>b. r \in TurnRows /\ r.stage = "loop"
  <2> HIDE DEF n
  <2> QED BY <1>1 DEF TurnRows
<1>c. u \in TurnRows /\ u.stage = "loop"
  <2> HIDE DEF n
  <2> QED BY <1>1 DEF TurnRows
<1>2. \/ next \in AskedForAnswer(f, "tool_error") \/ next \in AskedForAnswer(q, "tool_error")
      \/ next = r \/ next = u
  BY DEF Rejected, Unparsed
<1> HIDE DEF f, r, u
<1>3. "tool_error" \in RunEnds
  BY DEF RunEnds
<1> QED BY <1>a, <1>b, <1>c, <1>2, <1>3, AskedForAnswerSound, UnderWay

LEMMA CalledSound ==
    ASSUME mode \in Modes, NEW q \in TurnRows, q.stage = "loop", NEW result \in {"ok", "odd", "error"},
           NEW next \in Called(q, result)
    PROVE  next \in TurnRows /\ TurnSound(next)
<1> DEFINE objection == mode.tool # "none" /\ result # "ok"
           failed == q.failed \/ objection \/ result = "error"
           recorded == [q EXCEPT !.failed = failed]
           on == [recorded EXCEPT !.iteration = @ + 1]
<1>1. failed \in BOOLEAN
  OBVIOUS
<1>2. recorded \in TurnRows /\ recorded.stage = "loop"
  <2> HIDE DEF failed
  <2> QED BY <1>1 DEF TurnRows
<1>3. on \in TurnRows /\ on.stage = "loop"
  <2> HIDE DEF recorded
  <2> QED BY <1>2 DEF TurnRows
<1>4. next \in CASE ~objection \/ mode.tool = "observe" -> {on}
                 [] objection /\ mode.tool = "retry" -> Rejected(recorded)
                 [] objection /\ mode.tool = "block" -> AskedForAnswer(recorded, "tool_error")
  BY DEF Called
<1>5. mode.tool \in {"none", "observe", "retry", "block"}
  BY CompletionAssumption
<1> HIDE DEF on, recorded, failed
<1>6. next = on \/ next \in Rejected(recorded) \/ next \in AskedForAnswer(recorded, "tool_error")
  BY <1>4, <1>5
<1>7. "tool_error" \in RunEnds
  BY DEF RunEnds
<1> QED BY <1>2, <1>3, <1>6, <1>7, UnderWay, RejectedSound, AskedForAnswerSound

LEMMA LoopOutcomesSound ==
    ASSUME mode \in Modes, NEW q \in TurnRows, q.stage = "loop", NEW reply \in Shapes,
           NEW next \in LoopOutcomes(q, reply)
    PROVE  next \in TurnRows /\ TurnSound(next)
<1>1. CASE reply \in {"answer", "owns_up", "empty"}
  <2>1. next \in Exit(q, "final_answer", reply)
    BY <1>1 DEF LoopOutcomes
  <2>2. "final_answer" \in RunEnds
    BY DEF RunEnds
  <2> QED BY <2>1, <2>2, ExitSound
<1>2. CASE reply = "malformed"
  <2>1. next \in Unparsed(q)
    BY <1>2 DEF LoopOutcomes
  <2> QED BY <2>1, RejectedSound
<1>3. CASE reply \in {"call", "wrapped"}
  <2>1. next \in Rejected(q) \union UNION {Called(q, result) : result \in {"ok", "odd", "error"}}
    BY <1>3 DEF LoopOutcomes
  <2>2. next \in Rejected(q) \/ \E result \in {"ok", "odd", "error"} : next \in Called(q, result)
    BY <2>1
  <2> QED BY <2>2, RejectedSound, CalledSound
<1> QED BY <1>1, <1>2, <1>3 DEF Shapes

LEMMA FallBackSound ==
    ASSUME NEW q, q.stream \in BOOLEAN PROVE FallBack(q) \in TurnRows /\ TurnSound(FallBack(q))
<1> DEFINE s == q.stream
           f == [NoTurn EXCEPT !.stage = "loop", !.stream = s, !.run = "open"]
<1>1. FallBack(q) = f
  BY DEF FallBack
<1>2. f \in TurnRows /\ f.stage = "loop"
  <2> HIDE DEF s
  <2>1. s \in BOOLEAN
    BY DEF s
  <2> QED BY <2>1, NoTurnSound DEF TurnRows, TurnStages
<1> HIDE DEF f
<1> QED BY <1>1, <1>2, UnderWay

LEMMA StartKept ==
    ASSUME CompletionInvariant, NEW t \in Turns, StartPlain(t) \/ StartWithTools(t)
    PROVE  CompletionInvariant'
<1>0. mode' = mode
  BY DEF StartPlain, StartWithTools
<1>1. CASE StartPlain(t)
  <2>1. PICK stream \in BOOLEAN : To(t, [NoTurn EXCEPT !.stream = stream, !.stage = "plain", !.run = "open"])
    BY <1>1 DEF StartPlain
  <2> DEFINE q == [NoTurn EXCEPT !.stream = stream, !.stage = "plain", !.run = "open"]
  <2>2. q \in TurnRows /\ q.stage = "plain" /\ q.failed = NoTurn.failed
    BY NoTurnSound DEF TurnRows, TurnStages
  <2>3. NoTurn.failed = FALSE
    BY DEF NoTurn
  <2>4. To(t, q)
    BY <2>1
  <2> HIDE DEF q
  <2>5. TurnSound(q)
    BY <2>2, <2>3 DEF TurnSound
  <2>6. breaker' \in Breakers
    BY <1>1 DEF StartPlain, CompletionInvariant
  <2> QED BY <1>0, <2>2, <2>4, <2>5, <2>6, TurnMoves
<1>2. CASE StartWithTools(t)
  <2>1. PICK stream \in BOOLEAN :
           LET q == [NoTurn EXCEPT !.stream = stream] IN
           \/ /\ breaker' = [breaker EXCEPT !.probes = NextAttempt.probes]
              /\ To(t, IF NextAttempt.attempt = "none" THEN FallBack(q)
                       ELSE [q EXCEPT !.stage = "code", !.attempt = NextAttempt.attempt])
           \/ To(t, FallBack(q)) /\ UNCHANGED breaker
    BY <1>2 DEF StartWithTools
  <2> DEFINE q == [NoTurn EXCEPT !.stream = stream]
             a == NextAttempt.attempt
             n == NextAttempt.probes
             c == [q EXCEPT !.stage = "code", !.attempt = a]
  <2>2. a \in {"none", "normal", "probe"} /\ n \in Nat
    <3>1. breaker.probes \in Nat /\ ProbeEvery \in Nat \ {0}
      BY CompletionAssumption DEF CompletionInvariant, Breakers
    <3>2. (breaker.probes + 1) % ProbeEvery \in Nat
      BY <3>1
    <3> QED BY <3>1, <3>2 DEF NextAttempt
  <2>3. q \in TurnRows /\ q.stream \in BOOLEAN
    BY NoTurnSound DEF TurnRows
  <2>4. c \in TurnRows /\ c.stage = "code"
    <3> HIDE DEF q, a
    <3> QED BY <2>2, <2>3 DEF TurnRows, TurnStages
  <2>5. FallBack(q) \in TurnRows /\ TurnSound(FallBack(q))
    <3> HIDE DEF q
    <3> QED BY <2>3, FallBackSound
  <2>6. To(t, FallBack(q)) \/ To(t, c)
    BY <2>1
  <2>7. breaker' = [breaker EXCEPT !.probes = n] \/ breaker' = breaker
    BY <2>1
  <2> HIDE DEF q, a, n, c
  <2>8. breaker' \in Breakers
    BY <2>2, <2>7 DEF CompletionInvariant, Breakers
  <2> QED BY <1>0, <2>4, <2>5, <2>6, <2>8, TurnMoves, UnderWay
<1> QED BY <1>1, <1>2

LEMMA PlainKept ==
    ASSUME CompletionInvariant, NEW t \in Turns, PlainReply(t) \/ PlainStream(t)
    PROVE  CompletionInvariant'
<1> DEFINE q == turns[t]
<1>0. mode' = mode /\ breaker' \in Breakers
  BY DEF PlainReply, PlainStream, CompletionInvariant
<1>1. q \in TurnRows /\ q.failed = FALSE
  BY DEF PlainReply, PlainStream, CompletionInvariant, TurnSound
<1>2. "final_answer" \in RunEnds /\ "final_answer" # "internal_error"
  BY DEF RunEnds
<1>3. {"none", "error"} \union Shapes \subseteq Sayings /\ Sayable("none", q.failed) /\ Sayable("error", q.failed)
  BY DEF Sayings, Sayable
<1>4. CASE PlainReply(t)
  <2>1. CASE To(t, Broken(q))
    BY <1>0, <1>1, <2>1, BrokenSound, TurnMoves
  <2>2. CASE \E said \in Shapes : \E r \in Finalized(said, FALSE) : To(t, Ended(q, "final_answer", r, "none"))
    <3>1. PICK said \in Shapes :
             \E r \in Finalized(said, FALSE) : To(t, Ended(q, "final_answer", r, "none"))
      BY <2>2
    <3>2. PICK r \in Finalized(said, FALSE) : To(t, Ended(q, "final_answer", r, "none"))
      BY <3>1
    <3>3. r \in Sayings /\ Sayable(r, FALSE)
      BY FinalizedSound
    <3>4. Sayable(r, q.failed)
      BY <1>1, <3>3
    <3> HIDE DEF q
    <3>5. /\ Ended(q, "final_answer", r, "none") \in TurnRows
          /\ TurnSound(Ended(q, "final_answer", r, "none"))
      BY <1>1, <1>2, <1>3, <3>3, <3>4, EndedSound
    <3> QED BY <1>0, <3>2, <3>5, TurnMoves
  <2> QED BY <1>4, <2>1, <2>2 DEF PlainReply
<1>5. CASE PlainStream(t)
  <2>1. CASE \E next \in AskedForAnswer(q, "final_answer") : To(t, next)
    <3> HIDE DEF q
    <3> QED BY <1>0, <1>1, <1>2, <2>1, AskedForAnswerSound, TurnMoves
  <2>2. CASE mode.output = "off" /\ \E said \in Shapes : To(t, Ended(q, "internal_error", "error", said))
    <3>1. PICK said \in Shapes : To(t, Ended(q, "internal_error", "error", said))
      BY <2>2
    <3>2. Sayable(said, q.failed)
      BY <2>2 DEF Sayable, Blocking
    <3> HIDE DEF q
    <3>3. /\ Ended(q, "internal_error", "error", said) \in TurnRows
          /\ TurnSound(Ended(q, "internal_error", "error", said))
      BY <1>1, <1>3, <3>2, EndedSound
    <3> QED BY <1>0, <3>1, <3>3, TurnMoves
  <2> QED BY <1>5, <2>1, <2>2 DEF PlainStream
<1> QED BY <1>4, <1>5

LEMMA LoopKept ==
    ASSUME mode \in Modes, CompletionInvariant, NEW t \in Turns, LoopStep(t) \/ IterationsExhausted(t)
    PROVE  CompletionInvariant'
<1> DEFINE q == turns[t]
<1>0. mode' = mode /\ breaker' \in Breakers
  BY DEF LoopStep, IterationsExhausted, CompletionInvariant
<1>1. q \in TurnRows /\ q.stage = "loop"
  BY DEF LoopStep, IterationsExhausted, CompletionInvariant
<1>2. \/ \E reply \in Shapes : \E next \in LoopOutcomes(q, reply) : To(t, next)
      \/ To(t, Broken(q))
      \/ \E next \in AskedForAnswer(q, "max_iterations") : To(t, next)
  BY DEF LoopStep, IterationsExhausted
<1>3. "max_iterations" \in RunEnds
  BY DEF RunEnds
<1> HIDE DEF q
<1>4. \E next \in TurnRows : TurnSound(next) /\ To(t, next)
  BY <1>1, <1>2, <1>3, LoopOutcomesSound, BrokenSound, AskedForAnswerSound
<1> QED BY <1>0, <1>4, TurnMoves

LEMMA CodeKept ==
    ASSUME CompletionInvariant, NEW t \in Turns,
           CodeNotRun(t) \/ ExecutionFails(t) \/ ExecutePlan(t)
    PROVE  CompletionInvariant'
<1> DEFINE q == turns[t]
<1>0. mode' = mode /\ breaker' \in Breakers
  BY DEF CodeNotRun, ExecutionFails, ExecutePlan, CompletionInvariant
<1>1. q \in TurnRows /\ q.stream \in BOOLEAN
  BY DEF CompletionInvariant, TurnRows
<1>2. CASE CodeNotRun(t) \/ ExecutionFails(t)
  <2>1. To(t, FallBack(q))
    BY <1>2 DEF CodeNotRun, ExecutionFails
  <2> QED BY <1>0, <1>1, <2>1, FallBackSound, TurnMoves
<1>3. CASE ExecutePlan(t)
  <2>1. PICK plan \in {p \in Plans : Valid(p)} : \E failed \in 0 .. plan.calls : \E timedOut \in 0 .. failed :
           To(t, [q EXCEPT !.failed = failed > 0, !.alert = Alert(timedOut, plan.calls),
                           !.stage = IF mode.code = "shadow" THEN "decide" ELSE "load"])
    BY <1>3 DEF ExecutePlan
  <2>2. PICK failed \in 0 .. plan.calls : \E timedOut \in 0 .. failed :
           To(t, [q EXCEPT !.failed = failed > 0, !.alert = Alert(timedOut, plan.calls),
                           !.stage = IF mode.code = "shadow" THEN "decide" ELSE "load"])
    BY <2>1
  <2>3. PICK timedOut \in 0 .. failed :
           To(t, [q EXCEPT !.failed = failed > 0, !.alert = Alert(timedOut, plan.calls),
                           !.stage = IF mode.code = "shadow" THEN "decide" ELSE "load"])
    BY <2>2
  <2> DEFINE f == failed > 0
             a == Alert(timedOut, plan.calls)
             at == IF mode.code = "shadow" THEN "decide" ELSE "load"
             n == [q EXCEPT !.failed = f, !.alert = a, !.stage = at]
  <2>4. f \in BOOLEAN /\ a \in BOOLEAN /\ at \in {"decide", "load"}
    BY DEF Alert
  <2>5. To(t, n)
    BY <2>3
  <2> HIDE DEF f, a, at, q
  <2>6. n \in TurnRows /\ n.stage \in {"decide", "load"}
    BY <1>1, <2>4 DEF TurnRows, TurnStages
  <2> HIDE DEF n
  <2> QED BY <1>0, <2>5, <2>6, UnderWay, TurnMoves
<1> QED BY <1>2, <1>3

LEMMA CircuitStepsKept ==
    ASSUME CompletionInvariant, NEW t \in Turns,
           LoadStreak(t) \/ StoreStreak(t) \/ TripCircuit(t) \/ ResetCircuit(t)
    PROVE  CompletionInvariant'
<1> DEFINE q == turns[t]
<1>0. mode' = mode
  BY DEF LoadStreak, StoreStreak, TripCircuit, ResetCircuit
<1>1. q \in TurnRows /\ breaker \in Breakers
  BY DEF CompletionInvariant
<1>2. CASE LoadStreak(t)
  <2> DEFINE seen == IF q.alert THEN Min({breaker.streak + 1, StreakLimit}) ELSE 0
             n == [q EXCEPT !.stage = "store", !.seen = seen]
  <2>1. breaker.streak + 1 \in Nat /\ StreakLimit \in Nat
    BY <1>1, CompletionAssumption DEF Breakers
  <2>2. Min({breaker.streak + 1, StreakLimit}) \in Nat
    BY <2>1, SmallerOfTwo
  <2>3. seen \in Nat
    BY <2>2
  <2>4. To(t, n) /\ breaker' = breaker
    BY <1>2 DEF LoadStreak
  <2> HIDE DEF seen, q
  <2>5. n \in TurnRows /\ n.stage = "store"
    BY <1>1, <2>3 DEF TurnRows, TurnStages
  <2> HIDE DEF n
  <2> QED BY <1>0, <1>1, <2>4, <2>5, UnderWay, TurnMoves
<1>3. CASE StoreStreak(t)
  <2> DEFINE n == [q EXCEPT !.stage = "trip"]
             s == q.seen
  <2>1. s \in Nat
    BY <1>1 DEF TurnRows
  <2>2. To(t, n) /\ breaker' = [breaker EXCEPT !.streak = s]
    BY <1>3 DEF StoreStreak
  <2> HIDE DEF q, s
  <2>3. n \in TurnRows /\ n.stage = "trip"
    BY <1>1 DEF TurnRows, TurnStages
  <2>4. breaker' \in Breakers
    BY <1>1, <2>1, <2>2 DEF Breakers
  <2> HIDE DEF n
  <2> QED BY <1>0, <2>2, <2>3, <2>4, UnderWay, TurnMoves
<1>4. CASE TripCircuit(t)
  <2> DEFINE opens == q.seen >= StreakLimit
             closes == ~opens /\ ~q.alert /\ breaker.open
             open == (breaker.open \/ opens) /\ ~closes
             at == IF closes THEN "reset" ELSE "decide"
             a == IF opens /\ ~breaker.open THEN "opened" ELSE q.attempt
             n == [q EXCEPT !.seen = 0, !.alert = FALSE, !.stage = at, !.attempt = a]
  <2>1. open \in BOOLEAN /\ at \in {"reset", "decide"} /\ a \in {"none", "normal", "probe", "opened"}
    BY <1>1 DEF TurnRows
  <2>2. To(t, n) /\ breaker' = [breaker EXCEPT !.open = open]
    BY <1>4 DEF TripCircuit
  <2> HIDE DEF q, opens, closes, open, at, a
  <2>3. n \in TurnRows /\ n.stage \in {"reset", "decide"}
    BY <1>1, <2>1 DEF TurnRows, TurnStages
  <2>4. breaker' \in Breakers
    BY <1>1, <2>1, <2>2 DEF Breakers
  <2> HIDE DEF n
  <2> QED BY <1>0, <2>2, <2>3, <2>4, UnderWay, TurnMoves
<1>5. CASE ResetCircuit(t)
  <2> DEFINE n == [q EXCEPT !.stage = "decide"]
  <2>1. To(t, n) /\ breaker' = [breaker EXCEPT !.streak = 0, !.probes = 0]
    BY <1>5 DEF ResetCircuit
  <2> HIDE DEF q
  <2>2. n \in TurnRows /\ n.stage = "decide"
    BY <1>1 DEF TurnRows, TurnStages
  <2>3. breaker' \in Breakers
    BY <1>1, <2>1 DEF Breakers
  <2> HIDE DEF n
  <2> QED BY <1>0, <2>1, <2>2, <2>3, UnderWay, TurnMoves
<1> QED BY <1>2, <1>3, <1>4, <1>5

LEMMA UseResultsKept ==
    ASSUME CompletionInvariant, NEW t \in Turns, UseResults(t) PROVE CompletionInvariant'
<1> DEFINE q == turns[t]
           s == q.stream
           f == q.failed
           fresh == [NoTurn EXCEPT !.stream = s, !.failed = f, !.run = "open"]
<1>0. mode' = mode /\ breaker' \in Breakers
  BY DEF UseResults, CompletionInvariant
<1>1. s \in BOOLEAN /\ f \in BOOLEAN
  BY DEF CompletionInvariant, TurnRows
<1>2. \/ To(t, FallBack(q))
      \/ \E next \in AskedForAnswer(fresh, "final_answer") :
            To(t, IF next.reply = "error" /\ next.told = "none" THEN FallBack(q) ELSE next)
  BY DEF UseResults
<1>3. FallBack(q) \in TurnRows /\ TurnSound(FallBack(q))
  BY <1>1, FallBackSound
<1> HIDE DEF s, f, q
<1>4. fresh \in TurnRows
  BY <1>1, NoTurnSound DEF TurnRows
<1>5. "final_answer" \in RunEnds
  BY DEF RunEnds
<1> HIDE DEF fresh
<1>6. \E next \in TurnRows : TurnSound(next) /\ To(t, next)
  BY <1>2, <1>3, <1>4, <1>5, AskedForAnswerSound
<1> QED BY <1>0, <1>6, TurnMoves

LEMMA CompletionStep ==
    ASSUME mode \in Modes, CompletionInvariant, [CompletionNext]_completionVars
    PROVE  mode' \in Modes /\ CompletionInvariant'
<1>1. CASE UNCHANGED completionVars
  BY <1>1 DEF completionVars, CompletionInvariant, TurnSound, Sayable, Blocking
<1>2. ASSUME NEW t \in Turns, EndTurn(t) PROVE CompletionInvariant'
  BY <1>2, NoTurnSound, TurnMoves DEF EndTurn, CompletionInvariant
<1>3. ASSUME NEW t \in Turns, StartPlain(t) \/ StartWithTools(t) \/ TurnStep(t)
      PROVE  CompletionInvariant'
  BY <1>2, <1>3, StartKept, PlainKept, LoopKept, CodeKept, CircuitStepsKept, UseResultsKept
     DEF TurnStep
<1>4. ASSUME NEW t \in Turns, StartPlain(t) \/ StartWithTools(t) \/ TurnStep(t)
      PROVE  mode' = mode
  BY <1>4 DEF StartPlain, StartWithTools, TurnStep, PlainReply, PlainStream, LoopStep,
              IterationsExhausted, CodeNotRun, ExecutionFails, ExecutePlan, LoadStreak,
              StoreStreak, TripCircuit, ResetCircuit, UseResults, EndTurn
<1>5. CASE CompletionNext
  BY <1>3, <1>4, <1>5 DEF CompletionNext
<1>6. mode' \in Modes
  BY <1>1, <1>4 DEF completionVars, CompletionNext
<1> QED BY <1>1, <1>5, <1>6

\* Every path of complete_with_optional_mcp, streamed or not: whatever the model
\* says, however many iterations and calls there are and whatever the turns do to
\* the code mode circuit they share, a blocking configuration shows the user only
\* what the verifier passed.
THEOREM VerifiedHolds == CompletionSpec => []AnswerIsVerified
<1> DEFINE Inv == mode \in Modes /\ CompletionInvariant
<1>1. CompletionInit => Inv
  BY NoTurnSound DEF CompletionInit, CompletionInvariant, Breakers
<1>2. Inv /\ [CompletionNext]_completionVars => Inv'
  BY CompletionStep
<1>3. Inv => AnswerIsVerified
  BY DEF CompletionInvariant, TurnSound, Sayable, AnswerIsVerified
<1> QED BY <1>1, <1>2, <1>3, PTL DEF CompletionSpec

-----------------------------------------------------------------------------
(* Requests to an MCP server.                                              *)
(*                                                                         *)
(* An id is given out once by a process: whatever line of the process has  *)
(* the id of a request that is reading is that request's, and every line   *)
(* the server has written stands for something it has carried out.  A tool *)
(* call is written at most once, so at most one of its lines waits for the *)
(* server, and none once it has been carried out.                          *)

StdioStages == {"pool", "connect", "lock", "read", "failed"}
HttpStages == {"init", "post"}
McpLines == [id : Nat, of : Asks \union {Nobody},
             body : {"request", "result", "rpc_error", "fragment"}]
Processes == [alive : BOOLEAN, holder : Asks \union {Nobody}, next : Nat, inbox : SUBSET McpLines,
              lines : Seq(McpLines), torn : BOOLEAN]
AskRows == [stage : {"start", "done"} \union StdioStages \union HttpStages, process : Nat, id : Nat,
            tries : {0, 1}, reply : {"none", "result", "empty", "cached", "dropped", "error"},
            from : Asks \union {Nobody, "note"}]

Written(lines) == {lines[k] : k \in DOMAIN lines}

McpShape ==
    /\ transport \in {"stdio", "http"} /\ (transport = "http" => process = <<>>)
    /\ process \in Seq(Processes) /\ pool \in 0 .. Len(process)
    /\ ask \in [Asks -> AskRows] /\ executed \in [Asks -> Nat]

LinesSound ==
    \A s \in DOMAIN process :
       /\ process[s].next >= 2
       /\ \A m \in process[s].inbox : m.id >= 2 /\ m.id < process[s].next /\ m.of \in Asks
       /\ \A l \in Written(process[s].lines) :
             l.id = 0 \/ (l.id < process[s].next /\ l.of \in Asks /\ executed[l.of] > 0)

\* The request r reads what is meant for it.
Reading(r) ==
    LET p == process[ask[r].process] IN
    /\ ask[r].id >= 2 /\ ask[r].id < p.next
    /\ \A m \in p.inbox : m.id = ask[r].id => m.of = r
    /\ \A l \in Written(p.lines) : l.id = ask[r].id => l.of = r

Told(r) ==
    ask[r].reply \in {"result", "empty"} =>
       /\ executed[r] > 0
       /\ ask[r].from = r \/ (transport = "http" /\ ask[r].from = "note")

AskSound(r) ==
    /\ ask[r].stage \in StdioStages => transport = "stdio"
    /\ ask[r].stage \in HttpStages => transport = "http"
    /\ ask[r].stage \in {"lock", "read"} => ask[r].process \in DOMAIN process
    /\ ask[r].stage = "read" => Reading(r)
    /\ Told(r)

\* A call that is not yet written has left no trace, and one that waits for the
\* server waits there once.
StdioCall(r) ==
    /\ executed[r] <= 1
    /\ \A s \in DOMAIN process : \A m \in process[s].inbox : m.of = r =>
          /\ executed[r] = 0 /\ ask[r].stage \notin {"start", "pool", "connect", "lock"}
          /\ \A z \in DOMAIN process : \A n \in process[z].inbox : n.of = r => z = s /\ n = m
    /\ ask[r].stage \in {"start", "pool", "connect", "lock"} => executed[r] = 0

HttpCall(r) ==
    /\ executed[r] <= 2
    /\ ask[r].stage \in {"start", "init", "post"} => executed[r] <= ask[r].tries

CallSound(r) == IF transport = "http" THEN HttpCall(r) ELSE StdioCall(r)

McpInvariant ==
    /\ McpShape /\ LinesSound
    /\ \A r \in Asks : AskSound(r)
    /\ \A r \in ToolCalls : CallSound(r)

\* A step that gives nobody anything new to read or to carry out.
Calm ==
    /\ process' \in Seq(Processes) /\ DOMAIN process \subseteq DOMAIN process'
    /\ \A s \in DOMAIN process :
          /\ process'[s].next >= process[s].next
          /\ process'[s].inbox \subseteq process[s].inbox
          /\ \A l \in Written(process'[s].lines) : l.id = 0 \/ l \in Written(process[s].lines)
    /\ \A s \in DOMAIN process' \ DOMAIN process :
          process'[s].next = 2 /\ process'[s].inbox = {} /\ Written(process'[s].lines) = {}
    /\ UNCHANGED <<executed, transport>>

LEMMA ProcessRow ==
    ASSUME McpShape, NEW s \in DOMAIN process
    PROVE  /\ process[s] \in Processes /\ DOMAIN process = 1 .. Len(process)
           /\ Len(process) \in Nat /\ process[s].next \in Nat
           /\ process[s].inbox \subseteq McpLines /\ process[s].lines \in Seq(McpLines)
<1>1. DOMAIN process = 1 .. Len(process) /\ Len(process) \in Nat
  BY DEF McpShape
<1>2. process[s] \in Processes
  BY <1>1 DEF McpShape
<1> QED BY <1>1, <1>2 DEF Processes

\* One process is rewritten.
LEMMA ProcessWritten ==
    ASSUME McpShape, NEW s \in DOMAIN process, NEW p \in Processes,
           process' = [process EXCEPT ![s] = p]
    PROVE  /\ process' \in Seq(Processes) /\ DOMAIN process' = DOMAIN process
           /\ Len(process') = Len(process) /\ process'[s] = p
           /\ \A z \in DOMAIN process : z # s => process'[z] = process[z]
BY DEF McpShape

LEMMA CalmWrite ==
    ASSUME McpShape, NEW s \in DOMAIN process, NEW p \in Processes,
           process' = [process EXCEPT ![s] = p],
           p.next >= process[s].next, p.inbox \subseteq process[s].inbox,
           \A l \in Written(p.lines) : l.id = 0 \/ l \in Written(process[s].lines),
           UNCHANGED <<executed, transport>>
    PROVE  Calm /\ Len(process') = Len(process)
<1>1. /\ process' \in Seq(Processes) /\ DOMAIN process' = DOMAIN process
      /\ Len(process') = Len(process) /\ process'[s] = p
      /\ \A z \in DOMAIN process : z # s => process'[z] = process[z]
  BY ProcessWritten
<1>2. ASSUME NEW z \in DOMAIN process
      PROVE  /\ process'[z].next >= process[z].next
             /\ process'[z].inbox \subseteq process[z].inbox
             /\ \A l \in Written(process'[z].lines) : l.id = 0 \/ l \in Written(process[z].lines)
  <2>1. CASE z = s
    BY <1>1, <2>1
  <2>2. CASE z # s
    <3>1. process[z].next \in Nat
      BY ProcessRow
    <3> QED BY <1>1, <2>2, <3>1
  <2> QED BY <2>1, <2>2
<1> QED BY <1>1, <1>2 DEF Calm

LEMMA CalmLines ==
    ASSUME McpShape, LinesSound, Calm PROVE LinesSound'
<1> SUFFICES ASSUME NEW s \in DOMAIN process'
             PROVE  /\ process'[s].next >= 2
                    /\ \A m \in process'[s].inbox :
                          m.id >= 2 /\ m.id < process'[s].next /\ m.of \in Asks
                    /\ \A l \in Written(process'[s].lines) : l.id = 0 \/
                          (l.id < process'[s].next /\ l.of \in Asks /\ executed[l.of] > 0)
  BY DEF LinesSound, Calm
<1>0. process'[s].next \in Nat
  <2>1. process'[s] \in Processes
    BY DEF Calm
  <2> QED BY <2>1 DEF Processes
<1>1. CASE s \notin DOMAIN process
  BY <1>1 DEF Calm
<1>2. CASE s \in DOMAIN process
  <2>1. /\ process'[s].next >= process[s].next
        /\ process'[s].inbox \subseteq process[s].inbox
        /\ \A l \in Written(process'[s].lines) : l.id = 0 \/ l \in Written(process[s].lines)
    BY <1>2 DEF Calm
  <2>2. process[s].next \in Nat /\ process[s].inbox \subseteq McpLines
    BY <1>2, ProcessRow
  <2>3. \A m \in process[s].inbox : m.id \in Nat
    BY <2>2 DEF McpLines
  <2>4. process'[s].next >= 2
    BY <1>0, <1>2, <2>1, <2>2 DEF LinesSound
  <2>5. ASSUME NEW m \in process'[s].inbox
        PROVE  m.id >= 2 /\ m.id < process'[s].next /\ m.of \in Asks
    <3>1. m \in process[s].inbox /\ m.id \in Nat
      BY <2>1, <2>3
    <3>2. m.id >= 2 /\ m.id < process[s].next /\ m.of \in Asks
      BY <1>2, <3>1 DEF LinesSound
    <3> QED BY <1>0, <2>1, <2>2, <3>1, <3>2
  <2>6. ASSUME NEW l \in Written(process'[s].lines), l.id # 0
        PROVE  l.id < process'[s].next /\ l.of \in Asks /\ executed[l.of] > 0
    <3>1. l \in Written(process[s].lines)
      BY <2>1, <2>6
    <3>2. l.id < process[s].next /\ l.of \in Asks /\ executed[l.of] > 0
      BY <1>2, <2>6, <3>1 DEF LinesSound
    <3>3. l.id \in Nat
      <4>1. process[s].lines \in Seq(McpLines)
        BY <1>2, ProcessRow
      <4>2. l \in McpLines
        BY <3>1, <4>1 DEF Written
      <4> QED BY <4>2 DEF McpLines
    <3> QED BY <1>0, <2>1, <2>2, <3>2, <3>3
  <2> QED BY <2>4, <2>5, <2>6
<1> QED BY <1>1, <1>2

\* A request that is not touched by a calm step stays as it is.
LEMMA CalmAsk ==
    ASSUME McpShape, NEW r \in Asks, AskSound(r), Calm, ask'[r] = ask[r]
    PROVE  AskSound(r)'
<1>1. ask[r].stage = "read" => Reading(r)'
  <2> SUFFICES ASSUME ask[r].stage = "read" PROVE Reading(r)'
    OBVIOUS
  <2> DEFINE s == ask[r].process
  <2>1. s \in DOMAIN process /\ Reading(r)
    BY DEF AskSound
  <2>2. /\ process'[s].next >= process[s].next
        /\ process'[s].inbox \subseteq process[s].inbox
        /\ \A l \in Written(process'[s].lines) : l.id = 0 \/ l \in Written(process[s].lines)
    BY <2>1 DEF Calm
  <2>3. process[s].next \in Nat /\ process'[s].next \in Nat /\ ask[r].id \in Nat
    <3>1. process'[s] \in Processes
      BY <2>1 DEF Calm
    <3>2. ask[r] \in AskRows
      BY DEF McpShape
    <3> QED BY <2>1, <3>1, <3>2, ProcessRow DEF Processes, AskRows
  <2>4. ask[r].id >= 2 /\ ask[r].id < process[s].next
    BY <2>1 DEF Reading
  <2>5. ask[r].id < process'[s].next /\ ask[r].id # 0
    BY <2>2, <2>3, <2>4
  <2>6. \A m \in process'[s].inbox : m.id = ask[r].id => m.of = r
    BY <2>1, <2>2 DEF Reading
  <2>7. \A l \in Written(process'[s].lines) : l.id = ask[r].id => l.of = r
    BY <2>1, <2>2, <2>5 DEF Reading
  <2> QED BY <2>4, <2>5, <2>6, <2>7 DEF Reading
<1>2. Told(r)'
  BY DEF AskSound, Told, Calm
<1>3. ask[r].stage \in {"lock", "read"} => ask[r].process \in DOMAIN process'
  BY DEF AskSound, Calm
<1> QED BY <1>1, <1>2, <1>3 DEF AskSound, Calm

\* A call that does not go back to a stage before its line is written, or before
\* its next POST, is not carried out more often by a calm step.
LEMMA CalmCall ==
    ASSUME McpShape, NEW r \in ToolCalls, CallSound(r), Calm,
           ask'[r].stage \in {"start", "pool", "connect", "lock"} =>
              ask[r].stage \in {"start", "pool", "connect", "lock"},
           ask'[r].stage \in {"start", "init", "post"} =>
              ask[r].stage \in {"start", "init", "post"} /\ ask'[r].tries = ask[r].tries
    PROVE  CallSound(r)'
<1>1. CASE transport = "http"
  BY <1>1 DEF CallSound, HttpCall, Calm
<1>2. CASE transport # "http"
  <2>1. StdioCall(r) /\ transport' = transport /\ executed' = executed
    BY <1>2 DEF CallSound, Calm
  <2>2. ASSUME NEW s \in DOMAIN process', NEW m \in process'[s].inbox
        PROVE  s \in DOMAIN process /\ m \in process[s].inbox
    BY <2>2 DEF Calm
  <2>3. StdioCall(r)'
    BY <2>1, <2>2 DEF StdioCall
  <2> QED BY <1>2, <2>1, <2>3 DEF CallSound
<1> QED BY <1>1, <1>2

\* A calm step in which request r becomes a.
LEMMA CalmMove ==
    ASSUME McpInvariant, Calm, pool' \in 0 .. Len(process'), transport = "http" => process' = <<>>,
           NEW r \in Asks, NEW a \in AskRows, ask' = [ask EXCEPT ![r] = a],
           a.stage # "read",
           a.stage \in StdioStages => transport = "stdio",
           a.stage \in HttpStages => transport = "http",
           a.stage = "lock" => a.process \in DOMAIN process',
           a.reply \in {"result", "empty"} =>
              executed[r] > 0 /\ (a.from = r \/ (transport = "http" /\ a.from = "note")),
           r \in ToolCalls =>
              /\ a.stage \in {"start", "pool", "connect", "lock"} =>
                    ask[r].stage \in {"start", "pool", "connect", "lock"}
              /\ a.stage \in {"start", "init", "post"} =>
                    ask[r].stage \in {"start", "init", "post"} /\ a.tries = ask[r].tries
    PROVE  McpInvariant'
<1>1. /\ ask' \in [Asks -> AskRows] /\ ask'[r] = a
      /\ \A o \in Asks : o # r => ask'[o] = ask[o]
  BY DEF McpInvariant, McpShape
<1>2. McpShape'
  BY <1>1 DEF McpInvariant, McpShape, Calm
<1>3. LinesSound'
  BY CalmLines DEF McpInvariant
<1>4. AskSound(r)'
  BY <1>1 DEF AskSound, Told, Calm
<1>5. \A o \in Asks : AskSound(o)'
  BY <1>1, <1>4, CalmAsk DEF McpInvariant
<1>6. \A o \in ToolCalls : CallSound(o)'
  <2> TAKE o \in ToolCalls
  <2>1. McpShape /\ CallSound(o) /\ o \in Asks
    BY DEF McpInvariant, Asks
  <2>2. CASE o = r
    BY <1>1, <2>1, <2>2, CalmCall
  <2>3. CASE o # r
    BY <1>1, <2>1, <2>3, CalmCall
  <2> QED BY <2>2, <2>3
<1> QED BY <1>2, <1>3, <1>5, <1>6 DEF McpInvariant

LEMMA CalmStay ==
    ASSUME McpInvariant, Calm, pool' = pool, Len(process') = Len(process), ask' = ask,
           transport = "http" => process' = <<>>
    PROVE  McpInvariant'
<1>2. McpShape'
  BY DEF McpInvariant, McpShape, Calm
<1>3. LinesSound'
  BY CalmLines DEF McpInvariant
<1>5. \A o \in Asks : AskSound(o)'
  BY CalmAsk DEF McpInvariant
<1>6. \A o \in ToolCalls : CallSound(o)'
  BY CalmCall DEF McpInvariant
<1> QED BY <1>2, <1>3, <1>5, <1>6 DEF McpInvariant

LEMMA UnchangedIsCalm ==
    ASSUME McpShape, UNCHANGED <<process, executed, transport>>
    PROVE  Calm /\ Len(process') = Len(process)
<1>1. \A s \in DOMAIN process : process[s].next \in Nat
  BY ProcessRow
<1> QED BY <1>1 DEF Calm, McpShape

\* The rows of a request that moves to another stage, and of one that is over.
LEMMA AskRow ==
    ASSUME McpInvariant, NEW r \in Asks
    PROVE  /\ ask[r] \in AskRows /\ AskSound(r) /\ ask[r].process \in Nat
           /\ ask[r].tries \in {0, 1}
BY DEF McpInvariant, McpShape, AskRows

LEMMA MovesRow ==
    ASSUME McpInvariant, NEW r \in Asks,
           NEW stage \in {"start", "done"} \union StdioStages \union HttpStages, Moves(r, stage)
    PROVE  \E a \in AskRows :
              /\ ask' = [ask EXCEPT ![r] = a] /\ a.stage = stage /\ a.process = ask[r].process
              /\ a.tries = ask[r].tries /\ a.reply = ask[r].reply /\ a.from = ask[r].from
<1> DEFINE q == ask[r]
           a == [q EXCEPT !.stage = stage]
<1>1. q \in AskRows /\ ask' = [ask EXCEPT ![r] = a]
  BY DEF McpInvariant, McpShape, Moves
<1> HIDE DEF q
<1>2. /\ a \in AskRows /\ a.stage = stage /\ a.process = q.process
      /\ a.tries = q.tries /\ a.reply = q.reply /\ a.from = q.from
  BY <1>1 DEF AskRows
<1> HIDE DEF a
<1> QED BY <1>1, <1>2 DEF q

LEMMA NoAskRow == NoAsk \in AskRows
BY DEF NoAsk, AskRows

LEMMA EndsRow ==
    ASSUME NEW r \in Asks, NEW reply \in {"result", "empty", "cached", "dropped", "error"},
           NEW from \in Asks \union {Nobody, "note"}, Ends(r, reply, from)
    PROVE  \E a \in AskRows :
              ask' = [ask EXCEPT ![r] = a] /\ a.stage = "done" /\ a.reply = reply /\ a.from = from
<1> DEFINE a == [NoAsk EXCEPT !.stage = "done", !.reply = reply, !.from = from]
<1>1. ask' = [ask EXCEPT ![r] = a]
  BY DEF Ends
<1>2. a \in AskRows /\ a.stage = "done" /\ a.reply = reply /\ a.from = from
  BY NoAskRow DEF AskRows
<1> HIDE DEF a
<1> QED BY <1>1, <1>2

\* A calm step after which request r is over without a result.
LEMMA CalmEnd ==
    ASSUME McpInvariant, Calm, pool' \in 0 .. Len(process'), transport = "http" => process' = <<>>,
           NEW r \in Asks, NEW reply \in {"cached", "dropped", "error"}, Ends(r, reply, Nobody)
    PROVE  McpInvariant'
<1>1. PICK a \in AskRows :
         ask' = [ask EXCEPT ![r] = a] /\ a.stage = "done" /\ a.reply = reply /\ a.from = Nobody
  BY EndsRow
<1>2. a.stage \notin StdioStages \union HttpStages
  BY <1>1 DEF StdioStages, HttpStages
<1> QED BY <1>1, <1>2, CalmMove

\* A calm step of stdio, after which request r has failed.
LEMMA CalmFail ==
    ASSUME McpInvariant, Calm, pool' \in 0 .. Len(process'), transport = "stdio",
           NEW r \in Asks, Moves(r, "failed")
    PROVE  McpInvariant'
<1>1. PICK a \in AskRows :
         /\ ask' = [ask EXCEPT ![r] = a] /\ a.stage = "failed"
         /\ a.reply = ask[r].reply /\ a.from = ask[r].from
  BY MovesRow DEF StdioStages
<1>2. Told(r)
  BY AskRow DEF AskSound
<1> QED BY <1>1, <1>2, CalmMove DEF HttpStages, Told

LEMMA BeginRequestKept ==
    ASSUME McpInvariant, NEW r \in Asks, BeginRequest(r) PROVE McpInvariant'
<1>1. /\ UNCHANGED <<transport, pool, process, executed>> /\ ask[r].stage = "start"
      /\ McpShape /\ transport \in {"stdio", "http"}
  BY DEF BeginRequest, McpInvariant, McpShape
<1>2. Calm /\ pool' \in 0 .. Len(process') /\ (transport = "http" => process' = <<>>)
  BY <1>1, UnchangedIsCalm DEF McpShape
<1>3. CASE Ends(r, "cached", Nobody)
  BY <1>2, <1>3, CalmEnd
<1>4. CASE Moves(r, CASE transport = "stdio" -> "pool"
                      [] transport = "http" /\ token -> "post"
                      [] OTHER -> "init")
  <2> DEFINE stage == CASE transport = "stdio" -> "pool"
                        [] transport = "http" /\ token -> "post"
                        [] OTHER -> "init"
  <2>1. (stage = "pool" /\ transport = "stdio") \/ (stage \in HttpStages /\ transport = "http")
    BY <1>1 DEF HttpStages
  <2>2. Moves(r, stage)
    BY <1>4
  <2> HIDE DEF stage
  <2>3. PICK a \in AskRows :
           /\ ask' = [ask EXCEPT ![r] = a] /\ a.stage = stage
           /\ a.tries = ask[r].tries /\ a.reply = ask[r].reply /\ a.from = ask[r].from
    BY <2>1, <2>2, MovesRow DEF StdioStages, HttpStages
  <2>4. Told(r)
    BY AskRow DEF AskSound
  <2> QED BY <1>1, <1>2, <2>1, <2>3, <2>4, CalmMove DEF HttpStages, StdioStages, Told
<1> QED BY <1>3, <1>4 DEF BeginRequest

LEMMA TakePooledKept ==
    ASSUME McpInvariant, NEW r \in Asks, TakePooled(r) PROVE McpInvariant'
<1>1. /\ UNCHANGED <<transport, pool, process, executed>> /\ ask[r].stage = "pool" /\ McpShape
  BY DEF TakePooled, McpInvariant
<1>2. Calm /\ pool' \in 0 .. Len(process') /\ (transport = "http" => process' = <<>>)
  BY <1>1, UnchangedIsCalm DEF McpShape
<1>3. transport = "stdio" /\ Told(r)
  BY <1>1, AskRow DEF AskSound, StdioStages
<1>4. CASE pool # 0 /\ ask' = [ask EXCEPT ![r] = [@ EXCEPT !.stage = "lock", !.process = pool]]
  <2> DEFINE q == ask[r]
             a == [q EXCEPT !.stage = "lock", !.process = pool]
  <2>1. q \in AskRows /\ pool \in Nat /\ pool \in DOMAIN process' /\ ask' = [ask EXCEPT ![r] = a]
    <3>1. pool \in 1 .. Len(process) /\ DOMAIN process' = 1 .. Len(process)
      BY <1>1, <1>4 DEF McpShape
    <3> QED BY <1>1, <1>4, <3>1, AskRow DEF McpShape
  <2>2. q.stage = "pool" /\ q.reply = ask[r].reply /\ q.from = ask[r].from
    BY <1>1
  <2> HIDE DEF q
  <2>3. /\ a \in AskRows /\ a.stage = "lock" /\ a.process = pool /\ a.reply = q.reply
        /\ a.from = q.from
    BY <2>1 DEF AskRows, StdioStages
  <2> HIDE DEF a
  <2> QED BY <1>1, <1>2, <1>3, <2>1, <2>2, <2>3, CalmMove DEF HttpStages, Told
<1>5. CASE Moves(r, "connect")
  <2>1. PICK a \in AskRows :
           /\ ask' = [ask EXCEPT ![r] = a] /\ a.stage = "connect"
           /\ a.reply = ask[r].reply /\ a.from = ask[r].from
    BY <1>5, MovesRow DEF StdioStages
  <2> QED BY <1>1, <1>2, <1>3, <2>1, CalmMove DEF HttpStages, Told
<1> QED BY <1>4, <1>5 DEF TakePooled

LEMMA ConnectKept ==
    ASSUME McpInvariant, NEW r \in Asks, Connect(r) PROVE McpInvariant'
<1>1. UNCHANGED <<transport, executed>> /\ ask[r].stage = "connect" /\ McpShape
  BY DEF Connect, McpInvariant
<1>2. transport = "stdio" /\ Told(r)
  BY <1>1, AskRow DEF AskSound, StdioStages
<1>3. CASE Moves(r, "failed") /\ UNCHANGED <<process, pool>>
  <2>1. Calm /\ pool' \in 0 .. Len(process')
    BY <1>1, <1>3, UnchangedIsCalm DEF McpShape
  <2> QED BY <1>2, <1>3, <2>1, CalmFail
<1>4. CASE /\ process' = Append(process, NewProcess) /\ pool' = Len(process')
           /\ ask' = [ask EXCEPT ![r] = [@ EXCEPT !.stage = "lock", !.process = pool']]
  <2>1. /\ NewProcess \in Processes /\ NewProcess.next = 2 /\ NewProcess.inbox = {}
        /\ Written(NewProcess.lines) = {}
    BY DEF NewProcess, Processes, Written
  <2> DEFINE n == Len(process)
  <2>2. /\ process \in Seq(Processes) /\ n \in Nat /\ DOMAIN process = 1 .. n
    BY <1>1 DEF McpShape
  <2>3. /\ process' \in Seq(Processes) /\ Len(process') = n + 1 /\ DOMAIN process' = 1 .. n + 1
        /\ process'[n + 1] = NewProcess /\ \A z \in 1 .. n : process'[z] = process[z]
    BY <1>4, <2>1, <2>2
  <2> HIDE DEF n
  <2>4. \A z \in 1 .. n + 1 : z \notin 1 .. n => z = n + 1
    BY <2>2
  <2>5. \A s \in DOMAIN process : process[s].next \in Nat
    BY <1>1, ProcessRow
  <2>6. Calm
    BY <1>1, <2>1, <2>2, <2>3, <2>4, <2>5 DEF Calm
  <2>7. pool' \in Nat /\ pool' \in DOMAIN process' /\ pool' \in 0 .. Len(process')
    BY <1>4, <2>2, <2>3
  <2> DEFINE q == ask[r]
             a == [q EXCEPT !.stage = "lock", !.process = pool']
  <2>8. q \in AskRows /\ ask' = [ask EXCEPT ![r] = a]
    BY <1>1, <1>4 DEF McpShape
  <2>9. q.reply = ask[r].reply /\ q.from = ask[r].from
    OBVIOUS
  <2> HIDE DEF q
  <2>10. /\ a \in AskRows /\ a.stage = "lock" /\ a.process = pool' /\ a.reply = q.reply
         /\ a.from = q.from
    BY <2>7, <2>8 DEF AskRows, StdioStages
  <2> HIDE DEF a
  <2> QED BY <1>1, <1>2, <2>6, <2>7, <2>8, <2>9, <2>10, CalmMove DEF HttpStages, Told
<1> QED BY <1>3, <1>4 DEF Connect

LEMMA ResetSessionKept ==
    ASSUME McpInvariant, NEW r \in Asks, ResetSession(r) PROVE McpInvariant'
<1>1. /\ UNCHANGED <<transport, process, executed>> /\ ask[r].stage = "failed" /\ McpShape
      /\ pool' \in {0, pool}
  BY DEF ResetSession, McpInvariant
<1>2. Calm /\ pool' \in 0 .. Len(process') /\ (transport = "http" => process' = <<>>)
  <2>1. Len(process) \in Nat /\ pool \in 0 .. Len(process)
    BY <1>1 DEF McpShape
  <2> QED BY <1>1, <2>1, UnchangedIsCalm DEF McpShape
<1>3. transport = "stdio"
  BY <1>1, AskRow DEF AskSound, StdioStages
<1>4. CASE Ends(r, "error", Nobody)
  BY <1>2, <1>4, CalmEnd
<1>5. CASE r \in ToolLists /\ ask' = [ask EXCEPT ![r] = [NoAsk EXCEPT !.stage = "pool", !.tries = 1]]
  <2> DEFINE a == [NoAsk EXCEPT !.stage = "pool", !.tries = 1]
  <2>1. a \in AskRows /\ a.stage = "pool" /\ a.reply = NoAsk.reply
    BY NoAskRow DEF AskRows, StdioStages
  <2>2. NoAsk.reply = "none"
    BY DEF NoAsk
  <2>3. ask' = [ask EXCEPT ![r] = a]
    BY <1>5
  <2> HIDE DEF a
  <2>4. r \notin ToolCalls
    BY <1>5, McpAssumption
  <2> QED BY <1>2, <1>3, <2>1, <2>2, <2>3, <2>4, CalmMove DEF HttpStages
<1> QED BY <1>4, <1>5 DEF ResetSession

LEMMA HttpInitializeKept ==
    ASSUME McpInvariant, NEW r \in Asks, HttpInitialize(r) PROVE McpInvariant'
<1>1. UNCHANGED <<transport, pool, process, executed>> /\ ask[r].stage = "init" /\ McpShape
  BY DEF HttpInitialize, McpInvariant
<1>2. Calm /\ pool' \in 0 .. Len(process') /\ (transport = "http" => process' = <<>>)
  BY <1>1, UnchangedIsCalm DEF McpShape
<1>3. transport = "http" /\ Told(r)
  BY <1>1, AskRow DEF AskSound, HttpStages
<1>4. CASE Ends(r, "error", Nobody)
  BY <1>2, <1>4, CalmEnd
<1>5. CASE Moves(r, "post")
  <2>1. PICK a \in AskRows :
           /\ ask' = [ask EXCEPT ![r] = a] /\ a.stage = "post" /\ a.tries = ask[r].tries
           /\ a.reply = ask[r].reply /\ a.from = ask[r].from
    BY <1>5, MovesRow DEF HttpStages
  <2> QED BY <1>1, <1>2, <1>3, <2>1, CalmMove DEF StdioStages, Told
<1> QED BY <1>4, <1>5 DEF HttpInitialize

LEMMA TailWritten ==
    ASSUME NEW lines \in Seq(McpLines), lines # <<>>
    PROVE  /\ Tail(lines) \in Seq(McpLines) /\ Written(Tail(lines)) \subseteq Written(lines)
           /\ Head(lines) \in Written(lines) /\ Head(lines) \in McpLines
<1>1. Len(lines) \in Nat \ {0} /\ DOMAIN lines = 1 .. Len(lines)
  OBVIOUS
<1>2. /\ Tail(lines) \in Seq(McpLines) /\ DOMAIN Tail(lines) = 1 .. Len(lines) - 1
      /\ \A k \in 1 .. Len(lines) - 1 : Tail(lines)[k] = lines[k + 1]
  OBVIOUS
<1>3. \A k \in 1 .. Len(lines) - 1 : k + 1 \in DOMAIN lines
  BY <1>1
<1>4. Written(Tail(lines)) \subseteq Written(lines)
  BY <1>2, <1>3 DEF Written
<1>5. Head(lines) = lines[1] /\ 1 \in DOMAIN lines
  BY <1>1
<1>6. lines[1] \in McpLines
  BY <1>5
<1> QED BY <1>2, <1>4, <1>5, <1>6 DEF Written

LEMMA AppendWritten ==
    ASSUME NEW lines \in Seq(McpLines), NEW l \in McpLines
    PROVE  Append(lines, l) \in Seq(McpLines) /\ Written(Append(lines, l)) = Written(lines) \union {l}
<1>1. Len(lines) \in Nat /\ DOMAIN lines = 1 .. Len(lines)
  OBVIOUS
<1>2. /\ Append(lines, l) \in Seq(McpLines) /\ DOMAIN Append(lines, l) = 1 .. Len(lines) + 1
      /\ Append(lines, l)[Len(lines) + 1] = l
      /\ \A k \in 1 .. Len(lines) : Append(lines, l)[k] = lines[k]
  OBVIOUS
<1>3. 1 .. Len(lines) + 1 = (1 .. Len(lines)) \union {Len(lines) + 1}
  BY <1>1
<1> QED BY <1>1, <1>2, <1>3 DEF Written

\* A line that is cut in half is nobody's.
LEMMA HalfReadSound ==
    ASSUME McpShape, NEW s \in DOMAIN process, NEW rest \in HalfRead(s)
    PROVE  /\ rest \in Seq(McpLines)
           /\ \A l \in Written(rest) : l.id = 0 \/ l \in Written(process[s].lines)
<1> DEFINE lines == process[s].lines
           f == Line(0, Nobody, "fragment")
           t == Tail(lines)
<1>1. lines \in Seq(McpLines)
  BY ProcessRow
<1>2. lines # <<>> /\ rest = <<f>> \o t
  BY DEF HalfRead
<1>3. f \in McpLines /\ f.id = 0
  BY DEF Line, McpLines
<1>4. t \in Seq(McpLines) /\ Written(t) \subseteq Written(lines)
  BY <1>1, <1>2, TailWritten
<1> HIDE DEF f, t, lines
<1>5. /\ rest \in Seq(McpLines) /\ Len(rest) = Len(t) + 1 /\ rest[1] = f
      /\ \A k \in 2 .. Len(t) + 1 : rest[k] = t[k - 1]
  BY <1>2, <1>3, <1>4
<1>6. Len(t) \in Nat /\ DOMAIN rest = 1 .. Len(t) + 1 /\ DOMAIN t = 1 .. Len(t)
  BY <1>4, <1>5
<1>7. ASSUME NEW k \in DOMAIN rest PROVE rest[k].id = 0 \/ rest[k] \in Written(lines)
  <2>1. CASE k = 1
    BY <1>3, <1>5, <2>1
  <2>2. CASE k # 1
    <3>1. k \in 2 .. Len(t) + 1 /\ k - 1 \in DOMAIN t
      BY <1>6, <2>2
    <3>2. rest[k] = t[k - 1] /\ t[k - 1] \in Written(t)
      BY <1>5, <3>1 DEF Written
    <3> QED BY <1>4, <3>2
  <2> QED BY <2>1, <2>2
<1> QED BY <1>5, <1>7 DEF Written, lines

\* A process whose reader has let go, with what is left of its output.
LEMMA LetGo ==
    ASSUME McpShape, NEW s \in DOMAIN process, NEW rest \in Seq(McpLines),
           \A l \in Written(rest) : l.id = 0 \/ l \in Written(process[s].lines),
           \/ process' = [process EXCEPT ![s] = [@ EXCEPT !.holder = Nobody, !.lines = rest]]
           \/ process' = [process EXCEPT ![s] = [@ EXCEPT !.lines = rest, !.holder = Nobody]]
           \/ process' = [process EXCEPT ![s].lines = rest],
           UNCHANGED <<executed, transport>>
    PROVE  Calm /\ Len(process') = Len(process)
<1> DEFINE q == process[s]
           p1 == [q EXCEPT !.holder = Nobody, !.lines = rest]
           p2 == [q EXCEPT !.lines = rest]
           p3 == [q EXCEPT !.lines = rest, !.holder = Nobody]
<1>1. q \in Processes /\ q.next \in Nat
  BY ProcessRow
<1>2. \/ process' = [process EXCEPT ![s] = p1] \/ process' = [process EXCEPT ![s] = p2]
      \/ process' = [process EXCEPT ![s] = p3]
  BY DEF McpShape
<1>3. \A l \in Written(rest) : l.id = 0 \/ l \in Written(q.lines)
  OBVIOUS
<1>4. /\ p1 \in Processes /\ p1.next = q.next /\ p1.inbox = q.inbox /\ p1.lines = rest
      /\ p2 \in Processes /\ p2.next = q.next /\ p2.inbox = q.inbox /\ p2.lines = rest
      /\ p3 \in Processes /\ p3.next = q.next /\ p3.inbox = q.inbox /\ p3.lines = rest
  <2> HIDE DEF q
  <2>1. p1 \in Processes /\ p1.next = q.next /\ p1.inbox = q.inbox /\ p1.lines = rest
    BY <1>1 DEF Processes
  <2>2. p2 \in Processes /\ p2.next = q.next /\ p2.inbox = q.inbox /\ p2.lines = rest
    BY <1>1 DEF Processes
  <2>3. p3 \in Processes /\ p3.next = q.next /\ p3.inbox = q.inbox /\ p3.lines = rest
    BY <1>1 DEF Processes
  <2> QED BY <2>1, <2>2, <2>3
<1>5. PICK p \in Processes : /\ process' = [process EXCEPT ![s] = p] /\ p.next = q.next
                             /\ p.inbox = q.inbox /\ p.lines = rest
  <2> HIDE DEF q, p1, p2, p3
  <2> QED BY <1>2, <1>4
<1>6. p.next >= process[s].next /\ p.inbox \subseteq process[s].inbox
  BY <1>1, <1>5
<1> QED BY <1>3, <1>5, <1>6, CalmWrite

\* Where a request that is reading stands.
LEMMA Reader ==
    ASSUME McpInvariant, NEW r \in Asks, ask[r].stage \in {"lock", "read"}
    PROVE  /\ McpShape /\ ask[r].process \in DOMAIN process /\ transport = "stdio"
           /\ process[ask[r].process].lines \in Seq(McpLines)
<1>1. ask[r].process \in DOMAIN process /\ transport = "stdio"
  BY AskRow DEF AskSound, StdioStages
<1> QED BY <1>1, ProcessRow DEF McpInvariant

LEMMA ReadLineKept ==
    ASSUME McpInvariant, NEW r \in Asks, ReadLine(r) PROVE McpInvariant'
<1> DEFINE s == ask[r].process
           lines == process[s].lines
           line == Head(lines)
<1>1. /\ ask[r].stage = "read" /\ lines # <<>> /\ UNCHANGED <<transport, pool, executed>>
  BY DEF ReadLine
<1>2. McpShape /\ s \in DOMAIN process /\ transport = "stdio" /\ lines \in Seq(McpLines)
  BY <1>1, Reader
<1>3. /\ Tail(lines) \in Seq(McpLines) /\ Written(Tail(lines)) \subseteq Written(lines)
      /\ line \in Written(lines) /\ line \in McpLines
  BY <1>1, <1>2, TailWritten
<1>4. \/ process' = [process EXCEPT ![s] = [@ EXCEPT !.lines = Tail(lines), !.holder = Nobody]]
      \/ process' = [process EXCEPT ![s].lines = Tail(lines)]
  BY DEF ReadLine
<1>5. Calm /\ Len(process') = Len(process)
  BY <1>1, <1>2, <1>3, <1>4, LetGo
<1>6. pool' \in 0 .. Len(process')
  BY <1>1, <1>2, <1>5 DEF McpShape
<1>7. CASE Moves(r, "failed")
  BY <1>2, <1>5, <1>6, <1>7, CalmFail
<1>8. CASE ask' = ask
  BY <1>1, <1>2, <1>5, <1>8, CalmStay
<1>9. CASE line.id = ask[r].id /\ Received(r, line.body, line.of)
  <2>1. Reading(r)
    BY <1>1, AskRow DEF AskSound
  <2>2. line.of = r /\ ask[r].id >= 2
    BY <1>3, <1>9, <2>1 DEF Reading
  <2>3. ask[r].id \in Nat /\ ask[r].id # 0
    BY <2>2, AskRow DEF AskRows
  <2>4. executed[r] > 0
    BY <1>2, <1>3, <1>9, <2>2, <2>3 DEF McpInvariant, LinesSound
  <2>5. Ends(r, Worth(line.body), r) /\ Worth(line.body) \in {"result", "empty"}
    BY <1>9, <2>2 DEF Received, Worth
  <2>6. PICK a \in AskRows : /\ ask' = [ask EXCEPT ![r] = a] /\ a.stage = "done" /\ a.from = r
    BY <2>5, EndsRow
  <2>7. a.stage \notin StdioStages \union HttpStages
    BY <2>6 DEF StdioStages, HttpStages
  <2> QED BY <1>2, <1>5, <1>6, <2>4, <2>6, <2>7, CalmMove
<1> QED BY <1>7, <1>8, <1>9 DEF ReadLine

LEMMA ReadFailsKept ==
    ASSUME McpInvariant, NEW r \in Asks, ReadFails(r) PROVE McpInvariant'
<1> DEFINE s == ask[r].process
<1>1. /\ ask[r].stage = "read" /\ UNCHANGED <<transport, pool, executed>> /\ Moves(r, "failed")
  BY DEF ReadFails
<1>2. McpShape /\ s \in DOMAIN process /\ transport = "stdio" /\ process[s].lines \in Seq(McpLines)
  BY <1>1, Reader
<1>3. PICK rest \in HalfRead(s) \union {l \in {process[s].lines} : l = <<>>} :
         process' = [process EXCEPT ![s] = [@ EXCEPT !.holder = Nobody, !.lines = rest]]
  BY DEF ReadFails
<1>4. /\ rest \in Seq(McpLines)
      /\ \A l \in Written(rest) : l.id = 0 \/ l \in Written(process[s].lines)
  <2>1. CASE rest \in HalfRead(s)
    BY <1>2, <2>1, HalfReadSound
  <2>2. CASE rest = process[s].lines
    BY <1>2, <2>2
  <2> QED BY <2>1, <2>2
<1> HIDE DEF s
<1>5. Calm /\ Len(process') = Len(process)
  BY <1>1, <1>2, <1>3, <1>4, LetGo
<1>6. pool' \in 0 .. Len(process')
  BY <1>1, <1>2, <1>5 DEF McpShape
<1> QED BY <1>1, <1>2, <1>5, <1>6, CalmFail

LEMMA ServerDiesKept ==
    ASSUME McpInvariant, NEW s \in DOMAIN process, ServerDies(s) PROVE McpInvariant'
<1> DEFINE q == process[s]
           p == [q EXCEPT !.alive = FALSE, !.inbox = {}]
<1>1. /\ McpShape /\ process' = [process EXCEPT ![s] = p]
      /\ UNCHANGED <<transport, pool, ask, executed>>
  BY DEF ServerDies, McpInvariant, McpShape
<1>2. q \in Processes /\ q.next \in Nat
  BY <1>1, ProcessRow
<1>3. p \in Processes /\ p.next = q.next /\ p.inbox = {} /\ p.lines = q.lines
  <2> HIDE DEF q
  <2> QED BY <1>2 DEF Processes
<1> HIDE DEF p
<1>4. Calm /\ Len(process') = Len(process)
  <2>1. /\ p.next >= process[s].next /\ p.inbox \subseteq process[s].inbox
        /\ \A l \in Written(p.lines) : l.id = 0 \/ l \in Written(process[s].lines)
    BY <1>2, <1>3
  <2> QED BY <1>1, <1>3, <2>1, CalmWrite
<1>5. transport # "http"
  BY <1>1 DEF McpShape
<1> QED BY <1>1, <1>4, <1>5, CalmStay

\* The line of request r is written: nobody else reads an id that was not yet given
\* out, and r has not been written before.
LEMMA WriteKept ==
    ASSUME McpInvariant, NEW r \in Asks, ask[r].stage = "lock",
           NEW s \in {ask[r].process}, NEW i \in {process[s].next},
           NEW p \in Processes, NEW a \in AskRows,
           process' = [process EXCEPT ![s] = p], ask' = [ask EXCEPT ![r] = a],
           p.next = i + 1, p.lines = process[s].lines,
           p.inbox = process[s].inbox \/ p.inbox = process[s].inbox \union {Line(i, r, "request")},
           a.stage = "read", a.process = s, a.id = i, a.reply = ask[r].reply, a.from = ask[r].from,
           UNCHANGED <<transport, pool, executed>>
    PROVE  McpInvariant'
<1> DEFINE m == Line(i, r, "request")
<1>1. McpShape /\ s \in DOMAIN process /\ transport = "stdio" /\ LinesSound /\ AskSound(r)
  BY Reader DEF McpInvariant
<1>2. /\ process' \in Seq(Processes) /\ DOMAIN process' = DOMAIN process
      /\ Len(process') = Len(process) /\ process'[s] = p
      /\ \A z \in DOMAIN process : z # s => process'[z] = process[z]
  BY <1>1, ProcessWritten
<1>3. ask' \in [Asks -> AskRows] /\ ask'[r] = a /\ \A o \in Asks : o # r => ask'[o] = ask[o]
  BY <1>1 DEF McpShape
<1>4. i \in Nat /\ i >= 2
  BY <1>1, ProcessRow DEF LinesSound
<1>5. m.id = i /\ m.of = r
  BY DEF Line
<1>6. \A n \in process'[s].inbox : n = m \/ n \in process[s].inbox
  BY <1>2
<1> HIDE DEF m
<1>7. \A n \in process[s].inbox : n.id \in Nat /\ n.id >= 2 /\ n.id < i /\ n.of \in Asks
  <2>1. process[s].inbox \subseteq McpLines
    BY <1>1, ProcessRow
  <2> QED BY <1>1, <2>1 DEF LinesSound, McpLines
<1>8. \A l \in Written(process[s].lines) :
         /\ l.id \in Nat
         /\ l.id = 0 \/ (l.id < i /\ l.of \in Asks /\ executed[l.of] > 0)
  <2>1. process[s].lines \in Seq(McpLines)
    BY <1>1, ProcessRow
  <2>2. \A l \in Written(process[s].lines) : l \in McpLines
    BY <2>1 DEF Written
  <2> QED BY <1>1, <2>2 DEF LinesSound, McpLines
<1>9. McpShape'
  BY <1>1, <1>2, <1>3 DEF McpShape
<1>10. LinesSound'
  <2> SUFFICES ASSUME NEW z \in DOMAIN process
               PROVE  /\ process'[z].next >= 2
                      /\ \A n \in process'[z].inbox :
                            n.id >= 2 /\ n.id < process'[z].next /\ n.of \in Asks
                      /\ \A l \in Written(process'[z].lines) : l.id = 0 \/
                            (l.id < process'[z].next /\ l.of \in Asks /\ executed[l.of] > 0)
    BY <1>2 DEF LinesSound
  <2>1. CASE z = s
    <3>1. process'[z].next = i + 1 /\ process'[z].lines = process[s].lines
      BY <1>2, <2>1
    <3>2. \A n \in process'[z].inbox : n.id >= 2 /\ n.id < i + 1 /\ n.of \in Asks
      BY <1>4, <1>5, <1>6, <1>7, <2>1
    <3>3. \A l \in Written(process[s].lines) :
             l.id = 0 \/ (l.id < i + 1 /\ l.of \in Asks /\ executed[l.of] > 0)
      BY <1>4, <1>8
    <3>4. i + 1 >= 2
      BY <1>4
    <3> QED BY <3>1, <3>2, <3>3, <3>4
  <2>2. CASE z # s
    BY <1>1, <1>2, <2>2 DEF LinesSound
  <2> QED BY <2>1, <2>2
<1>11. AskSound(r)'
  <2>1. i < i + 1
    BY <1>4
  <2>2. \A n \in process'[s].inbox : n.id = i => n.of = r
    BY <1>4, <1>5, <1>6, <1>7
  <2>3. \A l \in Written(process[s].lines) : l.id = i => l.of = r
    BY <1>4, <1>8
  <2>4. Reading(r)'
    BY <1>2, <1>3, <1>4, <2>1, <2>2, <2>3 DEF Reading
  <2>5. Told(r)'
    BY <1>1, <1>3 DEF AskSound, Told
  <2> QED BY <1>1, <1>2, <1>3, <2>4, <2>5 DEF AskSound, HttpStages
<1>12. ASSUME NEW o \in Asks, o # r PROVE AskSound(o)'
  <2>1. AskSound(o) /\ ask'[o] = ask[o]
    BY <1>3, <1>12 DEF McpInvariant
  <2>2. ask[o].stage = "read" => Reading(o)'
    <3> SUFFICES ASSUME ask[o].stage = "read" PROVE Reading(o)'
      OBVIOUS
    <3>1. Reading(o) /\ ask[o].process \in DOMAIN process /\ ask[o].id \in Nat
      BY <2>1, AskRow DEF AskSound, AskRows
    <3>2. CASE ask[o].process = s
      <4>1. ask[o].id >= 2 /\ ask[o].id < i
        BY <3>1, <3>2 DEF Reading
      <4>2. ask[o].id < i + 1 /\ ask[o].id # i
        BY <1>4, <3>1, <4>1
      <4>3. \A n \in process'[s].inbox : n.id = ask[o].id => n.of = o
        BY <1>5, <1>6, <3>1, <3>2, <4>2 DEF Reading
      <4> QED BY <1>2, <2>1, <3>1, <3>2, <4>1, <4>2, <4>3 DEF Reading
    <3>3. CASE ask[o].process # s
      <4>1. process'[ask[o].process] = process[ask[o].process]
        BY <1>2, <3>1, <3>3
      <4> QED BY <2>1, <3>1, <4>1 DEF Reading
    <3> QED BY <3>2, <3>3
  <2>3. Told(o)'
    BY <2>1 DEF AskSound, Told
  <2> QED BY <1>2, <2>1, <2>2, <2>3 DEF AskSound
<1>13. ASSUME NEW o \in ToolCalls PROVE CallSound(o)'
  <2>1. o \in Asks /\ StdioCall(o)
    BY <1>1 DEF McpInvariant, CallSound, Asks
  <2>2. CASE o = r
    <3>1. executed[r] = 0 /\ \A z \in DOMAIN process : \A n \in process[z].inbox : n.of # r
      BY <2>1, <2>2 DEF StdioCall
    <3>2. \A z \in DOMAIN process : \A n \in process'[z].inbox : n.of = r => z = s /\ n = m
      BY <1>2, <1>6, <3>1
    <3>3. ask'[r].stage = "read"
      BY <1>3
    <3>4. StdioCall(r)'
      BY <1>2, <3>1, <3>2, <3>3 DEF StdioCall
    <3> QED BY <1>1, <2>2, <3>4 DEF CallSound
  <2>3. CASE o # r
    <3>1. \A z \in DOMAIN process : \A n \in process'[z].inbox : n.of = o => n \in process[z].inbox
      BY <1>2, <1>5, <1>6, <2>3
    <3>2. ask'[o] = ask[o]
      BY <1>3, <2>1, <2>3
    <3>3. StdioCall(o)'
      BY <1>2, <2>1, <3>1, <3>2 DEF StdioCall
    <3> QED BY <1>1, <3>3 DEF CallSound
  <2> QED BY <2>2, <2>3
<1> QED BY <1>9, <1>10, <1>11, <1>12, <1>13 DEF McpInvariant

LEMMA SendLineKept ==
    ASSUME McpInvariant, NEW r \in Asks, SendLine(r) PROVE McpInvariant'
<1> DEFINE s == ask[r].process
           q == process[s]
           i == q.next
           w == q.inbox \union (IF q.torn THEN {} ELSE {Line(i, r, "request")})
           n == i + 1
           p1 == [q EXCEPT !.holder = r, !.next = n, !.torn = FALSE, !.inbox = w]
           p2 == [q EXCEPT !.next = n]
           p3 == [q EXCEPT !.next = n, !.torn = TRUE]
<1>1. /\ ask[r].stage = "lock" /\ UNCHANGED <<transport, pool, executed>>
  BY DEF SendLine
<1>2. McpShape /\ s \in DOMAIN process /\ transport = "stdio"
  BY <1>1, Reader
<1>3. q \in Processes /\ i \in Nat /\ q.inbox \subseteq McpLines
  BY <1>2, ProcessRow
<1>4. n \in Nat /\ n >= i
  BY <1>3
<1>5. w \subseteq McpLines
  <2>1. Line(i, r, "request") \in McpLines
    BY <1>3 DEF Line, McpLines
  <2> QED BY <1>3, <2>1
<1>6. w = q.inbox \/ w = q.inbox \union {Line(i, r, "request")}
  OBVIOUS
<1>7. p1 \in Processes /\ p1.next = n /\ p1.inbox = w /\ p1.lines = q.lines
  <2> HIDE DEF q, n, w
  <2> QED BY <1>3, <1>4, <1>5 DEF Processes
<1>8. p2 \in Processes /\ p2.next = n /\ p2.inbox = q.inbox /\ p2.lines = q.lines
  <2> HIDE DEF q, n, w
  <2> QED BY <1>3, <1>4, <1>5 DEF Processes
<1>9. p3 \in Processes /\ p3.next = n /\ p3.inbox = q.inbox /\ p3.lines = q.lines
  <2> HIDE DEF q, n, w
  <2> QED BY <1>3, <1>4, <1>5 DEF Processes
<1>10. CASE /\ process' = [process EXCEPT ![s] = p1]
            /\ ask' = [ask EXCEPT ![r] = [@ EXCEPT !.stage = "read", !.id = i]]
  <2> DEFINE b == ask[r]
             a == [b EXCEPT !.stage = "read", !.id = i]
  <2>1. b \in AskRows /\ ask' = [ask EXCEPT ![r] = a]
    BY <1>10, AskRow
  <2>2. b.process = s /\ b.reply = ask[r].reply /\ b.from = ask[r].from
    OBVIOUS
  <2>3. /\ a \in AskRows /\ a.stage = "read" /\ a.id = i /\ a.process = b.process
        /\ a.reply = b.reply /\ a.from = b.from
    <3> HIDE DEF b, i
    <3> QED BY <1>3, <2>1 DEF AskRows, StdioStages
  <2>4. p1.inbox = process[s].inbox \/ p1.inbox = process[s].inbox \union {Line(i, r, "request")}
    BY <1>6, <1>7
  <2>6. s \in {ask[r].process} /\ i \in {process[s].next}
    OBVIOUS
  <2>7. a.process = s /\ a.reply = ask[r].reply /\ a.from = ask[r].from
    BY <2>2, <2>3
  <2>8. /\ p1 \in Processes /\ p1.next = i + 1 /\ p1.lines = process[s].lines
    BY <1>7
  <2> HIDE DEF p1, a, b, w, n, i, q, s
  <2>9. p1.inbox = process[s].inbox \/ p1.inbox = process[s].inbox \union {Line(i, r, "request")}
    BY <2>4
  <2>10. ask[r].stage = "lock" /\ UNCHANGED <<transport, pool, executed>>
    BY <1>1
  <2>11. process' = [process EXCEPT ![s] = p1] /\ ask' = [ask EXCEPT ![r] = a]
    BY <1>10, <2>1
  <2>12. a \in AskRows /\ a.stage = "read" /\ a.id = i
    BY <2>3
  <2> QED BY <2>6, <2>7, <2>8, <2>9, <2>10, <2>11, <2>12, WriteKept, ZenonT(60)
<1>11. ASSUME NEW p \in Processes, process' = [process EXCEPT ![s] = p], p.next = n,
              p.inbox = q.inbox, p.lines = q.lines
       PROVE  Calm /\ pool' \in 0 .. Len(process')
  <2>1. /\ p.next >= process[s].next /\ p.inbox \subseteq process[s].inbox
        /\ \A l \in Written(p.lines) : l.id = 0 \/ l \in Written(process[s].lines)
    BY <1>4, <1>11
  <2>2. Calm /\ Len(process') = Len(process)
    BY <1>1, <1>2, <1>11, <2>1, CalmWrite
  <2> QED BY <1>1, <1>2, <2>2 DEF McpShape
<1>12. CASE process' = [process EXCEPT ![s].next = i + 1] /\ Moves(r, "failed")
  <2>1. process' = [process EXCEPT ![s] = p2]
    BY <1>2, <1>12 DEF McpShape
  <2>2. Calm /\ pool' \in 0 .. Len(process')
    BY <1>8, <1>11, <2>1
  <2> QED BY <1>2, <1>12, <2>2, CalmFail
<1>13. CASE process' = [process EXCEPT ![s] = p3] /\ Ends(r, "dropped", Nobody)
  <2>1. Calm /\ pool' \in 0 .. Len(process')
    BY <1>9, <1>11, <1>13
  <2> QED BY <1>2, <1>13, <2>1, CalmEnd
<1>14. \/ /\ process' = [process EXCEPT ![s] = p1]
          /\ ask' = [ask EXCEPT ![r] = [@ EXCEPT !.stage = "read", !.id = i]]
       \/ process' = [process EXCEPT ![s].next = i + 1] /\ Moves(r, "failed")
       \/ process' = [process EXCEPT ![s] = p3] /\ Ends(r, "dropped", Nobody)
  BY DEF SendLine
<1> QED BY <1>10, <1>12, <1>13, <1>14

\* The server carries out what a line asks for, and answers under the line's id.
LEMMA ServerAnswersKept ==
    ASSUME McpInvariant, NEW s \in DOMAIN process, ServerAnswers(s) PROVE McpInvariant'
<1> DEFINE q == process[s]
<1>1. PICK m \in q.inbox, body \in {"result", "rpc_error"} :
         /\ process' = [process EXCEPT ![s] =
               [@ EXCEPT !.inbox = q.inbox \ {m}, !.lines = Append(q.lines, Line(m.id, m.of, body))]]
         /\ executed' = [executed EXCEPT ![m.of] = @ + 1]
  BY DEF ServerAnswers
<1>2. UNCHANGED <<transport, pool, ask>>
  BY DEF ServerAnswers
<1> DEFINE l == Line(m.id, m.of, body)
           left == q.inbox \ {m}
           output == Append(q.lines, l)
           p == [q EXCEPT !.inbox = left, !.lines = output]
<1>3. McpShape /\ LinesSound /\ transport = "stdio"
  <2>1. McpShape /\ LinesSound
    BY DEF McpInvariant
  <2>2. transport # "http"
    BY <2>1 DEF McpShape
  <2> QED BY <2>1, <2>2 DEF McpShape
<1>4. q \in Processes /\ q.inbox \subseteq McpLines /\ q.lines \in Seq(McpLines) /\ q.next \in Nat
  BY <1>3, ProcessRow
<1>5. m.id \in Nat /\ m.of \in Asks /\ m.id >= 2 /\ m.id < q.next
  BY <1>3, <1>4 DEF LinesSound, McpLines
<1>6. l \in McpLines /\ l.id = m.id /\ l.of = m.of
  BY <1>5 DEF Line, McpLines
<1>7. process' = [process EXCEPT ![s] = p]
  BY <1>1
<1> HIDE DEF l
<1>8. output \in Seq(McpLines) /\ Written(output) = Written(q.lines) \union {l}
  BY <1>4, <1>6, AppendWritten
<1>9. p \in Processes /\ p.next = q.next /\ p.inbox = left /\ p.lines = output
  <2>1. left \subseteq McpLines
    BY <1>4
  <2> HIDE DEF q, left, output
  <2> QED BY <1>4, <1>8, <2>1 DEF Processes
<1> HIDE DEF p, output
<1>10. /\ process' \in Seq(Processes) /\ DOMAIN process' = DOMAIN process
       /\ Len(process') = Len(process) /\ process'[s] = p
       /\ \A z \in DOMAIN process : z # s => process'[z] = process[z]
  BY <1>3, <1>7, <1>9, ProcessWritten
<1>11. /\ executed' \in [Asks -> Nat] /\ executed'[m.of] = executed[m.of] + 1
       /\ \A o \in Asks : o # m.of => executed'[o] = executed[o]
       /\ \A o \in Asks : executed[o] \in Nat /\ executed'[o] \in Nat /\ executed'[o] >= executed[o]
  BY <1>1, <1>3, <1>5 DEF McpShape
<1>12. McpShape'
  BY <1>2, <1>3, <1>10, <1>11 DEF McpShape
<1>13. ASSUME NEW z \in DOMAIN process
       PROVE  /\ process'[z].next = process[z].next
              /\ \A n \in process'[z].inbox : n \in process[z].inbox /\ ~(z = s /\ n = m)
              /\ \A k \in Written(process'[z].lines) :
                    k \in Written(process[z].lines) \/ (z = s /\ k = l)
  <2>1. CASE z = s
    BY <1>8, <1>9, <1>10, <2>1
  <2>2. CASE z # s
    BY <1>10, <2>2
  <2> QED BY <2>1, <2>2
<1>14. LinesSound'
  <2> SUFFICES ASSUME NEW z \in DOMAIN process
               PROVE  /\ process'[z].next >= 2
                      /\ \A n \in process'[z].inbox :
                            n.id >= 2 /\ n.id < process'[z].next /\ n.of \in Asks
                      /\ \A k \in Written(process'[z].lines) : k.id = 0 \/
                            (k.id < process'[z].next /\ k.of \in Asks /\ executed'[k.of] > 0)
    BY <1>10 DEF LinesSound
  <2>1. /\ process'[z].next >= 2
        /\ \A n \in process'[z].inbox : n.id >= 2 /\ n.id < process'[z].next /\ n.of \in Asks
    BY <1>3, <1>13 DEF LinesSound
  <2>2. ASSUME NEW k \in Written(process'[z].lines), k.id # 0
        PROVE  k.id < process'[z].next /\ k.of \in Asks /\ executed'[k.of] > 0
    <3>1. CASE k \in Written(process[z].lines)
      <4>1. k.id < process[z].next /\ k.of \in Asks /\ executed[k.of] > 0
        BY <1>3, <2>2, <3>1 DEF LinesSound
      <4> QED BY <1>11, <1>13, <4>1
    <3>2. CASE z = s /\ k = l
      BY <1>5, <1>6, <1>11, <1>13, <3>2
    <3> QED BY <1>13, <3>1, <3>2
  <2> QED BY <2>1, <2>2
<1>15. ASSUME NEW o \in Asks PROVE AskSound(o)'
  <2>1. AskSound(o) /\ ask' = ask /\ transport' = transport
    BY <1>2 DEF McpInvariant
  <2>2. ask[o].stage = "read" => Reading(o)'
    <3> SUFFICES ASSUME ask[o].stage = "read" PROVE Reading(o)'
      OBVIOUS
    <3> DEFINE z == ask[o].process
    <3>1. Reading(o) /\ z \in DOMAIN process
      BY <2>1 DEF AskSound
    <3>2. \A k \in Written(process'[z].lines) : k.id = ask[o].id => k.of = o
      BY <1>6, <1>13, <3>1 DEF Reading
    <3>3. \A n \in process'[z].inbox : n.id = ask[o].id => n.of = o
      BY <1>13, <3>1 DEF Reading
    <3> QED BY <1>13, <2>1, <3>1, <3>2, <3>3 DEF Reading
  <2>3. Told(o)'
    BY <1>11, <2>1 DEF AskSound, Told
  <2> QED BY <1>10, <2>1, <2>2, <2>3 DEF AskSound
<1>16. ASSUME NEW o \in ToolCalls PROVE CallSound(o)'
  <2>1. o \in Asks /\ StdioCall(o)
    BY <1>3 DEF McpInvariant, CallSound, Asks
  <2>2. CASE o = m.of
    <3>1. /\ executed[o] = 0 /\ ask[o].stage \notin {"start", "pool", "connect", "lock"}
          /\ \A z \in DOMAIN process : \A n \in process[z].inbox : n.of = o => z = s /\ n = m
      BY <2>1, <2>2 DEF StdioCall
    <3>2. \A z \in DOMAIN process : \A n \in process'[z].inbox : n.of # o
      BY <1>13, <3>1
    <3>3. executed'[o] = 1
      BY <1>11, <2>2, <3>1
    <3>4. StdioCall(o)'
      BY <1>2, <1>10, <3>1, <3>2, <3>3 DEF StdioCall
    <3> QED BY <1>2, <1>3, <3>4 DEF CallSound
  <2>3. CASE o # m.of
    <3>1. executed'[o] = executed[o]
      BY <1>11, <2>1, <2>3
    <3>2. StdioCall(o)'
      BY <1>2, <1>10, <1>13, <2>1, <3>1 DEF StdioCall
    <3> QED BY <1>2, <1>3, <3>2 DEF CallSound
  <2> QED BY <2>2, <2>3
<1> QED BY <1>12, <1>14, <1>15, <1>16 DEF McpInvariant

\* A POST may have been carried out: request r becomes a.
LEMMA HttpMove ==
    ASSUME McpInvariant, transport = "http", UNCHANGED <<transport, pool, process>>,
           NEW r \in Asks, ask[r].stage = "post",
           executed' = executed \/ executed' = [executed EXCEPT ![r] = @ + 1],
           NEW a \in AskRows, ask' = [ask EXCEPT ![r] = a], a.stage \notin StdioStages,
           a.reply \in {"result", "empty"} => executed'[r] > 0 /\ a.from \in {r, "note"},
           a.stage \in {"start", "init", "post"} => a.tries = 1 /\ ask[r].tries = 0
    PROVE  McpInvariant'
<1>1. McpShape /\ process = <<>> /\ DOMAIN process = {}
  BY DEF McpInvariant, McpShape
<1>2. ask' \in [Asks -> AskRows] /\ ask'[r] = a /\ \A o \in Asks : o # r => ask'[o] = ask[o]
  BY <1>1 DEF McpShape
<1>3. /\ executed' \in [Asks -> Nat] /\ executed[r] \in Nat
      /\ executed'[r] \in {executed[r], executed[r] + 1}
      /\ \A o \in Asks : o # r => executed'[o] = executed[o]
  BY <1>1 DEF McpShape
<1>4. McpShape' /\ LinesSound'
  BY <1>1, <1>2, <1>3 DEF McpShape, LinesSound
<1>5. ASSUME NEW o \in Asks PROVE AskSound(o)'
  <2>1. CASE o = r
    BY <1>2, <2>1 DEF AskSound, Told, StdioStages
  <2>2. CASE o # r
    <3>1. AskSound(o) /\ ask'[o] = ask[o] /\ executed'[o] = executed[o]
      BY <1>2, <1>3, <2>2 DEF McpInvariant
    <3>2. ask[o].stage \notin {"lock", "read"}
      BY <3>1 DEF AskSound, StdioStages
    <3> QED BY <3>1, <3>2 DEF AskSound, Told
  <2> QED BY <2>1, <2>2
<1>6. ASSUME NEW o \in ToolCalls PROVE CallSound(o)'
  <2>1. o \in Asks /\ HttpCall(o)
    BY DEF McpInvariant, CallSound, Asks
  <2>2. CASE o = r
    <3>1. executed[r] <= ask[r].tries /\ ask[r].tries \in {0, 1}
      BY <2>1, <2>2, AskRow DEF HttpCall
    <3>2. executed'[r] <= 2 /\ (a.stage \in {"start", "init", "post"} => executed'[r] <= a.tries)
      BY <1>3, <3>1
    <3>3. HttpCall(r)'
      BY <1>2, <3>2 DEF HttpCall
    <3> QED BY <2>2, <3>3 DEF CallSound
  <2>3. CASE o # r
    <3>1. HttpCall(o)'
      BY <1>2, <1>3, <2>1, <2>3 DEF HttpCall
    <3> QED BY <3>1 DEF CallSound
  <2> QED BY <2>2, <2>3
<1> QED BY <1>4, <1>5, <1>6 DEF McpInvariant

LEMMA HttpAnsweredKept ==
    ASSUME McpInvariant, NEW r \in Asks, HttpAnswered(r) PROVE McpInvariant'
<1>1. /\ ask[r].stage = "post" /\ executed' = [executed EXCEPT ![r] = @ + 1]
      /\ UNCHANGED <<transport, pool, process>>
  BY DEF HttpAnswered
<1>2. transport = "http"
  BY <1>1, AskRow DEF AskSound, HttpStages
<1>3. PICK body : Received(r, body, r) \/ Received(r, "note", "note")
  BY DEF HttpAnswered
<1>4. PICK reply \in {"result", "empty"}, from \in {r, "note"} : Ends(r, reply, from)
  BY <1>3 DEF Received, Worth
<1>5. PICK a \in AskRows :
         ask' = [ask EXCEPT ![r] = a] /\ a.stage = "done" /\ a.reply = reply /\ a.from = from
  BY <1>4, EndsRow
<1>6. executed'[r] > 0
  <2>1. executed \in [Asks -> Nat]
    BY DEF McpInvariant, McpShape
  <2> QED BY <1>1, <2>1
<1>7. a.stage \notin StdioStages
  BY <1>5 DEF StdioStages
<1> QED BY <1>1, <1>2, <1>4, <1>5, <1>6, <1>7, HttpMove

LEMMA HttpFailsKept ==
    ASSUME McpInvariant, NEW r \in Asks, HttpFails(r) PROVE McpInvariant'
<1>1. /\ ask[r].stage = "post" /\ UNCHANGED <<transport, pool, process>>
      /\ executed' = executed \/ executed' = [executed EXCEPT ![r] = @ + 1]
  BY DEF HttpFails, Carried
<1>2. transport = "http" /\ Told(r)
  BY <1>1, AskRow DEF AskSound, HttpStages
<1>3. CASE Ends(r, "error", Nobody)
  <2>1. PICK a \in AskRows : ask' = [ask EXCEPT ![r] = a] /\ a.stage = "done" /\ a.reply = "error"
    BY <1>3, EndsRow
  <2>2. a.stage \notin StdioStages
    BY <2>1 DEF StdioStages
  <2> QED BY <1>1, <1>2, <2>1, <2>2, HttpMove
<1>4. CASE ask[r].tries = 0 /\ ask' = [ask EXCEPT ![r] = [@ EXCEPT !.stage = "init", !.tries = 1]]
  <2> DEFINE q == ask[r]
             a == [q EXCEPT !.stage = "init", !.tries = 1]
  <2>1. q \in AskRows /\ ask' = [ask EXCEPT ![r] = a]
    BY <1>4, AskRow
  <2>2. q.reply = ask[r].reply /\ q.from = ask[r].from
    OBVIOUS
  <2>3. a \in AskRows /\ a.stage = "init" /\ a.tries = 1 /\ a.reply = q.reply /\ a.from = q.from
    <3> HIDE DEF q
    <3> QED BY <2>1 DEF AskRows, HttpStages
  <2> HIDE DEF a, q
  <2>4. a.stage \notin StdioStages
    BY <2>3 DEF StdioStages
  <2>5. a.reply \in {"result", "empty"} => executed'[r] > 0 /\ a.from \in {r, "note"}
    <3>1. executed \in [Asks -> Nat]
      BY DEF McpInvariant, McpShape
    <3>2. a.reply \in {"result", "empty"} => executed[r] > 0 /\ a.from \in {r, "note"}
      BY <1>2, <2>2, <2>3 DEF Told
    <3> QED BY <1>1, <3>1, <3>2
  <2> QED BY <1>1, <1>2, <1>4, <2>1, <2>3, <2>4, <2>5, HttpMove
<1> QED BY <1>3, <1>4 DEF HttpFails

LEMMA CancelledKept ==
    ASSUME McpInvariant, NEW r \in Asks, Cancelled(r) PROVE McpInvariant'
<1> DEFINE s == ask[r].process
<1>1. /\ Ends(r, "dropped", Nobody) /\ UNCHANGED <<transport, pool>> /\ McpShape
      /\ transport \in {"stdio", "http"}
  BY DEF Cancelled, McpInvariant, McpShape
<1>2. CASE ask[r].stage = "post"
  <2>1. /\ process' = process
        /\ executed' = executed \/ executed' = [executed EXCEPT ![r] = @ + 1]
    BY <1>2 DEF Cancelled, Carried
  <2>2. transport = "http"
    BY <1>2, AskRow DEF AskSound, HttpStages
  <2>3. PICK a \in AskRows : ask' = [ask EXCEPT ![r] = a] /\ a.stage = "done" /\ a.reply = "dropped"
    BY <1>1, EndsRow
  <2>4. a.stage \notin StdioStages
    BY <2>3 DEF StdioStages
  <2> QED BY <1>1, <1>2, <2>1, <2>2, <2>3, <2>4, HttpMove
<1>3. CASE ask[r].stage = "read"
  <2>1. executed' = executed
    BY <1>3 DEF Cancelled
  <2>2. s \in DOMAIN process /\ transport = "stdio" /\ process[s].lines \in Seq(McpLines)
    BY <1>3, Reader
  <2>3. PICK rest \in {process[s].lines} \union HalfRead(s) :
           process' = [process EXCEPT ![s] = [@ EXCEPT !.holder = Nobody, !.lines = rest]]
    BY <1>3 DEF Cancelled
  <2>4. /\ rest \in Seq(McpLines)
        /\ \A l \in Written(rest) : l.id = 0 \/ l \in Written(process[s].lines)
    <3>1. CASE rest \in HalfRead(s)
      BY <1>1, <2>2, <3>1, HalfReadSound
    <3>2. CASE rest = process[s].lines
      BY <2>2, <3>2
    <3> QED BY <3>1, <3>2
  <2> HIDE DEF s
  <2>5. Calm /\ Len(process') = Len(process)
    BY <1>1, <2>1, <2>2, <2>3, <2>4, LetGo
  <2>6. pool' \in 0 .. Len(process')
    BY <1>1, <2>5 DEF McpShape
  <2> QED BY <1>1, <2>2, <2>5, <2>6, CalmEnd
<1>4. CASE ask[r].stage \notin {"post", "read"}
  <2>1. UNCHANGED <<process, executed>>
    BY <1>4 DEF Cancelled
  <2>2. Calm /\ pool' \in 0 .. Len(process') /\ (transport = "http" => process' = <<>>)
    BY <1>1, <2>1, UnchangedIsCalm DEF McpShape
  <2> QED BY <1>1, <2>2, CalmEnd
<1> QED BY <1>2, <1>3, <1>4

LEMMA McpStep ==
    ASSUME McpInvariant, [McpNext]_mcpVars PROVE McpInvariant'
<1>1. CASE UNCHANGED mcpVars
  <2>1. /\ UNCHANGED <<process, executed, transport, pool, ask>> /\ McpShape
    BY <1>1 DEF mcpVars, McpInvariant
  <2>2. Calm /\ Len(process') = Len(process)
    BY <2>1, UnchangedIsCalm
  <2> QED BY <2>1, <2>2, CalmStay DEF McpShape
<1>2. ASSUME NEW r \in Asks,
             \/ BeginRequest(r) \/ TakePooled(r) \/ Connect(r) \/ SendLine(r)
             \/ ReadLine(r) \/ ReadFails(r) \/ ResetSession(r)
             \/ HttpInitialize(r) \/ HttpAnswered(r) \/ HttpFails(r) \/ Cancelled(r)
      PROVE  McpInvariant'
  BY <1>2, BeginRequestKept, TakePooledKept, ConnectKept, SendLineKept, ReadLineKept,
     ReadFailsKept, ResetSessionKept, HttpInitializeKept, HttpAnsweredKept, HttpFailsKept,
     CancelledKept
<1>3. ASSUME NEW s \in DOMAIN process, ServerAnswers(s) \/ ServerDies(s) PROVE McpInvariant'
  BY <1>3, ServerAnswersKept, ServerDiesKept
<1> QED BY <1>1, <1>2, <1>3 DEF McpNext

\* list_server_tools and call_tool over both transports: for any number of
\* requests and processes, however late answers, dropped callers, torn lines and
\* dying processes mix, nobody gets the answer to another request or a result that
\* was not produced, and a tool call is carried out once over stdio, twice at most
\* over HTTP.
THEOREM HonestyHolds == McpSpec => []ToolCallIsHonest
<1>1. McpInit => McpInvariant
  <2> SUFFICES ASSUME McpInit PROVE McpInvariant
    OBVIOUS
  <2>1. /\ NoAsk \in AskRows /\ NoAsk.stage = "start" /\ NoAsk.reply = "none" /\ NoAsk.tries = 0
    BY NoAskRow DEF NoAsk
  <2>2. /\ ask \in [Asks -> AskRows] /\ executed \in [Asks -> Nat] /\ process = <<>>
        /\ DOMAIN process = {} /\ \A r \in Asks : ask[r] = NoAsk /\ executed[r] = 0
    BY <2>1 DEF McpInit
  <2>3. McpShape /\ LinesSound
    BY <2>2 DEF McpInit, McpShape, LinesSound
  <2>4. \A r \in Asks : AskSound(r)
    BY <2>1, <2>2 DEF AskSound, Told, StdioStages, HttpStages
  <2>5. \A r \in ToolCalls : CallSound(r)
    BY <2>1, <2>2 DEF CallSound, StdioCall, HttpCall, Asks
  <2> QED BY <2>3, <2>4, <2>5 DEF McpInvariant
<1>2. McpInvariant /\ [McpNext]_mcpVars => McpInvariant'
  BY McpStep
<1>3. McpInvariant => ToolCallIsHonest
  BY DEF McpInvariant, AskSound, Told, CallSound, StdioCall, HttpCall, Asks, ToolCallIsHonest
<1> QED BY <1>1, <1>2, <1>3, PTL DEF McpSpec

-----------------------------------------------------------------------------
(* Recursion on the indices of a list.                                     *)
(*                                                                         *)
(* The lists of the context are computed step by step.  These lemmas stand *)
(* in for an induction over data: a set of numbers that has 0 and passes   *)
(* from each to the next has them all, as it has no least exception; and a *)
(* recursion that takes a function for its step defines something.         *)

\* A set of natural numbers has a least one.
LEMMA LeastIn ==
    ASSUME NEW T, T \subseteq Nat, T # {}
    PROVE  \E m \in T : \A n \in T : m <= n
<1>1. PICK m \in T : \A n \in T : ~(<<n, m>> \in OpToRel(<, Nat))
  BY NatLessThanWellFounded, WFMin
<1>2. \A n \in T : ~(n < m)
  BY <1>1 DEF OpToRel
<1> QED BY <1>2

\* What holds of 0 and passes from each number to the next one holds up to n.
LEMMA UpTo ==
    ASSUME NEW n \in Nat, NEW T, 0 \in T, \A i \in 1 .. n : i - 1 \in T => i \in T
    PROVE  \A i \in 0 .. n : i \in T
<1> SUFFICES ASSUME NEW i \in 0 .. n, i \notin T PROVE FALSE
  OBVIOUS
<1> DEFINE B == {j \in 0 .. n : j \notin T}
<1>1. PICK m \in B : \A j \in B : m <= j
  <2>1. B \subseteq Nat /\ B # {}
    OBVIOUS
  <2> HIDE DEF B
  <2> QED BY <2>1, LeastIn
<1>2. m \in 1 .. n /\ m - 1 \notin B
  BY <1>1
<1> QED BY <1>1, <1>2

\* The values a recursion takes: b at first, then by the function G.
Steps(f, n, b, G) == f[0] = b /\ \A i \in 1 .. n : f[i] = G[<<f[i - 1], i>>]

\* Such a recursion has a solution.
LEMMA StepsExist ==
    ASSUME NEW n \in Nat, NEW S, NEW b \in S, NEW G \in [S \X (1 .. n) -> S]
    PROVE  \E f \in [0 .. n -> S] : Steps(f, n, b, G)
<1> DEFINE T == {k \in Nat : \E f \in [0 .. k -> S] : Steps(f, k, b, G)}
<1>1. 0 \in T
  <2>1. [i \in 0 .. 0 |-> b] \in [0 .. 0 -> S] /\ Steps([i \in 0 .. 0 |-> b], 0, b, G)
    BY DEF Steps
  <2> QED BY <2>1
<1>2. ASSUME NEW i \in 1 .. n, i - 1 \in T PROVE i \in T
  <2>1. PICK f \in [0 .. i - 1 -> S] : Steps(f, i - 1, b, G)
    BY <1>2
  <2>2. f[i - 1] \in S
    OBVIOUS
  <2> DEFINE v == G[<<f[i - 1], i>>]
             g == [j \in 0 .. i |-> IF j = i THEN v ELSE f[j]]
  <2>3. v \in S
    BY <2>2
  <2> HIDE DEF v
  <2>4. g \in [0 .. i -> S]
    BY <2>3
  <2>5. g[0] = b
    BY <2>1 DEF Steps
  <2>6. ASSUME NEW j \in 1 .. i PROVE g[j] = G[<<g[j - 1], j>>]
    <3>1. CASE j = i
      <4>1. g[i] = v /\ g[i - 1] = f[i - 1]
        OBVIOUS
      <4> QED BY <3>1, <4>1 DEF v
    <3>2. CASE j # i
      <4>1. j \in 1 .. i - 1 /\ g[j] = f[j] /\ g[j - 1] = f[j - 1]
        BY <3>2
      <4> QED BY <2>1, <4>1 DEF Steps
    <3> QED BY <3>1, <3>2
  <2>7. Steps(g, i, b, G)
    BY <2>5, <2>6 DEF Steps
  <2> HIDE DEF g
  <2> QED BY <2>4, <2>7
<1> HIDE DEF T
<1>3. n \in T
  BY <1>1, <1>2, UpTo
<1> QED BY <1>3 DEF T

-----------------------------------------------------------------------------
(* The tokens of a prompt.                                                 *)

\* A message of a prompt.
ContextMessages ==
    [kind : {"memory", "turn", "summary"}, place : Nat, chars : Nat, covers : SUBSET Nat]

\* The larger of two numbers.
LEMMA GreaterOfTwo ==
    ASSUME NEW a \in Int, NEW b \in Int
    PROVE  Max({a, b}) = IF a >= b THEN a ELSE b
<1>1. \E x \in {a, b} : \A y \in {a, b} : x >= y
  OBVIOUS
<1>2. Max({a, b}) \in {a, b} /\ \A y \in {a, b} : Max({a, b}) >= y
  BY <1>1 DEF Max
<1> QED BY <1>2

\* estimate_message_tokens.
LEMMA TokensBounds ==
    ASSUME NEW c \in Nat
    PROVE  /\ TokensOf(c) \in Nat /\ TokensOf(c) >= 5 /\ 4 * (TokensOf(c) - 4) >= c
           /\ TokensOf(c) > 5 => 4 * (TokensOf(c) - 4) <= c + 3
<1>1. (c + 3) \div 4 \in Nat /\ 4 * ((c + 3) \div 4) <= c + 3 /\ c + 3 < 4 * ((c + 3) \div 4) + 4
  OBVIOUS
<1>2. TokensOf(c) = (IF 1 >= (c + 3) \div 4 THEN 1 ELSE (c + 3) \div 4) + 4
  BY <1>1, GreaterOfTwo DEF TokensOf
<1> QED BY <1>1, <1>2

\* truncate_message_to_token_budget takes what room there is, and at most the
\* tokens of its suffix beyond.
LEMMA TruncatedBounds ==
    ASSUME NEW c \in Nat, NEW room \in Nat, room > 12, TokensOf(c) > room
    PROVE  /\ Truncated(c, room) \in Nat
           /\ TokensOf(Truncated(c, room)) \in room .. room + 5
<1>1. Max({8, 4 * room - 12}) = 4 * room - 12
  BY GreaterOfTwo
<1>2. Truncated(c, room) = (IF c <= 4 * room - 12 THEN c ELSE 4 * room - 12) + 15
  <2>1. ~(TokensOf(c) <= room)
    BY TokensBounds
  <2>2. Min({c, 4 * room - 12}) = IF c <= 4 * room - 12 THEN c ELSE 4 * room - 12
    BY SmallerOfTwo
  <2> QED BY <1>1, <2>1, <2>2 DEF Truncated
<1>3. Truncated(c, room) \in Nat /\ Truncated(c, room) <= 4 * room + 3
  BY <1>2
<1>4. Truncated(c, room) >= 4 * room
  <2>1. TokensOf(c) \in Nat /\ TokensOf(c) > 5 /\ 4 * (TokensOf(c) - 4) <= c + 3 /\ TokensOf(c) >= room + 1
    BY TokensBounds
  <2>2. c >= 4 * room - 15
    BY <2>1
  <2> QED BY <1>2, <2>2
<1> HIDE DEF Truncated
<1>5. LET t == TokensOf(Truncated(c, room)) IN
      /\ t \in Nat /\ t >= 5 /\ 4 * (t - 4) >= Truncated(c, room)
      /\ t > 5 => 4 * (t - 4) <= Truncated(c, room) + 3
  BY <1>3, TokensBounds
<1> QED BY <1>3, <1>4, <1>5

\* The tokens of the first i messages, for each i.
Sums(s, f) ==
    /\ f \in [0 .. Len(s) -> Nat] /\ f[0] = 0
    /\ \A i \in 1 .. Len(s) : f[i] = f[i - 1] + TokensOf(s[i].chars)

\* The total of a list is the last of its partial sums.
LEMMA TotalSums ==
    ASSUME NEW s \in Seq(ContextMessages)
    PROVE  \E f : Sums(s, f) /\ Total(s) = f[Len(s)]
<1> DEFINE n == Len(s)
           G == [p \in Nat \X (1 .. n) |-> p[1] + TokensOf(s[p[2]].chars)]
           P(f) == f = [i \in 0 .. n |-> IF i = 0 THEN 0 ELSE f[i - 1] + TokensOf(s[i].chars)]
           c == CHOOSE f : P(f)
<1>1. n \in Nat /\ \A i \in 1 .. n : TokensOf(s[i].chars) \in Nat
  <2>1. \A i \in 1 .. n : s[i] \in ContextMessages
    BY ElementOfSeq
  <2>2. \A m \in ContextMessages : m.chars \in Nat
    BY DEF ContextMessages
  <2>3. \A m \in ContextMessages : TokensOf(m.chars) \in Nat
    BY <2>2, TokensBounds
  <2> QED BY <2>1, <2>3
<1>2. G \in [Nat \X (1 .. n) -> Nat] /\ \A x \in Nat, i \in 1 .. n : G[<<x, i>>] = x + TokensOf(s[i].chars)
  BY <1>1
<1>3. PICK g \in [0 .. n -> Nat] : Steps(g, n, 0, G)
  <2> HIDE DEF G, n
  <2> QED BY <1>1, <1>2, StepsExist
<1>4. g = [i \in 0 .. n |-> IF i = 0 THEN 0 ELSE g[i - 1] + TokensOf(s[i].chars)]
  <2>1. ASSUME NEW i \in 0 .. n
        PROVE  g[i] = IF i = 0 THEN 0 ELSE g[i - 1] + TokensOf(s[i].chars)
    <3> HIDE DEF G, n
    <3>1. CASE i = 0
      BY <1>3, <3>1 DEF Steps
    <3>2. CASE i # 0
      <4>1. i \in 1 .. n /\ i - 1 \in 0 .. n
        BY <1>1, <3>2
      <4>2. g[i] = G[<<g[i - 1], i>>] /\ g[i - 1] \in Nat
        BY <1>3, <4>1 DEF Steps
      <4> QED BY <1>2, <3>2, <4>1, <4>2
    <3> QED BY <3>1, <3>2
  <2> QED BY <2>1
<1>5. P(c)
  <2> HIDE DEF P
  <2>1. P(g)
    BY <1>4 DEF P
  <2> QED BY <2>1
<1>6. Total(s) = c[Len(s)]
  BY DEF Total
<1> HIDE DEF c
<1>7. \A i \in 0 .. n : c[i] \in Nat
  <2> DEFINE T == {i \in Nat : c[i] \in Nat}
  <2>1. 0 \in T
    BY <1>1, <1>5
  <2>2. ASSUME NEW i \in 1 .. n, i - 1 \in T PROVE i \in T
    <3>1. c[i] = c[i - 1] + TokensOf(s[i].chars)
      BY <1>1, <1>5
    <3> HIDE DEF P, n
    <3> QED BY <1>1, <2>2, <3>1
  <2> HIDE DEF T
  <2>3. \A i \in 0 .. n : i \in T
    BY <1>1, <2>1, <2>2, UpTo
  <2> QED BY <2>3 DEF T
<1>8. c[0] = 0 /\ \A i \in 1 .. n : c[i] = c[i - 1] + TokensOf(s[i].chars)
  BY <1>1, <1>5
<1>9. c \in [0 .. n -> Nat]
  BY <1>5, <1>7
<1> QED BY <1>6, <1>8, <1>9 DEF Sums

\* A list has one total.
LEMMA TotalOf ==
    ASSUME NEW s \in Seq(ContextMessages), NEW f, Sums(s, f)
    PROVE  Total(s) = f[Len(s)]
<1>1. PICK g : Sums(s, g) /\ Total(s) = g[Len(s)]
  BY TotalSums
<1> DEFINE T == {i \in Nat : f[i] = g[i]}
<1>2. 0 \in T
  BY <1>1 DEF Sums
<1>3. ASSUME NEW i \in 1 .. Len(s), i - 1 \in T PROVE i \in T
  BY <1>1, <1>3 DEF Sums
<1> HIDE DEF T
<1>4. Len(s) \in T
  <2>1. Len(s) \in Nat
    OBVIOUS
  <2>2. \A i \in 0 .. Len(s) : i \in T
    BY <1>2, <1>3, <2>1, UpTo
  <2> QED BY <2>1, <2>2
<1> QED BY <1>1, <1>4 DEF T

\* One more message adds its tokens.
LEMMA TotalAppend ==
    ASSUME NEW s \in Seq(ContextMessages), NEW m \in ContextMessages
    PROVE  Total(Append(s, m)) = Total(s) + TokensOf(m.chars)
<1>1. PICK f : Sums(s, f) /\ Total(s) = f[Len(s)]
  BY TotalSums
<1> DEFINE n == Len(s)
           a == Append(s, m)
           g == [i \in 0 .. n + 1 |-> IF i = n + 1 THEN f[n] + TokensOf(m.chars) ELSE f[i]]
<1>2. /\ a \in Seq(ContextMessages) /\ Len(a) = n + 1 /\ n \in Nat
      /\ a[n + 1] = m /\ \A i \in 1 .. n : a[i] = s[i]
  BY AppendProperties
<1>3. TokensOf(m.chars) \in Nat
  BY TokensBounds DEF ContextMessages
<1>4. f \in [0 .. n -> Nat] /\ f[0] = 0 /\ \A i \in 1 .. n : f[i] = f[i - 1] + TokensOf(s[i].chars)
  BY <1>1 DEF Sums
<1> HIDE DEF a, n
<1>5. g \in [0 .. n + 1 -> Nat] /\ g[0] = 0 /\ g[n + 1] = f[n] + TokensOf(m.chars)
  BY <1>2, <1>3, <1>4
<1>6. ASSUME NEW i \in 1 .. n + 1 PROVE g[i] = g[i - 1] + TokensOf(a[i].chars)
  <2>1. CASE i = n + 1
    BY <1>2, <1>4, <2>1
  <2>2. CASE i # n + 1
    <3>1. i \in 1 .. n /\ g[i] = f[i] /\ g[i - 1] = f[i - 1]
      BY <1>2, <2>2
    <3> HIDE DEF g
    <3> QED BY <1>2, <1>4, <3>1
  <2> QED BY <2>1, <2>2
<1> HIDE DEF g
<1>7. Sums(a, g)
  BY <1>2, <1>5, <1>6 DEF Sums
<1>8. Total(a) = g[n + 1]
  BY <1>2, <1>7, TotalOf
<1> QED BY <1>1, <1>5, <1>8 DEF a, n

-----------------------------------------------------------------------------
(* What the budget keeps.                                                  *)

\* What the memories may not use is room for a recent message, cut down if need
\* be.
LEMMA BudgetBounds ==
    /\ InputBudget \in Nat /\ MemoryBudget \in Nat
    /\ InputBudget - MemoryBudget > 12 /\ MinRecent \in Nat \ {0}
<1> DEFINE x == InputBudget * MemoryRatio
           y == InputBudget * (100 - MemoryRatio)
<1>1. InputBudget \in Nat /\ MemoryRatio \in 0 .. 80 /\ MinRecent \in Nat \ {0}
  BY ContextAssumption DEF InputBudget
<1>2. x \in Nat /\ y \in Nat /\ x + y = 100 * InputBudget
  BY <1>1
<1>3. y \div 100 > 12 /\ MemoryBudget = x \div 100
  BY ContextAssumption DEF InputBudget, MemoryBudget
<1> HIDE DEF x, y
<1>4. x \div 100 \in Nat /\ 100 * (x \div 100) <= x /\ 100 * (y \div 100) <= y /\ y \div 100 \in Nat
  BY <1>2
<1> QED BY <1>1, <1>2, <1>3, <1>4

\* The tokens of the first i places, of which the selected ones count.
Weights(selected, chars, n, h) ==
    /\ h \in [0 .. n -> Nat] /\ h[0] = 0
    /\ \A i \in 1 .. n : h[i] = h[i - 1] + IF i \in selected THEN TokensOf(chars[i]) ELSE 0

\* Nothing selected weighs nothing.
LEMMA WeightsOfNone ==
    ASSUME NEW n \in Nat, NEW chars
    PROVE  Weights({}, chars, n, [i \in 0 .. n |-> 0])
BY DEF Weights

\* One more selected place adds its tokens to every later sum.
Raised(h, n, k, t) == [j \in 0 .. n |-> IF j < k THEN h[j] ELSE h[j] + t]

LEMMA WeightsAdd ==
    ASSUME NEW n \in Nat, NEW selected \in SUBSET (1 .. n), NEW chars \in [1 .. n -> Nat],
           NEW h, Weights(selected, chars, n, h),
           NEW k \in 1 .. n, k \notin selected, NEW c \in Nat, NEW e, e[k] = c,
           \A i \in 1 .. n : i # k => e[i] = chars[i],
           NEW more, \A i \in 1 .. n : i \in more <=> i \in selected \/ i = k
    PROVE  Weights(more, e, n, Raised(h, n, k, TokensOf(c)))
<1> DEFINE t == TokensOf(c)
           g == Raised(h, n, k, t)
<1>1. t \in Nat
  BY TokensBounds
<1>2. /\ h \in [0 .. n -> Nat] /\ h[0] = 0
      /\ \A i \in 1 .. n : h[i] = h[i - 1] + IF i \in selected THEN TokensOf(chars[i]) ELSE 0
  BY DEF Weights
<1>4. TokensOf(e[k]) = t
  OBVIOUS
<1> HIDE DEF t
<1>5. g \in [0 .. n -> Nat] /\ g[0] = 0
  BY <1>1, <1>2 DEF Raised
<1>6. ASSUME NEW i \in 1 .. n
      PROVE  g[i] = g[i - 1] + IF i \in more THEN TokensOf(e[i]) ELSE 0
  <2>1. i - 1 \in 0 .. n /\ h[i] \in Nat /\ h[i - 1] \in Nat
    BY <1>2
  <2>2. CASE i = k
    <3>1. h[i] = h[i - 1]
      BY <1>2, <2>1, <2>2
    <3>2. g[i] = h[i] + t /\ g[i - 1] = h[i - 1]
      BY <2>1, <2>2 DEF Raised
    <3> QED BY <1>1, <1>4, <2>1, <2>2, <3>1, <3>2
  <2>3. CASE i # k
    <3>1. h[i] = h[i - 1] + IF i \in more THEN TokensOf(e[i]) ELSE 0
      BY <1>2, <2>3
    <3> DEFINE w == IF i \in more THEN TokensOf(e[i]) ELSE 0
    <3>2. w \in Nat
      BY <2>3, TokensBounds
    <3> HIDE DEF w
    <3>3. h[i] = h[i - 1] + w
      BY <3>1 DEF w
    <3>4. \/ g[i] = h[i] /\ g[i - 1] = h[i - 1]
          \/ g[i] = h[i] + t /\ g[i - 1] = h[i - 1] + t
      BY <2>1, <2>3 DEF Raised
    <3> HIDE DEF g
    <3>5. g[i] = g[i - 1] + w
      BY <1>1, <2>1, <3>2, <3>3, <3>4
    <3> QED BY <3>5 DEF w
  <2> QED BY <2>2, <2>3
<1> HIDE DEF g
<1>7. Weights(more, e, n, g)
  BY <1>5, <1>6 DEF Weights
<1> QED BY <1>7 DEF t, g

\* What was chosen so far, of n messages.
ChoiceRows(n) == [selected : SUBSET (1 .. n), chars : [1 .. n -> Nat], used : Nat, recent : Nat]

\* It takes the tokens it counts; when the budget is used up, the last one cut
\* may take its suffix beyond.
ChoiceSound(acc, n) ==
    /\ acc \in ChoiceRows(n) /\ acc.used <= InputBudget
    /\ \E h : /\ Weights(acc.selected, acc.chars, n, h)
              /\ h[n] = acc.used \/ (acc.used = InputBudget /\ h[n] <= InputBudget + 5)

\* Keeping a message adds its place and counts its tokens, up to the budget.
LEMMA KeepRow ==
    ASSUME NEW n \in Nat, NEW acc \in ChoiceRows(n), NEW k \in 1 .. n, NEW c \in Nat
    PROVE  /\ Keep(acc, k, c) \in ChoiceRows(n)
           /\ Keep(acc, k, c).selected = acc.selected \union {k}
           /\ Keep(acc, k, c).used = IF acc.used + TokensOf(c) <= InputBudget
                                     THEN acc.used + TokensOf(c) ELSE InputBudget
<1>1. /\ acc.selected \in SUBSET (1 .. n) /\ acc.chars \in [1 .. n -> Nat]
      /\ acc.used \in Nat /\ acc.recent \in Nat
  BY DEF ChoiceRows
<1>2. InputBudget \in Nat /\ TokensOf(c) \in Nat
  BY BudgetBounds, TokensBounds
<1>3. Min({acc.used + TokensOf(c), InputBudget})
        = IF acc.used + TokensOf(c) <= InputBudget THEN acc.used + TokensOf(c) ELSE InputBudget
  BY <1>1, <1>2, SmallerOfTwo
<1> QED BY <1>1, <1>2, <1>3 DEF Keep, ChoiceRows

\* A message that fits, or was cut down to fit, may be kept.
LEMMA KeepSound ==
    ASSUME NEW n \in Nat, NEW acc, ChoiceSound(acc, n), NEW k \in 1 .. n, k \notin acc.selected,
           NEW c \in Nat, acc.used < InputBudget, acc.used + TokensOf(c) <= InputBudget + 5
    PROVE  ChoiceSound(Keep(acc, k, c), n)
<1>1. acc \in ChoiceRows(n) /\ acc.used \in Nat
  BY DEF ChoiceSound, ChoiceRows
<1>2. PICK h : Weights(acc.selected, acc.chars, n, h) /\ h[n] = acc.used
  BY <1>1, BudgetBounds DEF ChoiceSound
<1>3. acc.selected \in SUBSET (1 .. n) /\ acc.chars \in [1 .. n -> Nat]
  BY <1>1 DEF ChoiceRows
<1> DEFINE q == Keep(acc, k, c)
           sel == acc.selected
           ch == acc.chars
<1>4. q.chars = [ch EXCEPT ![k] = c]
  BY DEF Keep
<1>5. /\ q \in ChoiceRows(n) /\ q.selected = sel \union {k}
      /\ q.used = IF acc.used + TokensOf(c) <= InputBudget THEN acc.used + TokensOf(c) ELSE InputBudget
  BY <1>1, KeepRow
<1> HIDE DEF q
<1>9. PICK g : Weights(sel \union {k}, q.chars, n, g) /\ g[n] = h[n] + TokensOf(c)
  <2> HIDE DEF sel, ch
  <2>1. sel \in SUBSET (1 .. n) /\ ch \in [1 .. n -> Nat] /\ Weights(sel, ch, n, h) /\ k \notin sel
    BY <1>2, <1>3 DEF sel, ch
  <2> DEFINE e == q.chars
             more == sel \union {k}
  <2>2. /\ e[k] = c /\ \A i \in 1 .. n : i # k => e[i] = ch[i]
        /\ \A i \in 1 .. n : i \in more <=> i \in sel \/ i = k
    BY <1>4, <2>1
  <2> HIDE DEF e, more
  <2>3. Weights(more, e, n, Raised(h, n, k, TokensOf(c)))
    BY <2>1, <2>2, WeightsAdd
  <2>4. Raised(h, n, k, TokensOf(c))[n] = h[n] + TokensOf(c)
    BY <2>1 DEF Raised, Weights
  <2> QED BY <2>3, <2>4 DEF e, more
<1>6. TokensOf(c) \in Nat /\ InputBudget \in Nat
  BY BudgetBounds, TokensBounds
<1>7. q.used <= InputBudget /\ (g[n] = q.used \/ (q.used = InputBudget /\ g[n] <= InputBudget + 5))
  BY <1>1, <1>2, <1>5, <1>6, <1>9
<1>8. ChoiceSound(q, n)
  BY <1>5, <1>7, <1>9 DEF ChoiceSound
<1> QED BY <1>8 DEF q

\* A snippet is kept while the share of the memories has room for it.
LEMMA KeepMemoryRow ==
    ASSUME NEW n \in Nat, NEW acc \in ChoiceRows(n), NEW k \in 1 .. n, NEW m \in ContextMessages
    PROVE  KeepMemory(acc, m, k) \in ChoiceRows(n)
<1>1. m.chars \in Nat
  BY DEF ContextMessages
<1> DEFINE q == Keep(acc, k, m.chars)
<1>2. q \in ChoiceRows(n)
  BY <1>1, KeepRow
<1> HIDE DEF q
<1>3. [q EXCEPT !.recent = 0] \in ChoiceRows(n)
  BY <1>2 DEF ChoiceRows
<1>4. KeepMemory(acc, m, k) = acc \/ KeepMemory(acc, m, k) = [q EXCEPT !.recent = 0]
  BY DEF KeepMemory, q
<1> QED BY <1>3, <1>4

\* The memories stay within their share.
LEMMA KeepMemorySound ==
    ASSUME NEW n \in Nat, NEW acc, ChoiceSound(acc, n), acc.used <= MemoryBudget, acc.recent = 0,
           NEW k \in 1 .. n, k \notin acc.selected, NEW m \in ContextMessages
    PROVE  LET q == KeepMemory(acc, m, k) IN
           /\ ChoiceSound(q, n) /\ q.used <= MemoryBudget /\ q.recent = 0
           /\ q.selected \subseteq acc.selected \union {k}
<1>1. m.chars \in Nat /\ TokensOf(m.chars) \in Nat /\ TokensOf(m.chars) >= 5
  BY TokensBounds DEF ContextMessages
<1>2. CASE m.kind # "memory" \/ acc.used + TokensOf(m.chars) > MemoryBudget
  <2>1. KeepMemory(acc, m, k) = acc
    BY <1>2 DEF KeepMemory
  <2> QED BY <2>1
<1>3. CASE ~(m.kind # "memory" \/ acc.used + TokensOf(m.chars) > MemoryBudget)
  <2> DEFINE p == Keep(acc, k, m.chars)
             q == [p EXCEPT !.recent = 0]
  <2>1. acc \in ChoiceRows(n) /\ acc.used \in Nat
    BY DEF ChoiceSound, ChoiceRows
  <2>2. acc.used + TokensOf(m.chars) <= MemoryBudget
    BY <1>1, <1>3, <2>1, BudgetBounds
  <2>3. ChoiceSound(p, n)
    <3>1. acc.used < InputBudget /\ acc.used + TokensOf(m.chars) <= InputBudget + 5
      BY <1>1, <2>1, <2>2, BudgetBounds
    <3> HIDE DEF p
    <3> QED BY <1>1, <3>1, KeepSound DEF p
  <2>4. p.selected = acc.selected \union {k} /\ p.used = acc.used + TokensOf(m.chars) /\ p \in ChoiceRows(n)
    <3>1. acc.used + TokensOf(m.chars) <= InputBudget
      BY <1>1, <2>1, <2>2, BudgetBounds
    <3> DEFINE c == m.chars
    <3>2. c \in Nat /\ acc.used + TokensOf(c) <= InputBudget /\ p = Keep(acc, k, c)
      BY <1>1, <3>1
    <3> HIDE DEF c, p
    <3>3. p.selected = acc.selected \union {k} /\ p.used = acc.used + TokensOf(c) /\ p \in ChoiceRows(n)
      BY <2>1, <3>2, KeepRow
    <3> QED BY <3>3 DEF c
  <2> HIDE DEF p
  <2>5. q \in ChoiceRows(n) /\ q.selected = p.selected /\ q.chars = p.chars /\ q.used = p.used /\ q.recent = 0
    BY <2>4 DEF ChoiceRows
  <2> HIDE DEF q
  <2>6. ChoiceSound(q, n)
    BY <2>3, <2>5 DEF ChoiceSound
  <2>7. KeepMemory(acc, m, k) = q
    BY <1>3 DEF KeepMemory, q, p
  <2> QED BY <2>2, <2>4, <2>5, <2>6, <2>7
<1> QED BY <1>2, <1>3

\* Before the first snippet.
NoChoice(s) == [selected |-> {}, chars |-> [i \in 1 .. Len(s) |-> s[i].chars], used |-> 0, recent |-> 0]

\* Nothing is chosen at first.
LEMMA NoChoiceSound ==
    ASSUME NEW s \in Seq(ContextMessages)
    PROVE  NoChoice(s) \in ChoiceRows(Len(s)) /\ ChoiceSound(NoChoice(s), Len(s))
<1> DEFINE n == Len(s)
           ch == [i \in 1 .. n |-> s[i].chars]
<1>1. n \in Nat /\ \A i \in 1 .. n : s[i] \in ContextMessages
  BY ElementOfSeq
<1>2. \A i \in 1 .. n : s[i].chars \in Nat
  BY <1>1 DEF ContextMessages
<1>3. ch \in [1 .. n -> Nat]
  BY <1>2
<1>4. NoChoice(s) = [selected |-> {}, chars |-> ch, used |-> 0, recent |-> 0]
  BY DEF NoChoice
<1> HIDE DEF n, ch
<1>5. NoChoice(s) \in ChoiceRows(n)
  BY <1>3, <1>4 DEF ChoiceRows
<1>6. Weights({}, ch, n, [i \in 0 .. n |-> 0]) /\ [i \in 0 .. n |-> 0][n] = 0
  BY <1>1, WeightsOfNone
<1>7. ChoiceSound(NoChoice(s), n)
  BY <1>4, <1>5, <1>6, BudgetBounds DEF ChoiceSound
<1> QED BY <1>5, <1>7 DEF n

\* The recursion of the snippets, step by step.
LEMMA MemorySteps ==
    ASSUME NEW s \in Seq(ContextMessages)
    PROVE  \E f : /\ f[0] = NoChoice(s) /\ WithMemories(s) = f[Len(s)]
                  /\ \A i \in 1 .. Len(s) : f[i] = KeepMemory(f[i - 1], s[i], i)
<1> DEFINE n == Len(s)
           S == ChoiceRows(n)
           b == NoChoice(s)
           G == [p \in S \X (1 .. n) |-> KeepMemory(p[1], s[p[2]], p[2])]
           P(f) == f = [i \in 0 .. n |-> IF i = 0 THEN b ELSE KeepMemory(f[i - 1], s[i], i)]
           c == CHOOSE f : P(f)
<1>1. n \in Nat /\ (\A i \in 1 .. n : s[i] \in ContextMessages) /\ b \in S
  BY ElementOfSeq, NoChoiceSound
<1>2. \A x \in S, i \in 1 .. n : KeepMemory(x, s[i], i) \in S
  <2> HIDE DEF n
  <2> QED BY <1>1, KeepMemoryRow
<1>3. G \in [S \X (1 .. n) -> S] /\ \A x \in S, i \in 1 .. n : G[<<x, i>>] = KeepMemory(x, s[i], i)
  <2> HIDE DEF n, S
  <2> QED BY <1>2
<1>4. PICK g \in [0 .. n -> S] : Steps(g, n, b, G)
  <2> HIDE DEF G, n, S, b
  <2> QED BY <1>1, <1>3, StepsExist
<1>5. P(g)
  <2> HIDE DEF G, n, S, b
  <2>1. ASSUME NEW i \in 0 .. n
        PROVE  g[i] = IF i = 0 THEN b ELSE KeepMemory(g[i - 1], s[i], i)
    <3>1. CASE i = 0
      BY <1>4, <3>1 DEF Steps
    <3>2. CASE i # 0
      <4>1. i \in 1 .. n /\ i - 1 \in 0 .. n
        BY <1>1, <3>2
      <4>2. g[i] = G[<<g[i - 1], i>>] /\ g[i - 1] \in S
        BY <1>4, <4>1 DEF Steps
      <4> QED BY <1>3, <3>2, <4>1, <4>2
    <3> QED BY <3>1, <3>2
  <2> QED BY <2>1
<1>6. P(c)
  <2> HIDE DEF P
  <2> QED BY <1>5
<1>7. WithMemories(s) = c[n]
  BY DEF WithMemories, NoChoice
<1> HIDE DEF c
<1>8. c[0] = b /\ \A i \in 1 .. n : c[i] = KeepMemory(c[i - 1], s[i], i)
  <2> HIDE DEF b
  <2> QED BY <1>1, <1>6
<1> QED BY <1>7, <1>8

\* When the snippets are through, their share is all that is used.
LEMMA WithMemoriesSound ==
    ASSUME NEW s \in Seq(ContextMessages)
    PROVE  LET q == WithMemories(s) IN
           ChoiceSound(q, Len(s)) /\ q.used <= MemoryBudget /\ q.recent = 0
<1> DEFINE n == Len(s)
<1>1. PICK f : /\ f[0] = NoChoice(s) /\ WithMemories(s) = f[n]
               /\ \A i \in 1 .. n : f[i] = KeepMemory(f[i - 1], s[i], i)
  BY MemorySteps
<1>2. n \in Nat /\ \A i \in 1 .. n : s[i] \in ContextMessages
  BY ElementOfSeq
<1>3. ChoiceSound(NoChoice(s), n)
  BY NoChoiceSound
<1> HIDE DEF n
<1> DEFINE T == {i \in 0 .. n : /\ ChoiceSound(f[i], n) /\ f[i].used <= MemoryBudget /\ f[i].recent = 0
                                /\ f[i].selected \subseteq 1 .. i}
<1>4. 0 \in T
  BY <1>1, <1>2, <1>3, BudgetBounds DEF NoChoice
<1>5. ASSUME NEW i \in 1 .. n, i - 1 \in T PROVE i \in T
  <2> DEFINE a == f[i - 1]
             q == KeepMemory(a, s[i], i)
  <2>1. /\ ChoiceSound(a, n) /\ a.used <= MemoryBudget /\ a.recent = 0 /\ a.selected \subseteq 1 .. i - 1
    BY <1>5
  <2> HIDE DEF a
  <2>2. /\ ChoiceSound(q, n) /\ q.used <= MemoryBudget /\ q.recent = 0
        /\ q.selected \subseteq a.selected \union {i}
    <3>1. i \notin a.selected
      BY <1>2, <2>1
    <3> QED BY <1>2, <2>1, <3>1, KeepMemorySound
  <2>3. f[i] = q
    BY <1>1 DEF a
  <2> HIDE DEF q
  <2>4. 1 .. i - 1 \subseteq 1 .. i /\ i \in 1 .. i /\ i \in 0 .. n
    BY <1>2
  <2>5. q.selected \subseteq 1 .. i
    BY <2>1, <2>2, <2>4
  <2> QED BY <2>2, <2>3, <2>4, <2>5
<1> HIDE DEF T
<1>6. \A i \in 0 .. n : i \in T
  BY <1>2, <1>4, <1>5, UpTo
<1>7. n \in T
  BY <1>2, <1>6
<1> QED BY <1>1, <1>7 DEF T, n

\* A recent message is kept when it fits, or cut down to fit.
LEMMA KeepRecentRow ==
    ASSUME NEW n \in Nat, NEW acc \in ChoiceRows(n), acc.used <= InputBudget,
           NEW k \in 1 .. n, NEW m \in ContextMessages
    PROVE  /\ KeepRecent(acc, m, k) \in ChoiceRows(n) /\ KeepRecent(acc, m, k).used <= InputBudget
           /\ acc.selected \subseteq KeepRecent(acc, m, k).selected
<1> DEFINE room == InputBudget - acc.used
<1>1. m.chars \in Nat /\ TokensOf(m.chars) \in Nat /\ acc.used \in Nat /\ InputBudget \in Nat
  BY TokensBounds, BudgetBounds DEF ContextMessages, ChoiceRows
<1>2. CASE KeepRecent(acc, m, k) = acc
  BY <1>2
<1>6. ASSUME NEW c \in Nat
      PROVE  /\ Keep(acc, k, c) \in ChoiceRows(n) /\ Keep(acc, k, c).used <= InputBudget
             /\ acc.selected \subseteq Keep(acc, k, c).selected
  <2> DEFINE q == Keep(acc, k, c)
  <2>1. /\ q \in ChoiceRows(n) /\ q.selected = acc.selected \union {k}
        /\ q.used = IF acc.used + TokensOf(c) <= InputBudget THEN acc.used + TokensOf(c) ELSE InputBudget
    <3>1. n \in Nat /\ acc \in ChoiceRows(n) /\ k \in 1 .. n /\ c \in Nat
      OBVIOUS
    <3> QED BY <3>1, KeepRow
  <2>2. TokensOf(c) \in Nat
    BY TokensBounds
  <2> HIDE DEF q
  <2>3. q.used <= InputBudget /\ acc.selected \subseteq q.selected
    BY <1>1, <2>1, <2>2
  <2> QED BY <2>1, <2>3 DEF q
<1>3. CASE KeepRecent(acc, m, k) = Keep(acc, k, m.chars)
  <2> DEFINE c == m.chars
  <2>1. c \in Nat /\ KeepRecent(acc, m, k) = Keep(acc, k, c)
    BY <1>1, <1>3
  <2> HIDE DEF c
  <2> QED BY <1>6, <2>1
<1>4. CASE KeepRecent(acc, m, k) = Keep(acc, k, Truncated(m.chars, room)) /\ room > 12 /\ TokensOf(m.chars) > room
  <2>1. room \in Nat
    BY <1>1
  <2>2. Truncated(m.chars, room) \in Nat
    <3> HIDE DEF room
    <3> QED BY <1>1, <1>4, <2>1, TruncatedBounds
  <2> DEFINE c == Truncated(m.chars, room)
  <2>3. c \in Nat /\ KeepRecent(acc, m, k) = Keep(acc, k, c)
    BY <1>4, <2>2
  <2> HIDE DEF c
  <2> QED BY <1>6, <2>3
<1>5. \/ KeepRecent(acc, m, k) = acc \/ KeepRecent(acc, m, k) = Keep(acc, k, m.chars)
      \/ KeepRecent(acc, m, k) = Keep(acc, k, Truncated(m.chars, room)) /\ room > 12 /\ TokensOf(m.chars) > room
  BY <1>1 DEF KeepRecent
<1> QED BY <1>2, <1>3, <1>4, <1>5

\* The first of the recent messages is kept whatever its length.
LEMMA KeepRecentSound ==
    ASSUME NEW n \in Nat, NEW acc, ChoiceSound(acc, n), NEW k \in 1 .. n, NEW m \in ContextMessages
    PROVE  LET q == KeepRecent(acc, m, k) IN
           /\ ChoiceSound(q, n) /\ acc.selected \subseteq q.selected
           /\ InputBudget - acc.used > 12 /\ acc.recent = 0 => k \in q.selected
<1> DEFINE room == InputBudget - acc.used
           t == Truncated(m.chars, room)
<1>1. /\ m.chars \in Nat /\ TokensOf(m.chars) \in Nat /\ TokensOf(m.chars) >= 5
      /\ acc.used \in Nat /\ acc.used <= InputBudget /\ InputBudget \in Nat /\ room \in Nat
      /\ acc \in ChoiceRows(n)
  <2>1. m.chars \in Nat
    BY DEF ContextMessages
  <2>2. TokensOf(m.chars) \in Nat /\ TokensOf(m.chars) >= 5
    BY <2>1, TokensBounds
  <2>3. acc \in ChoiceRows(n) /\ acc.used <= InputBudget
    BY DEF ChoiceSound
  <2>4. acc.used \in Nat
    BY <2>3 DEF ChoiceRows
  <2>5. InputBudget \in Nat /\ room \in Nat
    BY <2>3, <2>4, BudgetBounds
  <2> QED BY <2>1, <2>2, <2>3, <2>4, <2>5
<1>2. CASE k \in acc.selected
  <2>1. KeepRecent(acc, m, k) = acc
    BY <1>2 DEF KeepRecent
  <2> QED BY <1>2, <2>1
<1>3. CASE k \notin acc.selected /\ TokensOf(m.chars) <= room
  <2>1. KeepRecent(acc, m, k) = Keep(acc, k, m.chars)
    BY <1>3 DEF KeepRecent
  <2>2. acc.used < InputBudget /\ acc.used + TokensOf(m.chars) <= InputBudget + 5
    BY <1>1, <1>3
  <2>3. ChoiceSound(Keep(acc, k, m.chars), n)
    BY <1>1, <1>3, <2>2, KeepSound
  <2>4. Keep(acc, k, m.chars).selected = acc.selected \union {k}
    <3> DEFINE ch == m.chars
    <3>1. acc \in ChoiceRows(n) /\ ch \in Nat
      BY <1>1
    <3> HIDE DEF ch
    <3>2. Keep(acc, k, ch).selected = acc.selected \union {k}
      BY <3>1, KeepRow
    <3> QED BY <3>2 DEF ch
  <2> QED BY <2>1, <2>3, <2>4
<1>4. CASE k \notin acc.selected /\ ~(TokensOf(m.chars) <= room) /\ acc.recent < MinRecent /\ room > 12
  <2>1. KeepRecent(acc, m, k) = Keep(acc, k, t)
    BY <1>4 DEF KeepRecent
  <2>2. t \in Nat /\ TokensOf(t) \in room .. room + 5
    <3>1. TokensOf(m.chars) > room
      BY <1>1, <1>4
    <3> HIDE DEF room
    <3> QED BY <1>1, <1>4, <3>1, TruncatedBounds
  <2> HIDE DEF t
  <2>3. acc.used < InputBudget /\ acc.used + TokensOf(t) <= InputBudget + 5
    BY <1>1, <1>4, <2>2
  <2>4. ChoiceSound(Keep(acc, k, t), n)
    BY <1>4, <2>2, <2>3, KeepSound
  <2>5. Keep(acc, k, t).selected = acc.selected \union {k}
    <3>1. acc \in ChoiceRows(n)
      BY <1>1
    <3> QED BY <2>2, <3>1, KeepRow
  <2> QED BY <2>1, <2>4, <2>5
<1>5. CASE k \notin acc.selected /\ ~(TokensOf(m.chars) <= room) /\ ~(acc.recent < MinRecent /\ room > 12)
  <2>1. KeepRecent(acc, m, k) = acc
    BY <1>5 DEF KeepRecent
  <2>2. ~(room > 12 /\ acc.recent = 0)
    BY <1>5, BudgetBounds
  <2> QED BY <2>1, <2>2
<1> QED BY <1>2, <1>3, <1>4, <1>5

\* The recursion of the recent messages, from the newest on.
LEMMA RecentSteps ==
    ASSUME NEW s \in Seq(ContextMessages)
    PROVE  \E f : /\ f[0] = WithMemories(s) /\ WithRecent(s) = f[Len(s)]
                  /\ \A i \in 1 .. Len(s) :
                        f[i] = KeepRecent(f[i - 1], s[Len(s) + 1 - i], Len(s) + 1 - i)
<1> DEFINE n == Len(s)
           S == {a \in ChoiceRows(n) : a.used <= InputBudget}
           b == WithMemories(s)
           step(x, i) == KeepRecent(x, s[n + 1 - i], n + 1 - i)
           G == [p \in S \X (1 .. n) |-> step(p[1], p[2])]
           P(f) == f = [i \in 0 .. n |-> IF i = 0 THEN b ELSE step(f[i - 1], i)]
           c == CHOOSE f : P(f)
<1>1. n \in Nat /\ (\A i \in 1 .. n : s[i] \in ContextMessages) /\ b \in S
  BY ElementOfSeq, WithMemoriesSound DEF ChoiceSound
<1>2. \A x \in S, i \in 1 .. n : step(x, i) \in S
  <2> HIDE DEF n
  <2> SUFFICES ASSUME NEW x \in S, NEW i \in 1 .. n PROVE step(x, i) \in S
    OBVIOUS
  <2>1. n + 1 - i \in 1 .. n
    BY <1>1
  <2> DEFINE k == n + 1 - i
  <2>2. k \in 1 .. n /\ s[k] \in ContextMessages
    BY <1>1, <2>1
  <2> HIDE DEF k
  <2>3. KeepRecent(x, s[k], k) \in S
    BY <1>1, <2>2, KeepRecentRow
  <2> QED BY <2>3 DEF k
<1>3. G \in [S \X (1 .. n) -> S] /\ \A x \in S, i \in 1 .. n : G[<<x, i>>] = step(x, i)
  <2> HIDE DEF n, S, step
  <2> QED BY <1>2
<1>4. PICK g \in [0 .. n -> S] : Steps(g, n, b, G)
  <2> HIDE DEF G, n, S, b
  <2> QED BY <1>1, <1>3, StepsExist
<1>5. P(g)
  <2> HIDE DEF G, n, S, b, step
  <2>1. ASSUME NEW i \in 0 .. n
        PROVE  g[i] = IF i = 0 THEN b ELSE step(g[i - 1], i)
    <3>1. CASE i = 0
      BY <1>4, <3>1 DEF Steps
    <3>2. CASE i # 0
      <4>1. i \in 1 .. n /\ i - 1 \in 0 .. n
        BY <1>1, <3>2
      <4>2. g[i] = G[<<g[i - 1], i>>] /\ g[i - 1] \in S
        BY <1>4, <4>1 DEF Steps
      <4> QED BY <1>3, <3>2, <4>1, <4>2
    <3> QED BY <3>1, <3>2
  <2> QED BY <2>1
<1>6. P(c)
  <2> HIDE DEF P
  <2> QED BY <1>5
<1>7. WithRecent(s) = c[n]
  BY DEF WithRecent
<1> HIDE DEF c
<1>8. c[0] = b /\ \A i \in 1 .. n : c[i] = step(c[i - 1], i)
  <2> HIDE DEF b, step, n
  <2> QED BY <1>1, <1>6
<1> QED BY <1>7, <1>8

\* The newest message is kept.
LEMMA WithRecentSound ==
    ASSUME NEW s \in Seq(ContextMessages), s # <<>>
    PROVE  ChoiceSound(WithRecent(s), Len(s)) /\ Len(s) \in WithRecent(s).selected
<1> DEFINE n == Len(s)
<1>1. PICK f : /\ f[0] = WithMemories(s) /\ WithRecent(s) = f[n]
               /\ \A i \in 1 .. n : f[i] = KeepRecent(f[i - 1], s[n + 1 - i], n + 1 - i)
  BY RecentSteps
<1>2. n \in Nat /\ n > 0 /\ \A i \in 1 .. n : s[i] \in ContextMessages
  BY ElementOfSeq
<1>3. ChoiceSound(f[0], n) /\ f[0].used <= MemoryBudget /\ f[0].recent = 0
  BY <1>1, WithMemoriesSound
<1> HIDE DEF n
<1> DEFINE T == {i \in 0 .. n : ChoiceSound(f[i], n) /\ (i > 0 => n \in f[i].selected)}
<1>4. 0 \in T
  BY <1>2, <1>3
<1>5. ASSUME NEW i \in 1 .. n, i - 1 \in T PROVE i \in T
  <2> DEFINE a == f[i - 1]
             k == n + 1 - i
             q == KeepRecent(a, s[k], k)
  <2>1. ChoiceSound(a, n) /\ (i - 1 > 0 => n \in a.selected)
    BY <1>5
  <2>2. k \in 1 .. n /\ s[k] \in ContextMessages
    BY <1>2
  <2>3. f[i] = q
    BY <1>1
  <2>4. i = 1 => a.used <= MemoryBudget /\ a.recent = 0 /\ k = n
    BY <1>2, <1>3
  <2>7. i \in 0 .. n /\ (i # 1 => i - 1 > 0)
    BY <1>2
  <2> HIDE DEF a, k
  <2>5. /\ ChoiceSound(q, n) /\ a.selected \subseteq q.selected
        /\ InputBudget - a.used > 12 /\ a.recent = 0 => k \in q.selected
    BY <1>2, <2>1, <2>2, KeepRecentSound
  <2> HIDE DEF q
  <2>6. n \in q.selected
    <3>1. CASE i = 1
      <4>1. a.used \in Nat
        BY <2>1 DEF ChoiceSound, ChoiceRows
      <4>2. InputBudget - a.used > 12
        BY <2>4, <3>1, <4>1, BudgetBounds
      <4> QED BY <2>4, <2>5, <3>1, <4>2
    <3>2. CASE i # 1
      BY <2>1, <2>5, <2>7, <3>2
    <3> QED BY <3>1, <3>2
  <2> QED BY <2>3, <2>5, <2>6, <2>7
<1> HIDE DEF T
<1>6. \A i \in 0 .. n : i \in T
  BY <1>2, <1>4, <1>5, UpTo
<1>7. n \in T
  BY <1>2, <1>6
<1> QED BY <1>1, <1>2, <1>7 DEF T, n

-----------------------------------------------------------------------------
(* The prompt that is left.                                                *)

\* A message with its replacement.
Cut(m, chars) == [m EXCEPT !.chars = chars]

\* A message that was cut keeps its place.
LEMMA CutRow ==
    ASSUME NEW m \in ContextMessages, NEW c \in Nat
    PROVE  Cut(m, c) \in ContextMessages /\ Cut(m, c).chars = c /\ Cut(m, c).place = m.place
BY DEF Cut, ContextMessages

\* The recursion of the selection, step by step.
LEMMA SelectionSteps ==
    ASSUME NEW s \in Seq(ContextMessages), NEW q \in ChoiceRows(Len(s))
    PROVE  \E f : /\ f[0] = <<>> /\ Selection(s, q) = f[Len(s)]
                  /\ \A i \in 1 .. Len(s) :
                        f[i] = IF i \notin q.selected THEN f[i - 1]
                               ELSE Append(f[i - 1], Cut(s[i], q.chars[i]))
<1> DEFINE n == Len(s)
           S == Seq(ContextMessages)
           b == <<>>
           step(x, i) == IF i \notin q.selected THEN x ELSE Append(x, Cut(s[i], q.chars[i]))
           G == [p \in S \X (1 .. n) |-> step(p[1], p[2])]
           P(f) == f = [i \in 0 .. n |-> IF i = 0 THEN b ELSE step(f[i - 1], i)]
           c == CHOOSE f : P(f)
<1>1. n \in Nat /\ (\A i \in 1 .. n : s[i] \in ContextMessages) /\ b \in S
  BY ElementOfSeq
<1>2. \A x \in S, i \in 1 .. n : step(x, i) \in S
  <2> SUFFICES ASSUME NEW x \in S, NEW i \in 1 .. n PROVE step(x, i) \in S
    OBVIOUS
  <2>1. q.chars[i] \in Nat
    BY DEF ChoiceRows
  <2>2. Cut(s[i], q.chars[i]) \in ContextMessages
    BY <1>1, <2>1, CutRow
  <2>3. Append(x, Cut(s[i], q.chars[i])) \in S
    BY <2>2, AppendProperties
  <2> QED BY <2>3
<1>3. G \in [S \X (1 .. n) -> S] /\ \A x \in S, i \in 1 .. n : G[<<x, i>>] = step(x, i)
  <2> HIDE DEF n, S, step
  <2> QED BY <1>2
<1>4. PICK g \in [0 .. n -> S] : Steps(g, n, b, G)
  <2> HIDE DEF G, n, S, b
  <2> QED BY <1>1, <1>3, StepsExist
<1>5. P(g)
  <2> HIDE DEF G, n, S, b, step
  <2>1. ASSUME NEW i \in 0 .. n
        PROVE  g[i] = IF i = 0 THEN b ELSE step(g[i - 1], i)
    <3>1. CASE i = 0
      BY <1>4, <3>1 DEF Steps
    <3>2. CASE i # 0
      <4>1. i \in 1 .. n /\ i - 1 \in 0 .. n
        BY <1>1, <3>2
      <4>2. g[i] = G[<<g[i - 1], i>>] /\ g[i - 1] \in S
        BY <1>4, <4>1 DEF Steps
      <4> QED BY <1>3, <3>2, <4>1, <4>2
    <3> QED BY <3>1, <3>2
  <2> QED BY <2>1
<1>6. P(c)
  <2> HIDE DEF P
  <2> QED BY <1>5
<1>7. Selection(s, q) = c[n]
  BY DEF Selection, Cut
<1> HIDE DEF c
<1>8. c[0] = b /\ \A i \in 1 .. n : c[i] = step(c[i - 1], i)
  <2> HIDE DEF b, step, n
  <2> QED BY <1>1, <1>6
<1> QED BY <1>7, <1>8

\* No message, no token.
LEMMA TotalOfNone == Total(<<>>) = 0
<1>1. <<>> \in Seq(ContextMessages) /\ Len(<<>>) = 0
  OBVIOUS
<1>2. PICK f : Sums(<<>>, f) /\ Total(<<>>) = f[Len(<<>>)]
  BY <1>1, TotalSums
<1> QED BY <1>1, <1>2 DEF Sums

\* What the selection weighs is what was counted, and it ends with the newest
\* message when that one was selected.
LEMMA SelectionSound ==
    ASSUME NEW s \in Seq(ContextMessages), s # <<>>, NEW q, ChoiceSound(q, Len(s)), Len(s) \in q.selected
    PROVE  LET p == Selection(s, q) IN
           /\ p \in Seq(ContextMessages) /\ p # <<>> /\ Total(p) <= InputBudget + 5
           /\ Last(p).place = s[Len(s)].place
<1> DEFINE n == Len(s)
<1>1. n \in Nat /\ n > 0 /\ (\A i \in 1 .. n : s[i] \in ContextMessages) /\ q \in ChoiceRows(n)
  BY ElementOfSeq DEF ChoiceSound
<1>2. PICK f : /\ f[0] = <<>> /\ Selection(s, q) = f[n]
               /\ \A i \in 1 .. n : f[i] = IF i \notin q.selected THEN f[i - 1]
                                           ELSE Append(f[i - 1], Cut(s[i], q.chars[i]))
  BY <1>1, SelectionSteps
<1>3. PICK h : /\ Weights(q.selected, q.chars, n, h)
               /\ h[n] = q.used \/ (q.used = InputBudget /\ h[n] <= InputBudget + 5)
  BY DEF ChoiceSound
<1>4. \A i \in 1 .. n : q.chars[i] \in Nat
  BY <1>1 DEF ChoiceRows
<1>5. q.used \in Nat /\ q.used <= InputBudget /\ n \in q.selected
  BY <1>1 DEF ChoiceRows, ChoiceSound
<1>6. /\ h \in [0 .. n -> Nat] /\ h[0] = 0
      /\ \A i \in 1 .. n : h[i] = h[i - 1] + IF i \in q.selected THEN TokensOf(q.chars[i]) ELSE 0
  BY <1>3 DEF Weights
<1> HIDE DEF n
<1>7. ASSUME NEW i \in 1 .. n, f[i - 1] \in Seq(ContextMessages), Total(f[i - 1]) = h[i - 1], i \in q.selected
      PROVE  LET m == Cut(s[i], q.chars[i]) IN
             /\ m \in ContextMessages /\ m.place = s[i].place /\ f[i] = Append(f[i - 1], m)
             /\ f[i] \in Seq(ContextMessages) /\ Total(f[i]) = h[i]
  <2> DEFINE m == Cut(s[i], q.chars[i])
  <2>1. m \in ContextMessages /\ m.chars = q.chars[i] /\ m.place = s[i].place
    BY <1>1, <1>4, CutRow
  <2>2. f[i] = Append(f[i - 1], m)
    BY <1>2, <1>7
  <2> HIDE DEF m
  <2>3. f[i] \in Seq(ContextMessages)
    BY <1>7, <2>1, <2>2, AppendProperties
  <2>4. Total(f[i]) = Total(f[i - 1]) + TokensOf(m.chars)
    BY <1>7, <2>1, <2>2, TotalAppend
  <2>5. h[i] = h[i - 1] + TokensOf(q.chars[i])
    BY <1>6, <1>7
  <2>6. Total(f[i]) = h[i]
    BY <1>7, <2>1, <2>4, <2>5
  <2> QED BY <2>1, <2>2, <2>3, <2>6 DEF m
<1> DEFINE T == {i \in 0 .. n : f[i] \in Seq(ContextMessages) /\ Total(f[i]) = h[i]}
<1>8. 0 \in T
  <2>1. <<>> \in Seq(ContextMessages) /\ 0 \in 0 .. n
    BY <1>1
  <2>2. Total(f[0]) = h[0]
    BY <1>2, <1>6, TotalOfNone
  <2> QED BY <1>2, <2>1, <2>2
<1>9. ASSUME NEW i \in 1 .. n, i - 1 \in T PROVE i \in T
  <2>1. f[i - 1] \in Seq(ContextMessages) /\ Total(f[i - 1]) = h[i - 1] /\ i \in 0 .. n
    BY <1>1, <1>9
  <2>2. CASE i \in q.selected
    BY <1>7, <2>1, <2>2
  <2>3. CASE i \notin q.selected
    <3>1. f[i] = f[i - 1] /\ h[i] = h[i - 1] + 0
      BY <1>2, <1>6, <2>3
    <3>2. h[i - 1] \in Nat
      BY <1>1, <1>6
    <3> QED BY <2>1, <3>1, <3>2
  <2> QED BY <2>2, <2>3
<1> HIDE DEF T
<1>10. \A i \in 0 .. n : i \in T
  BY <1>1, <1>8, <1>9, UpTo
<1>11. n \in 1 .. n /\ n - 1 \in 0 .. n
  BY <1>1
<1>12. f[n - 1] \in Seq(ContextMessages) /\ Total(f[n - 1]) = h[n - 1]
  BY <1>10, <1>11 DEF T
<1> DEFINE m == Cut(s[n], q.chars[n])
<1>13. /\ m \in ContextMessages /\ m.place = s[n].place /\ f[n] = Append(f[n - 1], m)
       /\ f[n] \in Seq(ContextMessages) /\ Total(f[n]) = h[n]
  BY <1>5, <1>7, <1>11, <1>12
<1> HIDE DEF m
<1>14. Len(f[n]) = Len(f[n - 1]) + 1 /\ f[n][Len(f[n])] = m /\ Len(f[n - 1]) \in Nat
  BY <1>12, <1>13, AppendProperties
<1>15. f[n] # <<>> /\ Last(f[n]) = m
  BY <1>14 DEF Last
<1>16. h[n] <= InputBudget + 5
  BY <1>3, <1>5, BudgetBounds
<1> QED BY <1>2, <1>13, <1>15, <1>16 DEF n

\* apply_context_budget: the budget is kept but for one suffix, and the newest
\* message is the last of the prompt.
LEMMA BudgetedSound ==
    ASSUME NEW s \in Seq(ContextMessages), s # <<>>
    PROVE  LET p == Budgeted(s) IN
           /\ p \in Seq(ContextMessages) /\ p # <<>> /\ Total(p) <= InputBudget + 5
           /\ Last(p).place = Last(s).place
<1> DEFINE q == WithRecent(s)
           z == Selection(s, q)
<1>1. ChoiceSound(q, Len(s)) /\ Len(s) \in q.selected
  BY WithRecentSound
<1> HIDE DEF q
<1>2. /\ z \in Seq(ContextMessages) /\ z # <<>> /\ Total(z) <= InputBudget + 5
      /\ Last(z).place = Last(s).place
  BY <1>1, SelectionSound DEF Last
<1> HIDE DEF z
<1>3. Budgeted(s) = IF Total(s) <= InputBudget THEN s ELSE z
  BY <1>1 DEF Budgeted, q, z
<1>4. CASE Total(s) <= InputBudget
  <2>1. Total(s) \in Nat
    <3>1. PICK f : Sums(s, f) /\ Total(s) = f[Len(s)]
      BY TotalSums
    <3> QED BY <3>1 DEF Sums
  <2> QED BY <1>3, <1>4, <2>1, BudgetBounds
<1>5. CASE ~(Total(s) <= InputBudget)
  BY <1>2, <1>3, <1>5
<1> QED BY <1>4, <1>5

-----------------------------------------------------------------------------
(* The compactor.                                                          *)

\* A context as it was loaded: every message has its own place.
Placed(s) ==
    /\ s \in Seq(ContextMessages) /\ s # <<>>
    /\ \A i \in 1 .. Len(s) : s[i].place = i /\ s[i].covers = {}

\* The places a prompt has or stands for.
Standing(r) == UNION {{m.place} \union m.covers : m \in Range(r)}

\* A place is in the prompt by itself or in a summary.
LEMMA StandingIn ==
    ASSUME NEW r \in Seq(ContextMessages), NEW x
    PROVE  x \in Standing(r) <=> \E j \in 1 .. Len(r) : x = r[j].place \/ x \in r[j].covers
<1>1. Range(r) = {r[j] : j \in 1 .. Len(r)}
  BY DEF Range
<1> QED BY <1>1 DEF Standing

\* What a compaction promises of a context.
CompactSound(s, r) ==
    /\ r \in Seq(ContextMessages) /\ r # <<>> /\ Last(r) = Last(s)
    /\ 1 .. Len(s) = Standing(r)

\* A context that is not compacted has all of its messages.
LEMMA AsItIs ==
    ASSUME NEW s, Placed(s)
    PROVE  CompactSound(s, s)
<1>1. s \in Seq(ContextMessages) /\ s # <<>> /\ \A i \in 1 .. Len(s) : s[i].place = i /\ s[i].covers = {}
  BY DEF Placed
<1>2. ASSUME NEW x PROVE x \in 1 .. Len(s) <=> x \in Standing(s)
  <2>1. x \in Standing(s) <=> \E j \in 1 .. Len(s) : x = s[j].place \/ x \in s[j].covers
    BY <1>1, StandingIn
  <2> QED BY <1>1, <2>1
<1>3. 1 .. Len(s) = Standing(s)
  BY <1>2
<1> QED BY <1>1, <1>3 DEF CompactSound

\* A message that was loaded stands for itself.
LEMMA MessageRow ==
    ASSUME NEW kind \in {"memory", "turn", "summary"}, NEW p \in Nat, NEW c \in Nat
    PROVE  /\ Message(kind, p, c) \in ContextMessages
           /\ Message(kind, p, c).place = p /\ Message(kind, p, c).covers = {}
BY DEF Message, ContextMessages

\* A head, a summary of the middle and a tail have every message, and end with
\* the newest.
LEMMA CompactedSound ==
    ASSUME NEW s, Placed(s), NEW head \in Nat, NEW tail \in Nat \ {0}
    PROVE  CompactSound(s, Compacted(s, head, tail))
<1> DEFINE n == Len(s)
<1>1. CASE n <= head + tail
  BY <1>1, AsItIs DEF Compacted
<1>2. CASE ~(n <= head + tail)
  <2> DEFINE z == Summarised(s, head + 1, n - tail)
             a == SubSeq(s, 1, head)
             b == SubSeq(s, n - tail + 1, n)
             r == Compacted(s, head, tail)
  <2>1. /\ s \in Seq(ContextMessages) /\ n \in Nat /\ n > head + tail
        /\ \A i \in 1 .. n : s[i] \in ContextMessages /\ s[i].place = i /\ s[i].covers = {}
    BY <1>2, ElementOfSeq DEF Placed
  <2>2. z \in ContextMessages /\ z.place = head + 1 /\ z.covers = head + 1 .. n - tail
    <3> DEFINE w == Message("summary", head + 1, SummaryChars)
               v == {s[i].place : i \in head + 1 .. n - tail}
    <3> HIDE DEF n
    <3>1. \A i \in head + 1 .. n - tail : i \in 1 .. n /\ s[i].place = i
      BY <2>1
    <3>2. v = head + 1 .. n - tail
      BY <3>1
    <3>3. v \in SUBSET Nat /\ head + 1 \in Nat
      BY <2>1, <3>2
    <3>4. w \in ContextMessages /\ w.place = head + 1
      BY <3>3, MessageRow DEF SummaryChars
    <3> HIDE DEF w, v
    <3>5. z = [w EXCEPT !.covers = v]
      BY DEF Summarised, w, v
    <3>6. [w EXCEPT !.covers = v] \in ContextMessages
      BY <3>3, <3>4 DEF ContextMessages
    <3>7. z.place = w.place /\ z.covers = v
      BY <3>4, <3>5 DEF ContextMessages
    <3> QED BY <3>2, <3>4, <3>5, <3>6, <3>7
  <2>3. r = a \o <<z>> \o b
    BY <1>2 DEF Compacted
  <2>4. a \in Seq(ContextMessages) /\ Len(a) = head /\ \A j \in 1 .. head : a[j] = s[j]
    <3> HIDE DEF n
    <3> QED BY <2>1, SubSeqProperties DEF n
  <2>5. b \in Seq(ContextMessages) /\ Len(b) = tail /\ \A j \in 1 .. tail : b[j] = s[n - tail + j]
    <3> HIDE DEF n
    <3> QED BY <2>1, SubSeqProperties DEF n
  <2> HIDE DEF z, a, b, n
  <2>6. /\ a \o <<z>> \in Seq(ContextMessages) /\ Len(a \o <<z>>) = head + 1
        /\ (\A j \in 1 .. head : (a \o <<z>>)[j] = s[j]) /\ (a \o <<z>>)[head + 1] = z
    BY <2>2, <2>4, ConcatProperties
  <2>7. /\ r \in Seq(ContextMessages) /\ Len(r) = head + 1 + tail
        /\ (\A j \in 1 .. head : r[j] = s[j]) /\ r[head + 1] = z
        /\ \A j \in head + 2 .. head + 1 + tail : r[j] = s[n - tail + j - (head + 1)]
    <3> DEFINE d == a \o <<z>>
    <3>1. d \in Seq(ContextMessages) /\ Len(d) = head + 1 /\ (\A j \in 1 .. head : d[j] = s[j]) /\ d[head + 1] = z
      BY <2>6
    <3>2. r = d \o b
      BY <2>3
    <3> HIDE DEF d, r
    <3>3. /\ d \o b \in Seq(ContextMessages) /\ Len(d \o b) = head + 1 + tail
          /\ \A j \in 1 .. head + 1 : (d \o b)[j] = d[j]
      <4>1. /\ d \o b \in Seq(ContextMessages) /\ Len(d \o b) = Len(d) + Len(b)
            /\ \A i \in 1 .. Len(d) + Len(b) : (d \o b)[i] = IF i <= Len(d) THEN d[i] ELSE b[i - Len(d)]
        BY <2>5, <3>1, ConcatProperties
      <4>2. \A j \in 1 .. head + 1 : j \in 1 .. head + 1 + tail /\ j <= head + 1
        OBVIOUS
      <4> QED BY <2>5, <3>1, <4>1, <4>2
    <3>4. ASSUME NEW j \in head + 2 .. head + 1 + tail PROVE (d \o b)[j] = s[n - tail + j - (head + 1)]
      <4>1. j - (head + 1) \in 1 .. tail /\ j \in 1 .. head + 1 + tail /\ j > head + 1
        OBVIOUS
      <4>2. (d \o b)[j] = b[j - (head + 1)]
        BY <2>5, <3>1, <4>1, ConcatProperties
      <4>3. n - tail + (j - (head + 1)) = n - tail + j - (head + 1)
        BY <2>1
      <4> QED BY <2>5, <4>1, <4>2, <4>3
    <3> QED BY <3>1, <3>2, <3>3, <3>4
  <2> HIDE DEF r
  <2>8. r # <<>> /\ Last(r) = Last(s)
    <3>1. head + 1 + tail \in head + 2 .. head + 1 + tail /\ n - tail + (head + 1 + tail) - (head + 1) = n
      BY <2>1
    <3>2. r[Len(r)] = s[n] /\ Len(r) # 0
      BY <2>7, <3>1
    <3> QED BY <3>2 DEF Last, n
  <2>9. ASSUME NEW x \in 1 .. n PROVE \E j \in 1 .. Len(r) : x = r[j].place \/ x \in r[j].covers
    <3>1. CASE x <= head
      <4>1. x \in 1 .. head /\ x \in 1 .. Len(r)
        BY <2>7, <3>1
      <4> QED BY <2>1, <2>7, <4>1
    <3>2. CASE x > head /\ x <= n - tail
      <4>1. x \in z.covers /\ head + 1 \in 1 .. Len(r)
        BY <2>1, <2>2, <2>7, <3>2
      <4> QED BY <2>7, <4>1
    <3>3. CASE x > n - tail
      <4> DEFINE j == x - (n - tail) + (head + 1)
      <4>1. j \in head + 2 .. head + 1 + tail /\ j \in 1 .. Len(r) /\ n - tail + j - (head + 1) = x
        BY <2>1, <2>7, <3>3
      <4> HIDE DEF j
      <4>2. r[j] = s[x]
        BY <2>7, <4>1
      <4> QED BY <2>1, <4>1, <4>2
    <3> QED BY <2>1, <3>1, <3>2, <3>3
  <2>10. ASSUME NEW x, NEW j \in 1 .. Len(r), x = r[j].place \/ x \in r[j].covers PROVE x \in 1 .. n
    <3>1. CASE j <= head
      <4>1. r[j] = s[j] /\ j \in 1 .. n
        BY <2>1, <2>7, <3>1
      <4> QED BY <2>1, <2>10, <4>1
    <3>2. CASE j = head + 1
      <4>1. x = head + 1 \/ x \in head + 1 .. n - tail
        BY <2>2, <2>7, <2>10, <3>2
      <4> QED BY <2>1, <4>1
    <3>3. CASE j > head + 1
      <4> DEFINE i == n - tail + j - (head + 1)
      <4>1. i \in 1 .. n /\ j \in head + 2 .. head + 1 + tail
        BY <2>1, <2>7, <3>3
      <4>2. r[j] = s[i]
        BY <2>7, <4>1
      <4> HIDE DEF i
      <4> QED BY <2>1, <2>10, <4>1, <4>2
    <3> QED BY <2>7, <3>1, <3>2, <3>3
  <2>11. ASSUME NEW x PROVE x \in 1 .. n <=> x \in Standing(r)
    BY <2>7, <2>9, <2>10, StandingIn
  <2>12. 1 .. n = Standing(r)
    BY <2>11
  <2> QED BY <2>7, <2>8, <2>12 DEF CompactSound, r, n
<1> QED BY <1>1, <1>2

\* So have the three strategies: none of them summarises the newest message.
LEMMA CompactKeeps ==
    ASSUME NEW s, Placed(s), strategy \in {"head_tail", "budget", "age"}, stale \in Nat
    PROVE  CompactSound(s, Compact(s))
<1> DEFINE n == Len(s)
           keep == Max({RetainedTail, MinRecent})
<1>1. n \in Nat /\ n > 0
  BY DEF Placed
<1>2. /\ HeadCount \in Nat /\ TailCount \in Nat /\ RetainedTail \in Nat \ {0} /\ MinRecent \in Nat \ {0}
  BY ContextAssumption
<1>3. Max({TailCount, MinRecent}) \in Nat \ {0} /\ keep \in Nat \ {0}
  BY <1>2, GreaterOfTwo
<1>4. CompactSound(s, s)
  BY AsItIs
<1>5. CASE strategy = "head_tail"
  <2>1. Compact(s) = HeadTail(s)
    BY <1>5 DEF Compact
  <2> DEFINE t == Max({TailCount, MinRecent})
  <2>2. HeadTail(s) = Compacted(s, HeadCount, t) /\ t \in Nat \ {0}
    BY <1>3 DEF HeadTail
  <2> HIDE DEF t
  <2> QED BY <1>2, <2>1, <2>2, CompactedSound
<1> HIDE DEF keep, n
<1>6. CASE strategy = "budget"
  <2>1. Compact(s) = BudgetBased(s)
    BY <1>6 DEF Compact
  <2> DEFINE t == Min({n - 1, keep})
  <2>2. BudgetBased(s) = s \/ (~(n <= 3) /\ BudgetBased(s) = Compacted(s, 1, t))
    BY DEF BudgetBased, keep, n
  <2>3. ~(n <= 3) => t \in Nat \ {0}
    BY <1>1, <1>3, SmallerOfTwo
  <2> HIDE DEF t
  <2> QED BY <1>4, <2>1, <2>2, <2>3, CompactedSound
<1>7. CASE strategy = "age"
  <2>1. Compact(s) = AgeBased(s, stale)
    BY <1>7 DEF Compact
  <2> DEFINE count == Min({stale, n - keep})
             t == n - count
  <2>2. AgeBased(s, stale) = s \/ (~(n <= keep) /\ AgeBased(s, stale) = Compacted(s, 0, t))
    BY DEF AgeBased, keep, n
  <2>3. ~(n <= keep) => t \in Nat \ {0}
    BY <1>1, <1>3, SmallerOfTwo
  <2> HIDE DEF t
  <2> QED BY <1>4, <2>1, <2>2, <2>3, CompactedSound
<1> QED BY <1>5, <1>6, <1>7

\* The loaded context is numbered from its first snippet to the question.
LEMMA LoadedPlaced ==
    ASSUME NEW n \in Nat \ {0}, NEW k \in Nat,
           NEW recent \in [1 .. n -> Lengths], NEW memories \in [1 .. k -> Lengths]
    PROVE  Placed(Loaded(memories, recent))
<1>1. recent \in Seq(Lengths) /\ Len(recent) = n /\ memories \in Seq(Lengths) /\ Len(memories) = k
  OBVIOUS
<1>2. Lengths \subseteq Nat
  BY ContextAssumption
<1> DEFINE a == [i \in 1 .. k |-> Message("memory", i, memories[i])]
           b == [i \in 1 .. n |-> Message("turn", k + i, recent[i])]
           s == Loaded(memories, recent)
<1>3. s = a \o b
  BY <1>1 DEF Loaded
<1>4. \A i \in 1 .. k : a[i] \in ContextMessages /\ a[i].place = i /\ a[i].covers = {}
  <2>1. \A i \in 1 .. k : memories[i] \in Lengths
    OBVIOUS
  <2>2. \A i \in 1 .. k : memories[i] \in Nat
    BY <1>2, <2>1, Zenon
  <2>3. \A i \in 1 .. k : i \in Nat
    OBVIOUS
  <2> QED BY <2>2, <2>3, MessageRow
<1>5. \A i \in 1 .. n : b[i] \in ContextMessages /\ b[i].place = k + i /\ b[i].covers = {}
  <2>1. \A i \in 1 .. n : recent[i] \in Lengths
    OBVIOUS
  <2>2. \A i \in 1 .. n : recent[i] \in Nat
    BY <1>2, <2>1, Zenon
  <2>3. \A i \in 1 .. n : k + i \in Nat
    OBVIOUS
  <2> QED BY <2>2, <2>3, MessageRow
<1>6. a \in Seq(ContextMessages) /\ Len(a) = k /\ b \in Seq(ContextMessages) /\ Len(b) = n
  <2>1. a \in [1 .. k -> ContextMessages] /\ b \in [1 .. n -> ContextMessages]
    BY <1>4, <1>5
  <2> HIDE DEF a, b
  <2> QED BY <2>1
<1> HIDE DEF a, b
<1>7. s \in Seq(ContextMessages) /\ Len(s) = k + n
  BY <1>3, <1>6, ConcatProperties
<1>8. ASSUME NEW i \in 1 .. k + n PROVE s[i].place = i /\ s[i].covers = {}
  <2>1. CASE i <= k
    <3>1. s[i] = a[i] /\ i \in 1 .. k
      BY <1>3, <1>6, <2>1, ConcatProperties
    <3> QED BY <1>4, <3>1
  <2>2. CASE i > k
    <3>1. s[i] = b[i - k] /\ i - k \in 1 .. n
      BY <1>3, <1>6, <2>2, ConcatProperties
    <3>2. b[i - k].place = k + (i - k) /\ b[i - k].covers = {}
      BY <1>5, <3>1
    <3> QED BY <3>1, <3>2
  <2> QED BY <2>1, <2>2
<1> HIDE DEF s
<1>9. s # <<>>
  BY <1>7
<1>10. Placed(s)
  BY <1>7, <1>8, <1>9 DEF Placed
<1> QED BY <1>10 DEF s

-----------------------------------------------------------------------------
(* The turn.                                                               *)

\* What a turn has when it compacts, when it applies the budget and when it asks.
ContextInvariant ==
    /\ strategy \in {"head_tail", "budget", "age"} /\ stale \in Nat
    /\ turn \in {"compact", "budget"} => Placed(context)
    /\ turn = "budget" => CompactSound(context, prompt)
    /\ turn = "complete" =>
          /\ prompt # <<>> /\ Last(prompt).place = Len(context)
          /\ Total(prompt) <= InputBudget + 5

\* Every step of a turn keeps it.
LEMMA ContextStep ==
    ASSUME ContextInvariant, [ContextNext]_contextVars
    PROVE  ContextInvariant'
<1>1. CASE StoreMessage
  BY <1>1 DEF StoreMessage, ContextInvariant
<1>2. CASE LoadContext
  <2>1. PICK n \in 1 .. MaxHistory, k \in 0 .. MaxMemories :
           \E recent \in [1 .. n -> Lengths], memories \in [1 .. k -> Lengths] :
              /\ context' = Loaded(memories, recent)
              /\ stale' \in IF k > 0 \/ strategy # "age" THEN {0} ELSE 0 .. n
    BY <1>2 DEF LoadContext
  <2>2. PICK recent \in [1 .. n -> Lengths], memories \in [1 .. k -> Lengths] :
              /\ context' = Loaded(memories, recent)
              /\ stale' \in IF k > 0 \/ strategy # "age" THEN {0} ELSE 0 .. n
    BY <2>1
  <2>3. n \in Nat \ {0} /\ k \in Nat
    BY ContextAssumption
  <2>4. Placed(context')
    BY <2>2, <2>3, LoadedPlaced
  <2>5. stale' \in Nat
    BY <2>2, <2>3
  <2>6. turn' = "compact" /\ strategy' = strategy
    BY <1>2 DEF LoadContext
  <2> QED BY <2>4, <2>5, <2>6 DEF ContextInvariant, Placed
<1>3. CASE CompactContext
  <2>1. /\ Placed(context) /\ context' = context /\ turn' = "budget"
        /\ strategy' = strategy /\ stale' = stale
        /\ strategy \in {"head_tail", "budget", "age"} /\ stale \in Nat
    BY <1>3 DEF CompactContext, ContextInvariant
  <2>2. prompt' = Compact(context) \/ prompt' = context
    BY <1>3 DEF CompactContext
  <2>3. CompactSound(context, prompt')
    BY <2>1, <2>2, CompactKeeps, AsItIs
  <2> QED BY <2>1, <2>3 DEF ContextInvariant, Placed, CompactSound, Standing
<1>4. CASE FitContext
  <2>1. /\ Placed(context) /\ CompactSound(context, prompt) /\ context' = context
        /\ turn' \in {"answered", "complete"} /\ prompt' = Budgeted(prompt)
        /\ strategy' = strategy /\ stale' = stale
        /\ strategy \in {"head_tail", "budget", "age"} /\ stale \in Nat
    BY <1>4 DEF FitContext, ContextInvariant
  <2>2. prompt \in Seq(ContextMessages) /\ prompt # <<>> /\ Last(prompt) = Last(context)
    BY <2>1 DEF CompactSound
  <2>3. prompt' # <<>> /\ Total(prompt') <= InputBudget + 5 /\ Last(prompt').place = Last(prompt).place
    BY <2>1, <2>2, BudgetedSound
  <2>4. Last(context).place = Len(context)
    <3>1. context \in Seq(ContextMessages) /\ context # <<>> /\ \A i \in 1 .. Len(context) : context[i].place = i
      BY <2>1 DEF Placed
    <3>2. Len(context) \in 1 .. Len(context)
      BY <3>1
    <3> QED BY <3>1, <3>2 DEF Last
  <2>5. Last(prompt').place = Len(context')
    BY <2>1, <2>2, <2>3, <2>4
  <2> QED BY <2>1, <2>3, <2>5 DEF ContextInvariant
<1>5. CASE Complete
  BY <1>5 DEF Complete, ContextInvariant
<1>6. CASE StoreReply
  BY <1>6 DEF StoreReply, ContextInvariant
<1>7. CASE UNCHANGED contextVars
  BY <1>7 DEF contextVars, ContextInvariant, Placed, CompactSound, Standing
<1> QED BY <1>1, <1>2, <1>3, <1>4, <1>5, <1>6, <1>7 DEF ContextNext

\* The prompt of every turn ends with the question, keeps the input budget but for
\* the suffix of the one message that was cut, and, before the budget is applied,
\* has every message of the context or a summary that stands for it
\* (load_context, apply_compaction, apply_context_budget).
THEOREM PromptSound == ContextSpec => []PromptIsSound
<1>1. ContextInit => ContextInvariant
  BY DEF ContextInit, ContextInvariant
<1>2. ContextInvariant /\ [ContextNext]_contextVars => ContextInvariant'
  BY ContextStep
<1>3. ContextInvariant => PromptIsSound
  BY DEF ContextInvariant, PromptIsSound, CompactSound, Standing
<1> QED BY <1>1, <1>2, <1>3, PTL DEF ContextSpec

-----------------------------------------------------------------------------
(* The memories that are recalled.                                         *)

\* A hit is a text and how well it answers.
HitRows(X) == [text : X, score : {40, 80}]

\* Of some hits one has the highest score.
LEMMA HighestScore ==
    ASSUME NEW X, NEW D \in SUBSET HitRows(X), D # {}
    PROVE  \E h \in D : \A g \in D : g.score <= h.score
<1>1. \A h \in D : h.score \in {40, 80}
  BY DEF HitRows
<1>2. CASE \E h \in D : h.score = 80
  BY <1>1, <1>2
<1>3. CASE ~\E h \in D : h.score = 80
  BY <1>1, <1>3
<1> QED BY <1>2, <1>3

\* Best is one of the hits, and none has a higher score.
LEMMA BestIn ==
    ASSUME NEW X, NEW D \in SUBSET HitRows(X), D # {}
    PROVE  Best(D) \in D /\ \A g \in D : g.score <= Best(D).score
<1>1. \E h \in D : \A g \in D : g.score <= h.score
  BY HighestScore
<1> QED BY <1>1 DEF Best

\* A list shorter than a set does not have all of it.
LEMMA SomethingLeft ==
    ASSUME NEW C, IsFiniteSet(C), NEW r \in Seq(C), Len(r) < Cardinality(C)
    PROVE  C \ Range(r) # {}
<1> SUFFICES ASSUME C \subseteq Range(r) PROVE FALSE
  OBVIOUS
<1> DEFINE n == Len(r)
<1>1. n \in Nat /\ r \in [1 .. n -> C]
  OBVIOUS
<1>3. \A x \in C : \E i \in 1 .. n : r[i] = x
  BY <1>1 DEF Range
<1>4. ExistsSurjection(1 .. n, C)
  <2> HIDE DEF n
  <2>1. r \in Surjection(1 .. n, C)
    BY <1>1, <1>3 DEF Surjection
  <2> QED BY <2>1 DEF ExistsSurjection
<1>5. Cardinality(C) <= n
  <2> HIDE DEF n
  <2> QED BY <1>1, <1>4, FS_SurjCardinalityBound
<1>6. Cardinality(C) \in Nat
  BY FS_CardinalityType
<1> QED BY <1>1, <1>5, <1>6

\* The recursion of the ranking, step by step.
Ranks(f, C, count) ==
    f[0] = <<>> /\ \A i \in 1 .. count : f[i] = Append(f[i - 1], Best(C \ Range(f[i - 1])))

LEMMA RankedSteps ==
    ASSUME NEW hits, NEW recent, IsFiniteSet(hits),
           NEW C, C = Candidates(hits, recent),
           NEW count, count = Min({MaxSnippets, Cardinality(C)}), count \in Nat
    PROVE  \E f : Ranks(f, C, count) /\ Merged(hits, recent) = f[count]
<1> DEFINE W == C \union {Best(D) : D \in SUBSET C}
           S == Seq(W)
           b == <<>>
           step(x) == Append(x, Best(C \ Range(x)))
           G == [p \in S \X (1 .. count) |-> step(p[1])]
           P(f) == f = [i \in 0 .. count |-> IF i = 0 THEN b ELSE step(f[i - 1])]
           c == CHOOSE f : P(f)
<1>1. b \in S
  OBVIOUS
<1>2. \A x \in S : step(x) \in S
  <2> SUFFICES ASSUME NEW x \in S PROVE step(x) \in S
    OBVIOUS
  <2> DEFINE D == C \ Range(x)
  <2>1. D \in SUBSET C
    OBVIOUS
  <2> HIDE DEF D
  <2>2. Best(D) \in W
    BY <2>1
  <2> HIDE DEF W
  <2>3. Append(x, Best(D)) \in S
    BY <2>2, AppendProperties
  <2> QED BY <2>3 DEF D
<1>3. G \in [S \X (1 .. count) -> S] /\ \A x \in S, i \in 1 .. count : G[<<x, i>>] = step(x)
  <2> HIDE DEF S, step
  <2> QED BY <1>2
<1>4. PICK g \in [0 .. count -> S] : Steps(g, count, b, G)
  <2> HIDE DEF G, S, b
  <2> QED BY <1>1, <1>3, StepsExist
<1>5. P(g)
  <2> HIDE DEF G, S, b, step
  <2>1. ASSUME NEW i \in 0 .. count
        PROVE  g[i] = IF i = 0 THEN b ELSE step(g[i - 1])
    <3>1. CASE i = 0
      BY <1>4, <3>1 DEF Steps
    <3>2. CASE i # 0
      <4>1. i \in 1 .. count /\ i - 1 \in 0 .. count
        BY <3>2
      <4>2. g[i] = G[<<g[i - 1], i>>] /\ g[i - 1] \in S
        BY <1>4, <4>1 DEF Steps
      <4> QED BY <1>3, <3>2, <4>1, <4>2
    <3> QED BY <3>1, <3>2
  <2> QED BY <2>1
<1>6. P(c)
  <2> HIDE DEF P
  <2> QED BY <1>5
<1>7. Merged(hits, recent) = c[count]
  BY DEF Merged
<1> HIDE DEF c
<1>8. c[0] = b /\ \A i \in 1 .. count : c[i] = step(c[i - 1])
  <2> HIDE DEF b, step
  <2> QED BY <1>6
<1> QED BY <1>7, <1>8 DEF Ranks

\* A ranking of C: none twice, and none before a better one.
Ranking(C, r) ==
    /\ r \in Seq(C)
    /\ \A j, k \in 1 .. Len(r) : j < k => r[j] # r[k]
    /\ \A k \in 1 .. Len(r), g \in C : (\E j \in 1 .. k - 1 : r[j] = g) \/ g.score <= r[k].score

\* The best of those left is the next of the ranking.
LEMMA RankingGrows ==
    ASSUME NEW X, NEW C \in SUBSET HitRows(X), IsFiniteSet(C), NEW r, Ranking(C, r), Len(r) < Cardinality(C)
    PROVE  /\ Ranking(C, Append(r, Best(C \ Range(r))))
           /\ Len(Append(r, Best(C \ Range(r)))) = Len(r) + 1
<1> DEFINE D == C \ Range(r)
           m == Best(D)
           n == Len(r)
           q == Append(r, m)
<1>1. r \in Seq(C) /\ n \in Nat
  BY DEF Ranking
<1>2. D # {} /\ D \in SUBSET HitRows(X) /\ D \subseteq C
  BY <1>1, SomethingLeft
<1>3. \A j \in 1 .. n : r[j] \in Range(r)
  BY <1>1 DEF Range
<1>4. \A g \in C : g \in D \/ \E j \in 1 .. n : r[j] = g
  BY <1>1 DEF Range
<1>5. \A j \in 1 .. n : r[j] \notin D
  BY <1>3
<1> HIDE DEF D, n
<1>6. m \in D /\ (\A g \in D : g.score <= m.score) /\ m \in C
  BY <1>2, BestIn
<1> HIDE DEF m
<1>7. q \in Seq(C) /\ Len(q) = n + 1 /\ q[n + 1] = m /\ \A j \in 1 .. n : q[j] = r[j]
  BY <1>1, <1>6, AppendProperties DEF n
<1> HIDE DEF q
<1>8. ASSUME NEW j \in 1 .. n + 1, NEW k \in 1 .. n + 1, j < k PROVE q[j] # q[k]
  <2>1. j \in 1 .. n
    BY <1>1, <1>8
  <2>2. CASE k = n + 1
    BY <1>5, <1>6, <1>7, <2>1, <2>2
  <2>3. CASE k # n + 1
    <3>1. k \in 1 .. n
      BY <1>1, <2>3
    <3>2. r[j] # r[k]
      BY <1>8, <2>1, <3>1 DEF Ranking, n
    <3> QED BY <1>7, <2>1, <3>1, <3>2
  <2> QED BY <2>2, <2>3
<1>9. ASSUME NEW k \in 1 .. n + 1, NEW g \in C
      PROVE  (\E j \in 1 .. k - 1 : q[j] = g) \/ g.score <= q[k].score
  <2>1. CASE k = n + 1
    <3>1. k - 1 = n
      BY <1>1, <2>1
    <3> QED BY <1>4, <1>6, <1>7, <2>1, <3>1
  <2>2. CASE k # n + 1
    <3>1. k \in 1 .. n /\ \A j \in 1 .. k - 1 : j \in 1 .. n
      BY <1>1, <2>2
    <3>2. (\E j \in 1 .. k - 1 : r[j] = g) \/ g.score <= r[k].score
      BY <3>1 DEF Ranking, n
    <3> QED BY <1>7, <3>1, <3>2
  <2> QED BY <2>1, <2>2
<1>10. Ranking(C, q)
  BY <1>7, <1>8, <1>9 DEF Ranking
<1> QED BY <1>7, <1>10 DEF q, m, D, n

\* What the snippets of an answer promise.
SnippetsSound(found, recent, s) ==
    /\ Len(s) <= MaxSnippets
    /\ \A i, j \in 1 .. Len(s) : i < j => s[i].text # s[j].text /\ s[i].score >= s[j].score
    /\ \A i \in 1 .. Len(s) : s[i].text \notin recent
    /\ \A h \in found : h.text \in recent
          \/ (\E i \in 1 .. Len(s) : s[i].text = h.text)
          \/ \A i \in 1 .. Len(s) : s[i].score >= h.score

\* A ranking of the candidates is what an answer promises: each text once, the
\* better of its hits, and no hit left out for a worse one.
LEMMA RankingSound ==
    ASSUME NEW X, NEW hits \in SUBSET HitRows(X), NEW recent, NEW s,
           Ranking(Candidates(hits, recent), s), Len(s) <= MaxSnippets
    PROVE  SnippetsSound(hits, recent, s)
<1> DEFINE C == Candidates(hits, recent)
           n == Len(s)
<1>1. s \in Seq(C) /\ n \in Nat /\ \A i \in 1 .. n : s[i] \in C
  BY ElementOfSeq DEF Ranking
<1>2. \A h \in C : /\ h \in hits /\ h.text \notin recent
                   /\ \A g \in hits : g.text = h.text => g.score <= h.score
  BY DEF Candidates
<1>3. \A h \in hits : h = [text |-> h.text, score |-> h.score] /\ h.score \in {40, 80}
  BY DEF HitRows
<1>4. /\ \A j, k \in 1 .. n : j < k => s[j] # s[k]
      /\ \A k \in 1 .. n, g \in C : (\E j \in 1 .. k - 1 : s[j] = g) \/ g.score <= s[k].score
  BY DEF Ranking
<1>5. \A h \in hits : h.text \in recent \/ \E g \in C : g.text = h.text /\ h.score <= g.score
  <2> SUFFICES ASSUME NEW h \in hits, h.text \notin recent
               PROVE  \E g \in C : g.text = h.text /\ h.score <= g.score
    OBVIOUS
  <2> DEFINE D == {g \in hits : g.text = h.text}
  <2>1. D \in SUBSET HitRows(X) /\ D # {}
    OBVIOUS
  <2>2. PICK g \in D : \A f \in D : f.score <= g.score
    <3> HIDE DEF D
    <3> QED BY <2>1, HighestScore
  <2>3. g \in C
    BY <2>2 DEF Candidates
  <2> QED BY <2>2, <2>3
<1> HIDE DEF C, n
<1>6. ASSUME NEW i \in 1 .. n, NEW j \in 1 .. n, i < j
      PROVE  s[i].text # s[j].text /\ s[i].score >= s[j].score
  <2>1. s[i] # s[j] /\ s[i] \in C /\ s[j] \in C
    BY <1>1, <1>4, <1>6
  <2>2. \A k \in 1 .. i - 1 : k \in 1 .. n /\ k < j
    BY <1>1, <1>6
  <2>3. ~\E k \in 1 .. i - 1 : s[k] = s[j]
    BY <1>4, <2>2
  <2>4. s[j].score <= s[i].score
    BY <1>4, <2>1, <2>3
  <2>5. s[i].score \in {40, 80} /\ s[j].score \in {40, 80}
    BY <1>2, <1>3, <2>1
  <2>6. ASSUME s[i].text = s[j].text PROVE FALSE
    <3>1. s[i].score <= s[j].score
      BY <1>2, <2>1, <2>6
    <3>2. s[i].score = s[j].score
      BY <2>4, <2>5, <3>1
    <3>3. s[i] = s[j]
      BY <1>2, <1>3, <2>1, <2>6, <3>2
    <3> QED BY <2>1, <3>3
  <2> QED BY <2>4, <2>5, <2>6
<1>7. ASSUME NEW h \in hits, h.text \notin recent, ~\E i \in 1 .. n : s[i].text = h.text, NEW i \in 1 .. n
      PROVE  s[i].score >= h.score
  <2>1. PICK g \in C : g.text = h.text /\ h.score <= g.score
    BY <1>5, <1>7
  <2>2. \A j \in 1 .. i - 1 : j \in 1 .. n
    BY <1>1
  <2>3. g.score <= s[i].score
    BY <1>4, <1>7, <2>1, <2>2
  <2>4. h.score \in {40, 80} /\ g.score \in {40, 80} /\ s[i].score \in {40, 80}
    BY <1>1, <1>2, <1>3
  <2> QED BY <2>1, <2>3, <2>4
<1>8. \A i \in 1 .. n : s[i].text \notin recent
  BY <1>1, <1>2
<1> QED BY <1>6, <1>7, <1>8 DEF SnippetsSound, n

\* merge_memory_candidates_into_context ranks them so.
LEMMA MergedSound ==
    ASSUME NEW X, NEW hits \in SUBSET HitRows(X), IsFiniteSet(hits), NEW recent
    PROVE  SnippetsSound(hits, recent, Merged(hits, recent))
<1> DEFINE C == Candidates(hits, recent)
           count == Min({MaxSnippets, Cardinality(C)})
<1>1. C \subseteq hits
  BY DEF Candidates
<1>2. C \in SUBSET HitRows(X) /\ IsFiniteSet(C)
  <2> HIDE DEF C
  <2> QED BY <1>1, FS_Subset
<1>3. Cardinality(C) \in Nat /\ MaxSnippets \in Nat
  BY <1>2, FS_CardinalityType, RecallAssumption
<1>4. count \in Nat /\ count <= MaxSnippets /\ count <= Cardinality(C)
  <2> HIDE DEF C
  <2> QED BY <1>3, SmallerOfTwo
<1>5. PICK f : Ranks(f, C, count) /\ Merged(hits, recent) = f[count]
  <2>1. C = Candidates(hits, recent) /\ count = Min({MaxSnippets, Cardinality(C)})
    OBVIOUS
  <2> HIDE DEF C, count
  <2> QED BY <1>4, <2>1, RankedSteps
<1> HIDE DEF C, count
<1> DEFINE T == {i \in 0 .. count : Ranking(C, f[i]) /\ Len(f[i]) = i}
<1>6. 0 \in T
  <2>1. <<>> \in Seq(C) /\ Len(<<>>) = 0 /\ 0 \in 0 .. count
    BY <1>4
  <2>2. Ranking(C, <<>>)
    BY <2>1 DEF Ranking
  <2> QED BY <1>5, <2>1, <2>2 DEF Ranks
<1>7. ASSUME NEW i \in 1 .. count, i - 1 \in T PROVE i \in T
  <2> DEFINE r == f[i - 1]
             q == Append(r, Best(C \ Range(r)))
  <2>1. Ranking(C, r) /\ Len(r) = i - 1
    BY <1>7
  <2>2. f[i] = q
    BY <1>5 DEF Ranks
  <2>3. Len(r) < Cardinality(C) /\ i \in 0 .. count
    BY <1>3, <1>4, <2>1
  <2> HIDE DEF r
  <2>4. Ranking(C, q) /\ Len(q) = Len(r) + 1
    BY <1>2, <2>1, <2>3, RankingGrows
  <2> HIDE DEF q
  <2>5. Len(q) = i
    BY <1>4, <2>1, <2>4
  <2> QED BY <2>2, <2>3, <2>4, <2>5
<1> HIDE DEF T
<1>8. \A i \in 0 .. count : i \in T
  BY <1>4, <1>6, <1>7, UpTo
<1>9. Ranking(C, f[count]) /\ Len(f[count]) = count
  <2>1. count \in T
    BY <1>4, <1>8
  <2> QED BY <2>1 DEF T
<1> QED BY <1>4, <1>5, <1>9, RankingSound DEF C

\* What the search has: hits of the chunks there are.
RecallShape ==
    /\ messages \in 0 .. MaxChunks /\ writing \subseteq Chunks /\ chunks \subseteq Chunks

\* The chunks of an owner have finitely many hits.
LEMMA HitsFinite ==
    ASSUME NEW own \in SUBSET Chunks, NEW scores \in [Chunks -> {40, 80}]
    PROVE  /\ Hits(own, scores) \in SUBSET HitRows({TextOf[c] : c \in Chunks})
           /\ IsFiniteSet(Hits(own, scores))
<1> DEFINE hit(c) == [text |-> TextOf[c], score |-> scores[c]]
           F == [c \in own |-> hit(c)]
<1>1. Hits(own, scores) = {hit(c) : c \in own}
  BY DEF Hits
<1>2. ASSUME NEW c \in own PROVE hit(c) \in HitRows({TextOf[d] : d \in Chunks})
  <2>1. TextOf[c] \in {TextOf[d] : d \in Chunks} /\ scores[c] \in {40, 80}
    OBVIOUS
  <2> QED BY <2>1 DEF HitRows
<1>3. Hits(own, scores) \in SUBSET HitRows({TextOf[c] : c \in Chunks})
  BY <1>1, <1>2
<1>4. IsFiniteSet(own)
  <2>1. IsFiniteSet(1 .. MaxChunks)
    BY FS_Interval, RecallAssumption
  <2> QED BY <2>1, FS_Subset DEF Chunks
<1>5. F \in Surjection(own, Hits(own, scores))
  <2>1. F \in [own -> Hits(own, scores)]
    BY <1>1
  <2>2. \A h \in Hits(own, scores) : \E c \in own : F[c] = h
    BY <1>1
  <2> HIDE DEF F
  <2> QED BY <2>1, <2>2 DEF Surjection
<1>6. IsFiniteSet(Hits(own, scores))
  <2> HIDE DEF F
  <2> QED BY <1>4, <1>5, FS_Surjection
<1> QED BY <1>3, <1>6

\* RecallIsSound, as a property of the last question.
RecallSoundHere == SnippetsSound(recalled.found, recalled.recent, recalled.snippets)

\* Only a question changes the snippets.
LEMMA SnippetsStep ==
    ASSUME RecallShape, RecallSoundHere, [RecallNext]_memoryVars
    PROVE  RecallShape' /\ RecallSoundHere'
<1>1. MaxChunks \in Nat
  BY RecallAssumption
<1>2. CASE StoreText
  <2>1. /\ messages < MaxChunks /\ messages' = messages + 1 /\ chunks' = chunks /\ recalled' = recalled
        /\ writing' = writing \/ writing' = writing \union {messages'}
    BY <1>2 DEF StoreText
  <2>2. messages' \in 0 .. MaxChunks /\ messages' \in Chunks
    BY <1>1, <2>1 DEF RecallShape, Chunks
  <2> QED BY <2>1, <2>2 DEF RecallShape, Chunks, RecallSoundHere, SnippetsSound
<1>3. CASE StoreChunk
  BY <1>3 DEF StoreChunk, RecallShape, Chunks, RecallSoundHere, SnippetsSound
<1>4. CASE LoadMemories
  <2>1. PICK owner \in Range(OwnerOf), up \in BOOLEAN, scores \in [Chunks -> {40, 80}] :
          LET own == {c \in chunks : OwnerOf[c] = owner}
              recent == {TextOf[c] : c \in {d \in own : d = Max(own)}}
              found == Hits(own, scores) \union IF up THEN Hits(index \intersect own, scores) ELSE {}
          IN recalled' = [owner |-> owner, recent |-> recent, found |-> found,
                          snippets |-> Merged(found, recent)]
    BY <1>4 DEF LoadMemories
  <2> DEFINE own == {c \in chunks : OwnerOf[c] = owner}
             recent == {TextOf[c] : c \in {d \in own : d = Max(own)}}
             found == Hits(own, scores) \union IF up THEN Hits(index \intersect own, scores) ELSE {}
             X == {TextOf[c] : c \in Chunks}
  <2>2. recalled' = [owner |-> owner, recent |-> recent, found |-> found,
                     snippets |-> Merged(found, recent)]
    BY <2>1
  <2>3. own \in SUBSET Chunks
    BY DEF RecallShape
  <2> HIDE DEF own
  <2>4. found = Hits(own, scores)
    BY DEF Hits
  <2>5. found \in SUBSET HitRows(X) /\ IsFiniteSet(found)
    BY <2>3, <2>4, HitsFinite
  <2> HIDE DEF found, recent, X
  <2>6. SnippetsSound(found, recent, Merged(found, recent))
    BY <2>5, MergedSound
  <2>7. RecallSoundHere'
    BY <2>2, <2>6 DEF RecallSoundHere, SnippetsSound
  <2>8. RecallShape'
    BY <1>4 DEF LoadMemories, RecallShape, Chunks
  <2> QED BY <2>7, <2>8
<1>5. CASE MemoryDies
  BY <1>5 DEF MemoryDies, RecallShape, Chunks, RecallSoundHere, SnippetsSound
<1>6. CASE \/ Upsert \/ UpsertRecorded \/ StartSweep \/ ReplayRow \/ UNCHANGED memoryVars
  <2>1. UNCHANGED <<messages, writing, chunks, recalled>>
    BY <1>6 DEF Upsert, UpsertRecorded, StartSweep, ReplayRow, memoryVars
  <2> QED BY <2>1 DEF RecallShape, Chunks, RecallSoundHere, SnippetsSound
<1> QED BY <1>2, <1>3, <1>4, <1>5, <1>6 DEF RecallNext

\* The snippets of every answer are the best of the hits, none twice and none of
\* them said in the recent messages, whatever was stored, indexed or lost before.
THEOREM RecallSound == RecallSpec => []RecallIsSound
<1>1. RecallInit => RecallShape /\ RecallSoundHere
  <2> SUFFICES ASSUME RecallInit PROVE RecallShape /\ RecallSoundHere
    OBVIOUS
  <2>1. RecallShape
    BY RecallAssumption DEF RecallInit, RecallShape, Chunks
  <2>2. recalled.snippets = <<>> /\ recalled.found = {}
    BY DEF RecallInit, NoQuestion
  <2> QED BY <2>1, <2>2, RecallAssumption DEF RecallSoundHere, SnippetsSound
<1>2. (RecallShape /\ RecallSoundHere) /\ [RecallNext]_memoryVars => (RecallShape /\ RecallSoundHere)'
  BY SnippetsStep
<1>3. RecallSoundHere => RecallIsSound
  BY DEF RecallSoundHere, SnippetsSound, RecallIsSound
<1> QED BY <1>1, <1>2, <1>3, PTL DEF RecallSpec

\* What the model is given is grounded: the snippets that were recalled and the
\* prompt that is left of them and of the history.
THEOREM PromptHolds == RecallSpec /\ ContextSpec => []PromptIsGrounded
<1>1. RecallIsSound /\ PromptIsSound => PromptIsGrounded
  BY DEF PromptIsGrounded
<1> QED BY <1>1, RecallSound, PromptSound, PTL

-----------------------------------------------------------------------------
(* The service.                                                            *)

\* In the specification the run checks one part moves at a time; each part
\* follows its own specification in it.
LEMMA ServiceIsItsParts ==
    Spec => /\ TreeSpec /\ DurableSpec /\ RecallSpec /\ ContextSpec
            /\ FailoverSpec /\ CompletionSpec /\ RuntimeSpec /\ McpSpec
<1>1. Init => /\ TreeInit /\ DurableInit /\ RecallInit /\ ContextInit
              /\ FailoverInit /\ CompletionInit /\ RuntimeInit /\ McpInit
  BY DEF Init
<1>2. [Next]_serviceVars =>
         /\ [TreeNext]_treeVars /\ [DurableNext]_durableVars
         /\ [RecallNext]_memoryVars /\ [ContextNext]_contextVars
         /\ [FailoverNext]_failoverVars /\ [CompletionNext]_completionVars
         /\ [RuntimeNext]_runtimeVars /\ [McpNext]_mcpVars
  BY DEF Next, serviceVars
<1> QED
  BY <1>1, <1>2, PTL
     DEF Spec, TreeSpec, DurableSpec, RecallSpec, ContextSpec,
         FailoverSpec, CompletionSpec, RuntimeSpec, McpSpec

\* Every safety property of the service holds of the specification the run
\* checks, whatever the numbers of nodes, messages, requests, turns, saves and
\* processes, and the durable runner takes only steps of its promise.
THEOREM ServiceHolds ==
    Spec => /\ [](NoSelfDeadlock /\ RunTellsTheTruth /\ FailoverIsSound /\ ReloadIsWhole)
            /\ [](OutboxCovers /\ PromptIsGrounded /\ AnswerIsVerified /\ ToolCallIsHonest)
            /\ Promise!Init /\ [][Promise!Next]_(Promise!promiseVars)
<1>1. Spec => [](NoSelfDeadlock /\ RunTellsTheTruth /\ FailoverIsSound /\ ReloadIsWhole)
  BY ServiceIsItsParts, PermitsHold, TruthHolds, FailoverHolds, ReloadHolds, PTL
<1>2. Spec => [](OutboxCovers /\ PromptIsGrounded /\ AnswerIsVerified /\ ToolCallIsHonest)
  BY ServiceIsItsParts, OutboxHolds, PromptHolds, VerifiedHolds, HonestyHolds, PTL
<1>3. Spec => Promise!Init /\ [][Promise!Next]_(Promise!promiseVars)
  BY ServiceIsItsParts, PromiseSteps, PTL
<1> QED BY <1>1, <1>2, <1>3, PTL
=============================================================================
