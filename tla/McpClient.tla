----------------------------- MODULE McpClient ------------------------------
(***************************************************************************)
(* Requests to one MCP server.  Over stdio they share a child process from *)
(* a pool: one request at a time writes a line and reads lines until one   *)
(* has its id.  Over HTTP they share a session id, and a failed request is *)
(* sent again.  A caller may drop its request at any await, a process may  *)
(* die or be slow, and answers come when nobody waits for them any more.   *)
(***************************************************************************)
EXTENDS Integers, Sequences, FiniteSets

CONSTANTS
    ToolCalls,     \* tools/call requests
    ToolLists,     \* tools/list requests
    MaxProcesses   \* bound: child processes

ASSUME McpAssumption ==
    /\ ToolCalls \intersect ToolLists = {}
    /\ MaxProcesses \in Nat \ {0}

VARIABLES
    transport,   \* of the server: stdio or http
    pool,        \* the pooled process, 0 if there is none
    connecting,  \* the request that holds the pool while it connects, if any
    process,     \* the child processes
    token,       \* whether an HTTP session id is pooled
    tools,       \* tool_cache: none, listed, or empty
    ask,         \* request -> its state
    executed     \* request -> how often the server has carried it out

mcpVars == <<transport, pool, connecting, process, token, tools, ask, executed>>

Asks == ToolCalls \union ToolLists
Nobody == "nobody"

NoAsk == [stage |-> "start", process |-> 0, id |-> 0, tries |-> 0, reply |-> "none", from |-> Nobody]
NewProcess == [alive |-> TRUE, holder |-> Nobody, next |-> 2, inbox |-> {}, lines |-> <<>>,
               torn |-> FALSE]

Line(id, of, body) == [id |-> id, of |-> of, body |-> body]

McpInit ==
    /\ transport \in {"stdio", "http"}
    /\ pool = 0 /\ connecting = {} /\ process = <<>> /\ token = FALSE /\ tools = "none"
    /\ ask = [r \in Asks |-> NoAsk]
    /\ executed = [r \in Asks |-> 0]

Moves(r, stage) == ask' = [ask EXCEPT ![r].stage = stage]
Ends(r, reply, from) ==
    ask' = [ask EXCEPT ![r] = [NoAsk EXCEPT !.stage = "done", !.reply = reply, !.from = from]]

\* What a message without a result is worth: nothing is reported, a call returns
\* an empty object and a list is cached as empty.
Worth(body) == IF body = "result" THEN "result" ELSE "empty"

Received(r, body, from) ==
    /\ Ends(r, Worth(body), from)
    /\ tools' = IF r \in ToolCalls THEN tools ELSE IF body = "result" THEN "listed" ELSE "empty"

\* list_server_tools looks into the cache first.
BeginRequest(r) ==
    /\ ask[r].stage = "start"
    /\ \/ /\ r \in ToolLists /\ tools # "none"
          /\ Ends(r, "cached", Nobody)
       \/ /\ r \in ToolCalls \/ tools = "none"
          /\ Moves(r, CASE transport = "stdio" -> "pool"
                        [] transport = "http" /\ token -> "post"
                        [] OTHER -> "init")
    /\ UNCHANGED <<transport, pool, connecting, process, token, tools, executed>>

-----------------------------------------------------------------------------
(* stdio.                                                                  *)

\* get_or_create_stdio: the pool is locked while a process is started.
TakePooled(r) ==
    /\ ask[r].stage = "pool" /\ connecting = {}
    /\ \/ /\ pool # 0
          /\ ask' = [ask EXCEPT ![r] = [@ EXCEPT !.stage = "lock", !.process = pool]]
          /\ UNCHANGED connecting
       \/ /\ pool = 0 /\ Len(process) < MaxProcesses
          /\ connecting' = {r}
          /\ Moves(r, "connect")
    /\ UNCHANGED <<transport, pool, process, token, tools, executed>>

Connect(r) ==
    /\ ask[r].stage = "connect"
    /\ connecting' = {}
    /\ \/ /\ process' = Append(process, NewProcess) /\ pool' = Len(process')
          /\ ask' = [ask EXCEPT ![r] = [@ EXCEPT !.stage = "lock", !.process = pool']]
       \/ Moves(r, "failed") /\ UNCHANGED <<process, pool>>
    /\ UNCHANGED <<transport, token, tools, executed>>

\* The session is locked for the whole exchange, an id allocated and the line
\* written.  A line that follows one that was cut off is lost with it; a caller
\* that goes away in between may leave such a cut-off line.
SendLine(r) ==
    LET s == ask[r].process
        i == process[s].next
        sent == IF process[s].torn THEN {} ELSE {Line(i, r, "request")}
        waiting == process[s].inbox \union sent
    IN /\ ask[r].stage = "lock" /\ process[s].holder = Nobody
       /\ \/ /\ process' = [process EXCEPT ![s] = [@ EXCEPT !.holder = r, !.next = i + 1, !.torn = FALSE,
                                                     !.inbox = waiting]]
             /\ ask' = [ask EXCEPT ![r] = [@ EXCEPT !.stage = "read", !.id = i]]
          \/ /\ ~process[s].alive
             /\ process' = [process EXCEPT ![s].next = i + 1]
             /\ Moves(r, "failed")
          \/ /\ process' = [process EXCEPT ![s] = [@ EXCEPT !.next = i + 1, !.torn = TRUE]]
             /\ Ends(r, "dropped", Nobody)
       /\ UNCHANGED <<transport, pool, connecting, token, tools, executed>>

\* Mutant: the next message is the answer.
ReadLineAnyId(r) ==
    LET s == ask[r].process
        line == Head(process[s].lines)
        rest == Tail(process[s].lines)
    IN /\ ask[r].stage = "read" /\ process[s].lines # <<>>
       /\ \/ /\ line.body = "fragment"
             /\ process' = [process EXCEPT ![s] = [@ EXCEPT !.lines = rest, !.holder = Nobody]]
             /\ Moves(r, "failed") /\ UNCHANGED tools
          \/ /\ line.body # "fragment"
             /\ process' = [process EXCEPT ![s] = [@ EXCEPT !.lines = rest, !.holder = Nobody]]
             /\ Received(r, line.body, line.of)
       /\ UNCHANGED <<transport, pool, connecting, token, executed>>

\* read_jsonrpc_message_with_id: answers to others are skipped (as
\* notifications are, which are not modelled), and what is not JSON is an error.
ReadLine(r) ==
    LET s == ask[r].process
        line == Head(process[s].lines)
        rest == Tail(process[s].lines)
    IN /\ ask[r].stage = "read" /\ process[s].lines # <<>>
       /\ \/ /\ line.body = "fragment"
             /\ process' = [process EXCEPT ![s] = [@ EXCEPT !.lines = rest, !.holder = Nobody]]
             /\ Moves(r, "failed") /\ UNCHANGED tools
          \/ /\ line.body # "fragment" /\ line.id # ask[r].id
             /\ process' = [process EXCEPT ![s].lines = rest]
             /\ UNCHANGED <<ask, tools>>
          \/ /\ line.id = ask[r].id
             /\ process' = [process EXCEPT ![s] = [@ EXCEPT !.lines = rest, !.holder = Nobody]]
             /\ Received(r, line.body, line.of)
       /\ UNCHANGED <<transport, pool, connecting, token, executed>>

\* What is left of the output when a read is given up in the middle of a line.
HalfRead(s) ==
    IF process[s].lines = <<>> THEN {} ELSE {<<Line(0, Nobody, "fragment")>> \o Tail(process[s].lines)}

\* No whole line within the timeout, or the process has closed its output.
ReadFails(r) ==
    LET s == ask[r].process IN
    /\ ask[r].stage = "read"
    /\ \E rest \in HalfRead(s) \union {l \in {process[s].lines} : l = <<>>} :
          process' = [process EXCEPT ![s] = [@ EXCEPT !.holder = Nobody, !.lines = rest]]
    /\ Moves(r, "failed")
    /\ UNCHANGED <<transport, pool, connecting, token, tools, executed>>

\* Whatever process is pooled by now is dropped from the pool.  Only a list is
\* tried again; when that fails too, the pool is left as it is.
ResetSession(r) ==
    /\ ask[r].stage = "failed" /\ connecting = {}
    /\ pool' = IF ask[r].tries = 0 THEN 0 ELSE pool
    /\ IF r \in ToolLists /\ ask[r].tries = 0
       THEN ask' = [ask EXCEPT ![r] = [NoAsk EXCEPT !.stage = "pool", !.tries = 1]]
       ELSE Ends(r, "error", Nobody)
    /\ UNCHANGED <<transport, connecting, process, token, tools, executed>>

-----------------------------------------------------------------------------
(* HTTP.                                                                   *)

HttpInitialize(r) ==
    /\ ask[r].stage = "init"
    /\ Moves(r, "post") \/ Ends(r, "error", Nobody)
    /\ UNCHANGED <<transport, pool, connecting, process, token, tools, executed>>

\* The server may or may not have carried out what it did not answer.
Carried(r) == executed' \in {executed, [executed EXCEPT ![r] = @ + 1]}

\* The answer, or of an event stream the first message that parses, which may be
\* a notification.
HttpAnswered(r) ==
    /\ ask[r].stage = "post"
    /\ executed' = [executed EXCEPT ![r] = @ + 1]
    /\ \E body \in {"result", "rpc_error"} : Received(r, body, r) \/ Received(r, "note", "note")
    /\ token' \in BOOLEAN
    /\ UNCHANGED <<transport, pool, connecting, process>>

\* The session id is dropped, a session started and the same request sent again,
\* once, whatever its method.
HttpFails(r) ==
    /\ ask[r].stage = "post"
    /\ Carried(r)
    /\ \/ /\ ask[r].tries = 0
          /\ token' = FALSE
          /\ ask' = [ask EXCEPT ![r] = [@ EXCEPT !.stage = "init", !.tries = 1]]
       \/ /\ ask[r].tries = 1
          /\ Ends(r, "error", Nobody) /\ UNCHANGED token
    /\ UNCHANGED <<transport, pool, connecting, process, tools>>

-----------------------------------------------------------------------------
(* The caller and the processes.                                           *)

\* The caller's own timeout drops the request at an await: a process that is being
\* started is killed, a lock is released, and a line may be left half written or
\* half read.
Cancelled(r) ==
    LET s == ask[r].process
        at == ask[r].stage
    IN /\ at \notin {"start", "done"}
       /\ Ends(r, "dropped", Nobody)
       /\ connecting' = connecting \ {r}
       /\ \/ at # "read" /\ UNCHANGED process
          \/ at = "read" /\ \E rest \in {process[s].lines} \union HalfRead(s) :
                process' = [process EXCEPT ![s] = [@ EXCEPT !.holder = Nobody, !.lines = rest]]
       /\ IF at = "post" THEN Carried(r) ELSE UNCHANGED executed
       /\ UNCHANGED <<transport, pool, token, tools>>

\* A process lives as long as the pool or a request refers to it.
Kept(s) ==
    /\ process[s].alive
    /\ pool = s \/ \E r \in Asks : ask[r].process = s /\ ask[r].stage \in {"lock", "read"}

ServerAnswers(s) ==
    /\ Kept(s)
    /\ \E m \in process[s].inbox, body \in {"result", "rpc_error"} :
          /\ LET left == process[s].inbox \ {m}
                 output == Append(process[s].lines, Line(m.id, m.of, body))
             IN process' = [process EXCEPT ![s] = [@ EXCEPT !.inbox = left, !.lines = output]]
          /\ executed' = [executed EXCEPT ![m.of] = @ + 1]
    /\ UNCHANGED <<transport, pool, connecting, token, tools, ask>>

ServerDies(s) ==
    /\ Kept(s)
    /\ process' = [process EXCEPT ![s] = [@ EXCEPT !.alive = FALSE, !.inbox = {}]]
    /\ UNCHANGED <<transport, pool, connecting, token, tools, ask, executed>>

McpNext ==
    \/ \E r \in Asks :
          \/ BeginRequest(r) \/ TakePooled(r) \/ Connect(r) \/ SendLine(r)
          \/ ReadLine(r) \/ ReadFails(r) \/ ResetSession(r)
          \/ HttpInitialize(r) \/ HttpAnswered(r) \/ HttpFails(r) \/ Cancelled(r)
    \/ \E s \in DOMAIN process : ServerAnswers(s) \/ ServerDies(s)

McpSpec == McpInit /\ [][McpNext]_mcpVars

\* A tool call is what its caller is told: nobody gets the answer to another
\* request, however late answers, dropped callers and torn lines mix on a shared
\* process; a result was really produced; and a call is carried out at most once
\* over stdio, where it is never sent again, and at most twice over HTTP.
ToolCallIsHonest ==
    \A r \in Asks :
       /\ ask[r].reply \in {"result", "empty"} =>
             /\ executed[r] > 0
             /\ ask[r].from = r \/ (transport = "http" /\ ask[r].from = "note")
       /\ r \in ToolCalls => executed[r] <= IF transport = "http" THEN 2 ELSE 1
=============================================================================
