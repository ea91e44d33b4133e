# Verification of vol

`vol` is a Rust workspace for LLM agents: a ReAct agent with plugins and tools, an agent server that
runs agents on *data-plane* nodes and coordinates them from a *control plane*, and the stores,
managers and front ends around them. This directory holds TLA+ modules for the parts whose
correctness depends on the order in which tasks, messages, timeouts and failures happen; TLC runs
that check them on small instances; and TLAPS proofs for instances of any size.

All source paths below are relative to `crates/`.

## 1. Inventory

| Component | State it keeps | Operations | What is hard | What makes it correct |
|---|---|---|---|---|
| **Dispatcher** (`vol-agent-server/src/data_plane/dispatcher.rs`, `handlers/agent.rs`) | request queue, `Notify` permit, busy lock, last session id per agent | submit (spawned push, then notify), cancel, background loop, 300 s timeout | pushes, cancel and pop interleave; the timeout drops a future whose task lives on; one stored permit | FIFO, each request in one place and answered once, one run at a time, requested session used |
| **Agent shell** (`vol-llm-agent/src/react/agent.rs`, 397-552, 881-911) | `is_running`, `session`, context contributor | `set_session`, `run_input`, `RunningGuard` | check-then-act under separate locks, exits before the guard exists | flag exact, run reads and writes one session |
| **Agent run** (`agent.rs` 552-880, `plugin_stream.rs`, `run_context.rs`, `hitl.rs`) | iteration, session messages, event broadcast, interception channel, sender handles | ReAct loop, interception, approval, listeners, joins | four tasks joined through channel closure; a dozen exits; panics; slow listeners | events paired, session agrees with events, context well formed, approval before execution, shutdown |
| **Holder** (`connection_holder.rs`) | status map, current connection | listen, attach, detach | status written by per-run listeners that may be aborted | status tells the truth, also about the next run |
| **Control plane** (`control_plane/*`) | node registry with generations, capability index with revisions, connection table | Register, Heartbeat, CapabilitySnapshot, agent.submit routing, connection close | one task per connection, no order between a node's connections | table names live connections, index holds the node's present agents |
| **Connector** (`vol-agent-server/src/app.rs` 23-302) | revision, connection | connect, register, report, heartbeat, reconnect | acks, pings and forwarded submits on one stream; timeouts; process restart resets the revision | a node settles and becomes routable again |
| **Transport** (`vol-llm-agent-protocol/src/transport/jsonrpc`) | two FIFO directions, keep-alive | send, recv, ping | loss at close | order within a connection |
| **Session log** (`vol-session`) | entries, checkpoints, metadata; one store of three kinds | add_message, compress, get_messages, metadata union | second-granular timestamps, unlock during compression, lines torn by crashes, partial failure, one lock per store instance | what was acknowledged stays readable, compression hides only what it read, nothing doubled, no binding lost |
| **MCP manager** (`vol-llm-mcp/src/manager.rs`) | status, retry counter, service and cancel token per server | connect, reconnect loop, disconnect, call_tool, read_resource | several reconnect loops, tokens replaced while in use, shared by all agents of a node | status matches the service, a killed service is repaired, retries bounded |
| **Task board** (`vol-llm-task`) | tasks with status, assignee, dependencies; id counter; one store of three kinds | create, claim, update, stop, by tool and by command | read-then-write of whole records by several processes, shared temporary files, crash between two steps | whole records, unique ids, one claimant, dependencies first |
| **LLM streaming** (`vol-llm-core/src/streaming.rs`, `vol-llm-provider`) | blocks under construction, bounded channel | read lines, emit events, flush, consume | two protocols, early close, a consumer that stops reading | the answer is what the server sent; a broken stream is an error; the reader ends |
| **Web client** (`vol-llm-ui/src/web/client.rs`, `components/app.rs`) | sockets, send queue, callbacks, connection flags, reconnect loop | call, open, close, answer, reconnect | sockets that open or close late, requests that outlive a connection | served at most once, every callback called, flags agree with the sockets |
| **Sandbox manager** (`vol-llm-sandbox`) | profiles, records, cache of handles, table of names | acquire, create, register, get, default, start, stop, destroy | a lock per table, operations cross all three | one scratch sandbox, the right sandbox for a profile, nothing leads to a removed directory |
| **Approval channels** (`plugins/hitl_http.rs`, `hitl_cli.rs`) | pending callbacks | request, answer, timeout | keyed by tool name | an answer reaches its own request |

How they interact: a client's `agent.submit` reaches a data-plane handler over a JSON-RPC
connection (or is routed by the control plane to a node's connection). The handler may swap the
agent's session, then submits to the agent's dispatcher; the dispatcher loop calls `run_input`, which
spawns listeners, an interceptor and the agent task. The agent task emits events on a broadcast
(read by the listeners: holder, logs, metrics) and asks plugins for decisions through a request
channel. It calls the model through a streaming provider (`LlmStream` is one such call) and keeps its
messages in the session log. The session store, the MCP manager, the task store and the sandbox
manager are shared by the runs of a node, the task board's files also with other processes. The web
client is one of the clients at the other end of a JSON-RPC connection.

`PROJECT.json` lists every component, also those that are not modelled with the reason, and every
hazard with its line.

## 2. Plan

The order is by importance to a user of the server. Done:

1. `AgentDispatcher` with the abstract `SerialExecutor` (proofs in `DispatcherProofs`).
2. `AgentRun`: the inside of the task the dispatcher treats as one step of failing or succeeding
   (`RunProofs`).
3. `ControlPlane` (`ControlProofs`).
4. `SessionLog`: messages, compression in its lock sections, metadata, over three stores
   (`SessionProofs`).
5. `McpManager` (`ReconnectProofs`).
6. `TaskBoard` (`TaskProofs`).
7. `WebClient` (`ReconnectProofs`) and `LlmStream` (`StreamProofs`).
8. `SandboxManager` (`SandboxProofs`).

Left:

- `ApprovalChannel`: the pending map of `hitl_http.rs`, composed with `AgentRun`'s interceptor.
- Several client connections and holders of one data plane; two nodes with the same agent.
- What the web UI makes of the event stream (`conversation.rs`, `agents_panel.rs`).

## 3. Modules

| Module | Role |
|---|---|
| `Queues` | queue operators (occurs, cut, no repetition) |
| `SerialExecutor` | abstract: what a dispatcher promises |
| `AgentDispatcher` | dispatcher, submit/cancel handlers, `run_input` shell, listener of the status map |
| `MCDispatcher`, `DispatcherClaims`, `DispatcherProofs` | instance for TLC; statement of a comment of the source; proofs |
| `AgentRun`, `MCRun`, `RunProofs` | one run from the inside; instance; proofs |
| `ControlPlane`, `MCControl`, `ControlProofs` | nodes, connections, control plane; instance; proofs |
| `SessionLog`, `MCSession`, `SessionProofs` | the log of one session and its compression; instance; proofs |
| `McpManager`, `MCMcp` | one MCP server shared by agents; instance |
| `TaskBoard`, `MCTasks`, `TaskProofs` | the task board and its files; instance; proofs |
| `WebClient`, `MCWeb`, `WebClaims` | the web client and its reconnect loop; instance; claim |
| `ReconnectProofs` | proofs about the two components that reconnect, `McpManager` and `WebClient` |
| `LlmStream`, `MCStream`, `StreamProofs` | one streamed answer of the model; instance; proofs |
| `SandboxManager`, `MCSandbox`, `SandboxProofs` | the sandbox manager; instance; proofs |

A definition marked `\* mutant` is a plausible mistake in the definition that follows it. No
specification uses it; `PROJECT.json` says which property it breaks when it takes the place of the
original.

### AgentDispatcher

One agent. `pc[r]` is the position of request `r` in the submit handler and in the task that enqueues
it; `lpc` the position of `run_loop` including the stretch of `run_input` it is in; `run[r]` the spawned
agent task. Each action is the code between two points where another task can run: `CompareSession`,
`SetSessionCheck`, `SetSessionWrite`, `SetSessionReplace` and `RememberSession` are the lock sections of
the session swap, `PushBack` and `NotifyOne` the two statements of the enqueue task. `Notify` is
external (tokio) and modelled by its documented rule: wake the waiter or store one permit. `Timeout` may
fire wherever `run_input` awaits and drops it there: the guard, if it exists, clears `isRunning`, the
`JoinSet` aborts the listener, the agent task stays. `ListenerLags` is the other way a listener leaves
early: the broadcast has 1024 slots, the listener awaits the client's connection for every event, and
the `Lagged` it gets when it falls behind ends its `while let Ok` loop. How many events a run emits is
not modelled, so it may happen whenever the run has begun. The agent task is reduced to its start and
its four kinds of end; `AgentRun` opens it up. A run that is executing is cancelled nowhere in the code,
so there is no such action. `Discipline` says when clients send: at any time (`pipelined`), after the
final event of what they sent (`sequential`), or also only after `agent.status` says idle (`polling`).

### AgentRun

The run after the re-entrancy guard. Four processes: the agent task (`apc`), the interceptor
(`interceptor`, `asking`), one listener (`listener`, `heard`) and `run_input` (`rpc`). Channels close
when their last sender is dropped, so the model keeps the sets of sender holders `eventTx` and
`pluginTx`. Calls are pairs (iteration, position); messages are a role and the calls they carry. A tool
is *restricted* when the HITL trigger names it; the answer of the approval channel is any of approved,
rejected, none in time, error. The session need not be empty when the run begins: `Prior` is what
earlier runs may have left in it, calls without result among it (the theorems hold for any such set of
messages; only one that is `WellLeft` can be read back whole). `BuildContext` is what the model is sent:
the `Window` of the session read back whole; nothing, when the store's error is swallowed or the budget
is exceeded; or, once a compression or an unreadable line has taken something away (`partial`), a
summary and any of the messages. What exactly a compressed session returns is the subject of
`SessionLog`. A run that timed out and still writes to the session beside this one is left to
`AgentDispatcher`, which says when that happens; its messages are not interleaved with those of this run
here. The iteration limit is a constant: extensions requested through the run context are left out. The
triggers on final answers and iterations have no action because the loop never intercepts those events.

### ControlPlane

A connection is the pair of a node and a number. `up` and `down` are its two directions, `open` the
node's end, `spc` the control plane's serving task with the message it handles and the reply it will
send; `nodeConn` is the connection table. Registration takes three steps because the code takes three
locks (clear snapshot, register, store the connection) before the reply is sent. What the node reads
while it waits for an ack is whatever comes next on the stream, as in the code: the RegisterAck must be
one, any frame passes for a snapshot ack, any text frame for a heartbeat ack, a ping fails a wait. When
a node drops its end, a suffix of what it sent is lost and everything sent to it is. `NodeRestart`
resets the revision and may change the agents. The serving tasks of a node's connections run in any
order, as the server only spawns one task for each: an abandoned connection may still register, report
or clean up after the present one has registered. `crossed` records, as history, that it did, by
changing the node's entries after the present connection's `Register` was taken up (`Crosses`). The
identity check of the registry is left out because the codec gives every remote sender the same
identity.

### SessionLog

One session used by several runs, which happens when an abandoned run goes on beside its successor (see
`AgentDispatcher`). `lines` is the log: a line is the sequence of documents that were written on it, and
only a line of one document can be read. In the file store a document and its newline are two writes
(`WriteJson`, `WriteNewline`), between which others write and the process may crash, and either of which
may fail (`SaveFails`; a line whose newline failed is `torn`); memory and database save in one step
(`Save`), and the database refuses a second row with an id. A message is a uuid, the second of its stamp
and the set of messages whose text it carries, so that a summary carries several. Compression is
`CompressFind` (latest checkpoint), `CompressRead` (messages since it, then the mutex is released) and
`CompressSeal`, which queues checkpoint, summary and kept messages with their future stamps for saving
one at a time; `SaveFails` abandons the rest. The compressor is `PositionSampleCompressor`, which also
keeps messages with an image (`Images`). `FileTail` is the reading of the last 64 KiB by
`find_latest_checkpoint`. The metadata union is one step in memory (`BindNow`). In the file store it is
`BindRead` and `BindWrite` under a lock of the store instance. In the database these are the SELECT and
the UPDATE of one transaction that locks nothing in between; what orders two such transactions is the
row alone: the INSERT of a session the database does not know makes the second wait for the first
(`RowPassed`), and with a row that exists already (`Resumed`) nothing does. `raced` records, as history,
that two unions overlapped. What a reader gets is defined by positions in the log: `Readable` are the
lines that parse, `After` those later than a checkpoint, and `InStoreOrder` ranks them by the store's
order; likewise `Chosen` are the positions the compressor samples. A checkpoint records, as history, the
text its compression read (`seen`), what it kept (`kept`) and how many lines the log had at the read
(`logged`).

### McpManager

One server. A step is one critical section of the `servers` lock or one await between two.
Cancellation tokens are told apart by their fate: the one the state holds is `current`; one that
`connect_server` replaced is `stale`, and nobody can cancel it any more; others were `cancelled` by a
reconnect loop or `cut` by a disconnect. `BeginConnect`, `Handshake`, `Connected`, `ConnectFails` and
`BinaryMissing` are `connect_server` with `connect_single`; `LoopTop` to `LoopFails` the loop that
every failed connect spawns; `RunStarts`, `CallTool`, `ReadResource`, `Reconnect` and `RunEnds` what
agents and clients ask for. `read_resource` and its like keep the read lock while they wait for the
server, which stops every writer (`Writable`).

### TaskBoard

Workers are agents and command-line calls, in one process or several. Every operation reads whole
records (`Get`, or `ScanPending` and `ScanCompleted` for the ready set) and writes a whole record
(`Update`, or `OpenTmp`, `WriteContent`, `Rename` in the file store). The temporary file `{id}.tmp` is
the same for all writers of a task; `fd` says whether the file a writer has open still lies there, was
renamed to the task's path or is gone, and writing into a file that is not empty may leave `Garbage`.
`Create`, `Allocate` and `WriteCounter` are the allocation of an id under the file lock, where a
`Crash` between truncating and writing the counter loses it. `raced`, `holders`, `once`, `given` and
`lostCount` are history.

### WebClient

Every action is one task of the browser. `Opens` and `Closes` are the handlers of any socket, also of
those that a reconnect replaced, because the code leaves their handlers in place. The reconnect loop is
`waiting` for a loss, in a `delay`, or on `watch` for the result of an attempt, and `ended` for good
after its first success or after the last attempt. Answers and sends in flight on a closing socket are
lost. The server executes a request it reads once (`Serve`). Its names are distinct from those of
`McpManager` (`WebInit`, `WebNext`, `ReconnectStep`), so that one module of proofs can extend both.

### LlmStream

One response, read by a task of its own and consumed by the agent. The server's side (`BlockStarts`,
`TextDelta`, `ThinkingDelta`, `ToolCallStart`, `ToolCallDelta`, `BlockStops`, `Finishes`) follows either
protocol and records what it `sent`; the same step is the parsing of that line by `StreamingSession`,
which appends events to `emitting`. The server may send whatever the openai protocol allows: arguments
in the chunk that starts a call, several calls in one chunk, arguments of an earlier call by its index,
content beside a usage or a finish reason. What the parser leaves unread is `PassedOver`, and `strayed`
says that arguments of the call it will keep were dropped or mixed with those of another. A call's id
and name are assumed to come once, together, in its first entry. `Emits` puts them into the bounded
channel, `Consumes` is one turn of `consume_llm_stream`. The connection may break with an error
(`Breaks`) or close early without one (`StreamEnds`). Pieces of text are numbers, so that one that is
lost, repeated or misplaced shows.

### SandboxManager

Concurrent callers, one action per lock section. A sandbox is a *place*: a directory, whichever provider
made it, or `user@host`, the `backend_id` of the code. A profile without a `work_dir` or `sub_dir` gets
a generated name; the local and the temporary provider each count from 0 (`made`) and format the number
alike, so both get the same names when `TMPDIR` is not set, which is assumed. `LetGo` is the `Drop` of a
local sandbox with such a name, which removes the directory: it may happen once no operation and no
cache entry has its handle (`Holds`), since callers let go of theirs at any time. `Reopened` is what
`get` makes of a place: a temporary sandbox keeps the last component only (`Base`). `records`,
`instances` and `names` are the three tables. `Acquire`, `Create` and `Register` start an operation that
goes through `Make` (the provider), `Insert`, `Cache` and `Name`; `Get` and `Load` open a record;
`AskDefault`, `Lock`, `Find` and `OpenDefault` are `default()`, the only one that holds a lock
throughout; `Destroy`, `Raze`, `Evict`, `Unname` and `Delete` take a sandbox away in the code's order;
`Inline` is `build_inline`, whose sandbox no table knows. Profiles may share a directory or host. A
handle of a given directory is determined by kind and place; one of an ssh host, or of a generated name,
is of the profile it was made for (`owner`). No profile has the reserved name `default-tmp`, which the
manager does not enforce.

## 4. Runs

| Run | Checks | Bounds and why |
|---|---|---|
| `dispatcher_pipelined` | `QueueOK`, `OrphansTimedOut`, `RunningFlagExact`, `StatusTruth`, `SerialFIFO` | 3 requests: one executing, two queued, so that cancels and pushes meet in the middle of the queue; 1 run id shared by requests; sessions play no role here; symmetric requests |
| `dispatcher_polling` | `RunsInRequestedSession`, `Answered` | 3 requests over 2 sessions: there and back; liveness, so no symmetry |
| `agent_run` | `EventsWellFormed`, `HistoryTellsEvents`, `ContextPaired`, `ApprovedBeforeExecuted`, `ListenerHeardAll`, `ShutsDown` | 2 iterations of up to 2 calls, the first restricted; window of 3 messages so that it cuts; an empty session and one that an aborted run left with one of two calls answered; capacity 4 so that a listener lags; 2 plugins; panics |
| `control_plane` | `TableOK`, `RoutesToHosts`, `SettledNodesRoutable`, `Recovers` | 1 node with 2 connections, one given up or cut off and the last, whose tasks run in any order; 2 control-plane restarts, 2 submits, 2 unread messages. Nodes share no entry of the registry, index or table, so one node shows every interaction; what is proved of the three invariants is for any number of connections |
| `session_log` | `TailHoldsLatest`, `AckedReadable`, `CompressionKeeps`, `LogOK`, `BindingsKept` | 2 runs that share a store instance, in a session the database knows; 2 messages, one with an image, 2 compressions (the second meets what the first kept), a clock of 2 seconds (the same one, and the next), 1 fault; a tail of 2 lines, so that checkpoints fall out of it. Several instances, which only the metadata union tells apart, are in the theorem |
| `mcp_manager` | `LoopsOK`, `ConnectedHasService`, `DeadIsRepaired`, `Settles` | 2 users, 3 operations, 2 loops at a time (the second is one more than intended), 2 retries |
| `task_board` | `BoardOK`, `ExclusiveClaims`, `DependenciesFirst` | 2 workers, 2 ids, a board that starts empty or with 2 tasks of any dependencies, 3 operations (a claim between the read and the write of another), 1 crash |
| `web_client` | `ClientOK`, `ServedOnce`, `CallbacksCalled`, `ReconnectSettles` | 2 requests, 3 attempts, hence 4 sockets: two given up and late, one current, one to come |
| `llm_stream` | `AnswerWhole`, `CallsFaithful`, `BrokenIsError`, `StreamSettles` | 5 pieces: two thinking blocks and a text, or two calls with arguments; a channel of 2, so that the reader waits |
| `sandbox_manager` | `ScratchOK`, `RightSandbox`, `NothingDangles` | 2 callers, 2 profiles of any settings, 2 directories or hosts they may share, one nested with the last component of the other, generated names, 3 operations (made, destroyed and opened meanwhile); symmetric callers and profiles |
| `queue_drains`, `web_reconnect` | one property each: what a comment says and the code does not do (section 5) | smallest instance with a counterexample |

The constants named `Max...` cap counters the code does not bound (`MaxRetries` and `MaxAttempts` are
limits of the code itself). A node does not give up its last connection by timeout or restart, and pings
stop on it: `Recovers` therefore speaks of what happens after the last disturbance.

Deadlock is not checked: every modelled system may come to rest (all requests answered, run returned,
connections or operations used up, the stream read).

**Fairness.** Weak fairness of each task's steps: tokio polls every ready task. For the dispatcher the
loop's fairness includes the 300 s timer, which fires whatever the agent task does; nothing is assumed
of the agent task (the LLM may hang). For `AgentRun` only the interceptor's end, the listener and
`run_input` are fair: plugins, tools, the LLM and humans may take forever, and `ShutsDown` starts when
the agent task has ended. For the control plane, connectors, serving tasks and forwards are fair;
timeouts, pings, restarts and client submits may happen and need not. For `McpManager` the operations
that have begun and the loops go on. The handshake has a timeout (`manager.rs:890, 979`), and in a loop
so has the whole attempt (376); the listing that follows the handshake in `connect_server` (192-214) has
none, and no more has a read with the lock held: that the server answers these, or closes, is assumed of
it. Nobody has to begin one. For `WebClient` the timers of the loop fire, a socket that connects or
closes comes to an end, and the server reads and answers; connections need not be lost. For `LlmStream`
the reading task and the consumer are fair once there is something to do; nothing is assumed of the
server, which may stall, so `StreamSettles` starts when the response has ended.

## 5. What the code does differently from what it says

With a run whose counterexample TLC finds, and a finding in `PROJECT.json`:

- `queue_drains`: two submits while the loop is busy leave one permit; the second request stays queued
  until some later submit (`dispatcher.rs:123`). `Answered` holds for polling clients only.
- `web_reconnect`: the reconnect loop returns after its first success and is never started again; a
  second loss shows "reconnecting" for ever (`app.rs:708`). `ReconnectSettles` holds while it lives.

As exceptions that the checked properties name:

- *Dispatch and run.* After the timeout the old agent task and the next run are alive together
  (`dispatcher.rs:148`; `OrphansTimedOut`). An empty input or a timeout while MCP connects leaves
  `is_running` set for good (`agent.rs:449-485`; `RunningFlagExact`). A client that sends as soon as it
  sees `AgentComplete` has its session swap refused and its request run in the previous session
  (`handlers/agent.rs:105`; `RunsInRequestedSession` holds for polling clients). A listener that falls
  behind the broadcast gets `Lagged`, which ends its loop with events still buffered
  (`plugin_stream.rs:32`), although its comment (14-15) says that all of them are processed before it
  exits; an ok run may so be shown as running (`ListenerHeardAll`, `StatusTruth`). After a plugin panic
  a failed interception counts as Continue (`agent.rs:694`; `ApprovedBeforeExecuted`). Errors propagated
  with `?` (`agent.rs:605, 679, 788, 820, 852`) end a run without the final event `stream.rs:85`
  promises, and an abort at a tool call leaves its begin event open (`agent.rs:720`):
  `EventsWellFormed`. A skipped call leaves an assistant message without its tool result
  (`agent.rs:704-719`), so does a run that was aborted or failed for every later run of the session
  (720-725), the history window may cut between the two, and a compressed or damaged session is read
  back in part (`ContextPaired`).
- *Control plane.* A connection the node has given up may still register, or clean up, after the new
  one has registered (`control_plane/core.rs:159, 187-196`): the table then has the old connection, or
  none, although "reconnect replaces old". `SettledNodesRoutable`, `RoutesToHosts` and `Recovers` hold
  for nodes no earlier connection `crossed`.
- *Session log.* A document and its newline are two writes (`file_store.rs:162`): a second writer or a
  crash spoils the line (`AckedReadable`). A message that arrives between the read and the seal of a
  compression, in the checkpoint's second, is hidden unread (`session_contributor.rs:97`, `session.rs:86`;
  `CompressionKeeps`); adding a message does not take the mutex. Kept messages are stamped into the
  future (`session_contributor.rs:125`), so the checkpoint of a second compression within those seconds
  does not hide all it read, and messages are returned, and kept, twice (`Overrun` in `LogOK`). The
  database refuses kept messages for their ids (`database_store/mod.rs:358`) and rests on the summary.
  A newline that cannot be written leaves a line that the next document spoils (`torn` in
  `AckedReadable`). Metadata of runs with different store instances may lose a binding
  (`file_store.rs:510`). The database's SELECT and UPDATE share a transaction, which its comment says
  makes the union atomic (`database_store/mod.rs:266-270`); at the default isolation of Postgres two
  transactions read the same metadata and the second UPDATE loses the first one's binding (308). Both
  are excepted by `BindingsKept`.
- *MCP.* A token cancelled while the service is being started leaves a server listed as connected whose
  calls all fail (`manager.rs:299`; `DeadIsRepaired` names the other case). Loops whose token was
  replaced cannot be cancelled (`manager.rs:271`; `LoopsOK`).
- *Task board.* "cross-process safe" (`stores/file.rs`): two updates of a task share its temporary file,
  and the rename of one publishes what the other has truncated (`stores/file.rs:133`; `BoardOK`). Two
  workers may both be told that a task is theirs (`tools/task_claim.rs:117`; `ExclusiveClaims`), and a
  stale write undoes a completion (`tools/task_update.rs:188`). A crash while the counter is written
  starts the ids over (`stores/file.rs:50`; `BoardOK`).
- *Web client.* A socket that was given up and opens late flushes the queue into one that still
  connects, and the requests are lost without a callback (`client.rs:405`; `CallbacksCalled`).
- *Streaming.* A server that names the model on every chunk has all its content dropped
  (`openai_streaming.rs:63`); of parallel openai calls only the last survives (`streaming.rs:119`), and
  its arguments are short of those in its first chunk and of those behind another entry or beside a
  usage (`openai_streaming.rs:36-60, 104-131`), and mixed with those of another call whose index the
  parser ignores (`streaming.rs:128`): `strayed` in `CallsFaithful`; a connection that closes early
  without an error is taken for complete, with arguments cut off in the openai protocol
  (`openai.rs:647`, `anthropic.rs:591`): `AnswerWhole`, `CallsFaithful`.
- *Sandboxes.* Two ssh profiles with the same user and host share one cached handle, so a caller may be
  given the other profile's key and directory; a local and a temporary profile of the same directory
  share one, too; and a temporary sandbox in a nested `sub_dir` is reopened as another directory
  (`tmp.rs:268-277`): `RightSandbox`. A local sandbox without a `work_dir` gets the path of the
  temporary one with the same number: acquired after the scratch sandbox it takes its cache entry, and
  `default()`, said to only ever yield the scratch sandbox, returns it (`manager.rs:254, 395`;
  `RightSandbox`); when such a local handle is dropped, also by being replaced in the cache, its `Drop`
  removes the directory of the temporary sandbox (`local.rs:75`; `Twice` in `NothingDangles`). A `get`
  or an acquisition during a destroy leaves a handle to a removed directory (`manager.rs:268, 378`;
  `NothingDangles`).

Also seen while modelling: `set_session` changes session and contributor under two locks
(`agent.rs:414`); a cancel before the spawned push answers false and the request runs
(`dispatcher.rs:64`); the connector ignores forwarded submits (`app.rs:280`) after the client was told
`accepted`; a disconnected node stays online and routable (`router.rs:20`); after the last MCP retry
the status promises another one and the loop leaves (`manager.rs:327`); `read_resource` keeps the read
lock over an await (`manager.rs:609-621`); the end of a run disconnects the MCP servers of every agent
of the node (`agent.rs:906`); the command-line claim does not look at dependencies
(`cli/executor.rs:321`), one unreadable task file makes the ready set fail, and cyclic dependencies are
accepted and never ready; a request reported as failed when its connection closed may still be sent
(`client.rs:428`); the restoration of the session after a reconnect cannot fire (`app.rs:741`);
a character split over two chunks of the response ends the stream with an error (`openai.rs:608`), as
the model's `Breaks` does, and a stalled stream has no timeout (`agent.rs:944`); two
acquisitions of a profile both create a sandbox and one is orphaned, as is the first one when `create`
follows `acquire_by_name`, which makes no record, so that `list` omits it; a profile with the reserved
scratch name is not refused.

## 6. Proofs

All theorems hold for every value of the constants that satisfies the named assumptions
(`DispatcherAssumption`, `RunAssumption`, `NoneIsNoEvent`, `ControlAssumption`, `SessionConstants`,
`McpConstants`, `TaskConstants`, `ContentsDistinct`, `WebConstants`, `StreamConstants`,
`SandboxConstants`, `NoneIsNoPlace`): `None` and its like are not among the values they are told apart
from, bounds and capacities are natural numbers, plugins and restricted tools are of their kinds. Sets
of requests, sessions, run ids, nodes, users, workers, callers and profiles may be infinite. One theorem
has a hypothesis besides, which is that of the run that checks the property: the request's session is
proved for the clients that poll (`Discipline = "polling"`), because for the others section 5 names the
exception.

`DispatcherProofs`

- `TypeCorrect`. `TypeOK` is not inductive: `EnterRun` and its successors apply functions to `cur`, and
  `Return` writes `run[cur]` as an outcome. `LoopInv` adds that a sent request has its input, that `cur`
  is set exactly while the loop executes, and that a joined task did not panic.
- `QueueIntegrityHolds` (with `TypeCorrect`: `QueueOKHolds`). Inductive with `TypeInv`. The lemmas
  at the start of the module say what `Append`, `Tail` and `Cut` do to the elements and the
  distinctness of a queue.
- `OrphansTimedOutHolds`. From `RunInv`: an agent task exists only for the awaited request and for
  settled ones, and is unfinished only while awaited or after a timeout.
- `RunningFlagExactHolds`. From `FlagInv`, which adds that `run_input` is only entered while no earlier
  one has leaked the flag: without it, clearing the flag at the end of a run would break the equivalence.
- `SerialFIFOHolds`. Refinement: the queue, the current request and the answered requests are the
  variables of `SerialExecutor`. Each step is one of its steps or a stutter; `QueueIntegrity` gives
  the guard of `Enqueue` (a request is not queued twice) and `LoopInv` that of `Begin` and `Finish`.
- `StatusTruthHolds`. From `ListenInv`: only the awaited request has a listener, and `Heard` says what
  it has still to hear, run state by run state, and whose the status is then. A status that stays
  behind is of a run that ended without a final event, or whose listener lagged.
- `RunsInRequestedSessionHolds` (polling clients). `TurnInv`: at most one request is under way, and
  before it is pushed the dispatcher has nothing to do, so nothing refuses its swap. `SwapInv`: the
  agent's session, its contributor's and the last one remembered agree but for the lock sections of
  the swap under way, and from then on they are those of the request. `EndedInv` excludes that the
  run the client waited for has leaked `is_running`, which would refuse the swap.

`RunProofs`

All five rest on `Base` (`RunBase`): the types, where the agent task can be with its counters, and
that the event under interception is the one the agent task waits for, the plugin being asked included.

- `ListenerHears`. `Channels` equates the holders of the broadcast's sender with the living parts of
  the run, so that a closed broadcast means that nothing more will be emitted.
- `ApprovalFirst`. `Approval` follows one call from the chain to its execution: the plugins before
  the one being asked have let it pass, HITL among them only with an approval.
- `SessionTellsEvents`. Inductive with `Base`; `TaskTells` says of each step of the agent task which
  closing events and tool messages it adds.
- `ContextIsPaired`. `Records` speaks of the whole session, not of the window: results come after
  their calls and once (`OneResult`, `ResultsCalled`), and a call is answered, skipped or still to be
  handled (`CallsAnswered`). When the LLM is called none is still to be handled; the window cuts off the
  oldest messages and so keeps what follows a call it keeps. Calls of earlier runs have ids of their
  own (`EarlierIds`), of which a session read back whole says that each is made once and answered at
  most once, after it (`WellLeft`).
- `StreamWellFormed`. `Counts` relates the LLM calls started, answered and failed to the iteration,
  which bounds them. `Shape` is the part of the property about neighbouring events, stated of any
  stream so that `ShapeGrows` can say which event may come next; `Stream` adds what the last event is at
  each position of the agent task (while a call is decided or executed, its own begin event), without
  which the property would not be inductive.

`ControlProofs`

- `TableLiveHolds`. From `TableInv`, which adds `Opened`: a connection has a serving task exactly when
  its node has opened it. It is what makes a stored connection one of the node's own.
- `ControlTypeCorrect` (with `TableLiveHolds`: `TableOKHolds`). The type invariant by component,
  strengthened by what the steps need: a revision never exceeds the node's connections, a recording
  task holds its snapshot, a replying one its reply.
- `SettledNodesRoutableHolds`, `RoutesToHostsHolds`, for serving tasks in any order. From `LinkInv`: a
  node keeps open its latest connection only (`OpenInv`), and, as long as that one is served and no
  earlier one has crossed it, `Registering` says how far its `Register` has come and that no ack of it
  can be read before the connection is stored, and `Reported` that the snapshot the node sent is waiting
  ahead of any heartbeat, or applied, or recorded. Until its `Register` is taken up earlier connections
  may do what they like, because it clears the snapshot and takes the entry over.

`ReconnectProofs`, about `McpManager`

- `LoopsOKHolds`. That two loops never both hold the current token is not inductive: a user's connect
  passes it to the service and a failed one to a loop. `OneCurrent` says it of all holders, users and
  the service included; the lemmas `OnlyHolder` and `InstallMoves` say what replacing and installing do.
- `ConnectedHasServiceHolds`, `DeadIsRepairedHolds`. Inductive with the types: only a client's
  reconnect takes the service away without changing the status, and it goes on to connect; a loop that
  cancels the service's token goes on to reconnect, and is itself cancelled only by another that does.

`TaskProofs`

- `BoardOKHolds`, `ExclusiveClaimsHolds`. One invariant, `BoardInv`: what each worker has in hand at
  each step (`HandOK`), whose the lock and the counter are (`CountInv`), where open files lie
  (`FilesOK`), and for every task that was never raced (`RecordInv`): its record is whole, at most one
  worker writes it, that worker has read the present version, the temporary file is its own, a pending
  task has no holder, and a claim in hand of the present version is of a pending task. The exception
  `raced` makes this an invariant: it begins at the first write by someone who had not read the last.
- `DependenciesFirstHolds`. A property of steps, from `BoardInv` and `ClaimInv`: a task that is
  completed is noted in `once`; what a worker has seen completed is in `once`; and a claim that was not
  overtaken has in hand the dependencies of the present record, all of them found completed once it is
  past its scan. The record may be written by others meanwhile: then the versions differ, the claim's
  write is one of the stale ones, and the task is `raced`.

`ReconnectProofs`, about `WebClient`

- `ClientOKHolds`. The types with the attempt's range, and the agreement of flags, state and sockets.
- `ServedOnceHolds`. From `OnceInv`: until a server executes it, a request is unsent, or in the queue,
  or on its way over one socket, and only in one of these.

`SandboxProofs`

- `ScratchOKHolds`. `SandboxInv` ties what a caller has in hand to where it is (`JobsOK`), says that
  the tables lead to places of the profile they are asked for (`TablesFit`), that ids are used once
  (`NumberInv`: otherwise `Insert` could overwrite a record), and that the lock's holder is the one
  caller inside `default()`, who, between `Find` and `Insert`, has seen no scratch record and nobody
  else makes one (`ScratchInv`).
- `RightSandboxHolds`. From `TablesFit`: a cached handle was made or reopened for the place it is filed
  under, by some profile whose place that is, and a place fits the profile whose name or record leads
  there. For a generated name, `OwnerInv` adds that everything that relates to it is of one profile,
  unless both counters have passed it (`Twice`).
- `NothingDanglesHolds`. The property looks at directories no destroy is at work on, which a step of the
  destroy ends, so `DirInv` follows the destroy: whoever takes a directory away is alone with it
  (`Alone`), and has by then removed the handle, the names and the record, in this order. `HasTmp` counts
  what operations under way have in hand among the tables. A dropped local handle takes a directory away
  as well, but one that no temporary sandbox leads to, unless the name was given twice.

`StreamProofs`

- `AnswerWholeHolds`, `CallsFaithfulHolds`, `BrokenIsErrorHolds`. The properties speak of the end, when
  the consumer has taken the last event; `StreamInv` says what they mean before. `SessionInv` relates
  the answer under construction to what the server sent, protocol by protocol. `TextInv` and `CallInv`
  say that what the consumer has is a prefix, and that the events on their way, in the channel and with
  the reading task, deliver exactly the rest in order (`Carries`, by a witness that tells how much is
  delivered before each event); an event with the whole text comes after all of its parts. `ThinkingInv`
  says that the last thought on its way is that of the last block. `PhaseInv` gives the end: an answer
  taken as complete leaves nothing on its way, and a connection that broke has an error on its way or
  has been reported. The lemmas `CarriesTake`, `CarriesJoin`, `LatestTake` and `LatestJoin` say what
  taking the first event and appending new ones do.

`SessionProofs`

The module begins with what the readers compute: in a finite set with a strict total order each element
has a rank of its own (`RankGrows` and its successors), so `InStoreOrder` returns each chosen line once
and the compressor's sample repeats no message (`CompressFacts`). No induction over the log is needed,
because readers and compressor are defined by positions and ranks. `TypeInv` adds to `TypeOK` what a run
holds at each place; the `...View` lemmas say once for all actions what a step may do to the log, to the
entries in hand and to the clock, so that the invariants below are not proved action by action.

- `BindingsKeptHolds`. `BindInv`: between `BindRead` and `BindWrite` the run has the present metadata in
  hand, unless two unions overlapped, which the lock of a shared instance excludes.
- `AckedReadableHolds`. `WriterInv` (entries name their writer), `OpenInv` (a run that finds the last
  line open, and is not the one that must end it, finds an entry of another writer on it) and `AckInv`
  (a written document `Stands`: alone on its line, or beside another writer's).
- `TailHoldsLatestHolds`. `MutexInv` (only the holder of the mutex has a checkpoint in hand, first) and
  `CpInv`: checkpoints stand in the log in the order of their times, none is later than the clock, and
  one that is to be written is no earlier than all of them.
- `CompressionKeepsHolds`. `HideInv` follows a compression: what was in the log when it read and is not
  covered by another checkpoint (`Covered`) is in what it read, from the read to the checkpoint it
  writes (`ReadBy`). `IdInv`: all entries under an id that exist, in the log or in a run's hands, have
  one text, and a summary is a second later than its checkpoint and carries what that kept;
  `SealedInv`: the summary that was acknowledged was written.
- `LogOKHolds`. `FreshInv`: a new message or summary that is still to be written has an id no other
  entry has, so only kept messages repeat one. `CopyInv`, which holds until the property's exceptions
  occur: between two entries under one id stands the last checkpoint before the second, which has read
  the text of both (`Apart`); what a compression read has each id once (`SeenDistinct`); and what it has
  still to write is under ids that nobody wrote since its own checkpoint (`Pending`). The first of two
  such entries is then no later than a checkpoint, hence not returned, but for an `Overrun`.

The proof settled how wide the exceptions have to be. An `Overrun` by the latest checkpoint alone is
enough within the run's bounds and too narrow beyond them: with three compressions in five seconds
(`KeepFirst` 3, one run, memory store) TLC finds a message returned twice although the latest checkpoint
hides all it read, because an earlier, overrun compression had read it twice and kept both. For the same
reason `HiddenWasReadOrRaced` tells entries apart by their place in the log and not by their id, which
copies share.

Only model-checked: the liveness properties (`Answered`, `ShutsDown`, `Recovers`, `Settles`,
`CallbacksCalled`, `ReconnectSettles`, `StreamSettles`), which the prover does not reach. Every safety
property and action property that a passing run checks is the subject of a theorem.

## 7. Not modelled

The approval channels, several client connections of one data plane and two nodes that host the same
agent are left in the plan. Within the modelled components: listing, renaming and deleting of
sessions, tasks and sandboxes, iteration limits extended by plugins, agent attach and detach, lists of
MCP tools and prompts, and the splitting of stream lines over chunks.

Protocol types and codecs are data; the resource handlers of the data plane are wrappers over the
stores and managers above; runtime assembly, agent packages, providers' configuration and loaders of
skills, wiki and memory run once and in sequence; retrieval and embedding are numerical; tools, commands
and files inside a sandbox, the bundled MCP servers and the observability plugins are input and output
behind one call; the display state of the terminal and web interfaces decides nothing. They make up
most of the repository's lines, which is why the modelled share of them is small: what is modelled is
the code where the order of events matters. Payload contents, wording, logging and metrics appear
nowhere. Several agents of one node are independent in the modelled parts, as are several nodes and
several MCP servers.
