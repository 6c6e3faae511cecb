# A verification project for aacode

aacode is two programs in one repository. One is a personal assistant in Rust
(`core`, `kernel`, `llm`, `aa_session`, `server`, `apps/cli`, ...): a server streams
a model's answers, runs the tools that the model calls, and saves the conversation.
The other is an editor with an agent (`editor`, `project`, `remote`, `agent`, ...)
that can open projects on another host through a remote server.

The modules here model the parts whose correctness depends on the order of events:
the protocol between the editor and its remote server, the life of that connection and
of the processes on the host, the rpc connection to the collaboration server, a run of
the assistant's server and its web terminals, the turns of the editor's agent, and the
review of what the agent writes. Paths below are relative to `src/packages/`.

## Inventory

### The remote connection

| Component | State | Operations | Talks to |
|---|---|---|---|
| `ChannelClient` (`remote/src/remote_client/channel_client.rs`), one at each end | next id, largest id received, buffer of unacknowledged envelopes, queues, channels of open requests and streams | send, request, request_stream, handle an envelope, reconnect, resync, ping | the other end, by envelopes; handlers of `proto_client` |
| `RemoteClient` (`remote_client/client.rs`, `state.rs`) | `State`, which owns the tasks of the connection | new, reconnect, heartbeat, monitor, shutdown_processes, force_* | transport, `ChannelClient`, windows by events |
| `ConnectionPool` (`remote_client/connect.rs`) | per host: a weak connect task or connection | connect | `RemoteClient`, transports |
| transports (`remote/src/transport/`) | a child process, `killed` | upload and start a server, start a proxy, kill | ssh, wsl, docker |
| remote server (`apps/remote_server`) | pid file, sockets, the stream in use, the queue of outgoing envelopes | proxy, spawn, kill, accept, idle exit | editor, through the proxy |

What is hard here: a connection is cut at any point, both ends hold queues that the
cut empties on one side only, several foreground tasks interleave at their awaits,
background threads send at the same time, timers race answers, and dropping a task
is how everything is stopped. What makes it correct: nothing sent is lost, requests
are answered once by the right answer, streams arrive whole, one connection is alive
at a time, attempts are bounded, and the state shown to the windows settles.

### A run of the assistant

| Component | State | Operations | Talks to |
|---|---|---|---|
| `stream_worker` (`llm/src/protocols/openai_chat.rs`) | tool call buffers | read the answer of the provider | `run_turn`, bounded channel |
| `run_turn` (`aa_session/src/lib.rs`) | the conversation, the tool calls of an answer | ask, relay, run tools, ask again | worker, tools, `chat_sse`, bounded channel |
| `chat_sse` (`server/src/chat.rs`) | whether a text message is open, the calls that wait for results | load, relay as AG-UI events, save | client by SSE, session files |
| session files (`aa_session/src/storage.rs`, `server/src/sessions.rs`) | one JSON file per session | save, load, list, delete | server, command line |
| terminals (`server/src/terminal.rs`) | sessions map, a shell each, three tasks per bridge | create, connect, attach, delete | WebSocket clients |
| `ToolRegistry` (`kernel`), tools, extensions, MCP | a map of tools | register, look up | `run_turn` |

Hard: answers break off anywhere, tool calls come in any order, channels fill up, a
save fails half way, several runs share a file. Correct means: the client can follow
the events, results belong to their calls, a tool runs once per call, the model gets
every result before it goes on, the file is whole, and the run ends.

### The agent of the editor, and rpc

| Component | State | Operations | Talks to |
|---|---|---|---|
| `Thread` (`agent/src/thread.rs`) | messages, the pending message, the running turn, its streaming tool inputs | send, resume, cancel, truncate, run_turn | a model's stream, tools, a client by events |
| `ActionLog` (`action_log/src/lib.rs`) | per buffer: base text, unreviewed edits, snapshot, status, a queue of updates | read, created, edited, will_delete, keep, reject, undo | buffers by events, disk, git, the review panel |
| `Peer` (`rpc/src/peer/mod.rs`) | connections, two tables of response channels each | add_connection (`handle_io`), request, request_stream, disconnect | callers, the stream of incoming messages |

Hard: turns outlive their cancellation and share one pending message; tools wait for
inputs that may never be complete; edits of two authors reach the log in one order and
are worked out later; a connection ends while callers are between finding it and
registering with it. Correct means: a history with every tool use answered and one turn
running, one reason to stop per turn, a reject that never takes the user's text, one
outcome for every request.

### Others

`dap`, `context_server` and `lsp` each match requests with answers over a stream that may
end, as `Peer` does. Editors, buffers, views, settings and the language tooling are data
structures and user interface; `gpui`, `text`, `fs`, `git` and `proto` are not in the
repository. `PROJECT.json` lists every component with its status and every hazard with
its line.

## Plan

Done:

1. `ChannelClient`, with the abstract `AtLeastOnce`; `ChannelClientProofs`
2. `RemoteClient`, with the abstract `ConnectionStatus`; `RemoteClientProofs`
3. `ChatTurn`; `ChatTurnProofs`
4. `Peer`, with the abstract `Requests`; `PeerProofs`
5. `ServerLifecycle`; `ServerLifecycleProofs`
6. `Terminals`; `TerminalsProofs`
7. `AgentThread`; `AgentThreadProofs`
8. `ActionLog`; `ActionLogProofs`

Not planned are `SessionStore` (several runs on one session file) and the clients in the shape of
`Peer`: the hazards list says what goes unchecked there.

Runs are kept few, one for each question. A disagreement between code and comment has a
run of its own only where the comment states the opposite of what happens; others are
told below, under "Known oddities".

## The modules

### ChannelClient

Two ends, `client` (the editor) and `server`, with the fields of the struct as
functions of the end: `nextId` is `next_message_id`, `maxReceived` is `max_received`,
`buffer`, `responseChannels` and `streamChannels` keep their names. `outgoing[e]` is
what end `e` has queued, `incoming[e]` what has crossed the pipes and waits for its
receive task.

* An envelope is its id, kind, `responding_to`, `ack_id` and item number. The kinds
  are what an application sends (`Message`, `Request`, `Stream`, and `Unknown` for a
  request without a handler), the replies, and the three control messages.
* `Send` is a call on the foreground thread, one step. The same call on a background
  thread is `SendAllocate`, `SendKeep`, `SendEmit`: the code holds no lock across them.
* One action per way the receive task handles an envelope: `HandleFlush`,
  `HandleRemoteStarted`, `HandleFlushed` (the rest of `resync`), `HandleResponse`,
  `HandleMessage`, `HandleUnknown`. Each begins by popping what the `ack_id` covers and
  storing the id. `blocked` is the barrier on which the receive task waits while a
  stream's consumer holds an item.
* Handlers (`Respond`, `SendItem`, `EndOfStream`) finish in any order.
* `Cut` ends the connection: the editor's queue goes, what was under way arrives up
  to some point. The server notices later (`Detach`), loses what it writes until then
  (`LoseOutgoing`), and goes on with the same queue after `Accept`. `Reconnect`,
  `Resync` and `ResyncTimeout` are the editor's side; between the first two the
  foreground does nothing else.
* `sent`, `received` and `answers` are history, `left` bounds what may be sent.

`AtLeastOnce` is what the applications rely on: only what was sent is handled, and all
of it sooner or later. `DeliversAtLeastOnce` maps its two variables to the ids in
`sent` and `received`. `MCChannelClient` holds the instances.

### RemoteClient

`state`, `missed` and `current` are the field `state`: its variant, its count and the
connection whose tasks it owns; `"None"` is the field while it is taken. Connections
are numbered as they are made, and each has an `io` task (with the proxy's exit), a
`monitor` and a `heartbeat`. `tasks` holds the reconnect tasks, as a set, so that having
two of them would be a state of the model. `new` is where `RemoteClient::new` stands,
`closing` the connection that `shutdown_processes` holds for its 50 ms.

* `MonitorReconnects`, `MonitorNotRunning`: the proxy exits, and with which code.
* `HeartbeatActivity`, `HeartbeatTimer`, `HeartbeatPong`, `HeartbeatMiss`,
  `HeartbeatStops`: the branches of the `select`; `"unarmed"` is the loop after the
  `continue` that does not set the timer.
* `HandleHeartbeatResult` and `TryAgain` are `handle_heartbeat_result` and `reconnect`
  with all they call. `ReconnectFailed` never stands alone: `reconnect` follows in the
  same update.
* `TaskKills`, `TaskConnects`, `TaskResynced`, `TaskFails`, then `TakeConnected` or
  `TakeFailed`: the reconnect task, and the task that takes in its result only if the
  client is still reconnecting.
* `Shutdown`, `ShutdownEnds`, `ForceHeartbeatTimeout`, `ForceHeartbeatTimeoutIgnored`.
* `Answer`, `ProxyEnds`, `ProxyFindsNoServer`, `NetworkPartition` are the world.

`ConnectionStatus` is the connection as a window sees it.

### ChatTurn

One `POST /chat`. The worker, `run_turn` and `chat_sse` are three tasks; `stream` and `session` are
the channels between them, of `Capacity` places. A call is the number of its request and its number
there. `messages` is the conversation, as roles and calls; `sse` is what the client was sent;
`saved` the session file, which may be damaged to begin with, and `isUuid` whether the thread id is
one under which it is loaded. After `finish_reason` the worker drains its calls (`WorkerFinishes`,
`WorkerDrains`) and reads on (`AfterDrain`), so that text and further calls may follow.
`WorkerBreaks` is a request or an answer that fails without an event: the code logs it, and
`run_turn` asks again (`Request`, from `"receiving"`). `Save` may leave the file as it was, write
it, or leave it torn. `chat_sse` ignores errors of its own sends, so a client that has gone changes
nothing.

### Peer

One connection. `responses` and `streams` are the two tables, each an `Option` behind its
own lock: `Taken` is the `None` that `handle_io`'s end leaves. `io` says how far that end
has come (`TakeResponses`, `TakeStreams`, `RemoveConnection`, `DropChannels`), and callers
go through `Find`, `Register` and `Emit` in between. `reader` is the task that drives the
incoming stream; an answer a caller has not taken from its `mailbox` is the barrier it
waits at. Callers may be dropped at every await (`Drop`). `Requests` is what a caller may
rely on: one outcome each, an answer only if given, a failure only when the connection is
over, and then an outcome for all. `EveryRequestEnds` is the refinement, liveness included.

### ServerLifecycle

The proxies and servers of one identifier. `files` are the pid file (a pid) and the three
sockets (whoever bound the path last). A proxy is `execute_proxy`: read the pid file, check
the process, then refuse, connect, or kill, remove each file and spawn. A server is
`execute_run`: its pid file is removed and written, its sockets are bound one by one, it
accepts its first streams within a time, serves them, accepts others, and exits when idle. `Die`,
`KillProxy` and `Cut` may happen at every step. `crowded` notes that a proxy was started
while another, or a server, was starting: nothing locks the files, and then two servers,
streams that lead to different ones and false refusals do occur.

### Terminals

`TerminalManager`'s sessions with a shell each, and the WebSockets. A bridge is `PtyBridge::spawn`
(which waits for the two others), the blocking reader and the writer that owns the socket, with a
channel of `Capacity` between them. The lock of the manager is held for single steps, so a session
may be deleted between `connect`'s check and the `unwrap` in `spawn`; a bridge whose `dup` fails is
`"starved"`. Both panic (`Bridge`). `output` is what the terminal holds unread. A read that finds
nothing fails, since the descriptor is non-blocking, and ends the reader.

### AgentThread

`turn[t]` is the task and the locals of turn `t`; `messages`, `pending`, `running` and
`inputs` are the thread's fields. A step is what a task does between two awaits, since all
run on the foreground. `Flush` is `flush_pending_message`, which fills in results for tool
uses that have none. A new turn flushes, cancels its predecessor and goes on at once; the
detached rest of `cancel` (`LateFlush`) flushes again when the old task has ended. Streams
may fail, refuse, run out of tokens or break off inside a tool's input; the errors are
retried up to `MaxAttempts` after a delay, or by a fallback model. The use of a tool may come
in parts (`PartialUse`) before it is whole (`WholeUse`). Each event of it starts the tool, feeds
one that waits for input, does nothing, or is answered at once with an error (`Refuse`: an
unknown tool, an input that does not convert, a restricted workspace). `tool` has a slot for
the answers at once and two for runs, the second of which should stay empty.

### ActionLog

One buffer. `tracked` is its `TrackedBuffer` or `Untracked`: status, content before
creation, `base` (`diff_base`), `unreviewed`, `snapshot`, whether the version is behind the
buffer's (`edited`), the queue of updates and where the task stands (`job`). The text is a
few spots, each with one of a few texts, whose edits never touch: rows do not shift and
hunks do not merge. `TrackEdits` and `KeepCommitted` start a job, `Show` ends its first
wait (the diff the user sees) and `Finish` the second (base, snapshot and unreviewed
edits). `agreed`, `touched` and `raced` are history: texts the user stands for, spots with
something of the agent's that is not kept, and whether a keep fell into a job.

## What is checked

Passing runs:

| Run | Instance | Shows |
|---|---|---|
| `ChannelClient_resync` | one stream, one unknown request, the ping; two connections | Over a cut that falls anywhere: `NothingLost`, `AnswersAreGenuine`, `AnsweredOnce`; both ends implement `AtLeastOnce`; `EveryRequestIsAnswered` |
| `ChannelClient_connected` | one connection, two background threads at each end, a stream of two items | `StreamsAreWhole` although ids are drawn out of order and arrive so |
| `ChannelClient_retries` | a message each way, three connections | repeated resyncs and timeouts still deliver |
| `RemoteClient_states` | three connections, two attempts, three misses | the connection's invariants, `OnlyShutdownPanics`, `LossIsNoticed`, `ShutdownStopsProxies`, and the refinement of `ConnectionStatus` with its liveness |
| `ChatTurn_run` | two answers with two calls each, text anywhere among them, one break, channels of two; a thread id that is a UUID or not | the events, results, tools, file and end of a run |
| `Peer_connection` | a request, a stream, four envelopes, channel of two | `HandledInOrder`, `StreamsAreToldTheirEnd`, the refinement of `Requests` |
| `ServerLifecycle_host` | three proxies, two servers | on a host that is not crowded `OneServer`, `StreamsLeadToOneServer` and `CalmRefusalsAreTrue`; on any, `NoServerIsLeft` |
| `Terminals_bridges` | two sessions, two sockets, channel of one | `NothingIsLeftBehind`, `EveryBridgeIsJoined` |
| `AgentThread_followup` | two turns, a call each, a retry, a cancel | `OneTurnRuns`, `OneStopEach`, `ToolsAreAnswered`, `RefusalSparesOthers`, `EveryTurnEnds` |
| `ActionLog_review` | two spots, five calls | `BaseIsAgreed`, `OnlyAgentsEditsAreReviewed`, `NothingIsOverlooked` |

Every module states its type invariant `TypeOK`, and each is proved (`TypeCorrect` of the module of
proofs). `RemoteClient`'s is also checked in its run; the others hold on the same instances, but no
run spends a mutant on them.

Violation runs, each a disagreement between the code and a comment in it (quoted in
`PROJECT.json`):

| Run | Violates | Where |
|---|---|---|
| `AgentThread_race` | `NewTurnKeepsItsMessage`: the detached rest of `cancel` flushes the message that the new turn is receiving | `agent/src/thread.rs:2340` |
| `ActionLog_created` | `OnlyTheAgentsIsDeleted`: after the user edits a new file and the agent reads it, a reject deletes it | `action_log/src/lib.rs:765` |

### Known oddities

Behaviour the models have and the properties leave out, each by the condition named.

* `ChannelClient`: `NothingLost` is true of one cut with foreground senders. With two cuts the
  second resync skips an id that the cumulative acknowledgement then covers (:159), and with one
  cut and a background sender an id is drawn before the cut and kept after it (:410): both lose a
  message. `StreamsAreWhole` holds only while the connection does, since after a reconnect the end
  of a stream overtakes its resent items (:181). `max_received` starts at 0, so an end that has
  received nothing acknowledges id 0; a ping or resync that times out leaves its response channel
  behind.
* `RemoteClient`: in the 50 ms of a shutdown a heartbeat's result meets no state and panics (:513);
  `force_heartbeat_timeout` leaves no state behind (:721); a proxy that exits while a connection is
  being established, and a connection that goes silent after an answered ping with nothing received
  since, are noticed by nobody (:558, :490), which `WatchedLoss` excludes. `Disconnected` may still
  be emitted after a shutdown.
* `ChatTurn`: after an answer broke off, `TOOL_CALL_END` names a call that never ran, which is why
  `ResultsMatchCalls` is claimed for unbroken answers only. Text that follows an answer's calls
  opens a message, and `TOOL_CALL_END` then arrives inside it, since that arm (`chat.rs:410`) closes
  none: `EventsAreBracketed` asks only that it comes after its start. The session of a thread
  whose id is not a UUID is not loaded (`chat.rs:316`) but saved (:442), so that a conversation of
  the command line, which takes any id, is overwritten: `SavedIsWhole` claims growth for UUIDs.
* `ServerLifecycle`: on a crowded host two servers run side by side, a client is told that its
  server is not running while that is between removing a pid file and writing its own, and a
  proxy's streams are split over servers.
* `Terminals`: the reader ends at the first read that finds nothing (:181), so a silent shell's
  later output is not sent; a shell that exits leaves its session listed and its socket open; two
  sockets of one session share its output between them; `connect` panics if the session is deleted
  before `spawn` (:169), and so does a bridge whose `dup` fails (:171): before the writer is spawned
  that would remove the session of an attached socket, so that this stays listed with its shell,
  which `NothingIsLeftBehind` leaves out.
* `AgentThread`: a turn that is cancelled while its tools run still sends one more request (:3099);
  a retry's timer may win against the cancel; `message_ix` points at the old answer when that is
  flushed before it; the old turn drains the new one's streaming tool inputs. A cancelled turn that
  is still ending flushes, itself, what is pending (:3104) or starts a message over it (:3436), and
  may so end the new turn's message early, apart from the late flush that `AgentThread_race` shows.
  A use that is answered at once may be answered again at its next event, and beside a tool that an
  earlier event of it started; the last answer stays.
* `ActionLog`: a keep made while a job runs is overwritten by the job's older base, and what was kept
  is under review again (`raced`). An undone reject counts as the user's edit, so what it brings back
  is not reviewed any more, and so does an agent's edit of a buffer that is not tracked.

### Bounds

* `MaxConnections`: a cut is interesting with what came before it, so two connections show all that
  one cut does, three all that a cut during the recovery from another does. `RemoteClient` needs
  three to have a first connection, a failed and a good reconnect.
* `Sends`, `StreamLength`: one of each kind that can overtake another.
* `Background`: two threads at an end are the least that draw ids out of order with each other.
* `MAX_MISSED_HEARTBEATS` (5 in the code) and `MAX_RECONNECT_ATTEMPTS` (3): at 3 and 2 there is a
  count between the first and the last. The proofs cover every value.
* `ChatTurn`: `Capacity` 2 (64 in the code) fills up within one answer, so that each task waits for
  the next. `MaxRounds` 3 gives two rounds of tools; a model that calls tools for ever has a run that
  never ends, and the code sets it no limit. `MaxBreaks` 1: the same holds of a provider that breaks
  off every answer.
* `Peer`: one request and one stream share the connection and its two tables, which is all that two
  callers have in common; four envelopes fill the channel of two while one is handled and one waits.
* `ServerLifecycle`: three proxies are one that connects, one that replaces it and one that comes
  between; two servers are an old and a new one. `MaxCrowd` 2 bounds how many proxies a crowded host
  sees, where only `NoServerIsLeft` is claimed.
* `Terminals`: two sockets can meet at one session, two sessions keep them apart; a channel of one
  (1024 in the code) is full at once, and `MaxOutput` 2 is one piece more than it holds.
* `AgentThread`: two turns, since a turn shares the thread with its predecessor only; one of each of
  retry, tool call and cancel, and one "extra" (a resumed turn, a further request, or an event with
  part of an input). Longer sequences are more of the same pairs. A second run of a call is in the
  model, so that it can be denied; a third is left out. `AgentThread_race` needs no extra.
* `ActionLog`: two spots tell a review of one hunk from that of all; five calls reach create, save,
  edit, reject and undo, with all the jobs between.

### Fairness

* `ChannelClient`: the executors run every task that is ready, so receive tasks, handlers,
  consumers and half-done sends move on; pipes deliver while a connection works; the server
  notices a dead connection and accepts the next; `RemoteClient` reconnects. A resync on a
  dead connection times out. Weak fairness suffices, since none of these is disabled again
  and again by another. Sends, cuts and dropped streams may happen or not. `Reconnect` is
  fair because `MaxConnections` bounds the cuts: a host that can never be reached again is
  `RemoteClient`'s subject.
* `RemoteClient`: tasks that are ready run and timers fire. Nothing is assumed of the network,
  of the proxy or of the user: a heartbeat's ping is answered or missed, an attempt succeeds
  or fails. The arrival of traffic (`HeartbeatActivity`) is not fair, which is what lets a
  silent connection show.
* `ChatTurn`: the three tasks run. The provider goes on with its answer, ends it or fails:
  reqwest is given no timeout, so a provider that stalls for ever stalls the run. Tools
  return.
* `Peer`: tasks that can run do. The other side may never answer, the connection never fail,
  a caller never call.
* `ServerLifecycle`: a server that is alive goes on and its idle timer fires. Proxies, deaths and
  cuts are free.
* `Terminals`: the tasks of a bridge run when they can.
* `AgentThread`: a turn's task goes on, its stream and its tools come to an end; a tool that waits
  for the rest of its input does not by itself, which is what `EveryTurnEnds` is about. Its form,
  that no turn is under way again and again, is that of every turn's end where turns are bounded.
  The late flush needs no fairness: no turn waits for it.
* `ActionLog`: none, its properties are safety.

Deadlock is not checked: in every module the program may come to rest, when all was sent and
answered, the client was shut down, the run is over, or the bound on calls is reached. Where it
may not, a liveness property says so.

### Mutants

`PROJECT.json` names for every property of a passing run a change of a definition, of the kind
a slip in the code would make (`<` for `<=` in the acknowledgement, the response channel read
but not removed, the state not compared before a result is taken in, the text message left
open). With the change TLC finds the property violated. The changed forms stand before the
definitions they replace and are used by no action.

## What is proved

Every safety property that a passing run checks is a theorem, for every value of the constants. The
assumptions are the named ones of the modules: bounds are natural numbers, with at least one connection,
one heartbeat to miss and one place in a channel, and the constants that stand for nothing (`None`,
`Nothing`, `NoRequest`) are none of the ids, names or callers they are used beside. In none of the proofs
are the sets of callers, sessions, sockets, proxies or servers assumed to be finite.

Two theorems of `ChannelClient` assume more, because without it the code does not keep what they say (see
"Known oddities"): `NothingLost` at most two connections and no background sends, `StreamsAreWhole` one
connection. Both leave open what is sent, how often, and how long the streams are.

Each module `XProofs` proves what is to be said of `X`: first the types, since the other proofs rest
on them, then one lemma for each step that could disturb a conjunct of the inductive invariant, the
lemma that all steps keep it (`...Step`, `Inductive`), and the theorems.

### RemoteClientProofs

`TypeCorrect`, and `OneReconnectTask`, `OneLiveProxy`, `MissCountsAgree`, `AttemptsAreBounded`,
`DisconnectedOnce` and `OnlyShutdownPanics` as invariants of `Spec`.

None of these is inductive by itself. That one proxy runs at a time depends on who owns which
connection: a reconnect task drops its predecessor's tasks only if it can get at them. The
inductive invariant `IInv` therefore says who can own a connection and when:

* the owners of a connection are the state (`Owns`), a reconnect task, `shutdown_processes`
  (`closing`) and `RemoteClient::new` (`Held`), and whatever of a connection is alive, its io
  task, its monitor or its heartbeat, has an owner (`AliveIsHeld`);
* the owners exclude each other: `NewIsAlone`, `OwnsAlone`, `ClosingAlone`, `OneReconnectTask`.
  Lemma `HeldOnce` draws the conclusion that at most one connection is held;
* a task's count bounds the tasks started since the client was connected, and the heartbeat
  of a connection it has not handed over does nothing yet (`TasksAreSound`);
* connections that are not made have nothing (`Unmade`), so that making one adds one;
* after a Disconnected event there is no monitor left and no task that could give up again
  (`DisconnectedIsLast`).

`TryingAgainKeepsIInv` and `HandlingKeepsIInv` are the lemmas for `reconnect` and
`handle_heartbeat_result`, which several actions call.

`StatusTakesNoOtherWay` is the refinement of `ConnectionStatus` without its liveness: with one more
invariant, that the state is no longer `Connecting` when `new` is over (`NewIsOver`), every step of
the state (`StateStep`) is shown as a step of the status or not at all.

### ChannelClientProofs

`AnsweredOnce` and `AnswersAreGenuine`, for any number of connections, cuts, background senders and
items. An end uses an id for one envelope only, and what it resends is what it sent. The invariant
`Inv` follows ids through the system:

* an id that was drawn is used for one kind, whichever of the three steps of sending has been
  reached (`Sendings`, `Ids`);
* every envelope in a queue, in a pipe or in a buffer is what its sender used its id for, and
  every reply names a request of the fitting kind that the replier has dispatched (`Right`);
* handlers run for requests that were dispatched (`Handlers`), and channels wait for what they
  were opened for (`Channels`);
* the channel of an answer that was given is gone (`Given`), which is why there is no second one.

Each step is `Proper`: at each end it uses at most the next id, opens channels for that one only,
starts handlers only for what was just dispatched, and sends nothing that is not `Right`. One lemma
per action says so; that proper steps keep the invariant is shown once. `DeliveryStepByStep` is the
refinement of `AtLeastOnce` without its liveness.

`NothingLostOverOneCut` is `NothingLost` for `MaxConnections <= 2` and no background sends. Its
invariant `NothingIsLost` adds to `Inv` what is true throughout (`Basics`: no send is
half-way, only what was sent is received, and id 0, which an end acknowledges before it has received
anything, is received by the time that anything is) and the phase of the connection:

* `First`, up to the cut: what was sent is received or in the queue (`Settled`), in order (`Ordered`), and in
  the buffer unless it was received (`Stored`); an acknowledgement covers only what was received (`Acked`).
* `Broken` and `Again`, until the editor asks: both ends are `Stored`, whatever was taken from the queues.
* `Asking(k)`: the Flush is the k-th envelope to the server. What the server takes before it is in order,
  and no acknowledgement up to it goes further than what was received, so the server resends all.
* `Replying(k)`: the answer is the k-th envelope to the editor. All of the server's is `Settled`, and the
  acknowledgements ahead of the answer go no further than what was received, so the editor resends all.
* `Over`: everything is `Settled` again, and stays so since there is no second cut. The order is lost, which
  is why a second cut would lose envelopes.

A step that an end makes, whichever it is, has the shape `EndStep`: it takes an envelope or none, drops
from its buffer what that acknowledges, and puts one new envelope or resends. One lemma per action shows
the shape, and one per phase that it is kept.

`StreamsAreWholeUntilACut` is `StreamsAreWhole` for as long as the first connection lives, for any constants,
background sends included; `StreamsAreWholeOverOneConnection` is the corollary where there is no other. The
invariant `StreamsHold` says of every stream that its consumer still waits for that

* what the consumer got, what is on its way and what its handler counts continue each other (`Streaming`):
  before item n there are the items 1 to n - 1, got or ahead of it in the queue, and before the end all;
* an id is in the queue, drawn for a send that is not yet out, or received, one of the three (`Fresh`), so that
  a request arrives once and there is one handler for it. After a reconnect it may arrive again, and a
  second handler starts anew.

### ChatTurnProofs

`CallsRunOnce`, `NothingUnanswered`, `SavedIsWhole`, `EventsAreBracketed` and `ResultsMatchCalls`, for
channels of any capacity. All rest on `Basis`: the three tasks take turns although channels are
between them (`Stages`: `run_turn` runs tools only when the stream is empty and the worker gone),
and an answer is text and calls, in any order, then its end, all of the latest request (`OfTheRound`).

* `CallsRunOnce`: calls that wait, in the worker, in the stream or in `run_turn`, are `Distinct` and
  no longer buffered (`Drained`), and a call with a result waits nowhere (`RunOnce`).
* `NothingUnanswered`: a call that was announced is `Accounted` for: of an answer that is whole, or may
  yet be, it has its result or waits for it.
* `SavedIsWhole`: the conversation goes on from the one loaded (`Begun`), which is the file's if the
  thread id is a UUID, has the result of each `ToolResult` on its way, and the model's last word when
  `Done` is on its way (`Kept`).
* `EventsAreBracketed`: `inMessage` tells whether the events so far leave a message open
  (`Brackets`), and what waits for its `TOOL_CALL_END` was announced (`Announced`). Results may find a
  message open, since the model may say something after its calls.
* `ResultsMatchCalls`: `chat_sse` pairs results with calls by counting. Number the calls of the run in
  the order made; then those shown, those told of and those left to be run are stretches of one
  list, and the m-th result is the result of the m-th call (`Counted`, by two counting functions
  that the invariant asserts to exist). An answer that breaks off breaks the numbering, which is
  where the oddity above comes from.

### PeerProofs

* `StreamsAreToldTheirEnd`: a stream that goes on has its end coming (`EndIsComing`): in its channel, in
  the table, so that the end of the connection will tell it, or in the reader's hands.
* `HandledInOrder`: while an answer waits in a channel the reader waits for it or has left, so at most
  one envelope is between being read and being handled, and it is later than all that was handled
  and earlier than all that is still to be read (`OneWaits`, `WaitingIsNext`, `ReaderIsNext`,
  `IncomingIsLater`).
* `RequestsStepByStep`: what a caller is given was sent or says that the connection is over
  (`ChannelsAreGenuine`, `ToldIsGenuine`), and as long as it is not over an answer is on its way for
  each request that waits (`AnswerIsComing`). With these each step of the connection is one of
  `Requests`, or changes nothing there.

### ServerLifecycleProofs

`OneServer`, `StreamsLeadToOneServer` and the action property `CalmRefusalsAreTrue`, for any number of
proxies, servers, deaths and cuts. Of a crowded host only the types are claimed; else (`Calm`) at
most one proxy is on its way to a server, and only waits while one starts (`OneIsBusy`,
`StartIsAwaited`), the files are those that the one server alive has made so far
(`FilesAreOfTheServer`), the pid that was read is still in the file (`PidIsRight`), and when a server is
spawned none is alive and every file left is among those that are removed first (`WayIsFree`).

### TerminalsProofs

`NothingIsLeftBehind`: a session made for a socket goes through its states no slower than the
socket's bridge, unless that is starved (`SessionKeepsUp`).

### AgentThreadProofs

* `OneTurnRuns`, `OneStopEach`: `TurnsAreKnown`. A turn that is under way and not cancelled is the one
  that the thread knows, and what a turn has told its client follows from where it is (`Told`).
* `RefusalSparesOthers`: what users said after the index that a turn remembers is that turn's own
  message (`CutIsRight`), whatever was flushed in between.
* `ToolsAreAnswered`: a flush fills in what has no result (`UsesAreAnswered`). That a tool that ran
  is not said to be cancelled is true while no turn was cancelled (`Calm`), and needs to know of
  each tool how far its turn has come (`CalmTurns`), for its run and its answers at once alike: what
  is pending belongs to the turn that runs, a tool's end reaches the pending message before the turn
  flushes it, and a use in the history is `Closed`.

### ActionLogProofs

`BaseIsAgreed`, `OnlyAgentsEditsAreReviewed` and `NothingIsOverlooked`, for any number of calls. The texts
that `maintain_diff` has still to follow form a chain, from what it has seen, through its queue, to
the buffer. A link is the user's, and what it changes is agreed (`UsersLinks`), or the agent's, and
what it changes is touched (`AgentsLinks`). What a job is working out is agreed and touched likewise
(`Bases`, `Reviewed`), what it has seen of the agent's is up for review (`Covered`), and what it shows is
what will be up for review when it is done (`Drawing`, `Shown`).

### Only model-checked

* Liveness: `LossIsNoticed`, `ShutdownStopsProxies`, `EveryRequestIsAnswered`, `EveryRunEnds`,
  `NoServerIsLeft`, `EveryBridgeIsJoined`, `EveryTurnEnds`, and the liveness halves of the refinements
  `StatusIsAsShown`, `DeliversAtLeastOnce` and `EveryRequestEnds`. The provers do not reason about
  fairness.

## What is not modelled

* The contents of envelopes, texts, tool arguments and results; compression and framing.
* The wrap of the u32 ids after 2^32 envelopes.
* Requests that a user cancels, other than dropped streams; the application's own retries.
* In `ChannelClient`, the attempts of `RemoteClient`; in `RemoteClient`, the envelopes. The one
  is the other's environment: cuts and reconnects here, answers there.
* In `ChatTurn`, other runs and programs on the same session file, clients that send the history
  again, and the ids of Ollama's calls.
* In `Peer`, `reset`, `teardown` and `forward_send`; timers are failures at any time.
* In `ServerLifecycle`, pids that the system draws again, and the spawn on Windows.
* In `AgentThread`, compaction, titles, usage, subagents, checkpoints and permissions.
* In `ActionLog`, the arithmetic of rows and hunks that touch, linked logs and read times.
* The components listed as not modelled in `PROJECT.json`, with the reasons there.
