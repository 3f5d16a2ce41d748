# Formal models of GxProxy

GxProxy is a TCP proxy written on libuv. A client connects, sends packets that
end in `\r\n\r\n`, and with `@!PROXY <ip> <port>` asks for a connection to a
target server; from then on its packets are forwarded there and the target's
packets come back to it. This directory holds TLA+ models of the program and of
the library it comes with, configurations that check them with TLC, and proofs
checked by TLAPS.

Every definition is translated from the source; paths below are relative to
`src/`. `PROJECT.json` says which lines each definition stands for.

## 1. The system

### Components

| Component | Source | State it keeps | Operations | Module |
|---|---|---|---|---|
| Connection-record pool | `GxProxy/myClient.cpp:353-364`, `LibXs/SafeContainer.h:84-123` | `clients`, a vector of `conn_rec*` that are not in use | `NewConn`, `DeleteConn` | `ConnPool` |
| Listening side `CxMyServer` | `GxProxy/myServer.cpp` | the listening handle; one `uv_tcp_t` and one `uv_shutdown_t` in each `conn_rec` | `Listen`, `Run`, `connect_cb`, `read_cb`, `shutdown_cb`, `close_cb`, `wait_for_while` | `GxProxy`, `GxService` |
| Client session `CxTcpClient`/`CxMyClient` | `GxProxy/myClient.cpp` | `m_socket` (online when > 0), `m_input`, `m_proxy`, `handle` | `Recv`, `OnTcpRecv`, `DoCmd`, `SendPto`, `Send`, `SetFD`, `Close` | `GxProxy`, `GxService`, `Framing` |
| Upstreams `CxMyProxy`/`CxTcpClientProxy` | `GxProxy/myProxy.cpp` | `proxyConns`, the objects ever made; in each `m_socket`, `cli`, its `uv_tcp_t`, its `connect_req` | `createClient`, `Open`, `Close`, `Recycle`, `OnTcpSend`, `OnTcpRecv`, `connect_cb`, `write_cb`, `read_cb`, `shutdown_cb`, `close_cb` | `GxProxy` |
| Commands | `GxProxy/myCmd.cpp` | none of their own | `@!PROXY`, `@!PROXY CLOSE`, `@!VER`, `@!SHUTDOWN`, `client` | `GxProxy`, `GxService`, `Framing` |
| Service life cycle | `GxProxy/main.cpp`, `GxProxy/myServer.cpp:191-301` | `App_ServiceStatus` | `OnStart`, `Run`, `Shutdown`, `OnStop` | `Lifecycle`, `GxService` |
| Packet framing | `LibXs/XNetBuffer.h` | `data`, `_rpos`, `_wpos` | `write`, `getChunkEMark`, `WritefixEMark2` | `EMark`, `Framing` |
| Tokenizer | `LibXs/XString/XStringEx.cpp` | none | `ParseString`, `TokenClear`, `operator[]`, `GetValueStringByIndex` | `EMark` |
| Log | `LibXs/XLog.cpp`, `.h` | `m_tail`, `m_bDestory`; a writer thread | `printf`, `writeToDisk`, `SetEnableToFile`, destructor | `XLog` |
| Blocking client | `LibXs/XTcpClient.cpp`, `LibXs/xnet.cpp` | `sk`, `m_socket`, `m_connected`, `m_input` | `Connect`, `Step`, `Send`, `Disconnect` | `XTcpClient` |
| Windows service | `LibXs/XServer/ServiceWin32.cpp` | `m_status`, `m_hStoppedEvent` | `Start`, `Stop`, `Pause`, `Continue`, `Shutdown`, the worker thread | `WinService` |
| Configuration | `GxProxy/myConfig.cpp`, `LibXs/config.h` | attribute map | load, get, set | - |

The rest is helpers (`Singleton.h`, other string code), third-party code
(tinyxml2, UTF-8 tables, libuv headers and binaries), `PosixDaemon`, and empty
stubs (`myMQ`, `LibXsMQClient`). `main` returns at `main.cpp:66`, so that today
neither the daemon nor the Windows service is entered; and nobody in the
repository turns the log file on. Log, blocking client and Windows service are
therefore modelled as the library offers them to a caller.

### Interaction

Everything in the proxy itself runs in callbacks of one libuv loop:

    client  --read_cb-->  Recv -> OnTcpRecv -> DoCmd     -> createClient, Open
                                           \-> m_proxy->SendPto -> OnTcpSend -> uv_write
    target  --read_cb-->  Recv -> OnTcpRecv -> cli->SendPto -> uv_write
    idle    --wait_for_while-->  App_ServiceStatus == 0 -> Shutdown -> uv_walk

Two pointers tie the halves together: `CxMyClient::m_proxy` (where a client's
packets go) and `CxTcpClientProxy::cli` (where a target's packets go). They are
set at different times - `cli` by the command, `m_proxy` when the connect
completes - and cleared at different times: `m_proxy` by `@!PROXY CLOSE` and
`SetFD(-1)`, `cli` never. Objects on both sides are reused: records through the
pool, upstreams by `createClient`, which takes the first that is not online.

`main_server` is `OnStart`, `Run`, `OnStop`. It ends when the idle handler finds
`App_ServiceStatus` 0 or a client sends `@!SHUTDOWN`; both close every handle of
the loop. As a Windows service it runs in a worker thread, and the control
handler and the worker talk through `App_ServiceStatus` and an event.

### What is hard

* The order of callbacks: a connect that completes after the client has left, a
  target that closes before or after its client does, an EOF that arrives while
  a shutdown is pending, a write cancelled by a close.
* Reuse: a record, an upstream, an input buffer or a descriptor number keeps
  something of its previous life.
* The pool's `safe_pop_front` returns a reference into a vector it has changed.
* Assertions as error handling: `uv_shutdown` failing, a write failing.
* The end: closing handles in the middle of connects, writes and shutdowns.
* Threads without locks: the log's list and file name, `App_ServiceStatus`.
* A stream cut anywhere, and an escape that handles some packets only.
* Lifetimes: buffers on the stack handed to an asynchronous write.

`PROJECT.json` lists these as hazards at their lines, with the properties that
cover them or the reason why none does.

### What makes each component correct

* Pool: a record belongs to one connection at a time. (It does not; what *does*
  hold is stated as `PoolInv` and `ClashNeedsSingleton`.)
* Sessions and upstreams: packets of one client never reach the upstream of
  another; a client's upstream goes down with it; an object taken for reuse has
  nothing outstanding; assertions do not fail.
* Service: a request to stop is noticed whatever the clients do, comes to an
  end, and leaves no handle open.
* Framing: what is written as one packet is read as one packet, however the
  stream is cut.
* Log: lines are written in order and by one thread, and the threads let each
  other go.
* Blocking client: it works on its own descriptor, and knows when it is cut off.
* Windows service: what the SCM is told is so.

## 2. Modules

| Module | Models | Built on |
|---|---|---|
| `ConnPool` | the record pool, with the aliasing of `safe_pop_front` | |
| `GxProxy` | the event loop: listening side, sessions, commands, upstreams | instantiates `ConnPool` |
| `Lifecycle` | what `main_server` promises | |
| `GxService` | start and end of the service around the event loop | extends `GxProxy`, implements `Lifecycle` |
| `WinService` | the Windows service and the SCM | instantiates `Lifecycle` |
| `EMark` | the text protocol and the tokenizer, as operators | |
| `Framing` | one direction of a connection: packets, cuts, buffer, commands | extends `EMark` |
| `XLog` | the asynchronous log | |
| `XTcpClient` | the blocking client and the process's descriptors | |
| `MC*` | constants for TLC | |
| `EMarkProofs` | what the text protocol and the tokenizer do with any bytes | extends `EMark` |
| other `*Proofs` | theorems | the module they are named after; `GxServiceProofs` on `GxProxyProofs`, `FramingProofs` on `EMarkProofs` |

The composition is: `GxProxy` abstracts packets to their effect, and `Framing`
shows which packets arrive; `GxService` is `GxProxy` with a beginning and an
end, and implements `Lifecycle`; `WinService` runs a `Lifecycle` in its worker.
What `WinService` assumes of it under fairness, that a stop is noticed and comes
to an end, is `StopNoticed` and `ShutdownEnds` of `GxService`.

### ConnPool

`pool` is the vector, front first. `fresh` are records not allocated yet,
`live` those of open connections. `Popped` is what `safe_pop_front` returns:
`container.erase(begin)` shifts the elements down *under* the reference, so the
caller gets the element that was second and is now first - and which stays in
the vector. With one element nothing is shifted, and the slot past the end still
holds the erased pointer (a vector of pointers neither clears nor frees it).
`Accept` is `connect_cb` as far as the pool goes and `DeleteConn` is `close_cb`.
When a record in use is handed out, `uv_tcp_init` runs on a registered handle;
the model records that as `clash` and stops.

### GxProxy

State: `cx[c]` is a record (`st` its handle's state, `online` is `m_socket > 0`,
`mproxy`), `px[p]` an upstream (`st`, `shut` a pending `uv_shutdown`, `wq`
queued writes, `online`, `cli`), `pool` the vector above. Upstreams are numbered
in the order of `proxyConns`, which is also the order of allocation, so
`createClient` is "the first that is not online, counting those not allocated".

One action is one callback, with everything it calls. A read callback that
delivers several packets is that many actions in a row; this adds interleavings
in which another callback runs between two packets of one read, all of which can
also arise from two reads.

| Action | Code |
|---|---|
| `ServerConnectCb` | `CxMyServer::connect_cb` |
| `ReadPacket`, `ReadProxyCmd`, `ReadProxyCloseCmd` | `read_cb` with data: `Recv`, `OnTcpRecv`, `DoCmd`, the command, and the forwarding of the packet that follows every command (`DoCmd` returns 0) |
| `ReadProxyCmdUnreachable` | the same, when `uv_tcp_connect` fails at once and `Open` asserts |
| `ReadEof`, `ServerShutdownCb`, `ServerCloseCb` | `read_cb` with an error, `shutdown_cb`, `close_cb` |
| `ProxyConnectCb`, `ProxyConnectFailed` | `CxTcpClientProxy::connect_cb` |
| `ProxyWriteCb`, `ProxyWriteFailed` | `write_cb` |
| `ProxyRead`, `ProxyReadEof` | `read_cb` |
| `ProxyShutdownCb`, `ProxyCloseCb` | `shutdown_cb`, and libuv's completion of a close with the callbacks it cancels |

`fault` is how the process ended. The program asserts liberally and libuv does
too; a model that went on after a failed assertion would describe states that do
not exist. `hung` and `left` are history variables, read by no guard: `hung` are
the upstreams whose target closed while a client was bound to them, `left` those
whose opener has disconnected since. `@!PROXY` on an upstream removes it from
both, unless a client is still bound to its previous life.

libuv is modelled from the way the code uses it, after the unix implementation
of the vendored version (1.11): `uv_shutdown` refuses a handle that is closing
or already has a shutdown pending; a shutdown requested while connecting waits
for the next write; `uv_write` queues, or refuses a handle that is closed; the
end of a close first runs the callbacks of cancelled writes, then of a cancelled
shutdown, then `close_cb`; closing twice asserts.

Abstractions:

* Bytes are left out. A packet is the effect it has on the bindings.
* `proxy_type` is 0. The static `CxMyConfig::proxy_type` has no assignment, and
  the member `CxMyProxy::proxy_type` starts as 0.
* A handle whose connect failed can be initialised again without harm to the
  bindings. In fact its descriptor leaks and libuv's list of handles holds it
  twice; nothing reads that list before the end, and `GxService` looks at it.
* Writes to a client either succeed or find its handle closing. A client that
  resets its connection is seen by the read side as `ReadEof`.
* The program never ignores SIGPIPE (its only `signal` calls are in unreachable
  code). A failed write to a target is modelled as `write_cb` with an error,
  which ends the process just as the signal would; a failed write to a client,
  where only the signal would end it, is not modelled.
* `accept`, `socket` and `malloc` succeed.

### Lifecycle and GxService

`Lifecycle` is a machine of five phases: off, serving, closing, returned, dead.
`GxService` adds to `GxProxy` the state of the loop and of its two own handles
(`core`: the listening and the idle handle), `app` (`App_ServiceStatus`), who
asked for the end (`cause`), and for each handle whether the walk closed it with
a NULL callback (`nullC`, `nullP`).

| Action | Code |
|---|---|
| `Listen`, `SetStatus` | `OnStart`; an assignment of `App_ServiceStatus` by another thread |
| `Callback` | any action of `GxProxy`, while nobody has called `Shutdown` |
| `IdleStop` | `wait_for_while` finding 0: `uv_idle_stop`, `Shutdown` |
| `ReadShutdownCmd` | `@!SHUTDOWN`: `Close` of the client with `close_cb`, the walk, and then the forwarding of the packet, which finds closing handles and takes one side offline |
| `CloseCb`, `NullClosedConn`, `NullClosedProxy`, `CoreClosed` | libuv finishing the closes, with the requests it cancels and their callbacks |
| `LoopEnds` | the end of `uv_run`, the assertion on `uv_loop_close`, `OnStop` deleting the pool |

The walk does not look at what a connection is doing. A client whose EOF was
seen has a `uv_shutdown` pending; cancelled, its callback closes the handle a
second time. An upstream with a queued write runs `write_cb` with an error, and
that asserts. A client that sent `@!SHUTDOWN` while bound to an upstream runs
`SetFD(-1)` in `close_cb`, and `Recycle` shuts down a handle that is closing. So
`@!SHUTDOWN` from a client with a live upstream never ends well. `Doomed` says
exactly when the closing ends in an assertion. Two faults are apart from it: the
walk itself may meet a list that holds a handle twice (`corrupt_walk`, before
anything is closed), and `OnStop` deletes a record twice that the aliasing left
in the pool twice (`double_free`, after the loop was closed).

Abstractions: closing handles finish in any order; further packets in the read
that brought `@!SHUTDOWN` are left out; a walk over a list of handles in which
one occurs twice is undefined, and the model stops there with the fault
`corrupt_walk`; `Listen`'s loop over `bind` goes on until it works.

### WinService

Four threads, each with its place in the code: `svc` (`ServiceMain`, `Start`,
`OnStart`), `worker` (`ServiceWorkerThread`), `ctl` (the control handler, on the
main thread), and `proc` (the main thread after the dispatcher). A step is what a
thread does between two accesses to `m_status`, `App_ServiceStatus` and the
event. `scm` is what the SCM has been told; it decides which controls arrive:
none before the service is running, no stop while one is under way, one control
at a time. This is external and modelled from how the code relies on it.
`main_server` is `Lifecycle`, driven by the worker. `CSampleService` accepts stop
and shutdown; `Accepts` is a constant because the base class takes it as an
argument, and its code for pause and continue is modelled too.

### EMark and Framing

A byte is its value. `Frame(p)` is what `WritefixEMark2` sends for a packet,
with the code as it is: it looks for the mark at `_dat + 1` in every round, so
that it finds it only when it starts at the second byte, and then replaces all
but the last bytes of the packet by coded marks; a carriage return or line feed
in last place is written as `&#13;` or `&#10;`. `Decode` turns `&#n;` back.

`Tokens` are the words that `GetValueStringByIndex` returns of an `XTokenizer`.
`Ends` is the loop of `ParseString`, including the byte that it skips behind a
separator. The loop looks for separators with `strstr`, which sees nothing behind
a byte 0 (`NothingFound`): when only such a byte precedes the next separator, the
rest of the command is one word, unless the loop happens to step over that very
byte. `operator[]` cuts a word at the separator that `m_xendl` points to - which
is the string `_delim` of the constructor, gone by then. `kept` is the choice
between the two outcomes: the bytes are still there, or there is nothing any more
that stands in the word. Then the word keeps its separator, and `TokenClear`
takes it off. That a byte of the word itself has got to that place is not
modelled. A sign in front of a number is left out of `Atoi`.

`Framing` has one sender and one receiver whose object serves one connection
after another. `SendPto` puts a frame on the wire, `Recv(n)` hands the receiver
any number of the bytes on the wire, `TakeChunk` is one round of the loop in
`Recv` up to the delegate, `RecvReturns` its end; `Open` and `CloseCb` are `SetFD`
with a descriptor and with -1. Reallocation of the buffer is left out, and the
other protocol (a length in front, `pto_type` 0), which no caller selects.

### XLog

`printf` runs under the mutex and is one step. The worker's test of `m_tail`, its
file access, and the whole of `SetEnableToFile` run without it and are steps.
`next` is `CxLogLine::next`; a line is its number. `Linked` is the constructor
`CxLogLine(str, m_tail)`: it assigns `m_tail->next` and `m_tail` stays, so a
third line takes the place of the second. `torn` is set when the worker reads
the file name while the controlling thread assigns it: a data race, where the
model stops. `replaced`, `dropped` and `asleep` are history variables: the lines
another took the place of, those detached for a file that did not open, and
where the destructor found the worker.

### XTcpClient

The client keeps two numbers, `sk` and `m_socket`, and the model keeps the
process's table of descriptors in which they mean something. `Connect` sets `sk`
before it looks at the result, and `xnet_connect` says "failed" with 0. `Fails`
collects the ways `select` or `recv` report an error. `OtherOpens` and
`OtherCloses` are the rest of the process, which uses the numbers the client has
let go. `sk` starts with any value: the constructor does not set it.

## 3. Runs

| Run | Question | Bounds | Result |
|---|---|---|---|
| `conn_pool` | what can be said of the pool in spite of the aliasing? | 6 records | holds, 26 602 states |
| `conn_pool_reuse` | does a pooled record belong to no open connection? | 6 records | violated, 7 states |
| `proxy_core` | are bindings and faults as they should be, and is the pool `ConnPool`? | 2 records, 2 upstreams, symmetric in the records | holds, 1.65 million states |
| `proxy_recycle` | does the assertion in `Close` hold? | 2 and 2 | violated, 6 states |
| `proxy_reuse` | is the upstream taken for reuse a recycled one? | 2 and 2 | violated, 4 states |
| `proxy_socket` | is a client's upstream its own? | 2 and 2 | violated, 8 states |
| `service` | does a client that hangs up release what it used, does the service end, and how? | 2 records, 1 upstream | holds, 157 452 states |
| `win_service` | does the SCM know what the server does? | every control accepted | holds, 467 states |
| `framing` | do packets survive the stream? | 2 packets per connection out of 66, any number of connections and cuts | holds, 486 706 states |
| `log` | where are the lines, and do the threads let go? | 5 lines | holds, 25 651 states |
| `log_lines` | is every line saved to be written? | 5 lines | violated, 8 states |
| `tcp_client` | does the client stay on its own descriptor? | descriptors 0..3, 3 connects | holds, 184 140 states |

**Bounds.** Six records let the pool hold several entries while several records
are in use; the aliasing needs two entries and the clash one, and longer vectors
shift uniformly. In `GxProxy` two records are what it takes for one client to
meet the leftovers of another, for both to race for an upstream, and for the
pool to reach the two entries at which it hands out the wrong one; two upstreams
are what it takes for `createClient` to choose between an object still in use
and a new one, and for a client to move from one to the other. Three of either
does not finish in reasonable time; the proofs cover all values. Liveness, and
the end of the service, are checked with one upstream, which both clients then
compete for, because the tableau over two upstreams is too large. Since the
vector never shrinks, an exhausted bound only disables `@!PROXY` until an
upstream goes offline.

`MCFraming` sends packets of up to two bytes out of CR, LF and a letter - the
empty one, for which nothing is written, among them - and longer ones chosen for the boundaries of the code: the mark at each place where
`Head0` treats it differently, packets that end in part of a mark, character
codes complete and cut short, and commands of up to three words with spaces in
every place, with quotes, and with a byte 0 that the tokenizer meets or steps
over. Two packets are what it takes for one frame's end to meet the next
one's beginning; the buffer is empty in between, so a third adds nothing. In
`XLog` five lines fill two lists with more lines than a list keeps. In
`XTcpClient` four descriptors leave room for standard input, the file of the
rest of the process, the client's connection and one that leaked; three connects
are one that fails, one that works, and one after it. `WinService` is finite.

`CHECK_DEADLOCK FALSE` in all runs but `framing`: the process may end (`fault`,
`torn`, `proc`, `phase`), the log may be destroyed, and a pool whose records are
all handed out may stop.

**Fairness.** `FairSpec` of `GxProxy` asks for what libuv does of what it was
asked: a requested shutdown and a requested close complete, a connect ends in
success or failure, a queued write completes or fails. The last is an assumption
about the peers too, and `uv_shutdown` waits for the writes in front of it: a
client or a target that stays connected and never reads would hold its queue, and
with it the record or the upstream, for ever. So `UpstreamFollowsClient` and
`RecordComesBack`, and the theorems about them, hold for peers that take the bytes
queued for them or go away, in which case the write fails. No packet, EOF or new
connection has to happen. One-shot completions need no more than weak fairness,
since nothing but their own callback (or the end of the process) disables them.
`ServiceFairSpec` asks for the same while the loop serves, and adds that the idle
handler runs (it is started once and an idle handle keeps `uv_run` from blocking) and
that the closes of the walk complete. In `XLog` the worker thread is scheduled
and a call that has begun goes on; nobody has to log or to call. In `WinService`
the threads run, and the server does what `service` shows of it. In `XTcpClient`
the program's loop calls `Step` for ever (`test_client_main.cpp:101-112`), which
is all that is assumed: not that data arrive or that the peer does anything.

### Properties

* `PoolInv`, `ClashNeedsSingleton` (`ConnPool`): behind the front of the vector
  there are only closed records, each once; a record in use is handed out only
  when the vector has exactly one element. So the aliasing does no harm while
  two or more entries wait, and the last entry of the vector is the dangerous
  one.
* `Isolation`: unless the target closed under it, the client bound to an
  upstream is the one the upstream was opened for, and the upstream is open and
  not being shut down.
* `FaultCauses`: the two assertions about reuse fail only after a target closed
  under its client, or (for `createClient`) while a connect is under way;
  `write_cb` asserts only for an upstream that was connected; a handle is closed
  twice only if a target closed under its client, or leaves while a shutdown is
  pending of an upstream that its client has let go.
* `TypeOK` of `GxProxy` includes the consistency of each record and upstream: an
  open upstream is never offline to `createClient`, a closed one has nothing
  outstanding, a connecting one has an owner (so `XX_ASSERT(_mcli)` at
  `myProxy.cpp:240` never fails).
* `PoolRefinement`: the event loop implements `ConnPool`, with
  `live` = records whose handle is open, shut down or closing.
* `UpstreamFollowsClient`, `RecordComesBack`: liveness of the clean-up, checked
  within the service, where a stop may come at any moment; the process may end
  instead.
* `FateSealed`, `DoomedDies`: whether the loop closes without an assertion is
  decided by the walk; nothing that happens later changes it; and it does not
  exactly when `Doomed`. Of the two faults that are not assertions neither is
  excluded: `corrupt_walk` precedes the closing, `double_free` follows it.
  `LoopCloses`: `uv_loop_close` never finds an open handle.
* `StopNoticed`, `ShutdownEnds`: a stop is noticed whatever the clients do, and
  comes to an end. `LifecycleRefinement`: `GxService` implements `Lifecycle`.
* `StoppedIsOver`, `EndedUnderRunning`: what the SCM knows is so, with the
  exceptions that the properties name; a system shutdown (`shut`) reports stopped
  whatever the server does, and is one of them. `LostOnlyEarly`, `StopReturns`: a stop is
  lost only if it comes between the report that the service runs and the
  worker's first step, which overwrites `App_ServiceStatus`.
* `CutsDoNotMatter`, `NothingLost`, `NothingHeldBack`: the receiver is a function
  of the stream. `FramesEndClean`, `SentIsDelivered`: what of a packet survives;
  packets with a mark inside do not, and `Clean` leaves them out. `CommandRead`: a
  command with single spaces, no quotes, line ends or bytes 0 is read as its
  words, whatever `m_xendl` points to; a last word of one byte is left out
  (`LastWordIsByte`).
* `Accounted`: a line is listed, with the worker or in the file, or it is one of
  those known to be lost - its file did not open, or a later line replaced it -
  and no line gets lost in any other way. `Separate`, `FileInOrder`: the threads
  do not share lines, in spite of the look at `m_tail` without the mutex.
  `FirstLineWritten`: the head of the list reaches the file. `AsleepWritesAll`: a
  destructor that finds the worker asleep leaves no line behind, with the same two
  exceptions. `FirstNamingSafe`: the race on the file name needs a second call.
  `JoinReturns`: stopping the worker ends.
* `PacketsOfOne`: one input buffer for all connections does no harm.
  `FirstVictim`: the client closes a foreign descriptor only after it has let go
  of its own. `UnseenNeedsStdin`: the use of 0 for "failed" goes wrong only after
  the client has closed standard input; a process that was started with descriptor
  0 closed is not among the initial states. `ResetNoticed`: a reset is.

### Where the code departs from what it says

1. `conn_pool_reuse`: connect, connect, close, close, connect, connect gives
   both new connections the same record (`SafeContainer.h:119`).
2. `proxy_recycle`: the target closes first, then the client sends
   `@!PROXY CLOSE` or leaves: the assertion at `myProxy.cpp:202` ends the
   process.
3. `proxy_reuse`: two `@!PROXY` packets in a row: the second one takes the
   object the first is still connecting with (`myProxy.cpp:93-99`).
4. `proxy_socket`: `@!PROXY`, then leave before the connect completes; whoever
   is accepted into the record next talks to that target
   (`myProxy.cpp:239-241`).
5. `log_lines`: three lines logged before the writer thread wakes up. The third
   takes the place of the second, which is in no list any more, though
   `XLog.cpp:435` says that it is saved into the queue of what is to be written
   (`保存到准备写的队列中`).

Three more disagreements have no run of their own; the properties leave the
cases out:

* A packet that holds the mark arrives as several packets, or, when the mark
  starts at its second byte, mangled. The comment at `XNetBuffer.h:626-629` says
  that the mark in the content is converted; the loop looks for it at one place
  only (`Clean`).
* The last word of a command is lost if it has one byte: `@!PROXY 127.0.0.1 7`
  connects to port 0. The usage at `myCmd.cpp:15` is `PROXY <IP> <PORT>`
  (`LastWordIsByte`).
* A quote right behind a separator is not seen, so that the separators up to its
  partner are not skipped, as `XStringEx.h:311-313` says they are (`WellSpaced`).

Limits of the code that nothing in the repository contradicts:

* `Framing`: `&#` without a `;` swallows the rest of the packet.
* `GxService`: `@!SHUTDOWN` from a client that is bound to an upstream always
  ends in a failed assertion, as does any shutdown while a client's EOF is being
  answered (`Doomed`).
* `WinService`: a stop in the window of `LostOnlyEarly` waits for ever.
* `XTcpClient`: an orderly close by the peer is not noticed (`recv` returns 0); a
  `Connect` that fails leaks its socket and leaves 0 in `sk`, and the next
  `Disconnect` closes standard input.

## 4. Proofs

All theorems hold for every value of the constants, under the assumptions named
in the modules: the null pointer is not a record, packets are sequences of
bytes, bounds are natural numbers, `Accepts` is a set of known controls.

| Theorems | State |
|---|---|
| `PoolTyped`, `PoolSafe`, `ClashOnlyFromSingleton` | `TypeOK`, `PoolInv`, `ClashNeedsSingleton` of `ConnPool` |
| `Typed`, `Isolated`, `FaultsExplained` | `TypeOK`, `Isolation`, `FaultCauses` of `GxProxy` |
| `PoolImplemented` | `Spec => PoolRefinement` of `GxProxy` |
| `ServiceTyped` (of `GxServiceProofs`), `DiesOnlyDoomed`, `LoopClosesAlways`, `FateIsSealed` | `ServiceTypeOK`, `DoomedDies`, `LoopCloses`, `FateSealed` of `GxService` |
| `PromiseKept` | `ServiceSpec => LifecycleRefinement` of `GxService` |
| `LogInvariant`; `LogTyped`, `LinesAccounted`, `NoLineShared`, `WrittenInOrder`, `AsleepLosesNothing`, `FirstNaming` | `IndInv`, and all six invariants of `XLog` |
| `ServiceInvariant`; `ServiceTyped` (of `WinServiceProofs`), `StoppedMeansOver`, `OnlyEarlyStopsAreLost`, `NobodyEndsUnasked` | `IndInv`, and all four invariants of `WinService` |
| `FrameDecodes` (of `EMarkProofs`) | `Decode` undoes `Frame` for every packet that is `Clean` |
| `BufferInvariant`; `FramingTypes`, `StreamIsKept`, `NoPacketWaits`, `CutsAreInvisible`, `FramesAreSelfContained`, `CleanPacketsArrive`, `CommandsAreRead` | `IndInv`, and all seven invariants of `Framing` |
| `ClientInvariant`; `ClientTyped`, `PacketsNotMixed`, `FirstVictimOffline`, `UnseenExplained` | `IndInv`, and all four invariants of `XTcpClient` |
| `RecordsComeBack`, `UpstreamsFollow` | `RecordComesBack`, `UpstreamFollowsClient` of `GxProxy`, of the event loop by itself, under fairness |
| `StopsAreNoticed` | `StopNoticed` of `GxService`, under fairness |
| `JoinsReturn`, `FirstLinesWritten` | `JoinReturns`, `FirstLineWritten` of `XLog`, under fairness |
| `StopsReturn` | `StopReturns` of `WinService`, under fairness |
| `ResetsAreNoticed` | `ResetNoticed` of `XTcpClient`, under fairness |

*ConnPool.* `PoolInv` with typing is inductive once it is known that the front
is the only entry that may be in use; `Popped` moves entry 2 to the front and
leaves the rest behind it, `Pushed` adds a record that was in use and so occurs
nowhere behind the front. `ClashNeedsSingleton` follows: with two or more
entries the record returned is entry 2, which is not in use.

*GxProxy.* `Isolation` alone is not inductive: an upstream that connects becomes
bound, so it must be known that it has no shutdown request from an earlier life,
and a write or a shutdown through `m_proxy` must meet an object that was opened.
`IndInv` adds these as `CleanUnlessHung` and `BoundCreated`. For the causes of
`abort_write`, `CleanUnlessHung` says in addition that an upstream which is
connecting has no write queued. The proof has one lemma per action; actions that recycle share `DetachPreserves`,
those that write share `WritePreserves`, those that change one upstream share
`RowPreserves`, and those that end the process share `CrashPreserves`.

*Refinement.* `ServerConnectCb` is `ConnPool!Accept`, `ServerCloseCb` is
`ConnPool!DeleteConn` unless the process ends in it, and every other action
moves a handle between states that count as in use (`SameUse`) and leaves the
pool as it is.

*GxService.* The invariant of the event loop holds until `Shutdown` is called
(`BeforeWalk`); `GxServiceProofs` takes it from `GxProxyProofs`, as `Callback` is
a step of `GxProxy`. The walk then leaves every record fresh, closing or idle and
every upstream fresh, closing or closed (`AfterWalk`), and what libuv finishes
keeps it so. In such a state no upstream accepts a `uv_shutdown`: a client closed
with `close_cb` that is bound to one dies with certainty, which is the second
part of `Doomed`. One lemma (`ClosingStep`) says of every step of the shutdown
that it dies only if it is doomed and changes nothing about whether it is;
`DoomedDies` and `FateSealed` follow. `LoopCloses` holds because the walk closes
failed upstreams too. For the refinement, `Shutdown` is `Lifecycle!Close` or
`Die`, the end of `uv_run` is `Return` or `Die`, and every other step leaves
`loop` and `cause` alone and so stutters or dies.

*XLog.* Where a line is follows from its age: what is in the file is older than
what is in the worker's list, and that is older than what is in `m_tail`'s. The
invariant (`DataInv`) keeps these three groups apart by their numbers, says of the
lists that they have at most two nodes and end in `NULL`, and that every line is
in one of the groups or lost in one of the two ways; `Separate`, `FileInOrder` and
`Accounted` follow from it or are part of it. When the log is gone and the worker
was asleep both lists are empty, so that `AsleepWritesAll` is `Accounted` for that
case. The other half is the protocol of the threads: the controlling
thread is past the join only if there is no worker, and while it destroys the log
the worker found asleep has yet to detach.

*WinService.* `Reported` says that `m_status` and the SCM agree until STOPPED is
reported, and that no control is handled before RUNNING is; `Told` that the
server's cause fits its phase and `App_ServiceStatus`, and that a stop which
waits for a queued worker came early. With these the stated invariants are
inductive.

*Framing.* The buffer's positions, and its content in relation to the history
`consumed` and `received`. `NothingLost` is the heart of it: a chunk taken and
the rest make up what was there, whatever the bytes are, because `Advance`
drops the buffer only when nothing is left in it. `NothingHeldBack` follows from
the condition under which `Recv` returns and from the clear of the buffer at the
end of a connection.

What the bytes mean is the other half. `Means(u, a)` says that the bytes `u` are
read as the packets `a`, whatever comes behind them. `ConsumedIsDelivered`: the
bytes taken so far mean the packets delivered. `WrittenIsSent`: if all packets
sent on the connection are clean, the bytes received and those on the wire mean
the packets sent. `RestEndsWell`: what is still to be read ends with a mark and,
in front of it, with a byte that belongs to none, so that it is a whole number
of frames. `RanIsRead`: a command was split into the words that `Tokens` finds,
with the separator still there or not; for a command that is `WellSpaced` both
give the words that were written (`WordIs`, `LastWordIs`, `WordsAreRead`).
A receiver that has nothing left has thus delivered what was sent, wherever the
cuts were. Two lemmas carry it: the frame of a clean packet is one chunk, and
the packet is in it (`CleanFrame`); and whatever the packet, its frame ends so
that the next one begins a chunk of its own (`FrameWellEnded`).

The operators of `EMark` are recursive functions, and the prover has no
induction for them. A recursive function `f[s \in S] == e` is the `CHOOSE` of a
function that satisfies the equation, so that `Recursion` and `ListRecursion`
first show that there is one (for what goes from a place to the next, and for
what goes to any later place), and each operator then has a lemma that states
its equation. An induction is on the set of the numbers, or of the places, for
which the fact holds (`SetInduction`, `RankInduction`): the set is a value, where
the library's theorems want an operator.

*XTcpClient.* Bytes in `m_input` come from the connection that `m_socket` is
open on, if it is one that can be read from (`InputOfSocket`); connections are
numbered in the order of `Connect`, so that a new one is on no descriptor
(`Numbered`). Descriptor 0 is standard input until the client closes it
(`StdinKept`). And until the client has taken a descriptor from somebody, the
others have what they opened, and a client in order holds a connection
(`OwnDescriptors`), whose close hits nobody else.

*Liveness.* ENABLED is a word that the prover does not know; a temporal step
can use `WF_vars(A)` only as "again and again A is taken or not enabled". The
theorems about time therefore have one hypothesis besides the fairness,
`GuardsSuffice` (`StopCanRun`, `StepCanFail`): in every state the guard of one of
the actions that fairness is about implies that this action can be taken and
changes something. That is a fact about the form of these actions - each gives
every primed variable a value - and no assumption about the program; with the
constants of the configurations TLC, which can evaluate ENABLED, finds it true
in every reachable state. The rest is proved. One lemma per component says that
a step keeps what is waited for where it is, or moves it to the next stage, or
ends the wait (`ClientMoves`, `UpstreamGoes`, `ResetStays`, and the like for
the worker threads), one that the action of the stage ends it, and the temporal
step puts the stages together. The two theorems about `GxProxy` are about the
event loop that nobody stops; the run `service` checks the same properties with
stops. For `UpstreamFollowsClient` the stages are the
client's shutdown, its close, the shutdown of the upstream and its close; for
`XLog` they are the places in the worker's loop, with the list it holds getting
shorter; for `WinService`, begun, serving, closing, returned, signalled. Where
a thread has to be there for this, that is an invariant of its own (`HasWorker`
of `WinServiceProofs`, `FlagInv` of `XLogProofs`).

Only model-checked: `ShutdownEnds` of `GxService`, whose proof would count the
handles that are left, and an induction over a number cannot be done on temporal
formulas here; that guards suffice, as above; and of course the counterexamples.

## 5. Not modelled

* The life of the buffer given to `uv_write` (`myProxy.cpp:33`,
  `myClient.cpp:226`). `SendPto` passes a pointer into a `CxNetBuffer` on its
  stack. Whether libuv sends the bytes at once is the kernel's choice, and what
  it finds later is whatever the stack holds: no state of these models.
* The limit of descriptors, and the memory of `malloc`: the code asserts that
  they do not run out.
* The idle time-out: `CheckClientOnline` returns at its first line.
* Configuration: the proxy never reads it, and `proc_configure` has no caller.
* `PosixDaemon`: fork, setsid, a pid file; a sequence of system calls that the
  program does not enter. Installing and removing the Windows service likewise.
* The test client, a load generator: it is the caller that `XTcpClient` assumes.
* `Singleton.h`, the message-queue stubs, headers: no behaviour.
* Third-party code: tinyxml2 (4 900 lines), the libuv headers (4 400) with
  binaries whose source is not here, the UTF-8 tables. Together they are about
  half of the lines of the repository. Of the rest, most of `xnet.cpp`,
  `XStringEx.cpp`, `StrUtil.cpp` and `XLog.cpp` are helpers without state or
  without a caller, and most of `ServiceWin32.cpp` is installing, logging and
  reporting errors. The share of lines that the models stand for is therefore
  small, though every part of the program that keeps state has a module.

## 6. What is left

1. The liveness of the service with two upstreams, in a run of its own; its
   safety is proved for any number.
2. `PosixDaemon`'s pid file, should `main` reach it again.
