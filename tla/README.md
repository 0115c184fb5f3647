# Verification of the CFIX gateway

TLA+ modules, TLC configurations and TLAPS proofs about the gateway in this
repository: a Python program that lets TCP and UDP clients (LabVIEW) read and
write the process data of a drive through a Hilscher cifX PROFINET card.
Paths below are relative to `src/src/cfix_api/` unless they start with `src/`.

    tlc -workers 2 -config Channel.cfg MCCifxChannel.tla
    tlapm CifxChannelProofs.tla

## 1. The system

```
 LabVIEW --TCP--> tcp_server | stream_server --+
         --UDP--> udp_server ------------------+--> CifXBackend --> driver DLL --> card <--> drive
 operator ------> main_window, diagnostics ----+      (one lock)
```

One process.  `GatewayRunner` (gateway/server.py) owns one backend, one TCP
server (request/response **or** streaming) and one UDP server.  Every TCP
connection has a handler thread, a streaming connection a second one that
polls, every datagram a thread, and the GUI thread polls the backend with a
timer.  All of them call the same backend object.

| Component | State | Operations | Interacts through |
|---|---|---|---|
| `HilscherCifXBackend` (cifx/backend.py) | `_hdriver`, `_hchannel`, `_lock`, `_last_reopen_attempt` | `open`, `close`, `_call` (+ `_reopen_locked`), nine driver operations | calls of the DLL; called by every thread |
| `MockCifXBackend` | areas, bus and host state | the same, in memory | called by every thread |
| dispatch.py, protocol.py | none | decode, execute, encode | one frame in, one frame out |
| tcp_server.py | `_connection_count` | accept, framing, answer, record | socket, backend, traffic log |
| udp_server.py | none | one datagram in, one out | socket, backend, traffic log |
| stream_server.py | count, two byte counters, a stop event per connection | reader loop, poll loop | socket, backend, event, each other |
| traffic_log.py | ring of 500 events | record, snapshot, clear | handler threads, Diagnostics |
| `GatewayRunner` | backend, two servers, log | start, stop | everything above |
| `MainWindow`, gui_settings.py | config, runner, labels, `gui_config.json` | launch, start, stop, restart, apply, close | runner, file, user |
| auth.py and the login button | `auth.json`, logged in or not | ensure, verify, set | file, user |
| `DiagnosticsWindow` | last throughput sample | refresh, clear | runner, log, counters |

### What is hard here, and what makes each part correct

* **The backend.**  The driver may restart at any moment and make every handle
  stale.  Recovery is three or four DLL calls on two fields inside the lock;
  `open()` and `close()` use the same fields outside it.  Correct means: no
  handle is lost, used after it was closed, or closed while it works; attempts
  keep their distance; the lock is always released; a driver that comes back
  is found; and, above all, clients cannot tell: every call takes effect on
  the card at most once, retried or not.
* **The framed servers.**  Requests are pipelined, frames may be malformed or
  out of step, the backend may fail in the middle of a request, the client may
  go at any point, or stay and read nothing.  Correct means: one answer per
  request, in order; nothing executed from a stream out of step; a log that lists
  what happened; an exact client count.
* **The streaming server.**  Two threads share a socket and a stop event, each
  blocked in a call when the other ends; `join` gives up after a second.
  Correct means: neither outlives the other for long, the directions do not
  block each other, the counters are exact.
* **The lifecycle.**  Starting and stopping are sequences of fallible steps on
  sockets that other programs and other runners also want, while clients come
  and go, and the process may be killed while it saves its settings.  Correct
  means: the status tells the truth, a stopped runner holds nothing, a restart
  gets over a failure that is gone, the window runs what was saved.
* **The byte stream.**  Three framings, with markers that payloads may contain,
  in pieces of any size.  Correct means: each side takes exactly the frames
  that were sent, and what is no frame ends the connection.
* **The windows.**  Timers go on through modal prompts and restarts, and
  `auth.json` is truncated before it is written.  Correct means: the last
  password opens the gate, labels and tables are not of a runner that is gone.
* **The mock backend.**  Only two of its methods take the lock.

PROJECT.json lists each such hazard at its line with the property that covers
it, or the reason why none does yet.

## 2. Modules

| Module | Models | Its state and actions |
|---|---|---|
| `CifxDriver` | cifx/errors.py and the driver API as backend.py uses it | no state: registers, calls, effects, return codes |
| `ProcessImage` | what a `CifXBackend` promises (abstract) | one shared card; per thread a call that is invoked, performed or refused at one instant, and returned |
| `CifxChannel` | `HilscherCifXBackend` with `open`/`close` by its owner | the four fields; per thread a program counter, its call, its answer and the handle it passed; the DLL's open and valid handles; the card |
| `MockBackend` | `MockCifXBackend` under the datagram threads and its owner | the fields and `_areas`, the lock's holder, per datagram a program counter and the iterator of `reset()` |
| `FramedGateway` | `GatewayRunner.start()`'s startup calls, tcp_server, udp_server, dispatch, traffic log, over `ProcessImage` | the main thread's step; per thread the requests read, backend calls to make, response so far; the count; the ring |
| `Framing` | one connection byte by byte: protocol.py, the framings of tcp_server and stream_server, and the example clients' side | per direction the bytes on the wire, per side the reader (what it is in the middle of, what it has), the frames sent and taken |
| `StreamServer` | stream_server.py | per connection the two program counters, stop event, socket; the count, and by how much each byte counter lags |
| `GatewayLifecycle` | `MainWindow` and `GatewayRunner` across launches, gui_settings.py and both dialogs' `apply_to()` | the GUI thread's step, the runners with backend and sockets, who is connected, the settings file and whether it failed this launch or its last write, the outside world |
| `MainWindow` | the login gate, auth.py, prompts, polled labels, the Diagnostics window | the screen, the password file, the two timers, which runner label and tables are of |
| `CifxDriverProofs` | facts about driver effects and return codes that the next two need | |
| `CifxChannelProofs`, `FramedGatewayProofs`, `FramingProofs`, `StreamServerProofs`, `GatewayLifecycleProofs`, `MainWindowProofs` | theorems about the module of that name | |
| `MC...` | small instances | |

`CifxChannel` implements `ProcessImage` (checked and proved); `FramedGateway`
is built on `ProcessImage` (`Image == INSTANCE ProcessImage`, its backend steps
are the image's actions).  So what is shown of requests rests on the atomicity
shown of the channel, and neither model carries the other's state.  Below it,
`Framing` has the bytes that `FramedGateway` takes as frames with a verdict
("ok", "malformed", "desync").  `GatewayLifecycle` takes from `CifxChannel` that
a request on a closed Hilscher backend reopens it (`RequestReopens`, the
behaviour `ChannelClose` exhibits); the three startup calls it skips are
`FramedGateway`'s.  `MainWindow` takes a whole start of `GatewayLifecycle` as one
step that succeeds, fails or ends the application.

### CifxChannel and the code

A DLL call is one step, taken when it returns; between two DLL calls every
other thread may run, and so may the driver service.

| Code (backend.py) | Action |
|---|---|
| a method's entry | `Invoke` |
| `with self._lock: rc = fn()` | `Acquire` (reads `_hchannel`, enters the DLL), `FnReturns` |
| `rc in _RECOVERABLE_HANDLE_ERRORS`, the cooldown test | `Recoverable`, `CooledDown` in `FnReturns` |
| `_reopen_locked`, `open`, `close` | `CloseChannel`, `ClearChannel`, `CloseDriver`, `ClearDriver`, `OpenDriver`, `OpenChannel`, `UndoDriver`, `UndoClear` |
| `else: rc = fn()` | `Retry`, `FnReturns` |
| leaving the `with` | `Release`; `get_status` then makes its second call (`ReadHostState`) |

The three functions share their DLL steps; who runs them (`a = Owner` or a
thread) decides where they lead.  `UndoDriver` is where `open` and
`_reopen_locked` differ: only the latter clears `_hdriver`.  The driver is
"down", "starting" (`xDriverOpen` works, `xChannelOpen` does not) or "up".
`DriverStops` makes every handle stale and may lose the card's state; a handle
that is not valid is answered with one of the two stale codes while the driver
is up, with any error otherwise; `NotReady` stands for every other code.  A call
that fails with it may or may not have reached the card.

What a call may make of the card is `Effects`, a set: a RESET restarts the card,
whose process data survives that or not (`Restarted`), while the mock's zeroes
every area and leaves the bus alone (`Cleared`).  So a RESET may zero the output
(src/tests/test_mock_backend.py, `test_reset_clears_areas`), and so may a card
that restarts by itself (`CardMoves`, `DriverStops`); `Blank` is the content that
is all zeros.  The mock's one buffer for input and output is not modelled here:
there an output is its own echo.

`Lingering` says whether handler threads outlive the owner's `close()`.  They
do in the program (daemon threads, nothing joins them); FALSE is the case of a
gateway stopped when its clients have gone.

### The other modules and the code

| Code | Action |
|---|---|
| server.py `start()`: `set_config_lock`, `set_host_state`, `set_bus_state`, each in its `try` | `FramedGateway`: the main thread's `todo`, `StepReturns`; `open()` and the binds are `OpenBackend`, `BindTcp`, `BindUdp` of `GatewayLifecycle` |
| tcp_server.py `_recv_exact`, the marker and length checks; dispatch.py `handle_frame` | `Framing`: `Receive` by pieces, `DecodeRequest`, `Answer`; `FramedGateway`: the handler's steps, one per backend call |
| tcp_server.py `sendall(...)`, `except ConnectionError` | `Respond`, which waits while the client reads nothing (`Blocked`), `RespondFails` |
| stream_server.py `_recv_ascii_length_prefixed_frame`, `_recv_exact(write_length)` | `Framing`, modes other than `framed` |
| stream_server.py `handle()`, `poll_loop()` | `StreamServer`: `HandlerStep`, `PollerStep`; a write the backend refuses may have reached the card |
| main_window.py `_start_gateway`, `_stop_gateway`; server.py `stop()` | `GatewayLifecycle`: `Construct` ... `StartFailed`, `BeginStop` ... `DropRunner` |
| gui_settings.py `save_settings`, `load_settings` | `Save` (two steps: truncated, then written), `SaveFails`, `Loaded`; a file that is there may not open (`readable`) |
| auth.py `set_password`, `_load`, `ensure_password_set` | `MainWindow`: `Truncate` and `Dump`, `WriteFails`, `Loads`, `NeedsDefault` |
| diagnostics_window.py `_refresh` | `Refreshed`: the table turns to the runner there is; without one the label says so (`says`) and the table stays as it was |
| the two `QTimer`s | `Poll`, `Refresh`, enabled wherever an event loop runs, prompts included |
| backend.py `MockCifXBackend` | `MockBackend`; `reset()` is a walk, one step per area, and CPython raises when the dictionary's size has changed between two of them |

## 3. What the runs check

| Run | Shows | Distinct states |
|---|---|---|
| Channel | handles neither lost, used after close nor closed while they work; mutual exclusion; the cooldown; every call atomic on the card (refinement of `ProcessImage`); the lock always released; a driver back for good is found (liveness) | 226 296 |
| ChannelClose | *violated*: after `close()` nothing of the driver is open | |
| FramedServers | the startup calls over a card that refuses and restarts bring the servers up, on an active card; every request that was read is answered, a pipelined second one too, unless its own client leaves or reads nothing; every connection that can end does (liveness) | 208 150 |
| FramedPipeline | frames of every kind: answers in order; a truthful log of two threads that record while the ring overflows and is cleared; exact count; a sole writer reads back what it wrote, or zeros once a RESET or a restart has zeroed the output | 1 267 501 |
| Framing | each side takes exactly the frames sent, however cut; the i-th response answers the i-th request; every frame, an empty one too, is taken and answered; garbage ends the connection on both sides (liveness) | 265 000 |
| StreamConnection | exact count and byte counters; nothing past a bad prefix; no new poll after the handler; connections end and writes flow (liveness) | 6 538 |
| Lifecycle | Running means serving; new clients find an open backend; a stopped runner holds no port; the window runs what the file holds for the next launch, unless a read or a write of it failed; Restart Gateway works once the cause of a failed start is gone (on Windows); the window never hangs (liveness) | 430 588 |
| RestartRecovers | *violated* where a second `bind()` fails: Restart Gateway after a failed start | |
| LaunchWithBadDll | *violated*: a launch opens the window | |
| MainWindow | the last password opens the gate; labels of the runner there is; labels and Diagnostics follow the runner, or say that there is none (liveness) | 18 009 |
| DiagnosticsReopened | *violated*: an open Diagnostics window turns to the new runner | |
| MockReset | *violated*: one response per datagram | |

Every property of a passing run has a mutant of the code in PROJECT.json, a
change a careless edit could make, under which the run finds it violated.

### Bounds

* `Channel`: two threads and three handles.  A recovery needs the thread that
  recovers and one that interferes or the owner; it holds at most two handles,
  the third is the one a lost handle would need.  A read and a write of one
  register tell answers apart.  `Cooldown` is 1 tick and no client outlives
  `close()`; the theorems hold for any cooldown, any threads and handles, and,
  where section 4 says so, for lingering clients too.  The clock is `elapsed`,
  capped at the cooldown: nothing looks further back.
* `FramedServers`: one connection and one datagram, hence two threads that answer
  and record, next to the one that starts the gateway.  Two requests on the
  connection, since with a client that stalls a request may be waiting behind one
  that is already read: one that may fail in the backend and one that is refused.
  A log of one event overflows.
* `FramedPipeline`: the same threads, every kind of frame, a ring of two events,
  which the exchanges overflow.  Its constraint `Pipelining` names what it leaves
  out: the drive's input and a start that goes wrong, which make no difference
  here; a third request, but for a read-back after a write and either another
  write, which may fail, or a RESET; a datagram other than a RESET, whose effect on
  the connection's responses is the one that matters; clients that stall or
  vanish, which only keep their threads from steps they may take with others.  The
  theorems about the four properties have none of these bounds.
* `Framing`: two frames each way.  The first decides where the reader of the
  second begins; payloads hold the markers and the digits' delimiter; garbage
  comes in each way a reader looks for.  Markers, widths and limits are the
  code's own numbers; frames above the limits are represented by their headers.
* `StreamConnection`: one connection, two frames (one before and one after a bad
  one), a socket window of one push.  Byte counters are kept as what is still
  to be counted (`dueWritten`, `dueRead`), so nothing grows.  Two connections,
  which share the three counters, were checked for the invariants with one frame
  each (1.66 million states), and the theorems have any finite number.
* `Lifecycle`: two runners alive at once, one that runs or was leaked by a
  failed start, and the one that is starting; `RestartRecovers` and
  `LaunchWithBadDll` have three, and with three the safety properties of
  `Lifecycle` were checked as well.  The user's actions wait for a free runner.
  One client, which may stay connected to a runner that was stopped, leave and
  come back.  The theorems have any number of each.
* `MainWindow`: the default password and another one; a runner is "current" or
  "old", which is all the labels and tables can be of.
* `MockReset`: two datagrams and two areas, one to be added while the other's
  reset walks.

### Fairness

* `CifxChannel`: every thread goes on with its call and keeps calling (the GUI
  timer and stream pollers do), the clock runs, `open()` and `close()` go on.
  Nothing is assumed of the driver; `Recovers` has the driver staying up as its
  premise.
* `FramedGateway`, `StreamServer`: the main, handler and poller threads are
  scheduled, backend calls return (`io_timeout_ms`), poll intervals end, TCP
  gives up on unacknowledged data.  Nothing is assumed of clients: one that stays
  and reads nothing holds its own handler in `sendall()`, and
  `EveryRequestAnswered` excuses exactly that, for as long as it lasts: a client
  that reads on is owed its answers again.
* `Framing`: both sides go on reading, the server answers.
* `GatewayLifecycle`: the GUI thread's steps only.
* `MainWindow`: the GUI thread's steps, weakly; the two timers strongly, since
  modal prompts and restarts come in between and Qt serves a timer that has run
  out as soon as an event loop runs again.  Nothing is assumed of the user.

### Disagreements between code and documents

Five runs end in a violation; PROJECT.json quotes the lines.

1. *ChannelClose.* `close()` leaves NULL handles, the next call of a surviving
   handler thread takes the driver's answer for a stale handle and reopens
   driver and channel, which nobody closes any more.
2. *RestartRecovers.* `_start_gateway` drops a runner whose `start()` failed
   without `stop()`.  Mock backend, UDP port taken: TCP already listens; with
   the UDP port free again the restart fails on the TCP port.  On Windows, where
   `SO_REUSEADDR` lets the second `bind()` succeed, `Lifecycle` shows that the
   restart works.
3. *LaunchWithBadDll.* `GatewayRunner(config)` loads the DLL outside the `try`.
   The settings were saved before the restart that failed.
4. *DiagnosticsReopened.* `closeEvent()` stops the refresh timer and nothing
   starts it again: the window, closed and opened once more, shows for ever
   what it showed when it was closed, also of a runner that a restart replaced.
5. *MockReset.* `reset()` walks through `_areas` without the lock; when an I/O
   request adds an area meanwhile, `RuntimeError` passes `handle_frame`, which
   expects `CifXError`, and the datagram gets no response.

The models also have behaviours nothing in the repository promises to exclude,
so no property is stated of them:

* `stop()` closes listeners only, and clients of a stopped runner stay connected
  to its daemon threads.
* The settings file is truncated before it is written, and `load_settings` takes a
  torn one for a first run; so it takes an intact one that it cannot open, whose
  content the next dialog that is applied overwrites.
* In request/response mode no socket call has a timeout: the handler of a client
  that vanished between two requests waits in `recv()` for ever (in streaming mode
  the pushes find out, `ConnectionsEnd`), and a client that stays connected and
  reads nothing holds its handler in `sendall()` for as long as it likes.
* A RESET, or a restart of the card, may zero the output under a client that
  relies on what it wrote.
* After a restart whose start failed, an open Diagnostics window keeps the old
  runner's traffic in its table, under the words that the gateway is not running.
* A card that restarts during or after the startup calls stays dormant: the calls
  are not repeated, and the fallbacks named in the comment there do not set the
  bus state.
* The TCP limit of 64 KiB is below a header with the 65535 bytes a length field
  can name.

Three limits of what the runs show.  `Channel` has no lingering clients: what
`close()` without the lock does to a thread inside a call is the business of
`ChannelClose` and of the theorems that do without `~Lingering`.  `StartupServes`
exempts starts that a failed step or a restart disturbed from the active card.
`MockReset` takes the step to the first area apart from the creation of the
iterator, as CPython 3.9 does; with an area already there the race is the same in
every version.

## 4. What is proved

For any value of the constants, from the named assumptions of the modules
(null values lie outside the sets they complete, zeros are a content, the owner
is not a client thread, the cooldown is a natural number, operations are driver calls, there
are finitely many streaming connections and TCP connections, a connection makes
at least one request and the ring holds at least one event, a request that
decodes carries what its command writes, the default password is a password; of
the byte stream, that requests are what `encode_request` can pack, a length
field holds the length of a malformed frame, garbage is bytes in which the
server finds no frame, a written frame is within `_MAX_FRAME_SIZE` and a block
has the configured length):

| Module | Theorem | Of | Assumes besides |
|---|---|---|---|
| `CifxChannelProofs` | `TypeCorrect` | `TypeOK` | |
| | `MutualExclusionHolds` | `MutualExclusion` | |
| | `ReopensStayApart` | `ReopensApart` | |
| | `NoHandleIsLost` | `NoHandleLost` | `~Lingering` |
| | `NoClosedHandleIsUsed` | `NoClosedHandleUsed` | `~Lingering` |
| | `LiveChannelIsSpared` | `RecoverySparesLiveChannel` | `~Lingering` |
| | `ChannelImplementsImage` | `ImplementsImage` | |
| `FramedGatewayProofs` | `FramedTypeCorrect` | `TypeOK` | |
| | `FramedAnsweredInOrder` | `AnsweredInOrder` | |
| | `FramedLogTruthful` | `LogTruthful` | |
| | `FramedCountIsHandlers` | `CountIsHandlers` | |
| | `FramedReadBack` | `ReadBack` | |
| | `FramedServesActiveCard` | `ServesActiveCard`, the safety half of `StartupServes` | |
| `FramingProofs` | `ReadersInStep` | its inductive invariant | |
| | `FramesAreExact` | `FramesExact` | |
| | `AnswersAreMatched` | `AnswersMatch` | |
| `StreamServerProofs` | `StreamTypeCorrect` | `TypeOK` | |
| | `StreamCountIsHandlers` | `CountIsHandlers` | |
| | `StreamCountersExact` | `CountersExact` | |
| | `StreamDesyncStopsWrites` | `DesyncStopsWrites` | |
| | `StreamNoPollAfterHandler` | `NoPollAfterHandler` | |
| `GatewayLifecycleProofs` | `LifecycleTypeCorrect` | `TypeOK` | |
| | `RunningIsServing` | `RunningServes` | |
| | `NewClientIsServed` | `NewClientFindsOpenBackend` | |
| | `StoppedRunnerIsSilent` | `StopFreesPorts` | |
| | `SettingsAreApplied` | `SettingsApplied` | |
| | `FixedStartSucceeds` | `FixedGatewayStarts` | `~ExclusiveBind` |
| `MainWindowProofs` | `WindowTypeCorrect` | `TypeOK` | |
| | `PasswordIsKept` | `PasswordKept` | |
| | `LabelsAreOfThisRunner` | `LabelsOfThisRunner` | |

**The channel.**  `LockInv` (types, mutual exclusion, `CallInv`: a thread in a
call has a driver call, and `elapsed <= rested`) is inductive by itself.  Mutual
exclusion alone is not: a step of one thread may only be known to leave another
outside because the lock has one value, and the owner, which takes no lock, only
moves its own program counter.  `elapsed <= rested` is what turns the test of
`_last_reopen_attempt` into the distance `ReopensApart` speaks of.

The handle theorems need `HandleInv`: with no lingering client at most one actor
is at a handle step (`Active`), and the place it is at says exactly what the two
fields and the DLL's tables hold (`HandlesAt`), for example that between
`CloseDriver` and `ClearDriver` the field holds a handle that is already closed.
Two more conjuncts carry it: a call in progress was given the current handle
(`UsedIsCurrent`), and a driver that went away takes its channels with it
(`DeadDriverDeadChannels`), so a stale answer really means a dead channel.

For the refinement, a thread's call is pending in the image from its invocation
until `fn()` has returned for good, so every step of a recovery is a stutter.
`FailedFirst` is the invariant it needs: a thread in a recovery has failed with
a stale code, which never reached the card, so a retry is the first and only
time the call takes effect.

**The framed gateway.**  `Inv` is inductive.  `ClientInv` follows one client:
how far it is with its current request for its program counter (`Progress`), what
the response under construction holds (`Draft`), that the responses are verdicts
on the requests in their order (`InOrder`), and that a client that is away has
nothing open (`Away`).  `CallInv` ties the gateway to the image underneath: a
thread waits in the backend exactly while its call there is open, and that call
is the first it has still to make; without it a result of the image could belong
to another request.  `LogInv` is stronger than `LogTruthful`: every event of the
ring happened, and those of one client stand in the order of its requests.  A
step of one thread changes only that thread's entries (`OthersSame`), so all
these need proof only for the thread that moves.

`ReadBack` is about the past, and the image alone does not remember it.  Each
connection has a mark, `cleared`: how many requests it had read when the output
was last zeroed.  Marks only move up, and not past what was read (`MarksGrow`,
`ClearedInv`).  `May(t, i, data)` says what the output may be once the i-th request
was a write: that write, a later one, or zeros if the mark has reached i; once true
it stays true (`MayStays`), so what a read was given is still allowed when it is
answered.  For a connection that alone writes (`Sole`), `InHand` says what the
request in hand has already done or been given, and `ImageHolds` that the output is
what the last acknowledged write allows.  Both rest on the driver facts: only a
`WRITE_OUTPUT` puts anything but zeros into the output (`OutputCalls`,
`EffectOnOutput`, `CardMovesMeans`) and a step that zeroes it sets the marks
(`MarkMeans`), so no other client's RESET goes unnoticed; and since a client that
has become the sole writer was so in every earlier state (`SoleBefore`), the
invariant need not speak of a connection that is not.  `HasRead` then relates
what a read returned to the writes answered before it.

For `ServesActiveCard`, `Remaining` says which of the startup calls are still to
be made at each step of the main thread, `Made` what the image has of those that
returned, and `Marked` that a failed one keeps the servers from starting.  The
liveness half of `StartupServes` is TLC's.

**The byte stream.**  First the codec: the bytes of a number decode to it and
the other way round (`ShortExact`, `ShortBack`, `LongExact`, `LongBack`), so do
decimal digits (`DecimalIs`), and hence requests and responses (`RequestExact`,
`ResponseExact`); what `handle_frame` answers can always be packed
(`ExecuteType`).  Frames are of any size the length fields and limits allow.

`FramesExact` is not inductive: it says nothing of the frame a reader is in the
middle of.  `SidesInStep` does.  `Place` names, for each stage of a reader, the
bytes it has taken of the present frame, which its state determines; `Flow` says
that these, its buffer and the bytes on the wire are the beginning of the items
sent and not yet taken, a chunk for each item (all of it as long as both sides
are open, since only a close loses a tail).  A piece received moves bytes from
the wire to the buffer, and `Flow` with their concatenation does not notice, so
the cuts `recv()` makes are of no matter.  When a frame is complete, `FrameRead`
has to tell it from what the sender put there: two chunks that begin alike are
one chunk, since a framed chunk carries its length, digits end at the quote, and
bytes that are garbage differ from every frame at a place the reader looks at
(`PrefixRead`, `BadFrameIs`, `BadPrefixIs`).  With `FramesReplied`, that the
responses sent are those to the frames the server took, `AnswersMatch` follows.
The invariant speaks of all byte sequences, which TLC cannot enumerate; TLC
checks the two properties, the proof the invariant.

Some attempts failed for a reason in the model.  `Verdict` of `FramedGateway`,
and `Execute` and `Understood` of `Framing`, were CASE expressions with
overlapping guards: TLC takes the first that holds, TLA+ leaves open which, and
the prover would not; they are conditionals in the code's order now.  `Framing`
gave its clients the servers' size limit, which examples/ do not have.  Garbage
could be any bytes, a frame among them, and a request one that `encode_request`
cannot pack: the assumptions now say what the instances meant.  The length
prefix of a written frame had one digit; it has all of them.

**The streaming server.**  Each shared counter equals, or lags by, the number of
threads at certain places (`Counts`).  `CountMoves`, over the library's facts
about cardinalities, says how that number changes when one thread moves, and a
handler or poller moves itself only (`HandlerMoves`); so the counters are exact
for any finite number of connections.  A malformed frame takes its handler to
the `finally` block, from which none comes back to read (`InStep`); a poller
exists only from `spawn` on, and a handler in `join()` has set the stop event
(`Threaded`), which is why no other poll begins.

**The lifecycle.**  `RunningServes` is not inductive: that a runner in the window
serves depends on what each step of its start left behind.  `RunnerInv` says, per
step of the GUI thread, which runner there is (`WhichRunner`), that the one being
started has its backend open before it binds (`StartingOpens`), and that the one
being stopped has no socket left at the steps that follow (`StopCloses`).  Its
conjunct `ServingOpen` speaks of all runners, those leaked by failed starts
included, for a client may connect to any socket that listens.  `FineInv` adds
what an undisturbed start has achieved at each step.  `FileInv` is
`SettingsApplied` extended to every step of the GUI thread: only between a dialog
and the end of its write is the window ahead of the file, unless a mishap is on
record: a write that failed, or a launch that could not read the file.

**The main window.**  Where `auth.json` is cut off, it is being written or a
mishap is on record (`TornInv`); a whole file holds the last password, or the
default after a mishap (`WholeInv`); a missing one stands for the default
(`NoFileInv`); and the first-run branch writes the default only where that loses
nothing (`FirstRunInv`).  `PasswordKept` follows from the four together, and
none of them is inductive alone.

Liveness stays with TLC throughout (`FramesTaken` and `GarbageEnds` of the byte
stream included), and so does `MockBackend`, whose one property the code breaks.

## 5. What is not modelled, and the plan

Not modelled:

* C layouts and ctypes signatures (cifx/bindings.py, cifx/structures.py): no
  control, except that loading the DLL may fail (`Construct`).
* Entry points, log forwarding, paths, packaging: no state that outlives a call.
* Widgets, ranges, wording, and the arguments, measurements and reconnect loops
  of the examples; their side of the framing is in `Framing`.
* The throughput sample of the Diagnostics window.  It mixes the counters of two
  runners once after a restart, which the guard there turns into a rate that is
  too low, never negative; the next refresh is right.
* `stop()` raising, thread exhaustion and `EINTR`.
* A hand-written config with `write_length` 0: the dialog's range starts at 1.

`NoHandleLost` and its companions are not stated for `Lingering = TRUE`: there
the code breaks them (`ChannelClose`).

Next: *composition.*  An abstract server that answers requests atomically, and
`FramedGateway` shown to implement it; `MockBackend` without the reset race shown
to implement `ProcessImage`.
