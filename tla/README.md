# TLA+ models of Stellar's protocol stack

Stellar (this repository) lets devices run commands on, move files to and proxy
connections through each other over libp2p. All its protocols share one stack,
in `p2p/protocols/`: a multiplexer that makes many streams of one connection, a
request/response layer on stream 0, and the protocols on top. These modules
model that stack, the compute, the file and the proxy protocol, a compute run behind
the local API, and the tables of devices a node keeps; check them with TLC on small
instances; and prove with TLAPS, for every instance, each of the invariants that TLC
checks. Liveness stays with TLC.

`PROJECT.json` lists the components, runs, mutants, findings, hazards and
theorems, and maps each definition to the lines it models.

## 1. Inventory

| component | state | operations | what is hard |
|---|---|---|---|
| **Stream reader** (`multiplexer.go`, `streamReader`) | `dataChan`, `errChan`, `buffer`, `closed`, `eofReceived` | `WriteData`, `WriteError` (readLoop); `Read` (consumer); `Close` | three goroutines, a lock that is released before every channel operation, two places that close one channel |
| **Multiplexer** (`multiplexer.go`) | map of streams, `nextID`, `closed`, `writeMu`, per stream three locks and flags | open, open with ID, write, close stream, `readLoop`, `Close` | nested locks, a frame written in two parts, IDs that wrap, streams created by frames, `closed` set by two parties |
| **BaseClient / BaseServer / ControlPlane** (`common/service`, `common/control_plane`, framing in `common/protocol/packet.go`) | pending requests, handshake state, event channel, cancel functions | `Connect`, `SendRequest`, `runDispatcher`, `Close`; `Accept`, `Serve`, `Close`; `run`, `Next` | answers and unasked packets on one stream, timeouts that leave readers behind, callers that only the dispatcher releases |
| **Compute** (`compute/service`) | client: handles; server: `runs`; process, `Done`/`ExitCode` channels | `Run`, `Status`, `Cancel`, `Close`; handlers, monitor, forwarders, conda goroutine | up to six goroutines per run that record and report one outcome |
| **Conda operations** | none of its own | build a command line, run it | process and network I/O |
| **File transfer** (`file/service`) | client: none but the pending requests; server: per operation a stream and a goroutine; the directory | `Get`, `Send`, `List`; `handleGet`, `handleSend`, `handleList`, `transferFile`, `receiveFile` | a file inspected, hashed and opened in three steps; uploads that truncate, rewrite or unlink one another's file; answers matched by type |
| **Proxy** (`proxy/service`, `tcpProxy.go`) | service: context, listener, client; client and server: map of proxies, per proxy a connection and a stream | `Serve`, accept, open, forward, `Close` of the service, of one proxy, of the server | one client for many connections, closing while opening, three callers of one `Close`, connections leaked on partial failure |
| **Node** (`p2p/node`) | two maps of devices, the peers `DiscoverDevices` has connected to, relay reservations | `DiscoverDevices`, `ConnectDevice`, `UpdateDevices` (health checks); relay and DHT set-up | copies of the tables written back later; three kinds of goroutines on one device; calls without a timeout |
| **Policy / config** | whitelist; file | add, remove, authorise; load, save | no lock; write that is not atomic |
| **Local API** (`core/socket`) | table of runs; per run a handle, three buffers, status, end time, exit code | `ExecuteCommand`, `monitorRunCompletion`; get, stream, cancel, feed, delete; `executor.go` runs local commands | two goroutines and a pipe per stream; fields without a lock; a handle set to nil under the monitor |
| echo, identity, bootstrap, CLI, GUI, frontend, Python client | — | — | none that a model would show |

How they interact: `readLoop` of a Multiplexer is the only caller of
`WriteData`; the control stream (ID 0) of a Multiplexer carries the packets of
BaseClient and BaseServer; a protocol's client matches answers through
`SendRequest` and gets all other packets through `HandleEvent`; its server is
called by `Serve`, one packet after the other, and sends packets of its own from
other goroutines. The connection's end reaches each layer from the one below: a
read error in `readLoop`, an error from each stream, the end of the control
plane, `failAllPending`, `Server.Close`.

What makes each correct: a stream reader is a pipe; a multiplexer keeps frames
whole, IDs apart and forgets no consumer; the request layer gives each caller
its own answer, in every order of events, and lets it go at the end; a run's
handle completes once, with what happened to the process. File transfer:
what a `Get` leaves is a whole file, and so is what uploads leave on the server.
Proxy: every accepted connection is closed once and no closed proxy forwards.
Node: a device that answers is healthy in the end, one that has gone is not.
API: a run's output is buffered whole, and what is said of its end is true.
Policy: a decision agrees with some list that was set.

## 2. Modules

    Pipe  <--refines--  StreamReader
                             :  (its promise is what Multiplexer assumes of a stream)
                        Multiplexer   <-- MCMultiplexer
                             :  (its promise is what BaseService assumes of stream 0)
                        BaseService   <-- MCBaseService
                             :  (its promise is what these assume of packets)
    RunLife  <--refines--  ComputeRun <-- MCComputeRun
                             :        (what a handle does is what ApiCompute assumes)
                           ApiCompute <-- MCApiCompute
                        Proxy         FileTransfer <-- MCFileTransfer

                        Devices       <-- MCDevices    (over libp2p itself)

Each module but Pipe and RunLife has its theorems in a module `<name>Proofs` that extends it.
The two refinements are checked and proved. The dotted steps are assumptions
each upper module states in its header: composing the modules in one state space
is out of TLC's reach, because each has several goroutines of its own.

**Pipe** is the abstract promise: positions `written`, `taken`, `handed`, and
`shut`. It models no code.

**StreamReader**: one action per critical section or channel operation.
`WriteDataCheck` and `WriteDataSend` are `WriteData` before and after it
releases the lock; `CloseMark` and `CloseChan` are `Close`; the `Read*` actions
are the stages of `Read`, `rd` its program counter. A byte is its position in the stream, a
frame the interval `[lo, hi)`, the EOF marker an empty interval. A panic is a
value of `panic`, after which nothing happens. `WriteError(e)` reports either of the two
ends `readLoop` may see (`ReadErrors`): `io.EOF`, the connection closed cleanly between two
frames, which `Read` passes on as it is, or another error. One consumer is modelled, as for
data streams; the several readers a control stream can have are in BaseService.

**Multiplexer**: `task[t]` is where a worker goroutine is in a write, a
`Stream.Close`, a `CloseStream`, a `Multiplexer.Close` or a
`GetOrCreateStream`; `rl` is where `readLoop` is; `out` is what was written to
the connection, part by part, so that interleaved writers would show. A stream
object (`obj`) is apart from the map, since closed streams live on in the hands
of those who hold them. Opening, looking up and removing are atomic as they are
under `m.mu`. With every ID in use the loop of `OpenStream` never ends while it
holds the lock; the model lets it wait. The code's IDs have 32 bits (`MaxStreamID`
is 0xFFFFFFFF) and wrap after as many streams; `MaxID = 1` makes them wrap within a run.

**BaseService**: `in[s]` is the control stream towards side `s` as packet parts
(length, body), because goroutines share the stream and a reader can start in
the middle. `read` has one entry for each control plane and each handshake
reader, which outlives its timeout. Timeouts are enabled whenever the code waits with one.
`Key` is what a request's Matcher compares. The server answers each request; `Unasked` are
packets of other goroutines, as `monitorExecution` sends them: events, or packets that no
Matcher can decode (`MatchFails`), with which any pending request ends. `MuxClose` is
`Multiplexer.Close` as both sides call it, with its early return once `readLoop` has failed.

**ComputeRun**: one run, from `Run` to its end: `entry` is its `RunInfo`, `h`
the handler `Serve` is in, `mon` `monitorExecution`, `g` the goroutine of
`handleCondaOperation`, `fwd` the two forwarders, `doneCh` and `exitCh` the
execution's channels of capacity 1. `kind` is the sort of command: `raw`; `conda`, a
conda process; `value`, a conda subcommand that returns a string. A packet is
the call it answers, success, and the status it carries; an event is an answer
to `status` nobody waits for. The exit code is -1 (killed), 0 or 1, at any time. `Serve`
ends (`ServeEnds`) with the connection, or at a packet of a type the server does not know
(`Stray`); `ServerClose` then cancels what runs, and `ServerCloseMux` is
`BaseServer.Close`, which closes the connection and the log stream under its forwarders,
unless `readLoop` has failed before.

**RunLife** is the abstract promise of a run of a raw command: `process` and its `exit`,
whether it was `told` to stop, the `record` the server keeps and the `result` the caller
gets. It models no code; packets, goroutines and both Closes are hidden.

**Proxy**: `stopped`, `acceptor`, `watcher` and `listener` are a `ProxyService`
and its two goroutines, `closer` the three callers its `Close` can have;
`pc[c]` is where `acceptConnection` of connection `c` is, `clientMu` and
`client` what it shares with the others. On the server `work` is the handler
`Serve` is in, `fwd` and `copies` the goroutines that forward. Both ends of a
stream are apart (`cs`, `ss`), and so is the EOF that tells one of the other
(`eof`). Bytes are left out: a copy may end at any time, as its peer may go,
and must end only when there is nothing more to read. Cancelling the context
and closing the listener are one step, and the acceptor looks at the context
as `AcceptTCP` returns.

**FileTransfer**: operations of clients (`Ops`) on connections (`Conns`), each
with a server of its own, all over one directory. A file is two chunks; its
checksum is the chunks it was computed from. `file` maps a name to an inode and
`data` an inode to chunks, so that `os.Create` (truncate what others have open),
`os.Remove` (unlink what others have open) and a write at an offset past the end
(which leaves a hole) do what they do. `pc` is where `Client.Get` or `Send` is,
`handler` the request `Serve` is in, `task` where the goroutine of `transferFile` or
`receiveFile` is. `HandleGet`, `GetOpen`, `Hash`, `GetReply` and `TransferOpen`
are the separate looks at a file that `handleGet` and `transferFile` take: Stat,
open to hash, each read, open again. `Dispatch` gives an answer to any pending
request of its type, as the Matchers do.

**ApiCompute**: one run of `ExecuteCommand`, local (`executor.go`) or remote (a
handle of a compute client, as ComputeRun makes it). `fw[s]` is
`forwardToLogAndBuffer` of a stream, `rd[s]` and `hand[s]` its `bufferStream`,
`mon` `monitorRunCompletion`, and `op[r]`, `at[r]` an HTTP handler and where it is. An
`io.Pipe` is the rendezvous of `ForwardBuffer` or `ForwardLog` with a reader that
has nothing in hand. The log entry of a whole chunk is longer than the buffer of its
reader and takes a Read of its own first (`ForwardLogPart`); Cancel may close the log in between
(`cut`). The entries of a remote run are taken whole, as the stream's frames are.
`result` is what `Done` and `ExitCode` yield, an error or not and a code: both of a local
command's end (`Wait`), or what a server may report (`Reports`), which for a conda run may be
an error with exit code 0. `Wait` takes as long as the command, or a process it has left behind
(`heirs`), may write. The fields of a run are written and read without a lock, so no order
is assumed of them: `MonitorWrite` stores the end time, the exit code and the status in
any order, as others may come to see them, and `Status`, a string of two words, may be read,
or left by two writers, as neither value (`torn`). `CleanupSteps` is the order in which
`Cleanup`, which others meet through locks and channels, takes things down.
A nil dereference is recovered in a handler and ends the program elsewhere (`crashed`).

**Devices**: `discovered` and `healthy` are the keys of the two maps, `found`,
`connectedPeers` and `at` the loop of `DiscoverDevices` and its goroutines,
`call` a `ConnectDevice`, `chkDiscovered` and `chkHealthy` the goroutines of
`UpdateDevices`, which work on a copy. Each critical section of `DLock` is a
step, each network call another; `DiscoverDevice`, `HealthCheck` and `GiveUp` are
the functions they share, from one place to the next. A peer has a `mood`: it
answers, answers echo commands as unknown, fails, stays mute, or is gone.

## 3. Runs

| run | instance | shows |
|---|---|---|
| `stream_reader` | channel of 2, frames and slices up to 2, 4 bytes, 2 markers | the pipe properties, with and without `Close`, errors and data after the marker |
| `multiplexer` | 2 workers, IDs 0..1, 3 stream objects, channel of 1, 1 frame in, a write begins with at most 3 parts out | frames, IDs, silence after close, no forgotten consumer |
| `multiplexer_close` | 3 workers on the control stream, 2 frames in | `Close` against a writer and another closer that hold the locks |
| `base_service` | 2 requests, 1 unasked packet of either kind, event channel of 1, one `Connect`; the connection fails or is closed by the client | order and matching of packets, pending requests |
| `base_service_retry` | 1 request, 1 event, two `Connect`s, fair goroutines; the connection fails, is closed, or both | the reader left behind by a timeout; callers return |
| `compute_run` | all three kinds, each of Status and Cancel once (others: Cancel), an unknown packet (not for conda) | completion, cancelling, log, refinement of RunLife |
| `compute_run_live` | raw and conda, fair goroutines | completion and closing of the log happen |
| `proxy` | 2 connections; the service or a proxy is closed only in behaviours with the first one alone | one client, streams kept apart, everything of a closed connection let go |
| `file_transfer` | 2 operations in five cases: two Gets, two Sends, one of each, a List and a Get, over one connection; two Sends of one name over two | whole files on both sides; every operation and goroutine ends |
| `api_compute` | a local or remote run with up to 3 chunks, and up to 2 handlers, in ten cases | whole output, true answers, handlers return, no goroutine left |
| `devices` | one peer of five moods that changes twice, with a `ConnectDevice`; two peers and one change | who runs is healthy in the end, who has gone is not |
| `api_delete` | as `api_compute` | a violation: deleting a run that has not ended ends the program (section 6) |

Why the bounds are enough. A channel of capacity 1 or 2 is both empty and full
in these runs; frames of two bytes are read partly and twice; two markers make
data after a marker and a marker after a marker. Two IDs wrap after one stream
and collide with requested IDs. Three stream objects let an ID be used three times; two
workers and `readLoop` are enough for each pair of operations to meet, and a third is added
where one waits for two. One event channel slot fills with a request, an answer
and an event under way. A failing connection that meets the client's `Close`
(`CloseRaces`) is left to the run with one request, where it takes 0.7 million states: with two it
would take four. In ComputeRun a second Status or Cancel would meet only
states the first one reaches; kinds other than `raw` share the code of Status.
In Proxy two connections meet in the lock of the client, in the control
stream and in `Serve`; what a close does is per connection, but for the client
and the context, so `Quiet` keeps it to one connection (with both, the states
are too many: over twelve million). The link may fail with either.
In FileTransfer two chunks are the least with a file that is half there; three
operations would meet in pairs on the same file, and what a connection's `Serve`
and `Dispatch` share is met by two on one connection. In ApiCompute three chunks
fill the forwarder, the reader and the pipe between them and leave one behind;
what the handlers share (the table's lock, the run's fields, the handle) is met by
two, and each pair that writes one of these has a case. In Devices two changes make
a peer go and come back, or fail and recover, while each of the three kinds of
goroutines is at work on it; two peers are needed only for what one does to the
other, which is that a mute one stops the checks.

Deadlock is not checked: all these systems may come to rest. That nobody waits
who should not is what the liveness properties say.

**Fairness.** Weak fairness stands for the Go scheduler: a goroutine that can go
on does. Three things get none. Callers and peers need not start anything. A
write to the connection need not finish while the connection is up (the peer may
not read), only when it is down. ComputeRun is the exception: it has no writes that block, so
`HandleCompletes` and `LogCloses` are about peers that read (fairness of `MonitorStep` and
`ForwardEnd`). Consumers need not read. A process need not
exit, and the properties begin with its exit. In Proxy, dials and handshakes
end, as they have timeouts, and writes of the copies end; neither the
application nor the remote end need send or close. Its one strong fairness is
for `clientMu`: Go's mutex hands itself to a goroutine that has waited long.
In FileTransfer the copies of both sides have timers of five minutes, and the
info line one of thirty seconds, so each of them ends (a timer may win even when the copy
has just finished: `ReceiveFails`, `SendFails`); `SendRequest` has none,
and that an operation returns rests on the server's answer or the end of the
connection. In ApiCompute the command need not write or exit, the remote device
need not answer or take stdin, and the connection need not fail; nor need what a command
has left behind exit, and `LocalSettles` begins when that has. In Devices both
loops tick; a peer that runs is found again and again (strong fairness, as each
round of `FindPeers` starts afresh); calls over the network end unless the peer is mute,
as they have no timeout of their own: hence the premise `NobodyMute` of both properties.

The properties, shortly (each has a comment in its module):

- `NoDoubleClose`, `PanicNeedsRace`, `CloseWakesReader`, `ImplementsPipe`: what
  a consumer can rely on. `PanicNeedsRace` is as strong as the code allows: a
  send on the closed channel, which ends the process, can happen, by a local
  `Close` or a peer that sends on after its marker. That bytes come in order
  (`InOrder`) is proved, and part of `ImplementsPipe`. So is that EOF has a cause
  (`EofJustified`): a marker, a local `Close`, or the clean end of the connection. The last is
  the code's own: a peer that goes away without a marker looks like one that has finished.
- `FramesIntact`, `ControlKept`, `SilentAfterClose`, `EveryStreamTold`,
  `CloseCompletes`: `SilentAfterClose` says nothing of the EOF frame's place: the
  code sends it before the writer is marked, so a last payload may follow it, and no property
  says that it does not.
  `EveryStreamTold` leaves out the exits of `readLoop` inside a frame, which
  tell nobody.
- `NothingLost`, `AnswersDelivered` (the right answer, none dropped, whoever
  waits is known), `GarbledNeedsZombie`, `RequestReturns`. `AnswersDelivered` says that the
  Matcher of a request accepts its answer, not that the answer was meant for it: where Matchers
  compare types only, FileTransfer shows what remains true.
- `ResultIsReal` (completed once, with what happened), `StopsRuns` (`Cancel` and
  `Close`), `ImplementsRunLife`, `LogWhole` (but for the close of the multiplexer, which ends
  the log with the run), `HandleCompletes`, `LogCloses`: most are about
  raw commands, as a conda run has two goroutines that disagree on its outcome (section 6).
- `OneLink`, `StreamsPaired`, `CloseReleases`, `LocalReleased`. What the code
  does not give, and no property says: that the remote connection ends with the
  link (it does when its remote end sends or closes), and that the link ends
  with the service (a client that is being connected while the service is closed
  is left open).
- `RestIsWhole`: when nobody is writing to a name, the file is there as a whole or
  not at all, though uploads of one name share an inode and each removes the
  path when it fails. `GetReal`: a `Get` leaves a whole file or none, unless an
  upload to the name was under way, and no two operations use one stream.
  `TransfersEnd`. What the code does not give: that a `Send` which
  returns no error was stored (nothing confirms it), that it was stored under the name
  it was sent to (two Sends at once may swap answers, and with them streams), and that
  a `Get` has the file it asked for (likewise).
- `OutputWhole` (with `EntriesWhole`), `EndShown` (with `AnswersTrue` and `LagBounded`),
  `HandlersReturn`, `LocalSettles`. `AnswersTrue`: whatever signs of an end a handler shows, they are
  of the end the run had. What the code does not give: that they are all there (a status
  without an exit code, or the reverse), that a failed conda run has an exit code other than 0, that a run shown as
  completed has its output in the buffers (up to two chunks of each stream are still
  under way), that a remote run whose connection is lost is ever shown as ended,
  and that its client is closed before somebody deletes it.
- `ComesBack`, `GhostsGo`: in the end, and not at once, since health checks write
  back entries they copied. `Forgotten` is the one case in which a peer that answers
  stays out: a health check removed it, and `DiscoverDevices` skips it
  as long as libp2p holds a connection.

The `Bug...` operators next to the definitions are mutations of the code that
each property is shown to catch.

## 4. Proofs

`StreamReaderProofs` proves, for all values of `Cap`, `MaxFrame`, `MaxRead`,
`MaxBytes` and `MaxMarkers` that `ConstantsAssumption` allows, the type
invariant, `InOrder`, `EofJustified`, `NoDoubleClose` and `PanicNeedsRace`, and that
`StreamReader` implements `Pipe`. `ConstantsAssumption` is the only assumption.

The inductive invariant `Inv` joins to `TypeOK`:

- `Contiguous`: what was handed out, the rest `Read` is about to save, the buffer, the frames
  in `dataChan` and the frame in flight are intervals that follow one another.
  `InOrder` and the refinement follow from it; alone they are not inductive,
  since they say nothing of the bytes on their way.
- `ClosedOnce`: a closed channel belongs to a set flag, and a closer between
  marking and closing is the only one that will close. `NoDoubleClose` follows.
- `MarkerFirst` (with `MarkerOut`): once a marker is in the channel, with `Read`,
  or has closed the reader, the peer has sent one, and a frame in flight is
  `late`. `PanicNeedsRace` is a conjunct of it.
- `EofMeansEnded`: a `Read` that returns EOF, or is about to, has seen the
  reader closed, which is by a local `Close` or by a marker, or `io.EOF` in `errChan`, which is
  there only when `readLoop` has ended cleanly: `EofJustified` follows from it and `MarkerFirst`.

`Inv` is preserved by one lemma per action; facts about sequences (`TailFacts`,
`AppendFacts`) are lemmas of their own. The refinement theorem maps each step
to a put, a take, a shut or a stutter of `Pipe`.

`MultiplexerProofs` proves the five invariants of Multiplexer for any workers, IDs,
capacity and traffic. Its invariant keeps the types apart by what they are of (streams,
the map, workers, `readLoop`, the wire) and adds three parts. `Locked`: a `Write` holds its
stream's `swMu` until its frame is out, so `Close` marks the writer only between frames
(`SilentAfterClose`). `Framing`: between header and payload nobody else has `writeMu`, and
with nobody in a frame the last part out is no header; without it `FramesIntact` is not
inductive. `Telling`: once `readLoop` has failed, `closed` keeps streams from being
created, so that the loop that notifies them misses none (`EveryStreamTold`). That
the map has a free ID when `nextID` wraps is a fact about least elements of its own.

`BaseServiceProofs` proves its four for any requests, `Match`, capacity and number of events.
`AnswersDelivered` needs `Answering`: a request is pending exactly until its response is
there, whoever puts it there. The other two are about one stream shared by many goroutines,
and go in three steps: whose turn it is (`Turns`: `writeMu` is held between
a length and its body; of the handshake reader and the control plane one reads at a time, if
`Connect` was called once); so lengths and bodies alternate on the
stream, and the current reader finds a length where it looks for one (`Alternating`, hence
`Ungarbled` and `GarbledNeedsZombie`); so what was sent and not dealt with is one
line: in the dispatcher's hand, in the channel, with the control plane, with the
handshake, on the stream (`Flowing`, which is `NothingLost`). `Sound` adds that no
read fails before the connection does.

`ComputeRunProofs` proves its four invariants, the action property `CanceledStays` and the
refinement of `RunLife` for any kinds of command and any questions. `Asking` and
`Serving` say that whatever is asked of a run finds its entry in place; `Monitoring`, that the monitor's exit code is the
process's; `Telling`, that any status on its way to the client, wherever it is (in the
entry, with the monitor, in the handler, on the stream), is one that may be said (`Real`: the
outcome of an exited process, or canceled after it was told to stop). `ResultIsReal` and
`StopsRuns` follow. `Logging` counts the forwarders while the log is open (`LogWhole`).
`LifeImplemented` maps each step to one of `RunLife` or to a stutter: `ClientLife` does it
for the steps that can complete the handle (`Telling` says that what a packet carries is
true by then), `ServerLife` for those that touch the process or the record (`Serving` says
that a running raw entry has its `CancelFunc`, `Monitoring` that the verdict is of the
real exit). That a canceled run stays canceled (`CanceledStays`, proved by itself) is part of it.

`ProxyProofs` proves its three for every set of connections. `OneLink` is not
inductive: `ConnectsAlone` adds that a
connection between `Lock` and `Unlock` of `clientMu` holds it and that there is
no client as long as one is connecting; so of the connections that all found no
client only one ever gets to `Hello`. `ClientConnectsAlone` is the step that
matters, and `OthersKeep` disposes of the actions that touch neither the lock nor
the client. `StreamsPaired` follows a request: a connection asks for a stream once
(`OpensOnce`), the IDs the server hands out differ (`IDsDiffer`), the answer
carries the ID of the stream that was made for it, and comes when that is settled
(`AnswersMatch`), so that both ends agree from then on (`Pairing`).

`FileTransferProofs` proves its three for any operations, files and connections. A
request is in one place: on its way, with the handler, its answer on its way, or that answer
with an operation (`OnePlace`); only one operation has it, of the request's kind and
connection, though maybe not the one that asked (`OneTaker`). So each stream has
one user at each end, and that of a send carries the info line and then chunks
(`Lines`). Open files and the paths stay within one name (`OfName`); a
file nothing was received into is the one that was there, and its
checksums and gets are of it (`Original`, `Gotten`): `GetReal`. `RestIsWhole` needs
`LookedAfter`: a file that is not whole has one who writes it, or one who has read it as it
is and so will find the checksum wrong and remove it. The first alone is not
inductive: between the last chunk of a transfer and its checksum nobody writes.

`ApiComputeProofs` proves, for any handlers, any operations of each and any amount
of output, the three invariants of ApiCompute. Its invariant has eight parts. `Scalars`, `Progress` and `Contents` are
types: no more is taken than was written, and whatever is queued, in a hand or in a
buffer has been written (`Known`). `Exited` ties exit codes and heirs to a command that has
exited. `Handling` says what a handler that is at
some place does, and that who cleans up holds `runsMu`. `AnswersTrue`
follows from two more: `Recorded`, that each field the monitor has stored is that of a
result that is there, and a result without an error is that of the process but for conda;
and `Told`, that what a handler has read of it stays true, since a result is
not taken back. No order of the stores is used. The verdict is what matters: taken from
the exit code alone (`BugVerdict`) the run finds a conda run that ended in an
error and is shown as completed. `LagBounded` follows from `Counted`: each chunk
taken is in the buffer, in the hand of the buffering goroutine or with the forwarder
(`Accounted`), and `Wait` has seen the pipes drained (`Stops`), unless
the run was cancelled or deleted.

`OutputWhole` has a second invariant on top of that, `Carried`. What is in a buffer, in the
hand of its `bufferStream` and queued by the remote server is one `Line`. That of stdout or
stderr is numbered through, also when a forwarder drops what comes after its pipe was closed,
since a pipe once closed stays so (`OwnLines`); that of the
log has each chunk once and after its predecessors (`LogLine`). As long as nothing was
kept from a line (`Open`) it is as long as what was `Fed` to it; and when a reader has
ended in an undisturbed run, its stream has (`Ending`), so nothing is in anybody's hands and
the buffer is the line. `EntriesWhole` is a part of it: as long as the log is open or nobody cancels,
an entry that has gone half through the pipe belongs to the one forwarder that is at its rest. A step either leaves a line, moves a chunk within it or puts the next at its
end (`Moves`); `Shown` says that what a handler has shown begins the buffer.

`DevicesProofs` proves the type invariant for any peers and calls. `ThisRound`, that a goroutine
of `DiscoverDevices` is about a peer its round has found, is what makes it inductive.

**Assumptions.** Each module states one on its constants, and its proofs use no other; TLC
evaluates it in each run. Sizes are positive (`ConstantsAssumption`, `MuxAssumption`,
`BaseServiceAssumption`), the kinds and cases that bound a run are of their form
(`ComputeAssumption`, `ApiAssumption`, `FileAssumption`, `DevicesAssumption`), and names
that stand beside each other in one variable differ: `None` is no worker, request, connection,
status or file (also `ProxyAssumption`), and an operation of FileTransfer is no file that was
there before. None restricts what the program does.

Only model-checked: the liveness properties (`CloseWakesReader`, `CloseCompletes`,
`RequestReturns`, `HandleCompletes`, `LogCloses`, `CloseReleases`, `LocalReleased`,
`TransfersEnd`, `HandlersReturn`, `LocalSettles`, `ComesBack`, `GhostsGo`), since
TLAPS does not handle fairness and `ENABLED`; so Devices, whose properties are of this kind,
has only its types proved. No module declares a RECURSIVE operator.

## 5. Not modelled

Payload encodings, wording of errors, logging, key files, command lines, HTTP
and the user interfaces: they keep no protocol state. Process and network I/O
appear only as nondeterministic results. Not modelled either:

- The policy and the configuration. Both share one slice without a lock, so that what a
  reader sees is a torn slice header: below the grain of these modules.
- Building the libp2p host, `InitDHT`, relay reservations and advertising: calls of
  libp2p whose state the tables do not depend on.
- The conda installer, command lines and downloads; the echo protocol, which keeps no
  state; the CLI, the GUI, the frontend and the Python client.
- Of the API, the handlers that pass a request on to the node, the policy or a
  protocol client. Of the file protocol, what a listing says, and directories.
- Several runs on one compute connection, and duplicate run IDs.

Each module takes the layer below
as it should be: BaseService and Proxy have the connection fail between two
frames, as a failure inside one tells no stream (Multiplexer, `cut`), and
Proxy's streams have room, as a full one blocks all (Multiplexer, `HasRoom`).

## 6. Where code and comments disagree

One is a run of its own, and the finding of `PROJECT.json`:

- `DeleteHarmless` (`api_delete`): `socket.go:1661` says that deleting a run
  cleans up its resources. `Cleanup` sets `execHandle` to nil (339) while
  `monitorRunCompletion` still evaluates it (1468, 1469), in a goroutine
  that nothing recovers: deleting a run that has not ended ends the program.

Four more can be shown with the configurations beside the modules; they are not
among the runs:

- `DataBeforeError` (`StreamReaderLate.cfg`): `multiplexer.go:159` prefers data over
  an error, but the blocking select at 192 does not.
- `CloseClosesAll` (`MultiplexerLate.cfg`): `multiplexer.go:641`; `Close` after a
  failed `readLoop` returns at 647-651 and leaves the streams and the connection open.
- `HandleAlwaysCompletes` (`MCComputeRunStatus.cfg`): `server.go:340`; a Status that
  is answered from an old snapshot consumes the terminal event, and the handle
  never completes.
- `CondaOutcomeCorrect` (`MCComputeRunConda.cfg`): `server.go:740`; the
  "authoritative" update reads channels whose only value another goroutine may have
  taken, and records a failure as completed. The comment at `conda/handler.go:208`
  has the same misconception: a buffered value is not available to all readers.

## 7. Plan

Items 1 to 8 are done; what is left of each is named.

1. StreamReader and its proofs, refinement of Pipe.
2. Multiplexer: frames, IDs, closing.
3. BaseService: handshake, dispatcher, pending requests.
4. ComputeRun: the life of a run. Left: two runs on one connection.
5. Proxy: service, client and server. Left: the two leaks of section 3, against
   `server.go:90` ("closes the server and all proxies") and `tcpProxy.go:50`
   ("closes all associated connections").
6. FileTransfer: get, send, list; concurrent requests and the type-only matchers.
7. Devices: two maps, copies, three kinds of goroutines.
8. ApiCompute: the API's table of runs.
9. Proofs: every invariant of the runs, the action property `CanceledStays` and the
   refinements of Pipe and RunLife are proved. Left: an abstract specification of a request
   (called, served, answered or given up) and the proof that BaseService implements it.

When runs are added, runs over the same module that differ only in bounds are joined.
