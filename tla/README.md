# A TLA+ development for raspberrypi-cc2520

The repository runs TinyOS as a Linux process that talks to a CC2520 radio
through a kernel driver, and tunnels the IPv6 traffic of such border routers
through a server. This directory holds TLA+ modules of its concurrent parts, TLC
configurations that check them on small instances, and TLAPS proofs of their
central properties for every instance. Paths below are relative to the
repository; `T` stands for `tinyos/tos`.

## The system

| Component | State | Operations | Interaction |
|---|---|---|---|
| Transmit stack: `T/chips/cc2520linux/CC2520Linux{Radio,Link,Send}P.nc` | LinkP's state, message, retry counter; sequence number; two pipes; metadata of each message buffer | send, cancel, the task `send`, delay timer, `sendDone_task`, `receiveReady`, the loop of the transmit child | commands go down, events come up, the child is reached through pipes, buffers are shared with the application |
| Receive stack: `CC2520LinuxReceiveP.nc` | packet buffer, pipe | child loop, `receiveReady`, `receive_task` | as above, upwards |
| Platform: `T/system/IOManagerP.nc`, `T/chips/linux/McuSleepP.nc`, `linux_atomic.h` | map of descriptors, signal mask, task queue | register, unregister, `waitForIO`, sleep | calls every component's `receiveReady`; signal handlers may run at any unmasked point |
| Timer alarm: `T/chips/linux/timer/AlarmMilli32P.nc` | POSIX timer | start, stop, `startAt` | SIGALRM handler |
| Persistent TCP connection: `T/chips/linux/socket/PersistentTcpConnectionP.nc` | socket, reconnect timer, message buffer | connect, send, close, reconnect, receive | IO manager, timer, remote host |
| TUN interface: `T/chips/linux/tun/TunP.nc` | one send slot | send, receive | IO manager, IP stack |
| Interrupts and GPIO: `T/chips/bcm2835` | pin table, child process, pipe | configure, enable, disable | signals from the child |
| Border router: `T/platforms/armlinux` | none | hop-by-hop header removal | IP forwarding |
| Tunnel server: `software/ipv6_tunnel/{server,prefix,tunindex}.go` | locks, assignments and their file, TUN names, channels | connect, assign, shuffle packets, disconnect | three goroutines for each client, kernel devices, restarts |
| Tunnel client: `software/ipv6_tunnel/client.c` with `lib/ini`, `lib/jsmn` | socket, TUN device, prefix and address | start, connect, get prefix, shuttle, reconnect; parse the configuration and the answer | the server, over a TCP connection |

Hard behaviours: the application's calls interleave with tasks and with the
transmit child (transmit stack); a message buffer changes owner several times;
the goroutines of a session end in a protocol of three channels and a packet sent
to oneself (server); the server dies at any moment and must know its assignments
afterwards; client and server talk over a stream with blocking calls, and both read it as
if it kept their messages apart; two files share one `select()` with the tasks and the alarm
(border router). Each hazard is listed in PROJECT.json at its line.

What makes each component right:

- transmit stack: every accepted send is answered once, truthfully, after
  a bounded number of attempts, unless its retry timer is lost, and nobody touches the buffer afterwards;
- server: one session for each client, one device and one owner for each prefix,
  the same prefix for ever, and a session that ends when its client goes;
- client: it has the prefix that the server routes to it, and it comes back after every
  loss of the connection;
- parsers: what they return is what the text means;
- receive stack and TUN: packets are handed up unharmed, in order, once;
- platform: a posted task runs without waiting for unrelated input;
- alarm: an alarm that was started fires, not before its time;
- persistent connection: it comes back after the remote host does, and uses a
  bounded number of descriptors.

## The transmit stack

`CC2520LinuxSendP` models the bottom of the stack and its child process,
`CC2520LinuxLinkP` the retry layer, `CC2520LinuxRadioP` the numbering and an
application that acts between any two tasks; the last one has the specification.
`RadioSend` states the properties and `SendContract` is the abstract
specification: accept, cancel, complete; a message that was accepted is completed unless the stack
waits for its own timer from some moment on (`Completes`).

Correspondence. `state`, `currentMsg`, `totalRetries`, `sequence_number` and
`sendHdr` are the variables of the code; `acked`, `maxRetries`, `retryDelay` and
`dsn` are the fields of each buffer's metadata and header that the code reads.
`taskQueue` is the FIFO queue of the TinyOS scheduler restricted to the two tasks
of the stack; `writePipe` and `readPipe` are the two pipes and `txChild` is what
the child has read and not yet answered. A run of the task `send` is one of four
actions, one for each way through it: `Transmit`, `DelayRetry`, `SignalDone`,
`IdleTask`. A call made within a handler (SubSend.sendDone from `sendDone_task`,
SubSend.send from `send`) belongs to the handler's action. `asked`, `sent` and
`outcome` are history: what the send in progress asked for, what it did and how it
was answered.

Abstractions. A driver answer is one of seven classes, the cases of the switch in
`sendDone_task`. Header and body of a packet travel through the pipe as one
record (one writer, one reader). The delay of a retry is zero or not. Writes to
the pipes succeed.

Three constants switch the freedoms that the Send interface does not forbid but
a careful application does without: `ReuseMetadata`, `ResendBusy`, `CancelTwice`.

| Run | Instance | Shows |
|---|---|---|
| `RadioSend` | 2 buffers, 3 retries, acknowledged or not, careful application | all properties, refinement of `SendContract` included |
| `RadioSendAnyApp` | 2 buffers, 2 retries, all freedoms, 2 packets below LinkP | `AttemptBound` and the contract hold for any application |
| `RadioSendNumber` | 1 buffer, sent again while busy | violation of `OneNumberPerSend`: the retry is renumbered |
| `RadioSendOddResult` | 1 buffer, an answer the code does not foresee | violation of `SuccessMeansAcked`: a stale flag |

Two buffers show every confusion of one buffer with another, since LinkP knows
one message at a time; three retries give a first, a middle and a last attempt.
`MaxInFlight` bounds the packets below LinkP at which a new send is made: with
a careful application there is never more than one, with `CancelTwice` they would
grow without bound and two are enough for their answers to cross. The sequence
number has 2 values (or 1, where no property reads it) except in
`RadioSendNumber`, where it has its 256.

Fairness: a posted task runs, `select()` returns when the
result pipe is readable, the child reads and the driver answers. All are weak.
The application is not fair; it may stop calling at any time. Nothing is assumed of the delay timer,
because the code does not make it fire: its alarm may never be set
(`LateAlarmIsLost` below), and its signal may come between `McuSleepP.nc:21` and `:22`, so that its task
waits while the process sleeps (`PersistentTcpSleeps`). That is what the contract's `waiting`
excuses: LinkP is between two attempts (`STATE_SENDING`) and the timer runs. A send without
retry delay, or one that is cancelled, is answered whatever the timer does.

`RadioSendProofs` proves for all constants the type invariant, the contract's
safety part (`ContractImplemented`), `AttemptBound`, and, with the assumption
`CancelTwice = FALSE`, `OneInFlight` and `AckWrittenOnlyWhileOwned`. `OneNumberPerSend` is proved with `ResendBusy = FALSE`: `NumberInv` says that what was transmitted
of the present send carries the number that the buffer still has. With
`ReuseMetadata = FALSE` and no odd driver answers it also proves
`SuccessMeansAcked`, `FailMeansExhausted` and `NoRetryAfterAck`; each of these
assumptions is needed, as the two violation runs and the switches show.
None of the properties is inductive. The argument is layered: `TypeInv` (types and the range
of the counter); `PlaceInv` (the task `send`, the timer, or one packet below LinkP, says
where the send stands, so at most one exists); `CountInv` (the history's attempts are LinkP's
counter, with the offset that each state has); `AckInv` (what the flag says of the last
answer); `ReportInv` (what a reported outcome says of the history).
The liveness half of the contract is model-checked only.

## The tunnel server

`PrefixManager` models the assignments and their file, `TunnelServer` the
process, its goroutines and their surroundings, `Tunnel` the properties, `TunnelContract`
what the server promises, without locks, goroutines, names or files.

Correspondence. A connection is a slot `c` that is used again after its session;
`pc[c]` says where its `handleClient` is. `tcp[c]` and `tun[c]` are the places
of the two reader goroutines, `"packet"`, `"quit"` and `"sending"` being a
blocked send on an unbuffered channel; `tunQuit[c]` is the buffered
`tun_quit_ch`. `client_locks`, `locked` and `mw` are the lock map, the locked
mutexes and the one that each goroutine found; `tunset` and `tunname` are the names,
`device` is what the kernel has open, `queue` the packets in it. `prefixes`, `inuse` and
`prefixfile` are the fields of the PrefixManager. `told` is history: the prefix that was
last sent to each client.

A step of a goroutine ends where it blocks or where another goroutine can see
what it did; the body of `getPrefix`, of `getNewTunName` and of the first half of
`lockClient` is one step, because each runs under a mutex. `ServerDown` is a crash or
`log.Fatal`: everything but the file is lost. Only one mutex per prefix manager exists, and
it is never held while blocking. A prefix is its number in the range, the file is its map and
its length in assignments: it is readable exactly if it was not left longer by an earlier
write and fits in the 12000 bytes that `Create` reads (`FileLimit`). `"write"` is a handleClient
whose write to the connection has not returned: alone, the model lets it return at any time; in
`TunnelPair` it waits for room.

| Run | Instance | Shows |
|---|---|---|
| `Tunnel` | 3 clients, 2 connections, 2 prefixes, 2 names, a queue of 1 | all properties below |
| `TunnelStuck` | 1 client, 1 connection | violation of `DisconnectRemovesTun`: the deadlock of `server.go:97` and `server.go:215` |
| `TunnelForgets` | 2 clients, a buffer for 1 assignment | violation of `SamePrefixAgain` |

Two connections are what it takes for two sessions of one client, or of two
clients, to overlap; a third client exhausts the two prefixes. Two TUN names
cover two sessions, so that names never run out; tuntap.Open may fail in any case. One packet in a device is
enough to be "caught with a packet" and to lose the wake-up packet to a full queue.

Fairness: each goroutine is weakly fair (the Go scheduler). `ShutdownCompletes`
needs no more: once the quit message is queued while clientTUN has nothing in its
hands, the wake-up packet, or any other, ends the session. For
`DisconnectRemovesTun`, `SelectSpec` adds strong fairness of the cases of the
select statement, which Go chooses at random, so that the counterexample is the
deadlock and not an endless stream of packets.

`TunnelProofs` proves for all constants `TypeOK` and `OneSessionPerClient`, and,
with the assumption `FileLimit >= Cardinality(Ids)` (every assignment fits in the
buffer; `TunnelForgets` shows what happens otherwise) `PrefixesDistinct`,
`SamePrefixAgain`, `OneDevicePerPrefix` and `ServiceKept`. The argument: `LockInv` (a session holds its client's one mutex),
`AssignInv` (the map in memory is injective and marked, the file holds it, what was told is in
the file), `SessionInv` (a session's prefix is its client's), `DeviceInv` (a
device belongs to a session that is past the reply). `DeviceWithinSession` is proved if the
connections do not outnumber the TUN names (16 in the code): `NameInv` says that the sessions that
hold a name hold different ones and that a name is taken only while one holds it, so that by
counting a free one is found; `GoroutineInv` says which goroutines, messages and packets each
place of handleClient leaves over. With more connections than names it does not hold: `getNewTunName` answers tun0
once more, and if its owner has closed the device by then, and gives the name back after it, the
new session's device has a name that counts as free; if not, the process ends (`server.go:160`). The other
properties do not depend on the number of names.

`TunnelContract` is the server as its clients and the network see it: the prefix each client was
told (`told`), the sessions (`Sessions`: connections between `Lock` and `Unlock`), and the routes
(`Routes`: a prefix and the connection whose device is open for it). Its actions say when a session may begin,
that a prefix is told only in a session and stays its client's alone, that a route leads to the
session of the client it was told, and that a session ends with its routes. `ServiceKept` is that the
server implements it. The proof needs all of the invariants above: `Lock` is `Begin` by
`LockInv` after the step, `SendPrefix` is `Tell` by `AssignInv` and `SessionInv`, `OpenTun` is `Open` and `Unlock` and
`SendPrefixFails` are `End` by `DeviceInv`, `TunCloses` is `Close`, a crash is `Down`, and everything
else changes nothing that can be seen (`StepService`).

## The tunnel client, and the two together

`TunnelClient` models the client's one thread, `TunnelPair` composes it with `TunnelServer`.

Correspondence. `cpc` is where the thread is: connecting (`connect_tcp`), waiting for the answer
(`recv` of `get_prefix`), in `sleep(2)` of `reconnect`, in `select()`, about to read the
TCP or the TUN file, or in `send`. `cprefix` is the global buffer `prefix`, which an answer
overwrites and nothing clears; `address` is what was added to the interface, once, by `main`;
`tunReady` is the bit of the TUN file that the last `select()` set and that is still
looked at after a reconnection. `sock`, `answer`, `down` and `sent` are the connection as the
client's kernel knows it. In the pair, `conn` is the server's connection of the present
client; the others are what earlier connections left behind. Each outcome of
`recv` in `get_prefix` is an action: the answer alone, with packets behind it, a part of it,
end of file, an error. An end of file is parsed like an answer: the empty text is valid for
jsmn, nothing is copied, and `get_prefix` succeeds if an earlier prefix is still there
(`AnswerEof`), unless the uninitialized tokens make it read out of bounds (`AnswerEofCrash`).

Abstractions. An id, an answer and a packet are units of the stream; where TCP cuts or joins
them is the choice of the actions that read. The death of a process closes or resets its
connections; a host that disappears without that, which the client never notices since
it sends no keep-alive probes, is left out. `EarlierMaps` are the assignments that an
earlier run of the server may have left to others.

`TunnelPair` has two clients' ids, one of them the client's, two connections, one TUN name, a queue of one
packet in each device and one packet in each direction before a write blocks. With two connections
the client's last session is still ending while the next begins; one name is enough, since the lock lets
the next one ask for it only when the last has given it back; capacity one is the least with which both ends can block in
a write, and more adds no new place to block. It shows:

- `AddressIsServers`: whenever packets flow, the client's prefix and address are those that
  the server routes to this session, although the address is never changed after the first
  answer. It rests on `SamePrefixAgain`.
- `NothingMistaken`: no packet is read as an id, no answer written to the TUN device.
- `SendReturns`: the client's `send` returns, or both ends are in a write and wait for each other.
- `ClientComesBack`: once both processes stay up the client is back in its `select()` with an open connection
  again and again, or it waits for ever in one of three ways: `IdLost` (the id was cut in two
  and thrown away, and neither side has a timeout), `EarlierSessionStuck` (its lock is
  held by a session in the deadlock of `TunnelStuck`), `BothWrite`.

Fairness: the threads of both processes are weakly fair, the cases of the server's select
statement strongly. A connection that the client left is noticed. `Connect` and `Answer` are
strongly fair: retries do not fail for ever, that is, the host is resolved and the answer comes in one piece time and again.

`TunnelPairProofs` proves for all constants `PairTypeOK` and, if every assignment fits in the file's
buffer, `AddressIsServers`, `NothingMistaken` and once more `ServiceKept`, which here holds from a
file that an earlier run of the server left. Every step of the pair is a step of the
server or leaves it alone (`PairStepsServer`), so the invariants of `TunnelProofs` carry over.
`QuitInv` adds that a session ends only when its client is gone, `TalkInv` what the
two ends know of each other at each place of the client. The two liveness properties are model-checked only.

### The client's parsers

`IniParser` is `ini_parse_file` with `config_handler`, `JsmnParser` is `jsmn_parse` (not strict,
no parent links), as the client compiles them; `Parsers` states what the texts mean without
going through them line by line or token by token, and checks every file of up to four lines and
every text of up to six lexemes. A line is a record of its kind, its indentation, its name and
value, and its whole text, which a continuation is given; a lexeme is a bracket, a string, a
primitive, or a broken one. Four lines are a section, a pair, a continuation and one more in any
order; the texts are one that starts with a number (70000, too large for a port) and one that does
not; pairs and sections may be nameless. Six lexemes are the server's answer and two
more. The token array has 4 entries instead of 10, so that texts overflow it.

- `ConfigAsWritten`: `remotehost` is the text that the last line for it in `[client]` gives it,
  `remoteport` the number at its start in sixteen bits, 0 if there is none, and the error
  is the first bad line. An indented line continues the pair before it whatever it looks like,
  a section or a pair included; the definition says so because `ini.h` does for values. A section or a
  pair without a name (`= v`, which `ini.c` accepts), at the margin, ends that.
  (`main` looks for negative results only: a bad line is skipped, not reported.)
- `TokensAreTheTree`, `ResultIsRight`: the tokens are the tree of brackets; SUCCESS, PART,
  INVAL and NOMEM are returned for texts that are complete, can be completed, cannot be, or
  need more tokens. The empty text is SUCCESS.
- `AnswerUnderstood`: the prefix is copied from the server's answer, and a part of it or
  nothing never yields one; nothing is SUCCESS all the same, hence `AnswerEof` above.

`ParsersProofs` proves all five invariants of the run, for files, answers and nesting of any length
and a token array of any size; `AnswerUnderstood` needs its three tokens (`AnswerAssumption`; the
array has ten). A text grows by a line or a lexeme per step, so what the parser makes of *every* text
is an invariant over steps and needs no induction over data. Only `ParsersTypeOK` and
`TokensAreTheTree` speak of the parser's own variables; the other three compare a result with a text and
are not inductive.

- The file (`IniInv`): `section` is the last section line before the next line
  (`SectionIsTheLast`), `prev_name` the last name, unless a section or a nameless pair ended it
  (`NameIsTheLast`, `NameIsKept`). A line read later never changes what an earlier one
  means (`EarlierLines`), so one line settles `ConfigAsWritten`, and `HandlerSets` says to what.
- The answer (`TreeInv`): the tree, in the parser's terms: tokens ascend in the text
  (`StartsInText`), brackets end at closers of their kind and no two at the same one (`EndsInText`),
  `Nested`, `SizesAreChildren`, `SuperIsInnermost`.
- While the parser runs (`Working`): every lexeme has its token (`EveryLexeme`), the open
  brackets can be listed in order (`OpenInOrder`), and *whatever follows the text*, a matching of
  its brackets must pair the brackets closed so far as the tokens do (`MatchedAsParsed`). The last one quantifies over all
  continuations: that is what makes INVAL right, which says that no brackets complete the text.
  SUCCESS and PART come from the converse (`Completion`): the list of open brackets, read backwards, is
  a rest that completes the text, and the tokens give the matching. NOMEM counts tokens
  (`NoMemIsRight`).

## The persistent TCP connection, and sleep

`LinuxProcess` models the process that every component of the mote side runs in: the task
queue, the sleep of `McuSleepP`, the map and the `select()` of `IOManagerP`, and
SIGALRM. `PersistentTcpConnectionP` adds the component, the remote host, the
kernel's descriptors and an application; `PersistentTcp` has the properties.

`LinuxProcessProofs` has the lemmas about queues and `select()` that both compositions use.

Correspondence. `watched` is `map` of the IO manager, a descriptor modulo `Width`
(a `uint8_t`), 1 for none; `nfds` is computed as in `waitForIO`, in the same width. `main` says
where the process is: running tasks, in `sleep()` with the signals enabled, in
`select()`, or calling `receiveReady` of the ready files one after the other
(`pending`). `sock` is the component's, `timer` is ReconnectTimer. `fds` says what the kernel has
behind each descriptor, so that a socket that is forgotten stays
open. `asked` and `unread` are history: what the application last asked for, and the
reads that `receive_task` has not handed up. `connect`, `close` and `send` are called between
two tasks; `connect` within a task is part of the task's action.

Abstractions. The lowest free descriptor is given out. The host is up or down; while it
is down a connect finds no address or is refused. Of `send` only the effect on a
lost connection matters: the first send breaks it for good, the second raises
SIGPIPE and ends the process, as an error of `recv` does. The application calls `connect`
only after a failed connect or a close, and, unless `ConnectAtOnce`, not while a
`reconnect_task` is posted. The component does nothing to ensure the latter: with
`ConnectAtOnce = TRUE`, `WatchesItsSocket`, `WaitsWithoutSocket` and
`ClosedStaysClosed` fail, because the task takes the new socket for the lost one.

| Run | Instance | Shows |
|---|---|---|
| `PersistentTcp` | 2 files, 4 descriptors, 2 losses, 2 refused connects, resets | all properties |
| `PersistentTcpSleeps` | the same | violation of `Reconnects`: the wake-up that is lost between `McuSleepP.nc:21` and `:22` |

Two files are what it takes for one `select()` to report more than one; two losses for a
reconnect after a reconnect; with two refused connects and two losses four descriptors run out, so
that a connect without a descriptor is seen too. `MaxFailures` also bounds the timer: it
expires while the host is down only as often as a connect may still be refused.

Fairness: the process runs, `select()` returns when a file is ready, a pending
signal is delivered and a running timer expires. Nothing is assumed of the host and of
the application.

`PersistentTcpProofs` proves for all constants `TypeOK` and `NothingOverwritten`, and,
if descriptors fit the map and `ConnectAtOnce = FALSE` (`Tame`), `WatchesItsSocket`,
`WaitsWithoutSocket` and `ClosedStaysClosed`. The three are inductive together, with `Wanted`
(a watched socket, and a posted `reconnect_task` of a present socket, belong to a
connection that the application wants) and `InDispatch` (handlers are told in the dispatch loop
only). `NothingOverwritten` needs `HandedUp`: the process does not sleep, and is not
about to read, while `receive_task` is posted. `LeaksAreLosses` is proved under `Tame` too: an open
descriptor is the present one, and each dead one was paid for by a loss or a refusal
(`LeakInv`). The liveness property is model-checked only.

## The border router: receive path and TUN interface

`CC2520LinuxReceiveP` is the receive child, its pipe, `receiveReady` and `receive_task`; `TunP` is the
IP stack's way to the host; `BorderRouter` puts both into `LinuxProcess`, with a stack
that sends to the TUN whenever one of its tasks runs.

Correspondence. Packets are numbered in the order of their arrival. `pkt_buf` is the child's;
`contents` is what each message buffer holds, `rx_msg_ptr` the one for the next packet, and `kept` the
buffers that the stack holds after `receive` gave another back. `damaged` are the packets
whose CRC fails; `receive_task` drops them. `send_info_struct` is the one record that all sends
share; `unanswered` is history. `ChildFails` is a failing driver: the child closes its end of
the pipe and goes on, so that what it reads later is lost and the parent's `select()` returns at
once, for ever, with the end of the file. A read error of the TUN ends the process (`alive`).

Abstractions. The pipe takes and gives packets whole: they are written in one call smaller than
`PIPE_BUF`. Of the metadata only the CRC bit matters here.

`BorderRouter` has 2 packets of the radio, 2 of the host, 2 sends, 2 buffers and a pipe for one packet, and alarms
without bound. Two of each let a second one arrive before the task of the first has run, which is what
each property is about; two buffers are the least that lets the stack keep one. It shows:

- `ReceivedIntact`: packets that leave the pipe or the device are handed up once, in order, and a
  buffer that the stack keeps is not written again. It depends on the order of
  `IOManagerP` and the scheduler: the process reads files only with an empty task queue, and each file once.
- `SendsAnswered`: a `sendDone` is pending exactly when a successful send is unanswered. It does not say
  that each send has an event of its own, for it has not: two sends are answered by one, which
  tells of the latest, and of a failed one if that failed.
- `NothingStarves`: every packet and every send is served, although a failed radio keeps `select()` busy.

Fairness: process, child and delivery of signals are weakly fair. Going to sleep and
returning from `select()` are strongly fair: alarms may interrupt them, but not every time.

`BorderRouterProofs` proves for all constants `TypeOK`, `ReceivedIntact` and `SendsAnswered`, without any
assumption. They are inductive together with `Scheduled` (while the process sleeps no task but the timer's is
posted, and a file that is still to be told has no task posted), `Filled` (the buffer of a posted task
holds a packet) and `WereRead` (every packet that is somewhere was read).

## Arithmetic: the alarm, and hop-by-hop headers

`AlarmMilli32P` and `RplBorderRouterP` are functions with the real constants; they are not run, and
`ArithmeticProofs` proves what they compute.

`AlarmAheadIsSet`: an alarm for a time still to come is set for exactly that time, or a nanosecond later
when the carry subtracts 999999999, for every reading of the clock and across the wrap of the 32 bits.
`LateAlarmIsLost`: an alarm for a time that is over is due half a millisecond later; in
the last half millisecond of a second `timer_settime` refuses the sum and the timer keeps its old
setting. (`Timespec` is what the kernel accepts. The numbers are SMT's alone: Zenon cannot take
them, so these leaves name SMT.)

`ShortHeaderIsRemoved` and `LongHeaderIsNotRemoved`: the length of a hop-by-hop header is computed in
eight bits; up to 248 bytes it is right, above it at least 256 bytes stay in front of the payload that
the IPv6 header announces, and a UDP checksum is written into them. `DumpHopHopP` has the same statements.

## What the checks found

- A busy send renumbers the packet in flight (`RadioSendNumber`).
- An unforeseen driver answer is reported with an old ack flag
  (`RadioSendOddResult`).
- Server and TUN reader can wait for each other for ever (`TunnelStuck`).
- Assignments are forgotten when the file outgrows the buffer (`TunnelForgets`).
- A timer's task waits in the queue while the process sleeps
  (`PersistentTcpSleeps`).
- The client can wait for ever in three ways, which `ClientComesBack` names.
- A late alarm is lost in the last half millisecond of a second (`LateAlarmIsLost`).

## Not modelled, and why

- Bcm2835 interrupts, GPIO, SPI: memory-mapped registers, and a child process that only two
  test applications use.
- Active message layer: accessors and wiring; its counter is RadioP's once more.
- Serial port, id chip, LEDs, random numbers, clock, command line: wrappers of one or two system calls.
- Of modelled components: short reads and failing writes of pipes between two living processes,
  which the kernel does not do; settings through ioctl; packet contents; atomic sections
  (signal handlers here only post a task); a `select()` that fails; TCP hosts that
  vanish silently.
- Kernel driver and TinyOS libraries: external, modelled as far as the code uses them.
- Build files, start scripts, hardware layouts.

What the proofs leave to TLC: all liveness (`Completes` in `ContractKept`, `ShutdownCompletes`,
`DisconnectRemovesTun`, `ReconnectsUnlessAsleep`, `SendReturns`, `ClientComesBack`, `NothingStarves`), which
is beyond the proof system. Every invariant that a passing run checks is proved, under the
assumptions named above, and so are the action properties.

Worth doing next: short reads in `CC2520LinuxReceiveP`; the metadata of received packets;
low power listening in `RadioP`; `SamePrefixAgain` for a file written by an older version.

## Running

    tlc -workers 2 -config RadioSend.cfg RadioSend
    tlc -workers 2 -config RadioSendAnyApp.cfg RadioSend
    tlc -workers 2 -config Tunnel.cfg Tunnel
    tlc -workers 2 -config PersistentTcp.cfg PersistentTcp
    tlc -workers 2 -config TunnelPair.cfg TunnelPair
    tlc -workers 2 -config Parsers.cfg Parsers
    tlc -workers 2 -config BorderRouter.cfg BorderRouter
    tlapm RadioSendProofs.tla
    tlapm TunnelProofs.tla
    tlapm TunnelPairProofs.tla
    tlapm LinuxProcessProofs.tla
    tlapm PersistentTcpProofs.tla
    tlapm BorderRouterProofs.tla
    tlapm ParsersProofs.tla
    tlapm ArithmeticProofs.tla

The runs whose names end in Number, OddResult, Stuck, Forgets and Sleeps end with the
counterexample they are named for. Definitions commented "faulty variant" are the
mutations of PROJECT.json, with which each property is shown to fail.
