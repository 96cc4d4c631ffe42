# Verification of raptor-lite

raptor-lite is a small C++ network library. An application makes endpoints with
a *connector* (client) or an *acceptor* (server) and attaches them to a
*container*, which then reads, writes, times out and closes them on its own
threads and calls the application's handlers. This directory holds TLA+ models
of it, TLC configurations that check them on small instances, and TLAPS proofs,
for all instances, of the safety properties that the passing runs check, all but
one, and of one refinement. The container is modelled as the Linux build has it; the
Windows port, a second implementation of connection, polling, connector and
listener, has modules of its own.

## 1. Inventory

| Component (source) | State | Operations | What makes it correct |
|---|---|---|---|
| **Connection table** (`common/container_impl.cc`) | `_mgr` slots, each a `shared_ptr<Connection>` and an iterator into `_timeout_records`; `_free_index_list`; `_last_check_time`; ids in the endpoints | attach (with expansion), close, send, the error/recv/send event handlers, timeout sweep, heartbeat timer, shutdown | a slot is free or occupied, never both or leaked; every occupied slot has its own record; indices carried without the lock stay in range; nothing is lost unannounced |
| **Message queue** (`common/container_impl.cc`) | `_mpscq`, `_count`, `_mutex`, `_cv`, `_mq_threads` | the four `On...` posters, `MessageQueueThread`, `Dispatch`, shutdown and drain | count and queue agree; handlers run one at a time in posting order; nothing is stranded; shutdown ends the threads |
| **MPSC queue** (`utils/mpscq.cc`) | `_newest`, `_oldest`, `_stub`, `next` of every node | `push`, `PopAndCheckEnd` | linearizable FIFO, no access to a node after its deletion, `empty` is honest |
| **Connection, receiving** (`linux/connection.cc`, `linux/epoll_thread.cc`) | `_rcv_buffer` under `_rcv_mutex`, edge-triggered registration | `DoRecvEvent`, `OnRecv`, `ParsingProtocol`, `Shutdown` | the byte stream is cut at packet boundaries, in order, and no packet waits in the buffer or behind a lost edge |
| **Connection, sending** (`linux/connection.cc`) | `_snd_buffer` under `_snd_mutex` | `SendMsg`, `OnSend`, `DoSendEvent`, `Shutdown` | accepted bytes reach the wire in order and in the end |
| **SliceBuffer, Slice** (`utils/slice_buffer.cc`, `utils/slice.cc`) | a vector of slices and `_length`; counted blocks | add, pop, merge, get and move a header, clear; copy, move, assign | it behaves like one byte sequence; a block lives as long as a slice of it |
| **Polling threads** (`linux/epoll_thread.cc`, `linux/epoll.cc`) | an epoll descriptor and one `_events` array shared by its threads | `DoWork`, `Add`, `Modify`, `Delete`, start and shutdown | no event is lost or given to a dead object |
| **Timer, log, Thread** (`utils/timer.cc`, `utils/log.cc`, `utils/thread.cc`) | a queue of new items, a table of deadlines, the state and the start/join handshake of the thread | `SetTimer`, `LogFormatPrint`, `WorkThread`, `LogThreadProc`, start, shutdown | an item is dealt with once, a timer not early; join returns after the body; nothing is left behind |
| **Connector, acceptor** (`linux/tcp_connector.cc`, `linux/tcp_listener.cc`) | records of pending connects, list of listening sockets, the descriptors of the process | connect, listen, accept, error and shutdown paths | each connect has one answer; every descriptor has one owner and is closed once |
| **Windows port** (`windows/*.cc`) | one completion port for the process; overlapped operations and their memory; `_records`, `_heads`; `_send_pending` | ConnectEx, AcceptEx, overlapped send, zero-byte receive, shutdown | no memory is freed while an operation uses it; an accept is always armed; one send at a time; the stream arrives and leaves in order |
| **Addresses, sockets, properties** (`common/*.cc`, `*/socket_setting.cc`, `surface/*.cc`, `impl/property.h`) | values | split and join, format, map, resolve; prepare a socket; set and read options | conversions lose nothing; a failed call leaks no socket; a socket that is ready fits its address |
| **References, intrusive list** (`ref_counted*.h`, `list_entry.cc`) | counters; two links per entry | assign, move, reset; push, pop, remove | an object dies with its last reference; the list is a sequence in both directions |
| Small utilities, examples | | | see section 6 |

**Interactions.** The receive threads (`_poll_thread`) and the send threads
(`_back_thread`) take events from two epolls; an event carries only a connection
id. They look the connection up in the table (`_conn_mtx`), work on it without
that lock (`_rcv_mutex`, `_snd_mutex`), and go back to the table to refresh its
deadline or to delete it. Between two polls a receive thread also runs the
timeout sweep, holding `_conn_mtx` throughout. Whatever a handler of the
application has to learn goes through the message queue. The heartbeat timer
re-arms itself per connection through the table. Connector and acceptor have
polling threads of their own and hand descriptors over to endpoints, which the
application closes or attaches. On Windows all of them share the threads of one
completion port, which the first `PollingThread` starts and joins.

**What is hard.** The same bare index is used in two critical sections with
anything in between; two epolls report the same hang-up; the last
`shared_ptr` may be dropped by any thread; messages are posted without the
mutex of the condition variable; the queue is wait-free for producers; events
are edge-triggered; writes and reads are partial; descriptors are reused as soon
as they are closed; overlapped operations go on using memory after the call;
shutdown runs against all of it. PROJECT.json lists these as hazards, each at
its line.

## 2. Modules

| Module | Models | Extends / instantiates |
|---|---|---|
| `ConnTable` | the table and every thread that works on it | |
| `ConnTableProofs` | proofs about the table (free list, records, indices) and about a connection's life in it (references, deadline, heartbeat, close event) | `ConnTable` |
| `Fifo` | what the MPSC queue promises: a set of nodes, a sequence | |
| `Mpscq` | the MPSC queue, one step per shared access | instantiates `Fifo` as the refinement target |
| `MessageQueue` | posters, message-queue threads and shutdown around the queue | |
| `MessageQueueProofs` | proofs about it | `MessageQueue` |
| `SliceBuffer` | the buffer's operations as operators | |
| `SliceBufferProofs` | lemmas: what these operators and those of `Framing` do, for buffers of any number of slices of any length | `Framing` |
| `Framing` | what a connection does with the bytes it has received, on both platforms: parsing and delivering | `SliceBuffer` |
| `Connection` | what both halves of a Linux connection share: the descriptor and its shutdown | `SliceBuffer` |
| `SendPath` | one connection's sending side on Linux | `Connection` |
| `RecvPath` | its receiving side | `Connection`, `Framing` |
| `LinuxConnection` | the two halves, as the module of one run | `SendPath`, `RecvPath` |
| `ConnectionProofs` | proofs about the two | `SendPath`, `RecvPath`, `SliceBufferProofs` |
| `LinuxSockets` | connector, listener, their threads and the descriptors of the process | `Settings` |
| `LinuxSocketsProofs` | proofs about it | `LinuxSockets` |
| `Worker` | `Thread`, and timer and log as threads with a queue | |
| `QueueProofs` | proofs about the MPSC queue, the refinement included, and about the workers | `Mpscq`, `Worker` |
| `IocpSockets` | connector, listener and completion port on Windows | `WindowsSetting` |
| `IocpConnection` | a connection on Windows | `Framing` |
| `Windows` | the two, as the module of one run | `IocpSockets`, `IocpConnection` |
| `WindowsProofs` | proofs about both parts of it | `Windows`, `SliceBufferProofs` |
| `SliceBufferUse` | every sequence of buffer operations beside a plain byte sequence | `SliceBuffer` |
| `RefCounts` | `RefCountedPtr` and the counted blocks of slices, by several threads | |
| `IntrusiveList` | `list_entry` as two functions of links | |
| `Addresses` | joining and splitting, address forms and texts, resolution | |
| `SocketSetting` | the calls that make a socket ready on Linux, each of which may fail | `Addresses` |
| `Settings` | property entries as machine words, options of container, connector, acceptor, and what they set on a socket | `SocketSetting` |
| `WindowsSetting` | the calls that make a socket ready on Windows | `Settings` |
| `Utilities` | the sequential parts as one run, and their properties | the modules above from `SliceBufferUse` on |
| `UtilitiesProofs` | proofs about the buffer, the list, the references and the addresses in it | `Utilities`, `SliceBufferProofs` |

**ConnTable.** An action is what happens between a lock and the unlock of
`_conn_mtx`, or a step of a handler between two of them; `pc`, `op`, `idx`,
`con` are the thread's place, handler, index and `shared_ptr`. The sweep holds
the mutex over several steps (`connMtx`), because `Connection::Shutdown` inside
it interleaves with threads that are not in the table. A connection and its
endpoint are one handle, the number from `global_counter`. Dropping the last
reference closes the socket (`Referenced`). `cid` is never reset, as in the
code, so calls through the endpoint of a connection that is gone are made too.
Data, peers and system-call results are choices; `ready` keeps the flags each
epoll has still to report. Polling is lossless here; the loss of events by the
shared `_events` array is in `RecvPath`. `Shutdown` goes through its phases in the
order of the code: polling threads joined, the `Timer` shut down, which drops its
delays and from then on refuses new ones (`SetTimer`), message-queue threads
joined, table emptied. Application threads go on until the last of them.

**MessageQueue.** The queue of `Mpscq` seen from outside: `queue` in exchange
order, `linked` for the pushes that are complete, so that `Pop` fails at a gap.
Posting is three steps (push, count, signal); the consumer tests, waits and
wakes as written, spuriously too. The four message kinds are one; a handler may
post.

**Mpscq.** All shared accesses of `push` and `PopAndCheckEnd` are steps. Nodes
are reused after deletion, so that a late write to a deleted node is visible.
The refinement maps the history `order` (nodes exchanged in and not taken out)
to `Fifo`'s sequence.

**RecvPath / SendPath.** A byte is its position in the stream, so loss, doubling and
reordering show in the value. The kernel is modelled by how the code uses it:
`rcvReady` and `sndReady` are the edge-triggered ready lists, `taken`/`sent` and
`room` the socket buffers; `EPOLL_CTL_MOD` re-reports a condition that holds.
`ParsingProtocol` is one action with its inner loop as code does it, including the
`continue` in a `do { } while (false)`. The two receive threads share `event`, the
entry of `_events`; `edge` remembers whether one was overwritten before it was read. A
`send` may fail on a socket that is open (`failed`): the rest stays in the buffer.
`SendMsg` gets no empty messages: `surface/endpoint.cc` and `surface/container.cc`
return before them. The halves have in common the descriptor and the course of
`Shutdown`, and no mutex, buffer or thread; a behaviour of `LinuxConnection` is one of
the one half or one of the other.

**LinuxSockets.** A socket is a number for ever, its descriptor one of a few
that are given out again once closed; `files` is the process's table. A close is
an action on a descriptor, so one that comes too late closes another socket and
sets `foreign`. A polling thread takes a batch of events and handles them one by
one: first the removal from the epoll and the handler, then the erasure of the
record, with the application's threads in between.

**Worker.** A `Thread` is made, started and joined step by step, with the
arguments that `Run` deletes (`args`) and the id that the constructor reads from
them (`handle`). A behaviour is one of a timer or one of the log (`kind`); both
are a flag, a queue and a thread. A push is its exchange and its link, and
`PopAndCheckEnd` says empty when the oldest node is not linked yet, whatever stands
behind it (`SaysEmpty`), so that a drain may end with nodes left; `racing` are those
of callers who were between their test of the flag and the end of their push when
it was set. A unit of the clock is a round of the timer.

**IocpSockets.** An overlapped operation has memory (`mem`), a state in the
kernel (`io`) and a socket. A thread takes a completion, looks the socket up
(`FindEventService`) and runs the owner's handler in steps. A socket that is
closed fails its pending operation. The listener's `Shutdown` holds no lock and is
followed step by step while the port's threads run: it copies the head of its list,
pops and deletes one `AcceptObject` after the other, and then, because the entries
lead back to the real head and not to the copy, pops and deletes that
(`DeleteHead`). From there on the code is undefined; the listener stays where it is
(`"undefined"`) and the other threads go on. **IocpConnection** has the same port
seen from one connection: `sendIo` is the one overlapped send, with the bytes it was
given, `recvIo` the receive of no bytes, which `Init` may fail to begin (`unarmed`).
The protocol handler answers with a length, asks for more or refuses.

**The sequential modules** are operators: a call that may fail returns the set
of its outcomes (`Ok`, `Fail`), a chain of calls is `AndThen`. An address is a
family, a prefix, a scope and a port, a text a short sequence of tokens. Words are
numbers modulo a small power of two; an `int` that becomes a `size_t` option is
such a word, so that -1 is the largest. `Utilities` walks through the buffer,
reference and list operations, and evaluates the others on every bounded input.

## 3. Runs

All bounds are constants in the `.cfg` files. All runs but `MessageQueueLost` and
`WindowsConnect` pass. A property that a `.cfg` names is often a conjunction of named
parts, which the module states one by one with what each is about: `StreamIntact`, for
example, is `RcvTypeOK`, `PacketsIntact`, `BufferExact` and `NoPacketWaits`.

| Run | Instance | Shows |
|---|---|---|
| `ConnTableRaces` | receive, send and application thread; 1 slot growing to 2; 2 connections | types, free list exact, indices in range, size limit, sockets closed at shutdown |
| `ConnTableSweep` | receive and application thread; 1 slot growing to 2, 2 connections; clock to 2, timeout 1 | records exact while the sweep evicts; only silent connections time out; none is lost unannounced but to a stale delete |
| `ConnTableTimers` | receive, application and timer thread; 1 slot, 2 connections in turn | one heartbeat delay per online connection until the `Timer` is shut down, dead ones run out, a hang-up frees the slot |
| `Mpscq` | 2 producers, 3 reused nodes | refinement of `Fifo`, no use after delete, honest `empty`, every node popped |
| `MessageQueue` | 2 posters, 2 consumers, 3 messages | `_count` exact, handlers in order, clean drain, progress while a thread is awake, shutdown completes |
| `MessageQueueLost` (violation) | 1 poster, 1 consumer, 2 messages | a lost signal strands a message |
| `LinuxConnection` | sending: 2 application threads, 1 send thread, 3 messages of 1 or 3 bytes, socket room 2; receiving: 2 threads, up to 2 packets of 2 or 3 bytes or bad, reads of 3, header of 2 | sending: order, the front slice exists, what is accepted is sent unless a `send` fails; receiving: the stream stays in order and whole, the buffer is what is undelivered, no packet waits, everything sent whole is delivered |
| `LinuxSockets` | connector and listener with a thread each, 1 application thread, 3 sockets on 2 descriptors | no close hits another socket, one owner per descriptor, one answer per connect, shutdown releases, is final and ends |
| `Worker` | 2 users, 2 items, clock to 3, started twice | each item once, no timer early, join waits and returns, what is left in the queue stands behind a push that raced with shutdown |
| `Windows` | port with 2 threads; 1 connect, 2 accepts, 3 sockets; a connection with messages of 1 or 4 bytes, at most 3 bytes a send and 2 a read; up to 2 packets of 3 bytes or bad | memory in use is live, one owner per socket, accepts stay armed, one send at a time in order, packets whole, a receive outstanding; connects answered, shutdown ends, the buffer is sent |
| `WindowsConnect` (violation) | as `Windows`, 1 packet | `OnConnect` is called for a connect that failed |
| `Utilities` | 4 bytes in slices of 0 to 3; 2 threads, 3 handles, 2 blocks; lists of 3; hosts of 4 tokens; scopes 0 and 3 | see the sequential parts in section 1 |

**Why the bounds are enough to be interesting.** With two connections on a
table of one slot a stale index meets an empty slot, the slot's next owner and a
table that has grown. That is also how `ConnTableSweep` reaches the delete that
hits a later connection. One thread of each kind gives every pair of handlers that
can meet on a connection, the send and receive threads both shutting it down
included. The clock needs two ticks: one to expire, one to be refreshed. Three
nodes let the stub be pushed behind, before and between nodes, and a node come
back while a producer is still linking. A read size of 3 against packets of 2
and 3 makes packets end inside, at and after a read; room 2 against messages of
3 makes every second write partial. Three sockets on two descriptors make every
late close hit a new socket. Two items can have the same deadline, be in one
round, or one in the table and one in the queue; two starts make the thread be
used again. Two threads on the port let a completion be handled while another
thread is in the same connection or object; messages of 4 against 3 bytes a send
reach the slice that fits no send. The socket part of `Windows` was also checked
for its invariants with four sockets.

Deadlock is checked except where the modelled objects may come to rest: a closed
connection (`LinuxConnection`, `Windows`), objects that have been shut down
(`LinuxSockets`, `Worker`, `Windows`), and the exhausted inputs of `Utilities`.

**Fairness.** Weak fairness on what a thread does once it has begun: threads run and
mutexes are released. Strong fairness on `PollEvent` and `TimerFire` per connection in
`ConnTable`: epoll's ready list and the timer's tree are ordered, so a thread that
goes on taking entries reaches each of them, the timer's until it is shut down.
`LinuxConnection` assumes that the peer goes on reading, `Worker` that the clock goes
on, `LinuxSockets` and `Windows` that the kernel ends every connect and every send.
Nothing forces a peer to send, an application to post or to call, or a condition
variable to wake spuriously.

## 4. Where code and documents part

* **Lost wakeup** (`MessageQueueLost`). The posters count and signal without
  `_mutex`. A signal between a thread's test of `_count` and its `Wait` wakes
  nobody; the message waits for the next one. `AwakeDelivers` states what does
  hold. The same window exists for the `Broadcast` of `Shutdown`, which is why
  `ShutdownCompletes` is about a broadcast that finds no thread in it.
* **`OnConnect` for a failed connect** (`WindowsConnect`). `property.md:80` says that a
  call of `OnConnect` means that the connection was established, and
  `tcp_connector.cc:143` has a branch that reports an error by `OnErrorOccurred`
  instead. On Windows a failed `ConnectEx` arrives with the event type of the connect,
  since nothing sets `kErrorEvent` for it, and `OnConnect` is called.
  `ConnectExAnswered` says only that the handler hears of every connect, once.

Further behaviour that the models contain, or assume away, and that the
properties leave out by name:

* *Container.* `ConnectionId()` stays valid after the endpoint has left the
  container (`endpoint.h:39` says it does not), and an old id may name the slot's
  next connection. A `DeleteConnection` with a stale index drops that connection
  without a close event: a thread has shut a connection down and is about to delete
  it, another has deleted it meanwhile, and the index has been given away again.
  `NoSilentLoss` excepts this one case (`StaleDelete`), and says that the victim is
  always a later connection than the one that was shut down. A
  default size above `MaxContainerSize` admits more than the maximum
  (`WithinMaxSize` asks for the opposite). Sending refreshes the receive timeout.
  Two threads may both pass the `IsOnline` test of `Connection::Shutdown`. A
  receive thread may post data after another has posted the close. A negative `int`
  given for an option of the container becomes a huge `size_t` (`container.cc:117`);
  `OptionsAsGiven` says that the option is that word.
* *Receiving.* Data that is unread when the peer's close is reported is discarded,
  and an event that a second receive thread overwrites in `_events` is never
  handled (`SentIsDelivered` excepts both, the latter as `edge = "lost"`).
  `continue` in `do { } while (false)` (`connection.cc:232`) leaves the loop
  instead of reading twice as much, although the comment says that 0 means more
  data is needed; a handler that needs more than 1024 bytes gets empty packages.
  The run has handlers that do not (`HeadBytes <= HeaderSize`).
* *Sending.* An error of `send` other than `EAGAIN` on an open socket leaves the loop
  and returns as if all were sent (`linux/connection.cc:190`): the rest stays in the
  buffer until something is sent again or the connection closes (`AcceptedIsSent`
  excepts it as `failed`).
* *Queue.* `push` may return true for a node that is not the first.
* *Worker.* A push by a caller that had tested the flag before it was set may stay in
  the queue; and since the drain of `Timer::Shutdown` and `LogCleanup` ends when
  `PopAndCheckEnd` says empty, such a caller between its exchange and its link also
  leaves behind everything that was pushed after it, long before the flag perhaps.
  `OnlyRacingLeft` says that nothing else is left: what is, begins with the node of
  such a caller. A thread id read from deleted arguments makes `Join` return
  at any time (`handle = "garbage"`). A log message below the minimal level is not
  freed (`leaked`).
* *Connector and listener.* The application's `OnErrorOccurred` handler is assumed
  not to close the endpoint, which the connector closes itself. A connect after
  `Shutdown` is recorded and never closed (`ShutdownReleases` speaks of what was
  there when it began). Descriptor 0 is taken for an error by the code; `Fds` has
  no 0.
* *Windows.* Failed completions carry handle id 0 and are dropped by all
  connections but the first (`unmatched`). A read that fills the buffer exactly
  and is followed by nothing ends without a new receive (`stalled`). `Init` of a
  connection may fail to begin the first receive, and `container_impl.cc:284` ignores
  that: the connection is open and never receives (`unarmed`). `ReceiveOutstanding`
  names these three and no other. The listener's `Shutdown` deletes its
  `AcceptObject`s while their accepts are pending and goes on to the head of the list
  (`tcp_listener.cc:97`, see section 2); it is not known to return, and the listening
  socket is never closed, so `PortShutdown` promises something of the listener only
  when no port was added, and of the connector unless a thread that it waits for is
  itself in the listener's `Shutdown`. A polling thread whose accept fails may join
  itself.
  An IPv4 socket of the fall-back is refused by `raptor_set_socket_ipv6_only`
  (`WindowsSocketFits` is about the sockets that come out ready).

## 5. Proofs

The theorems hold for any sets of threads, connections, nodes, messages, sockets
and items, for messages, packets, reads and hosts of any length, and for all sizes
and bounds. Each is about the specification that a run checks; where "states"
names one property, the run checks the same definition.

| Module | Theorem | States |
|---|---|---|
| `ConnTableProofs` | `TypeCorrect` | `Spec => []TypeOK` |
| | `FreeListStaysExact` | `Spec => []FreeListExact` |
| | `RecordsStayExact` | `Spec => []RecordsExact` |
| | `IndexSafe` | `Spec => []IndexInRange` |
| | `NeverOverwritten` | `Spec => NoOverwrite` (an action property, proved only) |
| | `CapacityRespected` | `Spec => []WithinMaxSize` |
| | `ShutdownComplete` | `Spec => []ShutdownClosesAll` |
| | `TimeoutsJustified` | `Spec => TimeoutOnlyWhenSilent` (action property) |
| | `OneHeartbeat` | `Spec => []HeartbeatChain` |
| | `NeverLostSilently` | `Spec => NoSilentLoss` (action property) |
| `MessageQueueProofs` | `CountNeverDrifts` | `Spec => []CountsAgree` |
| | `HandlersInOrder` | `Spec => []HandledInOrder` |
| `QueueProofs` | `SafeForNodes` | `Spec => []NodesSafe` |
| | `EmptyMeansEmpty` | `Spec => EmptyIsHonest` (action property) |
| | `ImplementsFifo` | `Spec => IsFifo` (refinement of `Fifo`) |
| | `NothingLost` | `WorkSpec => []ItemsAccounted` |
| | `ShutdownLeavesRacingOnly` | `WorkSpec => [](JoinWaits /\ OnlyRacingLeft)` |
| `LinuxSocketsProofs` | `DescriptorsStayOwned` | `Spec => []DescriptorsOwned` |
| | `NeverAnsweredTwice` | `Spec => []AnsweredOnce` |
| | `ShutdownLeavesNothing` | `Spec => [](ShutdownReleases /\ QuietAfterShutdown)` |
| `ConnectionProofs` | `WireStaysExact` | `SndSpec => []WireExact` |
| | `StreamStaysIntact` | `RcvSpec => []StreamIntact` |
| `WindowsProofs` | `OperationsStaySafe` | `Spec => []OperationsSafe` |
| | `PortShutdownLeaves` | `Spec => [](ShutdownClosesOwned /\ QuietAfterFirst)` |
| | `SendsStayExact` | `Spec => []SendsExact` |
| | `ReceivesStayExact` | `Spec => []ReceivesExact` |
| `UtilitiesProofs` | `BufferStaysBytes` | `Spec => []BufferIsBytes` |
| | `ListStaysSequence` | `Spec => []ListIsSequence` |
| | `ReferencesStayExact` | `Spec => []ReferencesExact` |
| | `AddressesStayFaithful` | `Spec => []AddressesFaithful` |

**Assumptions.** Sizes and bounds are naturals, the table's sizes, the number of
listening threads and what must not be empty positive (`SizesAssumption`,
`ClockAssumption`, `HandlesAssumption`, `MaxMsgsAssumption`, `WorkerAssumption`,
`DescriptorsAssumption`). Special values are none of the values they stand beside
(`NullAssumption`, `NodesAssumption`, `ListAssumption`, `ThreadsAssumption`,
`RefsAssumption`). What is counted is finite: timer threads (`TimersAssumption`),
handles and threads (`RefsAssumption`, `ThreadsAssumption`, `WorkerAssumption`),
descriptors. Messages are not empty and buffers have room (`SendAssumption`,
`RecvAssumption`, `FramingAssumption`, `BufferSizesAssumption`,
`BufferBoundsAssumption`). `FramingAssumption` also has the protocol handler tell the
length of a packet from at most `HeaderSize` of its bytes; of one that needs more,
`StreamIntact` is false, for the reason that section 4 gives (`connection.cc:232`).
Ports are 16 bits and their decimal text is not a colon (`CallsAssumption`,
`PortTextAssumption`: the text is TLC's `ToString`, of which the provers know
nothing); the text of a scope is not a bracket (`ScopeAssumption`). TLC evaluates all
of them on the runs.

**The arguments.** None of the properties is inductive as it stands.

* *Table.* `IInv == Core /\ OnlineInv`. A handler that arrives at
  `DeleteConnection` is harmless only because its index is in the table, and the
  sweep erases a slot without a test, which is right only because it has held the
  mutex since it read the record. So `Core` has, besides types (`SharedType`,
  `LocalType`) and `TableInv` (free list and records), `ThreadsInv`:
  `IndexInRange`; `IdsInv`, that ids handed out are below the table's size, which
  `CheckConnectionId` compares only with the maximum; `SweepInv`, that the thread
  in the sweep owns the mutex and the slot it has chosen stays occupied;
  `HoldsInv`, that a thread at work on a connection holds a reference to one.
  `OnlineInv` says that only connections with an id have open sockets.
* *A connection's life.* `LifeInv`: a connection sits in the slot of its id and
  nowhere else, and an open socket is in the table or in the hands of a thread;
  so when Shutdown has emptied the table and joined the threads nothing is open.
  `TimeInv`: a deadline is the last data's time plus the timeout unless a refresh
  is still to come. `BeatInv`: a delay belongs to the connection whose number
  (`tid2`) it carries, pending or with one timer thread (counted as a finite set),
  until the Timer is shut down.
  `AskedInv` and `VictimInv`: who closes without an event was asked to; what a thread
  is about to delete has been shut down, and the slot of its index holds that
  connection, a later one or none, while the sweep, which keeps the mutex, still finds
  the one that it shut down. So a connection that is open when it leaves the table was
  announced, or is younger than the one that its index was kept for.
* *Message queue.* `Control`: the mutex is held by the thread whose label is
  inside; a thread that saw `_count` positive still finds it so, since only the
  holder counts down; the queue is the messages posted last; what is handled, in
  hand and queued is what was posted. `CountExact` then adds the posters between
  push and count.
* *MPSC queue.* `Chain`: there are numbered cells `lo .. hi` from `_oldest` to
  `_newest`, each linked to the next or with exactly one store pending that will
  link it; `order` is the cells without the stub. Every exchange adds a cell at
  `hi`, every pop moves `lo`. `Owned`, `TailInv` and `StubNull` say what a thread
  in the middle of `push` or pop relies on. The refinement follows: a
  `PushExchange` is `Fifo`'s `Put`, a step of pop that moves `_oldest` on
  (`Advance`) its `Take`, and all else stutters.
* *Linux sockets.* `RolesInv`: each open socket is the caller's, a record's, the
  listener's or an endpoint's, each of whose sockets are open; a record whose
  callback has returned (`Handled`) owns nothing. `PollInv` ties what the polling
  threads have in hand to the records, `DueInv` follows what Shutdown found.
* *Timer and log.* `Single`: an item made is in exactly one of six places, as a
  set of kinds; `OwnerInv` ties the thread's state to the owner's step. What is not
  linked is in the queue, and when the flag is set whoever has an item in hand or to
  link (`UnderWay`) is among the `racing` (`RaceInv`); so a drain that meets an
  unlinked node meets one of these.
* *Windows sockets.* One at a time works on an operation: the caller, the kernel
  or the port's queue, or a thread (`UseInv`, `CallInv`); `ListenerInv` and
  `HandedOver` say when memory and sockets change hands, `TrackInv` that the
  connector loses no open socket during Shutdown.
* *The buffer.* The bytes of a buffer are the concatenation of its slices, a
  recursive function over them; so are copying out, moving the header and, in the
  connections, parsing. The library's induction rules take a predicate as a
  parameter, which these provers cannot instantiate. Instead a set of numbers takes
  its place: one that has 0 and with every number the next has them all, because a
  number outside it would have a least one (`SetInduction`, from the
  well-foundedness of the naturals). Applied to the set of lengths for which a
  function with the recursive equation exists, and to the set for which its value
  is what it should be, this gives lemmas about every operator for every buffer;
  `Holds(b, bytes)` is what they say of it: the slices make up the bytes, and
  `_length` is their number. `BufInv` is then preserved operation by
  operation.
* *Sending on Linux.* `SndInv`: what the wire has is a prefix of what was accepted
  (`OnWire`), the buffer `Holds` the rest until Shutdown clears it (`InBuffer`), and
  for the thread that holds the mutex between looking at the front slice and moving
  it that slice is still there (`FrontExists`).
* *Receiving on Linux.* `RcvInv`: the packages delivered are the packets in order
  and end where a packet ends (`InOrder`, with `Ends` the sums of the lengths, again
  a recursive function), the buffer `Holds` what was taken and not delivered, and
  unless a thread is about to parse or to shut down, that begins with no whole packet
  (`Waits`).
* *A connection on Windows.* `ConnInv`. `OneTurn`: the overlapped send is idle, with
  the kernel, or reported to one thread, and in the last two cases `_send_pending` is
  set, so that no second one is begun. `Sending`: of the bytes accepted `d` have left
  the buffer and `r` are in it, and the wire is `o` bytes ahead of the first, the
  number that the completion on its way will move; `Fronts` ties the memory the kernel
  was given to the front of the buffer. `Receiving`: `g` bytes are delivered, in whole
  packets if there is a handler, `r` in the buffer, fewer than a packet, and together
  they are the bytes taken. `ReceiveOutstanding` is inductive beside `OneReader`; a
  first receive that failed is remembered from the start. When the connection has gone
  offline the buffers are no longer constrained, and the wire and the deliveries only
  stay as they are.
* *Addresses.* One call, so the invariant (`CallInv`) only says that the result is an
  outcome of the input; the work is in the operators. A joined name is described by
  its length and the token at each place (`Bracketed`, `WithColon`), `Find` by the
  first place of a token, and splitting then computes the parts that were joined.
* *List.* `Ring`: the sequence without repetitions whose places both chains run
  through, the head at both ends; linking and unlinking an entry make the ring of
  the longer or shorter sequence.
* *References.* `RefInv`: a counter is the number of *claims* on its block, the
  handles that will be on it when their threads have done what they are doing, but
  for those not counted yet, and the threads that have still to count it down. A
  count up adds the handle set last, a count down takes the thread away, setting a
  handle changes no claim, and beginning an operation exchanges one claim for
  another. `Rest` says what can be left of an operation, in particular that a
  block about to be counted up is kept alive by another handle or by the count
  down that follows; with the reset first (`PtrAssignResetFirst`) it is not.

**What the proofs changed.** `TimeoutOnlyWhenSilent` had been stated for one
receive thread. With two or more (`recv_send_threads` of 4 and up) the sweep of
one may close a connection whose data another has read but not yet booked; the
property now says so. `NodesSafe` got `ReturnsHead`, which the refinement needs.
Folds and loops over slices were rewritten as functions of the number of rounds
(`MoveFront`, `CopySlice`, parsing in `Framing`), which is also nearer to the code.
`SplitBracketed` was a `CASE` with two conditions true for a bracketed host without
a colon; TLC takes the first, TLA+ does not say; it is now an `IF`, as in the code.
`NoSilentLoss` had been stated for a table with a slot per connection; `VictimInv`
shows what it comes to when indices are used again.

**Only model-checked.**

* Liveness, which with fairness and `ENABLED` is outside the prover's reach:
  `HangupFreesSlot`, `DeadTimersEnd`, `EveryNodePopped`, `AwakeDelivers`,
  `ShutdownCompletes`, `SentIsDelivered`, `AcceptedIsSent`, `ItemsHandled`,
  `ConnectExAnswered`, `BufferIsSent`, and the halves of
  `ConnectAnsweredOnce`, `ShutdownFinal`, `ShutdownClean` and `PortShutdown` that
  say that something happens. Their other halves are theorems.
* `SocketsAsConfigured`. It is about chains of system calls, each of which may fail,
  started from finitely many inputs, and depends on no size; of the constants only
  `Ports` occurs in it, and only as a value that is passed on. TLC goes through every
  outcome of every chain, so a proof would repeat the same enumeration.

## 6. Not modelled

* Small utilities (strings, colours, clock, processor count), error texts and log
  formatting: no state that another part depends on. Examples: programs that use
  the library.
* Application threads that call the container after `Shutdown` has emptied the
  table: undefined behaviour in the code; the models assume they have left. The
  same for a handler that calls `Shutdown` of the object whose thread runs it.
* A `ProtocolHandler` that calls back into the container: it runs under
  `_rcv_mutex`, and the timeout sweep takes `_rcv_mutex` under `_conn_mtx`, so
  such a handler can deadlock. The models' handler computes a length.
* Several send threads losing events through their shared `_events`: the same as in
  `RecvPath`, not repeated in `SendPath`, whose liveness is therefore checked with one
  send thread. Connector and listener are modelled with one thread each, the default.
* Closing one connection's descriptor twice: `ConnTable` has no descriptor
  numbers, and `Connection::Shutdown` closes, resets and posts in one step there
  (`ShutdownClose`), and `LinuxSockets` closes an endpoint in one step.
* Windows: a second listening port, `PollingThread`s made after others are gone,
  reuse of handles and of freed memory. The container's handlers are those of
  `ConnTable`, with one polling object instead of two.
* `epoll_create`, thread creation and memory failing inside `Init`, except for
  the thread of `Worker`.

## 7. Plan

A module that composes table, receive path and message queue: order of
notification, data and close messages of a connection; the lock order with a
protocol handler that calls back; `Connection::Shutdown` on numbered descriptors.
`ConnectionProofs` and `QueueProofs` extend two specifications each, which is what
such a module would do with its parts and their theorems.
