# allium, specified in TLA+

allium is a header-only OpenFlow controller library on top of Boost.Asio. A
controller accepts connections from switches, agrees with each on a protocol
version, cuts what the switch sends into messages, and hands these to the
application's handlers. Example controllers add decorators to it, the largest
of which pairs requests with their replies. This directory models those parts
in TLA+. TLC checks the models on small instances, and TLAPS proves the most
important properties for instances of any size.

Paths below are relative to `src/`; `C` stands for
`include/canard/net/ofp/controller`.

## 1. Inventory

### How the parts fit together

    controller -- accepts --> setup_connection -- hands the socket to --> channel
        |                          |                                   /        \
    io_service_pool           timer, strand                      reader          writer
    (threads)                                             (message loop)     (write queue)
                                                                |                 ^
                                           decorators, then the application ------+
                                           (transaction_decorator)

Threads of the pool run handlers. All handlers of one connection go through
one strand: the set-up, the reading loop, completed writes, and the timers of
transactions. What crosses strands is guarded separately: the table of
transactions by a mutex, message buffers by atomic counts, the pool by a mutex.

| component | state | operations | what makes it correct |
|---|---|---|---|
| transactions (`examples/v13/transaction_controller/transaction_decorator.hpp`, `message.hpp`; the twin in `examples/v10/transaction_switch`) | a table from keys to weak pointers; per transaction a message, a timer, its owners | `async_send_request`, `async_receive_response`, handling of replies and errors, destruction | an answer reaches the request it answers, once; a receive that ends after the answer ends with it; nothing stays in the table |
| connection set-up (`C/setup_connection.hpp`) | socket, timer with an id, buffer | start, one handler per operation, timeout | the highest common version; every step ends; no timeout disturbs a later step or the channel |
| channel, reading (`C/secure_channel_reader.hpp`, `C/v10/secure_channel.hpp`, `C/v13/openflow_channel.hpp`) | stream buffer, a read under way | `run`, the read handler, `handle_read`, dispatch | messages are cut independently of reads, in order, none waits; hello first, goodbye last |
| channel, writing (`C/secure_channel.hpp`) | the strand's queue, the write queue (a library outside the repository) | `async_send`, `close` | order of sends but for those that overtake from the strand; every handler is called |
| buffers (`C/with_buffer.hpp`, `C/shared_buffer_generator.hpp`, `include/canard/asio/shared_buffer.hpp`) | reference count | copy, release, resize | what is written is what was encoded; freed after the last use, and then really freed |
| controller (`C/controller.hpp`, `C/options.hpp`) | acceptor, `listening_` | `run`, `listen`, `stop` | a stop is not lost, accepting goes on |
| pool (`include/canard/net/utils/io_service_pool.hpp`) | io_services, futures, mutex | `start`, `stop`, `reset` | no threads on stopped io_services, no deadlock |
| decorators (`C/decorator.hpp`) | per-channel data | forwarding | each decorator sees a message once, in order |
| hooks (`include/canard/asio/asio_handler_hook_propagation.hpp`, ...) | none | overloads | wrapped handlers run where their inner handler must |
| learning switches (`examples/v*/learning_switch`) | forwarding database, age-out timer | hello, packet-in, tick, goodbye | entries age out, channel is released |
| packet-in coroutines (`transaction_controller.cpp`, `transaction_switch.cpp`) | a coroutine per packet | flow_add, barrier, a look at the flow_add, packet_out | the packet is sent only after a flow that was accepted; coroutines end |
| packet parser (`include/canard/packet_parser.hpp`) | the range that is left | one parse function per kind of header | the headers of the frame, in order, and no byte outside it |
| match creation (`examples/v10/match_creator.hpp`, `examples/v13/oxm_match_creator.hpp`) | a match | a call per header | the match of the frame |
| other examples, LLDP, integer sequences, printing | none of their own | pure functions | agree with a reference definition |

### What is hard

* An operation completes, and its handler runs later. In between a timer may
  expire, a close may come, another message may arrive. A cancel comes too
  late for a handler that is already queued.
* A transaction's sender, its reader and its last owner may be three threads,
  that meet only in the mutex of the table.
* Weak pointers: between finding an entry and locking it, the transaction may
  go; its destructor then erases the key that may be another's by now.
* Reads end anywhere in the stream, also with an error, and may bring several
  messages.
* Failures leave something half done: a send that fails after registration, an
  exception out of a message handler, a timeout in the middle of the set-up.
* Promises that hold across components only: that a refused flow is known by
  the time a barrier is answered rests on the order of the network, on the
  switch, on the table and on the strand.
* A packet-in carries the beginning of a frame, whose headers speak of the
  whole.

`PROJECT.json` lists each hazard at its line with the properties that watch it.
Those that no property watches say why: a receive without a timeout, a throw under
OpenFlow 1.0 and a start in the middle of a reset leave something undone, and the
properties near them exempt it by name; a handler of `async_accept` that outlives
its controller is outside the model, as is an exception of `hello::decode`. That
relaxed increments are enough for the count of a buffer is a matter of the memory
model of C++: here each change of a count is one step.

## 2. Modules

| module | models | reads as |
|---|---|---|
| `TransactionDecorator` | the decorator, its table, strand and timers, with the application and the switch around it | one action per handler, critical section or system step |
| `Transactions` | the promise made to the application; abstract | five actions, no table, timer or strand |
| `TransactionDecorator_proofs` | theorems about it, and that it implements `Transactions` | |
| `SetupConnection` | one connection, from accept to channel or close | one action per handler |
| `SetupConnection_proofs` | theorems about its timeouts, its end and the version | |
| `SecureChannelReader` | the message loop and the dispatch | one action per handler; `handle_read` message by message |
| `SecureChannelReader_proofs` | theorems about it | |
| `IoServicePool` | the pool: start, stop, reset and destructor, called by any threads; the threads in `io_service::run` | one action per critical section, or per round of a loop without one |
| `Controller` | `run`, `listen`, `stop` and the loop of accepts, over the pool it extends | the pool's actions joined with the controller's own steps |
| `Controller_proofs` | theorems about the pool and the controller over it | |
| `SecureChannelWriter` | sends from the strand and from threads, close, the write queue, the count of every buffer | one action per critical step of `async_send`, one per function the strand runs |
| `SecureChannelWriter_proofs` | theorems about it | |
| `PacketIn` | the coroutines that handle packet-ins, over the decorator it extends, with network and switch | the decorator's actions joined with a coroutine's own steps |
| `PacketIn_proofs` | theorems about it; uses those of the decorator | |
| `LearningSwitch` | the forwarding database of OpenFlow 1.3 and its timer | one action per handler |
| `LearningSwitch_proofs` | theorem about it | |
| `PacketParser` | `for_each_header` over whole and cut-off frames | one action per parse function |
| `PacketParser_proofs` | theorems about it | |
| `MC...` | instances for TLC | |

### TransactionDecorator

`map` is `transaction_data::map`. `phase` follows `async_send_request` and the
handler of its write. Whether the application holds a `transaction_ptr` is
`held`; the reference count itself is not kept but computed (`Referenced`):
the pointers in the send adaptor, in wait adaptors, in posted lambdas, and in
the application. `msg` is the answer with a ghost, the request the switch
meant; `moved` says that its contents have been moved out. `call` has one
record per call of `async_receive_response`. `strand` is the queue of functions
posted to the strand. The table's critical sections are single steps, and the
loss of a last pointer is separate from the destructor's critical section, as
it is in the code: a reply in between finds a weak pointer that no longer locks.

A handler that waits on a timer is let go by an expiry or by a cancel and runs
later, with the error code it got then. `WaitHandler` therefore decides by the
message, as `wait_handler_adaptor` does.

Assumed: `message<void>` (for requests without a reply) has room for the error
it holds. The code declares its storage as `std::aligned_union<1, error_type>`
without `::type` (`message.hpp:313`), which is smaller than the error;
the model gives that undefined behaviour no meaning.

`Promise == INSTANCE Transactions WITH answer <- ..., taken <- moved,
outcome <- ...` is the refinement mapping: the answer's kind, whether its
contents have been taken, and how each receive ended.

### SetupConnection

`op` and `io` are the operation started on the socket and how it completed;
`waits` are the handlers of the connection timer that have not run, each with
the id it was made with. `timer::cancel` raises `timeoutId`, so a stale handler
is known by its id. The switch's hello is chosen in the initial state, valid or
not, with or without elements, with any set of versions; the switch may also
stay silent at each step. Exceptions from `hello::decode` are not modelled.

A timeout can close the socket after an operation has completed and before its
handler runs. The handler then goes on with a closed socket: the next
operation fails and ends the set-up, a second timeout may go off in the
meantime, or a channel is started on the dead socket and says hello and goodbye
at once. All of these are behaviours of the model, and none breaks a property.

### SecureChannelReader

A stream is described by what would be read as a header at each byte position,
whether a message begins there or not; a loop that loses its place reads
garbage, as it would in the code. `io`, `least`, `got` are the composed read
with `transfer_at_least`; `arrived` and `consumed` are the two ends of the
stream buffer. The application may close the channel from a task in the strand,
or from a message handler in the middle of a batch. `Throw` is the exception of
the OpenFlow 1.0 dispatch: the loop ends there without a goodbye. A length
field shorter than a header is assumed away (`StreamsAssumption`).

A read that fails has transferred less than it was asked for, so the call of
`handle_read` on the error path (`secure_channel_reader.hpp:144`) never finds a
complete message; one that has arrived before a close is handled because the
read before had completed without an error.

`Cases` takes the first `Repeats` types of the list, as `BOOST_PP_REPEAT` does.

### IoServicePool

A caller's `pc` is in `start`, `stop` or `reset`; `mutex` is held by a `start`
that blocks (`blocked`, where the caller is thread 0 itself) or a `reset` that
waits (`join`). `futures` is the set of threads that `futures_` stands for;
`thread` follows each through `io_service::run`. A run ends when the io_service
is stopped, when a handler throws, or when there is no work left. `stop` goes
through its loop without the mutex, and so does `reset` after its wait; each
round is a step. `std::async` may fail after any number of threads.

Ghosts: `overlapped` is set once a call of start or reset comes while another
is under way (a `start` that is running its io_service does not count). After
that `RunsUntilStopped` and `RenewedWhenAtRest` can really be false: a start
between the wait of a reset and the end of its loop finds stopped io_services,
or has them reset under its threads. `cause` and `dirty` remember what happened
since the last reset.

Callers are threads of their own: a handler that calls `reset` would wait for
itself.

### Controller

The module extends `IoServicePool` and uses its actions, joined with what the
controller does: `RunPool` is a call of the pool's start, `Stop` a call of its
stop with `listening_mutex_` held until it returns. `at` says where each caller
is. With the `io_service` option (`own_io_service`, chosen in the initial state)
`run` runs that io_service in the caller; without it `run` blocks in the pool.
The acceptor keeps the io_service it is on busy as long as an `async_accept` is
under way. `start_listening` may fail at each of its calls; a failed `bind` or
`listen` leaves the acceptor open, and every later `listen` fails. `reason` is
a ghost: stop has been called while the controller listens, or something threw.

Not modelled: the destructor of the controller, others who use its pool or its
io_service, and `get_io_service`'s round robin, but for `AcceptorService`, the
io_service it gave the acceptor.

### SecureChannelWriter

A sender is a flow of control that sends one message after the other, each time
in the strand (encode and hand to the stream in one step) or not (encode in the
caller's thread, then post). Between its encode and its post other steps take
place. `refs` is the count in each buffer's header, `bytes` what the buffer
holds: a buffer is named for the message it was made for, so that a message
encoded into a wrong buffer shows. A sender in `Keepers` keeps its generator and
encodes into it again: `reserve` lets the old buffer go and has a new one, and
the write shares it; the others encode into a temporary, which hands its buffer
over. The queue of writes is `external`: it writes in order and calls every
handler in the strand.

A message stands for one call of `async_send`: no two calls have the same one
(`CallsAssumption`).

The count is changed by single steps, as the atomic instructions do. That the
increments are relaxed is of no consequence here: no step of the model reads
one buffer's count to decide about another's bytes.

### PacketIn

The module extends `TransactionDecorator` and adds who uses it: `pc` and
`running` are the coroutines, `toSwitch` and `answers` the two directions of the
connection, `flows` and `out` what the switch did. From one resumption to its
next suspension a coroutine has the strand; `running` keeps the reader, the
handlers of sends, timers and receives, and other coroutines out of it, but not
the network, the timers or the switch. A step that would be a call into the
decorator is that module's action (`SendFlowAdd` is `RegisterRequest`, then
`AsyncSend`), so nothing of it is stated twice.

The switch follows OpenFlow in two things the code relies on: it answers a
barrier when everything before it has been done, errors included, and an error
message carries at least the header of the request. Otherwise it refuses flows
as it likes, refuses barriers too, and takes and answers messages late or never.
The write queue keeps the order of one coroutine's sends; those of two are left
unordered, which is more than the queue does. An exception in a coroutine (a send that failed)
ends it: its transactions go with its stack. What `io_service::run` does with
the exception afterwards is in `IoServicePool`, which calls it a handler that
throws.

Not modelled: the features request at the hello, the coroutines of
`coroutine.cpp` (which send the flow_add outside any transaction), and the
coroutine library.

### LearningSwitch

Everything runs in the channel's strand. `waits` are the handlers of
`async_wait` that have not run; each holds the channel, and the channel's data
holds the timer (`timer`, which is a `boost::optional`). The destructor of the
timer cancels a wait that has not expired; one that has is queued with success,
and finds that the timer is gone. `now` advances at any moment, also while a
handler is late, and by up to `Delay` in `age_out`, between the clock it compares
the entries with (line 60) and the one from which the next tick counts (line 64).
`EntriesAgeOut` therefore bounds the age at a use by a tick and that delay; by a
tick alone it does not hold.

### PacketParser

A frame is a sequence of headers, each with the number by which the one before
names it, its class, its length and, in ICMP, the type of the message; then a
payload and the padding of Ethernet. Lengths in it are consistent. The parser
sees the first `size` bytes, for every `size`. An object that is handed on has the
two pointers of its class and what `length()`, `next()` and `end()` make of its
bytes (`Header`). `Fields` lists what the accessors that give a value read, as
offset and width, from the `enum offset` of the class; `Ranges` the accessors that
give bytes: `payload()` of IPv4, IPv6, TCP, UDP and ICMPv4 (ICMPv6 has none), the
addresses of ARP, the TLVs of LLDP, the data of an authentication header, the
link-layer address of neighbour discovery. They are part of the model since a
function may call any accessor of what it is handed. The data of a later fragment
are any bytes: what is read there as a length is whatever they say (`message`).
`Functions` are the functions that may be given to `for_each_header`, by the
classes for which they return false.

Frames are well formed (`FramesAssumption`): `FrameOK` says by the assigned
numbers of the protocols, and not by the tables of the parser, what may follow a
header and how long each may be. A number that is not assigned, or not known to
the parser, may only come last. What the parser makes of malformed packets is
not modelled.

Four properties have exceptions, which the code has too.

* `AccessorsReadTheFrame`: an LLDP frame is handed on without a check, and
  `ipv4_header`, `ah_header` and `tcp_header` after a check of their fixed part
  only. If the frame ends within the rest of such a header (`CutInside`), its
  fields are still received, but its range is not: the payload begins, or the
  data end, past the frame. Below an IPv6 header the end may be computed past the
  frame (`Ipv6CutShort`, see section 4): the fields of the headers after it and
  the ranges of it and of those after it are exempt, not the headers before it.
  In a later fragment of IPv6 a range may end before it begins.
* `HeadersAreTheFrames`: what follows a later fragment of an IPv6 packet is
  parsed as if it were the first. `CompleteHeadersAreHanded` counts the data of
  such a fragment as no header.
* `PayloadIsExact`: both of these, and an IPv6 header that states a length of 0
  (`Ipv6Empty`), which leaves the padding in.

## 3. Runs

| run | instance | shows |
|---|---|---|
| `TxnSameKey` | three requests, two with one key, one of them a flow_mod; no receives | what holds even when the application repeats an xid: no stale entries, no response lost, entries leave the table |
| `TxnOverlap` | one request, three overlapping receives, two responses, in and outside the strand | the decorator implements `Transactions`, its fairness included; receives with a timeout end; none waits on an answered transaction or touches a freed one |
| `PacketIn` | two coroutines, each with a flow_add and a barrier | no answer goes astray, no packet is sent without its flow, coroutines end and leave nothing in the table |
| `SetupConnection` | versions 1, 3, 4, of which 1 and 4 are supported; every hello | all set-up properties, with liveness |
| `ReaderFraming` | six bytes, headers of two, messages of two or three; all ways to cut them; listed, multipart and unknown types; messages that throw | all reader properties, with liveness |
| `ReaderV13` | one header-sized message of each of thirteen types; list of twelve, ten cases | **violated**: the last two types of the list are dropped |
| `SecureChannelWriter` | a sender of three messages that keeps its generator, one of one message that does not | only sends from the strand overtake; buffers last as long as their writes; every handler is called and every buffer freed |
| `IoServicePool` | three callers, four calls, two io_services with a thread each | one generation of threads at a time, whatever overlaps; a stop gets every thread out, lets reset return, and so does the destructor |
| `PoolRestart` | two callers, one io_service, one thread | **violated**: the pool is run again although it has not been reset |
| `Controller` | two callers, four calls, two io_services with a thread each, the acceptor on the second | accepting goes on, runs last until there is a reason and end at a stop |
| `LearningSwitch` | two stations, two ports, an age of three and a tick of two half ticks, a delay of none or one in `age_out`, nine half ticks of time | no entry is used a tick and a delay or more past its time; a goodbye releases the channel |
| `PacketParser` | frames of every kind of header and chains of up to six, cut off after each byte; four functions | the headers that are handed on, the bytes that are read, the payload |

Bounds. Three requests in `TxnSameKey` let a repeated key and one of its own
meet, and one request that nothing answers. One transaction is enough for
`TxnOverlap`, as receives never concern two; its three receives are one that
gave way, one that waits and one that comes late, and of two responses the
second is a further part or an error. In `PacketIn` two coroutines share table,
strand and connection; each has all that one can have (`MaxReceives` and
`MaxResponses` are 1: the code makes one receive on each transaction, the switch
answers each message once). Field widths of keys are scaled down; the proofs are
for any width. Six bytes hold three messages, or one whole and one cut off in
header or body. Three messages of one sender are what it takes for a generator
to be used again while two writes are pending, the fourth message is another
sender's. Three callers of the pool are one that blocks in start, one that
waits in reset and one that calls stop; four calls are start, stop, reset and
start again. Two callers of the controller are one that runs and one that stops,
or two that run. Nine half ticks are three ages: an entry is learned, renewed
and forgotten with runs of `age_out` at every distance from it. All bounds are
constants, or guards (`MaxReceives`, `MaxResponses`, `MaxCalls`, `MaxOps`,
`MaxConnections`, `MaxTime`).

`CHECK_DEADLOCK FALSE` is set everywhere: traffic is finite and a connection
really comes to rest.

Fairness. The io_service runs what is ready (`RunStrand`, `WaitHandler`,
`Handler`, `Loop`), writes end with success or error, and clocks go on
(`Expire`). The switch, the network and the application owe nothing, with one
exception: the last error message of the set-up is assumed to be written or to
fail, since the code puts no timeout on it.

Threads enter and leave `io_service::run`, and callers go on when they can: a
handler that never returns would keep its thread. Nobody has to call `stop`.
A thread inside `async_send` goes on to post, and a write on a socket that is
gone fails; a switch that stops reading may stall all writes of an open
connection, so `SendsEnd` speaks of connections that have ended.

In `PacketIn` a coroutine that can be resumed is, writes end and timers expire;
the switch and the network may stop at any point. The timeout of the barrier,
and that of nought for the flow_add, are what lets `PacketInsEnd` hold.

Receives without a timeout that are never answered do not end, not even when
the channel does; the code has nothing that would end them, and
`FiniteReceivesEnd` claims nothing about them. Nor does `GoodbyeIsSaid` claim a
goodbye after an exception.

## 4. Findings

### Two types without a case

`C/v13/openflow_channel.hpp:37-39` asserts that the list of switch messages has
twelve types, with "not match to the number of message types" should it not.
Line 40 makes ten cases of them. Messages of the last two types fall into the
default case: no handler sees them, and a transaction that waits for one waits
until its timeout, if it has any. Which types these are is decided by the list
in bulb, which is a submodule.

### A pool that is run again without a reset

`include/canard/net/utils/io_service_pool.hpp:66` says of a start that is
refused "already running or not reset yet". The refusal asks whether `futures_`
is empty (line 65), and a start that blocks puts no future there for the
caller's own run. A pool of one thread, such as the controller makes for itself
(`C/controller.hpp:35`), is therefore run again without a reset; if it was
stopped the second run returns at once.

### Noticed while modelling

These are not runs: no line of the repository says otherwise, or they lie in
values that no model looks at. Lines are of `include/canard/packet_parser.hpp`
where no file is named.

* `ipv6_header::end` (845-852) compares the length of the payload with that of
  header and payload and adds it to the header: a packet that is cut off by up
  to 40 bytes has its end past the frame (`Ipv6CutShort`), and with it `payload()`
  and every range below.
* `ipv4_header::parse` (531) and `tcp_header::parse` (1355) hand the header on
  before they compare its length with what was received: `payload()` of a header
  that is cut off in its options begins past the last byte (`CutInside`).
* `udp_header::end` (1419) does not ask that the length be 8 at least, so that the
  range from `next()` to `end()` may be reversed. A well-formed datagram has the
  length; what is parsed as one in a later fragment need not.
* The same function takes a payload length of 0 for none at all (850-851), so an
  IPv6 packet without a payload, padded by Ethernet, hands the padding on as its
  payload (`Ipv6Empty`). IPv4 cuts it off.
* A later fragment of an IPv6 packet is parsed as if it had the header of the
  next protocol; IPv4 has the check.
* `vlan_tag::pcp` (148) shifts 16 bits by 5; `arp::operation` (193, 235) reads
  at offset 3, where the field is at 6; `icmpv4_echo` (599-600) has request and
  reply the wrong way round.
* `oxm_match_from_packet` (`examples/v13/oxm_match_creator.hpp:194`) gives its
  creator to `for_each_header` by value, which fills a copy: the match that is
  returned is always empty. The creator of OpenFlow 1.0 holds a reference and is
  right. Both list 46 among the extension headers, where fragments are 44.
* `shared_buffer_generator(shared_buffer&&)` (31-34) uses its parameter after
  it has moved from it; nothing calls it.
* The OpenFlow 1.0 learning switch adds a flow for a packet-in that was not
  buffered without sending the packet on.
* A `bind` that fails leaves the acceptor open, and each `listen` after it fails
  (`FailToListen` in `Controller`).

## 5. Proofs

Each proof module states an inductive invariant, one lemma per step (or group of
steps) that preserves it, and the theorems as consequences.

* **Transactions.** The constants are any requests and bounds. `ToKeyInjective`
  shows that keys differ where a field does. `TypeInv` is `TypeOK` and that the
  strand holds exactly the calls marked as queued (`StrandMatchesCalls`),
  without which a posted function could run for a call in any state.
  `TableInv` adds what an entry of the table says of its transaction
  (`EntriesInv`), and where an answer may be that has left the table
  (`PostedInv`, `AnswersInv`): an entry's transaction has the entry's key and
  no answer, neither set nor posted. From it follow `TableHasNoStaleEntries`,
  `CastIsRight` and `AnswersAreFinal`, for repeated keys too; and with
  `UniqueKeys` as an assumption `AnswersReachTheirRequests` and
  `LiveTransactionsAreFound`.

  Four more results stand on these two invariants.
  - `ReceivesKeepTransactions`: `FreedInv` says that once a transaction is freed
    nothing in the strand, in a timer or in a send refers to it. Only a last
    pointer that goes frees it, and each place that has a pointer keeps it.
  - `AnswersWakeReceives`: the steps a call can make are few (`CallMoves`); the
    one into `waiting` looks at the message in the strand, and the one that sets
    the message lets every waiting call go.
  - `DecoratorKeepsPromise`: each step of the decorator is a step of
    `Transactions` under the mapping, or none. What has to be known of a step is
    in `ReadyInv`: contents are taken only from an answer, and a call that was
    aborted while there is none was aborted for another receive.
  - `ResponsesAreAccountedFor`: `AccountInv` counts the responses given to
    transactions (`Given`) and those on their way in the strand (`OnTheWay`), as
    cardinalities of sets that gain or lose one element at a step.
* **Coroutines.** The constants are any packets, with a request and a barrier of
  its own for each. `CoroutinesUseTheDecorator` shows that every behaviour of
  the composition is one of `TransactionDecorator`, so that its theorems hold in
  it (`CoroutinesAreFound`, `CoroutinesGetTheirAnswers`).
  `PacketsHaveTheirFlows` is about all parties at once. Its invariant says,
  for each coroutine:
  - `Steady`: what its `pc` says of its two transactions. While it waits it
    holds them, so that they are in the table.
  - `FlowFirst`: whatever of the barrier is on the way to the switch, the
    flow_add is before it or the switch has decided on the flow.
  - `ErrorFirst`: if the flow was refused, then its error has been set, or is
    on the way back before any answer to the barrier; or the coroutine has left.
  - `FlowInPlace`: past the look at the flow_add's transaction, the flow is
    installed.

  `NoneIsPosted` says that answers are set when they arrive: the reader is in
  the strand, and an answer posted to it could be overtaken by the barrier's.
  Each part needs the one before: a coroutine goes on to its packet_out as
  there is no error in the flow_add's transaction, which means something only as
  the barrier's answer is behind the error (`ErrorFirst`), and that the error
  found its transaction (`Steady`, `CoroutinesAreFound`).
* **Set-up.** `HandoverIsFinal` is about both ends: the channel that has the
  socket, and the set-up that has closed it. `SetupInv` says that a timer handler
  with the current id belongs to the step under way and is not cancelled, that
  older handlers have smaller ids, and that no step is under way once there is a
  channel. From it follow `NoStepIsUnguarded`, `TimeoutsAreNotLate` and, as only a
  step under way touches the connection, `HandoverHolds`.
  `VersionIsHighest` needs a maximum of every finite set of versions
  (`MaxOfFinite`): among the sets of members above each member one is minimal,
  since inclusion of finite sets is well founded, and it is empty.
* **Reader.** `ReaderInv` relates the size asked of a read to what the buffer
  held when it began (`ReadInv`): without it nothing is known about a read that
  was interrupted by other steps. From it and the guarantee of `transfer_at_least`
  comes `ReadsAreExact`: a read ends with what it was for. All safety properties
  of the module but the violated one follow.
* **Writer.** The constants are any senders with any finite programs. `SentInv`
  says that what is still to be sent has not been sent, and that what waits in
  the strand to be written comes from another thread. `OrderInv` says of any two
  messages in the strand, in the queue or on the wire that the one behind had
  not returned when the one ahead was sent, or was overtaken from the strand;
  every move of a message keeps that (`WritesKeepOrder`).
  For the buffers, `OnePlace` says that a message under way is in one place,
  `BytesInv` that its own buffer holds it there, and `RefsInv` that the count of
  a buffer is one for that place and one for a generator that keeps it
  (`CountsAreReferences`). `BuffersLive` follows: what is in a place is counted.
* **Parser.** Where a header starts is a sum over those before it, defined by
  recursion. `SetInduction` is induction over a set of numbers, proved from a
  least element of any set of naturals (`LeastOfNat`); with it the sums exist
  (`SumsExist`) and headers lie one behind the other (`Starts`).
  `EtherTypesAgree`, `ProtocolsAgree` and `FramesFollow` show that the tables of
  the parser are those of the protocols, for well-formed frames.
  `ParserInv` then says, next to the properties themselves: the parser stands
  where the next header begins, with the parse function for it and an IP header
  behind it exactly if that function is one over IP; or behind all headers; or
  in what follows a later fragment (`ParsesAt`). Its end is what was received,
  or the end of the packet from an IP header on (`EndsAt`). The second part
  needs the first: that the length in a UDP header cuts off nothing new rests on
  an IP header before it, and that an IPv6 header finds nothing cut off yet on
  none before it. There is a lemma for each parse function. The part about the
  accessors is proved of each object when it is handed on (`FieldsFit`,
  `RangesFit`): it is whole, or it is cut off (`CutInside`), or what came before
  excuses it, which stays so (`LaterStays`).
* **Pool.** `KInv` says who holds the mutex, and that a thread that was launched
  is known by its future or, if a caller runs it, by the mutex: so a start that
  finds neither finds no thread (`Generations`). `RInv` adds, until start and
  reset overlap, that one caller is in control, that nothing runs in the second
  half of a reset, and that a stopped flag is due to be cleared or has a cause
  (`RunsLast`, `RenewalsAreSafe`).
* **Controller.** Every behaviour of the controller is one of the pool
  (`ControllerUsesPool`), so `KInv` holds in it. `CInv` says what cannot have
  happened while there is no `reason`: nothing is stopped, no thread has ended,
  and who launched the threads is still in `run` with its work object. From it
  follow `AcceptingGoesOn`, `ThreadsGoOn` and `RunGoesOn`.
* **Learning switch.** `RunUnderWay` adds to `EntriesAgeOut` that the next run
  of `age_out` is due within a tick of now: without it an entry learned later
  could be due before that run. `EntriesAreForgotten` holds for any ages, ticks
  and delays and for any bound of the clock.

Every invariant and action property that a run checks is a theorem, but for
`NotRunAgainBeforeReset` and `ListedTypesAreHandled`, which are violated.
Only model-checked: the liveness properties, and the fairness in the refinement
of `Transactions` (`KeepsPromiseFairly`). Fairness and `ENABLED` are beyond the
prover.

A frame, a stream or a program of sends is a constant of any size in the
theorems; so are the sets of requests, callers, threads, packets and stations.
What they assume is named in the modules: `VersionsAssumption`,
`StreamsAssumption`, `CallsAssumption`, `FramesAssumption` and the like, which
TLC evaluates for the instances.

## 6. Plan

Done: the modules of section 2, and the safety theorems of section 5. Open, in
this order:

1. Proofs: the counts of buffers reach zero when a connection is at rest, from
   `CountsAreReferences`; what of `PacketIn` holds when the switch does not keep
   the order of messages.
2. The matches that OpenFlow 1.0 makes of a frame, over `PacketParser`.

### Not modelled

* The decorator chain and the hooks (`C/decorator.hpp`,
  `include/canard/asio/*hook*`): overloads the compiler picks. What they amount
  to, that a message passes the decorators before the handler and that a
  wrapped handler runs in the strand, is part of the other models.
* The OpenFlow 1.0 transaction decorator: the same code over other message
  types. The OpenFlow 1.0 learning switch: a map without ages or a timer.
* Match creation: a list of assignments in OpenFlow 1.0, always empty in 1.3.
* LLDP encoding (straight-line, used by the topology example alone, which is
  written against an interface that no longer exists), integer sequences
  (evaluated by the compiler), printing (`C/v13/io/openflow_io.hpp`), and the
  examples that answer one message with another and have no state.
* Encoding and decoding of OpenFlow messages, which are in the bulb submodule;
  so is the exception `hello::decode` may throw.
* A header whose length field is smaller than the header: assumed away
  (`StreamsAssumption`); what it does is up to bulb.
