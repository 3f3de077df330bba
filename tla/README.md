# Cat_GNSS_IoT in TLA+

Specifications, TLC configurations and TLAPS proofs for the firmware in this
repository: an STM32F407 with FreeRTOS that connects a GNSS receiver (UART5), a
console (UART4) and an LM61 Cat-1 modem (USART6) to the Gizwits cloud.

## 1. The system

| part | state it keeps | operations | talks to |
|---|---|---|---|
| UART drivers (`Drivers/BSP/uart4.c`, `uart5.c`, `uart6.c`) | a ring `aRxBuffer`, `bufferPoint`, `unReadBytes`; the flags `UartNTxReady`, `UartNRxReady` | `UartN_config`, `UartN_StartRecv`, `UartN_SendMsg`, `UartN_RcvMsg`, the HAL callbacks | HAL (handle state, lock, interrupts), every task that sends or reads |
| console (`Utilities/trace/trace.c`) | none of its own | `fputc`, `fgetc` | UART4 |
| LM61 driver (`Drivers/BSP/lm61.c`) | command and receive buffers, the transparent-mode state | `LM61_socketOpen/Close/Read/Write`, `LM61_transparent_Read/Write`, `LM61_start/close_transparent_mode`, AT commands with retries | USART6 |
| platform layer (`Project/Src/iot_platform.c`, `Utilities/iot/*`) | the byte ring `mqtt_ring_buffer`; lists, timers, mutexes | TCP read and write, ring buffer, `list_*`, `iot_timer_*` | LM61, FreeRTOS |
| MQTT client (`Middlewares/mqtt/MQTTClient.c`) | connection state, packet ids, two wait lists, the handler table, two buffers, four mutexes | construct, subscribe, unsubscribe, publish, yield, deconstruct | platform layer, the application's callbacks |
| TCP client (`Middlewares/tcp/TCPClient.c`) | connection state, two buffers, locks | construct, state | LM61 |
| Gizwits cloud (`Gizwits/src/cloud.c`, `tool.c`, `libemqtt.c`) | `recv_buf`, `recv_len`, broker and session data | register, provision, connect, ping, receive and dispatch packets, send data, check for an update | LM61 in transparent mode |
| tasks (`Project/Src/main.c`, `tcp_task.c`, `mqtt_task.c`) | two FreeRTOS tasks: send (priority 10), receive (priority 9) | ping every 120 s; read and dispatch packets every 600 ms | cloud, LM61, UART |
| GNSS (`uart5.c`, `nmealib.c`, `nmeautil.c`) | one line buffer, the last position | cut a line out of the ring, parse GGA | UART5 interrupt |

What is hard in it: interrupts and two tasks work on the same counters and
flags without masking or locks; the HAL answers HAL_BUSY where the drivers
expect success; the MQTT client sends, waits, times out and sends again under
two locks while another thread publishes; answers come late, twice, or not at
all; packets arrive in pieces or several in one read; ids, counters and clocks
wrap; many error paths are never taken by a test (the repository has none).

The properties that make each part correct:

- *UART receive*: no byte is read twice, out of order or from outside the ring;
  each byte is read or its loss is explained; polling drains the ring.
- *UART transmit*: a message is sent in one piece; `SendMsg` returns, and returns
  when its message is on the line; nobody blocks a port for ever.
- *MQTT publish*: what was accepted reaches the broker at least once, what was
  refused never does, no list node is used after it is freed, no call blocks for
  ever, every wait ends.
- *MQTT subscribe*: an id gets one result; a granted subscription is served.
- *MQTT connection*: the state follows the link, a dead link is noticed, the
  application is told once per change.
- *Cloud receive*: each packet that arrives is dispatched once, in order, and
  nothing that did not arrive is dispatched; no buffer is overrun without a known
  cause.
- *LM61*: a command's answer is not taken for another's; retries end.
- *Platform*: the ring returns what was written; lists are sequences; timers are
  right across the wrap of the clock.

## 2. Modules

| module | models | main idea |
|---|---|---|
| `UartRx` | `uart6.c` receive ring, `Uart6_RcvMsg`, `LM61_transparent_Read` | one action per load and store of the shared counters; bytes are numbered by arrival |
| `ByteStream` | what the receive path promises to the layer above it | numbers of bytes that arrived and were taken, and whether the stream is still exact; `UartRx` implements it and `CloudRecv` reads one |
| `UartRx_proofs` | | inductive invariants and theorems of `UartRx`, refinement of `ByteStream` |
| `UartPort` | `Uart6_SendMsg`, `fputc`, `HAL_UART_Transmit_IT`, `HAL_UART_Receive_IT`, transmit interrupts | tasks with priorities that preempt each other between any two steps of HAL |
| `UartPort_proofs` | | inductive invariant and theorems of `UartPort` |
| `MqttPublish` | `MC_publish`, `MQTTPublish`, `MC_cycle`, `MQTTPubInfoProc`, `MQTTRePublish`, `list_remove` and the iterator | one action per critical section; nodes are numbered as they are made |
| `Delivery` | what publishing promises: at-least-once | `MqttPublish` implements it |
| `MqttPublish_proofs` | | inductive invariants and theorems of `MqttPublish`, refinement of `Delivery` |
| `CloudRecv` | `readn`, `cloud_do_mqtt`, `get_one_cloud_packet`, `cloud_trans_data`, `cloud_push_ota`, `check_ota` | one action per poll, per outcome of looking at the buffer, and per command; the broker sends packet by packet beside it; every byte remembers its packet |
| `CloudRecv_proofs` | | inductive invariants and theorems of `CloudRecv`, refinement of `ByteStream` |
| `MqttSubscribe` | `MC_subscribe`, `MC_unsubscribe`, SUBACK, UNSUBACK, `MQTTSubInfoProc`, `sub_handle` | one action per call, packet and walk of the list; the list is a set of requests |
| `MqttSubscribe_proofs` | | inductive invariant and theorems of `MqttSubscribe` |
| `MqttState` | construct, connect, yield, keep-alive, reconnection, deconstruct, next to failing publishers | one read or write of `client_state` per step; each thread acts on what it read earlier |
| `MqttState_proofs` | | inductive invariant and theorems of `MqttState` |
| `CloudConnect` | `cloud_init`, `cloud_register_safe`, `cloud_provision_safe`, `cloud_mqtt_connect` | one action per exchange; what comes to the device is a sequence of pieces that a `readn` cuts anywhere |
| `CloudConnect_proofs` | | inductive invariant and theorems of `CloudConnect` |
| `Lm61At` | `LM61_sendAT`, `LM61_sendAT_with_times`, `at_common`, `LM61_sendData`, `LM61_RecvData` and the procedures made of them | lines of the modem carry the number of the command they belong to |
| `TcpRing` | `iot_platform_tcp_read`, `iot_ring_buffer_*`, the length from `LM61_socketRead` | bytes are numbered; sizes and indices in modular arithmetic |
| `NmeaLine` | `HAL_UART5_RxCpltCallback` | the line buffer and what follows it in memory are one array |
| `IotList`, `ListSeq` | `iot_list.c` and the sequence it promises | links of nodes; `IotList` implements `ListSeq` |
| `IotTimer` | `iot_timer.c` | arithmetic modulo the clock's range; `iot_timer_left` in two steps |
| `Platform_proofs` | | theorems of `TcpRing`, `NmeaLine`, `IotTimer`, `Lm61At`, `IotList` and `RemLen`, and of `MC_Platform`, which runs them |
| `RemLen` | the remaining length in `MQTTPacket.c`, `MQTTClient.c`, `libemqtt.c`, `tool.c` | pure operators, compared with each other |

Definitions named `X_Something` beside a definition `X` are altered copies of
it, the mistakes a property has to detect; the specifications never use them.

Some properties are conjunctions of named parts, one per thing that can go wrong:

| property | parts |
|---|---|
| `StreamExact` (`UartRx`) | `SliceInOrder`, `Accounting`, `TargetIsPoint` |
| `WordKept` (`MqttPublish`) | `NoLoss`, `RefusedNotSent` |
| `OneAnswer`, `TableExact` (`MqttSubscribe`) | `SuccessXorTimeout`, `AnsweredLeaves`; `Installed`, `NoDuplicateHandler` |
| `ToldExactly` (`MqttState`) | `ToldOnce`, `Pending` |
| `RoundRight` (`CloudRecv`) | `RoundExact`, `RoundInside` |
| `AnswersCorrect` (`Lm61At`) | `OwnAnswer`, `OpenIsOpen` |
| `RingCorrect`, `LinesCorrect`, `WalksCorrect`, `LengthsCorrect` | `RingExact`, `RunawayExplained`; `LineExact`, `FixIsNewest`; `Mirrored`, `IteratorComplete`; `RemLenAgree`, `PacketLenFits` |
| `SessionCorrect` (`CloudConnect`) | `ConnectedIsServed`, `BeginsAtPacket`, `PortIsKnown` |

A property that cannot hold of every execution names the case it leaves out by a
history variable, and what happens in that case is listed in section 5: `torn` and
`lapped` in `UartRx`, `late` and `dead` in `MqttSubscribe`, `long` and `short` in `TcpRing`,
`dead` in `CloudRecv`. In these cases the property says no more than that the cause is
the one named; it does not judge what the code does then.

### How state and actions correspond to the code

`UartRx`: `aRxBuffer`, `bufferPoint`, `unReadBytes` are uart6.c's; `rxTarget`,
`rxArmed`, `halLock` are `pRxBuffPtr`, `RxState` and `Lock` of the HAL handle;
`pc`, `wrap`, `reg`, `len`, `ptr` are the reading task's place and registers. The
interrupt (`RxCpltCallback`) is one step: it preempts the task and is not
preempted. The task's part is cut where the compiled code (the repository's
`-O0` image) loads or stores a shared variable: `Compare` (line 81), `Slice`
(82-88), `Reload` and `Store` (89), and `Copy`, the `memcpy` of the caller.

`UartPort`: `pc[t]` is the place of a task in `Uart6_SendMsg` and, inside it, in
`HAL_UART_Transmit_IT`; `gState`, `halLock`, `left`, `owner`, `irq` are the
handle's `gState`, `Lock`, `TxXferCount`, `pTxBuffPtr` and the enabled interrupt.
`Runs(t)` is FreeRTOS's rule that a ready task of higher priority runs first.

`MqttPublish`: the wait list is a sequence of node numbers, `msg_id` and `qos` the
contents of the nodes, `valid` their state, `old` the nodes whose timer has run
out. A caller goes `Publish`, `LockWriteBuf`, `Push`, `Send`, `Sent`, or through
`PushFails`, or through `SendExpires`, `RemoveOwn`, `Disconnect`. The yielding
thread reads a packet (`CycleIdle`, `RecvPuback`, `RecvPubrec`, `ReadError`) and
walks the list (`ProcBegin` ... `Resume`).

`MqttSubscribe`: requests carry the handler they ask for; `events` and `answered`
remember what the application was told and which answers came.

`CloudRecv`: one round is one call of `cloud_do_mqtt` by the receive task: `Begin`,
three times `Poll`, then `Get...` and a dispatch in turn until `Empty` or `GetShort`.
`Send` is the broker: it may add a packet to the link between any two steps of the
device (`Device`). The lengths of the head and of an application's message are decoded
from the bytes that lie in `recv_buf`, those left over from earlier packets included
(`mqtt_num_rem_len_bytes`, `mqtt_parse_rem_len`, `Ser2cliLengths`).
`recv_buf` holds the bytes up to the last one written since the `memset`, zeros
follow; `Shift` keeps the old tail as `memcpy` does. `cmd` and `one_packet_len` start with
any value, as uninitialised variables do. `debug_info`, which both functions fill with
three characters for each byte, is as long as `recv_buf` in the source (`DumpFits`). `dead` names the undefined behaviour that ended
a run.

`MqttState`: `pc` is the thread of `mqtt_task.c` that constructs, yields and
deconstructs; `ppc[p]` a thread in `MC_publish`. `currentState` is `MC_keepalive`'s
local copy, `rcSuccess` the `rc` of `iot_mqtt_yield`, `pingDue` and `reconnectDue` the
two timers, `open` the connection of `ipstack`, `held` what `malloc` gave. `linkUp`
falls without a trace, as the modem's connection may.

`CloudConnect`: `at` is the next exchange; `modem` is the address and port the modem
was told last and whether it is in transparent mode, each of the three commands
of `LM61_start_transparent_mode` may fail. `air` holds the pieces on their way,
`recv2` the two bytes of the local `recv_buf` that are looked at.

`Lm61At`: `cmd` and `tries` are the place in the procedure `call`; `coming` and `rx` the
lines on their way and in the UART's ring; `recvBuffer` the static buffer. How an
answer is read (`Style`) is that of `at_common`, of `LM61_sendAT_with_times` with and
without a string to match, of `LM61_sendData` or of `LM61_RecvData`.

`TcpRing`: `size`, `head`, `tail`, `data` are `mqtt_ring_buffer`; `SocketReadLen` is the
length at lm61.c:236: `char_to_hex` gets the number of digits for its count, so
it writes n decoded bytes and n times 0 to the start of the buffer whose bytes from
`TextStart` on are the 2n digits, and `strlen` measures what is left of them.
`NmeaLine`: `memory` begins with `aRxMessageLine`, goes on with `aRxGGALine` and ends
at `GPS_data`, the order in `Cat_GNSS_IoT.map`. `IotList`: `prev`, `nextOf`, `headOf`,
`tailOf` are the links; a freed node keeps its links. `IotTimer`: `Half` is 2^31.

## 3. Runs

| run | question | result |
|---|---|---|
| `uart_rx` | does any interleaving of interrupt, reader and copy break the stream? | no, except for an interrupt between lines 81 and 88 (`torn`) or a reader that is a whole lap late (`lapped`); then the slice may even leave the ring |
| `uart_port` | two tasks, one port: are messages mixed, can somebody hang? | never mixed; a hang needs a preemption inside HAL; calls that do not overlap are safe and return |
| `uart_port_receive` | uart4.c:22-24: once started, is reception armed for ever? | violated, a byte during `HAL_UART_Transmit_IT` ends it |
| `mqtt_publish` | two publishers, retries, failures: memory, loss, order of locks, at-least-once | holds |
| `mqtt_publish_ends` | does every call return and every QoS 1 message end? | holds under fairness |
| `mqtt_publish_qos2_never_ends` | MQTTClient.h:280-281: does every id come back? | violated for QoS 2 |
| `cloud_recv` | packets cut anywhere by three polls: what is dispatched, what goes wrong? | a round of at most 170 bytes dispatches whole packets exactly, a longer one overruns `debug_info`; a cut makes at most one wrong command; each run into undefined behaviour has a known cause; polling never stops |
| `mqtt_subscribe` | late answers, refusals, repeated subscriptions, failed allocations: results, table, does every request end? | holds; a request does not end only when the connection is lost or a failed allocation has hung the client |
| `mqtt_subscribe_unsub` | MQTTClient.c:1120: does UNSUBACK remove the handler? | violated, it never does |
| `mqtt_state` | does a race on `client_state` hide a failure, tell one twice, leave a connection open; is silence pinged? | holds: at most one event per failure; a failure is told in the end, unless it falls between the event of an earlier one and `RECONNECTING` |
| `mqtt_state_dead_link` | MQTTClient.c:1655: do the pings detect whether the network is connected? | violated, nobody looks at `ping_mark` |
| `platform` | the seven small parts, each on its own: are AT answers taken for the right command, are bytes, lines, lists, timers and lengths exact, is a connected client served? | holds, with the exceptions the properties name |

An execution of `platform` moves one part and leaves the others in their initial
state; the parts share no variable, so one run asks for all of them what
separate runs would. They are together because each of them alone is small.

### Bounds

- `uart_rx`: a ring of 3 slots stands for 1024: it has a first, a middle and a
  last slot; 7 bytes are more than two laps, so the ring wraps, fills, is
  clamped and is overrun. `WORD` = 16 stands for 2^32 and is larger than any
  count; a wrapped subtraction is still recognisable as one. The theorems hold
  for every ring and word size.
- `uart_port`: two tasks are what the firmware has; two bytes make a message that
  can be cut; three messages each let every leftover flag be taken by a later
  call. The theorems hold for every number of tasks, messages and bytes.
- `mqtt_publish`: two publishers and the yielding thread contend for two locks;
  two messages each and a list of two make it full; `MaxInFlight` = 1 lets a
  message time out only while at most that many packets are on their way, which
  bounds duplicates without excluding them. `mqtt_publish_ends` has one message
  each, mixes QoS 1 and 2 and allows two packets on their way.
- `mqtt_state`: two publishers with one call each, so that a failure can fall into
  every gap of the telling thread and a second one behind it; two packets of the
  broker's own; one RECONNECT event is counted, more change nothing. The theorems
  hold for any number of publishers, calls and packets.
- The theorems about `mqtt_publish` hold for any number of callers, nodes and messages;
  those about `CloudConnect`, `TcpRing`, `NmeaLine`, `Lm61At` for every size, and for any
  number of commands and late lines; those about `IotList` for any set of nodes and
  about `RemLen` for every base, width and length of four digits.
- `platform`: `Lm61At` has procedures of two commands with two attempts each, five
  commands in all besides those of start-up, and two late lines, so that an
  answer can be late for a whole call and for the next one. `TcpRing`: six bytes,
  eight of the broker's, every choice of which of them are 0, reads of one and two;
  the text of an answer starts at 4 (19 in the firmware), so that answers of one and
  two bytes are measured right, of three to five as empty, and of six as one byte or
  empty, as its last bytes are; the word is 16. `NmeaLine`: a ring of six and lines of two with a gap of one, nine
  bytes received: lines shorter and longer than the buffer, than both buffers and
  the gap, and than the ring. `IotList`: three nodes, the first number with a
  middle one. `IotTimer`: a clock of four bits (the theorems are for every width).
  `RemLen`: the real base and width, at the lengths where a digit is added or 16
  bits wrap. `CloudConnect` has no bound: every exchange happens once.
- `mqtt_subscribe`: three requests over two filters, two functions, a table of two
  and a list of two: equal and different handlers, full table, full list.

- `cloud_recv`: three packets, so that a cut one can follow two whole ones and two
  stale tails; the real packet sizes, and `debug_info` of the real size, `DEBUG_LEN` = 512:
  the dump of two packets fits, that of three may need more. `recv_buf` and `one_packet`
  are smaller than it, `BUF_LEN` = 210, because at 512 it takes eight packets to overrun
  them; at 210 three can. In the source both sizes are `BUF_LEN`. Polls end at packet boundaries or 1, 40 or 62
  bytes into a packet: half a PINGRESP and a dropped rest, a publication cut after its
  topic is known and before its command and mark, and one cut before its length, for
  which a stale byte stands in. The theorems hold for every `BUF_LEN` from 31 and every
  `DEBUG_LEN` from `BUF_LEN` (the firmware's are 512 and 512), every number and sequence of packets and every set of cuts.

### Fairness

`UartRx`: the receive task polls for ever (`SF` on its steps, because they need
HAL's lock to be free again and again) and a transmitter leaves the lock (`WF`);
no fairness for arriving bytes. `UartPort`: a task that can step, being the ready
one of the highest priority, does; enabled interrupts are taken. `MqttPublish`:
FreeRTOS schedules the threads and its mutex queues are served in priority order
(`SF` for steps that wait for a mutex); the application calls `iot_mqtt_yield` for
ever, as `mqtt_task.c` does; the broker answers. `CloudRecv`: the receive task
keeps running (`WF` of `Device`, none of `Send`); the broker may stay silent for ever.
`MqttSubscribe`: yields come for ever (`WF`), and a request that stays in the list is,
again and again, older than its time-out when the list is walked (`SF` of the walk
that finds it so); the broker may answer or not. `MqttState`: the yielding
thread runs and both timers run out (`WF`); nothing is assumed of publishers,
broker and link. `Lm61At`: the driver, which polls with a count, takes its steps
(`WF`); the modem need not answer.

## 4. Proofs

The theorems hold for every value of the constants that the named assumption of the
module admits. Each follows from an inductive invariant; what the invariant adds to
the property is said below, because that is where the argument is.

`UartRx_proofs`, for every ring size `N`, word size above `2N` and number of bytes:
type correctness; `SliceInBounds`, from an invariant that ties the registers of the
reader to `bufferPoint` and `unReadBytes` and says how far the interrupt can have
moved since; `StreamExact`, from an invariant that says which byte each slot of the
ring holds. The strengthening is needed because nothing about `ptr` and `len` alone
survives the interrupt. *GapsExplained*: between two slices no more bytes are missing
than interrupts fell into `unReadBytes -= len` (`GapExplained`, itself inductive beside
the others). From it *SlicesAreJoined*: until an interrupt does harm, a copy hands
over exactly the next `len` bytes; and *RingIsStream*: the ring implements `ByteStream`,
whose `exact` is "no interrupt did harm and the reader was never a lap late".

`UartPort_proofs`, for every set of tasks and message lengths: type correctness and
`SerialisedIsSafe`, whose invariant says, while calls do not overlap, which part of a
call the handle's state belongs to; `NotInterleaved` and `HangIsPreemption`, from
*PreemptInv*: who holds HAL's lock (*LockInv*), whose transfer is on the line
(*TransferInv*), which task has seen READY and been preempted before it took the lock
(*PendingInv*), and whose bytes are on the wire (*WireInv*). The two theorems assume
`DistinctPriorities`, as main.c:30 and 34 give the two tasks priorities 10 and 9: with
equal ones two tasks could both have passed the check of `gState`, and messages could
be mixed. *CallsEnd*: a call that no other overlaps is over after `MsgLen` + 8 steps of
its task and of the transmit interrupts, as a rank over its place and `TxXferCount`
shows; with *SerialisedIsSafe* (nobody hangs or waits for an end that cannot come) this
is what `SendReturns` needs besides fairness.

`MqttSubscribe_proofs`, for every set of filters and functions, every size of the
table and of the list, and every number of requests: type correctness, `OneAnswer` and
`TableExact`. The invariant adds *Books*: requests are numbered in the order they are
made, an id occurs in the list at most once, and whatever the list or a packet says of
an id is what was asked for under it; and *Results*: what the application was told and
which answers came determine whether the request of an id is still in the list and
still valid. Each action is a lemma. *RequestsAreReported*: what a walk takes off the
list was answered or is reported as timed out in that step, because a request is only
invalid when its answer was handled.

`MqttState_proofs`, for every number of publishers: type correctness, `ToldExactly` and
`NothingLeft`. The invariant adds which states belong to which places of the yielding
thread, that nobody but `MC_keepalive` takes a client out of `DISCONNECTED`, and at
which places the connection is open.

`MqttPublish_proofs`, for any callers, list length and range of ids: type correctness;
*WalkSafe*, without any hypothesis, from *StructInv*: who holds which lock, which nodes
are in the list or in a caller's hand, and where the iterator stands among nodes that
publishers take out. `NoUseAfterFree`, `WordKept` and the safety of `AtLeastOnce`, that is,
the refinement of `Delivery`, need that no two publishes share an id: `IdsDistinct` is the
hypothesis of these theorems, and not an assumption on a constant, because
`MC_get_next_packetid` comes round at 65535 without looking at what still waits.
*NoneTwice* proves the hypothesis from the counter up to its first turn. The rest of
the invariant says that a caller which has not yet sent knows that its own node is
untouched (*UnsentInv*), and what the list, the packets on their way and the broker know
of each message (*MessageInv*). In the refinement each action is a step of `Delivery` or
none. *LocksAreOrdered* and *WalksEnd* follow from *StructInv* alone, ids may repeat: who
holds `lock_list_pub` waits for nobody, who holds `lock_write_buf` at most for
`lock_list_pub`, so chains of waiting threads have at most two links and no cycle; and a
walk goes from a node to one appended earlier, at most three steps at each, so `WalkRank`
falls until the end whatever publishers append and take out. These are what
`PublishReturns` needs besides fairness.

`CloudConnect_proofs`: types, and `SessionCorrect` from what `recv_buf` can hold at each
exchange (*EarlyInv*: nothing that looks like a grant before the broker has sent one;
*AnswerInv*: what an accepted answer was; *AirInv*: the pieces on their way).

`CloudRecv_proofs`, for every size of `recv_buf` from 31 bytes and every one of `debug_info` from that, every sequence of
packets and every place at which a poll may end: type correctness, `RoundRight` and
`FaultExplained`. The argument has four layers. *Wire* and *StreamInv*: each kind of packet
byte by byte, and the bytes of the link as these packets one behind another, each
ending where `ends` says. *BufferInv*: the first `recv_len` bytes of `recv_buf` are the last
`recv_len` bytes that were read. From these two follows *TopicAt*: the first character
of a topic occurs nowhere but at its place, so a head that seems to be followed by
one begins at the packet, even when the number of length bytes was read out of stale
bytes. *RoundInv* says what a round that has read up to here has dispatched: in step
with the packets while bytes are left, and at most one command more when the buffer was
dropped; `RoundRight` is what it says at the end. *FaultInv* adds to `FaultExplained` that a
packet waiting at the switch without an action, or with a length whose dump does not
fit, comes from a cut, and that a length which was never set waits there only in a round
that does not begin with a known whole packet. `RoundRight` is about rounds that come to
their end: by `FaultExplained` these are, without a cut, the ones of at most
(`DEBUG_LEN` - 1) / 3 bytes, 170 in the firmware. *RoundsEnd*: each
look at the buffer takes at least a byte from it or empties it, so `RoundRank`, at most
2 * `BUF_LEN` + 4, falls with every step of a round; this is what `KeepsPolling` needs
besides fairness. *LinkIsStream*: the link that is read is a `ByteStream` that stays
exact. Together with *RingIsStream* this says where `CloudRecv`'s results hold for the
firmware: as long as no interrupt does harm in `Uart6_RcvMsg` and no read is a lap late.

`Platform_proofs`: for `TcpRing` types, and `RingCorrect` from *Place* (the unread bytes are
the last ones put in, from `tail` on) and *Queue*, under `FewerThanWord`: reads move `head`
by a `uint32_t`, and when it has counted 2^32 bytes past the end it stands at 0 again.
For `NmeaLine` `LinesCorrect`, from the bytes of the ring since the last line end, under
`LineFits`: a line, its copy and the gap behind them are no longer than the ring, which
they are by far (64 + 64 + 3 of 512, uart5.c:15-25, uart5.h:8). For `IotTimer`
`ExpiredOnTime` and `LeftIsLeft` for every width of the clock, from the invariant that the
deadline is `ms - elapsed` ahead of the clock, modulo its range. For `Lm61At`
`AnswersCorrect` from *Own* (until a result leaves lines behind, every line on its way or
in the ring belongs to the command that waits) and *OpenGoes* (an open that goes on has
had an OK for each command before), and `ReadInOrder` from *DataInOrder*, for any number
of commands and late lines. *CallsAreBounded* and *CallsAreFinite* from *Budget*, which
counts what a call has sent against the place it is at: a procedure sends no more than
its commands, each as often as it is tried, and `Rank`, the attempts that are left times
what one can last plus the lines of this one, falls with every step of the driver
whatever the modem answers. This is what `AtReturns` needs besides fairness.

For `IotList` `WalksCorrect` and `ListIsSequence`, for any set of nodes. The invariant
*ListInv* does not speak of walks: it says that there is a sequence of different
nodes which the links spell (*Shape*: neighbours point at each other, the ends at
nothing, `headOf` and `tailOf` at the ends), and where in it the iterator stands
(*Iterates*). Each operation gives the next such sequence; that `Walk`, either way, is
that sequence is a lemma of its own (*WalksAre*). For `RemLen` `LengthsCorrect`: the
loops over digits run four times at most (`RemLenAssumption`: four digits are enough for
a length), so they are unfolded and no induction is needed. The digits and what is left
of the length make up the length (*DigitsAre*, *DecodedIs*), and what wraps in
`uint16_t` at each step is congruent to what would not have wrapped (*CongAdd*,
*WeightsAgree*, *ParsedIs*). *PlatformTypeCorrect* puts the parts together: a step of
`MC_Platform` is a step of one part and leaves the others alone, so its executions are
executions of each part (*PartsSpec*), and `TypeOK` follows from the types of the parts.

### Only model-checked

The nine liveness properties (`Drains`, `SendReturns`, `PublishReturns`, `Qos1Ends`,
`KeepsPolling`, `RequestEnds`, `SilenceIsPinged`, `FailureIsTold`, `AtReturns`) depend on
fairness, which the prover does not handle; and `AtLeastOnce` says nothing of it:
`Delivery` promises that what was accepted is not given up before the broker has it, and
that it comes to its end is `Qos1Ends`. For six of them the part that is independent of
fairness is proved: a rank that falls until the end (*CallsEnd*, *WalksEnd*, *RoundsEnd*,
*CallsAreFinite*), no cycle of waiting threads (*LocksAreOrdered*), no request that goes
without a word (*RequestsAreReported*), what a failure leaves to be told (`ToldExactly`).
Every invariant and every action property of a passing run is stated by a theorem.

## 5. What the models show about the code

The four runs that end in a violation are the disagreements between the code and
its own comments listed under "findings" in `PROJECT.json`. The other things the
models had to make room for, in the order of the modules:

- `Uart6_RcvMsg` reads `unReadBytes` and `bufferPoint` several times between lines 81
  and 88 while the interrupt writes both. If one byte arrives just there, the
  slice can begin outside `aRxBuffer`. Every property of `UartRx` excludes exactly
  this window (`torn`) and nothing else.
- `Uart6_SendMsg` may return on the end of another task's transfer, because
  `Uart6TxReady` belongs to nobody.
- A repeated subscription is granted without an event; a refused one is reported as
  refused and, later, as timed out; an UNSUBACK whose request has already timed out
  compares the table with a handler that was never initialised.
- Packet ids wrap at 65535 without looking at requests that still wait: two messages
  that share an id make a publisher take back, and an acknowledgement end, the other's
  node. The theorems that need distinct ids say so.
- A packet that is cut by the end of a poll is lost, and what `cloud_do_mqtt`
  makes of it is a command with zeros, the command of the packet before it (its
  bytes are still in the buffer, or `cmd` still has its value), or nothing.
  The rest of the packet, read in the next round, takes all that follows with it.
- An application's message that is cut before its length (31 to 62 bytes of it) gets its
  length from the bytes of an earlier packet, or from a 0: it may be taken for longer
  than what was read, and its action may be any. A server message cut before its
  command adds a `len` that was never set. Only where such a length is above `BUF_LEN`
  does the `memcpy` run past `one_packet` (`dead` = "length").
- Before a round is looked at, and for each packet of it, the bytes are dumped into
  `debug_info`, which is no longer than `recv_buf`, with three characters for each
  (tool.c:82-98): a round of 171 bytes or more, be its packets whole, runs over the stack
  (`dead` = "dump"), and so does the dump of a `one_packet_len` that no packet has set ("dump_packet").
- An OTA push moves the modem's connection to another server for good: `check_ota`
  takes the 0 of `sock_connect_by_domain` for an error.

The UART port and its users:

- The locks around sends in `tcp_task.c` are commented out (153-161, 212-213). The
  send task that preempts the receive task inside `HAL_UART_Transmit_IT` gets
  `HAL_BUSY` and spins in `ERR_HANDLER_ASSERT`; `HangIsPreemption` says that this is
  the only way into that loop. A task can also spin at uart6.c:54, while the flag of
  another's transfer is set; `SendReturns` is about that loop, for calls that do not
  overlap.

`MQTTClient.c`, its lists and its transport:

- A failed `list_iterator_new` locks `lock_list_sub` again (679, 1574) instead of
  unlocking it: the thread never returns.
- `MC_handle_reconnect` connects nothing (its body is `#if 0`): after the first
  failure the application gets a RECONNECT event at each yield, and the client
  stays RECONNECTING.
- Any packet renews the ping timer; `MC_wait_CONNACK` never looks at its timer.
- Deconstructing a client that is not CONNECTED does not close its connection; a
  failure of `MC_init` (no memory for `ipstack`) leaks its mutexes and lists.
- `iot_platform_tcp_write` always returns the length and `iot_platform_tcp_read` never a
  negative number: an error of the modem reaches the client as silence. The SSL
  functions return 0, so a client with a certificate never connects.
- `iot_timer_left` returns nearly 2^32 when the deadline passes between its two looks.
- `MQTTPacket_len` counts the header's byte before it looks at the length, and
  reserves a byte too many for 127, 16383, 2097150 and 2097151; `mqtt_parse_rem_len`
  wraps at 65536.

`lm61.c` and `iot_platform.c`:

- `LM61_socketRead` passes the number of digits, 2n, to `char_to_hex` where it means n
  bytes: n zeros follow the n decoded bytes, and whatever the bytes are, once
  2n > 19 they end the text that the `strlen` at lm61.c:236 measures. An answer of 10 to
  20 bytes is taken for empty, a longer one for less than half of it, for less still when
  one of its own bytes is 0 (`SocketReadLen`; *Measured* proves that exactly the answers of at
  most `TextStart` digits are measured right). An empty one gives the ring the size 0, and
  reads run out of its memory from then on (`RunawayExplained`).
- `iot_platform_tcp_read` returns `len` when fewer bytes were there.
- After a `TIMEOUT`, or after an answer that came in two polls, the next command
  takes what is left for its own answer. `LM61_start_transparent_mode` and
  `LM61_close_transparent_mode` succeed whatever happened.

`uart5.c`:

- A line that is longer than 63 bytes runs into `aRxGGALine`, one of 131 or more into
  `GPS_data`; of one longer than the ring only the rest of the division is parsed.
- The LF behind a CR parses the line once more: `resolved_GPS_data_count` counts twice.

`cloud.c`:

- `Gizwits_init` ignores the result of `cloud_mqtt_connect`, and nobody connects again.
- A SUBACK that refuses is taken for one that grants. A publication that is read
  together with an answer is lost (`dropped`).
- `cloud_register_safe` leaves its connection open (the `sock_disconnect` is commented
  out): the AT commands of the next exchange are data for the service.
- An answer without a body makes the code go on from a NULL pointer.
- An answer to the provisioning that is cut behind the host leaves the port 0.

## 6. Plan

Modelled: `UartRx`, `UartPort`, `MqttPublish` with `Delivery`, `MqttSubscribe`, `MqttState`,
`CloudRecv`, `CloudConnect`, `Lm61At`, `TcpRing`, `NmeaLine`, `IotList` with `ListSeq`, `IotTimer`,
`RemLen`. Proved about: all of them.

Not done: `CloudConnect` over the late lines of `Lm61At` in one state space. Each has its
own model of what a modem that answers late does to it (`air` with `recv2`, `coming` with
`rx`); `Lm61At` ends where the transparent mode begins.

## 7. Not modelled

- The conversion of NMEA fields, the device identity, the AES helpers: conversions of
  data without behaviour over time. Of the parser only whether it takes a line is
  part of `NmeaLine`.
- `at_common2`, `at_common3` and the getters over them, `list_find`, `list_destroy`,
  `cloud_register`, `cloud_provision`, `cloud_mqtt_reconnect`: nobody calls them, or once
  at the very end. `TCP_set_client_state`, which the modem driver calls with a client
  that was never made.
- `Gizwits/src/lan.c`, `main.c`, `test.c`: a sample for Linux that the firmware does not
  build.
- `Middlewares/tcp/TCPClient.c`: its only user in `tcp_task.c` is compiled out.
- FreeRTOS, the HAL, CMSIS and the field copying of the Paho serialisers: vendored.
  What the program relies on (mutexes, priorities, the UART handle, packets) is part
  of the models. These are 98 of 100 lines of the repository; the firmware's own
  code is about 10,000 lines.
- `MQTTClient.c` and `mqtt_task.c` are modelled although the present build leaves them
  out: they are the program's own, and the largest concurrent part of it.
- Board code: executed once, no interaction.
