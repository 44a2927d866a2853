# TLA+ models and proofs of the SBB RaSTA stack

RaSTA is a railway protocol for safe communication over unreliable networks.
This stack implements it in two layers of single-threaded C:

* the **redundancy layer** (RedL, `source/modules/rasta_redundancy`) sends each
  message on up to several transport channels and puts together one ordered
  stream, without duplicates, from what arrives;
* the **safety and retransmission layer** (SafRetL,
  `source/modules/rasta_safety_retransmission`) runs a connection between a client
  and a server over such a stream: handshake, sequence numbers and their
  confirmation, flow control, retransmission of what was lost, and time-outs that
  close the connection when messages get too old.

The modules here model the control of both layers, their diagnostics and
configuration, and the messages byte by byte. TLC checks them on small instances, and
TLAPS proves for every size of the buffers and width of the numbers that the redundancy
layer delivers in order what was sent, that its diagnostics count what they say, that a
connection withstands a peer of which nothing is assumed, which messages could make it run
into an assertion and that no other does, and what the checks of the configurations
establish. All definitions are translated from the C code; `PROJECT.json` maps each to
its lines.

## 1. Inventory

### How the parts run

The user manual (`docs/SBB-RaSTA-084-UserManual-2.pdf`, chapter 3.2) requires a
single-threaded system without interrupts. A call of the stack runs to its end
before the next one starts. What interleaves are *calls*: notifications of received
messages, the periodic `srapi_CheckTimings` and `redint_CheckTimings`, calls of the
application, and the same on the other end of the connection, with messages on their
way in between. SafRetL (SIL4) and RedL (basic integrity) live in different
partitions and talk through an adapter with asynchronous ports, so neither layer is
re-entered from the other one.

    application      srapi_Open/Close/SendData/ReadData      srnot_* notifications
         |                                                            ^
    SafRetL          srapi -> srstm -> srcor -> srsend, srrece, srdia, srmsg
         |  sradin_SendMessage, sradin_ReadMessage      ^ sradno_MessageReceived
    adapter (asynchronous ports)
         |  redint_Open/Close/SendMessage/ReadMessage   ^ rednot_MessageReceived
    RedL             redint, redtrn -> redstm -> redcor -> reddfq, redrbf, reddia
         |  redtri_SendMessage, redtri_ReadMessage      ^ redtrn_MessageReceived
    transport channels

### Redundancy layer

| component | state | operations | what makes it correct |
|---|---|---|---|
| red_core (`redcor`) | `seq_rx`, `seq_tx`, `received_data_pending`, input and send buffer | process a received PDU, deliver the defer queue, defer queue time-out, send | one stream, in order, no PDU twice, across wrap-around |
| red_defer_queue (`reddfq`) | PDUs that came early, with their time | add, get, contains, oldest, time-out | holds only what is still to come, each once |
| red_received_buffer (`redrbf`) | ring of payloads for the layer above | add, read, free entries | never overflows (that is a fatal error) |
| red_state_machine (`redstm`) | Closed / Up | events Open, Close, SendData, ReceiveData, DeferTimeout | nothing is processed while Closed |
| red_interface (`redint`) | poll index | open, close, send, read, CheckTimings (polling, defer time-out, discarding) | polling ends; nothing received is forgotten |
| transport_notifications (`redtrn`) | - | read and process one received PDU | as above |
| red_diagnostics (`reddia`) | window of received sequence numbers and their times, drift and missed counters | update, notify, reset | counts what it says it counts |
| red_messages (`redmsg`), red_crc (`redcrc`) | - | create, check and read a PDU | what is accepted has the check code of its bytes |
| red_config (`redcty`, `redcfg`) | the configuration | check, search of a channel | a valid configuration is one the code works with |

### Safety and retransmission layer

| component | state | operations | what makes it correct |
|---|---|---|---|
| sr_api (`srapi`), sr_adapter_notifications (`sradno`) | - | open, close, send, read, CheckTimings, message notification | every call leaves the connection consistent |
| sr_state_machine (`srstm`) | Closed, Down, Start, Up, RetransRequest, RetransRunning | events of calls, messages and timers | retransmission ends; both ends agree on the session |
| sr_core (`srcor`) | SN_T, SN_R, CS_T, CS_R, TS_R, CTS_R, T_i, opposite buffer size, input and temporary buffer | checks of a message, timeliness, flow control, sending, answering a retransmission request | what is handed over is what was sent, once and in order; old messages close the connection |
| sr_send_buffer (`srsend`) | messages sent and not confirmed, then those to send | add, read to send, remove confirmed, prepare for retransmission | numbers follow each other; room for what the stack sends itself |
| sr_received_buffer (`srrece`) | ring of payloads | add, read | never overflows |
| sr_diagnostics (`srdia`) | error counters, distributions of round trip and alive time | update, notify | its range assertions hold |
| sr_messages (`srmsg`), sr_md4 (`srmd4`) | - | create, complete, check and read a message | what is accepted is what was sent |
| sr_config (`srcty`, `srcfg`) | the configuration | check, search of a connection | as for red_config |

### What is hard here

Steps of two ends in an order nobody tests; a retransmission during a
retransmission; unsigned wrap-around of sequence numbers and time; buffers at their
limit in the middle of an exchange; a time-out racing a late message; state that
survives into the next session; flags that are the only way back to a message; a peer
that sends what no correct peer would; sizes at the edge of a block.
`PROJECT.json` lists these hazards at the lines where they bite, with the property
that watches each, or why none does yet.

## 2. Modules

| module | models |
|---|---|
| `SequenceNumbers` | unsigned arithmetic, `reddfq_IsSequenceNumberOlder`; 2^32 is the constant `2 * Half` |
| `RedChannel` | a redundancy channel's data, and each operation of `redcor`, `reddfq`, `redrbf`, `redstm`, `redint`, `redtrn` as an operator from channel to channel |
| `RedEndpoint` | a channel in an arbitrary environment: any PDU at any time, calls in any order |
| `OrderedDelivery` | abstract: what a channel promises the layer above |
| `RedLink` | a channel, its peer and transport channels that lose, repeat, reorder and corrupt; implements `OrderedDelivery` |
| `RedDiagnostics` | the diagnostics of a channel (`reddia`), fed by a `RedChannel` whose transport channels delay, lose and repeat |
| `RedConfiguration` | the configuration of the layer, its limits and its check, the search of the channel of a transport channel |
| `SrSendBuffer` | the send buffer, and the rewriting of it for a retransmission |
| `SrConnection` | a connection's data; sending, flow control, and the checks and processing of a received message (`srcor`) |
| `SrStateMachine` | the state machine (`srstm`), the receive loop, timers and the calls of `srapi` and `sradno` |
| `SrConfiguration` | the configuration of the layer, its limits and its check, the search of a connection by its identifiers |
| `SrDiagnostics` | the diagnostics of a connection (`srdia`) |
| `SrEndpoint` | a connection and its diagnostics against a peer of which nothing is assumed |
| `SafeDelivery` | abstract: what a connection promises the applications |
| `SrLink` | client and server over what `OrderedDelivery` promises (order kept, losses, delay); implements `SafeDelivery` |
| `SrRecovery` | `SrLink` with messages that arrive in time: what is needed for liveness |
| `Words` | bytes and 32-bit words, as sets of the positions of their one bits |
| `RedCrc`, `RedMessages` | the check codes, and the layout and checks of a PDU |
| `SrMd4`, `SrMessages` | the MD4 as the code computes it, with its assertions, and the layout, completion and checks of a message |
| `Md4Reference` | abstract: the MD4 by its definition, with the padding as one sequence |
| `MessagePath` | a message from the send buffer of one end through the PDU to the checks of the other end, intact or damaged |
| `Arithmetic` | facts about natural numbers the proofs share: least elements, induction, remainders |
| `RedChannel_proofs`, `RedLink_proofs` | what is proved of a redundancy channel, by itself and with its peer |
| `RedDiagnostics_proofs` | what is proved of the configuration and the diagnostics of the redundancy layer |
| `SrConnection_proofs` | what the operations of a connection do, for the proofs about it |
| `SrEndpoint_proofs` | what is proved of the configuration of a connection, its diagnostics, and a connection against any peer |
| `SrAssertions_proofs` | that no message makes a connection run into an assertion, but those that mislead it |
| `SrLink_proofs` | what is proved of both ends of a connection |
| `MC*` | values of the constants for TLC |

`RedEndpoint`, `RedLink` and `RedDiagnostics` compose `RedChannel` with an
environment; `SrLink`, `SrRecovery` and `SrEndpoint` compose the connection
(`SrStateMachine` over `SrConnection` over `SrSendBuffer`) with one. The two layers meet
in `OrderedDelivery`: `RedLink` implements it, and the network of `SrLink` is what it
allows.

**State and code.** `ch` of `RedEndpoint` is `redcor_redundancy_channels[i]` together
with the entries of `reddfq`, `redrbf`, `redstm` and the poll index of `redint` for
that channel; the fields carry the names of the C code. The age of a deferred
message replaces its time stamp, counted up to `TSeq + 1`, as far as `reddfq_IsTimeout`
distinguishes ages. `conn[s]` of `SrLink` is `srcor_rasta_connections[i]` with the
entries of `srstm`, `srsend` and `srrece`; its `inbox` is the received buffer of the
redundancy channel below and `out` what a call hands to `sradin_SendMessage`.
A C ring with its indices is a sequence, and `already_sent` is a prefix length.
`SrConnection` records in `calls` which functions of `srdia` a call of the stack has
made, with their arguments; `SrEndpoint` applies them, in their order, to the
diagnostics `d`. In `MessagePath` the message is a sequence of bytes at each step, and
`sent`, `pdu` and the header a receiver reads are made of it.

**Actions and code.** Every handler is one operator that does all its C function
does, in its order, and an action applies one call. The only call split into several
steps is `redint_CheckTimings` of an open channel, where each iteration of the
polling loop is a step so that its termination can be stated. An assertion that fails
(`raas_Assert*`) or a `rasys_FatalError` sets `fatal`, and the model stops there.

**Abstractions.** In the modules of the channel and of the connection a message is a
record; `crcOk`, `check` and `version` hold the outcome of the CRC, of the general
message check and of the protocol version check, which `RedMessages` and `SrMessages`
compute from bytes. Payloads are numbers there. Logging and argument checks of the
interfaces are left out, and channels and connections are independent, so there is one
of each (the searches that tell them apart are in the configuration modules). The time
is counted in ticks.

## 3. Runs

| run | instance | shows |
|---|---|---|
| `red_endpoint` | 10 sequence numbers, window 2, defer queue 2, received buffer 3, one transport channel | `RoomForDeferred`, `NoBufferOverflow`, `DeferQueueAhead`, `TypeOK` against every PDU in every order |
| `red_link` | 12 sequence numbers, 13 messages, two transport channels, copies lost, repeated, reordered, corrupted | the refinement `DeliversInOrder`; `NothingForgotten` |
| `red_link_live` | 3 messages, received buffer 2 | `PollingEnds`, `DeferredGoesOn`, `ArrivedIsRead` |
| `red_diagnostics` | 6 sequence numbers, 4 messages, a window of 2, two transport channels that delay, lose and repeat, 2 ticks | `CountersMatchHistory`: the counters are what the history of receptions says; `ReportIsTrue`: a report misses no loss and is about its own window |
| `sr_link` | two openings per end, one close by an application, buffer 5, windows 3, `t_max` 2 ticks, 2 data, 1 loss, arbitrary delay | the refinement `DeliversSafely` through time-outs and across sessions, old messages still on their way; `TypeOK` |
| `sr_recovery` | buffer 12, windows 8, `t_max` 6 ticks, 2 data, messages in time, 2 losses | with one loss `StaysOpen` and `DataArrives`; with two `RetransmissionEnds`, `NoAssertionFails`, `DeliversSafely` |
| `sr_endpoint` | either role, an established connection, 3 arbitrary messages, 1 own data message, a second opening, window 2, `t_max` 5, a timer of granularity 1 | `NumbersWithoutGap`, `SilenceIsNoticed`, `ConfirmsLastProcessed`, `ConfirmsWithMessagesOnly`, `DiagnosticsAddUp`, `NoMessageStops`, `TypeOK` |
| `messages` | every message type, check code and safety code, equal and unequal ends, payloads around the edge of an MD4 block, a damaged byte in each field, a PDU one byte longer or shorter | `AcceptedIsSent`, `IntactIsAccepted`, `FatalOnlyByLength`, `CheckCodeIsRemainder`, `SafetyCodeIsMd4` |

and four that end in a counterexample, see section 4. Where a run's system may
really stop (all data sent, all ticks used) its cfg says `CHECK_DEADLOCK FALSE`.

**Why these bounds.** A property of the redundancy layer depends on the number of
deferred messages, on whether a message is before, at, within or beyond the window,
and on which side of a wrap-around it is: with a defer queue of 2, a window of 2 and
10 sequence numbers all of these occur, in all combinations, and a run of two
deferred messages fills the received buffer to the last entry. `red_link` sends more
messages than there are sequence numbers. The factor 10 of the window is 1 there:
what the proofs show holds for every factor. In `red_diagnostics` the window is
filled twice, a copy can be older than `t_seq` = 1 and outlive its window, and numbers
and time wrap around.

In `SrLink` the sequence numbers of the client and the time start just below the
wrap-around. One loss starts a retransmission, and a loss within the retransmission or
on the other side needs two (`sr_recovery`), which lead to two consecutive
retransmissions and to both ends being in `RetransRequest` at once. `m_w_a` is 2: with 1
every heartbeat is answered by a heartbeat at once, and both ends answer each other
without end within a tick. In `SrEndpoint`, where the peer does not answer,
`m_w_a` is 1 and `n_send_max` is 2. Each message there is one that is due, of any type,
or differs from it in one thing (`Variants`; the lemmas behind the proofs
are about any message, see section 5); three of them lead into a
retransmission, through another message, and out of it, and the ticks suffice for
the time-out with and without messages in between.

The messages of `MessagePath` have payloads of 1, 25, 26 and 34 bytes: with the
header they are less than a block of the MD4, leave just enough and just too little
room for the bit count, and go into a second block. The damage is a bit of a byte in
each field: the check codes and the MD4 are computed as they are, and that a CRC or
an MD4 does not collide is checked for these bytes and claimed for no others.
`MCMessages` assumes of the MD4 the test vectors of `unit_test_srmd4.cc`, and of
`srcor_IsProtocolVersionAccepted` that it compares versions as numbers, for all
versions of digits from 0x2F to 0x35; `MCRedDiagnostics` that the
configuration that comes with the stack is valid and leads each transport channel to
its redundancy channel. TLC evaluates these assumptions.

**Bounds by name.** `TransportQueueSize` bounds what a transport channel holds,
`MaxSent` and `MaxAhead` the peer's messages (the latter is the flow control of
SafRetL), `Lifetime` how many messages the peer may send while a copy survives in a transport
channel: without it a copy could be so old that its sequence number is one of the window
again and it be taken for a new one, which the code cannot tell apart either.
`LinkAssumption` asks for no more than that: `Lifetime + Window + 1 < SeqMod`. `MaxFlight`, `MaxRepeats`, `MaxOpens` and
`MaxTicks` bound `RedDiagnostics`, where `MaxSent` is at most the number of sequence
numbers: no copy is on its way while a whole turn of them is sent. `MaxData`, `MaxOpens`, `MaxCloses`, `MaxLosses`,
`MaxTicks` bound `SrLink`, and `ActiveTicks` ends the sending and the losses of
`SrRecovery`, after which a run has enough ticks left to come to rest.
`MaxArrivals`, `MaxData`, `MaxOpens` and `MaxTicks` bound `SrEndpoint`, and `Period` is
the time between two calls of `srapi_CheckTimings` there.

**Fairness.** `LinkFairness`: a call made runs to its end; the adapter calls
`redint_CheckTimings` periodically (manual 4.3.6); a transport channel notifies every
message (4.5.3); the layer above reads, and time goes on. Nothing is assumed of
the network. Strong fairness stands where a periodic call of the same thread
disables the action again and again for the length of the call. Messages arrive between calls
only: `PollingEnds` says that the loop of `redint_CheckTimings` ends with what
waits in the transport channels when it begins. A transport that kept delivering, during the
loop, PDUs that are dropped and so fill no buffer is not examined. `RecoveryFairness`:
applications read and call `srapi_CheckTimings` periodically (4.1.5), messages that
are not lost arrive, and time goes on. `SrRecovery` also assumes that messages arrive
within the tick in which they were sent; a network slower than `t_max` is one in
which the protocol has to close the connection. Without that assumption, in
`SrLink`, only safety is claimed.

**What recovery needs.** `StaysOpen` needs slack, and `sr_recovery` has it. (1) With
windows as tight as the data sent, a loss leaves both ends blocked by flow control:
neither the request for a retransmission nor a confirmation goes out. (2) Receiving
stops while the send buffer has fewer than three free entries, so that the
confirmations which would free it are not read. (3) With `t_max` of five
ticks or less the retransmission comes too late: T_i already subtracts the round trip, and is
compared with the time since CTS_R, which contains the round trip again; besides,
each end answers only in its next `srapi_CheckTimings`. In each case the time-out
closes the connection, which is safe, and `SilenceIsNoticed` shows that it does. Two
losses may close it with slack, too: the second may hit the retransmission.
The same time-out ends what the redundancy layer alone cannot: a channel whose first
PDU is lost on all transport channels, or whose gap is longer than the window, hands
nothing on for good, which to the connection above is a silent peer.

## 4. Where the code differs from what it says

Shown by a run that ends in a counterexample:

* `red_discard`: a comment says that all messages received while a channel is closed
  are discarded; closing the channel clears the flags discarding goes by
  (`ClosedChannelDrained`).
* `sr_alive`: the diagnostics assert that the alive time is at most `t_max`; a
  message processed between the expiry of `t_max` and the next `srapi_CheckTimings`
  makes it larger, and the assertion is fatal (`AliveTimeInRange`).
* `sr_full`: with `n_send_max` as large as the send buffer, which the configuration
  check allows and the configuration that comes with the stack has, a heartbeat finds
  a full send buffer, which is fatal (`SendBufferHasRoom`).
* `message_sizes`: a message that is one byte short of whole blocks of the MD4 (63,
  127, ... bytes) ends in an assertion of the padding, which is fatal
  (`EverySizeIsSent`).

Met while modelling, in the modules as the code has it, and without a run of their own:

* The comment at `srcor_sr_core.c:658` says that CS_T is updated only when a message is in
  the input buffer, "not from CheckTimings-function". The flag that says so,
  `message_in_buffer`, stays set after a message that is ignored in RetransRequest; a
  connection that `srapi_CheckTimings` then closes for a time-out confirms, in its
  disconnection request, the number in the header the input buffer holds: that of the
  ignored message, or of a later one that failed its checks. In every other state the
  comment holds (`ConfirmsWithMessagesOnly`), and as long as the connection is open, it
  confirms what it processed and nothing else (`ConfirmsLastProcessed`).
* The comment at `srcor_sr_core.c:231` wants CS_PDU - CS_R < SN_T - CS_R; the code (1317)
  accepts up to SN_T - CS_R + 1, and an established connection takes for confirmed what it
  never gave to a message. The send buffer is emptied wrongly, and a later
  retransmission ends in the fatal `InvalidSequenceNumber`. Hence `misled` in
  `NoMessageStops`: the assertions that messages of this session were able to violate.
* The address error counter is documented (`srdia_sr_diagnostics.h:136`) as that of
  messages with an implausible sender or receiver. After a message whose size, safety
  code or type is wrong, the check of the identifiers (`srcor_sr_core.c:1211`) looks at
  the header of the message before, so that a message which names the right ends is
  counted there too.
* The comment at `srcor_sr_core.c:160` says that more than `m_w_a` received messages must be confirmed
  at once; flow control (1159) may hold the confirmation back, and the heartbeat that
  would carry it is itself counted.
* A peer that requests a retransmission again before the first request is processed, or
  before its answer is sent, makes `srsend_PrepareBufferForRetr` meet a retransmission
  response it does not expect, which is the fatal `InternalError`. That the first request
  may still wait in the redundancy channel (receiving stops while the send buffer has
  fewer than three free entries) only came up in the proof of `NoMessageStops`, and is now
  part of `Misleads`.
* Two more assertions depend on what the code does not check; `NoMessageStops` lists them as
  `Exposed`. If the peer's `n_send_max` is not smaller than the send buffer, as in the
  configuration that comes with the stack, a heartbeat may find the send buffer full
  (see `sr_full`). If the random first sequence number is 0, the confirmation of the
  connection request, which confirms 0, looks like none: the request stays in the send buffer,
  and a request for retransmission that confirms 0 then ends in the fatal
  `InvalidSequenceNumber`.
* With a send buffer of fewer than four entries a connection in state Start would never
  read (the code has 20): `RoomAssumption`.
* `redmsg_CheckMessageCrc` asserts that the length field of a PDU is its size (228)
  before it looks at the check code, where a comment in `redcor_red_core.c:224` has a
  damaged message ignored (`FatalOnlyByLength` says that it is the only such case). With
  check code A the redundancy number has no protection at all. A data message without
  data passes `srmsg_CheckMessage` and is fatal when its payload is read.
* The diagnostics of a redundancy channel call a message missed that was "not
  received within Tseq" (`radef_rasta_definitions.h`); the report is made when the
  next new message finds the window full, so that copies which are still within
  `t_seq` are counted, and a late copy opens an entry of the new window. A copy that is
  repeated on the same transport channel adds to its drift. `reddia` includes a
  delay of exactly `t_seq`, its comment does not.
* Neither check of a configuration looks at what belongs together: transport channels
  shared by redundancy channels, connections with the same pair of identifiers
  (both are searched from the front, so that the second is never found), a heartbeat
  interval as long as `t_max`. The theorems of section 5 name the missing conditions.

## 5. Proofs

`RedLink_proofs` proves, in its first part, of `RedEndpoint`, for every size of the defer queue and the received
buffer, every window factor, number of transport channels and width of sequence
numbers, and for every environment:

* `TypeCorrect` - `Spec => []TypeOK`
* `RoomForDeferredAlways` - the received buffer has room for the whole defer queue
* `NeverOverflows` - `redrbf_AddToBuffer` never meets a full buffer
* `DeferQueueAlwaysAhead` - the defer queue lies strictly ahead of `seq_rx`, within
  the window and without duplicates

Assumptions (each an `ASSUME` that TLC evaluates): the sizes are positive, and the
window plus one is less than half of the sequence numbers, `RangeFactor *
DeferQueueSize + 1 < Half`; in the code the window is at most a few hundred and
`Half` is 2^31.

The invariant is `IInv == TypeOK /\ ChannelInv(ch)`. The wanted properties are not
inductive by themselves: that a delivery finds room depends on how many messages it
delivers, and that depends on where the queue lies and on its numbers being
different. `ChannelInv` says all of this at once: at most `DeferQueueSize` entries,
pairwise different numbers, each strictly ahead and in the window, and room for all.
`RedChannel_proofs` shows operation by operation that it is kept. Its core is
`RunLengthFound` (the loop of `DeliverDeferQueue` ends, after at most as many rounds
as there are entries) and `RunDelivered` (it takes different messages and what remains
is beyond the gap), on top of lemmas about unsigned differences (`MinusShift`,
`OlderIsBehind`, `WindowTest`).

Its second part builds on that for a channel with its peer (`RedLink`), over transport
channels that lose, repeat, reorder and corrupt:

* `OrderedDeliveryImplemented` - the refinement, `LinkSpec => DeliversInOrder`: the initial
  states are those of `OrderedDelivery`, and each step hands over a run of messages that
  follows what was handed over, gives some up, or changes nothing of it
* `NothingIsForgotten` - a message whose notification was spent without reading it is
  flagged

Their assumptions are those above and `LinkAssumption` (a copy does not survive until its
number is in the window again, and the flow control of SafRetL bounds how far the peer is
ahead). The invariant `LinkInv` adds to `IInv` that numbers are remainders of the peer's
count: `seq_rx` is that of the last message handed over, each entry of the defer queue that
of a message not yet handed over, each copy in a transport channel that of a message sent
(`NumbersInv`); with `ModDistance` the comparisons the code makes of numbers modulo 2^32
are comparisons of the counts.

`RedDiagnostics_proofs` proves, for every size of the diagnostic window, number of
transport channels, `t_seq`, width of the numbers and the time:

* `DataIsOfHistory` - `Spec => []CountersMatchHistory`: the window and the drifts
  are those of the copies heard since the last report
* `ReportsAreTrue` - the action property `ReportIsTrue`: a report comes when the window is full,
  counts every message a transport channel lost, and beyond those only messages whose first
  copy belonged to the window before
* `TypeCorrect` - `Spec => []TypeOK`

The invariant keeps, next to `ChannelInv(ch)`, that the diagnostic data `diag` is what
the history tells (`Told`): one entry of the window for each message heard since the report,
with the time of its first copy and the transport channels that delivered one in time
(`Matching`), and the drifts as sums over the punctual copies. A sum over a set
is a fold in the model; `IsSum` characterises it by one element more at a time, and
`FoldIsSum` shows that the fold is such a sum, by the least counterexample over the
cardinality. That a number stands for one message in the window needs `MaxSent <= SeqMod`.

`SrEndpoint_proofs` proves, for both roles, every size of the buffers, every window, `t_max`,
granularity and period, every width of numbers and time, and any number of messages,
openings and calls:

* `NumbersStayWithoutGap` - `Spec => []NumbersWithoutGap`
* `SilentPeerIsNoticed` - `Spec => []SilenceIsNoticed`
* `OnlyProcessedIsConfirmed` - `Spec => []ConfirmsLastProcessed`
* `EndpointDiagnosticsAddUp` - `Spec => []DiagnosticsAddUp`
* `ReceivedDataFits` - the received buffer holds at most `n_send_max` messages, so that
  adding to it never ends in its fatal error
* `EndpointTypeCorrect` - `Spec => []TypeOK`

The assumptions (`EndpointAssumption`, `ConnectionAssumption`, `SendBufferAssumption`,
`DiagnosticsAssumption`) are what a valid configuration has, see
`ValidConfigurationFitsTheConnection` below, that the peer's `n_send_max` is not 0, and that `2 * t_max`, the granularity and the
period of `srapi_CheckTimings` together are less than the range of the timer. The run itself
is assumed to be shorter than that range, but may begin anywhere in it, so that every
difference of times can wrap around. The lemmas about the operations of the stack
(`SrConnection_proofs`, and in `SrEndpoint_proofs` those up to `ArrivingType`) ask only
that a message has the type `PDU`, not that it is one of `Arriving`.

The invariant is `IInv == TypeOK /\ EndGood(c, d, counted, handed) /\ SilenceInv`.
`EndGood` strengthens the wanted properties by what they hang on between calls: a closed connection has an empty inbox and cleared
diagnostics, a connection that is down is a server's with T_i = `t_max`. `SilenceInv` says that
CTS_R and T_i of an established connection are what the last sign of life made of them
(`TimerAt`: the longer the message's round trip, the earlier CTS_R and the smaller T_i), and
that it is no longer ago than the next call of `srapi_CheckTimings` allows; `NoticedInTime`
shows that the test of that call, with all its differences modulo 2^32, then fires in
time. A call of the stack is many
steps of the code and loops over the inbox, so `During(p, q, b, t)` relates what a call has
made so far (`q`) to what it found (`p`, `b`), and each operation keeps it, in the order the
calls are made. `SrConnection_proofs` gives each operation one of three effects
(`Closes`, `Quiet`, or a received message that set the timer) and carries the numbering
(`Gapless`) through sending, the removal of what is confirmed and the rewriting of the
send buffer for a retransmission. The loops of the code are recursive functions in the
model; the proofs take them by the least counterexample.

`SrAssertions_proofs` adds the assertions:

* `NoMessageStopsTheProgram` - `Spec => []NoMessageStops`: whatever arrives in
  whatever order, whatever the application calls and whenever the time advances, no buffer
  is found full, and each retransmission finds the send buffer as the assertions of
  `srcor_HandleRetrReq` and `srsend` expect it; unless the peer confirms what was
  never sent, or requests a retransmission while its last request is under way, or it is
  one of the two assertions of `Exposed` (section 4), each only under its condition

It holds for every `n_send_max` of the peer and every first number, the shipped
configuration (20, with a send buffer of 20) included. The only assumption beyond those above is
`RoomAssumption`, about constants compiled into the code: at least four entries in the send
buffer, and more sequence numbers than four times as many and two.

Its invariant is `MessagesInv == IInv /\ Sound(c, Threats)`, where `Threats` is
`misled \cup Exposed`. `Sound` distinguishes the handshake
(`Waiting`, `Asking`: what little the send buffer can hold then) from a connection that is
settled (`Fits`). There, `InOrder` says of every message that waits in the inbox that it
confirms a sent message, none much older than what was confirmed before it, so that
checking it in its turn, after numbers were given and entries removed, still accepts only
numbers that were sent; `Tidy` says which messages may wait to be sent, and that data to be
sent again comes before new data; `OneRequest` that at most one request for a
retransmission waits in the inbox, and none while the answer to the last one waits to be
sent. Room comes from two tests of the code: the receive loop goes on only with three free
entries, which is the most that one message makes it add besides the retransmission
itself; and flow control leaves at most as many messages sent and unconfirmed as the
peer's received buffer holds, so that a heartbeat, which is sent only when nothing
waits, finds an entry if that is less than the send buffer holds. The theorem says nothing of `InvalidParameter`, the assertion on the
alive time, which does fail (`sr_alive`).

`SrLink_proofs` proves of both ends, over a network that loses and delays, through all
sessions, with the same operations:

* `SrLinkTypeCorrect` - `Spec => []TypeOK`
* `BothEndsHaveRoom` - at both ends the received buffer has room for what is received
* `BothEndsWithoutGap` - at both ends the send buffer is numbered without a gap

Its invariant `LinkInv` keeps `ConnInv` at both ends, that a closed connection has nothing in
its inbox, and that a connection which is not closed belongs to a session of the `log`.

`RedDiagnostics_proofs` and `SrEndpoint_proofs` begin with what the checks of the
configurations are for:

* `ValidConfigurationFitsTheWindow`, `ValidConfigurationFitsTheConnection` - with the
  limits of the source a valid configuration satisfies what the models of the channel
  and the connection, and the proofs above, assume of their constants
* `TransportLeadsToItsChannel`, `IndexOfConfiguredTransport`,
  `IdentifiersLeadToTheirConnection` - the searches find what they should, under the
  condition that nothing is configured twice
* `IntervalsAsDescribed` - the five intervals of the distributions hold the times
  their description says
* `DiagnosticsKeepAddingUp` - whatever calls of `srdia` are made, each message of the
  window stays in one interval of both distributions, and the window is never full
  (`IsConsistent`, the first part of `DiagnosticsAddUp`)

The last one is about a recursive function, `AfterCalls`: that the function exists and
what each of its values satisfies is shown by the least counterexample
(`Arithmetic`), because an induction theorem with an operator parameter cannot be used.

Only model-checked:

* `DeliversSafely`, the refinement of `SafeDelivery` by `SrLink`, `StaysOpen` and
  `NoAssertionFails`: they hold by the times and the first sequence numbers of the
  instance, not for every value of the constants. With a first number that continues
  where an old session's messages on their way left off, those are taken for new
  ones, and nothing in the code prevents it (the number is random). `StaysOpen` and
  `NoAssertionFails` need the slack of section 3 and a peer whose messages are not
  of an earlier session; `NoMessageStopsTheProgram` is what remains of the latter for all
  values.
* `ConfirmsWithMessagesOnly` of `SrEndpoint`.
* The byte level (`MessagePath`), whose loops are `RECURSIVE` operators and whose check codes
  are facts about given bytes.
* Everything with fairness: liveness and `ENABLED` are out of the prover's reach.

## 6. Not modelled

Argument checks of the interface functions (null pointers, identifiers out of
range, calls before the initialisation); logging (`ralog`); two or more channels or
connections side by side; the adapter with its asynchronous ports, and with it the two
layers in one state space; `srmsg_GetDiscMessageData`, which nothing calls, and the
detailed reason of a disconnection, which nothing reads. In `SrLink` both ends are
correct and messages intact; everything else is the peer of `SrEndpoint`.

## 7. Plan

The composition of both layers over asynchronous ports with two transport channels, in
place of the network of `SrLink`; a statement of `DeliversSafely` whose hypotheses on the
first sequence numbers make it provable.
