----------------------------- MODULE SrEndpoint -----------------------------
(***************************************************************************)
(* One end of a RaSTA connection and its diagnostics against a peer of     *)
(* which nothing is assumed: messages of any type at any time, most of     *)
(* them with one thing wrong - out of sequence, of another session or of   *)
(* other ends, damaged, too old, confirming what was never sent - while    *)
(* the application makes its calls in any order.                           *)
(***************************************************************************)
EXTENDS SrStateMachine, SrDiagnostics

CONSTANTS
  FirstNumber,  \* the random sequence number a session starts with
  PeerNumber,   \* the sequence number of the peer's connection request
  PeerNSendMax, \* n_send_max of the peer
  StartTime,    \* the time at which everything starts
  Period,       \* the time between two calls of srapi_CheckTimings
  MaxArrivals,  \* bound: how many messages arrive
  MaxData,      \* bound: how many messages the application sends
  MaxOpens,     \* bound: how often the application opens the connection
  MaxTicks      \* bound: how far the time advances

(* A peer that takes in no message at all would not get the connection     *)
(* response, so that no connection to it is established.                   *)
ASSUME EndpointAssumption ==
  /\ Config.t_max = TMax /\ Config.t_h = TH /\ Config.m_w_a = MWA
  /\ Config.n_send_max <= MaxNSendMax
  /\ FirstNumber \in SeqNums /\ PeerNumber \in SeqNums /\ PeerNSendMax \in Nat \ {0}
  /\ StartTime \in SeqNums /\ Period \in Nat \ {0}
  /\ MaxTicks \in Nat /\ MaxTicks < SeqMod
  /\ 2 * TMax + Granularity + Period < SeqMod
  /\ MaxArrivals \in Nat /\ MaxData \in Nat /\ MaxOpens \in Nat \ {0}

(* The sizes compiled into the code (20 messages and 2^32 numbers) leave   *)
(* room for a retransmission, and the numbers do not come around while a   *)
(* message waits.                                                          *)
ASSUME RoomAssumption == SendBufferSize >= 4 /\ 2 * SendBufferSize + 1 < Half

VARIABLES
  c,         \* the connection
  d,         \* its diagnostics
  ticks,     \* how far the time has advanced
  checked,   \* srapi_CheckTimings was called since the last tick
  arrivals,  \* how many messages arrived
  data,      \* how many messages the application sent
  opens,     \* how often the connection was opened
  heard,     \* when the peer gave its last sign of life, if it has to
  counted,   \* how many messages the reports of this session count
  handed,    \* how much data the application got in this session
  misled     \* the assertions a message of this session may violate

counters == <<arrivals, data, opens>>
vars == <<c, d, ticks, checked, counters, heard, counted, handed, misled>>

now == (StartTime + ticks) % SeqMod

TypeOK ==
  /\ c \in Connection
  /\ d \in Diagnostics
  /\ ticks \in 0 .. MaxTicks /\ heard \in 0 .. ticks
  /\ checked \in BOOLEAN
  /\ arrivals \in 0 .. MaxArrivals /\ data \in 0 .. MaxData /\ opens \in 0 .. MaxOpens
  /\ counted \in Nat /\ handed \in Nat /\ misled \subseteq Errors

-----------------------------------------------------------------------------
(* What the peer may send.                                                 *)

(* A message as it is due at the connection p, but for its type.           *)
Due(p, type) ==
  [ type |-> type,
    sn |-> IF type \in {"ConnReq", "ConnResp"} THEN PeerNumber ELSE p.snR,
    cs |-> IF type = "ConnReq" THEN 0 ELSE Minus(p.snT, 1),
    ts |-> now, cts |-> p.tsT,
    payload |-> IF type \in {"ConnReq", "ConnResp"} THEN PeerNSendMax ELSE 0,
    check |-> "Ok", version |-> TRUE ]

(* The number of the last message that was sent.                           *)
LastSent == Minus(c.snT, 1 + GetNumberOfMessagesToSend(c.sendBuf))

(* What may be wrong with it: a message before it is missing, or it comes  *)
(* again; it confirms what was never sent, or a request for retransmission *)
(* confirms nothing new; one of its time stamps is too old, or as late as  *)
(* passes for now; its protocol version is not accepted.                   *)
Variants(m) ==
  { m,
    [m EXCEPT !.sn = Plus(@, 1)], [m EXCEPT !.sn = Minus(@, 1)],
    [m EXCEPT !.cs = IF m.type = "RetrReq" THEN c.csR ELSE @],
    [m EXCEPT !.cs = LastSent], [m EXCEPT !.cs = c.snT], [m EXCEPT !.cs = Plus(c.snT, 2)] }
  \cup (IF m.type \in TimeoutRelated
          THEN { [m EXCEPT !.ts = Minus(c.tsR, 1)],
                 [m EXCEPT !.cts = Minus(now, TMax + 1)],
                 [m EXCEPT !.cts = Plus(now, Granularity)] } ELSE {})
  \cup (IF m.type \in {"ConnReq", "ConnResp"} THEN {[m EXCEPT !.version = FALSE]} ELSE {})

Damaged ==
  {[Due(c, "Hb") EXCEPT !.check = k] : k \in {"SafetyCode", "Type", "Foreign"}}

Arriving == Damaged \cup UNION {Variants(Due(c, type)) : type \in MessageTypes}

-----------------------------------------------------------------------------

Notified(p, m) ==
  MessageReceivedNotification([p EXCEPT !.inbox = Append(@, m)], now)

(* The connection during the handshake with a correct peer: when it was    *)
(* opened, and after each of the peer's messages.                          *)
Handshake(server) == IF server THEN <<"ConnReq", "Hb">> ELSE <<"ConnResp">>
DuringHandshake(server) ==
  LET after[n \in 0 .. Len(Handshake(server))] ==
        IF n = 0
          THEN CallEnded(OpenConnection(InitialConnection(server, Config.n_send_max),
                                        FirstNumber, now))
          ELSE Notified(after[n - 1], Due(after[n - 1], Handshake(server)[n]))
  IN  after

(* How many messages the reports of a call count.                          *)
Reported(reports) ==
  LET upTo[i \in 0 .. Len(reports)] ==
        IF i = 0 THEN 0 ELSE upTo[i - 1] + reports[i].message_counter
  IN  upTo[Len(reports)]

(* The connection was opened and is established.                           *)
Init ==
  /\ ticks = 0 /\ checked = FALSE
  /\ \E server \in BOOLEAN :
       \E after \in {DuringHandshake(server)} :
         \E p \in {after[Len(Handshake(server))]} :
           \E k \in {AfterCalls(NoDiagnostics, p.calls)} :
             /\ c = CallEnded(p)
             /\ d = k.data /\ counted = Reported(k.reports)
  /\ arrivals = 0 /\ data = 0 /\ opens = 1
  /\ heard = 0 /\ handed = 0 /\ misled = {}

-----------------------------------------------------------------------------

(* The connection and its diagnostics after a call that leaves p behind.   *)
(* Signs of life are a processed message with a time stamp, and the        *)
(* connection request a server answers.                                    *)
Becomes(p) ==
  LET k == AfterCalls(d, p.calls)
      alive == \/ \E i \in DOMAIN p.calls : p.calls[i].call = "Update"
               \/ c.state = "Down" /\ p.state = "Start"
  IN  /\ c' = CallEnded(p)
      /\ d' = k.data
      /\ counted' = counted + Reported(k.reports)
      /\ heard' = CASE p.state \in {"Closed", "Down"} -> 0
                   [] p.state \notin {"Closed", "Down"} /\ alive -> ticks
                   [] OTHER -> heard

(* No assertion has stopped the program.                                   *)
Running == c.fatal = "None"

Open ==
  /\ Running /\ c.state = "Closed" /\ opens < MaxOpens
  /\ LET p == OpenConnection(c, FirstNumber, now)
     IN  c' = CallEnded(p) /\ d' = AfterCalls(d, p.calls).data
  /\ opens' = opens + 1
  /\ heard' = ticks /\ counted' = 0 /\ handed' = 0 /\ misled' = {}
  /\ UNCHANGED <<ticks, checked, arrivals, data>>

(* Opening a connection that is open closes it.                            *)
OpenAgain ==
  /\ Running /\ c.state # "Closed" /\ opens < MaxOpens
  /\ Becomes(OpenConnection(c, FirstNumber, now))
  /\ opens' = opens + 1
  /\ UNCHANGED <<ticks, checked, arrivals, data, handed, misled>>

Close ==
  /\ Running /\ c.state # "Closed"
  /\ Becomes(CloseConnectionCall(c, now))
  /\ UNCHANGED <<ticks, checked, counters, handed, misled>>

Send ==
  /\ Running /\ data < MaxData /\ SendDataTakes(c)
  /\ Becomes(SendData(c, 0, now))
  /\ data' = data + 1
  /\ UNCHANGED <<ticks, checked, arrivals, opens, handed, misled>>

Read ==
  /\ Running /\ c.recvBuf # <<>>
  /\ Becomes(ReadData(c))
  /\ handed' = handed + 1
  /\ UNCHANGED <<ticks, checked, counters, misled>>

(* The assertions a message may violate: it confirms a number that no      *)
(* message sent so far has, or it requests a retransmission while the last *)
(* request, or the answer to it, waits to be processed or to be sent.      *)
Misleads(m) ==
  {e \in {"InvalidSequenceNumber"} :
     m.type # "ConnReq" /\ Minus(m.cs, c.csR) > Minus(LastSent, c.csR)}
  \cup {e \in {"InternalError"} : m.type = "RetrReq" /\
     \/ \E i \in DOMAIN Unsent(c.sendBuf) : Unsent(c.sendBuf)[i].type = "RetrResp"
     \/ \E i \in DOMAIN c.inbox : c.inbox[i].type = "RetrReq"}

(* The message m reaches the connection.                                   *)
Receive(m) ==
  /\ Becomes(Notified(c, m))
  /\ misled' = misled \cup Misleads(m)
  /\ arrivals' = arrivals + 1
  /\ UNCHANGED <<ticks, checked, data, opens, handed>>

(* A message arrives at the redundancy channel, which is open.             *)
Arrive ==
  /\ Running /\ c.state # "Closed" /\ arrivals < MaxArrivals
  /\ \E m \in Arriving : Receive(m)

CallCheckTimings ==
  /\ Running /\ ~ checked
  /\ Becomes(CheckTimings(c, now))
  /\ checked' = TRUE
  /\ UNCHANGED <<ticks, counters, handed, misled>>

Tick ==
  /\ Running /\ checked /\ ticks + Period <= MaxTicks
  /\ ticks' = ticks + Period /\ checked' = FALSE
  /\ UNCHANGED <<c, d, counters, heard, counted, handed, misled>>

Next ==
  \/ Open \/ OpenAgain \/ Close \/ Send \/ Read \/ Arrive \/ CallCheckTimings \/ Tick

Spec == Init /\ [][Next]_vars

-----------------------------------------------------------------------------
(* Whatever arrives and whenever the connection closes, is opened again or *)
(* retransmits: the messages in the send buffer are numbered without a     *)
(* gap, up to the last number that was given.  Retransmission and flow     *)
(* control rely on it.                                                     *)
NumbersWithoutGap ==
  \A i \in DOMAIN c.sendBuf.msgs :
    c.sendBuf.msgs[i].sn = Minus(c.snT, Len(c.sendBuf.msgs) + 1 - i)

(* A peer that falls silent is noticed: once srapi_CheckTimings was called *)
(* no connection is left whose peer gave no sign of life for more than     *)
(* t_max, and the granularity of the timer, whatever else it sent.         *)
SilenceIsNoticed ==
  checked /\ c.state \notin {"Closed", "Down"} => ticks - heard <= TMax + Granularity

(* An open end confirms the last message it processed, and no other: not   *)
(* one behind a gap, or one ignored while it waits for a retransmission,   *)
(* though the header stays in the input buffer.  The peer drops what is    *)
(* confirmed from its send buffer, and no retransmission could bring back  *)
(* what was not processed.                                                 *)
ConfirmsLastProcessed == c.state # "Closed" => c.csT \in {0, Minus(c.snR, 1)}

(* "Only update sequence number to be confirmed (CS_T) when message in     *)
(* input buffer, not from CheckTimings-function" (srcor_sr_core.c:658): a  *)
(* call that has no message to process, above all one that closes for a    *)
(* time-out, confirms no other number than before, whatever header is left *)
(* in the input buffer.  The peer would take a rejected message for        *)
(* received.  In RetransRequest the code does not keep to it: a message    *)
(* that is ignored there leaves its flag set, and closing for a time-out   *)
(* confirms the header that is in the input buffer, of whatever message.   *)
ConfirmsWithMessagesOnly ==
  [][c'.csT # c.csT => \/ arrivals' # arrivals \/ c.inbox # <<>>
                       \/ c.state \in {"Closed", "RetransRequest"}]_vars

(* The diagnostics add up: each message is in one interval of both         *)
(* distributions, a full window is reported at once, nothing of a session  *)
(* is left in the next one, and no data is handed over uncounted.          *)
DiagnosticsAddUp ==
  /\ IsConsistent(d)
  /\ c.state = "Closed" => d = NoDiagnostics
  /\ handed + Len(c.recvBuf) <= counted + d.message_counter

(* The assertions the code leaves exposed, whatever the peer sends: that   *)
(* there is room in the send buffer, if the peer takes in as many messages *)
(* as it holds and a heartbeat finds all of them sent (see the run         *)
(* sr_full); and, if the random first number is 0, that the send buffer    *)
(* follows the last confirmed number, since a client takes the response    *)
(* that confirms it for one that confirms nothing new.                     *)
Exposed ==
  {e \in {"SendBufferFull"} : PeerNSendMax >= SendBufferSize}
    \cup {e \in {"InvalidSequenceNumber"} : FirstNumber = 0}

(* Nothing a peer sends stops the program, as long as it confirms only     *)
(* what was sent and waits for the answer to its request before it         *)
(* requests a retransmission again: each buffer has room, and a            *)
(* retransmission finds the send buffer as it expects it.  (The exceptions *)
(* are the assertion on the alive time and those of Exposed.)              *)
NoMessageStops ==
  c.fatal \in {"None", "InvalidParameter"} \cup misled \cup Exposed

=============================================================================
