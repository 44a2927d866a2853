--------------------------- MODULE RedDiagnostics ---------------------------
(***************************************************************************)
(* The diagnostics of a redundancy channel (reddia): which messages of the *)
(* current window were received on which transport channel, and how much   *)
(* later than on the fastest one.  When the window is full, the next new   *)
(* message reports it and starts another one.                              *)
(*                                                                         *)
(* They are fed by a channel (RedChannel) whose peer sends each message on *)
(* all transport channels; these delay, lose and repeat their copies.      *)
(***************************************************************************)
EXTENDS RedChannel, FiniteSetsExt

CONSTANTS
  NDiagnosis,  \* n_diagnosis of the configuration
  StartTime,   \* the time at which everything starts
  FirstSeq,    \* seq_tx of the peer at that time
  MaxSent,     \* bound: how many messages the peer sends
  MaxFlight,   \* bound: how many copies a transport channel holds
  MaxRepeats,  \* bound: how often a transport channel repeats a copy
  MaxOpens,    \* bound: how often the channel is opened
  MaxTicks     \* bound: how far the time advances

ASSUME DiagnosticsAssumption ==
  /\ NDiagnosis \in Nat \ {0} /\ NDiagnosis < SeqMod
  /\ StartTime \in SeqNums /\ FirstSeq \in SeqNums
  /\ Payloads = 0 .. MaxSent - 1
  /\ MaxSent \in 0 .. SeqMod  \* no copy is as old as a whole turn of the numbers
  /\ MaxFlight \in Nat /\ MaxRepeats \in Nat
  /\ MaxOpens \in Nat /\ MaxTicks \in Nat /\ MaxTicks < SeqMod

-----------------------------------------------------------------------------
(* The diagnostic data of a channel.                                       *)

(* reddia_ReceivedMessageTimestamp; received holds the transport channels  *)
(* whose message_received_flag is set.                                     *)
Timestamp == [seq : SeqNums, time : SeqNums, received : SUBSET Transports]

Diagnostics ==
  [ window : {w \in Seq(Timestamp) : Len(w) <= NDiagnosis},
    tDrift : [Transports -> Nat],
    tDrift2 : [Transports -> Nat] ]

(* reddia_InitRedundancyChannelDiagnostics                                 *)
InitDiagnostics ==
  [ window |-> <<>>, tDrift |-> [t \in Transports |-> 0],
    tDrift2 |-> [t \in Transports |-> 0] ]

(* Where a sequence number stands in the window.                           *)
Stored(d, seq) == {i \in DOMAIN d.window : d.window[i].seq = seq}

(* A plausible slip: a copy that is too late counts all the same.          *)
ReceivedAgainAnyTime(d, i, t, time) ==
  LET delay == Minus(time, d.window[i].time)
  IN  [d EXCEPT !.tDrift[t] = @ + delay, !.tDrift2[t] = @ + delay * delay,
                !.window[i].received = @ \cup {t}]

(* IsSequenceNumberAlreadyReceivedUpdateDiagnosticData for the i-th entry. *)
ReceivedAgain(d, i, t, time) ==
  LET delay == Minus(time, d.window[i].time)
  IN  IF delay > TSeq THEN d
      ELSE [d EXCEPT !.tDrift[t] = @ + delay, !.tDrift2[t] = @ + delay * delay,
                     !.window[i].received = @ \cup {t}]

(* A plausible slip: the window is reported one message too late.          *)
WindowOverfull(d) == Len(d.window) > NDiagnosis

WindowFull(d) == Len(d.window) >= NDiagnosis

(* AddFirstTimeReceivedMessageDiagnosticData                               *)
ReceivedFirst(d, t, seq, time) ==
  [IF WindowFull(d) THEN InitDiagnostics ELSE d EXCEPT
     !.window = Append(@, [seq |-> seq, time |-> time, received |-> {t}])]

(* reddia_UpdateRedundancyChannelDiagnostics                               *)
UpdateDiagnostics(d, t, seq, time) ==
  IF Stored(d, seq) = {} THEN ReceivedFirst(d, t, seq, time)
  ELSE ReceivedAgain(d, Max(Stored(d, seq)), t, time)

(* A plausible slip: a message is missed only if nobody received it.       *)
NotificationOfUnheard(d) ==
  [t \in Transports |->
     [ nDiagnosis |-> Len(d.window),
       nMissed |-> Cardinality({i \in DOMAIN d.window : d.window[i].received = {}}),
       tDrift |-> d.tDrift[t], tDrift2 |-> d.tDrift2[t] ]]

(* What rednot_DiagnosticNotification is called with, for each transport   *)
(* channel.                                                                *)
Notification(d) ==
  [t \in Transports |->
     [ nDiagnosis |-> Len(d.window),
       nMissed |-> Cardinality({i \in DOMAIN d.window : t \notin d.window[i].received}),
       tDrift |-> d.tDrift[t], tDrift2 |-> d.tDrift2[t] ]]

(* The messages redcor_ProcessReceivedMessage updates the diagnostics for: *)
(* all but those it ignores before it looks at their place.                *)
IsDiagnosed(c, pdu) ==
  /\ c.state = "Up" /\ pdu.crcOk
  /\ ~ IgnoredAtStart(c, pdu)
  /\ IsSequenceNumberOlder(pdu.seq, c.seqRx) \/ InWindow(c, pdu)

-----------------------------------------------------------------------------

VARIABLES
  ch,       \* the redundancy channel
  diag,     \* its diagnostics
  net,      \* net[t]: the copies transport channel t holds, oldest first
  sent,     \* how many messages the peer sent; the n-th has payload n - 1
  ticks,    \* how far the time has advanced
  repeats,  \* how often a copy was repeated
  opens,    \* how often the channel was opened
  heard,    \* history: the diagnosed copies since the channel was opened
  since,    \* history: how many of them came before the current window
  notice    \* what this step notified, or <<>>

vars == <<ch, diag, net, sent, ticks, repeats, opens, heard, since, notice>>

Now == (StartTime + ticks) % SeqMod

TypeOK ==
  /\ ch \in Channel /\ ~ ch.fatal
  /\ diag \in Diagnostics
  /\ net \in [Transports -> Seq(PDU)]
  /\ since \in 0 .. Len(heard)

Init ==
  /\ ch = InitialChannel
  /\ diag = InitDiagnostics
  /\ net = [t \in Transports |-> <<>>]
  /\ sent = 0 /\ ticks = 0 /\ repeats = 0 /\ opens = 0
  /\ heard = <<>> /\ since = 0 /\ notice = <<>>

(* redcor_InitRedundancyChannelData clears the diagnostics, unreported.    *)
Open ==
  /\ ch.state = "Closed" /\ opens < MaxOpens
  /\ ch' = OpenRedundancyChannel(ch)
  /\ diag' = InitDiagnostics
  /\ opens' = opens + 1
  /\ heard' = <<>> /\ since' = 0 /\ notice' = <<>>
  /\ UNCHANGED <<net, sent, ticks, repeats>>

Close ==
  /\ ch.state = "Up"
  /\ ch' = CloseRedundancyChannel(ch)
  /\ diag' = InitDiagnostics
  /\ heard' = <<>> /\ since' = 0 /\ notice' = <<>>
  /\ UNCHANGED <<net, sent, ticks, repeats, opens>>

(* The layer above sends: from now on any message may be the first one.    *)
Send ==
  /\ ch.state = "Up" /\ ch.seqTx = 0
  /\ ch' = SendMessage(ch)
  /\ notice' = <<>>
  /\ UNCHANGED <<diag, net, sent, ticks, repeats, opens, heard, since>>

Read ==
  /\ ch.rxBuffer # <<>>
  /\ ch' = ReadFromBuffer(ch)
  /\ notice' = <<>>
  /\ UNCHANGED <<diag, net, sent, ticks, repeats, opens, heard, since>>

(* The peer sends a message on every transport channel (what it sends to a *)
(* closed channel is as good as lost).                                     *)
PeerSend ==
  /\ ch.state = "Up" /\ sent < MaxSent
  /\ \A t \in Transports : Len(net[t]) < MaxFlight
  /\ net' = [t \in Transports |->
       Append(net[t], [seq |-> Plus(FirstSeq, sent), payload |-> sent, crcOk |-> TRUE])]
  /\ sent' = sent + 1
  /\ notice' = <<>>
  /\ UNCHANGED <<ch, diag, ticks, repeats, opens, heard, since>>

(* A transport channel loses a copy, or damages it.                        *)
Lose(t) ==
  /\ net[t] # <<>>
  /\ net' = [net EXCEPT ![t] = Tail(@)]
  /\ notice' = <<>>
  /\ UNCHANGED <<ch, diag, sent, ticks, repeats, opens, heard, since>>

(* Event ReceiveData for a PDU of transport channel t.                     *)
Receive(t, pdu) ==
  /\ ch.state = "Up" => RoomToReceive(ch)
  /\ ch' = ReceiveData(ch, pdu)
  /\ IF IsDiagnosed(ch, pdu)
       THEN LET reports == Stored(diag, pdu.seq) = {} /\ WindowFull(diag)
            IN  /\ diag' = UpdateDiagnostics(diag, t, pdu.seq, Now)
                /\ notice' = IF reports THEN <<Notification(diag)>> ELSE <<>>
                /\ since' = IF reports THEN Len(heard) ELSE since
                /\ heard' = Append(heard, [t |-> t, n |-> pdu.payload, at |-> ticks])
       ELSE notice' = <<>> /\ UNCHANGED <<diag, since, heard>>
  /\ UNCHANGED <<sent, ticks, opens>>

Arrive(t) ==
  /\ net[t] # <<>>
  /\ Receive(t, Head(net[t]))
  /\ net' = [net EXCEPT ![t] = Tail(@)]
  /\ UNCHANGED repeats

(* A copy arrives, and will arrive once more.                              *)
Repeat(t) ==
  /\ net[t] # <<>> /\ repeats < MaxRepeats
  /\ Receive(t, Head(net[t]))
  /\ repeats' = repeats + 1
  /\ UNCHANGED net

(* redint_CheckTimings: the defer queue times out.                         *)
CheckTimings ==
  /\ ch.state = "Up" /\ IsTimeout(ch.deferQueue)
  /\ ch' = CheckDeferTimeout(ch)
  /\ notice' = <<>>
  /\ UNCHANGED <<diag, net, sent, ticks, repeats, opens, heard, since>>

Tick ==
  /\ ticks < MaxTicks
  /\ ticks' = ticks + 1
  /\ ch' = AgeDeferQueue(ch)
  /\ notice' = <<>>
  /\ UNCHANGED <<diag, net, sent, repeats, opens, heard, since>>

Next ==
  \/ Open
  \/ Close
  \/ Send
  \/ Read
  \/ PeerSend
  \/ \E t \in Transports : Lose(t)
  \/ \E t \in Transports : Arrive(t)
  \/ \E t \in Transports : Repeat(t)
  \/ CheckTimings
  \/ Tick

Spec == Init /\ [][Next]_vars

-----------------------------------------------------------------------------
(* What a report has to say, from the history of what was heard.           *)

ThisWindow == since + 1 .. Len(heard)

(* The first copy of a message among those at the places P of the history. *)
FirstIn(P, n) == Min({i \in P : heard[i].n = n})
Delay(P, i) == heard[i].at - heard[FirstIn(P, heard[i].n)].at

OnTime(P, t) == {i \in P : heard[i].t = t /\ Delay(P, i) <= TSeq}
Messages(P) == {heard[i].n : i \in P}

(* The diagnostic data is that of the copies heard since the channel was   *)
(* opened or last reported: one entry per message, the transport channels  *)
(* that delivered it at most t_seq after the fastest one, and the sum of   *)
(* their delays and squared delays, across the wrap-around of the sequence *)
(* numbers and of the time, and whatever else went to the defer queue, was *)
(* dropped or timed out there.                                             *)
CountersMatchHistory ==
  /\ Len(diag.window) = Cardinality(Messages(ThisWindow))
  /\ \A t \in Transports :
       /\ diag.tDrift[t] = MapThenSumSet(LAMBDA i : Delay(ThisWindow, i), OnTime(ThisWindow, t))
       /\ diag.tDrift2[t] =
            MapThenSumSet(LAMBDA i : Delay(ThisWindow, i) * Delay(ThisWindow, i), OnTime(ThisWindow, t))
       /\ Cardinality({i \in DOMAIN diag.window : t \in diag.window[i].received})
            = Cardinality({heard[i].n : i \in OnTime(ThisWindow, t)})

(* A report misses no loss: of the messages first received in its window,  *)
(* n_missed counts every one that the transport channel has not delivered  *)
(* within t_seq of the first copy.  What it counts beyond that are at most *)
(* messages an earlier report counted already, of which a copy came after  *)
(* that report.                                                            *)
ReportIsTrue ==
  [][ notice' # <<>> =>
        LET all   == DOMAIN heard
            fresh == {n \in Messages(ThisWindow) : FirstIn(all, n) \in ThisWindow}
        IN  \A t \in Transports :
              LET lost == fresh \ {heard[i].n : i \in OnTime(all, t)}
              IN  /\ notice'[1][t].nDiagnosis = NDiagnosis
                  /\ notice'[1][t].nMissed - Cardinality(lost)
                       \in 0 .. Cardinality(Messages(ThisWindow) \ fresh) ]_vars
=============================================================================
