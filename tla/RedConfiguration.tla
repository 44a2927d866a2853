-------------------------- MODULE RedConfiguration --------------------------
(***************************************************************************)
(* The configuration of the redundancy layer (redcty), the check it has to *)
(* pass (reddia_IsConfigurationValid), and the searches that attribute a   *)
(* transport channel to a redundancy channel.                              *)
(***************************************************************************)
EXTENDS Integers, Sequences

CONSTANT RedLimits  \* the redcty_kMin... and redcty_kMax... constants, and RADEF_...

ASSUME RedLimitsAssumption ==
  RedLimits \in [kMinTSeq : Nat, kMaxTSeq : Nat, kMinRedLayerNDiagnosis : Nat,
                 MaxNDiagnosis : Nat, kMinDeferQueueSize : Nat,
                 MaxDeferQueueSize : Nat, MaxRedChannels : Nat \ {0},
                 MaxTransportChannels : Nat \ {0}]

(* The limits of the source.                                               *)
SourceRedLimits ==
  [ kMinTSeq |-> 50, kMaxTSeq |-> 500, kMinRedLayerNDiagnosis |-> 10,
    MaxNDiagnosis |-> 1000, kMinDeferQueueSize |-> 4, MaxDeferQueueSize |-> 10,
    MaxRedChannels |-> 2, MaxTransportChannels |-> 2 ]

CheckCodeTypes == 0 .. 4  \* redcty_kCheckCodeA, B, C, D, E

(* redcty_RedundancyChannelConfiguration: the transport channels are the   *)
(* first num_transport_channels of the array.                              *)
RedundancyChannelConfiguration ==
  [red_channel_id : Nat, transport_channel_ids : Seq(Nat)]

(* Redundancy channels are numbered from 1 here.                           *)
RedundancyLayerConfiguration ==
  [ check_code_type : Nat, t_seq : Nat, n_diagnosis : Nat,
    n_defer_queue_size : Nat,
    redundancy_channel_configurations : Seq(RedundancyChannelConfiguration) ]

TransportChannelIds == 0 .. RedLimits.MaxRedChannels * RedLimits.MaxTransportChannels - 1

(* The configuration of one channel, in the loop of the check.             *)
IsChannelConfigurationValid(channel, index) ==
  /\ channel.red_channel_id = index
  /\ Len(channel.transport_channel_ids) \in 1 .. RedLimits.MaxTransportChannels
  /\ \A i \in DOMAIN channel.transport_channel_ids :
       channel.transport_channel_ids[i] \in TransportChannelIds

(* reddia_IsConfigurationValid                                             *)
IsRedConfigurationValid(cfg) ==
  /\ cfg.check_code_type % 65536 \in CheckCodeTypes
  /\ cfg.t_seq \in RedLimits.kMinTSeq .. RedLimits.kMaxTSeq
  /\ cfg.n_diagnosis \in RedLimits.kMinRedLayerNDiagnosis .. RedLimits.MaxNDiagnosis
  /\ cfg.n_defer_queue_size \in
       RedLimits.kMinDeferQueueSize .. RedLimits.MaxDeferQueueSize
  /\ Len(cfg.redundancy_channel_configurations) \in 1 .. RedLimits.MaxRedChannels
  /\ \A i \in DOMAIN cfg.redundancy_channel_configurations :
       IsChannelConfigurationValid(cfg.redundancy_channel_configurations[i], i - 1)

(* The configuration that comes with the stack (redcfg).                   *)
redundancy_layer_configuration ==
  [ check_code_type |-> 0, t_seq |-> 50, n_diagnosis |-> 200,
    n_defer_queue_size |-> 4,
    redundancy_channel_configurations |->
      << [red_channel_id |-> 0, transport_channel_ids |-> <<0, 1>>],
         [red_channel_id |-> 1, transport_channel_ids |-> <<2, 3>>] >> ]

-----------------------------------------------------------------------------

TransportsOf(channel) ==
  {channel.transport_channel_ids[i] : i \in DOMAIN channel.transport_channel_ids}

(* reddia_IsTransportChannelIdValid                                        *)
IsTransportChannelIdValid(cfg, index, transport) ==
  transport \in TransportsOf(cfg.redundancy_channel_configurations[index + 1])

(* GetTransportChannelIndex: the first place of the transport channel.     *)
GetTransportChannelIndex(cfg, index, transport) ==
  LET ids == cfg.redundancy_channel_configurations[index + 1].transport_channel_ids
      found == {i \in DOMAIN ids : ids[i] = transport}
  IN  (CHOOSE i \in found : \A j \in found : i <= j) - 1

(* The redundancy channels a transport channel is configured for.          *)
RedundancyChannelsOf(cfg, transport) ==
  {i \in DOMAIN cfg.redundancy_channel_configurations :
     transport \in TransportsOf(cfg.redundancy_channel_configurations[i])}

(* redcor_GetAssociatedRedundancyChannel asserts that there is one, and    *)
(* takes the first.                                                        *)
IsTransportChannelKnown(cfg, transport) == RedundancyChannelsOf(cfg, transport) # {}
GetAssociatedRedundancyChannel(cfg, transport) ==
  LET found == RedundancyChannelsOf(cfg, transport)
  IN  (CHOOSE i \in found : \A j \in found : i <= j) - 1
=============================================================================
