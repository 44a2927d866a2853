-------------------------- MODULE MCRedDiagnostics --------------------------
(***************************************************************************)
(* Two transport channels and a window of two messages.                    *)
(***************************************************************************)
EXTENDS RedDiagnostics, RedConfiguration

MCPayloads == 0 .. MaxSent - 1

(* The configuration that comes with the stack passes the check, and leads *)
(* each transport channel to its redundancy channel.                       *)
ASSUME ShippedConfiguration ==
  LET cfg == redundancy_layer_configuration
  IN  /\ IsRedConfigurationValid(cfg)
      /\ \A transport \in 0 .. 3 :
           /\ IsTransportChannelKnown(cfg, transport)
           /\ GetAssociatedRedundancyChannel(cfg, transport) = transport \div 2
           /\ GetTransportChannelIndex(cfg, transport \div 2, transport) = transport % 2
=============================================================================
