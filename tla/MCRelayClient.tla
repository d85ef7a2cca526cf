---------------------------- MODULE MCRelayClient ----------------------------
(* The instance of RelayClient that Relay.cfg gives its bounds.            *)
EXTENDS RelayClient
=============================================================================
