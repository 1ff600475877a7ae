-------------------------- MODULE MCGatewayHistory --------------------------
(***************************************************************************)
(* The instance of MCGateway for the properties of GatewayHistory.         *)
(***************************************************************************)
EXTENDS MCGateway, GatewayHistory
=============================================================================
