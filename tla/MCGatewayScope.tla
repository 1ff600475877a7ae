--------------------------- MODULE MCGatewayScope ---------------------------
(***************************************************************************)
(* The instance of MCGateway for the property of GatewayScope.             *)
(***************************************************************************)
EXTENDS MCGateway, GatewayScope
=============================================================================
