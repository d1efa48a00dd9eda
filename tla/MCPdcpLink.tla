----------------------------- MODULE MCPdcpLink -----------------------------
(* One direction of a DRB with PDCP on RLC AM, on small instances.             *)
EXTENDS PdcpLink
=============================================================================
