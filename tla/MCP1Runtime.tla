------------------------------ MODULE MCP1Runtime ------------------------------
(* P1Runtime on small instances.                                            *)
EXTENDS P1Runtime
=============================================================================
