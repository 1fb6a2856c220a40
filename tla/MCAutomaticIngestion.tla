-------------------------- MODULE MCAutomaticIngestion --------------------------
(* AutomaticIngestion on small instances.                                   *)
EXTENDS AutomaticIngestion

CONSTANTS s1, s2, r1, r2
=============================================================================
