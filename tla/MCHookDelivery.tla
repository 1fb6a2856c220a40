---------------------------- MODULE MCHookDelivery ----------------------------
(* HookDelivery on a small instance.                                        *)
EXTENDS HookDelivery
=============================================================================
