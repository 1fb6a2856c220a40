------------------------- MODULE MCSidecarServices -------------------------
(***************************************************************************)
(* ConfigurationService, ActiveInjection and ClosureConfirmation on small   *)
(* instances.  The three services share no state, so that their products    *)
(* hold nothing new: each behaviour moves the one chosen in Init and leaves *)
(* the others where they start.                                             *)
(***************************************************************************)
EXTENDS ConfigurationService, ActiveInjection, ClosureConfirmation, TLC

CONSTANTS t1, t2, s1, s2, k1, k2, bad, p

VARIABLE service

OneAndTwo == s1 :> 1 @@ s2 :> 2

Symmetry == Permutations(Keys \ Malformed)

Initially ==
    /\ service \in {"configuration", "injection", "closure"}
    /\ AInit /\ Init /\ CInit
    (* One fingerprint is as good as the other, and only configuration       *)
    (* commands look at capabilities.                                        *)
    /\ composition = CHOOSE f \in Fingerprints : TRUE
    /\ service # "configuration" => ready

Moves ==
    /\ UNCHANGED service
    /\ \/ service = "configuration" /\ Next /\ UNCHANGED <<avars, cvars>>
       \/ service = "injection" /\ ANext /\ UNCHANGED <<vars, cvars>>
       \/ service = "closure" /\ CNext /\ UNCHANGED <<avars, vars>>

Services == Initially /\ [][Moves]_<<service, avars, vars, cvars>>
=============================================================================
