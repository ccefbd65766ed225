------------------------------- MODULE MCFiles -------------------------------
(***************************************************************************)
(* What RoundTripThm supposes of configurations, for the mixed tree of     *)
(* MCKconfig: every one of them, however it was reached, has modes that    *)
(* can be inferred and defaults that come back.                            *)
(***************************************************************************)
EXTENDS MCKconfig

UserValues == {f \in [Items -> {None, 0, 1, 2}] : \A i \in Items : f[i] \in TypeValues(i) \cup {None}}

ASSUME FilesAreComplete ==
    \A user \in UserValues, usel \in {None, P, Q} :
    \A x \in {Config([q \in Cells |-> CASE q[2] = "user" -> user[q[1]] [] q[2] = "usel" -> usel
                                        [] OTHER -> None])} :
        ModeIsInferred(x) /\ DefaultsReturn(x)
=============================================================================
