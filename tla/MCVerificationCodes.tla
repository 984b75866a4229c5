------------------------- MODULE MCVerificationCodes -------------------------
(***************************************************************************)
(* Rate limits and verification codes on a small instance.  Sign-in and    *)
(* the password change share no row with the verification of a contact, so *)
(* a behaviour has clients of one kind only.                               *)
(***************************************************************************)
EXTENDS VerificationCodes, TLC

VARIABLE routes      \* what the clients of this behaviour ask for

MCMaxEvents == [l \in Limits |->
    IF l = "login.ip_attempts" THEN 3
    ELSE IF l = "login.pair_failures" THEN 1 ELSE 2]
MCWindowOf == [l \in Limits |-> IF l = "upload.ip" THEN 3 ELSE 2]

Kinds == {{"login"}, {"password"}, {"upload"}, {"send", "confirm"}}

MCInit == Init /\ routes \in Kinds

MCNext ==
    /\ Next
    /\ UNCHANGED routes
    /\ \A c \in Clients : op'[c] \in routes \cup {"none"}

MCSpec == MCInit /\ [][MCNext]_<<vars, routes>>

MCSymmetry == Permutations(Clients)
=============================================================================
