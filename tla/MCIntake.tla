------------------------------- MODULE MCIntake -------------------------------
(* Small instances of DiscordIntake for TLC. *)
EXTENDS DiscordIntake, TLC

CONSTANTS ana, bob, k1, k2, a1, n1, c1, c2, c3

MCGroupAnon == (ana :> a1) @@ (bob :> NoAddress)

\* Three commands that reply to one alert.
MCRefOf == [m \in Commands |-> n1]
MCActionOf ==
    (c1 :> [kind |-> "approve", category |-> "family", cohort |-> "test"]) @@
    (c2 :> [kind |-> "block", category |-> "family", cohort |-> "standing"]) @@
    (c3 :> [kind |-> "tier1", category |-> "family", cohort |-> "standing"])
===============================================================================
