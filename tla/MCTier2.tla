-------------------------------- MODULE MCTier2 --------------------------------
(* Small instances of Tier2Manager for TLC. *)
EXTENDS Tier2Manager, TLC

CONSTANTS ana, bob, k1, k2, a1, a2

MCLeads1 == {ana}

\* Two chats of one person, as a phone and a group or second chat give.
MCLeads2 == {ana, bob}
MCSameAddress == [l \in MCLeads2 |-> a1]
MCOwnAddress == (ana :> a1) @@ (bob :> a2)
MCAddressless == (ana :> a1) @@ (bob :> NoAddress)
===============================================================================
