-------------------------------- MODULE MCReply --------------------------------
(* Small instances of ReviewedReply for TLC: one lead and its owner's command. *)
EXTENDS ReviewedReply, TLC

CONSTANTS ana, k1, k2, a1, t1, m1, w1, w2

MCAddressOf == ana :> a1
MCLeadOf == [t \in Threads |-> ana]
MCThreadOf == [m \in Messages |-> t1]
MCOwnBody == [m \in Messages |-> m]
===============================================================================
