------------------------------ MODULE Delivery ------------------------------
(***************************************************************************)
(* What the routing table promises to those who send over it: a packet is  *)
(* under way until it arrives, unless the network loses it or, if it is a  *)
(* private message, somebody refuses to pass it on.  A request that        *)
(* arrives may be answered.                                                *)
(***************************************************************************)
EXTENDS Naturals

CONSTANTS
    Letter,     \* what clients send
    Private,    \* the letters that are private messages; others are requests
    MaxFaults   \* bound on the packets lost or delivered twice

VARIABLES underWay, arrived, faults

vars == <<underWay, arrived, faults>>

Sent(l) == [letter |-> l, reply |-> FALSE]
Answers(p) == IF p.reply \/ p.letter \in Private THEN {} ELSE {[p EXCEPT !.reply = TRUE]}

Init == underWay = {} /\ arrived = {} /\ faults = 0

\* What p leaves under way: nothing, unless a fault has made a copy of it.
Left(p) == {underWay \ {p}} \cup IF faults' > 0 THEN {underWay} ELSE {}

MayFault == faults' = faults \/ (faults < MaxFaults /\ faults' = faults + 1)

Send(l) == underWay' = underWay \cup {Sent(l)} /\ UNCHANGED <<arrived, faults>>

Arrive(p) ==
    /\ MayFault
    /\ arrived' = arrived \cup {p}
    /\ \E left \in Left(p), answer \in SUBSET Answers(p) : underWay' = left \cup answer

Refuse(p) == p.letter \in Private /\ MayFault /\ underWay' \in Left(p) /\ UNCHANGED arrived

Fault(p) == faults < MaxFaults /\ faults' = faults + 1 /\ underWay' \in Left(p) /\ UNCHANGED arrived

Next ==
    \/ \E l \in Letter : Send(l)
    \/ \E p \in underWay : Arrive(p) \/ Refuse(p) \/ Fault(p)

Spec == Init /\ [][Next]_vars
=============================================================================
