--------------------------- MODULE AlarmDelivery ---------------------------
(***************************************************************************)
(* What the uplink promises of the alarms that are to be repeated until    *)
(* they arrive (data/Data.h: congestion, overflow, abnormal stop): an      *)
(* alarm the server has taken over meets one fate, once, and does meet it. *)
(* It says nothing of order: a repeated alarm is overtaken by later ones.  *)
(***************************************************************************)
CONSTANT Alarms

VARIABLE where    \* for every alarm, how far it has come

Init == where = [a \in Alarms |-> "new"]

Move(a, from, to) == where[a] = from /\ where' = [where EXCEPT ![a] = to]

Accept(a)  == Move(a, "new", "held")
Refuse(a)  == Move(a, "new", "lost")
Receive(a) == Move(a, "held", "received")
Lose(a)    == Move(a, "held", "lost")

Next == \E a \in Alarms : Accept(a) \/ Refuse(a) \/ Receive(a) \/ Lose(a)

Spec == /\ Init /\ [][Next]_where
        /\ \A a \in Alarms : WF_where(Receive(a) \/ Lose(a))
=============================================================================
