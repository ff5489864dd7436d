--------------------------------- MODULE FanOut ---------------------------------
(***************************************************************************)
(* What linking a queue to topics promises: every message sent to the      *)
(* queue is delivered to every topic, at least once, before the queue is   *)
(* rid of it, unless it is given up as a dead letter; nothing is delivered *)
(* to other topics, nor once the queue is rid of it.                       *)
(***************************************************************************)
EXTENDS Naturals

VARIABLES topics,       \* the topics linked to, fixed
          sent,         \* how many messages have been sent; they are 1..sent
          delivered,    \* pairs of a message and a topic it was delivered to
          settled,      \* the messages the queue is rid of
          dead          \* those of them that were given up

vars == <<topics, sent, delivered, settled, dead>>

Init ==
    /\ sent = 0
    /\ delivered = {}
    /\ settled = {}
    /\ dead = {}

Send ==
    /\ sent' = sent + 1
    /\ UNCHANGED <<topics, delivered, settled, dead>>

Deliver ==
    /\ \E m \in 1..sent \ settled, ts \in SUBSET topics :
            delivered' = delivered \cup {m} \X ts
    /\ UNCHANGED <<topics, sent, settled, dead>>

Settle ==
    /\ \E ms \in SUBSET (1..sent \ settled) :
            /\ ms \X topics \subseteq delivered
            /\ settled' = settled \cup ms
    /\ UNCHANGED <<topics, sent, delivered, dead>>

GiveUp ==
    /\ \E m \in 1..sent \ settled :
            /\ settled' = settled \cup {m}
            /\ dead' = dead \cup {m}
    /\ UNCHANGED <<topics, sent, delivered>>

Next == Send \/ Deliver \/ Settle \/ GiveUp

Spec == Init /\ [][Next]_vars
=============================================================================
