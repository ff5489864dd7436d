------------------------------ MODULE MCForwarding ------------------------------
(***************************************************************************)
(* A queue q1 and the topics t1 and t2, to which it links by one label,    *)
(* next to a topic t3 it does not link to, a queue q2 that forwards as     *)
(* well, and a queue dlq for its dead letters.                             *)
(***************************************************************************)
EXTENDS Forwarding

Bus == "bus" :> <<"events">>
Dead == "dead" :> <<"letters">>

Kinds(topics) == [r \in topics |-> "topic"] @@ [q1 |-> "queue", q2 |-> "queue", dlq |-> "queue"]

\* The topics ts of q1; fifo are the FIFO resources among all.
Forward(ts, fifo, attempts) ==
    LET kind == Kinds(ts \cup {"t3"})
    IN  [primaries |-> {}, links |-> <<>>, rank |-> <<>>, kind |-> kind,
         name |-> [r \in DOMAIN kind |-> Absent],
         labels |-> [r \in DOMAIN kind |->
                        CASE r \in ts -> Bus [] r = "dlq" -> Dead [] OTHER -> Absent],
         selector |-> [r \in DOMAIN kind |->
                        CASE r = "q1" -> (IF ts = {} THEN Dead ELSE Bus @@ Dead)
                          [] r = "q2" -> Bus
                          [] OTHER -> NoLabels],
         auth |-> <<>>, replicas |-> {}, deferred |-> [r \in DOMAIN kind |-> {}],
         preset |-> <<>>, aurora |-> <<>>, region |-> TRUE, validation |-> FALSE,
         appName |-> TRUE, artefact |-> TRUE, consumed |-> {}, billing |-> <<>>,
         capacity |-> <<>>, segment |-> <<>>,
         spec |-> [r \in DOMAIN kind |->
                    [fifo |-> r \in fifo, title |-> <<>>, events |-> <<>>,
                     attempts |-> IF r = "q1" THEN attempts ELSE Absent]],
         place |-> [t1 |-> 2, t2 |-> 1, t3 |-> 3],
         source |-> "q1", group |-> <<1, 1, 2>>]

Two == {"t1", "t2"}
All == {"t1", "t2", "t3", "q1", "q2", "dlq"}

\* Standard and FIFO, with and without a dead letter, consumed as well or instead,
\* topics that are not all what the queue is, and a topic that is refused.
ForwardBlueprints ==
    {Forward(Two, fifo, attempts) : fifo \in {{}, All}, attempts \in {Absent, 2}}
        \cup {[Forward(Two, All, 2) EXCEPT !.group = <<1, 2>>],
              Forward(Two, {"t2"}, 2),
              Forward(Two, {"q1", "q2", "dlq"}, 2),
              Forward({"t1"}, {"q1", "q2", "dlq"}, Absent),
              [Forward({}, {}, Absent) EXCEPT !.consumed = {"q1"}],
              [Forward(Two, {}, Absent) EXCEPT !.consumed = {"q1"}],
              [Forward(Two, {}, Absent) EXCEPT !.deferred["t1"] = {"fifo"}]}

FifoBlueprints == {Forward({"t1"}, All, Absent)}
=============================================================================
