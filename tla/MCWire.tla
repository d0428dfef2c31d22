------------------------------- MODULE MCWire -------------------------------
EXTENDS Wire

(* Short packets of the printer, and bodies too short to be parsed. *)
ConnAck(code) == Packet(CONNACK, 0, code, <<>>, 2, <<code>>)
SubAck(qos) == Packet(SUBACK, 0, qos, <<>>, 3, <<qos>>)
Broken ==
    {Packet(CONNACK, 0, 0, <<>>, 1, Malformed),
     Packet(SUBACK, 0, 0, <<>>, 2, Malformed),
     Packet(PUBLISH, 0, 0, <<>>, 1, Malformed),
     [Packet(PUBLISH, 0, 0, <<>>, 8, Malformed) EXCEPT !.claims = <<7>>]}

(* Publishes whose body is as long as the greatest and the least length of *)
(* each number of bytes, and one that needs a fifth.                       *)
Edges == {127, 128, 16383, 16384, 2097151, 2097152, Longest, Longest + 1}
Reports == {Publish(27, len - 29) : len \in Edges}
             \cup {Publish(0, 0), Publish(65535, 0), Publish(6, 0)}

MCPackets ==
    Broken \cup Reports
        \cup {ConnAck(code) : code \in {0, 5}} \cup {SubAck(qos) : qos \in {0, 128}}
        \cup {Connect(id, user, pass) :
                 id \in {29}, user \in {0, 4}, pass \in {0, 8, 65535}}
        \cup {Subscribe(27), Ping, Packet(PINGRESP, 0, 0, <<>>, 0, <<0>>)}
=============================================================================
