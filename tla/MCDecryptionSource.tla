------------------------- MODULE MCDecryptionSource -------------------------
(* Streams of up to seven bytes that are all different, with a tag of two: *)
(* the sealed payload, every truncation of it, and longer and altered ones. *)
EXTENDS DecryptionSource

Payload   == <<1, 2, 3, 4, 5, 6, 7>>
Truncated == {SubSeq(Payload, 1, n) : n \in 0 .. 7}
Altered   == {[Payload EXCEPT ![i] = 9] : i \in 1 .. 7}
Extended  == {Payload \o <<8>>, Payload \o <<6, 7>>}
AllStreams == Truncated \cup Altered \cup Extended
=============================================================================
