------------------------------ MODULE MCShard ------------------------------
(* Instances of Shard for model checking. *)
EXTENDS Shard, TLC

CONSTANTS p1, p2

\* Two rayon workers of an unordered run: single rows, and one whole batch.
MCProducers == {p1, p2}
MCSizes == p1 :> <<1, 2, 1>> @@ p2 :> <<1, 1, 3>>

=============================================================================
