-------------------------- MODULE MCOrderedExport --------------------------
(* Instances of OrderedExport for model checking. *)
EXTENDS OrderedExport

CONSTANT fold

\* With SEND_BATCH = 3: two small calls that fill a batch together, the second one with a
\* side-split element; a small call that stays in the buffer; and a call of a whole batch.
MixedCalls == << <<1>>, <<3, 3>>, <<4>>, <<5, 5, 5>> >>

\* Four ways, the second one side-split, routed by calls all below SEND_BATCH.
SmallCalls == << <<1>>, <<2, 2>>, <<3>>, <<4>> >>

MCProducers == {fold}
MixedSizes == [p \in MCProducers |-> [i \in DOMAIN MixedCalls |-> Len(MixedCalls[i])]]
SmallSizes == [p \in MCProducers |-> [i \in DOMAIN SmallCalls |-> Len(SmallCalls[i])]]

=============================================================================
