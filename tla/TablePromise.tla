---------------------------- MODULE TablePromise ----------------------------
(***************************************************************************)
(* What an output table promises the pipeline, whatever the backend and    *)
(* however many writers share the work: rows that are routed are stored,   *)
(* never twice and never before they are routed; the run reports success   *)
(* only once every row it had to route is stored; and after an error       *)
(* nothing is reported as a success any more.                              *)
(***************************************************************************)
CONSTANT Rows

VARIABLES routed, stored, outcome

vars == <<routed, stored, outcome>>

Init == routed = {} /\ stored = {} /\ outcome = "running"

\* Some more rows are handed over.
Route ==
  /\ outcome = "running"
  /\ routed \subseteq routed' /\ routed' \subseteq Rows
  /\ UNCHANGED <<stored, outcome>>

\* Some routed rows reach the table; a table whose run has failed may keep growing,
\* a table reported complete does not.
Store ==
  /\ outcome # "ok"
  /\ stored \subseteq stored' /\ stored' \subseteq routed
  /\ UNCHANGED <<routed, outcome>>

Succeed ==
  /\ outcome = "running" /\ stored = Rows
  /\ outcome' = "ok"
  /\ UNCHANGED <<routed, stored>>

Fail ==
  /\ outcome = "running"
  /\ outcome' = "err"
  /\ UNCHANGED <<routed, stored>>

Next == Route \/ Store \/ Succeed \/ Fail

Spec == Init /\ [][Next]_vars

=============================================================================
