----------------------------- MODULE BoundedCall -----------------------------
(***************************************************************************)
(* What timeout_retry.Run promises its caller: a bounded number of tries,  *)
(* and one result.                                                         *)
(***************************************************************************)
EXTENDS Naturals

CONSTANT Retries

VARIABLES try, result

vars == <<try, result>>

Results == {"value", "error", "timeout"}

Init == try = 1 /\ result = "none"

TryAgain ==
  /\ result = "none"
  /\ try <= Retries
  /\ try' = try + 1
  /\ UNCHANGED result

Finish ==
  /\ result = "none"
  /\ result' \in Results
  /\ result' # "value" => try > Retries
  /\ UNCHANGED try

Next == TryAgain \/ Finish

Spec == Init /\ [][Next]_vars
=============================================================================
