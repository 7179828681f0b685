-------------------------------- MODULE Mutex --------------------------------
(***************************************************************************)
(* What a file lock promises: at most one process is between acquisition   *)
(* and release.                                                            *)
(***************************************************************************)
CONSTANT Clients

VARIABLE inside

Init == inside = {}

Acquire(p) == inside = {} /\ inside' = {p}

Release(p) == p \in inside /\ inside' = inside \ {p}

Next == \E p \in Clients : Acquire(p) \/ Release(p)

Spec == Init /\ [][Next]_inside
==============================================================================
