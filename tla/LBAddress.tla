----------------------------- MODULE LBAddress -----------------------------
(***************************************************************************)
(* What the load-balancer controller promises about a Service's public     *)
(* address (spec.md 3, "if rules is non-empty, publicIP must be set and    *)
(* consistent across all rules"): the rules of a Service stand on one      *)
(* address at a time, and the Service moves to another address only by     *)
(* losing all its rules first.  bound[s] is the address s's rules stand    *)
(* on, NoIP when it has none.                                              *)
(***************************************************************************)
CONSTANTS Services, Addresses, NoIP

VARIABLE bound

Init == bound \in [Services -> Addresses \cup {NoIP}]

\* The first rule of the Service is created on an address.
Bind(s) ==
    /\ bound[s] = NoIP
    /\ \E ip \in Addresses : bound' = [bound EXCEPT ![s] = ip]

\* The last rule of the Service is gone (deleted, released or by hand).
Unbind(s) ==
    /\ bound[s] # NoIP
    /\ bound' = [bound EXCEPT ![s] = NoIP]

Next == \E s \in Services : Bind(s) \/ Unbind(s)

Spec == Init /\ [][Next]_bound

=============================================================================
