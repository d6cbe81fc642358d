------------------------------- MODULE NodeLife -------------------------------
(***************************************************************************)
(* What the rest of a process may rely on about its node: the order of its *)
(* states, and that it has the master key when it is READY.  Bootstrap     *)
(* takes it for granted, the nodes of Cluster are shown to keep to it.     *)
(***************************************************************************)
VARIABLES
  status,      \* NodeState.state, "DOWN" without a process
  key          \* is there a readable master key file?

Changes ==
  IF key
  THEN {<<"INIT", "VALIDATING">>, <<"INIT", "READY">>, <<"SEEDING", "READY">>,
        <<"QUERY_KEY", "READY">>, <<"VALIDATING", "READY">>}
  ELSE {<<"INIT", "NO_KEY">>, <<"NO_KEY", "SEEDING">>, <<"NO_KEY", "QUERY_KEY">>}

Init == status = "DOWN" /\ key \in BOOLEAN

Start == status = "DOWN" /\ status' = "INIT" /\ UNCHANGED key

ChangeStatus(s) == <<status, s>> \in Changes /\ status' = s /\ UNCHANGED key

(* The key is written before READY is set, or in the same step when nobody *)
(* looks in between.                                                       *)
WriteKey ==
  /\ status \in {"SEEDING", "QUERY_KEY"} /\ ~key
  /\ key' = TRUE
  /\ status' \in {status, "READY"}

End == status # "DOWN" /\ status' = "DOWN" /\ UNCHANGED key

Next ==
  \/ Start \/ WriteKey \/ End
  \/ \E s \in {"NO_KEY", "SEEDING", "QUERY_KEY", "VALIDATING", "READY"} : ChangeStatus(s)

Step == [Next]_<<status, key>>

Spec == Init /\ [][Next]_<<status, key>>
=============================================================================
