----------------------------- MODULE MCRecovery -----------------------------
(***************************************************************************)
(* Small instances of a coordinator with a journal.  Its owners publish    *)
(* the same snapshots in every epoch.                                      *)
(***************************************************************************)
EXTENDS MCEngine, Recovery

DurablePolicies == {Policy(1, e, 0) : e \in 1 .. MaxEpoch}

DurableCapacities ==
    {Capacity(1, e, 1 :> Entry(1, 4)) : e \in 1 .. MaxEpoch} \cup
    {Capacity(2, e, 1 :> Entry(1, 1)) : e \in 1 .. MaxEpoch}

DurableReservations == {Reservation(1, NoObligation)}

\* Two demands that together fill the first snapshot, and another content for
\* the attempt of the first, bound to the second snapshot.
DurableRequests ==
    1 :> Request(1, 1, <<1, 1, 1>>, 1 :> 1, << >>, Expect(1, 1, 1)) @@
    2 :> Request(2, 1, <<1, 2, 2>>, 1 :> 1, << >>, Expect(2, 1, 1)) @@
    3 :> Request(3, 2, <<1, 2, 2>>, 1 :> 1, << >>, Expect(1, 1, 1))

\* After a restart there is less capacity than two grants may have taken before,
\* and still enough for two small ones.
RecoveryCapacities ==
    {Capacity(1, 1, 1 :> Entry(1, 4)), Capacity(2, 1, 1 :> Entry(1, 1)),
     Capacity(1, 2, 1 :> Entry(1, 2))}

RecoveryRequests == [q \in {1, 3} |-> DurableRequests[q]]
=============================================================================
