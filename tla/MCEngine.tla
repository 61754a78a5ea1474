------------------------------ MODULE MCEngine ------------------------------
(***************************************************************************)
(* Small instances of the engine: what the owners of authority may publish *)
(* and what the claimants may ask for.                                     *)
(***************************************************************************)
EXTENDS Engine, TLC

-----------------------------------------------------------------------------
(* Authority.  Capacity and obligations shrink and grow; the second policy  *)
(* keeps more headroom.                                                     *)

Policy(generation, inEpoch, floor) ==
    [generation |-> generation, epoch |-> inEpoch, observed_tick |-> 0,
     headroom_permille |-> 250, headroom_floor |-> floor, allow_degraded |-> TRUE,
     allow_preemptible_admission |-> FALSE, require_path_binding |-> FALSE,
     require_reservation_reference |-> FALSE, allow_path_substitution |-> TRUE,
     on_contention |-> "Reject", allowed_qos |-> {}, allowed_priorities |-> {},
     defer_horizon_ticks |-> 0]

Entry(generation, usable) ==
    [evidence |-> "Known", generation |-> generation, usable |-> usable, mandatory_headroom |-> 0]

UnknownEntry(generation) ==
    [evidence |-> "Unknown", generation |-> generation, usable |-> 0, mandatory_headroom |-> 0]

Capacity(generation, inEpoch, entries) ==
    [snapshot |-> 1, generation |-> generation, epoch |-> inEpoch, observed_tick |-> 0,
     resources |-> entries]

Obligation(reserved) ==
    [reserved |-> reserved, generation |-> 1, release_tick |-> 0, inviolable |-> FALSE]

Reservation(generation, obligations) ==
    [snapshot |-> 1, generation |-> generation, observed_tick |-> 0, obligations |-> obligations]

PathFact(state, usable, through) ==
    [state |-> state, generation |-> 1, usable |-> usable, latency |-> 1, resources |-> through]

Catalog(generation, facts) == [generation |-> generation, observed_tick |-> 0, paths |-> facts]

Classes(generation) ==
    [generation |-> generation, observed_tick |-> 0,
     classes |-> (1 :> [generation |-> 1, minimum_rate |-> 0, maximum_rate |-> 6,
                        maximum_latency |-> 9, degradation_allowed |-> TRUE])]

NoObligation == [o \in {} |-> Obligation(0)]

MCPolicies == {Policy(1, 1, 0), Policy(2, 1, 2)}

MCCapacities ==
    {Capacity(1, 1, 1 :> Entry(1, 4) @@ 2 :> Entry(1, 4)),
     Capacity(2, 1, 1 :> Entry(1, 2) @@ 2 :> UnknownEntry(1))}

MCReservations == {Reservation(1, NoObligation), Reservation(2, <<1, 1>> :> Obligation(2))}

MCPathCatalogs == {Catalog(1, 1 :> PathFact("Up", 3, {2}))}

MCQosCatalogs == {Classes(1)}

-----------------------------------------------------------------------------
(* Requests.  The first two are for the same attempt with different content. *)

Expect(c, r, p) ==
    [capacity_snapshot |-> 1, capacity_generation |-> c, reservation_snapshot |-> 1,
     reservation_generation |-> r, policy_generation |-> p, qos_catalog_generation |-> 1,
     priority_catalog_generation |-> 1, path_authority_generation |-> 1]

Request(id, demand, rates, bindings, candidates, expected) ==
    [request |-> id, demand |-> demand, attempt |-> 1,
     minimum |-> rates[1], desired |-> rates[2], maximum |-> rates[3], maximum_latency |-> 5,
     qos |-> 1, qos_generation |-> 1, priority |-> 1, priority_generation |-> 1,
     resource_bindings |-> bindings, path_candidates |-> candidates, required_path |-> NoPath,
     allow_path_substitution |-> FALSE, reservation_refs |-> [x \in {} |-> 0],
     preemptible |-> FALSE, requests_obligation_preemption |-> FALSE,
     contention |-> "InheritPolicy", degradation |-> "InheritPolicy", deadline_ticks |-> 0,
     expected |-> expected]

OnPath1 == <<[path |-> 1, generation |-> 1]>>

NoBinding == [r \in {} |-> 0]

MCRequests ==
    1 :> Request(1, 1, <<1, 1, 1>>, 1 :> 1, << >>, Expect(1, 1, 1)) @@
    2 :> Request(2, 1, <<1, 2, 2>>, 1 :> 1 @@ 2 :> 1, << >>, Expect(1, 1, 1)) @@
    3 :> Request(3, 2, <<1, 2, 3>>, 1 :> 1, OnPath1, Expect(1, 1, 1)) @@
    4 :> Request(4, 3, <<1, 1, 1>>, NoBinding, OnPath1, Expect(1, 2, 2))

\* One attempt, to be repeated.
RepeatedRequest == 1 :> MCRequests[1]

MCInProcessClaims == {[origin |-> "InProcess", epoch |-> 0, incarnation |-> 0]}
=============================================================================
