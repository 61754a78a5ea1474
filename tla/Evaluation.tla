----------------------------- MODULE Evaluation -----------------------------
(***************************************************************************)
(* The evaluation steps of an admission (src/engine/admission.cpp): pure   *)
(* functions of the request, the claim and the state, up to the verdict    *)
(* and the grant.  Every comparison is the code's, in the code's order;    *)
(* the explanation that goes with a verdict is left out.                   *)
(***************************************************************************)
EXTENDS Authority, History, Sequences

CONSTANT AcceptInProcessClaims   \* EngineConfig::accept_in_process_claims

VARIABLES
    sessions,             \* live sessions: nonce -> claimant (publisher and boot)
    next_session_nonce

sessionVars == <<sessions, next_session_nonce>>

\* What a request states must be a uint64; its lists are functions of their
\* keys, and its path candidates are in order of preference.
ASSUME EvaluationAssumption ==
    /\ AcceptInProcessClaims \in BOOLEAN
    /\ \A q \in Fingerprints :
          /\ Requests[q].minimum \in U64 /\ Requests[q].desired \in U64 /\ Requests[q].maximum \in U64
          /\ DOMAIN Requests[q].resource_bindings \subseteq Resources
          /\ DOMAIN Requests[q].path_candidates \subseteq Nat

-----------------------------------------------------------------------------
\* Step 0, validate(request): the parts that depend on values.
Contract(q) ==
    LET req == Requests[q]
        declared == {req.path_candidates[i].path : i \in DOMAIN req.path_candidates}
    IN  /\ req.maximum # 0 /\ req.minimum <= req.desired /\ req.desired <= req.maximum
        /\ Cardinality(declared) = Len(req.path_candidates)
        /\ DOMAIN req.resource_bindings # {} \/ declared # {}
        /\ req.required_path # NoPath =>
              /\ req.required_path \in declared
              /\ ~(req.allow_path_substitution /\ Len(req.path_candidates) > 1)

\* Faulty: the claim's session is checked, its epoch is not.
FenceBySession(claim) ==
    IF claim.session \in DOMAIN sessions /\ sessions[claim.session] = claim.claimant
    THEN "PASS" ELSE "FENCED_CLAIMANT"

\* Step 1, check_fence().
Fence(claim) ==
    IF claim.origin = "InProcess" /\ AcceptInProcessClaims
    THEN IF claim.epoch \in {0, epoch} /\ claim.incarnation \in {0, incarnation}
         THEN "PASS" ELSE "FENCED_CLAIMANT"
    ELSE IF claim.epoch > epoch THEN "CONFLICTING_INPUT"
    ELSE IF /\ claim.epoch # 0 /\ claim.epoch = epoch
            /\ claim.incarnation = incarnation
            /\ claim.session \in DOMAIN sessions
            /\ sessions[claim.session] = claim.claimant
         THEN "PASS" ELSE "FENCED_CLAIMANT"

\* Step 3, check_readiness().
ReadinessRefusal ==
    CASE Readiness = "AwaitingPolicy" -> "REJECT_POLICY"
      [] Readiness = "AwaitingPaths"  -> "REJECT_PATH"
      [] OTHER                        -> "STALE_INPUT"

\* Step 4, check_expectations(): everything the claimant observed is current.
PathBindingRequired == policy # None /\ policy.require_path_binding

BindsTheSnapshots(expected) ==
    /\ capacity # None /\ reservations # None
    /\ policy # None /\ qos # None /\ priorities # None
    /\ expected.capacity_snapshot = capacity.snapshot
    /\ expected.capacity_generation = capacity.generation
    /\ expected.reservation_snapshot = reservations.snapshot
    /\ expected.reservation_generation = reservations.generation
    /\ expected.policy_generation = policy.generation
    /\ expected.qos_catalog_generation = qos.generation
    /\ expected.priority_catalog_generation = priorities.generation

BindsThePaths(req) ==
    /\ PathBindingRequired \/ req.path_candidates # << >> =>
          paths # None /\ req.expected.path_authority_generation = paths.generation
    /\ \A i \in DOMAIN req.path_candidates :
          LET c == req.path_candidates[i]
          IN  Published(c.path) /\ c.generation = paths.paths[c.path].generation

BindsTheResources(req) ==
    \A r \in DOMAIN req.resource_bindings :
       Known(r) /\ req.resource_bindings[r] = capacity.resources[r].generation

BindsTheClasses(req) ==
    /\ req.qos \in DOMAIN qos.classes /\ req.qos_generation = qos.classes[req.qos].generation
    /\ req.priority \in DOMAIN priorities.classes
    /\ req.priority_generation = priorities.classes[req.priority].generation

\* A reference is compared with the first obligation of that reservation, in
\* the order of the resources.
BindsTheReservations(req) ==
    \A x \in DOMAIN req.reservation_refs :
       LET on == {o[1] : o \in {p \in DOMAIN reservations.obligations : p[2] = x}}
       IN  /\ on # {}
           /\ reservations.obligations[<<Min(on), x>>].generation = req.reservation_refs[x]

Expectations(req) ==
    /\ BindsTheSnapshots(req.expected)
    /\ BindsThePaths(req)
    /\ BindsTheResources(req)
    /\ BindsTheClasses(req)
    /\ BindsTheReservations(req)

\* Step 5, check_policy().
PolicyOutcome(req) ==
    LET class == qos.classes[req.qos]
    IN  IF policy.allowed_qos # {} /\ req.qos \notin policy.allowed_qos THEN "REJECT_QoS"
        ELSE IF \/ policy.allowed_priorities # {} /\ req.priority \notin policy.allowed_priorities
                \/ policy.require_reservation_reference /\ DOMAIN req.reservation_refs = {}
                \/ req.preemptible /\ ~policy.allow_preemptible_admission
             THEN "REJECT_POLICY"
        ELSE IF req.requests_obligation_preemption THEN "REJECT_OBLIGATION"
        ELSE IF \/ req.minimum < class.minimum_rate
                \/ req.maximum > class.maximum_rate
                \/ req.maximum_latency > class.maximum_latency
             THEN "REJECT_QoS"
        ELSE "PASS"

-----------------------------------------------------------------------------
(* Step 6, select_path() *)

\* The candidates it tries, as positions in the declared order.
Considered(req) ==
    LET all == DOMAIN req.path_candidates
    IN  IF req.required_path # NoPath
        THEN {i \in all : req.path_candidates[i].path = req.required_path}
        ELSE IF req.allow_path_substitution /\ policy.allow_path_substitution THEN all
        ELSE all \cap {1}

\* How one candidate fares.
Usability(req, i) ==
    LET p == req.path_candidates[i].path
        fact == paths.paths[p]
    IN  IF ~Published(p) THEN "path"
        ELSE IF fact.state = "Unknown" THEN "unknown"
        ELSE IF fact.state # "Up" THEN "path"
        ELSE IF \E r \in fact.resources : ~Known(r) THEN "unknown"
        ELSE IF fact.latency > req.maximum_latency THEN "path"
        ELSE IF PathFree(p) < req.minimum THEN "capacity"
        ELSE IF \E r \in fact.resources : Allowance(r) < req.minimum THEN "capacity"
        ELSE "usable"

\* The outcome, the path selected and the resources it traverses.  With no
\* usable candidate but one short of capacity, the code goes on to the capacity
\* step with the resources of that candidate and no path selected.
SelectPath(req) ==
    LET faring(how) == {i \in Considered(req) : Usability(req, i) = how}
        first(how)  == req.path_candidates[Min(faring(how))].path
        chosen(outcome, p, through) == [outcome |-> outcome, path |-> p, traversal |-> through]
    IN  IF req.path_candidates = << >>
        THEN chosen(IF PathBindingRequired THEN "REJECT_POLICY" ELSE "PASS", NoPath, {})
        ELSE IF faring("usable") # {}
        THEN chosen("PASS", first("usable"), paths.paths[first("usable")].resources)
        ELSE IF faring("unknown") # {} THEN chosen("STALE_INPUT", NoPath, {})
        ELSE IF faring("capacity") # {}
        THEN chosen("PASS", NoPath, paths.paths[first("capacity")].resources)
        ELSE chosen("REJECT_PATH", NoPath, {})

-----------------------------------------------------------------------------
(* Steps 7 and 8, evaluate_capacity() and the grant *)

Targets(req) == DOMAIN req.resource_bindings \cup SelectPath(req).traversal

DeferPreferred(req) ==
    \/ req.contention = "Defer"
    \/ req.contention = "InheritPolicy" /\ policy.on_contention = "Defer"

Willing(req) == Min({req.deadline_ticks, policy.defer_horizon_ticks})

CapacityOutcomeOn(req, r) ==
    LET entry == capacity.resources[r]
    IN  IF ~Known(r) THEN "STALE_INPUT"
        ELSE IF entry.usable < req.minimum THEN "REJECT_CAPACITY"
        ELSE IF SatSub(entry.usable, HeadroomFor(r)) < req.minimum THEN "REJECT_CAPACITY"
        ELSE IF Allowance(r) < req.minimum
        THEN IF DeferPreferred(req) /\ ObligationReleasesWithin(r, SatAdd(tick, Willing(req)))
             THEN "DEFER" ELSE "REJECT_OBLIGATION"
        ELSE IF AvailableForNew(r) < req.minimum
        THEN IF DeferPreferred(req) /\ Willing(req) # 0 THEN "DEFER" ELSE "REJECT_CAPACITY"
        ELSE "PASS"

\* The first target that fails, in the order of the resources, decides.
CapacityOutcome(req) ==
    LET short == {r \in Targets(req) : CapacityOutcomeOn(req, r) # "PASS"}
        path  == SelectPath(req).path
    IN  IF short # {} THEN CapacityOutcomeOn(req, Min(short))
        ELSE IF path # NoPath /\ PathFree(path) < req.minimum THEN "REJECT_CAPACITY"
        ELSE "PASS"

\* "The grant is the smallest ceiling across the targeted resources and the
\* selected path, clamped to the requested maximum."
Grant(req) ==
    LET path == SelectPath(req).path
    IN  Min({req.maximum} \cup {AvailableForNew(r) : r \in Targets(req)}
                          \cup (IF path = NoPath THEN {} ELSE {PathFree(path)}))

DegradeAllowed(req) ==
    policy.allow_degraded /\ req.degradation # "Never" /\ qos.classes[req.qos].degradation_allowed

\* Steps 3 to 8 of admit_locked().
Verdict(req) ==
    IF Readiness # "Ready" THEN ReadinessRefusal
    ELSE IF ~Expectations(req) THEN "STALE_INPUT"
    ELSE IF PolicyOutcome(req) # "PASS" THEN PolicyOutcome(req)
    ELSE IF SelectPath(req).outcome # "PASS" THEN SelectPath(req).outcome
    ELSE IF Targets(req) = {} THEN "REJECT_POLICY"
    ELSE IF CapacityOutcome(req) # "PASS" THEN CapacityOutcome(req)
    ELSE IF Grant(req) < req.minimum THEN "REJECT_CAPACITY"
    ELSE IF Grant(req) >= req.desired THEN "ADMIT"
    ELSE IF DegradeAllowed(req) THEN "ADMIT_DEGRADED"
    ELSE "REJECT_CAPACITY"

\* Steps 0 to 8: the outcome, and whether the attempt is recorded with it.
Ruling(q, claim) ==
    LET ruled(outcome, recorded) == [outcome |-> outcome, recorded |-> recorded]
    IN  IF ~Contract(q) THEN ruled("REJECT_POLICY", FALSE)
        ELSE IF Fence(claim) # "PASS" THEN ruled(Fence(claim), TRUE)
        ELSE IF Classify(q) = "Replay"
        THEN ruled(IF CanReplay(q) THEN "REPLAY" ELSE "CONFLICTING_INPUT", FALSE)
        ELSE IF Classify(q) = "Conflict" THEN ruled("CONFLICTING_INPUT", FALSE)
        ELSE ruled(Verdict(Requests[q]), TRUE)
=============================================================================
