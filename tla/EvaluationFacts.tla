-------------------------- MODULE EvaluationFacts ---------------------------
(***************************************************************************)
(* What an evaluation grants, and what the history keeps, for every        *)
(* authority, request and history.                                         *)
(***************************************************************************)
EXTENDS Evaluation, LedgerFacts

-----------------------------------------------------------------------------
(* Least and greatest elements *)

LEMMA MinNat ==
    ASSUME NEW S \in SUBSET Nat, S # {}
    PROVE  Min(S) \in S /\ \A x \in S : Min(S) <= x
<1>1. \E m \in S : \A x \in S : m <= x
  BY LeastNatural
<1> QED
  BY <1>1 DEF Min

LEMMA MaxNat ==
    ASSUME NEW S \in SUBSET Nat, S # {}, NEW n \in Nat, \A x \in S : x <= n
    PROVE  Max(S) \in S /\ \A x \in S : x <= Max(S)
<1> DEFINE bounds == {b \in Nat : \A x \in S : x <= b}
<1>1. PICK m \in bounds : \A b \in bounds : m <= b
  <2>1. bounds \in SUBSET Nat /\ bounds # {}
    OBVIOUS
  <2> HIDE DEF bounds
  <2> QED
    BY <2>1, LeastNatural
<1>2. m \in S
  <2> SUFFICES ASSUME m \notin S PROVE FALSE
    OBVIOUS
  <2>1. \A x \in S : x <= m - 1
    BY <1>1
  <2>2. m - 1 \in Nat
    <3>1. PICK x : x \in S
      OBVIOUS
    <3> QED
      BY <1>1, <2>1, <3>1
  <2>3. m - 1 \in bounds
    BY <2>1, <2>2
  <2> QED
    BY <1>1, <2>3
<1>3. \E y \in S : \A x \in S : y >= x
  BY <1>1, <1>2
<1>4. Max(S) \in S /\ \A x \in S : Max(S) >= x
  BY <1>3 DEF Max
<1> QED
  BY <1>4

-----------------------------------------------------------------------------
(* The authority in force *)

AuthorityTypeOK ==
    /\ policy \in Policies \cup {None} /\ capacity \in Capacities \cup {None}
    /\ reservations \in Reservations \cup {None} /\ paths \in PathCatalogs \cup {None}
    /\ qos \in QosCatalogs \cup {None} /\ priorities \in PriorityCatalogs \cup {None}

LEMMA ObligationsForType ==
    ASSUME AuthorityTypeOK, NEW r
    PROVE  ObligationsFor(r) \in U64
<1>1. CASE reservations = None
  BY <1>1, LedgerAssumption DEF ObligationsFor, U64
<1>2. CASE reservations # None
  <2> DEFINE units == ObligationUnits(reservations, r)
  <2>1. IsFiniteSet(DOMAIN reservations.obligations)
    BY <1>2, AuthorityAssumption DEF AuthorityTypeOK
  <2>2. IsFiniteSet(ObligationsOn(reservations, r))
    BY <2>1, FS_Subset DEF ObligationsOn
  <2>3. IsFiniteSet(ObligationsOn(reservations, r) \X (1 .. MaxU64))
    <3>1. IsFiniteSet(1 .. MaxU64)
      BY FS_Interval, LedgerAssumption
    <3> QED
      BY <2>2, <3>1, FS_Product
  <2>4. IsFiniteSet(units)
    <3>1. units \in SUBSET (ObligationsOn(reservations, r) \X (1 .. MaxU64))
      BY DEF ObligationUnits
    <3> QED
      BY <2>3, <3>1, FS_Subset
  <2>5. Cardinality(units) \in Nat
    BY <2>4, FS_CardinalityType
  <2> HIDE DEF units
  <2>6. /\ Min({MaxU64, Cardinality(units)}) \in {MaxU64, Cardinality(units)}
        /\ Min({MaxU64, Cardinality(units)}) <= MaxU64
    BY <2>5, MinNat, LedgerAssumption
  <2>7. ObligationsFor(r) = Min({MaxU64, Cardinality(units)})
    BY <1>2 DEF ObligationsFor, units
  <2> QED
    BY <2>5, <2>6, <2>7, LedgerAssumption DEF U64
<1> QED
  BY <1>1, <1>2

LEMMA KnownEntry ==
    ASSUME AuthorityTypeOK, NEW r, Known(r)
    PROVE  /\ r \in Resources
           /\ capacity.resources[r].usable \in U64
           /\ capacity.resources[r].mandatory_headroom \in U64
BY AuthorityAssumption DEF AuthorityTypeOK, Known, CapacityEntries

LEMMA HeadroomForType ==
    ASSUME AuthorityTypeOK, NEW r, Known(r)
    PROVE  HeadroomFor(r) \in Nat /\ HeadroomFor(r) <= capacity.resources[r].usable
<1> DEFINE entry == capacity.resources[r]
           scaled == (entry.usable * policy.headroom_permille) \div 1000
           wanted == {entry.mandatory_headroom} \cup
                     (IF policy = None THEN {} ELSE {scaled, policy.headroom_floor})
<1>1. entry.usable \in Nat /\ entry.mandatory_headroom \in Nat
  BY KnownEntry, LedgerAssumption DEF U64
<1>2. policy # None => scaled \in Nat /\ policy.headroom_floor \in Nat
  <2> SUFFICES ASSUME policy # None PROVE scaled \in Nat /\ policy.headroom_floor \in Nat
    OBVIOUS
  <2>1. policy.headroom_permille \in Nat /\ policy.headroom_floor \in Nat
    BY AuthorityAssumption, LedgerAssumption DEF AuthorityTypeOK, U64
  <2>2. entry.usable * policy.headroom_permille \in Nat
    BY <1>1, <2>1
  <2> QED
    BY <2>1, <2>2
<1> HIDE DEF scaled, entry
<1>3. \E n \in Nat : \A x \in wanted : x <= n
  <2>1. CASE policy = None
    BY <1>1, <2>1
  <2>2. CASE policy # None
    <3>1. \A x \in wanted : x <= entry.mandatory_headroom + scaled + policy.headroom_floor
      BY <1>1, <1>2, <2>2
    <3>2. entry.mandatory_headroom + scaled + policy.headroom_floor \in Nat
      BY <1>1, <1>2, <2>2
    <3> QED
      BY <3>1, <3>2
  <2> QED
    BY <2>1, <2>2
<1>4. wanted \in SUBSET Nat /\ wanted # {}
  BY <1>1, <1>2
<1>5. HeadroomFor(r) = Min({Max(wanted), entry.usable})
  BY DEF HeadroomFor, scaled, entry
<1> HIDE DEF wanted
<1>6. Max(wanted) \in Nat
  BY <1>3, <1>4, MaxNat
<1>7. /\ Min({Max(wanted), entry.usable}) \in {Max(wanted), entry.usable}
      /\ Min({Max(wanted), entry.usable}) <= entry.usable
  BY <1>1, <1>6, MinNat
<1> QED
  BY <1>1, <1>5, <1>6, <1>7 DEF entry

LEMMA AllowanceKeeps ==
    ASSUME AuthorityTypeOK, NEW r, Known(r)
    PROVE  /\ Allowance(r) \in Nat
           /\ \A load \in Nat \ {0} :
                 load <= Allowance(r) <=>
                    load + ObligationsFor(r) + HeadroomFor(r) <= capacity.resources[r].usable
<1>1. capacity.resources[r].usable \in Nat /\ ObligationsFor(r) \in Nat
  BY KnownEntry, ObligationsForType, LedgerAssumption DEF U64
<1>2. HeadroomFor(r) \in Nat
  BY HeadroomForType
<1> QED
  BY <1>1, <1>2 DEF Allowance, SatSub

LEMMA SameAuthority ==
    ASSUME UNCHANGED <<policy, capacity, reservations>>
    PROVE  \A r : /\ Known(r)' = Known(r)
                  /\ Allowance(r)' = Allowance(r)
                  /\ HeadroomFor(r)' = HeadroomFor(r)
                  /\ ObligationsFor(r)' = ObligationsFor(r)
<1>1. \A r : ObligationsFor(r)' = ObligationsFor(r)
  BY DEF ObligationsFor, ObligationUnits, ObligationsOn
<1>2. \A r : HeadroomFor(r)' = HeadroomFor(r)
  BY DEF HeadroomFor
<1>3. \A r : Known(r)' = Known(r)
  BY DEF Known
<1> QED
  BY <1>1, <1>2, <1>3 DEF Allowance

LEMMA FitsAfterRelease ==
    ASSUME AuthorityTypeOK, LedgerInv, NEW d, Release(d),
           UNCHANGED <<policy, capacity, reservations>>, NEW e \in Held', Fits(e)
    PROVE  Fits(e)'
<1>1. /\ e \in Held /\ HeldOn(e)' = HeldOn(e)
      /\ \A r \in Resources : Admitted(r)' \in Nat /\ Admitted(r)' <= Admitted(r)
  BY ReleaseEffect DEF HeldOn
<1> SUFFICES ASSUME NEW r \in HeldOn(e)
             PROVE  Known(r)' /\ Admitted(r)' <= Allowance(r)'
  BY <1>1 DEF Fits
<1>2. Known(r) /\ Admitted(r) <= Allowance(r)
  BY DEF Fits
<1>3. r \in Resources /\ Allowance(r) \in Nat
  BY <1>2, KnownEntry, AllowanceKeeps
<1>4. Admitted(r) \in Nat
  BY <1>3, AdmittedType, LedgerAssumption DEF LedgerInv, U64
<1>5. Known(r)' /\ Allowance(r)' = Allowance(r)
  BY <1>2, SameAuthority
<1> QED
  BY <1>1, <1>2, <1>3, <1>4, <1>5

(* Load that fits wherever it is held closes the account. *)
LEMMA FitsCloses ==
    ASSUME AuthorityTypeOK, LedgerInv, \A d \in Held : Fits(d)
    PROVE  Closed
<1> SUFFICES ASSUME NEW r \in Resources, Admitted(r) > 0
             PROVE  /\ Known(r)
                    /\ Admitted(r) + ObligationsFor(r) + HeadroomFor(r)
                          <= capacity.resources[r].usable
  BY DEF Closed
<1>1. Admitted(r) \in Nat \ {0}
  BY AdmittedType, LedgerAssumption DEF LedgerInv, U64
<1>2. PICK d \in Held : r \in HeldOn(d)
  BY <1>1, LoadIsHeld
<1>3. Known(r) /\ Admitted(r) <= Allowance(r)
  BY <1>2 DEF Fits
<1> QED
  BY <1>1, <1>3, AllowanceKeeps

-----------------------------------------------------------------------------
(* The outcome of an evaluation *)

Refusals == Outcomes \ AdmittingOutcomes

LEMMA StepOutcomes ==
    ASSUME NEW req
    PROVE  /\ ReadinessRefusal \in Refusals
           /\ PolicyOutcome(req) \in Refusals \cup {"PASS"}
           /\ SelectPath(req).outcome \in Refusals \cup {"PASS"}
           /\ CapacityOutcome(req) \in Refusals \cup {"PASS"}
<1> USE DEF Refusals, Outcomes, AdmittingOutcomes
<1>1. ReadinessRefusal \in Refusals
  BY DEF ReadinessRefusal
<1>2. PolicyOutcome(req) \in Refusals \cup {"PASS"}
  BY DEF PolicyOutcome
<1>3. SelectPath(req).outcome \in Refusals \cup {"PASS"}
  BY DEF SelectPath
<1>4. \A r : CapacityOutcomeOn(req, r) \in Refusals \cup {"PASS"}
  BY DEF CapacityOutcomeOn
<1>5. CapacityOutcome(req) \in Refusals \cup {"PASS"}
  BY <1>4 DEF CapacityOutcome
<1> QED
  BY <1>1, <1>2, <1>3, <1>5

LEMMA VerdictType ==
    ASSUME NEW req
    PROVE  /\ Verdict(req) \in Outcomes
           /\ Verdict(req) \in AdmittingOutcomes =>
                 /\ Readiness = "Ready"
                 /\ SelectPath(req).outcome = "PASS"
                 /\ Targets(req) # {}
                 /\ CapacityOutcome(req) = "PASS"
                 /\ ~(Grant(req) < req.minimum)
<1> DEFINE selected == SelectPath(req).outcome
<1>1. /\ ReadinessRefusal \in Refusals
      /\ PolicyOutcome(req) \in Refusals \cup {"PASS"}
      /\ selected \in Refusals \cup {"PASS"}
      /\ CapacityOutcome(req) \in Refusals \cup {"PASS"}
  BY StepOutcomes
<1>2. Verdict(req) =
        IF Readiness # "Ready" THEN ReadinessRefusal
        ELSE IF ~Expectations(req) THEN "STALE_INPUT"
        ELSE IF PolicyOutcome(req) # "PASS" THEN PolicyOutcome(req)
        ELSE IF selected # "PASS" THEN selected
        ELSE IF Targets(req) = {} THEN "REJECT_POLICY"
        ELSE IF CapacityOutcome(req) # "PASS" THEN CapacityOutcome(req)
        ELSE IF Grant(req) < req.minimum THEN "REJECT_CAPACITY"
        ELSE IF Grant(req) >= req.desired THEN "ADMIT"
        ELSE IF DegradeAllowed(req) THEN "ADMIT_DEGRADED"
        ELSE "REJECT_CAPACITY"
  BY DEF Verdict
<1> HIDE DEF selected
<1>3. /\ Verdict(req) \in Outcomes
      /\ Verdict(req) \in AdmittingOutcomes =>
            /\ Readiness = "Ready"
            /\ selected = "PASS"
            /\ Targets(req) # {}
            /\ CapacityOutcome(req) = "PASS"
            /\ ~(Grant(req) < req.minimum)
  BY <1>1, <1>2 DEF Refusals, Outcomes, AdmittingOutcomes
<1> QED
  BY <1>3 DEF selected

LEMMA RulingType ==
    ASSUME NEW q, NEW claim
    PROVE  /\ Ruling(q, claim).outcome \in Outcomes \cup {"REPLAY"}
           /\ Ruling(q, claim).outcome \in AdmittingOutcomes =>
                 /\ Ruling(q, claim).outcome = Verdict(Requests[q])
                 /\ Classify(q) = "New"
<1> DEFINE verdict == Verdict(Requests[q])
<1>1. verdict \in Outcomes
  BY VerdictType
<1>2. Fence(claim) \in {"PASS", "FENCED_CLAIMANT", "CONFLICTING_INPUT"}
  BY DEF Fence
<1>3. Classify(q) \in {"New", "Replay", "Conflict"}
  BY DEF Classify
<1>4. Ruling(q, claim).outcome =
        IF ~Contract(q) THEN "REJECT_POLICY"
        ELSE IF Fence(claim) # "PASS" THEN Fence(claim)
        ELSE IF Classify(q) = "Replay" THEN IF CanReplay(q) THEN "REPLAY" ELSE "CONFLICTING_INPUT"
        ELSE IF Classify(q) = "Conflict" THEN "CONFLICTING_INPUT"
        ELSE verdict
  BY DEF Ruling
<1> HIDE DEF verdict
<1>5. /\ Ruling(q, claim).outcome \in Outcomes \cup {"REPLAY"}
      /\ Ruling(q, claim).outcome \in AdmittingOutcomes =>
            Ruling(q, claim).outcome = verdict /\ Classify(q) = "New"
  BY <1>1, <1>2, <1>3, <1>4 DEF Outcomes, AdmittingOutcomes
<1> QED
  BY <1>5 DEF verdict

-----------------------------------------------------------------------------
(* The grant *)

LEMMA SelectedPath ==
    ASSUME AuthorityTypeOK, NEW q \in Fingerprints
    PROVE  LET selected == SelectPath(Requests[q])
           IN  /\ selected.path \in Paths \cup {NoPath}
               /\ selected.traversal \subseteq Resources
               /\ selected.path # NoPath => /\ paths # None
                                            /\ selected.path \in DOMAIN paths.paths
<1> DEFINE req == Requests[q]
           faring(how) == {i \in Considered(req) : Usability(req, i) = how}
           first(how)  == req.path_candidates[Min(faring(how))].path
<1>1. Considered(req) \in SUBSET Nat
  BY EvaluationAssumption DEF Considered
<1>2. ASSUME NEW how, how \in {"usable", "capacity"}, faring(how) # {}
      PROVE  paths # None /\ first(how) \in DOMAIN paths.paths
  <2>1. Min(faring(how)) \in faring(how)
    <3>1. faring(how) \in SUBSET Nat
      BY <1>1
    <3> QED
      BY <1>2, <3>1, MinNat
  <2>2. Usability(req, Min(faring(how))) = how
    BY <2>1
  <2>3. Published(first(how))
    BY <1>2, <2>2 DEF Usability
  <2> QED
    BY <2>3 DEF Published
<1>3. \A p \in DOMAIN paths.paths : paths # None => /\ p \in Paths
                                                    /\ paths.paths[p].resources \subseteq Resources
  BY AuthorityAssumption DEF AuthorityTypeOK
<1> QED
  BY <1>2, <1>3 DEF SelectPath

LEMMA GrantFits ==
    ASSUME AuthorityTypeOK, LedgerTypeOK, NEW q \in Fingerprints,
           Verdict(Requests[q]) \in AdmittingOutcomes
    PROVE  LET req == Requests[q]
           IN  /\ Targets(req) \in (SUBSET Resources) \ {{}}
               /\ Grant(req) \in U64
               /\ Grant(req) >= req.minimum
               /\ capacity # None
               /\ \A r \in Targets(req) : Known(r) /\ Grant(req) <= AvailableForNew(r)
<1> DEFINE req == Requests[q]
           path == SelectPath(req).path
           ceilings == {req.maximum} \cup {AvailableForNew(r) : r \in Targets(req)}
                                     \cup (IF path = NoPath THEN {} ELSE {PathFree(path)})
<1>1. /\ Readiness = "Ready"
      /\ Targets(req) # {}
      /\ CapacityOutcome(req) = "PASS"
      /\ ~(Grant(req) < req.minimum)
  BY VerdictType
<1>2. capacity # None
  BY <1>1 DEF Readiness
<1>3. Targets(req) \in SUBSET Resources
  BY SelectedPath, EvaluationAssumption DEF Targets
<1>4. \A r \in Targets(req) : Known(r)
  <2> DEFINE short == {r \in Targets(req) : CapacityOutcomeOn(req, r) # "PASS"}
  <2>1. short = {}
    <3> SUFFICES ASSUME short # {} PROVE FALSE
      OBVIOUS
    <3>1. Min(short) \in short
      <4>1. short \in SUBSET Nat
        BY <1>3, LedgerAssumption
      <4> QED
        BY <4>1, MinNat
    <3>2. CapacityOutcome(req) = CapacityOutcomeOn(req, Min(short))
      BY DEF CapacityOutcome
    <3> QED
      BY <1>1, <3>1, <3>2
  <2> QED
    BY <2>1 DEF CapacityOutcomeOn
<1>5. ASSUME NEW r \in Targets(req)
      PROVE  AvailableForNew(r) \in Nat
  <2>1. Allowance(r) \in Nat
    BY <1>4, AllowanceKeeps
  <2>2. r \in Resources
    BY <1>3
  <2>3. Admitted(r) \in U64
    BY <2>2, AdmittedType
  <2>4. Admitted(r) \in Nat
    BY <2>3, LedgerAssumption DEF U64
  <2> QED
    BY <2>1, <2>4 DEF AvailableForNew, SatSub
<1>6. path # NoPath => PathFree(path) \in Nat
  <2> SUFFICES ASSUME path # NoPath PROVE PathFree(path) \in Nat
    OBVIOUS
  <2>1. paths # None /\ path \in DOMAIN paths.paths
    BY SelectedPath
  <2>2. paths.paths[path].usable \in Nat
    <3>1. paths \in PathCatalogs
      BY <2>1 DEF AuthorityTypeOK
    <3>2. paths.paths[path].usable \in U64
      BY <2>1, <3>1, AuthorityAssumption
    <3> QED
      BY <3>2, U64Natural
  <2>3. AdmittedOnPath(path) \in Nat
    BY LedgerAssumption DEF AdmittedOnPath, LedgerTypeOK, U64
  <2> HIDE DEF path
  <2> QED
    BY <2>2, <2>3 DEF PathFree, SatSub
<1>7. req.maximum \in U64 /\ req.minimum \in U64
  BY EvaluationAssumption
<1>8. Grant(req) = Min(ceilings)
  BY DEF Grant
<1>9. ceilings \in SUBSET Nat /\ ceilings # {}
  <2> HIDE DEF path, req
  <2> QED
    BY <1>5, <1>6, <1>7, LedgerAssumption DEF U64
<1>10. req.maximum \in ceilings /\ \A r \in Targets(req) : AvailableForNew(r) \in ceilings
  OBVIOUS
<1> HIDE DEF ceilings, path, req
<1>11. Grant(req) \in ceilings /\ \A x \in ceilings : Grant(req) <= x
  BY <1>8, <1>9, MinNat
<1>12. Grant(req) \in U64 /\ Grant(req) >= req.minimum
  <2>1. Grant(req) \in Nat /\ Grant(req) <= req.maximum
    BY <1>9, <1>10, <1>11
  <2>2. req.minimum \in Nat /\ req.maximum \in Nat /\ req.maximum <= MaxU64
    BY <1>7, LedgerAssumption DEF U64
  <2>3. Grant(req) >= req.minimum
    BY <1>1, <2>1, <2>2
  <2> QED
    BY <2>1, <2>2, <2>3, LedgerAssumption DEF U64
<1> QED
  BY <1>1, <1>2, <1>3, <1>4, <1>10, <1>11, <1>12 DEF req

-----------------------------------------------------------------------------
(* The history *)

Indexed(all, index) ==
    /\ \A a \in DOMAIN index : index[a] \in DOMAIN all /\ all[index[a]].audit = a
    /\ \A d \in DOMAIN all : all[d].audit \in DOMAIN index /\ index[all[d].audit] = d

LEMMA InsertIndexed ==
    ASSUME Indexed(records, audit_index), NEW d, NEW record,
           d \notin DOMAIN records, record.audit \notin DOMAIN audit_index
    PROVE  Indexed(RecordsWith(records, d, record), IndexWith(records, audit_index, d, record))
<1> DEFINE all == RecordsWith(records, d, record)
           index == IndexWith(records, audit_index, d, record)
<1>1. /\ DOMAIN all = DOMAIN records \cup {d}
      /\ all[d] = record
      /\ \A e \in DOMAIN records : all[e] = records[e]
  BY DEF RecordsWith
<1>2. /\ DOMAIN index = DOMAIN audit_index \cup {record.audit}
      /\ index[record.audit] = d
      /\ \A a \in DOMAIN audit_index : index[a] = audit_index[a]
  BY DEF IndexWith
<1> HIDE DEF all, index
<1>3. Indexed(all, index)
  BY <1>1, <1>2 DEF Indexed
<1> QED
  BY <1>3 DEF all, index

LEMMA IndexedCardinality ==
    ASSUME NEW all, NEW index, Indexed(all, index), IsFiniteSet(DOMAIN index)
    PROVE  IsFiniteSet(DOMAIN all) /\ Cardinality(DOMAIN all) = Cardinality(DOMAIN index)
<1> DEFINE f == [a \in DOMAIN index |-> index[a]]
<1>1. f \in Surjection(DOMAIN index, DOMAIN all)
  BY DEF Surjection, Indexed
<1>2. f \in Injection(DOMAIN index, DOMAIN all)
  BY DEF Injection, IsInjective, Indexed
<1> HIDE DEF f
<1> QED
  BY <1>1, <1>2, FS_Surjection

(* What trim() leaves of a history whose audit sequences are below n: the    *)
(* records that remain are unchanged and indexed, those of live grants       *)
(* remain, and the cursor is in range.                                       *)
LEMMA TrimKeeps ==
    ASSUME NEW all, NEW index, NEW held, NEW n \in Nat,
           Indexed(all, index), DOMAIN index \subseteq 0 .. n - 1, cursor_audit \in 0 .. n,
           Trim(all, index, held)
    PROVE  /\ DOMAIN records' \subseteq DOMAIN all
           /\ DOMAIN all \cap held \subseteq DOMAIN records'
           /\ records' = [d \in DOMAIN records' |-> all[d]]
           /\ DOMAIN audit_index' \subseteq DOMAIN index
           /\ audit_index' = [a \in DOMAIN audit_index' |-> index[a]]
           /\ Indexed(records, audit_index)'
           /\ cursor_audit' \in 0 .. n
<1> DEFINE excess == Cardinality(DOMAIN all) - HistoryCapacity
           loose == Loose(index, held)
<1>1. PICK victims \in SUBSET loose :
         LET kept   == DOMAIN index \ victims
             beyond == {a \in kept : \A v \in victims : a > v}
         IN  /\ records' = Restrict(all, DOMAIN all \ {index[v] : v \in victims})
             /\ audit_index' = Restrict(index, kept)
             /\ cursor_audit' = IF Cardinality(victims) = excess /\ beyond # {}
                                THEN Min(beyond)
                                ELSE IF kept = {} THEN 0 ELSE Max(kept) + 1
  BY DEF Trim
<1> DEFINE kept   == DOMAIN index \ victims
           beyond == {a \in kept : \A v \in victims : a > v}
<1>2. \A v \in victims : v \in DOMAIN index /\ index[v] \notin held
  BY DEF Loose
<1>3. /\ DOMAIN records' = DOMAIN all \ {index[v] : v \in victims}
      /\ records' = [d \in DOMAIN records' |-> all[d]]
      /\ DOMAIN audit_index' = kept
      /\ audit_index' = [a \in DOMAIN audit_index' |-> index[a]]
  BY <1>1 DEF Restrict
<1>4. Indexed(records, audit_index)'
  <2>1. \A d \in DOMAIN records' : /\ records'[d] = all[d]
                                  /\ d \in DOMAIN all
                                  /\ all[d].audit \in kept
    BY <1>3 DEF Indexed
  <2>2. \A a \in kept : /\ a \in DOMAIN index
                        /\ audit_index'[a] = index[a]
                        /\ index[a] \in DOMAIN records'
    BY <1>2, <1>3 DEF Indexed
  <2> HIDE DEF kept
  <2> QED
    BY <1>3, <2>1, <2>2 DEF Indexed
<1>5. cursor_audit' \in 0 .. n
  <2>1. /\ kept \in SUBSET Nat /\ beyond \in SUBSET kept
        /\ \A a \in kept : a <= n - 1 /\ a <= n
    OBVIOUS
  <2>2. cursor_audit' = IF Cardinality(victims) = excess /\ beyond # {}
                        THEN Min(beyond)
                        ELSE IF kept = {} THEN 0 ELSE Max(kept) + 1
    BY <1>1
  <2> HIDE DEF kept, beyond
  <2>3. beyond # {} => Min(beyond) \in kept
    BY <2>1, MinNat
  <2>4. kept # {} => Max(kept) \in kept
    BY <2>1, MaxNat
  <2>5. \A a \in kept : a \in 0 .. n /\ a + 1 \in 0 .. n
    BY <2>1
  <2> QED
    BY <2>2, <2>3, <2>4, <2>5
<1> QED
  BY <1>2, <1>3, <1>4, <1>5

(* When every record below the cursor is of a live grant, this is so after   *)
(* trim(), and only as many records remain as fit, or live grants.           *)
LEMMA TrimRetires ==
    ASSUME NEW all, NEW index, NEW held, NEW n \in Nat,
           Indexed(all, index), DOMAIN index \subseteq 0 .. n - 1, cursor_audit \in 0 .. n,
           \A d \in DOMAIN all : all[d].audit < cursor_audit => d \in held,
           Cardinality(DOMAIN all) > HistoryCapacity,
           Trim(all, index, held)
    PROVE  /\ \A d \in DOMAIN records' : all[d].audit < cursor_audit' => d \in held
           /\ Cardinality(DOMAIN records') <= HistoryCapacity \/ DOMAIN records' \subseteq held
<1> DEFINE excess == Cardinality(DOMAIN all) - HistoryCapacity
           loose == Loose(index, held)
<1>1. PICK victims \in SUBSET loose :
         LET kept   == DOMAIN index \ victims
             beyond == {a \in kept : \A v \in victims : a > v}
         IN  /\ Cardinality(victims) = Min({excess, Cardinality(loose)})
             /\ \A v \in victims, a \in loose \ victims : v < a
             /\ records' = Restrict(all, DOMAIN all \ {index[v] : v \in victims})
             /\ audit_index' = Restrict(index, kept)
             /\ cursor_audit' = IF Cardinality(victims) = excess /\ beyond # {}
                                THEN Min(beyond)
                                ELSE IF kept = {} THEN 0 ELSE Max(kept) + 1
  BY DEF Trim
<1> DEFINE kept   == DOMAIN index \ victims
           beyond == {a \in kept : \A v \in victims : a > v}
<1>2. /\ IsFiniteSet(DOMAIN index) /\ IsFiniteSet(loose) /\ IsFiniteSet(victims)
      /\ DOMAIN index \in SUBSET Nat /\ victims \in SUBSET DOMAIN index
  <2>1. DOMAIN index \in SUBSET Nat /\ \A a \in DOMAIN index : a <= n
    OBVIOUS
  <2>2. IsFiniteSet(DOMAIN index)
    BY <2>1, FS_BoundedSetOfNaturals
  <2>3. loose \in SUBSET DOMAIN index
    BY DEF Loose
  <2>4. victims \in SUBSET DOMAIN index
    BY <2>3
  <2> QED
    BY <2>1, <2>2, <2>3, <2>4, FS_Subset
<1>3. /\ Cardinality(DOMAIN all) = Cardinality(DOMAIN index)
      /\ Cardinality(DOMAIN index) \in Nat
      /\ Cardinality(loose) \in Nat
  BY <1>2, IndexedCardinality, FS_CardinalityType
<1>4. Cardinality(victims) = excess \/ victims = loose
  <2>1. excess \in Nat
    BY <1>3, HistoryAssumption
  <2> HIDE DEF excess, loose
  <2>2. Min({excess, Cardinality(loose)}) \in {excess, Cardinality(loose)}
    BY <1>3, <2>1, MinNat
  <2>3. Cardinality(victims) \in {excess, Cardinality(loose)}
    BY <1>1, <2>2
  <2> QED
    BY <1>1, <1>2, <2>3, FS_Subset
<1>5. \A a \in kept : a \in loose \/ index[a] \in held
  BY <1>2 DEF Loose, Indexed
<1>6. \A d \in DOMAIN records' : /\ d \in DOMAIN all
                                 /\ all[d].audit \in kept
                                 /\ index[all[d].audit] = d
  BY <1>1 DEF Restrict, Indexed
<1>7. ASSUME NEW a \in kept, a < cursor_audit'
      PROVE  index[a] \in held
  <2>1. CASE victims = loose
    BY <1>5, <2>1
  <2>2. CASE Cardinality(victims) = excess /\ a \in loose
    <3>1. a \in beyond
      BY <1>1, <1>2, <2>2
    <3>2. cursor_audit' = Min(beyond)
      BY <1>1, <2>2, <3>1
    <3>3. beyond \in SUBSET Nat
      BY <1>2
    <3>4. Min(beyond) <= a /\ Min(beyond) \in Nat
      <4> HIDE DEF beyond
      <4> QED
        BY <3>1, <3>3, MinNat
    <3>5. a \in Nat
      BY <1>2
    <3> HIDE DEF beyond
    <3> QED
      BY <1>7, <3>2, <3>4, <3>5
  <2> QED
    BY <1>4, <1>5, <2>1, <2>2
<1>8. CASE Cardinality(victims) = excess
  <2>1. IsFiniteSet(kept) /\ Cardinality(kept) = Cardinality(DOMAIN index) - Cardinality(victims)
    <3>1. DOMAIN index \cap victims = victims
      BY <1>2
    <3> QED
      BY <1>2, <3>1, FS_Difference
  <2>2. Indexed(records, audit_index)'
    BY TrimKeeps
  <2>3. DOMAIN audit_index' = kept
    BY <1>1 DEF Restrict
  <2>4. Cardinality(DOMAIN records') = Cardinality(kept)
    <3>1. Indexed(records', audit_index')
      BY <2>2 DEF Indexed
    <3>2. IsFiniteSet(DOMAIN audit_index')
      BY <2>1, <2>3
    <3> QED
      BY <2>3, <3>1, <3>2, IndexedCardinality
  <2>5. Cardinality(kept) = HistoryCapacity
    <3> HIDE DEF kept
    <3> QED
      BY <1>3, <1>8, <2>1, HistoryAssumption
  <2> QED
    BY <1>6, <1>7, <2>4, <2>5, HistoryAssumption
<1>9. CASE victims = loose
  BY <1>5, <1>6, <1>7, <1>9
<1> QED
  BY <1>4, <1>8, <1>9
=============================================================================
