---------------------------- MODULE EngineSafety ----------------------------
(***************************************************************************)
(* What the engine promises: its history is bounded and its cached replies *)
(* are backed, the account is closed, and fenced sessions stay fenced.     *)
(***************************************************************************)
EXTENDS EngineProofs

-----------------------------------------------------------------------------
(* What a step does to the history *)

Inserts ==
    \E d \in Decisions, record \in Records :
       /\ d \notin DOMAIN records
       /\ record.audit \in (0 .. audit' - 1) \ DOMAIN audit_index
       /\ audit' \in Nat /\ audit <= audit'
       /\ d \in Held \/ (record.audit >= cursor_audit /\ ~IsAdmitting(record))
       /\ UNCHANGED ledgerVars
       /\ InsertAndTrim(d, record) /\ Remember(d, record)

Books == Held \subseteq Held' /\ UNCHANGED historyVars

Drops == \E d : /\ d \notin DOMAIN records \cup DOMAIN decision_cache
                /\ Release(d) /\ UNCHANGED historyVars

Updates ==
    /\ Held' = Held /\ UNCHANGED <<cursor_audit, decision_cache>>
    /\ DOMAIN records' = DOMAIN records
    /\ \A d \in DOMAIN records : records'[d].audit = records[d].audit

LEMMA ReviewKinds ==
    ASSUME EngineInv, Review
    PROVE  \/ Books \/ Updates
           \/ \E d : ReleaseDecision(d)
           \/ CanFail("Revocation") /\ UNCHANGED historyVars
<1>1. PICK d : Revoke(d) \/ RevalidateReleases(d) \/ RevalidateUnheld(d) \/ RevalidateInvalidates(d)
  BY DEF Review
<1>2. CASE Revoke(d) \/ RevalidateReleases(d)
  BY <1>2 DEF Revoke, RevalidateReleases, ReleaseDecisionFails, FailedBehind, RevocationFrame, Books,
              ledgerVars, Held
<1>3. CASE RevalidateUnheld(d) \/ RevalidateInvalidates(d)
  <2>1. /\ UNCHANGED ledgerVars /\ UNCHANGED <<cursor_audit, decision_cache>>
        /\ d \in DOMAIN records
        /\ \/ UpdateRecord(d, "Revoked", FALSE)
           \/ UpdateRecord(d, "Invalidated", records[d].ledger_live)
           \/ UNCHANGED <<records, audit_index>>
    BY <1>3 DEF RevalidateUnheld, RevalidateInvalidates, Admission
  <2>2. records[d].ledger_live \in BOOLEAN
    BY <2>1 DEF EngineInv, HistoryInv, Records
  <2>3. /\ DOMAIN records' = DOMAIN records
        /\ \A e \in DOMAIN records : records'[e].audit = records[e].audit
    BY <2>1, <2>2, UpdateKeeps
  <2> QED
    BY <2>1, <2>3 DEF Updates, ledgerVars, Held
<1> QED
  BY <1>1, <1>2, <1>3

LEMMA HistoryKinds ==
    ASSUME EngineInv, [EngineNext]_engineVars
    PROVE  \/ Inserts \/ Books \/ Drops \/ Updates
           \/ \E d : ReleaseDecision(d)
           \/ CanFail("Revocation") /\ UNCHANGED historyVars
<1>1. ASSUME NEW q \in Fingerprints, NEW claim, AdmitRefused(q, claim)
      PROVE  Inserts \/ Books
  <2> DEFINE outcome == Ruling(q, claim).outcome
             d == next_decision_sequence
             record == RefusalRecord(q, outcome)
  <2>1. /\ DecisionLeft /\ ConsumeIdentity /\ UNCHANGED ledgerVars
        /\ outcome \notin AdmittingOutcomes \cup {"REPLAY"}
        /\ \/ InsertAndTrim(d, record) /\ Remember(d, record)
           \/ UNCHANGED historyVars
    BY <1>1 DEF AdmitRefused
  <2>2. record \in Records /\ record.audit = audit /\ ~IsAdmitting(record)
    <3>1. outcome \in Outcomes
      BY <2>1, RulingType
    <3>2. 0 \in U64 /\ NoPath \in Paths \cup {NoPath}
      BY LedgerAssumption DEF U64
    <3> QED
      BY <2>1, <3>1, <3>2, RecordTypes DEF RefusalRecord, IsAdmitting
  <2> HIDE DEF record
  <2>3. audit >= cursor_audit
    BY DEF EngineInv, HistoryInv, CoreInv
  <2>4. CASE InsertAndTrim(d, record) /\ Remember(d, record)
    BY <2>1, <2>2, <2>3, <2>4, NextFresh DEF Inserts, DecisionLeft
  <2>5. CASE UNCHANGED historyVars
    BY <2>1, <2>5 DEF Books, ledgerVars, Held
  <2> QED
    BY <2>1, <2>4, <2>5
<1>2. ASSUME NEW q \in Fingerprints, NEW claim, AdmitGranted(q, claim)
      PROVE  Books
  BY <1>2 DEF AdmitGranted, Books, Reserve, ReserveRolledBack, ledgerVars, Held
<1>3. CASE Publish \/ Fencing \/ CompactJournal \/ UNCHANGED engineVars
  BY <1>3 DEF Publish, PublishPolicy, PublishPolicyFails, PublishCapacity, PublishReservations,
              BeginEnforcement, Observe, Fencing, RegisterSession, RetireSession,
              BeginNewIncarnation, CompactJournal, engineVars, Books, ledgerVars, Held
<1>4. CASE CommitWritten
  <2>1. PICK d, record : d = handler.decision /\ record = handler.record
    OBVIOUS
  <2>2. /\ handler.step = "committing"
        /\ InsertAndTrim(d, record) /\ Remember(d, record)
        /\ UNCHANGED <<ledgerVars, coreVars>>
    BY <1>4, <2>1 DEF CommitWritten
  <2>3. /\ d \in Decisions /\ record \in Records /\ d \in Held /\ d \notin DOMAIN records
        /\ record.audit \in (0 .. audit - 1) \ DOMAIN audit_index
    BY <2>1, <2>2 DEF EngineInv, Handlers, CommitInv
  <2>4. audit' = audit /\ audit \in Nat /\ audit <= audit'
    BY <2>2 DEF EngineInv, CoreInv, coreVars
  <2> QED
    BY <2>2, <2>3, <2>4 DEF Inserts
<1>5. CASE CommitFailed
  BY <1>5 DEF CommitFailed, EngineInv, CommitInv, Drops
<1>6. CASE EnforceRevoke
  BY <1>6 DEF EnforceRevoke, ReleaseDecisionFails, FailedBehind, RevocationFrame, Books, ledgerVars,
              Held
<1>7. CASE EnforceDone
  <2>1. Held' = Held
    BY <1>7, FlagsKeepLedger DEF EnforceDone, ClearRevalidationFlags, EngineInv
  <2> QED
    BY <1>7, <2>1 DEF EnforceDone, Books
<1> QED
  BY <1>1, <1>2, <1>3, <1>4, <1>5, <1>6, <1>7, ReviewKinds DEF EngineNext, Admit, Proceed

LEMMA InsertRetires ==
    ASSUME EngineInv, CursorSound, Inserts
    PROVE  /\ CursorSound'
           /\ Cardinality(DOMAIN records') <= HistoryCapacity \/ DOMAIN records' \subseteq Held'
<1>1. PICK d \in Decisions, record \in Records :
         /\ d \notin DOMAIN records
         /\ record.audit \in (0 .. audit' - 1) \ DOMAIN audit_index
         /\ audit' \in Nat /\ audit <= audit'
         /\ d \in Held \/ record.audit >= cursor_audit
         /\ UNCHANGED ledgerVars
         /\ InsertAndTrim(d, record)
  BY DEF Inserts
<1> DEFINE all == RecordsWith(records, d, record)
           index == IndexWith(records, audit_index, d, record)
<1>2. /\ Indexed(records, audit_index) /\ audit \in Nat
      /\ DOMAIN audit_index \subseteq 0 .. audit - 1 /\ cursor_audit \in 0 .. audit
  BY DEF EngineInv, HistoryInv, CoreInv
<1>3. Indexed(all, index)
  BY <1>1, <1>2, InsertIndexed
<1>4. /\ DOMAIN all = DOMAIN records \cup {d}
      /\ \A e \in DOMAIN all : all[e] = IF e = d THEN record ELSE records[e]
      /\ DOMAIN index = DOMAIN audit_index \cup {record.audit}
  BY <1>1 DEF RecordsWith, IndexWith
<1>5. DOMAIN index \subseteq 0 .. audit' - 1 /\ cursor_audit \in 0 .. audit'
  BY <1>1, <1>2, <1>4
<1>6. TrimHistory(all, index, Held) /\ Held' = Held
  BY <1>1 DEF InsertAndTrim, ledgerVars, Held
<1>7. \A e \in DOMAIN all : all[e].audit < cursor_audit => e \in Held
  <2>1. record.audit \in Nat /\ cursor_audit \in Nat
    BY <1>1, <1>5
  <2> QED
    BY <1>1, <1>4, <2>1 DEF CursorSound, Holds
<1> HIDE DEF all, index
<1>8. CASE /\ Cardinality(DOMAIN all) <= HistoryCapacity
           /\ records' = all /\ UNCHANGED cursor_audit
  BY <1>6, <1>7, <1>8 DEF CursorSound, Holds
<1>9. CASE Cardinality(DOMAIN all) > HistoryCapacity /\ Trim(all, index, Held)
  <2>1. \A e \in DOMAIN records' : records'[e] = all[e]
    BY <1>1, <1>3, <1>5, <1>9, TrimKeeps
  <2>2. /\ \A e \in DOMAIN records' : all[e].audit < cursor_audit' => e \in Held
        /\ Cardinality(DOMAIN records') <= HistoryCapacity \/ DOMAIN records' \subseteq Held
    BY <1>1, <1>3, <1>5, <1>7, <1>9, TrimRetires
  <2> QED
    BY <1>6, <2>1, <2>2 DEF CursorSound, Holds
<1> QED
  BY <1>6, <1>8, <1>9 DEF TrimHistory

LEMMA RetiredStep ==
    ASSUME ~CanFail("Revocation")
    PROVE  EngineInv /\ CursorSound /\ ReplyBacked /\ [EngineNext]_engineVars
              => /\ CursorSound' /\ ReplyBacked'
                 /\ \/ DOMAIN records' \subseteq DOMAIN records
                    \/ Cardinality(DOMAIN records') <= HistoryCapacity
                    \/ DOMAIN records' \subseteq Held'
<1> SUFFICES ASSUME EngineInv, CursorSound, ReplyBacked, [EngineNext]_engineVars
             PROVE  /\ CursorSound' /\ ReplyBacked'
                    /\ \/ DOMAIN records' \subseteq DOMAIN records
                       \/ Cardinality(DOMAIN records') <= HistoryCapacity
                       \/ DOMAIN records' \subseteq Held'
  OBVIOUS
<1>1. CASE Inserts
  <2>1. ReplyBacked'
    BY <1>1 DEF Inserts, Remember, Reply, ReplyBacked, IsAdmitting, Holds, ledgerVars, Held
  <2> QED
    BY <1>1, <2>1, InsertRetires
<1>2. CASE Books
  BY <1>2 DEF Books, historyVars, CursorSound, ReplyBacked, Holds
<1>3. CASE Drops
  <2>1. PICK d : /\ d \notin DOMAIN records \cup DOMAIN decision_cache
                 /\ Release(d) /\ UNCHANGED historyVars
    BY <1>3 DEF Drops
  <2>2. Held' = Held \ {d}
    BY <2>1, ReleaseEffect DEF EngineInv
  <2> QED
    BY <2>1, <2>2 DEF historyVars, CursorSound, ReplyBacked, Holds
<1>4. CASE Updates
  BY <1>4 DEF Updates, CursorSound, ReplyBacked, Holds
<1>5. CASE \E d : ReleaseDecision(d)
  <2>1. PICK d : ReleaseDecision(d)
    BY <1>5
  <2>2. /\ Release(d) /\ UpdateRecord(d, "Revoked", FALSE) /\ cursor_audit' = 0
        /\ decision_cache' = Restrict(decision_cache, DOMAIN decision_cache \ {d})
    BY <2>1 DEF ReleaseDecision, NoteRelease, ForgetReply
  <2>3. Held' = Held \ {d}
    BY <2>2, ReleaseEffect DEF EngineInv
  <2>4. DOMAIN records' = DOMAIN records /\ \A e \in DOMAIN records : records'[e].audit \in Nat
    <3>1. \A e \in DOMAIN records : records[e].audit \in Nat
      BY DEF EngineInv, HistoryInv, Records
    <3> QED
      BY <2>2, <3>1, UpdateKeeps
  <2>5. CursorSound'
    BY <2>2, <2>4 DEF CursorSound
  <2>6. ReplyBacked'
    BY <2>2, <2>3 DEF ReplyBacked, Restrict, Holds
  <2> QED
    BY <2>4, <2>5, <2>6
<1> QED
  BY <1>1, <1>2, <1>3, <1>4, <1>5, HistoryKinds

LEMMA RetiredInit == EngineInit => CursorSound /\ ReplyBacked
BY DEF EngineInit, Constructed, HistoryInit, CursorSound, ReplyBacked

(* When no revocation record fails to be written, the cursor of trim() never *)
(* passes a record that could be retired.                                    *)
THEOREM EngineCursorSound ==
    ASSUME ~CanFail("Revocation")
    PROVE  EngineSpec => []CursorSound
BY RetiredInit, RetiredStep, InitInv, EngineStep, PTL DEF EngineSpec

(* When no revocation record fails to be written, a cached reply that admits *)
(* is the reply of a decision that holds its load.                           *)
THEOREM EngineReplyBacked ==
    ASSUME ~CanFail("Revocation")
    PROVE  EngineSpec => []ReplyBacked
BY RetiredInit, RetiredStep, InitInv, EngineStep, PTL DEF EngineSpec

(* When no revocation record fails to be written, the history is bounded by  *)
(* its capacity and the live grants.                                         *)
THEOREM EngineHistoryBounded ==
    ASSUME ~CanFail("Revocation")
    PROVE  EngineSpec => HistoryBounded
BY RetiredInit, RetiredStep, InitInv, EngineStep, PTL DEF EngineSpec, HistoryBounded

-----------------------------------------------------------------------------
(* Grants and the account *)

(* Every request asks for a positive minimum. *)
PositiveRequests == \A q \in Fingerprints : Requests[q].minimum # 0

(* No step of a release, and no enforcement as a whole, fails. *)
ReleasesSucceed == ~CanFail("Release") /\ ~CanFail("Revocation") /\ "Enforce" \notin MayFail

LEMMA GrantPositive ==
    ASSUME PositiveRequests, EngineInv, NEW q \in Fingerprints, NEW claim,
           Ruling(q, claim).outcome \in AdmittingOutcomes
    PROVE  Grant(Requests[q]) \in Nat /\ Grant(Requests[q]) > 0
<1>1. PICK minimum, granted : minimum = Requests[q].minimum /\ granted = Grant(Requests[q])
  OBVIOUS
<1>2. minimum \in U64 /\ minimum # 0
  BY <1>1, EvaluationAssumption DEF PositiveRequests
<1>3. granted \in Nat /\ granted >= minimum
  BY <1>1, GrantTypes
<1>4. minimum \in Nat
  BY <1>2, U64Natural
<1>5. granted > 0
  BY <1>2, <1>3, <1>4
<1> QED
  BY <1>1, <1>3, <1>5

(* A grant fits where it is booked, and takes nothing from what fitted. *)
LEMMA ReservedFits ==
    ASSUME PositiveRequests, EngineInv, NEW q \in Fingerprints, NEW claim, NEW d, NEW path,
           Ruling(q, claim).outcome \in AdmittingOutcomes,
           Reserve(d, path, [r \in Targets(Requests[q]) |-> Grant(Requests[q])]),
           UNCHANGED <<policy, capacity, reservations>>
    PROVE  Fits(d)' /\ \A e \in Held : Fits(e) => Fits(e)'
<1> DEFINE req == Requests[q]
<1>1. PICK targets, granted : targets = Targets(req) /\ granted = Grant(req)
  OBVIOUS
<1> DEFINE amounts == [r \in targets |-> granted]
<1>2. /\ targets \subseteq Resources /\ granted \in Nat /\ granted > 0
      /\ \A r \in targets : Known(r) /\ granted <= AvailableForNew(r)
  <2>1. Grant(req) \in Nat /\ Grant(req) > 0
    BY GrantPositive
  <2>2. /\ Targets(req) \in (SUBSET Resources) \ {{}}
        /\ \A r \in Targets(req) : Known(r) /\ Grant(req) <= AvailableForNew(r)
    BY GrantTypes
  <2> HIDE DEF req
  <2> QED
    BY <1>1, <2>1, <2>2
<1>3. Reserve(d, path, amounts)
  BY <1>1
<1> HIDE DEF req
<1>4. /\ HeldOn(d)' = targets
      /\ \A e \in Held : HeldOn(e)' = HeldOn(e)
      /\ \A r \in targets : Admitted(r)' = Admitted(r) + granted
      /\ \A r : r \notin targets => Admitted(r)' = Admitted(r)
  <2>1. DOMAIN amounts = targets /\ \A r \in targets : amounts[r] = granted
    OBVIOUS
  <2> HIDE DEF amounts
  <2>2. /\ HeldOn(d)' = DOMAIN amounts
        /\ \A e \in Held : by_decision'[e] = by_decision[e]
        /\ \A r \in DOMAIN amounts : Admitted(r)' = Admitted(r) + amounts[r]
        /\ \A r : r \notin DOMAIN amounts => Admitted(r)' = Admitted(r)
    BY <1>3, ReserveEffect DEF EngineInv
  <2>3. \A e \in Held : HeldOn(e)' = HeldOn(e)
    BY <2>2 DEF HeldOn
  <2> QED
    BY <2>1, <2>2, <2>3
<1>5. ASSUME NEW r \in targets
      PROVE  Known(r)' /\ Admitted(r)' <= Allowance(r)'
  <2>1. Known(r) /\ granted <= AvailableForNew(r) /\ r \in Resources
    BY <1>2
  <2>2. Admitted(r) \in U64
    BY <2>1, AdmittedType DEF EngineInv, LedgerInv
  <2>3. Allowance(r) \in Nat /\ Admitted(r) \in Nat
    BY <2>1, <2>2, AllowanceKeeps, LedgerAssumption DEF EngineInv, U64
  <2>4. Admitted(r) + granted <= Allowance(r)
    BY <1>2, <2>1, <2>3 DEF AvailableForNew, SatSub
  <2> QED
    BY <1>4, <2>1, <2>4, SameAuthority
<1>6. \A r : Known(r)' = Known(r) /\ Allowance(r)' = Allowance(r)
  BY SameAuthority
<1> QED
  BY <1>4, <1>5, <1>6 DEF Fits

LEMMA GrantFitsStep ==
    ASSUME PositiveRequests
    PROVE  EngineInv /\ [EngineNext]_engineVars
              => [handler.step # "committing" /\ handler'.step = "committing" =>
                     Fits(handler.decision)']_engineVars
<1> SUFFICES ASSUME EngineInv, EngineNext, handler.step # "committing", handler'.step = "committing"
             PROVE  Fits(handler.decision)'
  OBVIOUS
<1>1. PICK q \in Fingerprints, claim \in InProcessClaims \cup issued : AdmitGranted(q, claim)
  <2>1. BeginEnforcement => UNCHANGED handler \/ handler'.step = "enforcing"
    BY DEF BeginEnforcement
  <2>2. ~Publish
    BY <2>1 DEF Publish, PublishPolicy, PublishPolicyFails, PublishCapacity, PublishReservations, Observe
  <2>3. ~(Review \/ Fencing \/ CompactJournal)
    BY DEF Review, Revoke, RevalidateReleases, RevalidateUnheld, RevalidateInvalidates,
           Fencing, RegisterSession, RetireSession, BeginNewIncarnation, CompactJournal
  <2>4. ~(CommitWritten \/ CommitFailed \/ EnforceDone)
    <3>1. CommitWritten \/ CommitFailed \/ EnforceDone => Finish
      BY DEF CommitWritten, CommitFailed, EnforceDone
    <3>2. Finish => handler'.step = "idle"
      BY DEF Finish
    <3> QED
      BY <3>1, <3>2
  <2>5. ~EnforceRevoke
    <3> SUFFICES ASSUME EnforceRevoke PROVE FALSE
      OBVIOUS
    <3>1. handler \in [step : {"enforcing"}, todo : SUBSET Nat, revoked : BOOLEAN]
      BY DEF EnforceRevoke, EngineInv, Handlers
    <3>2. PICK a \in handler.todo :
             \/ handler' = [step |-> "idle"]
             \/ handler' = [handler EXCEPT !.todo = {b \in @ : b < a}, !.revoked = TRUE]
      BY DEF EnforceRevoke, Finish
    <3>3. CASE handler' = [step |-> "idle"]
      BY <3>3
    <3>4. CASE handler' = [handler EXCEPT !.todo = {b \in @ : b < a}, !.revoked = TRUE]
      <4>1. handler'.step = "enforcing"
        BY <3>1, <3>4
      <4> QED
        BY <4>1
    <3> QED
      BY <3>2, <3>3, <3>4
  <2> QED
    BY <2>2, <2>3, <2>4, <2>5 DEF EngineNext, Admit, Proceed, AdmitRefused
<1>2. PICK d, path : d = next_decision_sequence /\ path = SelectPath(Requests[q]).path
  OBVIOUS
<1>3. /\ Reserve(d, path, [r \in Targets(Requests[q]) |-> Grant(Requests[q])])
      /\ handler'.decision = d
      /\ Ruling(q, claim).outcome \in AdmittingOutcomes
      /\ UNCHANGED <<policy, capacity, reservations>>
  BY <1>1, <1>2 DEF AdmitGranted, authorityVars
<1>4. Fits(d)'
  BY <1>3, ReservedFits
<1> QED
  BY <1>3, <1>4 DEF Fits, HeldOn

(* Every admission fits at the moment it is booked, whichever enforcement or *)
(* journal write has failed before, when requests ask for a positive         *)
(* minimum.                                                                  *)
THEOREM EngineGrantsFit ==
    ASSUME PositiveRequests
    PROVE  EngineSpec => GrantsFit
BY GrantFitsStep, InitInv, EngineStep, PTL DEF EngineSpec, GrantsFit

-----------------------------------------------------------------------------
(* The account is closed, by the invariant that every live grant fits       *)
(* unless an enforcement is under way; that live grants are positive keeps  *)
(* the ledger from refusing a release.                                      *)

FitInv ==
    /\ HeldPositive
    /\ handler.step # "enforcing" /\ capacity # None => \A d \in Held : Fits(d)

LEMMA ReleasesHappen ==
    ASSUME ReleasesSucceed, EngineInv, HeldPositive, NEW d \in Held,
           ReleaseDecision(d) \/ ReleaseDecisionFails(d)
    PROVE  Release(d)
<1>1. ~Underflows(d)
  BY PositiveReleasable DEF EngineInv, Releasable
<1> QED
  BY <1>1 DEF ReleaseDecision, ReleaseDecisionFails, Failed, FailedBehind, ReleaseFrame,
              RevocationFrame, ReleasesSucceed

LEMMA SameFits ==
    ASSUME UNCHANGED <<policy, capacity, reservations>>,
           \A r : Admitted(r)' = Admitted(r), NEW d, HeldOn(d)' = HeldOn(d), Fits(d)
    PROVE  Fits(d)'
<1>1. \A r : Known(r)' = Known(r) /\ Allowance(r)' = Allowance(r)
  BY SameAuthority
<1> QED
  BY <1>1 DEF Fits

(* Steps that leave the ledger alone. *)
LEMMA FitsKept ==
    ASSUME FitInv, UNCHANGED ledgerVars,
           \/ handler'.step = "enforcing" \/ capacity' = None
           \/ handler.step # "enforcing" /\ UNCHANGED <<policy, capacity, reservations>>
    PROVE  FitInv'
<1>1. HeldPositive'
  BY PositiveUnchanged DEF FitInv
<1>2. /\ Held' = Held /\ \A r : Admitted(r)' = Admitted(r)
      /\ \A d : HeldOn(d)' = HeldOn(d)
  BY DEF ledgerVars, Held, HeldOn, Admitted
<1>3. ASSUME handler'.step # "enforcing", capacity' # None, NEW d \in Held'
      PROVE  Fits(d)'
  <2>1. UNCHANGED <<policy, capacity, reservations>> /\ Fits(d)
    BY <1>2, <1>3 DEF FitInv
  <2> QED
    BY <1>2, <2>1, SameFits
<1> QED
  BY <1>1, <1>3 DEF FitInv

LEMMA FitsAfterDrop ==
    ASSUME EngineInv, FitInv, NEW d, Release(d), UNCHANGED <<policy, capacity, reservations>>,
           handler.step = "enforcing" => handler'.step = "enforcing"
    PROVE  FitInv'
<1>1. HeldPositive'
  BY PositiveRelease DEF FitInv
<1>2. Held' \subseteq Held
  BY ReleaseEffect DEF EngineInv
<1>3. ASSUME handler'.step # "enforcing", capacity' # None, NEW e \in Held'
      PROVE  Fits(e)'
  <2>1. Fits(e)
    BY <1>2, <1>3 DEF FitInv
  <2> QED
    BY <2>1, FitsAfterRelease DEF EngineInv
<1> QED
  BY <1>1, <1>3 DEF FitInv

LEMMA FitsAfterGrant ==
    ASSUME PositiveRequests, EngineInv, FitInv, NEW q \in Fingerprints, NEW claim, AdmitGranted(q, claim)
    PROVE  FitInv'
<1>1. PICK d, path, amounts : /\ d = next_decision_sequence /\ path = SelectPath(Requests[q]).path
                              /\ amounts = [r \in Targets(Requests[q]) |-> Grant(Requests[q])]
  OBVIOUS
<1>2. /\ Ruling(q, claim).outcome \in AdmittingOutcomes
      /\ handler.step = "idle" /\ UNCHANGED <<policy, capacity, reservations>>
      /\ \/ Reserve(d, path, amounts)
         \/ ReserveRolledBack(d, path, amounts)
         \/ UNCHANGED ledgerVars
  BY <1>1 DEF AdmitGranted, authorityVars, Idle
<1>3. CASE Reserve(d, path, amounts)
  <2>1. Fits(d)' /\ \A e \in Held : Fits(e) => Fits(e)'
    BY <1>1, <1>2, <1>3, ReservedFits
  <2>2. Held' = Held \cup {d}
    BY <1>3, ReserveEffect DEF EngineInv
  <2>3. \A r \in DOMAIN amounts : amounts[r] # 0
    <3>1. PICK granted : granted = Grant(Requests[q])
      OBVIOUS
    <3>2. granted \in Nat /\ granted > 0
      BY <1>2, <3>1, GrantPositive
    <3>3. granted # 0
      BY <3>2
    <3> QED
      BY <1>1, <3>1, <3>3
  <2>4. HeldPositive'
    BY <1>3, <2>3, PositiveReserve DEF FitInv
  <2> QED
    BY <1>2, <2>1, <2>2, <2>4 DEF FitInv
<1>4. CASE ReserveRolledBack(d, path, amounts)
  <2>1. HeldPositive'
    BY <1>4, PositiveRollback DEF FitInv
  <2>2. /\ Held' = Held /\ \A r : Admitted(r)' = Admitted(r)
        /\ \A e : HeldOn(e)' = HeldOn(e)
    BY <1>4 DEF ReserveRolledBack, Held, HeldOn, Admitted
  <2>3. \A e \in Held : Fits(e) => Fits(e)'
    BY <1>2, <2>2, SameFits
  <2> QED
    BY <1>2, <2>1, <2>2, <2>3 DEF FitInv
<1>5. CASE UNCHANGED ledgerVars
  BY <1>2, <1>5, FitsKept
<1> QED
  BY <1>2, <1>3, <1>4, <1>5

LEMMA FitsAfterEnforcement ==
    ASSUME EngineInv, FitInv, EnforceDone
    PROVE  FitInv'
<1>1. /\ SetFlags(FALSE) /\ handler.step = "enforcing" /\ \A a \in handler.todo : Passed(a)
      /\ UNCHANGED <<policy, capacity, reservations>>
  BY DEF EnforceDone, ClearRevalidationFlags
<1>2. \A d \in Held : Fits(d)
  BY <1>1, PassedFits
<1>3. HeldPositive'
  BY <1>1, PositiveFlags DEF EngineInv, FitInv
<1>4. /\ Held' = Held /\ UNCHANGED totals
      /\ \A d \in Held : by_decision'[d].amounts = by_decision[d].amounts
  BY <1>1, FlagsKeepLedger DEF EngineInv
<1>5. \A d \in Held : HeldOn(d)' = HeldOn(d)
  BY <1>4 DEF HeldOn
<1>6. \A r : Admitted(r)' = Admitted(r)
  BY <1>4 DEF Admitted
<1>7. \A d \in Held : Fits(d)'
  BY <1>1, <1>2, <1>5, <1>6, SameFits
<1> QED
  BY <1>3, <1>4, <1>7 DEF FitInv

LEMMA FitStep ==
    ASSUME PositiveRequests, ReleasesSucceed
    PROVE  EngineInv /\ FitInv /\ [EngineNext]_engineVars => FitInv'
<1> SUFFICES ASSUME EngineInv, FitInv, [EngineNext]_engineVars
             PROVE  FitInv'
  OBVIOUS
<1>1. ASSUME NEW q \in Fingerprints, NEW claim, AdmitGranted(q, claim)
      PROVE  FitInv'
  BY <1>1, FitsAfterGrant
<1>2. ASSUME NEW q \in Fingerprints, NEW claim, AdmitRefused(q, claim)
      PROVE  FitInv'
  BY <1>2, FitsKept DEF AdmitRefused, Idle, authorityVars
<1>3. ASSUME Publish
      PROVE  FitInv'
  <2>1. /\ UNCHANGED ledgerVars /\ handler.step = "idle"
        /\ \/ handler'.step = "enforcing" \/ capacity' = None
           \/ UNCHANGED <<policy, capacity, reservations>>
    <3>1. BeginEnforcement => UNCHANGED ledgerVars /\ (handler'.step = "enforcing" \/ capacity' = None)
      BY DEF BeginEnforcement, ReleasesSucceed
    <3>2. Observe => UNCHANGED ledgerVars /\ (capacity' = None \/ UNCHANGED <<policy, capacity, reservations>>)
      BY DEF Observe, InvalidateCapacity, InvalidatePaths, PublishPaths, PublishQos,
             PublishPriorities, AdvanceTick
    <3> QED
      BY <1>3, <3>1, <3>2 DEF Publish, PublishPolicy, PublishPolicyFails, PublishCapacity,
                              PublishReservations, Observe, Idle, authorityVars
  <2> QED
    BY <2>1, FitsKept
<1>4. ASSUME Review
      PROVE  FitInv'
  <2>1. PICK d : Revoke(d) \/ RevalidateReleases(d) \/ RevalidateUnheld(d) \/ RevalidateInvalidates(d)
    BY <1>4 DEF Review
  <2>2. handler.step = "idle" /\ UNCHANGED <<policy, capacity, reservations>>
    BY <2>1 DEF Revoke, RevalidateReleases, RevalidateUnheld, RevalidateInvalidates, Idle, authorityVars
  <2>3. CASE Revoke(d) \/ RevalidateReleases(d)
    <3>1. d \in Held /\ (ReleaseDecision(d) \/ ReleaseDecisionFails(d))
      BY <2>3 DEF Revoke, RevalidateReleases, Holds
    <3>2. Release(d)
      BY <3>1, ReleasesHappen DEF FitInv
    <3> QED
      BY <2>2, <3>2, FitsAfterDrop
  <2>4. CASE RevalidateUnheld(d) \/ RevalidateInvalidates(d)
    BY <2>2, <2>4, FitsKept DEF RevalidateUnheld, RevalidateInvalidates
  <2> QED
    BY <2>1, <2>3, <2>4
<1>5. ASSUME CommitWritten
      PROVE  FitInv'
  BY <1>5, FitsKept DEF CommitWritten, authorityVars
<1>6. ASSUME CommitFailed
      PROVE  FitInv'
  <2>1. /\ UNCHANGED ledgerVars \/ Release(handler.decision)
        /\ handler.step = "committing" /\ UNCHANGED <<policy, capacity, reservations>>
    BY <1>6 DEF CommitFailed, authorityVars
  <2> QED
    BY <2>1, FitsKept, FitsAfterDrop
<1>7. ASSUME EnforceRevoke
      PROVE  FitInv'
  <2>1. PICK a \in handler.todo :
           /\ NextToRevoke(a)
           /\ \/ /\ ReleaseDecision(audit_index[a])
                 /\ handler' = [handler EXCEPT !.todo = {b \in @ : b < a}, !.revoked = TRUE]
              \/ ReleaseDecisionFails(audit_index[a])
    BY <1>7 DEF EnforceRevoke
  <2>2. handler.step = "enforcing" /\ UNCHANGED <<policy, capacity, reservations>>
    BY <1>7 DEF EnforceRevoke, authorityVars
  <2>3. audit_index[a] \in Held
    BY <2>1, <2>2, NewerFits
  <2>4. ~ReleaseDecisionFails(audit_index[a])
    <3>1. ~Underflows(audit_index[a])
      BY <2>3, PositiveReleasable DEF EngineInv, FitInv, Releasable
    <3> QED
      BY <3>1 DEF ReleaseDecisionFails, Failed, FailedBehind, ReleaseFrame, RevocationFrame,
                  ReleasesSucceed
  <2>5. handler \in [step : {"enforcing"}, todo : SUBSET Nat, revoked : BOOLEAN]
    BY <2>2 DEF EngineInv, Handlers
  <2>6. handler'.step = "enforcing" /\ Release(audit_index[a])
    BY <2>1, <2>4, <2>5 DEF ReleaseDecision
  <2> QED
    BY <2>2, <2>6, FitsAfterDrop
<1>8. ASSUME EnforceDone
      PROVE  FitInv'
  BY <1>8, FitsAfterEnforcement
<1>9. ASSUME Fencing \/ CompactJournal \/ UNCHANGED engineVars
      PROVE  FitInv'
  <2>1. /\ UNCHANGED ledgerVars /\ UNCHANGED <<policy, capacity, reservations, handler>>
    BY <1>9 DEF Fencing, RegisterSession, RetireSession, BeginNewIncarnation, CompactJournal,
                engineVars, authorityVars
  <2> QED
    BY <2>1, FitsKept, PositiveUnchanged DEF FitInv
<1> QED
  BY <1>1, <1>2, <1>3, <1>4, <1>5, <1>6, <1>7, <1>8, <1>9 DEF EngineNext, Admit, Proceed

LEMMA FitInit == EngineInit => FitInv
<1>1. EngineInit => Held = {}
  BY DEF EngineInit, Constructed, LedgerInit, Held
<1> QED
  BY <1>1 DEF FitInv, HeldPositive

(* The central promise: admitted load, protected obligations and headroom    *)
(* never exceed usable capacity where admission holds load, when no          *)
(* enforcement is under way and capacity is known, whatever policy, capacity *)
(* and obligations are published.  Requests ask for a positive minimum and   *)
(* releases succeed; every other write may fail.                             *)
THEOREM EngineAccountingClosed ==
    ASSUME PositiveRequests, ReleasesSucceed
    PROVE  EngineSpec => []AccountingClosed
<1>1. EngineInv /\ FitInv => AccountingClosed
  BY FitsCloses DEF EngineInv, FitInv, AccountingClosed
<1> QED
  BY <1>1, InitInv, EngineStep, FitInit, FitStep, PTL DEF EngineSpec

-----------------------------------------------------------------------------
(* Sessions.  Nonces restart with every epoch, so a fenced grant could pass  *)
(* again if its nonce were handed out a second time: the invariant says that *)
(* a grant of the current epoch has a nonce already spent, and that no grant *)
(* is of a later epoch.                                                      *)

SessionInv ==
    /\ next_session_nonce \in Nat
    /\ \A n \in DOMAIN sessions : n \in Nat /\ n < next_session_nonce
    /\ \A g \in issued : /\ g.origin = "Ipc" /\ g.epoch \in Nat /\ g.session \in Nat
                         /\ g.epoch <= epoch
                         /\ g.epoch = epoch => g.session < next_session_nonce
    /\ SessionsCurrent

LEMMA SessionInit == EngineInit => SessionInv
BY DEF EngineInit, Constructed, SessionInv, SessionsCurrent

LEMMA RegisterStep ==
    ASSUME CoreInv, SessionInv, NEW c, RegisterSession(c)
    PROVE  SessionInv'
<1>1. PICK n, grant : /\ n = next_session_nonce
                      /\ grant = [origin |-> "Ipc", session |-> n, claimant |-> c,
                                  epoch |-> epoch, incarnation |-> incarnation]
  OBVIOUS
<1>2. /\ sessions' = [m \in DOMAIN sessions \cup {n} |-> IF m = n THEN c ELSE sessions[m]]
      /\ next_session_nonce' = n + 1
      /\ issued' = issued \cup {grant}
      /\ UNCHANGED <<epoch, incarnation>>
  BY <1>1 DEF RegisterSession, authorityVars
<1>3. n \in Nat /\ epoch \in Nat
  BY <1>1 DEF SessionInv, CoreInv
<1>4. \A m \in DOMAIN sessions' : m \in Nat /\ m < next_session_nonce'
  BY <1>1, <1>2, <1>3 DEF SessionInv
<1>5. \A g \in issued' : /\ g.origin = "Ipc" /\ g.epoch \in Nat /\ g.session \in Nat
                         /\ g.epoch <= epoch'
                         /\ g.epoch = epoch' => g.session < next_session_nonce'
  BY <1>1, <1>2, <1>3 DEF SessionInv
<1>6. SessionsCurrent'
  BY <1>1, <1>2 DEF SessionInv, SessionsCurrent
<1> QED
  BY <1>2, <1>3, <1>4, <1>5, <1>6 DEF SessionInv

LEMMA SessionKept ==
    ASSUME SessionInv, UNCHANGED <<sessionVars, issued, epoch, incarnation>>
    PROVE  SessionInv'
BY DEF SessionInv, SessionsCurrent, sessionVars

LEMMA SessionKinds ==
    ASSUME [EngineNext]_engineVars
    PROVE  Fencing \/ UNCHANGED <<sessionVars, issued, epoch, incarnation>>
<1>1. Admit => UNCHANGED <<sessionVars, issued, epoch, incarnation>>
  BY DEF Admit, AdmitGranted, AdmitRefused, authorityVars
<1>2. Observe => UNCHANGED <<sessionVars, issued, epoch, incarnation>>
  BY DEF Observe, InvalidateCapacity, InvalidatePaths, PublishPaths, PublishQos, PublishPriorities,
         AdvanceTick
<1>3. Publish => UNCHANGED <<sessionVars, issued, epoch, incarnation>>
  BY <1>2 DEF Publish, PublishPolicy, PublishPolicyFails, PublishCapacity, PublishReservations,
              AcceptPolicy, AcceptCapacity, AcceptReservations, BeginEnforcement, authorityVars
<1>4. Review => UNCHANGED <<sessionVars, issued, epoch, incarnation>>
  BY DEF Review, Revoke, RevalidateReleases, RevalidateUnheld, RevalidateInvalidates, authorityVars
<1>5. Proceed => UNCHANGED <<sessionVars, issued, epoch, incarnation>>
  BY DEF Proceed, CommitWritten, CommitFailed, EnforceRevoke, EnforceDone, authorityVars
<1> QED
  BY <1>1, <1>3, <1>4, <1>5 DEF EngineNext, CompactJournal, engineVars, authorityVars

LEMMA SessionStep == EngineInv /\ SessionInv /\ [EngineNext]_engineVars => SessionInv'
<1> SUFFICES ASSUME EngineInv, SessionInv, [EngineNext]_engineVars
             PROVE  SessionInv'
  OBVIOUS
<1>1. ASSUME NEW c, RegisterSession(c)
      PROVE  SessionInv'
  BY <1>1, RegisterStep DEF EngineInv
<1>2. ASSUME NEW n, RetireSession(n)
      PROVE  SessionInv'
  <2>1. /\ sessions' = Restrict(sessions, DOMAIN sessions \ {n})
        /\ UNCHANGED <<next_session_nonce, issued, epoch, incarnation>>
    BY <1>2 DEF RetireSession, authorityVars
  <2>2. \A m \in DOMAIN sessions' : m \in DOMAIN sessions /\ sessions'[m] = sessions[m]
    BY <2>1 DEF Restrict
  <2>3. SessionsCurrent'
    <3> SUFFICES ASSUME NEW m \in DOMAIN sessions'
                 PROVE  \E g \in issued' : /\ g.session = m /\ g.claimant = sessions'[m]
                                           /\ g.epoch = epoch' /\ g.incarnation = incarnation'
      BY DEF SessionsCurrent
    <3>1. PICK g \in issued : /\ g.session = m /\ g.claimant = sessions[m]
                              /\ g.epoch = epoch /\ g.incarnation = incarnation
      BY <2>2 DEF SessionInv, SessionsCurrent
    <3> QED
      BY <2>1, <2>2, <3>1
  <2>4. \A m \in DOMAIN sessions' : m \in Nat /\ m < next_session_nonce'
    BY <2>1, <2>2 DEF SessionInv
  <2> QED
    BY <2>1, <2>3, <2>4 DEF SessionInv
<1>3. ASSUME NEW i, BeginNewIncarnation(i)
      PROVE  SessionInv'
  <2>1. /\ sessions' = << >> /\ next_session_nonce' = 1
        /\ epoch' = epoch + 1 /\ UNCHANGED issued /\ epoch \in Nat
    BY <1>3 DEF BeginNewIncarnation, DropSessions, EngineInv, CoreInv
  <2>2. \A g \in issued : g.epoch <= epoch' /\ g.epoch # epoch'
    BY <2>1 DEF SessionInv
  <2>3. DOMAIN sessions' = {}
    BY <2>1
  <2>4. SessionsCurrent'
    BY <2>3 DEF SessionsCurrent
  <2> QED
    BY <2>1, <2>2, <2>3, <2>4 DEF SessionInv
<1> QED
  BY <1>1, <1>2, <1>3, SessionKinds, SessionKept DEF Fencing

(* No session outlives its incarnation: every live one was granted under the *)
(* current epoch and incarnation.                                            *)
THEOREM EngineSessionsCurrent == EngineSpec => []SessionsCurrent
<1>1. SessionInv => SessionsCurrent
  BY DEF SessionInv
<1> QED
  BY <1>1, InitInv, EngineStep, SessionInit, SessionStep, PTL DEF EngineSpec

(* What check_fence() asks of a grant that a session was given. *)
Live(g) ==
    /\ g.epoch # 0 /\ g.epoch = epoch /\ g.incarnation = incarnation
    /\ g.session \in DOMAIN sessions /\ sessions[g.session] = g.claimant

LEMMA FencePasses ==
    ASSUME CoreInv, SessionInv, NEW g \in issued
    PROVE  Fence(g) = "PASS" <=> Live(g)
<1>1. g.origin = "Ipc" /\ ~(g.epoch > epoch)
  BY DEF SessionInv, CoreInv
<1> QED
  BY <1>1 DEF Fence, Live

LEMMA LiveBefore ==
    ASSUME EngineInv, SessionInv, [EngineNext]_engineVars, NEW g \in issued, Live(g)'
    PROVE  Live(g)
<1>1. ASSUME NEW c, RegisterSession(c)
      PROVE  Live(g)
  <2>1. /\ sessions' = [n \in DOMAIN sessions \cup {next_session_nonce} |->
                           IF n = next_session_nonce THEN c ELSE sessions[n]]
        /\ UNCHANGED <<epoch, incarnation>>
    BY <1>1 DEF RegisterSession, authorityVars
  <2>2. g.epoch = epoch /\ g.session < next_session_nonce /\ g.session \in Nat /\ next_session_nonce \in Nat
    BY <2>1 DEF Live, SessionInv
  <2>3. g.session # next_session_nonce
    BY <2>2
  <2> QED
    BY <2>1, <2>3 DEF Live
<1>2. ASSUME NEW n, RetireSession(n)
      PROVE  Live(g)
  <2>1. /\ sessions' = Restrict(sessions, DOMAIN sessions \ {n})
        /\ UNCHANGED <<epoch, incarnation>>
    BY <1>2 DEF RetireSession, authorityVars
  <2>2. \A m \in DOMAIN sessions' : m \in DOMAIN sessions /\ sessions'[m] = sessions[m]
    BY <2>1 DEF Restrict
  <2> QED
    BY <2>1, <2>2 DEF Live
<1>3. ASSUME NEW i, BeginNewIncarnation(i)
      PROVE  FALSE
  <2>1. sessions' = << >>
    BY <1>3 DEF BeginNewIncarnation, DropSessions
  <2>2. DOMAIN sessions' = {}
    BY <2>1
  <2> QED
    BY <2>2 DEF Live
<1>4. ASSUME UNCHANGED <<sessionVars, issued, epoch, incarnation>>
      PROVE  Live(g)
  BY <1>4 DEF Live, sessionVars
<1> QED
  BY <1>1, <1>2, <1>3, <1>4, SessionKinds DEF Fencing

(* A grant that is fenced never passes check_fence() again, although nonces  *)
(* restart with every epoch and a new incarnation may reuse an identity.     *)
THEOREM EngineFencedForever == EngineSpec => FencedForever
<1>1. EngineInv /\ SessionInv /\ EngineInv' /\ SessionInv' /\ [EngineNext]_engineVars
         => [\A g \in issued : Fence(g) # "PASS" => Fence(g)' # "PASS"]_engineVars
  <2> SUFFICES ASSUME EngineInv, SessionInv, EngineInv', SessionInv', [EngineNext]_engineVars,
                      NEW g \in issued, Fence(g)' = "PASS"
               PROVE  Fence(g) = "PASS"
    OBVIOUS
  <2>1. issued \subseteq issued'
    BY SessionKinds DEF Fencing, RegisterSession, RetireSession, BeginNewIncarnation
  <2>2. Live(g)'
    <3>1. g.origin = "Ipc" /\ ~(g.epoch > epoch')
      BY <2>1 DEF EngineInv, SessionInv, CoreInv
    <3> QED
      BY <3>1 DEF Fence, Live
  <2>3. Live(g)
    BY <2>2, LiveBefore
  <2> QED
    BY <2>3, FencePasses DEF EngineInv
<1> QED
  BY <1>1, InitInv, EngineStep, SessionInit, SessionStep, PTL DEF EngineSpec, FencedForever
=============================================================================
