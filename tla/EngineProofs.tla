---------------------------- MODULE EngineProofs ----------------------------
(***************************************************************************)
(* The engine keeps its account, for every authority its owners may        *)
(* publish, every set of requests and every choice of its limits.          *)
(***************************************************************************)
EXTENDS Engine, EvaluationFacts

-----------------------------------------------------------------------------
(* The inductive invariant.  Identities and audit sequences are handed out  *)
(* once, so what is not yet recorded is fresh; an admission under way holds *)
(* its load; what an enforcement has passed fits.                           *)

CoreInv ==
    /\ next_decision_sequence \in Nat \ {0} /\ audit \in Nat
    /\ epoch \in Nat /\ incarnation \in Incarnations /\ pending_reconciliation \in BOOLEAN

HistoryInv ==
    /\ DOMAIN records \subseteq Decisions /\ records \in [DOMAIN records -> Records]
    /\ audit_index \in [DOMAIN audit_index -> Decisions]
    /\ DOMAIN audit_index \subseteq 0 .. audit - 1
    /\ cursor_audit \in 0 .. audit
    /\ Indexed(records, audit_index)
    /\ \A d \in Held \cup DOMAIN records \cup DOMAIN decision_cache :
          d \in Decisions /\ d < next_decision_sequence

CommitInv ==
    handler.step = "committing" =>
       /\ handler.decision \in Held /\ ~Underflows(handler.decision)
       /\ handler.decision \notin DOMAIN records \cup DOMAIN decision_cache
       /\ handler.record.audit \in (0 .. audit - 1) \ DOMAIN audit_index
       /\ IsAdmitting(handler.record) /\ handler.record.state = "Fresh"

EnforceInv ==
    handler.step = "enforcing" =>
       /\ handler.todo \subseteq DOMAIN audit_index
       /\ \A d \in Held : records[d].audit \in handler.todo \/ Fits(d)

EngineInv ==
    /\ LedgerInv /\ AuthorityTypeOK /\ CoreInv /\ HistoryInv
    /\ handler \in Handlers /\ CommitInv /\ EnforceInv
    /\ HeldRecorded

-----------------------------------------------------------------------------
LEMMA InitInv == EngineInit => EngineInv
<1> SUFFICES ASSUME EngineInit PROVE EngineInv
  OBVIOUS
<1>1. LedgerInv
  BY EmptyLedger DEF EngineInit, Constructed
<1>2. AuthorityTypeOK
  BY DEF EngineInit, Constructed, AuthorityInit, AuthorityTypeOK
<1>3. CoreInv
  <2>1. pending_reconciliation \in BOOLEAN
    BY DEF EngineInit, Constructed, AuthorityInit
  <2>2. /\ next_decision_sequence \in Nat \ {0} /\ audit \in Nat
        /\ epoch \in Nat /\ incarnation \in Incarnations
    BY EngineAssumption DEF EngineInit, Constructed
  <2> QED
    BY <2>1, <2>2 DEF CoreInv
<1>4. Held = {}
  BY DEF EngineInit, Constructed, LedgerInit, Held
<1>5. HistoryInv
  BY <1>4 DEF EngineInit, Constructed, HistoryInit, HistoryInv, Indexed
<1>6. handler \in Handlers /\ CommitInv /\ EnforceInv
  BY DEF EngineInit, Handlers, CommitInv, EnforceInv
<1>7. HeldRecorded
  BY <1>4 DEF HeldRecorded
<1> QED
  BY <1>1, <1>2, <1>3, <1>5, <1>6, <1>7 DEF EngineInv

(* Steps that change neither the ledger nor the history. *)
LEMMA QuietStep ==
    ASSUME EngineInv, UNCHANGED <<ledgerVars, historyVars, coreVars, handler>>,
           Idle \/ UNCHANGED authorityVars,
           AuthorityTypeOK', CoreInv'
    PROVE  EngineInv'
<1>1. LedgerInv'
  BY UnchangedKeepsLedger DEF EngineInv
<1>2. Held' = Held /\ \A d : Underflows(d)' = Underflows(d)
  BY DEF ledgerVars, Held, Underflows, HeldOn
<1>3. HistoryInv'
  BY <1>2 DEF EngineInv, HistoryInv, historyVars, coreVars, Indexed
<1>4. handler' \in Handlers /\ CommitInv'
  BY <1>2 DEF EngineInv, CommitInv, historyVars, coreVars, IsAdmitting
<1>5. EnforceInv'
  <2>1. CASE Idle
    BY <2>1 DEF Idle, EnforceInv
  <2>2. CASE UNCHANGED authorityVars
    <3>1. \A d : Fits(d)' = Fits(d)
      BY <2>2, SameAuthority DEF authorityVars, ledgerVars, Fits, HeldOn, Admitted
    <3> QED
      BY <1>2, <3>1 DEF EngineInv, EnforceInv, historyVars
  <2> QED
    BY <2>1, <2>2
<1>6. HeldRecorded'
  BY <1>2 DEF EngineInv, HeldRecorded, Admission, historyVars, IsAdmitting
<1> QED
  BY <1>1, <1>3, <1>4, <1>5, <1>6 DEF EngineInv

-----------------------------------------------------------------------------
(* A decision is recorded *)

LEMMA InsertKeeps ==
    ASSUME EngineInv, NEW d \in Decisions, NEW record \in Records,
           d \notin DOMAIN records, d < next_decision_sequence',
           record.audit \in (0 .. audit' - 1) \ DOMAIN audit_index,
           next_decision_sequence' \in Nat, next_decision_sequence <= next_decision_sequence',
           audit' \in Nat, audit <= audit',
           UNCHANGED ledgerVars, InsertAndTrim(d, record), Remember(d, record)
    PROVE  /\ HistoryInv'
           /\ DOMAIN records' \subseteq DOMAIN records \cup {d}
           /\ Held \cap (DOMAIN records \cup {d}) \subseteq DOMAIN records'
           /\ \A e \in DOMAIN records' : records'[e] = IF e = d THEN record ELSE records[e]
<1> DEFINE all == RecordsWith(records, d, record)
           index == IndexWith(records, audit_index, d, record)
<1>1. /\ Indexed(records, audit_index)
      /\ records \in [DOMAIN records -> Records] /\ DOMAIN records \subseteq Decisions
      /\ audit_index \in [DOMAIN audit_index -> Decisions]
      /\ DOMAIN audit_index \subseteq 0 .. audit - 1 /\ cursor_audit \in 0 .. audit
      /\ audit \in Nat
      /\ \A e \in Held \cup DOMAIN records \cup DOMAIN decision_cache :
            e \in Decisions /\ e < next_decision_sequence
      /\ next_decision_sequence \in Nat
  BY DEF EngineInv, HistoryInv, CoreInv
<1>2. Indexed(all, index)
  BY <1>1, InsertIndexed
<1>3. /\ DOMAIN all = DOMAIN records \cup {d}
      /\ all \in [DOMAIN all -> Records]
      /\ \A e \in DOMAIN all : all[e] = IF e = d THEN record ELSE records[e]
  BY <1>1 DEF RecordsWith
<1>4. /\ DOMAIN index = DOMAIN audit_index \cup {record.audit}
      /\ index \in [DOMAIN index -> Decisions]
  BY <1>1 DEF IndexWith
<1>5. DOMAIN index \subseteq 0 .. audit' - 1 /\ cursor_audit \in 0 .. audit'
  BY <1>1, <1>4
<1>6. TrimHistory(all, index, Held)
  BY DEF InsertAndTrim
<1> HIDE DEF all, index
<1>7. /\ DOMAIN records' \subseteq DOMAIN all
      /\ DOMAIN all \cap Held \subseteq DOMAIN records'
      /\ \A e \in DOMAIN records' : records'[e] = all[e]
      /\ records' \in [DOMAIN records' -> Records]
      /\ DOMAIN audit_index' \subseteq DOMAIN index
      /\ audit_index' \in [DOMAIN audit_index' -> Decisions]
      /\ Indexed(records, audit_index)'
      /\ cursor_audit' \in 0 .. audit'
  <2>1. CASE records' = all /\ audit_index' = index /\ UNCHANGED cursor_audit
    BY <1>2, <1>3, <1>4, <1>5, <2>1 DEF Indexed
  <2>2. CASE Trim(all, index, Held)
    <3>1. /\ DOMAIN records' \subseteq DOMAIN all
          /\ DOMAIN all \cap Held \subseteq DOMAIN records'
          /\ records' = [e \in DOMAIN records' |-> all[e]]
          /\ DOMAIN audit_index' \subseteq DOMAIN index
          /\ audit_index' = [a \in DOMAIN audit_index' |-> index[a]]
          /\ Indexed(records, audit_index)'
          /\ cursor_audit' \in 0 .. audit'
      BY <1>2, <1>5, <2>2, TrimKeeps
    <3>2. \A e \in DOMAIN records' : records'[e] = all[e]
      BY <3>1
    <3>3. records' \in [DOMAIN records' -> Records]
      BY <1>3, <3>1
    <3>4. audit_index' \in [DOMAIN audit_index' -> Decisions]
      BY <1>4, <3>1
    <3> QED
      BY <3>1, <3>2, <3>3, <3>4
  <2> QED
    BY <1>6, <2>1, <2>2 DEF TrimHistory
<1>8. DOMAIN decision_cache' \subseteq DOMAIN decision_cache \cup {d}
  BY DEF Remember
<1>9. Held' = Held
  BY DEF ledgerVars, Held
<1>10. \A e \in (Held \cup DOMAIN records \cup DOMAIN decision_cache)' :
          e \in Decisions /\ e < next_decision_sequence'
  BY <1>1, <1>3, <1>7, <1>8, <1>9, LedgerAssumption
<1>11. HistoryInv'
  BY <1>3, <1>5, <1>7, <1>1, <1>10 DEF HistoryInv
<1> QED
  BY <1>3, <1>7, <1>11

-----------------------------------------------------------------------------
(* Admission *)

LEMMA RecordTypes ==
    ASSUME EngineInv, NEW q \in Fingerprints, NEW outcome \in Outcomes,
           NEW granted \in U64, NEW path \in Paths \cup {NoPath}
    PROVE  GrantRecord(q, outcome, granted, path) \in Records /\ RefusalRecord(q, outcome) \in Records
<1>1. Bindings \in Generations
  <2>1. \A p \in Policies \cup Capacities \cup Reservations \cup PathCatalogs
                 \cup QosCatalogs \cup PriorityCatalogs \cup {None} : Generation(p) \in Nat
    BY AuthorityAssumption DEF Generation
  <2> QED
    BY <2>1 DEF Bindings, Generations, EngineInv, AuthorityTypeOK
<1>2. 0 \in U64
  BY LedgerAssumption DEF U64
<1> QED
  BY <1>1, <1>2 DEF GrantRecord, RefusalRecord, Records, EngineInv, CoreInv

(* The next decision and the next audit sequence are fresh. *)
LEMMA NextFresh ==
    ASSUME EngineInv, ConsumeIdentity
    PROVE  /\ next_decision_sequence \notin Held \cup DOMAIN records \cup DOMAIN decision_cache
           /\ audit \notin DOMAIN audit_index
           /\ next_decision_sequence' \in Nat \ {0} /\ audit' \in Nat
           /\ next_decision_sequence < next_decision_sequence' /\ audit \in 0 .. audit' - 1
           /\ next_decision_sequence <= next_decision_sequence' /\ audit <= audit'
<1>1. next_decision_sequence \in Nat \ {0} /\ audit \in Nat
  BY DEF EngineInv, CoreInv
<1>2. \A d \in Held \cup DOMAIN records \cup DOMAIN decision_cache : d < next_decision_sequence
  BY DEF EngineInv, HistoryInv
<1>3. DOMAIN audit_index \subseteq 0 .. audit - 1
  BY DEF EngineInv, HistoryInv
<1> QED
  BY <1>1, <1>2, <1>3 DEF ConsumeIdentity

(* Consuming identities, with no or one more holder, leaves the history well *)
(* formed.                                                                   *)
LEMMA ConsumeKeepsHistory ==
    ASSUME EngineInv, ConsumeIdentity, UNCHANGED historyVars, DecisionLeft,
           Held' \subseteq Held \cup {next_decision_sequence}
    PROVE  HistoryInv'
<1>1. /\ next_decision_sequence \in Nat /\ audit \in Nat
      /\ next_decision_sequence' = next_decision_sequence + 1 /\ audit' = audit + 1
  BY DEF EngineInv, CoreInv, ConsumeIdentity
<1>2. \A d \in (Held \cup DOMAIN records \cup DOMAIN decision_cache)' :
         d \in Decisions /\ d < next_decision_sequence'
  BY <1>1, LedgerAssumption DEF EngineInv, HistoryInv, historyVars, DecisionLeft
<1>3. DOMAIN audit_index' \subseteq 0 .. audit' - 1 /\ cursor_audit' \in 0 .. audit'
  BY <1>1 DEF EngineInv, HistoryInv, historyVars
<1> QED
  BY <1>2, <1>3 DEF EngineInv, HistoryInv, historyVars, Indexed

LEMMA RefusedStep ==
    ASSUME EngineInv, NEW q \in Fingerprints, NEW claim, AdmitRefused(q, claim)
    PROVE  EngineInv'
<1> DEFINE outcome == Ruling(q, claim).outcome
           d == next_decision_sequence
           record == RefusalRecord(q, outcome)
<1>1. /\ Idle /\ DecisionLeft /\ ConsumeIdentity
      /\ UNCHANGED <<ledgerVars, authorityVars, handler>>
      /\ outcome \notin AdmittingOutcomes \cup {"REPLAY"}
      /\ \/ InsertAndTrim(d, record) /\ Remember(d, record)
         \/ UNCHANGED historyVars
  BY DEF AdmitRefused
<1>2. LedgerInv' /\ Held' = Held
  BY <1>1, UnchangedKeepsLedger DEF EngineInv, ledgerVars, Held
<1>3. AuthorityTypeOK' /\ CoreInv'
  BY <1>1, NextFresh DEF EngineInv, AuthorityTypeOK, CoreInv, authorityVars
<1>4. record \in Records /\ record.audit = audit
  <2>1. outcome \in Outcomes
    BY <1>1, RulingType
  <2>2. 0 \in U64 /\ NoPath \in Paths \cup {NoPath}
    BY LedgerAssumption DEF U64
  <2> QED
    BY <2>1, <2>2, RecordTypes DEF RefusalRecord
<1> HIDE DEF record, outcome
<1>5. HistoryInv' /\ HeldRecorded'
  <2>1. \A e \in Held : Admission(e)
    BY <1>1 DEF EngineInv, HeldRecorded, Idle
  <2>2. CASE InsertAndTrim(d, record) /\ Remember(d, record)
    <3>1. /\ HistoryInv'
          /\ Held \cap (DOMAIN records \cup {d}) \subseteq DOMAIN records'
          /\ \A e \in DOMAIN records' : records'[e] = IF e = d THEN record ELSE records[e]
      BY <1>1, <1>4, <2>2, NextFresh, InsertKeeps DEF DecisionLeft
    <3>2. \A e \in Held : Admission(e)'
      BY <1>1, <2>1, <3>1, NextFresh DEF Admission, IsAdmitting
    <3> QED
      BY <1>2, <3>1, <3>2 DEF HeldRecorded
  <2>3. CASE UNCHANGED historyVars
    <3>1. HistoryInv'
      BY <1>1, <1>2, <2>3, ConsumeKeepsHistory
    <3> QED
      BY <1>2, <2>1, <2>3, <3>1 DEF HeldRecorded, Admission, historyVars, IsAdmitting
  <2> QED
    BY <1>1, <2>2, <2>3
<1>6. handler' \in Handlers /\ CommitInv' /\ EnforceInv'
  BY <1>1 DEF EngineInv, Idle, CommitInv, EnforceInv
<1> QED
  BY <1>2, <1>3, <1>5, <1>6 DEF EngineInv

(* The grant of an admitting verdict, as the ledger is asked to book it. *)
LEMMA GrantTypes ==
    ASSUME EngineInv, NEW q \in Fingerprints, NEW claim,
           Ruling(q, claim).outcome \in AdmittingOutcomes
    PROVE  LET req == Requests[q]
           IN  /\ Targets(req) \in (SUBSET Resources) \ {{}}
               /\ [r \in Targets(req) |-> Grant(req)] \in AmountMaps
               /\ SelectPath(req).path \in Paths \cup {NoPath}
               /\ GrantRecord(q, Ruling(q, claim).outcome, Grant(req), SelectPath(req).path)
                     \in Records
               /\ Grant(req) \in Nat /\ Grant(req) >= req.minimum
               /\ capacity # None
               /\ \A r \in Targets(req) : Known(r) /\ Grant(req) <= AvailableForNew(r)
<1> DEFINE req == Requests[q]
           path == SelectPath(req).path
<1>1. Verdict(req) \in AdmittingOutcomes /\ Ruling(q, claim).outcome \in Outcomes
  BY RulingType DEF Outcomes
<1>2. /\ Targets(req) \in (SUBSET Resources) \ {{}}
      /\ Grant(req) \in U64 /\ Grant(req) >= req.minimum
      /\ capacity # None
      /\ \A r \in Targets(req) : Known(r) /\ Grant(req) <= AvailableForNew(r)
  BY <1>1, GrantFits DEF EngineInv, LedgerInv
<1>3. path \in Paths \cup {NoPath}
  BY SelectedPath DEF EngineInv
<1> HIDE DEF req, path
<1>4. [r \in Targets(req) |-> Grant(req)] \in AmountMaps
  <2>1. [r \in Targets(req) |-> Grant(req)] \in [Targets(req) -> U64]
    BY <1>2
  <2> QED
    BY <1>2, <2>1 DEF AmountMaps
<1>5. GrantRecord(q, Ruling(q, claim).outcome, Grant(req), path) \in Records
  BY <1>1, <1>2, <1>3, RecordTypes
<1>6. Grant(req) \in Nat
  BY <1>2, LedgerAssumption DEF U64
<1> QED
  BY <1>2, <1>3, <1>4, <1>5, <1>6 DEF req, path

LEMMA GrantedStep ==
    ASSUME EngineInv, NEW q \in Fingerprints, NEW claim, AdmitGranted(q, claim)
    PROVE  EngineInv'
<1>0. PICK d : d = next_decision_sequence
  OBVIOUS
<1> DEFINE req     == Requests[q]
           outcome == Ruling(q, claim).outcome
           path    == SelectPath(req).path
           amounts == [r \in Targets(req) |-> Grant(req)]
           record  == GrantRecord(q, outcome, Grant(req), path)
<1>1. /\ Idle /\ DecisionLeft /\ ConsumeIdentity
      /\ UNCHANGED <<historyVars, authorityVars>>
      /\ outcome \in AdmittingOutcomes
      /\ \/ /\ Reserve(d, path, amounts)
            /\ handler' = [step |-> "committing", decision |-> d, record |-> record]
         \/ /\ UNCHANGED ledgerVars \/ ReserveRolledBack(d, path, amounts)
            /\ UNCHANGED handler
  BY <1>0 DEF AdmitGranted
<1>2. AuthorityTypeOK' /\ CoreInv'
  BY <1>1, NextFresh DEF EngineInv, AuthorityTypeOK, CoreInv, authorityVars
<1>3. /\ amounts \in AmountMaps /\ path \in Paths \cup {NoPath} /\ record \in Records
      /\ record.audit = audit /\ IsAdmitting(record) /\ record.state = "Fresh"
  BY <1>1, GrantTypes DEF GrantRecord, IsAdmitting
<1>4. \A e \in Held : Admission(e)'
  BY <1>1 DEF EngineInv, HeldRecorded, Idle, Admission, IsAdmitting, historyVars
<1> HIDE DEF record, amounts, path, outcome
<1>5. CASE /\ Reserve(d, path, amounts)
           /\ handler' = [step |-> "committing", decision |-> d, record |-> record]
  <2>1. LedgerInv' /\ Held' = Held \cup {d} /\ ~Underflows(d)'
    BY <1>0, <1>1, <1>3, <1>5, ReserveKeepsLedger, ReserveEffect, ReservedReleasable
       DEF EngineInv, DecisionLeft
  <2>2. HistoryInv'
    BY <1>0, <1>1, <2>1, ConsumeKeepsHistory
  <2>3. handler' \in Handlers /\ handler'.step = "committing"
    BY <1>0, <1>1, <1>3, <1>5 DEF Handlers, DecisionLeft
  <2>4. CommitInv'
    BY <1>0, <1>1, <1>3, <1>5, <2>1, NextFresh DEF CommitInv, historyVars, IsAdmitting
  <2>5. EnforceInv' /\ HeldRecorded'
    BY <1>4, <1>5, <2>1 DEF EnforceInv, HeldRecorded
  <2> QED
    BY <1>2, <2>1, <2>2, <2>3, <2>4, <2>5 DEF EngineInv
<1>6. CASE /\ UNCHANGED ledgerVars \/ ReserveRolledBack(d, path, amounts)
           /\ UNCHANGED handler
  <2>1. LedgerInv' /\ Held' = Held
    BY <1>6, UnchangedKeepsLedger, RollbackKeepsLedger
       DEF EngineInv, ledgerVars, Held, ReserveRolledBack
  <2>2. HistoryInv'
    BY <1>0, <1>1, <2>1, ConsumeKeepsHistory
  <2>3. handler' \in Handlers /\ CommitInv' /\ EnforceInv' /\ HeldRecorded'
    BY <1>1, <1>4, <1>6, <2>1 DEF EngineInv, Idle, CommitInv, EnforceInv, HeldRecorded
  <2> QED
    BY <1>2, <2>1, <2>2, <2>3 DEF EngineInv
<1> QED
  BY <1>1, <1>5, <1>6

LEMMA CommitWrittenStep ==
    ASSUME EngineInv, CommitWritten
    PROVE  EngineInv'
<1>0. PICK d, record : d = handler.decision /\ record = handler.record
  OBVIOUS
<1>1. /\ handler.step = "committing"
      /\ InsertAndTrim(d, record) /\ Remember(d, record)
      /\ UNCHANGED <<ledgerVars, authorityVars, coreVars>>
      /\ handler' = [step |-> "idle"]
  BY <1>0 DEF CommitWritten, Finish
<1>2. LedgerInv' /\ Held' = Held
  BY <1>1, UnchangedKeepsLedger DEF EngineInv, ledgerVars, Held
<1>3. AuthorityTypeOK' /\ CoreInv'
  BY <1>1 DEF EngineInv, AuthorityTypeOK, CoreInv, authorityVars, coreVars
<1>4. /\ d \in Decisions /\ record \in Records
      /\ d \in Held /\ d \notin DOMAIN records /\ d < next_decision_sequence
      /\ record.audit \in (0 .. audit - 1) \ DOMAIN audit_index
      /\ IsAdmitting(record) /\ record.state = "Fresh"
  BY <1>0, <1>1 DEF EngineInv, Handlers, CommitInv, HistoryInv
<1>5. /\ audit' = audit /\ next_decision_sequence' = next_decision_sequence
      /\ audit \in Nat /\ next_decision_sequence \in Nat
      /\ audit <= audit' /\ next_decision_sequence <= next_decision_sequence'
  BY <1>1 DEF EngineInv, CoreInv, coreVars
<1>6. /\ HistoryInv'
      /\ Held \cap (DOMAIN records \cup {d}) \subseteq DOMAIN records'
      /\ \A e \in DOMAIN records' : records'[e] = IF e = d THEN record ELSE records[e]
  BY <1>1, <1>4, <1>5, InsertKeeps
<1>7. \A e \in Held : e = d \/ Admission(e)
  BY <1>0 DEF EngineInv, HeldRecorded
<1>8. HeldRecorded'
  BY <1>2, <1>4, <1>6, <1>7 DEF HeldRecorded, Admission, IsAdmitting
<1>9. handler' \in Handlers /\ CommitInv' /\ EnforceInv'
  BY <1>1 DEF Handlers, CommitInv, EnforceInv
<1> QED
  BY <1>2, <1>3, <1>6, <1>8, <1>9 DEF EngineInv

LEMMA CommitFailedStep ==
    ASSUME EngineInv, CommitFailed
    PROVE  EngineInv'
<1>0. PICK d : d = handler.decision
  OBVIOUS
<1>1. /\ handler.step = "committing" /\ ~Underflows(d)
      /\ Release(d)
      /\ UNCHANGED <<historyVars, authorityVars, coreVars>>
      /\ handler' = [step |-> "idle"]
  BY <1>0 DEF CommitFailed, Finish, EngineInv, CommitInv
<1>2. LedgerInv' /\ Held' = Held \ {d}
  BY <1>1, ReleaseKeepsLedger, ReleaseEffect DEF EngineInv
<1>3. AuthorityTypeOK' /\ CoreInv' /\ HistoryInv'
  BY <1>1, <1>2 DEF EngineInv, AuthorityTypeOK, CoreInv, HistoryInv, Indexed, historyVars,
                    authorityVars, coreVars
<1>4. HeldRecorded'
  BY <1>0, <1>1, <1>2 DEF EngineInv, HeldRecorded, Admission, IsAdmitting, historyVars
<1>5. handler' \in Handlers /\ CommitInv' /\ EnforceInv'
  BY <1>1 DEF Handlers, CommitInv, EnforceInv
<1> QED
  BY <1>2, <1>3, <1>4, <1>5 DEF EngineInv

-----------------------------------------------------------------------------
(* Revocation, revalidation and enforcement *)

LEMMA UpdateKeeps ==
    ASSUME EngineInv, NEW d, NEW state \in {"Fresh", "Invalidated", "Revoked"}, NEW live \in BOOLEAN,
           UpdateRecord(d, state, live)
    PROVE  /\ DOMAIN records' = DOMAIN records /\ records' \in [DOMAIN records' -> Records]
           /\ audit_index' = audit_index /\ Indexed(records, audit_index)'
           /\ \A e \in DOMAIN records : /\ records'[e].audit = records[e].audit
                                        /\ records'[e].outcome = records[e].outcome
                                        /\ e # d => records'[e] = records[e]
                                        /\ e = d => records'[e].state = state
<1>1. records \in [DOMAIN records -> Records] /\ Indexed(records, audit_index)
  BY DEF EngineInv, HistoryInv
<1>2. CASE d \notin DOMAIN records
  BY <1>1, <1>2 DEF UpdateRecord, Indexed
<1>3. CASE d \in DOMAIN records
  <2> DEFINE changed == [records[d] EXCEPT !.state = state, !.ledger_live = live]
  <2>1. records[d] \in Records
    BY <1>1, <1>3
  <2>2. /\ changed \in Records /\ changed.state = state
        /\ changed.audit = records[d].audit /\ changed.outcome = records[d].outcome
    BY <2>1 DEF Records
  <2>3. records' = [records EXCEPT ![d] = changed] /\ audit_index' = audit_index
    BY <1>1, <1>3, <2>1 DEF UpdateRecord, Records
  <2> HIDE DEF changed
  <2>4. /\ DOMAIN records' = DOMAIN records /\ records'[d] = changed
        /\ \A e \in DOMAIN records : e # d => records'[e] = records[e]
    BY <1>1, <1>3, <2>3
  <2>5. records' \in [DOMAIN records' -> Records]
    BY <1>1, <2>2, <2>3
  <2>6. \A e \in DOMAIN records : /\ records'[e].audit = records[e].audit
                                  /\ records'[e].outcome = records[e].outcome
    BY <2>2, <2>4
  <2>7. Indexed(records, audit_index)'
    BY <1>1, <2>3, <2>4, <2>6 DEF Indexed
  <2> QED
    BY <2>2, <2>3, <2>4, <2>5, <2>6, <2>7
<1> QED
  BY <1>2, <1>3

(* release_decision_locked(), however it ends. *)
LEMMA ReleaseDecisionKeeps ==
    ASSUME EngineInv, NEW d, handler.step # "committing",
           ReleaseDecision(d) \/ ReleaseDecisionFails(d),
           UNCHANGED <<authorityVars, coreVars>>
    PROVE  /\ LedgerInv' /\ HistoryInv'
           /\ Held' = Held \/ Held' = Held \ {d}
           /\ audit_index' = audit_index
           /\ \A e \in Held' : /\ Admission(e)'
                               /\ records'[e].audit = records[e].audit
                               /\ Fits(e) => Fits(e)'
           /\ ReleaseDecision(d) => Held' = Held \ {d}
<1>1. \A e \in Held : Admission(e) /\ e \in DOMAIN records
  BY DEF EngineInv, HeldRecorded, Admission
<1>2. /\ policy' = policy /\ capacity' = capacity /\ reservations' = reservations
      /\ audit' = audit /\ next_decision_sequence' = next_decision_sequence
  BY DEF authorityVars, coreVars
<1>3. ASSUME Release(d)
      PROVE  /\ LedgerInv' /\ Held' = Held \ {d}
             /\ \A e \in Held' : Fits(e) => Fits(e)'
  BY <1>2, <1>3, ReleaseKeepsLedger, ReleaseEffect, FitsAfterRelease DEF EngineInv
<1>4. ASSUME UNCHANGED ledgerVars
      PROVE  /\ LedgerInv' /\ Held' = Held
             /\ \A e \in Held' : Fits(e) => Fits(e)'
  <2>1. \A e : Fits(e)' = Fits(e)
    BY <1>2, <1>4, SameAuthority DEF ledgerVars, Fits, HeldOn, Admitted
  <2> QED
    BY <1>4, <2>1, UnchangedKeepsLedger DEF EngineInv, ledgerVars, Held
<1>5. CASE ReleaseDecision(d)
  <2>1. /\ Release(d) /\ UpdateRecord(d, "Revoked", FALSE) /\ cursor_audit' = 0
        /\ DOMAIN decision_cache' \subseteq DOMAIN decision_cache
    BY <1>5 DEF ReleaseDecision, NoteRelease, ForgetReply, Restrict
  <2>2. /\ DOMAIN records' = DOMAIN records /\ records' \in [DOMAIN records' -> Records]
        /\ audit_index' = audit_index /\ Indexed(records, audit_index)'
        /\ \A e \in DOMAIN records : /\ records'[e].audit = records[e].audit
                                     /\ e # d => records'[e] = records[e]
    BY <2>1, UpdateKeeps
  <2>3. /\ LedgerInv' /\ Held' = Held \ {d}
        /\ \A e \in Held' : Fits(e) => Fits(e)'
    BY <1>3, <2>1
  <2>4. HistoryInv'
    <3>1. audit \in Nat
      BY DEF EngineInv, CoreInv
    <3> QED
      BY <1>2, <2>1, <2>2, <2>3, <3>1 DEF EngineInv, HistoryInv
  <2>5. \A e \in Held' : Admission(e)' /\ records'[e].audit = records[e].audit
    BY <1>1, <2>2, <2>3 DEF Admission, IsAdmitting
  <2> QED
    BY <2>2, <2>3, <2>4, <2>5
<1>6. CASE ReleaseDecisionFails(d) /\ ~ReleaseDecision(d)
  <2>1. /\ Release(d) \/ UNCHANGED ledgerVars
        /\ UNCHANGED historyVars
    BY <1>6 DEF ReleaseDecisionFails
  <2>2. /\ LedgerInv' /\ Held' \subseteq Held
        /\ Held' = Held \/ Held' = Held \ {d}
        /\ \A e \in Held' : Fits(e) => Fits(e)'
    BY <1>3, <1>4, <2>1
  <2>3. HistoryInv'
    BY <1>2, <2>1, <2>2 DEF EngineInv, HistoryInv, historyVars, Indexed
  <2>4. \A e \in Held' : Admission(e)' /\ records'[e].audit = records[e].audit
    BY <1>1, <2>1, <2>2 DEF Admission, IsAdmitting, historyVars
  <2> QED
    BY <1>6, <2>1, <2>2, <2>3, <2>4 DEF historyVars
<1> QED
  BY <1>5, <1>6

LEMMA ReviewStep ==
    ASSUME EngineInv, NEW d \in Decisions,
           Revoke(d) \/ RevalidateReleases(d) \/ RevalidateUnheld(d) \/ RevalidateInvalidates(d)
    PROVE  EngineInv'
<1>1. /\ handler.step = "idle" /\ UNCHANGED <<handler, authorityVars, coreVars>>
  BY DEF Revoke, RevalidateReleases, RevalidateUnheld, RevalidateInvalidates, Idle
<1>2. AuthorityTypeOK' /\ CoreInv' /\ handler' \in Handlers /\ CommitInv' /\ EnforceInv'
  BY <1>1 DEF EngineInv, AuthorityTypeOK, CoreInv, authorityVars, coreVars, CommitInv, EnforceInv
<1>3. CASE Revoke(d) \/ RevalidateReleases(d)
  <2>1. ReleaseDecision(d) \/ ReleaseDecisionFails(d)
    BY <1>3 DEF Revoke, RevalidateReleases
  <2>2. LedgerInv' /\ HistoryInv' /\ \A e \in Held' : Admission(e)'
    BY <1>1, <2>1, ReleaseDecisionKeeps
  <2> QED
    BY <1>2, <2>2 DEF EngineInv, HeldRecorded
<1>4. CASE RevalidateUnheld(d) \/ RevalidateInvalidates(d)
  <2>1. /\ UNCHANGED ledgerVars /\ UNCHANGED <<cursor_audit, decision_cache>>
        /\ d \in DOMAIN records
        /\ \/ UpdateRecord(d, "Revoked", FALSE) /\ d \notin Held
           \/ UpdateRecord(d, "Invalidated", records[d].ledger_live)
           \/ UNCHANGED <<records, audit_index>>
    BY <1>4 DEF RevalidateUnheld, RevalidateInvalidates, Admission, Holds
  <2>2. LedgerInv' /\ Held' = Held
    BY <2>1, UnchangedKeepsLedger DEF EngineInv, ledgerVars, Held
  <2>3. records[d].ledger_live \in BOOLEAN
    BY <2>1 DEF EngineInv, HistoryInv, Records
  <2>4. /\ DOMAIN records' = DOMAIN records /\ records' \in [DOMAIN records' -> Records]
        /\ audit_index' = audit_index /\ Indexed(records, audit_index)'
        /\ \A e \in DOMAIN records : /\ records'[e].outcome = records[e].outcome
                                     /\ \/ records'[e].state = records[e].state
                                        \/ records'[e].state # "Revoked"
                                        \/ e \notin Held
    <3>1. CASE UpdateRecord(d, "Revoked", FALSE) /\ d \notin Held
      BY <3>1, UpdateKeeps
    <3>2. CASE UpdateRecord(d, "Invalidated", records[d].ledger_live)
      BY <2>3, <3>2, UpdateKeeps
    <3>3. CASE UNCHANGED <<records, audit_index>>
      BY <3>3 DEF EngineInv, HistoryInv, Indexed
    <3> QED
      BY <2>1, <3>1, <3>2, <3>3
  <2>5. HistoryInv'
    BY <1>1, <2>1, <2>2, <2>4 DEF EngineInv, HistoryInv, coreVars
  <2>6. HeldRecorded'
    BY <1>1, <2>2, <2>4 DEF EngineInv, HeldRecorded, Admission, IsAdmitting
  <2> QED
    BY <1>2, <2>2, <2>5, <2>6 DEF EngineInv
<1> QED
  BY <1>3, <1>4

(* The walk has come to audit sequence a: whatever is newer fits. *)
LEMMA NewerFits ==
    ASSUME EngineInv, handler.step = "enforcing", NEW a \in handler.todo, NextToRevoke(a)
    PROVE  /\ a \in Nat /\ audit_index[a] \in Held /\ records[audit_index[a]].audit = a
           /\ \A e \in Held : /\ records[e].audit \in Nat
                              /\ records[e].audit > a => Fits(e)
                              /\ records[e].audit = a => e = audit_index[a]
<1>1. /\ handler.todo \subseteq DOMAIN audit_index
      /\ \A e \in Held : records[e].audit \in handler.todo \/ Fits(e)
      /\ \A e \in Held : Admission(e)
  BY DEF EngineInv, EnforceInv, HeldRecorded
<1>2. DOMAIN audit_index \subseteq Nat /\ Indexed(records, audit_index)
  BY DEF EngineInv, HistoryInv, CoreInv
<1>3. \A e \in Held : /\ e \in DOMAIN records /\ IsAdmitting(records[e])
                      /\ records[e].audit \in Nat /\ audit_index[records[e].audit] = e
  BY <1>1, <1>2 DEF Admission, Indexed
<1>4. audit_index[a] \in Held
  BY DEF NextToRevoke, Passed, Holds
<1>5. ASSUME NEW e \in Held, records[e].audit > a
      PROVE  Fits(e)
  <2>1. CASE records[e].audit \in handler.todo
    <3>1. Passed(records[e].audit)
      BY <1>5, <2>1 DEF NextToRevoke
    <3> QED
      BY <1>3, <3>1 DEF Passed, Holds
  <2> QED
    BY <1>1, <2>1
<1> QED
  BY <1>1, <1>2, <1>3, <1>4, <1>5 DEF Indexed

LEMMA EnforceRevokeStep ==
    ASSUME EngineInv, EnforceRevoke
    PROVE  EngineInv'
<1>1. PICK a \in handler.todo :
         /\ NextToRevoke(a)
         /\ \/ /\ ReleaseDecision(audit_index[a])
               /\ handler' = [handler EXCEPT !.todo = {b \in @ : b < a}, !.revoked = TRUE]
            \/ ReleaseDecisionFails(audit_index[a]) /\ handler' = [step |-> "idle"]
  BY DEF EnforceRevoke, Finish
<1>2. handler.step = "enforcing" /\ UNCHANGED <<authorityVars, coreVars>>
  BY DEF EnforceRevoke
<1>3. PICK d : d = audit_index[a]
  OBVIOUS
<1>4. AuthorityTypeOK' /\ CoreInv'
  BY <1>2 DEF EngineInv, AuthorityTypeOK, CoreInv, authorityVars, coreVars
<1>5. /\ LedgerInv' /\ HistoryInv' /\ Held' \subseteq Held
      /\ audit_index' = audit_index
      /\ \A e \in Held' : /\ Admission(e)'
                          /\ records'[e].audit = records[e].audit
                          /\ Fits(e) => Fits(e)'
      /\ ReleaseDecision(d) => Held' = Held \ {d}
  BY <1>1, <1>2, <1>3, ReleaseDecisionKeeps
<1>6. HeldRecorded'
  BY <1>5 DEF HeldRecorded
<1>7. CASE handler' = [step |-> "idle"]
  <2>1. handler' \in Handlers /\ CommitInv' /\ EnforceInv'
    BY <1>7 DEF Handlers, CommitInv, EnforceInv
  <2> QED
    BY <1>4, <1>5, <1>6, <2>1 DEF EngineInv
<1>8. CASE /\ ReleaseDecision(d)
           /\ handler' = [handler EXCEPT !.todo = {b \in @ : b < a}, !.revoked = TRUE]
  <2>1. /\ handler \in [step : {"enforcing"}, todo : SUBSET Nat, revoked : BOOLEAN]
    BY <1>2 DEF EngineInv, Handlers
  <2>2. /\ handler' \in [step : {"enforcing"}, todo : SUBSET Nat, revoked : BOOLEAN]
        /\ handler'.todo = {b \in handler.todo : b < a}
    BY <1>8, <2>1
  <2>3. handler' \in Handlers /\ CommitInv'
    BY <2>2 DEF Handlers, CommitInv
  <2>4. ASSUME NEW e \in Held'
        PROVE  records'[e].audit \in handler'.todo \/ Fits(e)'
    <3>1. e \in Held /\ e # d
      BY <1>5, <1>8
    <3>2. CASE Fits(e)
      BY <1>5, <3>2
    <3>3. CASE ~Fits(e)
      <4>1. records[e].audit \in handler.todo
        BY <1>2, <3>1, <3>3 DEF EngineInv, EnforceInv
      <4>2. /\ a \in Nat /\ records[e].audit \in Nat
            /\ ~(records[e].audit > a) /\ records[e].audit # a
        BY <1>1, <1>2, <1>3, <3>1, <3>3, NewerFits
      <4>3. records[e].audit < a
        BY <4>2
      <4> QED
        BY <1>5, <2>2, <4>1, <4>3
    <3> QED
      BY <3>2, <3>3
  <2>5. EnforceInv'
    BY <1>2, <1>5, <2>2, <2>4 DEF EngineInv, EnforceInv
  <2> QED
    BY <1>4, <1>5, <1>6, <2>3, <2>5 DEF EngineInv
<1> QED
  BY <1>1, <1>3, <1>7, <1>8

(* When the walk ends, every live grant fits. *)
LEMMA PassedFits ==
    ASSUME EngineInv, handler.step = "enforcing", \A a \in handler.todo : Passed(a)
    PROVE  \A d \in Held : Fits(d)
<1> SUFFICES ASSUME NEW d \in Held, records[d].audit \in handler.todo
             PROVE  Fits(d)
  BY DEF EngineInv, EnforceInv
<1>1. Admission(d)
  BY DEF EngineInv, HeldRecorded
<1>2. audit_index[records[d].audit] = d
  BY <1>1 DEF EngineInv, HistoryInv, Indexed, Admission
<1> QED
  BY <1>1, <1>2 DEF Passed, Admission, Holds

LEMMA EnforceDoneStep ==
    ASSUME EngineInv, EnforceDone
    PROVE  EngineInv'
<1>1. /\ SetFlags(FALSE) /\ handler.step = "enforcing" /\ handler' = [step |-> "idle"]
      /\ UNCHANGED <<policy, capacity, reservations, paths, qos, priorities, epoch, incarnation>>
      /\ UNCHANGED <<historyVars, coreVars>>
      /\ pending_reconciliation' \in BOOLEAN
  BY DEF EnforceDone, ClearRevalidationFlags, Finish
<1>2. LedgerInv' /\ Held' = Held
  BY <1>1, FlagsKeepLedger DEF EngineInv
<1>3. AuthorityTypeOK' /\ CoreInv'
  BY <1>1 DEF EngineInv, AuthorityTypeOK, CoreInv, coreVars
<1>4. HistoryInv' /\ HeldRecorded'
  BY <1>1, <1>2 DEF EngineInv, HistoryInv, Indexed, HeldRecorded, Admission, IsAdmitting,
                    historyVars, coreVars
<1>5. handler' \in Handlers /\ CommitInv' /\ EnforceInv'
  BY <1>1 DEF Handlers, CommitInv, EnforceInv
<1> QED
  BY <1>2, <1>3, <1>4, <1>5 DEF EngineInv

-----------------------------------------------------------------------------
(* Publications and the rest *)

LEMMA EnforcedStep ==
    ASSUME EngineInv, Idle, BeginEnforcement, AuthorityTypeOK', UNCHANGED <<epoch, incarnation>>
    PROVE  EngineInv'
<1>1. /\ UNCHANGED <<ledgerVars, historyVars, coreVars, pending_reconciliation>>
      /\ \/ UNCHANGED handler
         \/ handler' = [step |-> "enforcing", todo |-> DOMAIN audit_index, revoked |-> FALSE]
  BY DEF BeginEnforcement
<1>2. CoreInv'
  BY <1>1 DEF EngineInv, CoreInv, coreVars
<1>3. CASE UNCHANGED handler
  BY <1>1, <1>2, <1>3, QuietStep
<1>4. CASE handler' = [step |-> "enforcing", todo |-> DOMAIN audit_index, revoked |-> FALSE]
  <2>1. LedgerInv' /\ Held' = Held
    BY <1>1, UnchangedKeepsLedger DEF EngineInv, ledgerVars, Held
  <2>2. HistoryInv'
    BY <1>1, <2>1 DEF EngineInv, HistoryInv, historyVars, coreVars, Indexed
  <2>3. \A d \in Held : Admission(d)
    BY DEF EngineInv, HeldRecorded, Idle
  <2>4. DOMAIN audit_index \subseteq Nat
    BY DEF EngineInv, HistoryInv, CoreInv
  <2>5. handler' \in Handlers /\ CommitInv'
    BY <1>4, <2>4 DEF Handlers, CommitInv
  <2>6. EnforceInv'
    <3>1. \A d \in Held : records[d].audit \in DOMAIN audit_index
      BY <2>3 DEF EngineInv, HistoryInv, Indexed, Admission
    <3> QED
      BY <1>1, <1>4, <2>1, <3>1 DEF EnforceInv, historyVars
  <2>7. HeldRecorded'
    BY <1>1, <2>1, <2>3 DEF HeldRecorded, Admission, IsAdmitting, historyVars
  <2> QED
    BY <1>2, <2>1, <2>2, <2>5, <2>6, <2>7 DEF EngineInv
<1> QED
  BY <1>1, <1>3, <1>4

LEMMA PublishStep ==
    ASSUME EngineInv, Publish
    PROVE  EngineInv'
<1>1. ASSUME NEW p \in Policies, PublishPolicy(p)
      PROVE  EngineInv'
  BY <1>1, EnforcedStep DEF PublishPolicy, AcceptPolicy, EngineInv, AuthorityTypeOK
<1>2. ASSUME NEW p \in Policies, PublishPolicyFails(p)
      PROVE  EngineInv'
  BY <1>2, QuietStep DEF PublishPolicyFails, EngineInv, AuthorityTypeOK, CoreInv, authorityVars,
                         coreVars
<1>3. ASSUME NEW c \in Capacities, PublishCapacity(c)
      PROVE  EngineInv'
  BY <1>3, EnforcedStep DEF PublishCapacity, AcceptCapacity, EngineInv, AuthorityTypeOK
<1>4. ASSUME NEW r \in Reservations, PublishReservations(r)
      PROVE  EngineInv'
  BY <1>4, EnforcedStep DEF PublishReservations, AcceptReservations, EngineInv, AuthorityTypeOK
<1>5. ASSUME Observe
      PROVE  EngineInv'
  <2>1. AuthorityTypeOK'
    BY <1>5 DEF Observe, InvalidateCapacity, InvalidatePaths, PublishPaths, PublishQos,
                PublishPriorities, AdvanceTick, EngineInv, AuthorityTypeOK
  <2>2. /\ UNCHANGED <<epoch, incarnation, pending_reconciliation, ledgerVars, historyVars,
                       coreVars, handler>>
        /\ Idle
    BY <1>5 DEF Observe, InvalidateCapacity, InvalidatePaths, PublishPaths, PublishQos,
                PublishPriorities, AdvanceTick
  <2>3. CoreInv'
    BY <2>2 DEF EngineInv, CoreInv, coreVars
  <2> QED
    BY <2>1, <2>2, <2>3, QuietStep
<1> QED
  BY <1>1, <1>2, <1>3, <1>4, <1>5 DEF Publish

LEMMA FencingStep ==
    ASSUME EngineInv, Fencing \/ CompactJournal
    PROVE  EngineInv'
<1>1. /\ Idle
      /\ UNCHANGED <<ledgerVars, historyVars, coreVars, handler, policy, capacity, reservations,
                     paths, qos, priorities, pending_reconciliation>>
      /\ \/ UNCHANGED <<epoch, incarnation>>
         \/ epoch' = epoch + 1 /\ incarnation' \in Incarnations
  BY DEF Fencing, CompactJournal, RegisterSession, RetireSession, BeginNewIncarnation, authorityVars
<1>2. AuthorityTypeOK'
  BY <1>1 DEF EngineInv, AuthorityTypeOK
<1>3. CoreInv'
  BY <1>1 DEF EngineInv, CoreInv, coreVars
<1> QED
  BY <1>1, <1>2, <1>3, QuietStep

LEMMA EngineStep == EngineInv /\ [EngineNext]_engineVars => EngineInv'
<1> SUFFICES ASSUME EngineInv, [EngineNext]_engineVars
             PROVE  EngineInv'
  OBVIOUS
<1>1. CASE Admit
  BY <1>1, RefusedStep, GrantedStep DEF Admit
<1>2. CASE Publish
  BY <1>2, PublishStep
<1>3. CASE Review
  BY <1>3, ReviewStep DEF Review
<1>4. CASE Proceed
  BY <1>4, CommitWrittenStep, CommitFailedStep, EnforceRevokeStep, EnforceDoneStep DEF Proceed
<1>5. CASE Fencing \/ CompactJournal
  BY <1>5, FencingStep
<1>6. CASE UNCHANGED engineVars
  <2>1. UNCHANGED <<ledgerVars, historyVars, authorityVars, coreVars, handler>>
    BY <1>6 DEF engineVars
  <2>2. AuthorityTypeOK' /\ CoreInv'
    BY <2>1 DEF EngineInv, AuthorityTypeOK, CoreInv, authorityVars, coreVars
  <2> QED
    BY <2>1, <2>2, QuietStep
<1> QED
  BY <1>1, <1>2, <1>3, <1>4, <1>5, <1>6 DEF EngineNext

LEMMA EngineInvariant == EngineSpec => []EngineInv
BY InitInv, EngineStep, PTL DEF EngineSpec

-----------------------------------------------------------------------------
(* The state of the engine is well formed, whatever is published and        *)
(* requested, and whichever journal writes fail.                            *)
THEOREM EngineTypeCorrect == EngineSpec => []EngineTypeOK
<1>1. EngineInv => EngineTypeOK
  <2> SUFFICES ASSUME EngineInv PROVE EngineTypeOK
    OBVIOUS
  <2>1. DOMAIN audit_index \subseteq Nat /\ cursor_audit \in Nat
    BY DEF EngineInv, HistoryInv, CoreInv
  <2> QED
    BY <2>1 DEF EngineInv, EngineTypeOK, LedgerInv, AuthorityTypeOK, HistoryInv, CoreInv
<1> QED
  BY <1>1, EngineInvariant, PTL

(* Every decision that holds load has a live admitting record, or is being   *)
(* recorded, whichever journal writes fail: no load escapes the walk of      *)
(* enforce_accounting_locked() or the compaction.                            *)
THEOREM EngineHeldRecorded == EngineSpec => []HeldRecorded
<1>1. EngineInv => HeldRecorded
  BY DEF EngineInv
<1> QED
  BY <1>1, EngineInvariant, PTL

(* The audit index and the records stay inverse to each other under insert(),*)
(* trim() and update().                                                      *)
THEOREM EngineIndexExact == EngineSpec => []IndexExact
<1>1. EngineInv => IndexExact
  BY DEF EngineInv, HistoryInv, Indexed, IndexExact
<1> QED
  BY <1>1, EngineInvariant, PTL

(* The totals that admission and enforcement read are the sums of what the   *)
(* live decisions hold, through every operation of the engine.               *)
THEOREM EngineTotalsExact == EngineSpec => []TotalsExact
<1>1. EngineInv => TotalsExact
  BY DEF EngineInv, LedgerInv
<1> QED
  BY <1>1, EngineInvariant, PTL

(* Enforcement revokes newest first: when it revokes a decision, every newer *)
(* live admission fits.                                                      *)
THEOREM EngineNewestFirst == EngineSpec => NewestFirst
<1> DEFINE Revoked == handler.step = "enforcing" =>
                         \A d \in Held \ Held' : \A e \in Held \cap DOMAIN records :
                            records[e].audit > records[d].audit => Fits(e)
<1>1. EngineInv /\ [EngineNext]_engineVars => [Revoked]_engineVars
  <2> SUFFICES ASSUME EngineInv, EngineNext, handler.step = "enforcing",
                      NEW d \in Held \ Held', NEW e \in Held, records[e].audit > records[d].audit
               PROVE  Fits(e)
    OBVIOUS
  <2>1. EnforceRevoke \/ EnforceDone
    BY DEF EngineNext, Admit, AdmitRefused, AdmitGranted, Publish, PublishPolicy,
           PublishPolicyFails, PublishCapacity, PublishReservations, Observe, Review, Revoke,
           RevalidateReleases, RevalidateUnheld, RevalidateInvalidates, Proceed, CommitWritten,
           CommitFailed, Fencing, RegisterSession, RetireSession, BeginNewIncarnation,
           CompactJournal, Idle
  <2>2. CASE EnforceDone
    <3>1. Held' = Held
      BY <2>2, FlagsKeepLedger DEF EnforceDone, ClearRevalidationFlags, EngineInv
    <3> QED
      BY <3>1
  <2>3. CASE EnforceRevoke
    <3>1. PICK a \in handler.todo :
             /\ NextToRevoke(a)
             /\ ReleaseDecision(audit_index[a]) \/ ReleaseDecisionFails(audit_index[a])
      BY <2>3 DEF EnforceRevoke
    <3>2. Held' = Held \/ Held' = Held \ {audit_index[a]}
      BY <2>3, <3>1, ReleaseDecisionKeeps DEF EnforceRevoke
    <3>3. d = audit_index[a]
      BY <3>2
    <3> QED
      BY <3>1, <3>3, NewerFits
  <2> QED
    BY <2>1, <2>2, <2>3
<1> QED
  BY <1>1, EngineInvariant, PTL DEF EngineSpec, NewestFirst
=============================================================================
