------------------------------ MODULE History -------------------------------
(***************************************************************************)
(* What the engine remembers of its decisions (src/engine/history.cpp and  *)
(* the decision cache of src/engine/engine.cpp):                           *)
(*                                                                         *)
(*   DecisionHistory   a bounded map of decision records, an index of it   *)
(*                     by audit sequence, and the cursor at which the      *)
(*                     retirement scan resumes;                            *)
(*   AttemptRegistry   which decision answered which (demand, attempt);    *)
(*   decision_cache    the replies that a replay returns unchanged.        *)
(*                                                                         *)
(* A request is named by its fingerprint, so that the requests are a       *)
(* function from fingerprints to contents: two requests have the same      *)
(* fingerprint exactly when they have the same content.                    *)
(***************************************************************************)
EXTENDS Ledger, Functions

CONSTANTS
    Requests,            \* fingerprint -> AdmissionRequest
    HistoryCapacity,     \* EngineConfig::history_capacity
    AttemptCapacity,     \* EngineConfig::attempt_capacity
    MaxDecisionRecords   \* limits::max_decision_records, the cache's bound

ASSUME HistoryAssumption ==
    /\ HistoryCapacity \in Nat
    /\ AttemptCapacity \in Nat \ {0}
    /\ MaxDecisionRecords \in Nat \ {0}

VARIABLES
    records,                \* records_: decision -> DecisionRecord
    audit_index,            \* audit_index_: audit sequence -> decision
    cursor_audit,           \* cursor_audit_
    attempts,               \* attempts_: <<demand, attempt>> -> answer
    request_fingerprints,   \* request_fingerprints_: request -> fingerprint
    decision_cache          \* decision -> reply

historyVars == <<records, audit_index, cursor_audit, attempts, request_fingerprints,
                 decision_cache>>

Fingerprints == DOMAIN Requests

AdmittingOutcomes == {"ADMIT", "ADMIT_DEGRADED"}

Outcomes == AdmittingOutcomes \cup
    {"DEFER", "REJECT_CAPACITY", "REJECT_POLICY", "REJECT_OBLIGATION", "REJECT_PATH",
     "REJECT_QoS", "STALE_INPUT", "CONFLICTING_INPUT", "FENCED_CLAIMANT"}

IsAdmitting(record) == record.outcome \in AdmittingOutcomes

HistoryInit ==
    /\ records = << >>
    /\ audit_index = << >>
    /\ cursor_audit = 0
    /\ attempts = << >>
    /\ request_fingerprints = << >>
    /\ decision_cache = << >>

-----------------------------------------------------------------------------
(* DecisionHistory *)

\* records_ and audit_index_ after insert() into all / index: a record that is already there is
\* replaced, and its old audit entry is erased.
RecordsWith(all, d, record) ==
    [e \in DOMAIN all \cup {d} |-> IF e = d THEN record ELSE all[e]]

IndexWith(all, index, d, record) ==
    LET erased == IF d \in DOMAIN all THEN {all[d].audit} ELSE {}
    IN  [a \in (DOMAIN index \ erased) \cup {record.audit} |->
            IF a = record.audit THEN d ELSE index[a]]

\* Faulty: records of live grants are not protected.
LooseUnprotected(index, held) == {a \in DOMAIN index : a >= cursor_audit}

\* The audit entries, from the cursor on, whose records may be retired.
Loose(index, held) == {a \in DOMAIN index : a >= cursor_audit /\ index[a] \notin held}

\* trim() on a history with more records than its capacity: scan the index
\* upwards from the cursor and erase what holds no load, until the records fit.
Trim(all, index, held) ==
    LET excess == Cardinality(DOMAIN all) - HistoryCapacity
        loose  == Loose(index, held)
    IN  \E victims \in SUBSET loose :
           LET kept   == DOMAIN index \ victims
               beyond == {a \in kept : \A v \in victims : a > v}
           IN  /\ Cardinality(victims) = Min({excess, Cardinality(loose)})
               /\ \A v \in victims, a \in loose \ victims : v < a
               /\ records' = Restrict(all, DOMAIN all \ {index[v] : v \in victims})
               /\ audit_index' = Restrict(index, kept)
               /\ cursor_audit' = IF Cardinality(victims) = excess /\ beyond # {}
                                  THEN Min(beyond)
                                  ELSE IF kept = {} THEN 0 ELSE Max(kept) + 1

\* EngineCore::trim_history() on a history that has just become all / index.
TrimHistory(all, index, held) ==
    \/ /\ Cardinality(DOMAIN all) <= HistoryCapacity
       /\ records' = all
       /\ audit_index' = index
       /\ UNCHANGED cursor_audit
    \/ /\ Cardinality(DOMAIN all) > HistoryCapacity
       /\ Trim(all, index, held)

InsertAndTrim(d, record) ==
    TrimHistory(RecordsWith(records, d, record), IndexWith(records, audit_index, d, record), Held)

\* The find() and update() by which a revocation marks a record; update()
\* leaves the audit sequence, and so the index, alone.
UpdateRecord(d, state, live) ==
    /\ records' = IF d \in DOMAIN records
                  THEN [records EXCEPT ![d].state = state, ![d].ledger_live = live]
                  ELSE records
    /\ UNCHANGED audit_index

\* Faulty: the cursor stays where it is.
NoteNothing == UNCHANGED cursor_audit

NoteRelease == cursor_audit' = 0

-----------------------------------------------------------------------------
(* AttemptRegistry *)

AttemptKey(q) == <<Requests[q].demand, Requests[q].attempt>>

\* The order of std::pair, by which std::map keeps the attempts.
KeyBefore(j, k) == j[1] < k[1] \/ (j[1] = k[1] /\ j[2] <= k[2])

\* Faulty: other content for a known attempt counts as new.
ClassifyByContent(q) ==
    LET key == AttemptKey(q)
    IN  IF key \in DOMAIN attempts /\ attempts[key].fingerprint = q THEN "Replay" ELSE "New"

Classify(q) ==
    LET key == AttemptKey(q)
        id  == Requests[q].request
    IN  IF key \in DOMAIN attempts
        THEN IF attempts[key].fingerprint = q THEN "Replay" ELSE "Conflict"
        ELSE IF id \in DOMAIN request_fingerprints /\ request_fingerprints[id] # q
             THEN "Conflict"
             ELSE "New"

\* attempts_ and request_fingerprints_ after record(): a new key evicts the
\* first key of the full map; a request identity keeps its first fingerprint.
AttemptsWith(known, q, d) ==
    LET key  == AttemptKey(q)
        full == key \notin DOMAIN known /\ Cardinality(DOMAIN known) >= AttemptCapacity
        kept == IF full THEN {k \in DOMAIN known : \E j \in DOMAIN known : ~KeyBefore(k, j)}
                        ELSE DOMAIN known
    IN  [k \in kept \cup {key} |->
            IF k = key THEN [fingerprint |-> q, decision |-> d] ELSE known[k]]

FingerprintsWith(known, q) ==
    LET id == Requests[q].request
    IN  [i \in DOMAIN known \cup {id} |-> IF i \in DOMAIN known THEN known[i] ELSE q]

RecordAttempt(q, d) ==
    /\ attempts' = AttemptsWith(attempts, q, d)
    /\ request_fingerprints' = FingerprintsWith(request_fingerprints, q)

-----------------------------------------------------------------------------
(* decision_cache *)

Reply(record) == [outcome |-> record.outcome, granted |-> record.granted, path |-> record.path]

\* remember(): the full cache evicts its smallest decision first.
Remember(d, record) ==
    LET cached == DOMAIN decision_cache
        kept   == IF Cardinality(cached) >= MaxDecisionRecords
                  THEN {e \in cached : \E f \in cached : f < e}
                  ELSE cached
    IN  decision_cache' = [e \in kept \cup {d} |->
                             IF e = d THEN Reply(record) ELSE decision_cache[e]]

\* Faulty: the cached reply outlives the grant.
KeepReply(d) == UNCHANGED decision_cache

ForgetReply(d) == decision_cache' = Restrict(decision_cache, DOMAIN decision_cache \ {d})

\* What a replay of q is answered from.  It is answered from neither when both
\* the cached reply and the record have been retired.
CanReplay(q) ==
    attempts[AttemptKey(q)].decision \in DOMAIN decision_cache \cup DOMAIN records

-----------------------------------------------------------------------------
(* Correctness *)

\* records_ and audit_index_ are inverse to each other: insert(), trim() and
\* update() never leave a record that the audit order does not reach, or an
\* audit entry of another record.  in_audit_order(), on which enforcement and
\* compaction run, then enumerates every record once.
IndexExact ==
    /\ \A a \in DOMAIN audit_index : audit_index[a] \in DOMAIN records
                                  /\ records[audit_index[a]].audit = a
    /\ \A d \in DOMAIN records : records[d].audit \in DOMAIN audit_index
                              /\ audit_index[records[d].audit] = d

\* "A new record always has a higher audit than the cursor and is still
\* reached. A later release resets the cursor to the front" (history.cpp): the
\* retirement cursor never passes a record that could be retired.
CursorSound == \A d \in DOMAIN records : records[d].audit < cursor_audit => Holds(d)
=============================================================================
