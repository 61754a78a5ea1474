------------------------------- MODULE Engine -------------------------------
(***************************************************************************)
(* The operations of the admission engine (src/engine/engine.cpp and       *)
(* admission.cpp).  One mutex serialises them, so an operation that        *)
(* changes its state once is one action.  Two are longer and show their    *)
(* intermediate states, where a restart or a failed write can cut them:    *)
(*                                                                         *)
(*   committing   an admission has reserved its load and written its       *)
(*                intent, and not yet its commit;                          *)
(*   enforcing    a publication walks the owned admissions newest first    *)
(*                and revokes what no longer fits.                         *)
(*                                                                         *)
(* With Durable, every operation appends its frames to the journal.  An    *)
(* append can fail; the operation then returns where the code returns.     *)
(* Operations that change nothing (a replay, a refused publication, a      *)
(* revalidation that finds the grant valid) are stuttering steps.          *)
(*                                                                         *)
(* Left out: the explanation and authority vector of a reply, revocation   *)
(* reasons, demand generations, counters and reports.                      *)
(***************************************************************************)
EXTENDS Evaluation

CONSTANTS
    Durable,           \* whether a journal is attached
    MayFail,           \* kinds of frame whose append may fail, "Compact", "Enforce"
    MayLinger,         \* those whose frame may be in the file all the same
    CompactAt,         \* JournalOptions::compact_at_records
    SessionCapacity,   \* EngineConfig::session_capacity
    ConfigEpoch,       \* EngineConfig::epoch
    Incarnations,      \* coordinator incarnations
    Claimants,         \* publishers, each with its boot
    InProcessClaims,   \* claims of in-process callers
    MaxFrames,         \* bound on the journal at the start of an operation
    MaxEpoch,          \* bound on the epoch
    MaxNonce           \* bound on the session nonces of one epoch

ASSUME EngineAssumption ==
    /\ Durable \in BOOLEAN
    /\ CompactAt \in Nat /\ SessionCapacity \in Nat /\ ConfigEpoch \in Nat
    /\ MaxFrames \in Nat /\ MaxEpoch \in Nat /\ MaxNonce \in Nat
    /\ Incarnations # {}

VARIABLES
    next_decision_sequence,
    audit,                    \* the audit sequence of the next decision
    handler,                  \* the operation that holds the mutex
    journal,                  \* the frames on disk
    issued                    \* session grants the claimants have been given

coreVars == <<next_decision_sequence, audit>>

engineVars == <<ledgerVars, historyVars, authorityVars, sessionVars, coreVars, handler,
                journal, issued>>

-----------------------------------------------------------------------------
(* Journal frames and their writers *)

BootFrame(e) == [kind |-> "Boot", epoch |-> e]
PolicyFrame(p) == [kind |-> "Policy", policy |-> p]
PrepareFrame(d, q, path, amounts) ==
    [kind |-> "Prepare", decision |-> d, request |-> q, path |-> path, amounts |-> amounts]
CommitFrame(d, record) == [kind |-> "Commit", decision |-> d, record |-> record]
RefusedFrame(d, record) == [kind |-> "Refused", decision |-> d, record |-> record]
ReleaseFrame(d) == [kind |-> "Release", decision |-> d]
RevocationFrame(d, state) ==
    [kind |-> "Revocation", decision |-> d, state |-> state, audit |-> audit]
MarkFrame == [kind |-> "Mark", audit |-> audit]

\* write_record(), for each frame in turn.
Wrote(frames) == journal' = IF Durable THEN journal \o frames ELSE journal

CanFail(kind) == Durable /\ kind \in MayFail

\* write_record() returning an error behind the frames that were written: the
\* frame was not written, or it was and could not be synced.
FailedBehind(frames, frame) ==
    /\ CanFail(frame.kind)
    /\ \/ journal' = journal \o frames
       \/ frame.kind \in MayLinger /\ journal' = journal \o frames \o <<frame>>

Failed(frame) == FailedBehind(<< >>, frame)

\* Faulty: a live admission is kept without its intent.
KeptWithoutIntent(d, record) ==
    IF IsAdmitting(record) /\ Holds(d)
    THEN <<CommitFrame(d, record)>>
    ELSE <<RefusedFrame(d, record)>>

\* A live admission keeps its intent and commit; every other record is kept as
\* if it were a refusal.
KeptFrames(d, record) ==
    IF IsAdmitting(record) /\ Holds(d)
    THEN <<PrepareFrame(d, record.request, record.path, by_decision[d].amounts),
           CommitFrame(d, record)>>
    ELSE <<RefusedFrame(d, record)>>

\* compact_locked(): what must survive a restart, in audit order.
Compacted(all, index) ==
    <<BootFrame(epoch)>>
    \o (IF policy = None THEN << >> ELSE <<PolicyFrame(policy)>>)
    \o MapThenFoldSet(\o, << >>, LAMBDA a : KeptFrames(index[a], all[index[a]]), Min, DOMAIN index)
    \o <<MarkFrame>>

-----------------------------------------------------------------------------
Idle == handler.step = "idle"

Finish == handler' = [step |-> "idle"]

\* Bounds on the model, checked where an operation begins.
Room == Len(journal) < MaxFrames

DecisionLeft == next_decision_sequence \in Decisions

\* A coordinator that has been constructed.
Constructed ==
    /\ LedgerInit /\ HistoryInit /\ AuthorityInit
    /\ epoch = ConfigEpoch
    /\ incarnation \in Incarnations
    /\ sessions = << >> /\ next_session_nonce = 1
    /\ next_decision_sequence = 1 /\ audit = 0

EngineInit ==
    /\ Constructed
    /\ handler = [step |-> "idle"]
    /\ journal = << >>
    /\ issued = {}

-----------------------------------------------------------------------------
(* Admission *)

Generation(publication) == IF publication = None THEN 0 ELSE publication.generation

\* The generations a grant is bound to.
Bindings == [capacity |-> Generation(capacity), policy |-> Generation(policy),
             qos |-> Generation(qos), priorities |-> Generation(priorities),
             paths |-> Generation(paths), reservations |-> Generation(reservations)]

\* begin_decision() and to_record().  The bindings of a record are read only
\* when a grant is revalidated, so a refusal's are left out.
GrantRecord(q, outcome, granted, path) ==
    [audit |-> audit, request |-> q, outcome |-> outcome, granted |-> granted, path |-> path,
     epoch |-> epoch, incarnation |-> incarnation, bound |-> Bindings,
     state |-> "Fresh", ledger_live |-> TRUE]

RefusalRecord(q, outcome) ==
    [audit |-> audit, request |-> q, outcome |-> outcome, granted |-> 0, path |-> NoPath,
     epoch |-> epoch, incarnation |-> incarnation, bound |-> None,
     state |-> "Fresh", ledger_live |-> FALSE]

\* Faulty: the audit sequence is not consumed.
ConsumeDecisionOnly ==
    /\ next_decision_sequence' = next_decision_sequence + 1
    /\ UNCHANGED audit

ConsumeIdentity ==
    /\ next_decision_sequence' = next_decision_sequence + 1
    /\ audit' = audit + 1

\* admit() with a verdict that admits nothing: refusal() and finish_refusal().
AdmitRefused(q, claim) ==
    LET ruling == Ruling(q, claim)
        d      == next_decision_sequence
        record == RefusalRecord(q, ruling.outcome)
    IN  /\ Idle /\ Room /\ DecisionLeft
        /\ ruling.outcome \notin AdmittingOutcomes \cup {"REPLAY"}
        /\ ConsumeIdentity
        /\ \/ /\ Wrote(<<RefusedFrame(d, record)>>)
              /\ InsertAndTrim(d, record)
              /\ IF ruling.recorded THEN RecordAttempt(q, d)
                 ELSE UNCHANGED <<attempts, request_fingerprints>>
              /\ Remember(d, record)
           \/ /\ Failed(RefusedFrame(d, record))
              /\ UNCHANGED historyVars
        /\ UNCHANGED <<ledgerVars, authorityVars, sessionVars, handler, issued>>

\* admit() with an admitting verdict, up to the reservation: the intent is
\* written first, then the load is booked.
AdmitGranted(q, claim) ==
    LET req     == Requests[q]
        outcome == Ruling(q, claim).outcome
        d       == next_decision_sequence
        path    == SelectPath(req).path
        amounts == [r \in Targets(req) |-> Grant(req)]
        record  == GrantRecord(q, outcome, Grant(req), path)
    IN  /\ Idle /\ Room /\ DecisionLeft
        /\ outcome \in AdmittingOutcomes
        /\ ConsumeIdentity
        /\ \/ /\ Wrote(<<PrepareFrame(d, q, path, amounts)>>)
              /\ Reserve(d, path, amounts)
              /\ handler' = [step |-> "committing", decision |-> d, record |-> record]
           \/ /\ Wrote(<<PrepareFrame(d, q, path, amounts)>>)
              /\ \/ ~CanReserve(d, amounts) /\ UNCHANGED ledgerVars
                 \/ ReserveRolledBack(d, path, amounts)
              /\ UNCHANGED handler
           \/ /\ Failed(PrepareFrame(d, q, path, amounts))
              /\ UNCHANGED <<ledgerVars, handler>>
        /\ UNCHANGED <<historyVars, authorityVars, sessionVars, issued>>

\* What frame_count() may be: a frame whose sync failed is in the file, and is
\* not counted before the journal is opened again.
FrameCounts(frames) ==
    Len(frames) - Cardinality({i \in DOMAIN frames : frames[i].kind \in MayLinger}) .. Len(frames)

\* The rest of finish_admission(), the compaction it may trigger included.
CommitWritten ==
    LET d       == handler.decision
        record  == handler.record
        written == Append(journal, CommitFrame(d, record))
    IN  /\ handler.step = "committing"
        /\ InsertAndTrim(d, record)
        /\ RecordAttempt(record.request, d)
        /\ Remember(d, record)
        /\ \E frame_count \in FrameCounts(written) :
              \/ journal' = IF ~Durable THEN journal
                            ELSE IF frame_count < CompactAt THEN written
                            ELSE Compacted(records', audit_index')
              \/ /\ CanFail("Compact") /\ frame_count >= CompactAt
                 /\ journal' = written
        /\ Finish
        /\ UNCHANGED <<ledgerVars, authorityVars, sessionVars, coreVars, issued>>

\* Faulty: the reservation is not undone.
CommitFailedKept ==
    /\ handler.step = "committing"
    /\ Failed(CommitFrame(handler.decision, handler.record))
    /\ Finish
    /\ UNCHANGED <<ledgerVars, historyVars, authorityVars, sessionVars, coreVars, issued>>

\* The commit cannot be written: "undo the in-memory reservation so the account
\* matches what a restart would reconstruct".
CommitFailed ==
    /\ handler.step = "committing"
    /\ Failed(CommitFrame(handler.decision, handler.record))
    /\ IF Underflows(handler.decision) THEN UNCHANGED ledgerVars ELSE Release(handler.decision)
    /\ Finish
    /\ UNCHANGED <<historyVars, authorityVars, sessionVars, coreVars, issued>>

-----------------------------------------------------------------------------
(* Revocation and revalidation.  Neither looks at the claim. *)

\* release_decision_locked() returning ok.
ReleaseDecision(d) ==
    /\ Wrote(<<ReleaseFrame(d), RevocationFrame(d, "Revoked")>>)
    /\ Release(d)
    /\ UpdateRecord(d, "Revoked", FALSE)
    /\ NoteRelease
    /\ ForgetReply(d)
    /\ UNCHANGED <<attempts, request_fingerprints>>

\* release_decision_locked() returning an error: the release is not written,
\* the ledger refuses it, or the revocation is not written.
ReleaseDecisionFails(d) ==
    /\ \/ Failed(ReleaseFrame(d)) /\ UNCHANGED ledgerVars
       \/ Underflows(d) /\ Wrote(<<ReleaseFrame(d)>>) /\ UNCHANGED ledgerVars
       \/ FailedBehind(<<ReleaseFrame(d)>>, RevocationFrame(d, "Revoked")) /\ Release(d)
    /\ UNCHANGED historyVars

Admission(d) == d \in DOMAIN records /\ IsAdmitting(records[d]) /\ records[d].state # "Revoked"

Revoke(d) ==
    /\ Idle /\ Room
    /\ Admission(d) /\ Holds(d)
    /\ ReleaseDecision(d) \/ ReleaseDecisionFails(d)
    /\ UNCHANGED <<authorityVars, sessionVars, coreVars, handler, issued>>

\* The tests of revalidate_locked() that end in a release, in its order.
Unjustified(d) ==
    LET path == records[d].path
    IN  \/ records[d].epoch # epoch \/ records[d].incarnation # incarnation
        \/ /\ ~by_decision[d].requires_revalidation
           /\ \/ capacity = None \/ reservations = None \/ policy = None
              \/ path # NoPath /\ ~(Published(path) /\ paths.paths[path].state = "Up")
              \/ ~Fits(d)

Outdated(d) ==
    LET bound == records[d].bound
    IN  \/ bound.capacity # capacity.generation \/ bound.policy # policy.generation
        \/ qos # None /\ bound.qos # qos.generation
        \/ priorities # None /\ bound.priorities # priorities.generation
        \/ bound.reservations # reservations.generation
        \/ paths # None /\ bound.paths # paths.generation

RevalidateReleases(d) ==
    /\ Idle /\ Room
    /\ Admission(d) /\ Holds(d) /\ Unjustified(d)
    /\ ReleaseDecision(d) \/ ReleaseDecisionFails(d)
    /\ UNCHANGED <<authorityVars, sessionVars, coreVars, handler, issued>>

\* The record of a decision that holds no load is marked; nothing is journalled.
RevalidateUnheld(d) ==
    /\ Idle
    /\ Admission(d) /\ ~Holds(d)
    /\ UpdateRecord(d, "Revoked", FALSE)
    /\ UNCHANGED <<cursor_audit, attempts, request_fingerprints, decision_cache>>
    /\ UNCHANGED <<ledgerVars, authorityVars, sessionVars, coreVars, handler, journal, issued>>

\* The grant still fits, but authority has moved past it.
RevalidateInvalidates(d) ==
    /\ Idle /\ Room
    /\ Admission(d) /\ Holds(d) /\ ~Unjustified(d)
    /\ ~by_decision[d].requires_revalidation /\ Outdated(d)
    /\ \/ /\ Wrote(<<RevocationFrame(d, "Invalidated")>>)
          /\ UpdateRecord(d, "Invalidated", records[d].ledger_live)
       \/ /\ Failed(RevocationFrame(d, "Invalidated"))
          /\ UNCHANGED <<records, audit_index>>
    /\ UNCHANGED <<cursor_audit, attempts, request_fingerprints, decision_cache>>
    /\ UNCHANGED <<ledgerVars, authorityVars, sessionVars, coreVars, handler, issued>>

-----------------------------------------------------------------------------
(* Publications and enforcement *)

\* A publication of policy, capacity or obligations ends in
\* enforce_accounting_locked(); without capacity it proves nothing and revokes
\* nothing.
BeginEnforcement ==
    /\ \/ handler' = IF capacity' = None THEN handler
                     ELSE [step |-> "enforcing", todo |-> DOMAIN audit_index, revoked |-> FALSE]
       \/ "Enforce" \in MayFail /\ UNCHANGED handler
    /\ UNCHANGED <<ledgerVars, historyVars, sessionVars, coreVars, issued, pending_reconciliation>>

PublishPolicy(p) ==
    /\ Idle /\ Room
    /\ AcceptPolicy(p)
    /\ Wrote(<<PolicyFrame(p)>>)
    /\ BeginEnforcement

\* The policy cannot be journalled: publish_policy() returns before it takes
\* effect.
PublishPolicyFails(p) ==
    /\ Idle /\ Room
    /\ PolicyAcceptable(p)
    /\ Failed(PolicyFrame(p))
    /\ UNCHANGED <<ledgerVars, historyVars, authorityVars, sessionVars, coreVars, handler, issued>>

PublishCapacity(c) ==
    /\ Idle
    /\ AcceptCapacity(c)
    /\ UNCHANGED journal
    /\ BeginEnforcement

\* Faulty: obligations take effect without enforcement.
PublishReservationsOnly(s) ==
    /\ Idle
    /\ AcceptReservations(s)
    /\ UNCHANGED <<ledgerVars, historyVars, sessionVars, coreVars, handler, journal, issued,
                   pending_reconciliation>>

PublishReservations(s) ==
    /\ Idle
    /\ AcceptReservations(s)
    /\ UNCHANGED journal
    /\ BeginEnforcement

\* The walk leaves the record with audit sequence a alone.
Passed(a) ==
    LET d == audit_index[a]
    IN  IsAdmitting(records[d]) /\ Holds(d) => Fits(d)

\* Faulty: oldest first.
OldestToRevoke(a) == ~Passed(a) /\ \A b \in handler.todo : b < a => Passed(b)

\* The next record, in descending audit order, that no longer fits.
NextToRevoke(a) == ~Passed(a) /\ \A b \in handler.todo : b > a => Passed(b)

EnforceRevoke ==
    /\ handler.step = "enforcing"
    /\ \E a \in handler.todo :
          /\ NextToRevoke(a)
          /\ \/ /\ ReleaseDecision(audit_index[a])
                /\ handler' = [handler EXCEPT !.todo = {b \in @ : b < a}, !.revoked = TRUE]
             \/ ReleaseDecisionFails(audit_index[a]) /\ Finish
    /\ UNCHANGED <<authorityVars, sessionVars, coreVars, issued>>

\* Nothing is left to revoke.
EnforceDone ==
    /\ handler.step = "enforcing"
    /\ \A a \in handler.todo : Passed(a)
    /\ ClearRevalidationFlags
    /\ pending_reconciliation' = FALSE
    /\ \/ IF handler.revoked THEN Wrote(<<MarkFrame>>) ELSE UNCHANGED journal
       \/ handler.revoked /\ Failed(MarkFrame)
    /\ Finish
    /\ UNCHANGED <<policy, capacity, reservations, paths, qos, priorities, tick, epoch, incarnation>>
    /\ UNCHANGED <<historyVars, sessionVars, coreVars, issued>>

\* Publications that revoke nothing, and the clock.
Observe ==
    /\ Idle
    /\ \/ InvalidateCapacity
       \/ InvalidatePaths
       \/ \E c \in PathCatalogs : PublishPaths(c)
       \/ \E c \in QosCatalogs : PublishQos(c)
       \/ \E c \in PriorityCatalogs : PublishPriorities(c)
       \/ AdvanceTick
    /\ UNCHANGED <<ledgerVars, historyVars, sessionVars, coreVars, handler, journal, issued>>

-----------------------------------------------------------------------------
(* Sessions and incarnations *)

RegisterSession(c) ==
    LET grant == [origin |-> "Ipc", session |-> next_session_nonce, claimant |-> c,
                  epoch |-> epoch, incarnation |-> incarnation]
    IN  /\ Idle
        /\ epoch # 0
        /\ next_session_nonce <= MaxNonce
        /\ Cardinality(DOMAIN sessions) < SessionCapacity
        /\ sessions' = [n \in DOMAIN sessions \cup {next_session_nonce} |->
                           IF n = next_session_nonce THEN c ELSE sessions[n]]
        /\ next_session_nonce' = next_session_nonce + 1
        /\ issued' = issued \cup {grant}
        /\ UNCHANGED <<ledgerVars, historyVars, authorityVars, coreVars, handler, journal>>

RetireSession(n) ==
    /\ Idle
    /\ n \in DOMAIN sessions
    /\ sessions' = Restrict(sessions, DOMAIN sessions \ {n})
    /\ UNCHANGED next_session_nonce
    /\ UNCHANGED <<ledgerVars, historyVars, authorityVars, coreVars, handler, journal, issued>>

\* Faulty: sessions outlive the incarnation.
KeepSessions == UNCHANGED sessionVars

DropSessions == sessions' = << >> /\ next_session_nonce' = 1

\* The boot record is written last: when that fails, the new epoch is in force
\* in memory only.
BeginNewIncarnation(i) ==
    /\ Idle /\ Room
    /\ epoch < MaxEpoch
    /\ epoch' = epoch + 1
    /\ incarnation' = i
    /\ DropSessions
    /\ Wrote(<<BootFrame(epoch + 1)>>) \/ Failed(BootFrame(epoch + 1))
    /\ UNCHANGED <<policy, capacity, reservations, paths, qos, priorities, tick,
                   pending_reconciliation>>
    /\ UNCHANGED <<ledgerVars, historyVars, coreVars, handler, issued>>

\* compact_journal(), called by the operator.
CompactJournal ==
    /\ Idle /\ Durable
    /\ journal' = Compacted(records, audit_index)
    /\ UNCHANGED <<ledgerVars, historyVars, authorityVars, sessionVars, coreVars, handler, issued>>

-----------------------------------------------------------------------------
Admit == \E q \in Fingerprints, claim \in InProcessClaims \cup issued :
            AdmitRefused(q, claim) \/ AdmitGranted(q, claim)

Publish ==
    \/ \E p \in Policies : PublishPolicy(p) \/ PublishPolicyFails(p)
    \/ \E c \in Capacities : PublishCapacity(c)
    \/ \E s \in Reservations : PublishReservations(s)
    \/ Observe

Review ==
    \E d \in Decisions :
       Revoke(d) \/ RevalidateReleases(d) \/ RevalidateUnheld(d) \/ RevalidateInvalidates(d)

\* The operation under way goes on.
Proceed == CommitWritten \/ CommitFailed \/ EnforceRevoke \/ EnforceDone

Fencing ==
    \/ \E c \in Claimants : RegisterSession(c)
    \/ \E n \in DOMAIN sessions : RetireSession(n)
    \/ \E i \in Incarnations : BeginNewIncarnation(i)

EngineNext == Admit \/ Publish \/ Review \/ Proceed \/ Fencing \/ CompactJournal

EngineSpec == EngineInit /\ [][EngineNext]_engineVars

-----------------------------------------------------------------------------
(* Correctness *)

Generations == [capacity : Nat, policy : Nat, qos : Nat, priorities : Nat, paths : Nat,
                reservations : Nat]

Records == [audit : Nat, request : Fingerprints, outcome : Outcomes, granted : U64,
            path : Paths \cup {NoPath}, epoch : Nat, incarnation : Incarnations,
            bound : Generations \cup {None}, state : {"Fresh", "Invalidated", "Revoked"},
            ledger_live : BOOLEAN]

Handlers == [step : {"idle", "down"}]
            \cup [step : {"committing"}, decision : Decisions, record : Records]
            \cup [step : {"enforcing"}, todo : SUBSET Nat, revoked : BOOLEAN]

\* The state of the engine is well formed.
EngineTypeOK ==
    /\ LedgerTypeOK
    /\ DOMAIN records \subseteq Decisions /\ records \in [DOMAIN records -> Records]
    /\ DOMAIN audit_index \subseteq Nat /\ audit_index \in [DOMAIN audit_index -> Decisions]
    /\ cursor_audit \in Nat
    /\ policy \in Policies \cup {None} /\ capacity \in Capacities \cup {None}
    /\ reservations \in Reservations \cup {None} /\ paths \in PathCatalogs \cup {None}
    /\ qos \in QosCatalogs \cup {None} /\ priorities \in PriorityCatalogs \cup {None}
    /\ epoch \in Nat /\ incarnation \in Incarnations
    /\ pending_reconciliation \in BOOLEAN
    /\ next_decision_sequence \in Nat \ {0} /\ audit \in Nat
    /\ handler \in Handlers

\* "Admitted load plus protected obligations plus headroom never exceeds
\* authoritative usable capacity" and "the invariant is maintained, not merely
\* reported" (README.md): whatever policy, capacity or obligations are
\* published, when no enforcement is under way and capacity is known, the
\* account is closed.
AccountingClosed == handler.step # "enforcing" /\ capacity # None => Closed

\* The account as the ledger keeps it is the account of the history: each
\* decision that holds load has a record that admits, is not revoked and has
\* not been retired, or it is about to be recorded.  Enforcement and compaction
\* walk the records, so load without such a record would escape both.
HeldRecorded ==
    \A d \in Held :
       \/ handler.step = "committing" /\ handler.decision = d
       \/ Admission(d)

\* A replay is answered from the cache first: a cached reply that admits is
\* never the reply of a decision whose load has been released.
ReplyBacked ==
    \A d \in DOMAIN decision_cache :
       decision_cache[d].outcome \in AdmittingOutcomes => Holds(d)

\* "Duplicate identical attempts are idempotent; conflicting identity reuse is
\* refused" (README.md): two live admissions never answer the same attempt of
\* the same demand.
NoDoubleGrant ==
    \A d, e \in Held \cap DOMAIN records :
       AttemptKey(records[d].request) = AttemptKey(records[e].request) => d = e

\* An admission reserves only what fits, also while the account is open because
\* an enforcement failed half-way: nothing is granted on top of load that should
\* have been revoked.
GrantsFit ==
    [][handler.step # "committing" /\ handler'.step = "committing" =>
          Fits(handler.decision)']_engineVars

\* The history is bounded: an operation that adds a record leaves at most
\* HistoryCapacity of them, or only records of live grants.
HistoryBounded ==
    [][DOMAIN records' \subseteq DOMAIN records
       \/ Cardinality(DOMAIN records') <= HistoryCapacity
       \/ DOMAIN records' \subseteq Held']_engineVars

\* "The same (demand, attempt, fingerprint) is a replay and returns the original
\* decision" (README.md): the attempt that a live grant answered, as long as it
\* is remembered, is remembered with that grant, so that repeating it is a
\* replay that returns the grant.
GrantAnswersReplay ==
    \A d \in Held \cap DOMAIN records :
       LET q == records[d].request
       IN  AttemptKey(q) \in DOMAIN attempts =>
              attempts[AttemptKey(q)] = [fingerprint |-> q, decision |-> d]

\* Enforcement revokes "newest first": when it revokes a decision, every newer
\* live admission fits, so that revoking any of those instead frees nothing
\* that is overcommitted.
NewestFirst ==
    [][handler.step = "enforcing" =>
          \A d \in Held \ Held' : \A e \in Held \cap DOMAIN records :
             records[e].audit > records[d].audit => Fits(e)]_engineVars

\* Sessions of an earlier incarnation "are fenced by construction": a grant
\* that is fenced never passes the fence again, although nonces restart with
\* every epoch.
FencedForever ==
    [][\A g \in issued : Fence(g) # "PASS" => Fence(g)' # "PASS"]_engineVars

\* Live sessions are those granted under the current epoch and incarnation:
\* begin_new_incarnation() "drops every live session" (engine.hpp), and none
\* survives a restart.
SessionsCurrent ==
    \A n \in DOMAIN sessions :
       \E g \in issued : /\ g.session = n /\ g.claimant = sessions[n]
                        /\ g.epoch = epoch /\ g.incarnation = incarnation
=============================================================================
