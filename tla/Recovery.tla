------------------------------ MODULE Recovery ------------------------------
(***************************************************************************)
(* A coordinator that crashes and restarts on its journal: the engine of   *)
(* module Engine, and AdmissionEngine::open_durable().                     *)
(*                                                                         *)
(* The journal holds whole frames: a frame torn by a crash is truncated    *)
(* when the journal is opened, so a crash leaves a prefix of the frames    *)
(* that the interrupted operation writes.  Claimants keep the grants they  *)
(* were given.                                                             *)
(***************************************************************************)
EXTENDS Engine, SequencesExt

-----------------------------------------------------------------------------
(* Replay *)

\* What the replay loop accumulates: the history, the attempts, and its locals.
Blank == [records |-> << >>, index |-> << >>, attempts |-> << >>, fingerprints |-> << >>,
          pending |-> << >>, committed |-> << >>, released |-> {}, policy |-> None,
          epoch |-> 0, last |-> 0, audit |-> 0, corrupt |-> FALSE]

\* Faulty: attempts are not restored.
RecalledWithoutAttempts(m, d, record) ==
    [m EXCEPT !.records = RecordsWith(@, d, record),
              !.index = IndexWith(m.records, @, d, record),
              !.last = Max({@, d}),
              !.audit = Max({@, record.audit})]

\* The part that is common to a committed and to a refused decision.
Recalled(m, d, record) ==
    [m EXCEPT !.records = RecordsWith(@, d, record),
              !.index = IndexWith(m.records, @, d, record),
              !.last = Max({@, d}),
              !.audit = Max({@, record.audit}),
              !.attempts = AttemptsWith(@, record.request, d),
              !.fingerprints = FingerprintsWith(@, record.request)]

ReplayCommit(m, d, record) ==
    LET live == IsAdmitting(record) /\ record.state # "Revoked"
        kept == Recalled(m, d, [record EXCEPT !.ledger_live = live])
    IN  IF d \in DOMAIN m.pending
        THEN [kept EXCEPT !.committed = RecordsWith(@, d, m.pending[d]),
                          !.pending = Restrict(@, DOMAIN @ \ {d})]
        ELSE [kept EXCEPT !.corrupt = @ \/ IsAdmitting(record)]

ReplayRevocation(m, f) ==
    LET d == f.decision
    IN  [m EXCEPT !.audit = Max({@, f.audit}),
                  !.records = IF d \in DOMAIN @
                              THEN [@ EXCEPT ![d].state = f.state, ![d].ledger_live = FALSE]
                              ELSE @]

\* Faulty: the first intent of a decision is kept.
ReplayFirstPrepare(m, f) ==
    IF f.decision \in DOMAIN m.pending THEN m
    ELSE [m EXCEPT !.pending = RecordsWith(@, f.decision, [path |-> f.path, amounts |-> f.amounts])]

\* The intent replaces an earlier one of the same decision.
ReplayPrepare(m, f) ==
    [m EXCEPT !.pending = RecordsWith(@, f.decision, [path |-> f.path, amounts |-> f.amounts])]

ReplayFrame(m, f) ==
    CASE f.kind = "Boot"       -> [m EXCEPT !.epoch = Max({@, f.epoch})]
      [] f.kind = "Policy"     -> [m EXCEPT !.policy = f.policy]
      [] f.kind = "Prepare"    -> ReplayPrepare(m, f)
      [] f.kind = "Commit"     -> ReplayCommit(m, f.decision, f.record)
      [] f.kind = "Refused"    -> Recalled(m, f.decision, [f.record EXCEPT !.ledger_live = FALSE])
      [] f.kind = "Release"    -> [m EXCEPT !.released = @ \cup {f.decision}]
      [] f.kind = "Revocation" -> ReplayRevocation(m, f)
      [] f.kind = "Mark"       -> [m EXCEPT !.audit = Max({@, f.audit})]

Replayed == FoldLeft(ReplayFrame, Blank, journal)

\* Faulty: a release without its revocation is ignored.
RestoredByState(m) ==
    LET live == {d \in DOMAIN m.committed :
                    IsAdmitting(m.records[d]) /\ m.records[d].state # "Revoked"}
    IN  [d \in live |-> m.committed[d]]

\* "Live ledger: committed admissions minus explicit releases."
Restored(m) ==
    LET live == {d \in DOMAIN m.committed :
                    /\ IsAdmitting(m.records[d]) /\ m.records[d].state # "Revoked"
                    /\ d \notin m.released}
    IN  [d \in live |-> m.committed[d]]

EmptyLedger == [by_decision |-> << >>, totals |-> << >>, path_totals |-> << >>,
                entry_count |-> 0, refused |-> FALSE]

\* reserve() of one restored decision in the ledger l that is being rebuilt; the
\* first that is refused ends the recovery.
ReserveIn(l, d, grant) ==
    LET booked == [by_decision |-> RecordsWith(l.by_decision, d, NewEntry(grant.path, grant.amounts)),
                   totals |-> TotalsWith(l.totals, grant.amounts),
                   path_totals |-> PathTotalsWith(l.path_totals, grant.path, grant.amounts),
                   entry_count |-> l.entry_count + Cardinality(DOMAIN grant.amounts),
                   refused |-> FALSE]
        fits   == /\ booked.entry_count <= MaxLedgerEntries
                  /\ \A r \in DOMAIN booked.totals : booked.totals[r] <= MaxU64
                  /\ \A p \in DOMAIN booked.path_totals : booked.path_totals[p] <= MaxU64
    IN  IF ~l.refused /\ fits THEN booked ELSE [l EXCEPT !.refused = TRUE]

\* The ledger that open_durable() rebuilds, one decision after the other.
Rebuilt(load) ==
    LET last == Max({0} \cup DOMAIN load)
        upto[n \in 0 .. last] ==
           IF n = 0 THEN EmptyLedger
           ELSE IF n \in DOMAIN load THEN ReserveIn(upto[n - 1], n, load[n]) ELSE upto[n - 1]
    IN  upto[last]

\* All of it waits for capacity to be published again.
RestoreLedger(l) ==
    /\ by_decision' = [d \in DOMAIN l.by_decision |->
                         [l.by_decision[d] EXCEPT !.requires_revalidation = TRUE]]
    /\ totals' = l.totals
    /\ path_totals' = l.path_totals
    /\ entry_count' = l.entry_count

-----------------------------------------------------------------------------
\* The coordinator has not opened its journal yet.
RecoveryInit ==
    /\ Constructed
    /\ handler = [step |-> "down"]
    /\ journal = << >>
    /\ issued = {}

\* The decision whose release an operation under way, or about to start, is
\* going to journal.
Releasing ==
    IF Idle THEN {d \in Held : Admission(d)}
    ELSE IF handler.step = "enforcing"
    THEN {audit_index[a] : a \in {b \in handler.todo : NextToRevoke(b)}}
    ELSE {}

\* What is only in memory is lost; the next process is constructed anew.
Forget ==
    /\ by_decision' = << >> /\ totals' = << >> /\ path_totals' = << >> /\ entry_count' = 0
    /\ records' = << >> /\ audit_index' = << >> /\ cursor_audit' = 0
    /\ attempts' = << >> /\ request_fingerprints' = << >> /\ decision_cache' = << >>
    /\ policy' = None /\ capacity' = None /\ reservations' = None
    /\ paths' = None /\ qos' = None /\ priorities' = None
    /\ tick' = 0 /\ pending_reconciliation' = FALSE
    /\ epoch' = ConfigEpoch /\ incarnation' \in Incarnations
    /\ sessions' = << >> /\ next_session_nonce' = 1
    /\ next_decision_sequence' = 1 /\ audit' = 0

\* The process dies; it may die between the release and the revocation frame.
Crash ==
    /\ handler.step # "down"
    /\ Forget
    /\ handler' = [step |-> "down"]
    /\ \/ UNCHANGED journal
       \/ \E d \in Releasing : journal' = Append(journal, ReleaseFrame(d))
    /\ UNCHANGED issued

\* The fencing of open_durable(): the epoch that a coordinator takes up on a
\* journal that ends in an epoch, if it may.
NextEpoch(recovered) ==
    IF recovered # 0 THEN recovered + 1 ELSE IF ConfigEpoch # 0 THEN ConfigEpoch ELSE 1

MayFollow(recovered) == recovered # 0 /\ ConfigEpoch # 0 => recovered <= ConfigEpoch

\* open_durable() as far as its last write, the boot frame.
Reopens ==
    /\ handler.step = "down"
    /\ Room
    /\ ~Replayed.corrupt
    /\ ~Rebuilt(Restored(Replayed)).refused
    /\ MayFollow(Replayed.epoch)
    /\ NextEpoch(Replayed.epoch) <= MaxEpoch

\* open_durable() returning a recovered engine.
Restart ==
    LET m    == Replayed
        load == Restored(m)
    IN  /\ Reopens
        /\ epoch' = NextEpoch(m.epoch)
        /\ RestoreLedger(Rebuilt(load))
        /\ TrimHistory(m.records, m.index, DOMAIN load)
        /\ attempts' = m.attempts
        /\ request_fingerprints' = m.fingerprints
        /\ policy' = m.policy
        /\ audit' = m.audit
        /\ next_decision_sequence' = m.last + 1
        /\ pending_reconciliation' = (load # << >>)
        /\ journal' = Append(journal, BootFrame(epoch'))
        /\ Finish
        /\ UNCHANGED <<capacity, reservations, paths, qos, priorities, tick, incarnation,
                       decision_cache, sessionVars, issued>>

\* The boot frame cannot be written: open_durable() refuses, and the process
\* does not come up.  Where it refuses earlier, it has written nothing.
RestartFails ==
    /\ Reopens
    /\ Failed(BootFrame(NextEpoch(Replayed.epoch)))
    /\ UNCHANGED <<ledgerVars, historyVars, authorityVars, sessionVars, coreVars, handler, issued>>

RecoveryNext == EngineNext \/ Crash \/ Restart \/ RestartFails

RecoverySpec == RecoveryInit /\ [][RecoveryNext]_engineVars

-----------------------------------------------------------------------------
(* Correctness *)

\* "The account matches what a restart would reconstruct" (engine.cpp,
\* finish_admission): between operations, the load in the ledger is the load
\* that replaying the journal restores, whatever writes have failed, unless the
\* frame of a failed commit or release is in the file all the same.
DurableMatchesMemory ==
    Idle => Restored(Replayed)
            = [d \in Held |-> [path |-> by_decision[d].path, amounts |-> by_decision[d].amounts]]

\* A journal the coordinator wrote itself can always be replayed.
JournalReplays ==
    LET m == Replayed
    IN  ~m.corrupt /\ ~Rebuilt(Restored(m)).refused

\* Load whose release is on disk is never held again, whatever was lost with
\* the crash: a revoked grant does not come back.
ReleasedStayReleased ==
    \A i \in DOMAIN journal : journal[i].kind = "Release" => ~Holds(journal[i].decision)

\* Restored load that has not met republished capacity blocks admission
\* ("recovered load has not yet been reconciled against republished capacity").
RestoredLoadGated ==
    (\E d \in Held : by_decision[d].requires_revalidation) => pending_reconciliation

\* The load that a restart restores for a decision is what its record grants,
\* although the intent and the commit are separate frames and a decision whose
\* commit failed has its identity handed out again after a restart: the intent
\* that a commit is paired with is its own.
RestoredAsGranted ==
    LET m    == Replayed
        load == Restored(m)
    IN  \A d \in DOMAIN load :
           /\ load[d].path = m.records[d].path
           /\ \A r \in DOMAIN load[d].amounts : load[d].amounts[r] = m.records[d].granted
=============================================================================
