----------------------------- MODULE DurableLog -----------------------------
(***************************************************************************)
(* What the journal promises its owner: a log of payloads of which a       *)
(* prefix survives every crash.                                            *)
(*                                                                         *)
(* log is what opening the journal would return now.  An append that       *)
(* succeeds makes the whole log safe.  One that fails may still have       *)
(* added its payload, or it may have left the log tainted: then nothing    *)
(* appended before the next opening is ever returned.  A rewrite replaces  *)
(* the log at once; until it settles, a power loss may undo it.            *)
(***************************************************************************)
EXTENDS Naturals, Sequences

VARIABLES
    log,
    safe,      \* the length of the prefix that no crash removes
    tainted,
    standby    \* the logs, each with its safe length, that a power loss may bring back

logVars == <<log, safe, tainted, standby>>

Current == [log |-> log, safe |-> safe]

LogInit ==
    /\ log = << >> /\ safe = 0 /\ tainted = FALSE
    /\ standby \subseteq {Current}

Extended ==
    /\ log' \in Seq(Nat)
    /\ Len(log') = Len(log) + 1
    /\ SubSeq(log', 1, Len(log)) = log

\* A sync may make the file's name durable together with its content.
MaySettle == standby' \in {standby, {}}

LogAppend ==
    /\ IF tainted THEN UNCHANGED log ELSE Extended
    /\ safe' = Len(log')
    /\ MaySettle
    /\ UNCHANGED tainted

LogAppendFails ==
    /\ \/ ~tainted /\ Extended /\ UNCHANGED tainted
       \/ tainted' = TRUE /\ UNCHANGED log
    /\ UNCHANGED <<safe, standby>>

\* Some of what is not safe is gone, or unreadable.
LogPowerLoss ==
    /\ \E old \in {Current} \cup standby :
          \E n \in old.safe .. Len(old.log) : log' = SubSeq(old.log, 1, n)
    /\ safe' = Len(log')
    /\ tainted' \in BOOLEAN
    /\ standby' = {}

\* Opening removes the taint and never an entry.
LogOpen ==
    /\ tainted' = FALSE
    /\ safe' \in {safe, Len(log)}
    /\ MaySettle
    /\ UNCHANGED log

LogRewrite ==
    /\ log' \in Seq(Nat)
    /\ safe' = Len(log')
    /\ tainted' = FALSE
    /\ standby' = standby \cup {Current}

LogSettle ==
    /\ standby' = {}
    /\ UNCHANGED <<log, safe, tainted>>

LogNext ==
    \/ LogAppend \/ LogAppendFails \/ LogPowerLoss \/ LogOpen \/ LogRewrite \/ LogSettle

LogSpec == LogInit /\ [][LogNext]_logVars
=============================================================================
