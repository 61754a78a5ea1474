---------------------------- MODULE LedgerMachine ----------------------------
(***************************************************************************)
(* The ledger on its own, under every sequence of calls its interface      *)
(* allows.  A call that is refused before it changes anything is a         *)
(* stuttering step.                                                        *)
(***************************************************************************)
EXTENDS Ledger

CONSTANT Rates   \* the amounts that callers reserve

ASSUME RatesAssumption == Rates \subseteq U64

ReserveCall ==
    \E d \in Decisions, path \in Paths \cup {NoPath}, S \in (SUBSET Resources) \ {{}} :
       \E amounts \in [S -> Rates] :
          \/ Reserve(d, path, amounts)
          \/ ReserveRolledBack(d, path, amounts)

ReleaseCall == \E d \in Held : Release(d)

LedgerNext ==
    \/ ReserveCall
    \/ ReleaseCall
    \/ MarkAllRequiringRevalidation
    \/ ClearRevalidationFlags

LedgerSpec == LedgerInit /\ [][LedgerNext]_ledgerVars
=============================================================================
