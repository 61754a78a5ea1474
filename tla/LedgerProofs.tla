---------------------------- MODULE LedgerProofs ----------------------------
(***************************************************************************)
(* The ledger's totals are exact, for every number of decisions, resources *)
(* and rates.                                                              *)
(***************************************************************************)
EXTENDS LedgerMachine, LedgerFacts

LEMMA LedgerStep == LedgerInv /\ [LedgerNext]_ledgerVars => LedgerInv'
<1> SUFFICES ASSUME LedgerInv, [LedgerNext]_ledgerVars
             PROVE  LedgerInv'
  OBVIOUS
<1>1. ASSUME NEW d \in Decisions, NEW path \in Paths \cup {NoPath},
             NEW S \in (SUBSET Resources) \ {{}}, NEW amounts \in [S -> Rates],
             Reserve(d, path, amounts)
      PROVE  LedgerInv'
  <2>1. amounts \in AmountMaps
    <3>1. amounts \in [S -> U64]
      BY <1>1, RatesAssumption
    <3> QED
      BY <3>1 DEF AmountMaps
  <2> QED
    BY <1>1, <2>1, ReserveKeepsLedger
<1>2. ASSUME NEW d, NEW path, NEW amounts, ReserveRolledBack(d, path, amounts)
      PROVE  LedgerInv'
  BY <1>2, RollbackKeepsLedger
<1>3. ASSUME NEW d, Release(d)
      PROVE  LedgerInv'
  BY <1>3, ReleaseKeepsLedger
<1>4. ASSUME MarkAllRequiringRevalidation \/ ClearRevalidationFlags
      PROVE  LedgerInv'
  <2>1. \E flag \in BOOLEAN : SetFlags(flag)
    BY <1>4 DEF MarkAllRequiringRevalidation, ClearRevalidationFlags
  <2> QED
    BY <2>1, FlagsKeepLedger
<1>5. ASSUME UNCHANGED ledgerVars
      PROVE  LedgerInv'
  BY <1>5, UnchangedKeepsLedger
<1> QED
  BY <1>1, <1>2, <1>3, <1>4, <1>5 DEF LedgerNext, ReserveCall, ReleaseCall

(* Whatever the sequence of reservations, failed reservations and releases,  *)
(* the ledger's state stays well formed: no total leaves the range of a      *)
(* uint64 (ledger.cpp: the checked additions of reserve, the checked         *)
(* subtractions of remove).                                                  *)
THEOREM LedgerTypeCorrect == LedgerSpec => []LedgerTypeOK
<1>1. LedgerInv => LedgerTypeOK
  BY DEF LedgerInv
<1> QED
  BY <1>1, EmptyLedger, LedgerStep, PTL DEF LedgerSpec

(* The running totals of the ledger are always the sums of what the live     *)
(* decisions hold, for any number of decisions and resources (ledger.cpp     *)
(* reserve and remove).                                                      *)
THEOREM LedgerTotalsExact == LedgerSpec => []TotalsExact
<1>1. LedgerInv => TotalsExact
  BY DEF LedgerInv
<1> QED
  BY <1>1, EmptyLedger, LedgerStep, PTL DEF LedgerSpec

(* entry_count_, the value reserve() holds against the limit on entries, is  *)
(* the number of entries stored.                                             *)
THEOREM LedgerEntryCountExact == LedgerSpec => []EntryCountExact
<1>1. LedgerInv => EntryCountExact
  BY DEF LedgerInv
<1> QED
  BY <1>1, EmptyLedger, LedgerStep, PTL DEF LedgerSpec

LEMMA PositiveStep ==
    ASSUME 0 \notin Rates
    PROVE  LedgerInv /\ HeldPositive /\ [LedgerNext]_ledgerVars => HeldPositive'
<1> SUFFICES ASSUME LedgerInv, HeldPositive, [LedgerNext]_ledgerVars
             PROVE  HeldPositive'
  OBVIOUS
<1>1. ASSUME NEW d \in Decisions, NEW path \in Paths \cup {NoPath},
             NEW S \in (SUBSET Resources) \ {{}}, NEW amounts \in [S -> Rates],
             Reserve(d, path, amounts)
      PROVE  HeldPositive'
  BY <1>1, PositiveReserve
<1>2. ASSUME NEW d, NEW path, NEW amounts, ReserveRolledBack(d, path, amounts)
      PROVE  HeldPositive'
  BY <1>2, PositiveRollback
<1>3. ASSUME NEW d, Release(d)
      PROVE  HeldPositive'
  BY <1>3, PositiveRelease
<1>4. ASSUME NEW flag \in BOOLEAN, SetFlags(flag)
      PROVE  HeldPositive'
  BY <1>4, PositiveFlags
<1>5. ASSUME UNCHANGED ledgerVars
      PROVE  HeldPositive'
  BY <1>5, PositiveUnchanged
<1> QED
  BY <1>1, <1>2, <1>3, <1>4, <1>5
     DEF LedgerNext, ReserveCall, ReleaseCall, MarkAllRequiringRevalidation,
         ClearRevalidationFlags

(* When only positive amounts are reserved, the ledger never refuses to      *)
(* release what a decision holds: the ArithmeticUnderflow branch of remove() *)
(* (ledger.cpp:91) is dead code.                                             *)
THEOREM LedgerReleasable ==
    ASSUME 0 \notin Rates
    PROVE  LedgerSpec => []Releasable
<1>1. LedgerInit => HeldPositive
  BY DEF LedgerInit, HeldPositive, Held
<1>2. LedgerSpec => [](LedgerInv /\ HeldPositive)
  <2>1. LedgerInv /\ HeldPositive /\ [LedgerNext]_ledgerVars => HeldPositive'
    BY PositiveStep
  <2> QED
    BY <1>1, <2>1, EmptyLedger, LedgerStep, PTL DEF LedgerSpec
<1> QED
  BY <1>2, PositiveReleasable, PTL
=============================================================================
