------------------------------- MODULE Ledger -------------------------------
(***************************************************************************)
(* AdmittedLoadLedger (src/engine/ledger.cpp): the only place where        *)
(* admitted load lives.                                                    *)
(*                                                                         *)
(* by_decision is the provenance of the load: what each live decision      *)
(* holds.  totals and path_totals are caches of it, kept incrementally,    *)
(* and they are what admission and enforcement read.  As in the std::map   *)
(* members, a key is in the domain only while the map has an entry for it. *)
(*                                                                         *)
(* An entry's demand, epoch and bound generation are carried along by the  *)
(* code and never read by the ledger; they are left out.                   *)
(***************************************************************************)
EXTENDS Integers, FiniteSets, FiniteSetsExt

CONSTANTS
    Decisions,         \* decision identities that may hold load
    Resources,         \* resource identities
    Paths,             \* path identities
    NoPath,            \* PathId::unknown(): the grant is bound to no path
    MaxU64,            \* largest std::uint64_t
    MaxLedgerEntries   \* limits::max_ledger_entries

ASSUME LedgerAssumption ==
    /\ Decisions \subseteq Nat \ {0}
    /\ Resources \subseteq Nat \ {0}
    /\ IsFiniteSet(Resources)
    /\ NoPath \notin Paths
    /\ MaxU64 \in Nat
    /\ MaxLedgerEntries \in Nat

VARIABLES
    by_decision,   \* by_decision_: decision -> what it holds
    totals,        \* totals_: resource -> admitted load
    path_totals,   \* path_totals_: path -> admitted load
    entry_count    \* entry_count_

ledgerVars == <<by_decision, totals, path_totals, entry_count>>

-----------------------------------------------------------------------------
(* A uint64 and the arithmetic the code does on it *)

U64 == 0 .. MaxU64

\* Faulty: the subtraction is signed.
SignedSub(a, b) == a - b

WrapSub(a, b) == (a - b) % (MaxU64 + 1)     \* unchecked subtraction

SatAdd(a, b) == IF a + b > MaxU64 THEN MaxU64 ELSE a + b

SatSub(a, b) == IF b > a THEN 0 ELSE a - b

-----------------------------------------------------------------------------
(* What one decision holds: an amount for each of a nonempty set of         *)
(* resources, booked on at most one path.                                   *)

AmountMaps == UNION {[S -> U64] : S \in (SUBSET Resources) \ {{}}}

Grants == [amounts : AmountMaps,
           path : Paths \cup {NoPath},
           requires_revalidation : BOOLEAN]

Held == DOMAIN by_decision

Holds(d) == d \in Held

HeldOn(d) == DOMAIN by_decision[d].amounts

Admitted(r) == IF r \in DOMAIN totals THEN totals[r] ELSE 0

AdmittedOnPath(p) == IF p \in DOMAIN path_totals THEN path_totals[p] ELSE 0

\* amounts.front().second: amounts are sorted by resource.
FrontAmount(amounts) == amounts[Min(DOMAIN amounts)]

\* Sums are counted in units of rate: one element for each unit of each amount.
AmountUnits(amounts) ==
    {unit \in (DOMAIN amounts) \X (1 .. MaxU64) : unit[2] <= amounts[unit[1]]}

\* SumLatch over the amounts of one decision.
SaturatedTotal(amounts) ==
    LET sum == Cardinality(AmountUnits(amounts))
    IN  IF sum > MaxU64 THEN MaxU64 ELSE sum

-----------------------------------------------------------------------------
LedgerInit ==
    /\ by_decision = << >>
    /\ totals = << >>
    /\ path_totals = << >>
    /\ entry_count = 0

\* Faulty: a decision may reserve twice.
CanReserveAgain(d, amounts) ==
    /\ entry_count + Cardinality(DOMAIN amounts) <= MaxLedgerEntries
    /\ \A r \in DOMAIN amounts : Admitted(r) + amounts[r] <= MaxU64

\* Faulty: the additions are not checked for overflow.
CanReserveUnchecked(d, amounts) ==
    /\ d \notin Held
    /\ entry_count + Cardinality(DOMAIN amounts) <= MaxLedgerEntries

\* The checks of reserve() that precede any change of state.
CanReserve(d, amounts) ==
    /\ d \notin Held
    /\ entry_count + Cardinality(DOMAIN amounts) <= MaxLedgerEntries
    /\ \A r \in DOMAIN amounts : Admitted(r) + amounts[r] <= MaxU64

PathOverflows(path, amounts) ==
    path # NoPath /\ AdmittedOnPath(path) + FrontAmount(amounts) > MaxU64

\* totals_ and path_totals_ after reserve() has added to them: one amount for
\* each resource, and amounts.front() for the path.
TotalsWith(all, amounts) ==
    [r \in DOMAIN all \cup DOMAIN amounts |->
        IF r \in DOMAIN amounts
        THEN (IF r \in DOMAIN all THEN all[r] ELSE 0) + amounts[r]
        ELSE all[r]]

PathTotalsWith(all, path, amounts) ==
    IF path = NoPath THEN all ELSE TotalsWith(all, [p \in {path} |-> FrontAmount(amounts)])

\* The entry of a decision.
NewEntry(path, amounts) ==
    [amounts |-> amounts, path |-> path, requires_revalidation |-> FALSE]

\* reserve() returning ok.
Reserve(d, path, amounts) ==
    /\ CanReserve(d, amounts)
    /\ ~PathOverflows(path, amounts)
    /\ totals' = TotalsWith(totals, amounts)
    /\ path_totals' = PathTotalsWith(path_totals, path, amounts)
    /\ entry_count' = entry_count + Cardinality(DOMAIN amounts)
    /\ by_decision' = [e \in Held \cup {d} |->
                         IF e = d THEN NewEntry(path, amounts) ELSE by_decision[e]]

\* reserve() failing on the path total after it changed the resource totals:
\* the roll-back restores every total it added to, erasing the ones that are 0.
ReserveRolledBack(d, path, amounts) ==
    /\ CanReserve(d, amounts)
    /\ PathOverflows(path, amounts)
    /\ totals' = [r \in {t \in DOMAIN totals : t \in DOMAIN amounts => totals[t] # 0} |-> totals[r]]
    /\ UNCHANGED <<by_decision, path_totals, entry_count>>

\* Faulty: <= for <.
UnderflowsEarly(d) ==
    \E r \in HeldOn(d) : r \notin DOMAIN totals \/ totals[r] <= by_decision[d].amounts[r]

\* The check of remove() that refuses with ArithmeticUnderflow.
Underflows(d) ==
    \E r \in HeldOn(d) : r \notin DOMAIN totals \/ totals[r] < by_decision[d].amounts[r]

\* release() returning ok.
Release(d) ==
    LET held == by_decision[d].amounts
        path == by_decision[d].path
        left(r) == IF r \in DOMAIN held THEN totals[r] - held[r] ELSE totals[r]
        pathLeft == WrapSub(path_totals[path], SaturatedTotal(held))
    IN  /\ Holds(d)
        /\ ~Underflows(d)
        /\ totals' = [r \in {t \in DOMAIN totals : t \in DOMAIN held => left(t) # 0} |-> left(r)]
        /\ path_totals' = IF path \notin DOMAIN path_totals THEN path_totals
                          ELSE [p \in {q \in DOMAIN path_totals : q = path => pathLeft # 0} |->
                                  IF p = path THEN pathLeft ELSE path_totals[p]]
        /\ entry_count' = entry_count - Cardinality(DOMAIN held)
        /\ by_decision' = [e \in Held \ {d} |-> by_decision[e]]

SetFlags(flag) ==
    /\ by_decision' = [d \in Held |-> [by_decision[d] EXCEPT !.requires_revalidation = flag]]
    /\ UNCHANGED <<totals, path_totals, entry_count>>

MarkAllRequiringRevalidation == SetFlags(TRUE)

\* Faulty: the flags stay.
ClearNothing == UNCHANGED ledgerVars

ClearRevalidationFlags == SetFlags(FALSE)

-----------------------------------------------------------------------------
(* Correctness *)

\* The state of the ledger is well formed: every total is a uint64 and belongs
\* to a published identity, every holder holds a nonempty amount map.
LedgerTypeOK ==
    /\ Held \subseteq Decisions
    /\ by_decision \in [Held -> Grants]
    /\ DOMAIN totals \subseteq Resources
    /\ totals \in [DOMAIN totals -> U64]
    /\ DOMAIN path_totals \subseteq Paths
    /\ path_totals \in [DOMAIN path_totals -> U64]
    /\ entry_count \in Nat

\* The load that is really held on resource r, unit by unit: one element for
\* each decision and each unit of rate it holds there.
LoadUnits(r) == {unit \in Held \X (1 .. MaxU64) :
                    /\ r \in HeldOn(unit[1])
                    /\ unit[2] <= by_decision[unit[1]].amounts[r]}

\* totals_, which reserve() and remove() maintain by increments, is exactly the
\* sum of what the live decisions hold, on every resource: nothing is counted
\* twice, forgotten, or left behind by a release.
TotalsExact == \A r \in Resources : Admitted(r) = Cardinality(LoadUnits(r))

\* entry_count_, which reserve() compares with the limit, is the number of
\* entries really stored.
EntryCountExact ==
    entry_count = Cardinality({e \in Held \X Resources : e[2] \in HeldOn(e[1])})

\* "A grant can be released exactly once and exactly in the amount that was
\* reserved" (include/naf/engine/ledger.hpp): the underflow check of remove()
\* never refuses the release of a decision that holds load.
Releasable == \A d \in Held : ~Underflows(d)

\* The load booked on path p: what the code's reserve() adds for each decision.
PathUnits(p) == {unit \in Held \X (1 .. MaxU64) :
                    /\ by_decision[unit[1]].path = p
                    /\ unit[2] <= FrontAmount(by_decision[unit[1]].amounts)}

\* "Totals can never overflow and can never go negative" (ledger.hpp), on the
\* path totals: path_totals_ is exactly what the live decisions booked on each
\* path.
PathTotalsExact == \A p \in Paths : AdmittedOnPath(p) = Cardinality(PathUnits(p))
=============================================================================
