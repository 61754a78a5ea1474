---------------------------- MODULE LedgerFacts -----------------------------
(***************************************************************************)
(* What each operation of the ledger preserves, whoever calls it.          *)
(***************************************************************************)
EXTENDS Ledger, FiniteSetTheorems, TLAPS

(* A set of natural numbers that is not empty has a least element. *)
LEMMA LeastNatural ==
    ASSUME NEW S \in SUBSET Nat, S # {}
    PROVE  \E m \in S : \A x \in S : m <= x
<1> DEFINE R == OpToRel(<, Nat)
<1>1. IsWellFoundedOn(R, Nat)
  BY NatLessThanWellFounded
<1>2. \A x, y \in Nat : y < x => <<y, x>> \in R
  BY DEF OpToRel
<1> HIDE DEF R
<1>3. PICK x \in S : \A y \in S : ~(<<y, x>> \in R)
  BY <1>1, WFMin
<1>4. ASSUME NEW y \in S PROVE x <= y
  <2>1. ~(y < x)
    BY <1>2, <1>3
  <2> QED
    BY <2>1
<1> QED
  BY <1>4

(* amounts.front() is one of the amounts. *)
LEMMA U64Natural == U64 \subseteq Nat
BY LedgerAssumption DEF U64

LEMMA FrontAmountType ==
    ASSUME NEW amounts \in AmountMaps
    PROVE  FrontAmount(amounts) \in U64
<1>1. PICK S \in (SUBSET Resources) \ {{}} : amounts \in [S -> U64]
  BY DEF AmountMaps
<1>2. S \in SUBSET Nat /\ S # {}
  BY <1>1, LedgerAssumption
<1>3. Min(S) \in S
  BY <1>2, LeastNatural DEF Min
<1> QED
  BY <1>1, <1>3 DEF FrontAmount

(* A block of a units of one holder counts a. *)
LEMMA BlockOfUnits ==
    ASSUME NEW d, NEW a \in Nat
    PROVE  /\ IsFiniteSet({d} \X (1 .. a))
           /\ Cardinality({d} \X (1 .. a)) = a
<1>1. IsFiniteSet({d}) /\ Cardinality({d}) = 1
  BY FS_Singleton
<1>2. IsFiniteSet(1 .. a) /\ Cardinality(1 .. a) = a
  BY FS_Interval
<1>3. Cardinality({d} \X (1 .. a)) = Cardinality({d}) * Cardinality(1 .. a)
  BY <1>1, <1>2, FS_Product, Zenon
<1> QED
  BY <1>1, <1>2, <1>3, FS_Product

-----------------------------------------------------------------------------
(* What is held, and by how many. *)

LedgerFinite == IsFiniteSet(Held)

(* The inductive invariant: the types, finitely many holders, and the two   *)
(* counts.                                                                   *)
LedgerInv == LedgerTypeOK /\ LedgerFinite /\ TotalsExact /\ EntryCountExact

LEMMA AdmittedType ==
    ASSUME LedgerTypeOK, NEW r \in Resources
    PROVE  Admitted(r) \in U64
BY LedgerAssumption DEF LedgerTypeOK, Admitted, U64

LEMMA HeldOnType ==
    ASSUME LedgerTypeOK, NEW d \in Held
    PROVE  /\ HeldOn(d) \subseteq Resources
           /\ HeldOn(d) # {}
           /\ IsFiniteSet(HeldOn(d))
           /\ \A r \in HeldOn(d) : by_decision[d].amounts[r] \in U64
<1>1. by_decision[d].amounts \in AmountMaps
  BY DEF LedgerTypeOK, Grants
<1>2. PICK S \in (SUBSET Resources) \ {{}} : by_decision[d].amounts \in [S -> U64]
  BY <1>1 DEF AmountMaps
<1>3. HeldOn(d) = S
  BY <1>2 DEF HeldOn
<1>4. IsFiniteSet(S)
  BY <1>2, LedgerAssumption, FS_Subset
<1> QED
  BY <1>2, <1>3, <1>4 DEF HeldOn

LEMMA LoadUnitsFinite ==
    ASSUME LedgerFinite, NEW r, MaxU64 \in Nat
    PROVE  IsFiniteSet(LoadUnits(r))
<1>1. IsFiniteSet(1 .. MaxU64)
  BY FS_Interval
<1>2. IsFiniteSet(Held \X (1 .. MaxU64))
  BY <1>1, FS_Product DEF LedgerFinite
<1>3. LoadUnits(r) \in SUBSET (Held \X (1 .. MaxU64))
  BY DEF LoadUnits
<1> QED
  BY <1>2, <1>3, FS_Subset

(* The units of one holder are among the units of the resource, so what the  *)
(* ledger says is admitted is at least what each holder holds.               *)
LEMMA HolderCovered ==
    ASSUME LedgerInv, NEW d \in Held, NEW r \in HeldOn(d)
    PROVE  by_decision[d].amounts[r] <= Admitted(r)
<1> DEFINE a == by_decision[d].amounts[r]
<1>1. a \in U64 /\ r \in Resources
  BY HeldOnType DEF LedgerInv
<1>2. {d} \X (1 .. a) \in SUBSET LoadUnits(r)
  BY <1>1, LedgerAssumption DEF LoadUnits, U64
<1>3. Cardinality({d} \X (1 .. a)) = a
  <2>1. a \in Nat
    BY <1>1, LedgerAssumption DEF U64
  <2> QED
    BY <2>1, BlockOfUnits
<1>4. IsFiniteSet(LoadUnits(r))
  BY LoadUnitsFinite, LedgerAssumption DEF LedgerInv
<1>5. Cardinality({d} \X (1 .. a)) <= Cardinality(LoadUnits(r))
  BY <1>2, <1>4, FS_Subset
<1> QED
  BY <1>1, <1>3, <1>5 DEF LedgerInv, TotalsExact

(* Load on a resource is somebody's. *)
LEMMA LoadIsHeld ==
    ASSUME LedgerInv, NEW r \in Resources, Admitted(r) # 0
    PROVE  \E d \in Held : r \in HeldOn(d)
<1>1. Cardinality(LoadUnits(r)) # 0
  BY DEF LedgerInv, TotalsExact
<1>2. LoadUnits(r) # {}
  BY <1>1, FS_EmptySet
<1> QED
  BY <1>2 DEF LoadUnits

(* Disjoint finite sets count as their sum. *)
LEMMA DisjointUnion ==
    ASSUME NEW A, NEW B, IsFiniteSet(A), IsFiniteSet(B), A \cap B = {}
    PROVE  /\ IsFiniteSet(A \cup B)
           /\ Cardinality(A \cup B) = Cardinality(A) + Cardinality(B)
<1>1. Cardinality(A) \in Nat /\ Cardinality(B) \in Nat /\ Cardinality({}) = 0
  BY FS_CardinalityType, FS_EmptySet
<1>2. /\ IsFiniteSet(A \cup B)
      /\ Cardinality(A \cup B) = Cardinality(A) + Cardinality(B) - Cardinality(A \cap B)
  BY FS_Union
<1>3. Cardinality(A \cap B) = 0
  BY <1>1
<1> QED
  BY <1>1, <1>2, <1>3

-----------------------------------------------------------------------------
(* The stored entries, whose number entry_count is. *)

Entries == {e \in Held \X Resources : e[2] \in HeldOn(e[1])}

LEMMA EntriesFinite ==
    ASSUME LedgerFinite
    PROVE  IsFiniteSet(Entries)
<1>1. IsFiniteSet(Held \X Resources)
  <2>1. IsFiniteSet(Held) /\ IsFiniteSet(Resources)
    BY LedgerAssumption DEF LedgerFinite
  <2> QED
    BY <2>1, FS_Product, Zenon
<1>2. Entries \in SUBSET (Held \X Resources)
  BY DEF Entries
<1> QED
  BY <1>1, <1>2, FS_Subset

(* A block of one entry for each of a set of resources. *)
LEMMA BlockOfEntries ==
    ASSUME NEW d, NEW S, IsFiniteSet(S)
    PROVE  /\ IsFiniteSet({d} \X S)
           /\ Cardinality({d} \X S) = Cardinality(S)
<1>1. IsFiniteSet({d}) /\ Cardinality({d}) = 1
  BY FS_Singleton
<1>2. Cardinality(S) \in Nat
  BY FS_CardinalityType
<1>3. /\ IsFiniteSet({d} \X S)
      /\ Cardinality({d} \X S) = Cardinality({d}) * Cardinality(S)
  BY <1>1, FS_Product, Zenon
<1> QED
  BY <1>1, <1>2, <1>3

-----------------------------------------------------------------------------
(* reserve() keeps the ledger exact. *)
LEMMA ReserveKeepsLedger ==
    ASSUME LedgerInv,
           NEW d \in Decisions, NEW path \in Paths \cup {NoPath}, NEW amounts \in AmountMaps,
           Reserve(d, path, amounts)
    PROVE  LedgerInv'
<1>1. PICK S \in (SUBSET Resources) \ {{}} : amounts \in [S -> U64]
  BY DEF AmountMaps
<1>2. /\ DOMAIN amounts = S
      /\ \A r \in S : amounts[r] \in U64 /\ amounts[r] \in Nat
      /\ IsFiniteSet(S)
  <2>1. IsFiniteSet(S)
    BY LedgerAssumption, FS_Subset
  <2> QED
    BY <1>1, <2>1, LedgerAssumption DEF U64
<1>3. /\ d \notin Held
      /\ Held' = Held \cup {d}
      /\ \A e \in Held : by_decision'[e] = by_decision[e]
      /\ by_decision'[d] = [amounts |-> amounts, path |-> path, requires_revalidation |-> FALSE]
  BY DEF Reserve, CanReserve, NewEntry, Held
<1>4. LedgerTypeOK'
  <2>1. by_decision'[d] \in Grants
    BY <1>3 DEF Grants
  <2>2. (Held \subseteq Decisions /\ by_decision \in [Held -> Grants])'
    BY <1>3, <2>1 DEF LedgerInv, LedgerTypeOK, Reserve, Held
  <2>3. (DOMAIN totals \subseteq Resources /\ totals \in [DOMAIN totals -> U64])'
    <3>1. \A r \in S : Admitted(r) + amounts[r] \in U64
      <4> SUFFICES ASSUME NEW r \in S PROVE Admitted(r) + amounts[r] \in U64
        OBVIOUS
      <4>1. Admitted(r) \in U64
        BY <1>1, AdmittedType DEF LedgerInv
      <4> QED
        BY <1>2, <4>1, LedgerAssumption DEF Reserve, CanReserve, U64
    <3> QED
      BY <1>2, <3>1 DEF LedgerInv, LedgerTypeOK, Reserve, TotalsWith, Admitted
  <2>4. (DOMAIN path_totals \subseteq Paths /\ path_totals \in [DOMAIN path_totals -> U64])'
    <3>1. CASE path = NoPath
      BY <3>1 DEF LedgerInv, LedgerTypeOK, Reserve, PathTotalsWith
    <3>2. CASE path # NoPath
      <4>1. AdmittedOnPath(path) \in U64
        BY LedgerAssumption DEF LedgerInv, LedgerTypeOK, AdmittedOnPath, U64
      <4>2. AdmittedOnPath(path) + FrontAmount(amounts) \in U64
        BY <3>2, <4>1, FrontAmountType, LedgerAssumption DEF Reserve, PathOverflows, U64
      <4>3. path_totals' = [p \in DOMAIN path_totals \cup {path} |->
                              IF p = path THEN AdmittedOnPath(p) + FrontAmount(amounts)
                              ELSE path_totals[p]]
        BY <3>2 DEF Reserve, PathTotalsWith, TotalsWith, AdmittedOnPath
      <4> QED
        BY <3>2, <4>2, <4>3 DEF LedgerInv, LedgerTypeOK
    <3> QED
      BY <3>1, <3>2
  <2>5. entry_count' \in Nat
    BY <1>2, FS_CardinalityType DEF LedgerInv, LedgerTypeOK, Reserve
  <2> QED
    BY <2>2, <2>3, <2>4, <2>5 DEF LedgerTypeOK
<1>5. LedgerFinite'
  BY <1>3, FS_AddElement DEF LedgerInv, LedgerFinite
<1>6. TotalsExact'
  <2> SUFFICES ASSUME NEW r \in Resources
               PROVE  Admitted(r)' = Cardinality(LoadUnits(r)')
    BY DEF TotalsExact
  <2>1. Admitted(r) = Cardinality(LoadUnits(r)) /\ Admitted(r) \in U64
    BY AdmittedType DEF LedgerInv, TotalsExact
  <2>2. CASE r \in S
    <3> DEFINE new == {d} \X (1 .. amounts[r])
    <3>1. LoadUnits(r)' = LoadUnits(r) \cup new
      <4>1. LoadUnits(r)' \subseteq LoadUnits(r) \cup new
        BY <1>2, <1>3, <2>2, LedgerAssumption DEF LoadUnits, HeldOn, U64
      <4>2. LoadUnits(r) \subseteq LoadUnits(r)'
        BY <1>3 DEF LoadUnits, HeldOn
      <4>3. new \subseteq LoadUnits(r)'
        BY <1>2, <1>3, <2>2, LedgerAssumption DEF LoadUnits, HeldOn, U64
      <4> QED
        BY <4>1, <4>2, <4>3
    <3>2. LoadUnits(r) \cap new = {}
      BY <1>3 DEF LoadUnits
    <3>3. IsFiniteSet(LoadUnits(r))
      BY LoadUnitsFinite, LedgerAssumption DEF LedgerInv
    <3>4. IsFiniteSet(new) /\ Cardinality(new) = amounts[r]
      BY <1>2, <2>2, BlockOfUnits
    <3>5. Cardinality(LoadUnits(r)') = Cardinality(LoadUnits(r)) + amounts[r]
      BY <3>1, <3>2, <3>3, <3>4, DisjointUnion
    <3>6. Admitted(r)' = Admitted(r) + amounts[r]
      BY <1>2, <2>2 DEF Reserve, TotalsWith, Admitted
    <3> QED
      BY <2>1, <3>5, <3>6
  <2>3. CASE r \notin S
    <3>1. LoadUnits(r)' = LoadUnits(r)
      BY <1>2, <1>3, <2>3 DEF LoadUnits, HeldOn
    <3>2. Admitted(r)' = Admitted(r)
      BY <1>2, <2>3 DEF Reserve, TotalsWith, Admitted
    <3> QED
      BY <2>1, <3>1, <3>2
  <2> QED
    BY <2>2, <2>3
<1>7. EntryCountExact'
  <2>1. Entries' = Entries \cup ({d} \X S)
    BY <1>1, <1>2, <1>3 DEF Entries, HeldOn
  <2>2. Entries \cap ({d} \X S) = {}
    BY <1>3 DEF Entries
  <2>3. IsFiniteSet(Entries)
    BY EntriesFinite DEF LedgerInv
  <2>4. IsFiniteSet({d} \X S) /\ Cardinality({d} \X S) = Cardinality(S)
    BY <1>2, BlockOfEntries
  <2>5. Cardinality(Entries') = Cardinality(Entries) + Cardinality(S)
    BY <2>1, <2>2, <2>3, <2>4, DisjointUnion
  <2> QED
    BY <1>2, <2>5 DEF EntryCountExact, Entries, Reserve, LedgerInv
<1> QED
  BY <1>4, <1>5, <1>6, <1>7 DEF LedgerInv

-----------------------------------------------------------------------------
(* release() keeps the ledger exact. *)
LEMMA ReleaseKeepsLedger ==
    ASSUME LedgerInv, NEW d, Release(d)
    PROVE  LedgerInv'
<1> DEFINE held == by_decision[d].amounts
           S == HeldOn(d)
<1>1. /\ d \in Held
      /\ Held' = Held \ {d}
      /\ \A e \in Held' : by_decision'[e] = by_decision[e]
  BY DEF Release, Holds, Held
<1>2. /\ S \subseteq Resources
      /\ IsFiniteSet(S)
      /\ \A r \in S : held[r] \in U64 /\ held[r] \in Nat
      /\ DOMAIN held = S
  <2>1. /\ S \subseteq Resources
        /\ IsFiniteSet(S)
        /\ \A r \in S : held[r] \in U64
    BY <1>1, HeldOnType DEF LedgerInv
  <2> QED
    BY <2>1, LedgerAssumption DEF U64, HeldOn
<1>3. \A r \in S : r \in DOMAIN totals /\ held[r] <= totals[r]
  <2> SUFFICES ASSUME NEW r \in S PROVE r \in DOMAIN totals /\ held[r] <= totals[r]
    OBVIOUS
  <2>1. r \in DOMAIN totals /\ ~(totals[r] < held[r])
    BY <1>2 DEF Release, Underflows
  <2>2. totals[r] \in Nat /\ held[r] \in Nat
    BY <1>2, <2>1, LedgerAssumption DEF LedgerInv, LedgerTypeOK, U64
  <2> QED
    BY <2>1, <2>2
<1>4. \A r \in Resources : Admitted(r)' = IF r \in S THEN Admitted(r) - held[r] ELSE Admitted(r)
  <2> SUFFICES ASSUME NEW r \in Resources
               PROVE  Admitted(r)' = IF r \in S THEN Admitted(r) - held[r] ELSE Admitted(r)
    OBVIOUS
  <2> DEFINE left(t) == IF t \in S THEN totals[t] - held[t] ELSE totals[t]
             kept == {t \in DOMAIN totals : t \in S => left(t) # 0}
  <2>1. totals' = [t \in kept |-> left(t)]
    BY <1>2 DEF Release
  <2>2. CASE r \in S
    BY <1>3, <2>1, <2>2 DEF Admitted
  <2>3. CASE r \notin S
    BY <2>1, <2>3 DEF Admitted
  <2> QED
    BY <2>2, <2>3
<1>5. LedgerTypeOK'
  <2>1. (Held \subseteq Decisions /\ by_decision \in [Held -> Grants])'
    BY <1>1 DEF LedgerInv, LedgerTypeOK, Release, Held
  <2>2. (DOMAIN totals \subseteq Resources /\ totals \in [DOMAIN totals -> U64])'
    <3> DEFINE left(t) == IF t \in S THEN totals[t] - held[t] ELSE totals[t]
               kept == {t \in DOMAIN totals : t \in S => left(t) # 0}
    <3>1. totals' = [t \in kept |-> left(t)]
      BY <1>2 DEF Release
    <3>2. \A t \in DOMAIN totals : left(t) \in U64
      BY <1>2, <1>3, LedgerAssumption DEF LedgerInv, LedgerTypeOK, U64
    <3> HIDE DEF left
    <3> QED
      BY <3>1, <3>2 DEF LedgerInv, LedgerTypeOK
  <2>3. (DOMAIN path_totals \subseteq Paths /\ path_totals \in [DOMAIN path_totals -> U64])'
    <3> DEFINE path == by_decision[d].path
               pathLeft == WrapSub(path_totals[path], SaturatedTotal(held))
    <3>1. CASE path \notin DOMAIN path_totals
      BY <3>1 DEF LedgerInv, LedgerTypeOK, Release
    <3>2. CASE path \in DOMAIN path_totals
      <4>1. SaturatedTotal(held) \in Nat
        <5>1. IsFiniteSet(AmountUnits(held))
          <6>1. IsFiniteSet(1 .. MaxU64)
            BY FS_Interval, LedgerAssumption
          <6>2. IsFiniteSet(S \X (1 .. MaxU64))
            BY <1>2, <6>1, FS_Product, Zenon
          <6>3. AmountUnits(held) \in SUBSET (S \X (1 .. MaxU64))
            BY <1>2 DEF AmountUnits
          <6> QED
            BY <6>2, <6>3, FS_Subset
        <5>2. Cardinality(AmountUnits(held)) \in Nat
          BY <5>1, FS_CardinalityType
        <5> QED
          BY <5>2, LedgerAssumption DEF SaturatedTotal
      <4>2. path_totals[path] \in Nat
        BY <3>2, LedgerAssumption DEF LedgerInv, LedgerTypeOK, U64
      <4>3. pathLeft \in U64
        BY <4>1, <4>2, LedgerAssumption DEF WrapSub, U64
      <4>4. path_totals' = [p \in {q \in DOMAIN path_totals : q = path => pathLeft # 0} |->
                              IF p = path THEN pathLeft ELSE path_totals[p]]
        BY <3>2 DEF Release
      <4> HIDE DEF pathLeft
      <4> QED
        BY <4>3, <4>4 DEF LedgerInv, LedgerTypeOK
    <3> QED
      BY <3>1, <3>2
  <2>4. entry_count' \in Nat
    <3>1. {d} \X S \in SUBSET Entries
      BY <1>1, <1>2 DEF Entries
    <3>2. Cardinality({d} \X S) <= Cardinality(Entries)
      BY <3>1, EntriesFinite, FS_Subset DEF LedgerInv
    <3>3. Cardinality(S) <= entry_count
      BY <1>2, <3>2, BlockOfEntries DEF LedgerInv, EntryCountExact, Entries
    <3>4. entry_count' = entry_count - Cardinality(S)
      BY <1>2 DEF Release
    <3> QED
      BY <1>2, <3>3, <3>4, FS_CardinalityType DEF LedgerInv, LedgerTypeOK
  <2> QED
    BY <2>1, <2>2, <2>3, <2>4 DEF LedgerTypeOK
<1>6. LedgerFinite'
  BY <1>1, FS_RemoveElement DEF LedgerInv, LedgerFinite
<1>7. TotalsExact'
  <2> SUFFICES ASSUME NEW r \in Resources
               PROVE  Admitted(r)' = Cardinality(LoadUnits(r)')
    BY DEF TotalsExact
  <2>1. Admitted(r) = Cardinality(LoadUnits(r)) /\ Admitted(r) \in Nat
    BY AdmittedType, LedgerAssumption DEF LedgerInv, TotalsExact, U64
  <2>2. IsFiniteSet(LoadUnits(r)')
    <3>1. LoadUnits(r)' \in SUBSET LoadUnits(r)
      BY <1>1 DEF LoadUnits, HeldOn
    <3>2. IsFiniteSet(LoadUnits(r))
      BY LoadUnitsFinite, LedgerAssumption DEF LedgerInv
    <3> QED
      BY <3>1, <3>2, FS_Subset
  <2>3. CASE r \in S
    <3> DEFINE block == {d} \X (1 .. held[r])
    <3>1. LoadUnits(r) = LoadUnits(r)' \cup block
      <4>1. LoadUnits(r) \subseteq LoadUnits(r)' \cup block
        BY <1>1, <1>2, <2>3, LedgerAssumption DEF LoadUnits, HeldOn, U64
      <4>2. LoadUnits(r)' \subseteq LoadUnits(r)
        BY <1>1 DEF LoadUnits, HeldOn
      <4>3. block \subseteq LoadUnits(r)
        BY <1>1, <1>2, <2>3, LedgerAssumption DEF LoadUnits, HeldOn, U64
      <4> QED
        BY <4>1, <4>2, <4>3
    <3>2. LoadUnits(r)' \cap block = {}
      BY <1>1 DEF LoadUnits
    <3>3. IsFiniteSet(block) /\ Cardinality(block) = held[r]
      BY <1>2, <2>3, BlockOfUnits
    <3>4. Cardinality(LoadUnits(r)) = Cardinality(LoadUnits(r)') + held[r]
      BY <2>2, <3>1, <3>2, <3>3, DisjointUnion
    <3>5. Cardinality(LoadUnits(r)') \in Nat
      BY <2>2, FS_CardinalityType
    <3> QED
      BY <1>2, <1>4, <2>1, <2>3, <3>4, <3>5
  <2>4. CASE r \notin S
    <3>1. LoadUnits(r)' = LoadUnits(r)
      BY <1>1, <2>4 DEF LoadUnits, HeldOn
    <3> QED
      BY <1>4, <2>1, <2>4, <3>1
  <2> QED
    BY <2>3, <2>4
<1>8. EntryCountExact'
  <2>1. Entries = Entries' \cup ({d} \X S)
    BY <1>1, <1>2 DEF Entries, HeldOn
  <2>2. Entries' \cap ({d} \X S) = {}
    BY <1>1 DEF Entries
  <2>3. IsFiniteSet(Entries')
    <3>1. Entries' \in SUBSET Entries
      BY <1>1 DEF Entries, HeldOn
    <3>2. IsFiniteSet(Entries)
      BY EntriesFinite DEF LedgerInv
    <3> QED
      BY <3>1, <3>2, FS_Subset
  <2>4. IsFiniteSet({d} \X S) /\ Cardinality({d} \X S) = Cardinality(S)
    BY <1>2, BlockOfEntries
  <2>5. Cardinality(Entries) = Cardinality(Entries') + Cardinality(S)
    BY <2>1, <2>2, <2>3, <2>4, DisjointUnion
  <2>6. Cardinality(Entries') \in Nat /\ Cardinality(S) \in Nat
    BY <1>2, <2>3, FS_CardinalityType
  <2>7. entry_count' = entry_count - Cardinality(S)
    BY <1>2 DEF Release
  <2> QED
    BY <2>5, <2>6, <2>7 DEF EntryCountExact, Entries, LedgerInv
<1> QED
  BY <1>5, <1>6, <1>7, <1>8 DEF LedgerInv

LEMMA RollbackKeepsLedger ==
    ASSUME LedgerInv, NEW d, NEW path, NEW amounts, ReserveRolledBack(d, path, amounts)
    PROVE  LedgerInv'
<1>1. /\ UNCHANGED <<by_decision, path_totals, entry_count>>
      /\ totals' = [r \in {t \in DOMAIN totals : t \in DOMAIN amounts => totals[t] # 0} |-> totals[r]]
  BY DEF ReserveRolledBack
<1>2. \A r \in Resources : Admitted(r)' = Admitted(r)
  BY <1>1 DEF Admitted
<1>3. LedgerTypeOK'
  BY <1>1 DEF LedgerInv, LedgerTypeOK, Held
<1>4. LedgerFinite' /\ EntryCountExact'
  BY <1>1 DEF LedgerInv, LedgerFinite, EntryCountExact, Held, HeldOn
<1>5. TotalsExact'
  BY <1>1, <1>2 DEF LedgerInv, TotalsExact, LoadUnits, Held, HeldOn
<1> QED
  BY <1>3, <1>4, <1>5 DEF LedgerInv

LEMMA FlagsKeepLedger ==
    ASSUME LedgerInv, NEW flag \in BOOLEAN, SetFlags(flag)
    PROVE  /\ LedgerInv'
           /\ Held' = Held
           /\ \A d \in Held : by_decision'[d].amounts = by_decision[d].amounts
           /\ UNCHANGED totals
<1>1. /\ Held' = Held
      /\ UNCHANGED <<totals, path_totals, entry_count>>
      /\ by_decision' = [d \in Held |-> [by_decision[d] EXCEPT !.requires_revalidation = flag]]
  BY DEF SetFlags, Held
<1>2. \A d \in Held : /\ by_decision'[d] \in Grants
                      /\ by_decision'[d].amounts = by_decision[d].amounts
  <2> SUFFICES ASSUME NEW d \in Held
               PROVE  /\ by_decision'[d] \in Grants
                      /\ by_decision'[d].amounts = by_decision[d].amounts
    OBVIOUS
  <2>1. by_decision[d] \in Grants
    BY DEF LedgerInv, LedgerTypeOK
  <2> QED
    BY <1>1, <2>1 DEF Grants
<1>3. LedgerTypeOK'
  BY <1>1, <1>2 DEF LedgerInv, LedgerTypeOK, Held
<1>4. \A d \in Held : HeldOn(d)' = HeldOn(d)
  BY <1>1, <1>2 DEF HeldOn
<1>5. LedgerFinite' /\ EntryCountExact'
  BY <1>1, <1>4 DEF LedgerInv, LedgerFinite, EntryCountExact
<1>6. \A r \in Resources : LoadUnits(r)' = LoadUnits(r)
  BY <1>1, <1>2, <1>4 DEF LoadUnits
<1>7. TotalsExact'
  BY <1>1, <1>6 DEF LedgerInv, TotalsExact, Admitted
<1> QED
  BY <1>1, <1>2, <1>3, <1>5, <1>7 DEF LedgerInv

LEMMA EmptyLedger == LedgerInit => LedgerInv
<1> SUFFICES ASSUME LedgerInit PROVE LedgerInv
  OBVIOUS
<1>1. Held = {} /\ DOMAIN totals = {} /\ DOMAIN path_totals = {}
  BY DEF LedgerInit, Held
<1>2. Cardinality({}) = 0 /\ IsFiniteSet({})
  BY FS_EmptySet
<1>3. LedgerTypeOK
  BY <1>1 DEF LedgerTypeOK, LedgerInit
<1>4. \A r \in Resources : LoadUnits(r) = {} /\ Admitted(r) = 0
  BY <1>1 DEF LoadUnits, Admitted
<1>5. {e \in Held \X Resources : e[2] \in HeldOn(e[1])} = {}
  BY <1>1
<1> QED
  BY <1>1, <1>2, <1>3, <1>4, <1>5
     DEF LedgerInv, LedgerFinite, TotalsExact, EntryCountExact, LedgerInit

(* What the callers of the ledger see of a reservation and of a release. *)

LEMMA ReserveEffect ==
    ASSUME LedgerInv, NEW d, NEW path, NEW amounts, Reserve(d, path, amounts)
    PROVE  /\ d \notin Held
           /\ Held' = Held \cup {d}
           /\ \A e \in Held : by_decision'[e] = by_decision[e]
           /\ HeldOn(d)' = DOMAIN amounts
           /\ \A r \in DOMAIN amounts : Admitted(r)' = Admitted(r) + amounts[r]
           /\ \A r : r \notin DOMAIN amounts => Admitted(r)' = Admitted(r)
BY DEF Reserve, TotalsWith, NewEntry, CanReserve, Held, HeldOn, Admitted

LEMMA ReservedReleasable ==
    ASSUME LedgerInv, NEW d, NEW path, NEW amounts \in AmountMaps, Reserve(d, path, amounts)
    PROVE  ~Underflows(d)'
<1>1. PICK S \in (SUBSET Resources) \ {{}} : amounts \in [S -> U64]
  BY DEF AmountMaps
<1>2. /\ HeldOn(d)' = S
      /\ by_decision'[d].amounts = amounts
      /\ \A r \in S : r \in DOMAIN totals' /\ totals'[r] = Admitted(r) + amounts[r]
  BY <1>1 DEF Reserve, TotalsWith, NewEntry, Admitted, HeldOn, Held
<1>3. \A r \in S : Admitted(r) \in Nat /\ amounts[r] \in Nat
  BY <1>1, AdmittedType, LedgerAssumption DEF LedgerInv, U64
<1> QED
  BY <1>2, <1>3 DEF Underflows

LEMMA ReleaseEffect ==
    ASSUME LedgerInv, NEW d, Release(d)
    PROVE  /\ d \in Held
           /\ Held' = Held \ {d}
           /\ \A e \in Held' : by_decision'[e] = by_decision[e]
           /\ \A r \in Resources : Admitted(r)' \in Nat /\ Admitted(r)' <= Admitted(r)
<1>1. /\ d \in Held
      /\ Held' = Held \ {d}
      /\ \A e \in Held' : by_decision'[e] = by_decision[e]
  BY DEF Release, Holds, Held
<1> DEFINE held == by_decision[d].amounts
           left(r) == IF r \in DOMAIN held THEN totals[r] - held[r] ELSE totals[r]
<1>2. totals' = [r \in {t \in DOMAIN totals : t \in DOMAIN held => left(t) # 0} |-> left(r)]
  BY DEF Release
<1>3. ASSUME NEW r \in Resources
      PROVE  Admitted(r)' \in Nat /\ Admitted(r)' <= Admitted(r)
  <2>1. Admitted(r) \in Nat
    BY AdmittedType, LedgerAssumption DEF LedgerInv, U64
  <2>2. r \in DOMAIN totals => totals[r] \in Nat
    BY LedgerAssumption DEF LedgerInv, LedgerTypeOK, U64
  <2>3. r \in DOMAIN held => held[r] \in Nat /\ r \in DOMAIN totals /\ held[r] <= totals[r]
    <3> SUFFICES ASSUME r \in DOMAIN held
                 PROVE  held[r] \in Nat /\ r \in DOMAIN totals /\ held[r] <= totals[r]
      OBVIOUS
    <3>1. held[r] \in Nat
      BY <1>1, HeldOnType, LedgerAssumption DEF LedgerInv, HeldOn, U64
    <3>2. r \in DOMAIN totals /\ ~(totals[r] < held[r])
      BY DEF Release, Underflows, HeldOn
    <3> QED
      BY <2>2, <3>1, <3>2
  <2> HIDE DEF held
  <2> QED
    BY <1>2, <2>1, <2>2, <2>3 DEF Admitted
<1> QED
  BY <1>1, <1>3

LEMMA UnchangedKeepsLedger ==
    ASSUME LedgerInv, UNCHANGED ledgerVars
    PROVE  LedgerInv'
BY DEF ledgerVars, LedgerInv, LedgerTypeOK, LedgerFinite, TotalsExact, EntryCountExact,
       Held, HeldOn, Admitted, LoadUnits

-----------------------------------------------------------------------------
(* Every live grant holds a positive amount of each of its resources. *)
HeldPositive == \A d \in Held : \A r \in HeldOn(d) : by_decision[d].amounts[r] # 0

LEMMA PositiveReserve ==
    ASSUME HeldPositive, NEW d, NEW path, NEW amounts,
           \A r \in DOMAIN amounts : amounts[r] # 0,
           Reserve(d, path, amounts)
    PROVE  HeldPositive'
BY DEF HeldPositive, Held, HeldOn, Reserve, NewEntry

LEMMA PositiveRollback ==
    ASSUME HeldPositive, NEW d, NEW path, NEW amounts, ReserveRolledBack(d, path, amounts)
    PROVE  HeldPositive'
BY DEF HeldPositive, Held, HeldOn, ReserveRolledBack

LEMMA PositiveRelease ==
    ASSUME HeldPositive, NEW d, Release(d)
    PROVE  HeldPositive'
BY DEF HeldPositive, Held, HeldOn, Release

LEMMA PositiveFlags ==
    ASSUME LedgerInv, HeldPositive, NEW flag \in BOOLEAN, SetFlags(flag)
    PROVE  HeldPositive'
<1>1. Held' = Held /\ \A d \in Held : by_decision'[d].amounts = by_decision[d].amounts
  BY FlagsKeepLedger
<1> QED
  BY <1>1 DEF HeldPositive, HeldOn

LEMMA PositiveUnchanged ==
    ASSUME HeldPositive, UNCHANGED ledgerVars
    PROVE  HeldPositive'
BY DEF ledgerVars, HeldPositive, Held, HeldOn

LEMMA PositiveReleasable == LedgerInv /\ HeldPositive => Releasable
<1> SUFFICES ASSUME LedgerInv, HeldPositive, NEW d \in Held, NEW r \in HeldOn(d)
             PROVE  r \in DOMAIN totals /\ ~(totals[r] < by_decision[d].amounts[r])
  BY DEF Releasable, Underflows
<1>1. by_decision[d].amounts[r] <= Admitted(r)
  BY HolderCovered
<1>2. by_decision[d].amounts[r] \in U64 /\ by_decision[d].amounts[r] # 0
  BY HeldOnType DEF LedgerInv, HeldPositive
<1>3. r \in Resources /\ Admitted(r) \in U64
  BY HeldOnType, AdmittedType DEF LedgerInv
<1> QED
  BY <1>1, <1>2, <1>3, LedgerAssumption DEF Admitted, U64
=============================================================================
