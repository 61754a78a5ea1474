----------------------------- MODULE Authority ------------------------------
(***************************************************************************)
(* The authority the engine decides by (src/engine/engine.cpp, src/model): *)
(* the current policy, capacity, reservations, paths and catalogs, each    *)
(* published by the runtime that owns it, and the fencing identity of the  *)
(* coordinator.  The constants hold everything the owners may ever publish,*)
(* ill-formed snapshots included.                                          *)
(*                                                                         *)
(* A list that validate() requires to be strictly increasing is a function *)
(* from its keys: a capacity entry is found by its resource, an obligation *)
(* by its resource and reservation.                                        *)
(***************************************************************************)
EXTENDS Ledger

CONSTANTS
    None,                                            \* an empty std::optional
    Policies, Capacities, Reservations, PathCatalogs, QosCatalogs, PriorityCatalogs,
    MaxTick                                          \* bound on the logical clock

VARIABLES
    policy, capacity, reservations, paths, qos, priorities,   \* current authority, or None
    tick,                     \* logical clock
    epoch,                    \* fabric epoch; 0 is FabricEpoch::none()
    incarnation,              \* coordinator incarnation
    pending_reconciliation    \* recovered load has not met republished capacity

authorityVars == <<policy, capacity, reservations, paths, qos, priorities, tick,
                   epoch, incarnation, pending_reconciliation>>

CapacityEntries == [evidence : {"Known", "Unknown"}, generation : Nat,
                    usable : U64, mandatory_headroom : U64]

Obligations == [reserved : U64, generation : Nat, release_tick : Nat, inviolable : BOOLEAN]

ASSUME AuthorityAssumption ==
    /\ MaxTick \in Nat
    /\ None \notin Policies \cup Capacities \cup Reservations \cup PathCatalogs
                            \cup QosCatalogs \cup PriorityCatalogs
    /\ \A c \in Capacities : /\ c.generation \in Nat \ {0} /\ c.observed_tick \in Nat
                             /\ DOMAIN c.resources \subseteq Resources
                             /\ \A r \in DOMAIN c.resources : c.resources[r] \in CapacityEntries
    /\ \A s \in Reservations : /\ s.generation \in Nat \ {0} /\ s.observed_tick \in Nat
                               /\ IsFiniteSet(DOMAIN s.obligations)
                               /\ \A o \in DOMAIN s.obligations : s.obligations[o] \in Obligations
    /\ \A p \in Policies : /\ p.generation \in Nat \ {0} /\ p.observed_tick \in Nat
                           /\ p.headroom_permille \in Nat /\ p.headroom_floor \in U64
    /\ \A p \in PathCatalogs : /\ p.generation \in Nat \ {0} /\ p.observed_tick \in Nat
                               /\ DOMAIN p.paths \subseteq Paths
                               /\ \A x \in DOMAIN p.paths : /\ p.paths[x].usable \in U64
                                                            /\ p.paths[x].resources \subseteq Resources
    /\ \A q \in QosCatalogs \cup PriorityCatalogs : q.generation \in Nat \ {0} /\ q.observed_tick \in Nat

-----------------------------------------------------------------------------
(* validate() of each publication, as far as it depends on values *)

ValidPolicy(p) == p.headroom_permille <= 1000

ValidCapacity(c) ==
    \A r \in DOMAIN c.resources :
       LET entry == c.resources[r]
       IN  IF entry.evidence = "Unknown"
           THEN entry.usable = 0 /\ entry.mandatory_headroom = 0
           ELSE entry.mandatory_headroom <= entry.usable

\* The obligations of a snapshot on one resource, and their sum in units of rate.
ObligationsOn(s, r) == {o \in DOMAIN s.obligations : o[1] = r}

ObligationUnits(s, r) ==
    {u \in ObligationsOn(s, r) \X (1 .. MaxU64) : u[2] <= s.obligations[u[1]].reserved}

ValidReservations(s) == \A r \in Resources : Cardinality(ObligationUnits(s, r)) <= MaxU64

ValidQos(c) ==
    \A x \in DOMAIN c.classes : /\ c.classes[x].minimum_rate <= c.classes[x].maximum_rate
                                /\ c.classes[x].maximum_rate # 0

-----------------------------------------------------------------------------
(* Lookups *)

\* find_capacity() finds an entry, and its evidence is Known.
Known(r) ==
    /\ capacity # None
    /\ r \in DOMAIN capacity.resources
    /\ capacity.resources[r].evidence = "Known"

Published(p) == paths # None /\ p \in DOMAIN paths.paths

\* obligations_for(): sat_add over the obligation index of the resource.
ObligationsFor(r) ==
    IF reservations = None THEN 0
    ELSE Min({MaxU64, Cardinality(ObligationUnits(reservations, r))})

ObligationReleasesWithin(r, horizon) ==
    /\ reservations # None
    /\ \E o \in ObligationsOn(reservations, r) :
          /\ ~reservations.obligations[o].inviolable
          /\ reservations.obligations[o].release_tick > tick
          /\ reservations.obligations[o].release_tick <= horizon

HeadroomFor(r) ==
    LET entry  == capacity.resources[r]
        wanted == {entry.mandatory_headroom} \cup
                  (IF policy = None THEN {}
                   ELSE {(entry.usable * policy.headroom_permille) \div 1000,
                         policy.headroom_floor})
    IN  Min({Max(wanted), entry.usable})

\* What admission may hold on a resource, once headroom and obligations are
\* kept.
Allowance(r) ==
    SatSub(SatSub(capacity.resources[r].usable, HeadroomFor(r)), ObligationsFor(r))

\* Faulty: the subtraction is not saturating.
AvailableForNewWrapping(r) == WrapSub(Allowance(r), Admitted(r))

AvailableForNew(r) == SatSub(Allowance(r), Admitted(r))

PathFree(p) == SatSub(paths.paths[p].usable, AdmittedOnPath(p))

\* The test of enforce_accounting_locked() and of revalidate_locked(): every
\* resource a decision holds load on is known and within its allowance.
Fits(d) == \A r \in HeldOn(d) : Known(r) /\ Admitted(r) <= Allowance(r)

Readiness ==
    IF policy = None THEN "AwaitingPolicy"
    ELSE IF capacity = None THEN "AwaitingCapacity"
    ELSE IF reservations = None THEN "AwaitingReservations"
    ELSE IF qos = None \/ priorities = None THEN "AwaitingCatalogs"
    ELSE IF policy.require_path_binding /\ paths = None THEN "AwaitingPaths"
    ELSE IF pending_reconciliation THEN "WaitingForReconciliation"
    ELSE "Ready"

-----------------------------------------------------------------------------
AuthorityInit ==
    /\ policy = None /\ capacity = None /\ reservations = None
    /\ paths = None /\ qos = None /\ priorities = None
    /\ tick = 0
    /\ pending_reconciliation = FALSE

\* A publication becomes current when nothing is current or its generation is
\* newer.  One of an older generation is refused, and one of the current
\* generation changes nothing, whether its content is the same or not.
Supersedes(new, current) == current # None => new.generation > current.generation

ObserveTick(new) == tick' = Max({tick, new.observed_tick})

InvalidateCapacity ==
    /\ capacity' = None
    /\ UNCHANGED <<policy, reservations, paths, qos, priorities, tick, epoch, incarnation,
                   pending_reconciliation>>

InvalidatePaths ==
    /\ paths' = None
    /\ UNCHANGED <<policy, capacity, reservations, qos, priorities, tick, epoch, incarnation,
                   pending_reconciliation>>

PublishPaths(c) ==
    /\ epoch # 0
    /\ Supersedes(c, paths)
    /\ paths' = c
    /\ ObserveTick(c)
    /\ UNCHANGED <<policy, capacity, reservations, qos, priorities, epoch, incarnation,
                   pending_reconciliation>>

PublishQos(c) ==
    /\ ValidQos(c)
    /\ epoch # 0
    /\ Supersedes(c, qos)
    /\ qos' = c
    /\ ObserveTick(c)
    /\ UNCHANGED <<policy, capacity, reservations, paths, priorities, epoch, incarnation,
                   pending_reconciliation>>

PublishPriorities(c) ==
    /\ epoch # 0
    /\ Supersedes(c, priorities)
    /\ priorities' = c
    /\ ObserveTick(c)
    /\ UNCHANGED <<policy, capacity, reservations, paths, qos, epoch, incarnation,
                   pending_reconciliation>>

AdvanceTick ==
    /\ \E ticks \in 1 .. MaxTick : tick + ticks <= MaxTick /\ tick' = tick + ticks
    /\ UNCHANGED <<policy, capacity, reservations, paths, qos, priorities, epoch, incarnation,
                   pending_reconciliation>>

PolicyAcceptable(p) ==
    /\ ValidPolicy(p)
    /\ epoch # 0
    /\ p.epoch = epoch
    /\ Supersedes(p, policy)

\* The part of the three enforced publications that precedes enforcement.
AcceptPolicy(p) ==
    /\ PolicyAcceptable(p)
    /\ policy' = p
    /\ ObserveTick(p)
    /\ UNCHANGED <<capacity, reservations, paths, qos, priorities, epoch, incarnation>>

AcceptCapacity(c) ==
    /\ ValidCapacity(c)
    /\ epoch # 0
    /\ c.epoch = epoch
    /\ Supersedes(c, capacity)
    /\ capacity' = c
    /\ ObserveTick(c)
    /\ UNCHANGED <<policy, reservations, paths, qos, priorities, epoch, incarnation>>

AcceptReservations(s) ==
    /\ ValidReservations(s)
    /\ epoch # 0
    /\ Supersedes(s, reservations)
    /\ reservations' = s
    /\ ObserveTick(s)
    /\ UNCHANGED <<policy, capacity, paths, qos, priorities, epoch, incarnation>>

-----------------------------------------------------------------------------
\* "Admitted load plus protected obligations plus headroom never exceeds
\* authoritative usable capacity" (README.md, Invariants), wherever admission
\* holds load, and it holds none where the capacity is unknown.
Closed ==
    \A r \in Resources :
       Admitted(r) > 0 =>
          /\ Known(r)
          /\ Admitted(r) + ObligationsFor(r) + HeadroomFor(r) <= capacity.resources[r].usable
=============================================================================
