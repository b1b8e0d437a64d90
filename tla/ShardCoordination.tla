--------------------------- MODULE ShardCoordination ---------------------------
(***************************************************************************)
(* Several ClusterShardingRuntimes that coordinate one entity type through *)
(* a shared coordinator store and, when configured, a leadership lease.    *)
(*                                                                         *)
(* A runtime is one task that owns its state (&mut self), so its calls do  *)
(* not overlap each other, but between two awaits of a call the other      *)
(* runtimes run.  at[n] is the await runtime n is at:                      *)
(*    lead     it has asked the lease backend to renew or acquire,         *)
(*    load     register_region_async has asked the store for the state,    *)
(*    persist  it has asked the store to compare-and-set a snapshot.       *)
(*                                                                         *)
(* The lease and store backends are the in-memory ones (FencedStore FALSE: *)
(* the store ignores the token) or the PostgreSQL ones (FencedStore TRUE). *)
(* Expiry is a step of its own: the lease record's by the backend's clock, *)
(* the token's by the runtime's clock.  A missing store row is revision 0, *)
(* as the source reads it; a missing lease record or token is fence 0.     *)
(***************************************************************************)
EXTENDS Integers, FiniteSets

CONSTANTS
    Nodes,            \* the runtimes, by local node id (positive integers)
    OwnerMaps,        \* ownership maps
    NoOwners,         \* the map of a fresh coordinator
    Reconcile(_, _),  \* ShardCoordinator::reconcile of a routable set and a map
    Leasing,          \* deployments: "none" without a coordinator lease, "kept" with one
    FencedStore,      \* whether the store checks the lease's fencing token
    Faults,           \* backend faults: "refused" (no effect), "lost" (the reply is lost)
    Views,            \* routable sets a membership call may produce
    MaxRegions,       \* bound on the regions one runtime registers (1 or 2)
    MaxRevision,      \* bound on coordinator revisions
    MaxFence          \* bound on fencing tokens

ASSUME CoordinationAssumption ==
    /\ Nodes \subseteq Nat \ {0}
    /\ NoOwners \in OwnerMaps
    /\ Leasing \subseteq {"none", "kept"} /\ FencedStore \in BOOLEAN
    /\ MaxRevision \in Nat /\ MaxFence \in Nat /\ MaxRegions \in 1..2
    /\ {} \in Views /\ Views \subseteq SUBSET Nodes
    /\ \A R \in Views : \A own \in OwnerMaps : Reconcile(R, own) \in OwnerMaps

VARIABLES
    view,     \* per runtime: its routable members
    regions,  \* per runtime: how many regions of the type it registered
    coord,    \* per runtime: the coordinator's revision and map
    token,    \* per runtime: its lease token
    at, job,  \* per runtime: the await it is at, and the call's locals
    cache,    \* per runtime: the snapshot its first region was last given
    late,     \* per runtime: the snapshot a region registered later was given
    lease,    \* the lease backend's record
    row,      \* the store's row
    written,  \* every snapshot the store ever held
    leasing   \* the deployment; "released" once some runtime released the lease

runtimeVars == <<view, regions, coord, token, at, job, cache, late>>
coordinationVars ==
    <<view, regions, coord, token, at, job, cache, late, lease, row, written, leasing>>

Snapshots == [rev : Nat, own : OwnerMaps]

Fresh == [rev |-> 0, own |-> NoOwners]

NoToken == [fence |-> 0, fresh |-> FALSE]

NoLease == [holder |-> 0, fence |-> 0, live |-> FALSE]

NoJob == [register |-> FALSE, base |-> Fresh, next |-> Fresh]

Stored == [rev |-> row.rev, own |-> row.own]

CoordinationInit ==
    /\ view = [n \in Nodes |-> {}]
    /\ regions = [n \in Nodes |-> 0]
    /\ coord = [n \in Nodes |-> Fresh]
    /\ token = [n \in Nodes |-> NoToken]
    /\ at = [n \in Nodes |-> "idle"]
    /\ job = [n \in Nodes |-> NoJob]
    /\ cache = [n \in Nodes |-> Fresh]
    /\ late = [n \in Nodes |-> Fresh]
    /\ lease = NoLease
    /\ row = [rev |-> 0, own |-> NoOwners, fence |-> 0]
    /\ written = {Fresh}
    /\ leasing \in Leasing

------------------------------------------------------------------------------
(***************************************************************************)
(* Calls.  Every membership call (discovery, heartbeat, leaving, down,     *)
(* tick) updates the view first and then reconciles the coordinators the   *)
(* runtime has; the view stays changed when the rest fails.                *)
(***************************************************************************)
MembershipCall(n, R) ==
    /\ at[n] = "idle"
    /\ coord[n].rev < MaxRevision
    /\ view' = [view EXCEPT ![n] = R]
    /\ at' = [at EXCEPT ![n] = IF regions[n] > 0 THEN "lead" ELSE "idle"]
    /\ UNCHANGED <<regions, coord, token, job, cache, late, lease, row, written, leasing>>

RegisterRegion(n) ==
    /\ at[n] = "idle"
    /\ regions[n] = 0
    /\ row.rev < MaxRevision
    /\ at' = [at EXCEPT ![n] = "lead"]
    /\ job' = [job EXCEPT ![n] = [NoJob EXCEPT !.register = TRUE]]
    /\ UNCHANGED <<view, regions, coord, token, cache, late, lease, row, written, leasing>>

\* A further region of the type: ensure_coordinator returns at once, so the region is
\* given the coordinator's in-memory snapshot.
RegisterAnotherRegion(n) ==
    /\ at[n] = "idle"
    /\ 0 < regions[n] /\ regions[n] < MaxRegions
    /\ regions' = [regions EXCEPT ![n] = 2]
    /\ late' = [late EXCEPT ![n] = coord[n]]
    /\ UNCHANGED <<view, coord, token, at, job, cache, lease, row, written, leasing>>

------------------------------------------------------------------------------
\* reconcile: the revision advances when some shard's owner changed.
Reconciled(n, base) ==
    LET own == Reconcile(view[n], base.own)
    IN  IF own = base.own THEN base ELSE [rev |-> base.rev + 1, own |-> own]

\* After leadership is settled: a registration loads the store; a membership call
\* reconciles the coordinator in place and, if the plan is not empty, persists it.
Proceed(n) ==
    LET next == Reconciled(n, coord[n])
    IN  \/ /\ job[n].register
           /\ at' = [at EXCEPT ![n] = "load"]
           /\ UNCHANGED <<coord, job>>
        \/ /\ ~job[n].register
           /\ next = coord[n]
           /\ at' = [at EXCEPT ![n] = "idle"]
           /\ UNCHANGED <<coord, job>>
        \/ /\ ~job[n].register
           /\ next # coord[n]
           /\ at' = [at EXCEPT ![n] = "persist"]
           /\ coord' = [coord EXCEPT ![n] = next]
           /\ job' = [job EXCEPT ![n] = [register |-> FALSE, base |-> coord[n], next |-> next]]

\* An error ends the call; what the call changed before stays.
Fail(n) ==
    /\ at' = [at EXCEPT ![n] = "idle"]
    /\ job' = [job EXCEPT ![n] = NoJob]
    /\ UNCHANGED coord

------------------------------------------------------------------------------
(* ensure_coordinator_leadership *)

UseLease == leasing # "none"

HoldsLease(n) == lease.fence = token[n].fence /\ lease.holder = n

LeadWithoutLease(n) ==
    /\ at[n] = "lead"
    /\ ~UseLease
    /\ Proceed(n)
    /\ UNCHANGED <<view, regions, token, cache, late, lease, row, written, leasing>>

\* A token that the runtime's clock finds unexpired is renewed, and dropped on any
\* error.  The kept token's expiry is not moved.
Renews(n) == UseLease /\ at[n] = "lead" /\ token[n].fresh

RenewSucceeds(n) ==
    /\ Renews(n)
    /\ HoldsLease(n) /\ lease.live
    /\ Proceed(n)
    /\ UNCHANGED <<view, regions, token, cache, late, lease, row, written, leasing>>

RenewLost(n) ==
    /\ Renews(n)
    /\ ~(HoldsLease(n) /\ lease.live) \/ Faults # {}
    /\ token' = [token EXCEPT ![n] = NoToken]
    /\ Fail(n)
    /\ UNCHANGED <<view, regions, cache, late, lease, row, written, leasing>>

Acquires(n) == UseLease /\ at[n] = "lead" /\ ~token[n].fresh

Grantable(n) == lease.fence = 0 \/ lease.holder = n \/ ~lease.live

GrantKeepsFence(n) ==
    [holder |-> n, live |-> TRUE, fence |-> IF lease.fence = 0 THEN 1 ELSE lease.fence]

\* The fencing token advances when the holder changes and starts at 1 in a new record.
Grant(n) ==
    IF lease.fence = 0 THEN [holder |-> n, fence |-> 1, live |-> TRUE]
    ELSE [holder |-> n, live |-> TRUE,
          fence |-> IF lease.holder = n THEN lease.fence ELSE lease.fence + 1]

AcquireSucceeds(n) ==
    /\ Acquires(n)
    /\ Grantable(n)
    /\ lease' = Grant(n)
    /\ token' = [token EXCEPT ![n] = [fence |-> Grant(n).fence, fresh |-> TRUE]]
    /\ Proceed(n)
    /\ UNCHANGED <<view, regions, cache, late, row, written, leasing>>

\* The backend granted the lease, but its reply was lost.
AcquireLost(n) ==
    /\ Acquires(n)
    /\ Grantable(n)
    /\ "lost" \in Faults
    /\ lease' = Grant(n)
    /\ Fail(n)
    /\ UNCHANGED <<view, regions, token, cache, late, row, written, leasing>>

AcquireRejected(n) ==
    /\ Acquires(n)
    /\ ~Grantable(n) \/ "refused" \in Faults
    /\ Fail(n)
    /\ UNCHANGED <<view, regions, token, cache, late, lease, row, written, leasing>>

------------------------------------------------------------------------------
\* The rest of ensure_coordinator: restore or create the coordinator and reconcile it.
\* It is kept only if nothing had to be persisted or, later, once it was persisted.
Load(n) ==
    LET base == Stored
        next == Reconciled(n, base)
    IN  /\ at[n] = "load"
        /\ \/ /\ next = base
              /\ regions' = [regions EXCEPT ![n] = 1]
              /\ coord' = [coord EXCEPT ![n] = base]
              /\ cache' = [cache EXCEPT ![n] = base]
              /\ at' = [at EXCEPT ![n] = "idle"]
              /\ job' = [job EXCEPT ![n] = NoJob]
           \/ /\ next # base
              /\ at' = [at EXCEPT ![n] = "persist"]
              /\ job' = [job EXCEPT ![n] = [register |-> TRUE, base |-> base, next |-> next]]
              /\ UNCHANGED <<regions, coord, cache>>
        /\ UNCHANGED <<view, token, late, lease, row, written, leasing>>

FenceAhead(n) == IF UseLease THEN token[n].fence + 1 ELSE 0

Fence(n) == IF UseLease THEN token[n].fence ELSE 0

CasIgnoresRevision(n) ==
    FencedStore /\ job[n].base.rev > 0 => row.fence <= Fence(n)

\* compare_and_set: an insert (expected revision 0) checks no fencing token.
RowAccepts(n) ==
    /\ row.rev = job[n].base.rev
    /\ FencedStore /\ job[n].base.rev > 0 => row.fence <= Fence(n)

WriteStore(n) ==
    /\ row' = [rev |-> job[n].next.rev, own |-> job[n].next.own, fence |-> Fence(n)]
    /\ written' = written \cup {job[n].next}

\* The write is acknowledged: the regions are given the new snapshot.
Persist(n) ==
    /\ at[n] = "persist"
    /\ RowAccepts(n)
    /\ WriteStore(n)
    /\ regions' = [regions EXCEPT ![n] = IF @ = 0 THEN 1 ELSE @]
    /\ coord' = [coord EXCEPT ![n] = job[n].next]
    /\ cache' = [cache EXCEPT ![n] = job[n].next]
    /\ late' = [late EXCEPT ![n] = IF regions[n] = 2 THEN job[n].next ELSE @]
    /\ at' = [at EXCEPT ![n] = "idle"]
    /\ job' = [job EXCEPT ![n] = NoJob]
    /\ UNCHANGED <<view, token, lease, leasing>>

RejectAndPublish(n) ==
    /\ at[n] = "persist"
    /\ ~RowAccepts(n)
    /\ cache' = [cache EXCEPT ![n] = job[n].next]
    /\ Fail(n)
    /\ UNCHANGED <<view, regions, token, late, lease, row, written, leasing>>

\* A refused write: a coordinator that was reconciled in place keeps its new revision.
PersistRejected(n) ==
    /\ at[n] = "persist"
    /\ ~RowAccepts(n)
    /\ Fail(n)
    /\ UNCHANGED <<view, regions, token, cache, late, lease, row, written, leasing>>

\* The backend fails, with or without having written.
RowFault(n) ==
    /\ \/ /\ at[n] \in {"load", "persist"}
          /\ "refused" \in Faults
          /\ UNCHANGED <<row, written>>
       \/ /\ at[n] = "persist"
          /\ "lost" \in Faults
          /\ RowAccepts(n)
          /\ WriteStore(n)
    /\ Fail(n)
    /\ UNCHANGED <<view, regions, token, cache, late, lease, leasing>>

------------------------------------------------------------------------------
\* renew_coordinator_leases_async
RenewLeases(n) ==
    /\ at[n] = "idle"
    /\ token[n].fence # 0
    /\ ~(HoldsLease(n) /\ lease.live) \/ Faults # {}
    /\ token' = [token EXCEPT ![n] = NoToken]
    /\ UNCHANGED <<view, regions, coord, at, job, cache, late, lease, row, written, leasing>>

\* release_coordinator_leases_async: the token is gone whatever the backend answers;
\* the backend deletes the record if the token still matches it, expired or not, unless
\* the request is refused.
ReleaseLease(n) ==
    /\ at[n] = "idle"
    /\ token[n].fence # 0
    /\ token' = [token EXCEPT ![n] = NoToken]
    /\ \/ /\ HoldsLease(n)
          /\ lease' = NoLease
          /\ leasing' = "released"
       \/ /\ ~HoldsLease(n) \/ "refused" \in Faults
          /\ UNCHANGED <<lease, leasing>>
    /\ UNCHANGED <<view, regions, coord, at, job, cache, late, row, written>>

LeaseExpires ==
    /\ lease.live
    /\ lease.fence < MaxFence
    /\ lease' = [lease EXCEPT !.live = FALSE]
    /\ UNCHANGED <<runtimeVars, row, written, leasing>>

TokenExpires(n) ==
    /\ token[n].fresh
    /\ token' = [token EXCEPT ![n].fresh = FALSE]
    /\ UNCHANGED <<view, regions, coord, at, job, cache, late, lease, row, written, leasing>>

------------------------------------------------------------------------------
CoordinationCall(n) ==
    \/ \E R \in Views : MembershipCall(n, R)
    \/ RegisterRegion(n)
    \/ RegisterAnotherRegion(n)

Lead(n) ==
    \/ LeadWithoutLease(n)
    \/ RenewSucceeds(n) \/ RenewLost(n)
    \/ AcquireSucceeds(n) \/ AcquireLost(n) \/ AcquireRejected(n)

Write(n) == Load(n) \/ Persist(n) \/ PersistRejected(n) \/ RowFault(n)

LeaseStep(n) == RenewLeases(n) \/ TokenExpires(n) \/ ReleaseLease(n)

CoordinationNext ==
    \/ \E n \in Nodes : CoordinationCall(n) \/ Lead(n) \/ Write(n) \/ LeaseStep(n)
    \/ LeaseExpires

CoordinationSpec == CoordinationInit /\ [][CoordinationNext]_coordinationVars

------------------------------------------------------------------------------
\* The runtimes, the lease record and the store row are well formed.
CoordinationTypeOK ==
    /\ view \in [Nodes -> Views]
    /\ regions \in [Nodes -> 0..2]
    /\ coord \in [Nodes -> Snapshots]
    /\ token \in [Nodes -> [fence : Nat, fresh : BOOLEAN]]
    /\ at \in [Nodes -> {"idle", "lead", "load", "persist"}]
    /\ job \in [Nodes -> [register : BOOLEAN, base : Snapshots, next : Snapshots]]
    /\ cache \in [Nodes -> Snapshots]
    /\ late \in [Nodes -> Snapshots]
    /\ lease \in [holder : Nodes \cup {0}, fence : Nat, live : BOOLEAN]
    /\ row \in [rev : Nat, own : OwnerMaps, fence : Nat]
    /\ written \subseteq Snapshots
    /\ leasing \in {"none", "kept", "released"}

\* What the regions of all the runtimes route by, first and later ones alike.
Routed == {cache[n] : n \in Nodes} \cup {late[n] : n \in Nodes}

\* A later region is given the coordinator's in-memory map, which a refused or lost
\* write may have left one the store never held.
NeverStored == {late[n] : n \in Nodes} \ written

\* A store revision stands for one ownership map for ever: two regions of any runtimes
\* that report the same owner revision route every shard alike, whatever conflicts, lost
\* replies and lease changes happened on the way. The one exception is a region that
\* register_region_async gave an in-memory map that was never stored.
RevisionsAgree ==
    \A s, t \in Routed : s.rev = t.rev => s = t \/ {s, t} \cap NeverStored # {}

\* "publish only after durable write": what reconciliation gives a region was in the
\* store, and never a revision beyond the store's.
PublishedWasDurable ==
    \A n \in Nodes : cache[n] \in written /\ cache[n].rev <= row.rev

\* Until some runtime releases the lease, the fencing token stored with the snapshot
\* never exceeds the lease's: the holder of the lease is not the one the store fences out.
HolderNotFencedOut == leasing # "released" => row.fence <= lease.fence

\* Until some runtime releases the lease, a node that takes it over gets a token above
\* every token another runtime still holds, also after takeovers whose reply was lost.
FencedTakeover ==
    [][leasing # "released" /\ lease'.holder \notin {0, lease.holder}
        => \A n \in Nodes : lease'.fence > token[n].fence]_coordinationVars

\* "Compare-and-set writes make stale coordinators fail visibly instead of silently
\* overwriting a newer ownership decision": a write replaces the map it was planned from.
NoLostUpdate ==
    [][\A n \in Nodes : at[n] = "persist" /\ row' # row /\ at'[n] = "idle"
        => Stored = job[n].base]_coordinationVars
==============================================================================
