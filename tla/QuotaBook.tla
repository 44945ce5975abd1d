------------------------------ MODULE QuotaBook ------------------------------
(***************************************************************************)
(* The quota ledger of the session manager                                 *)
(* (crates/lsb-seawork-service/src/session/quota.rs).  Every counter of    *)
(* QuotaBook is a map from a scope to a number: the whole service, a user, *)
(* a connection or a sandbox; a key the code removed from its HashMap is a *)
(* scope at 0.  Reservations check every scope before they change any, and *)
(* releases of sandboxes are keyed by the sandbox, so that a second one is *)
(* a no-op; releases of processes and watches are not.                     *)
(***************************************************************************)
EXTENDS Naturals, FiniteSets, FiniteSetsExt

CONSTANTS
    Sessions,       \* connections (random session ids, never reused)
    Sandboxes,      \* sandbox handles
    Dependents,     \* handles of guest processes and watches
    KindOf,         \* [Dependents -> {"process", "watch"}]
    Users,          \* user SIDs
    UserOf,         \* [Sessions -> Users]: ClientIdentityKey.user_sid
    Resources,      \* [Sandboxes -> [Dims -> Nat]]: the requested SandboxResources
    Limits          \* QuotaLimits, see LimitsShape

Dims == {"cpus", "memory_mib", "disk_mib"}
Kinds == {"process", "watch"}

Global == <<"global", "service">>
User(u) == <<"user", u>>
Connection(s) == <<"connection", s>>
Sandbox(h) == <<"sandbox", h>>
UserScopes == {Global} \cup {User(u) : u \in Users}

VARIABLES
    connections,        \* connections, connections_by_user
    sandboxes,          \* sandboxes, sandboxes_by_user, sandboxes_by_connection
    usage,              \* cpus, memory_mib, disk_mib and their by-user maps
    sandbox_resources,  \* keys of the sandbox_resources map
    dependents_held     \* processes, watches, by user and by sandbox

quotaVars == <<connections, sandboxes, usage, sandbox_resources, dependents_held>>

ConnectionScopes(s) == {Global, User(UserOf[s])}
SandboxScopes(s) == {Global, User(UserOf[s]), Connection(s)}
DependentScopes(s, h) == {Global, User(UserOf[s]), Sandbox(h)}

QuotaBookNew ==
    /\ connections = [x \in UserScopes |-> 0]
    /\ sandboxes = [x \in UserScopes \cup {Connection(s) : s \in Sessions} |-> 0]
    /\ usage = [d \in Dims |-> [x \in UserScopes |-> 0]]
    /\ sandbox_resources = {}
    /\ dependents_held =
          [k \in Kinds |-> [x \in UserScopes \cup {Sandbox(h) : h \in Sandboxes} |-> 0]]

Plus(count, scopes) ==
    [x \in DOMAIN count |-> IF x \in scopes THEN count[x] + 1 ELSE count[x]]

\* decrement: saturating, then dropped from the map at 0.
Minus(count, scopes) ==
    [x \in DOMAIN count |->
        IF x \in scopes /\ count[x] > 0 THEN count[x] - 1 ELSE count[x]]

CanReserveConnection(s) ==
    \A x \in ConnectionScopes(s) : connections[x] < Limits.connections[x[1]]

ReserveConnection(s) ==
    /\ CanReserveConnection(s)
    /\ connections' = Plus(connections, ConnectionScopes(s))

ReleaseConnection(s) == connections' = Minus(connections, ConnectionScopes(s))

-----------------------------------------------------------------------------

\* SandboxResources::default(), the shape of a resource that has no VM.
IsDefault(h) == \A d \in Dims : Resources[h][d] = 0

\* What sandbox h adds to counter d: the service-wide memory also counts the
\* fixed overhead of a QEMU process (SANDBOX_MEMORY_OVERHEAD_MIB).
Accounted(h, d, x) ==
    Resources[h][d]
      + (IF d = "memory_mib" /\ x = Global /\ ~IsDefault(h)
         THEN Limits.memory_overhead ELSE 0)

InRange(h) ==
    /\ \A d \in Dims : Resources[h][d] <= Limits.sandbox_max[d]
    /\ IsDefault(h) \/ \A d \in Dims : Resources[h][d] >= Limits.sandbox_min[d]

CanReserveSandbox(s, h) ==
    /\ \A x \in SandboxScopes(s) : sandboxes[x] < Limits.sandboxes[x[1]]
    /\ h \notin sandbox_resources
    /\ InRange(h)
    /\ \A d \in Dims : \A x \in ConnectionScopes(s) :
          usage[d][x] + Accounted(h, d, x) <= Limits.usage[d][x[1]]

ReserveSandbox(s, h) ==
    /\ CanReserveSandbox(s, h)
    /\ sandboxes' = Plus(sandboxes, SandboxScopes(s))
    /\ sandbox_resources' = sandbox_resources \cup {h}
    /\ usage' = [d \in Dims |-> [x \in UserScopes |->
          IF x \in ConnectionScopes(s) THEN usage[d][x] + Accounted(h, d, x)
          ELSE usage[d][x]]]

\* Bug: the overhead of the QEMU process is not given back.
ReleaseSandboxesKeepsOverhead(s, H) ==
    LET released == H \cap sandbox_resources IN
    /\ sandbox_resources' = sandbox_resources \ released
    /\ sandboxes' = [x \in DOMAIN sandboxes |->
          IF x \in SandboxScopes(s) THEN sandboxes[x] - Cardinality(released)
          ELSE sandboxes[x]]
    /\ usage' = [d \in Dims |-> [x \in UserScopes |->
          IF x \in ConnectionScopes(s)
          THEN usage[d][x] - MapThenSumSet(LAMBDA h : Resources[h][d], released)
          ELSE usage[d][x]]]

\* release_sandbox for every handle of H, all held by connection s.
ReleaseSandboxes(s, H) ==
    LET released == H \cap sandbox_resources
        Sub(a, b) == IF a > b THEN a - b ELSE 0
    IN
    /\ sandbox_resources' = sandbox_resources \ released
    /\ sandboxes' = [x \in DOMAIN sandboxes |->
          IF x \in SandboxScopes(s) THEN Sub(sandboxes[x], Cardinality(released))
          ELSE sandboxes[x]]
    /\ usage' = [d \in Dims |-> [x \in UserScopes |->
          IF x \in ConnectionScopes(s)
          THEN Sub(usage[d][x], MapThenSumSet(LAMBDA h : Accounted(h, d, x), released))
          ELSE usage[d][x]]]

-----------------------------------------------------------------------------

CanReserveDependent(s, h, k) ==
    \A x \in DependentScopes(s, h) :
        dependents_held[k][x] < Limits.dependents[k][x[1]]

\* reserve_process and reserve_watch.
ReserveDependent(s, h, k) ==
    /\ CanReserveDependent(s, h, k)
    /\ dependents_held' =
          [dependents_held EXCEPT ![k] = Plus(@, DependentScopes(s, h))]

\* Bug: the count of the sandbox is not given back.
ReleaseDependentsKeepsSandbox(s, D, sandbox_of) ==
    dependents_held' = [k \in Kinds |->
        [x \in DOMAIN dependents_held[k] |->
            LET n == Cardinality({d \in D : KindOf[d] = k /\ x \in ConnectionScopes(s)})
            IN IF dependents_held[k][x] > n THEN dependents_held[k][x] - n ELSE 0]]

\* release_process or release_watch once for every dependent of D, which
\* belong to connection s and to the sandboxes `sandbox_of` names.
ReleaseDependents(s, D, sandbox_of) ==
    dependents_held' = [k \in Kinds |->
        [x \in DOMAIN dependents_held[k] |->
            LET n == Cardinality({d \in D : /\ KindOf[d] = k
                                            /\ x \in DependentScopes(s, sandbox_of[d])})
            IN IF dependents_held[k][x] > n THEN dependents_held[k][x] - n ELSE 0]]

=============================================================================
