--------------------------- MODULE MCSessionManager ---------------------------
(***************************************************************************)
(* Small instances of SessionManager for TLC.                              *)
(***************************************************************************)
EXTENDS SessionManager, TLC

CONSTANTS s1, s2, h1, h2, d1, d2, d3, u1, u2, i1, i2, k1

\* Two connections of one identity: replay across a reconnect.
OneUser == (s1 :> u1 @@ s2 :> u1)
OneIdentity == (s1 :> i1 @@ s2 :> i1)
\* Two connections of two users: nobody is charged for another.
TwoUsers == (s1 :> u1 @@ s2 :> u2)
TwoIdentities == (s1 :> i1 @@ s2 :> i2)

ProcessesAndWatch == (d1 :> "process" @@ d2 :> "process" @@ d3 :> "watch")
NoDependents == <<>>

Shape(c, m, k) == [cpus |-> c, memory_mib |-> m, disk_mib |-> k]
SmallShapes == (h1 :> Shape(1, 1, 1) @@ h2 :> Shape(2, 1, 1))

\* Both sandboxes fit into the service, one into a connection.
SmallLimits ==
    [connections |-> ("global" :> 2 @@ "user" :> 2),
     sandboxes |-> ("global" :> 2 @@ "user" :> 2 @@ "connection" :> 2),
     memory_overhead |-> 2,
     sandbox_max |-> Shape(2, 2, 2),
     sandbox_min |-> Shape(1, 1, 1),
     usage |-> [cpus |-> ("global" :> 3 @@ "user" :> 3),
                memory_mib |-> ("global" :> 6 @@ "user" :> 3),
                disk_mib |-> ("global" :> 3 @@ "user" :> 3)],
     dependents |-> [process |-> ("global" :> 2 @@ "user" :> 2 @@ "sandbox" :> 1),
                     watch |-> ("global" :> 2 @@ "user" :> 2 @@ "sandbox" :> 1)]]

\* Bounds: what a run leaves out of the environment.
NoMaintenance == drain.pc = "idle" /\ admission_state = "Open"
NoLeak == \A s \in Sessions : session[s] # "leaked"
WithoutMaintenance == NoMaintenance /\ NoLeak
SessionSymmetry == Permutations(Sessions)
=============================================================================
