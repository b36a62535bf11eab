--------------------------- MODULE MountContract ---------------------------
(***************************************************************************)
(* What the kubernetes-controller owes its tenants about mounted child     *)
(* workspaces: one exists only for an object that is guarded by the        *)
(* controller's finalizer, and the guard is not released before the        *)
(* workspace is gone.                                                      *)
(***************************************************************************)
CONSTANT Keys

VARIABLES
    guarded,  \* objects that exist and carry the finalizer
    mounted   \* objects whose mounted workspace exists

Init == guarded = {} /\ mounted = {}

Guard(k) ==
    /\ guarded' = guarded \cup {k}
    /\ UNCHANGED mounted

Mount(k) ==
    /\ k \in guarded
    /\ mounted' = mounted \cup {k}
    /\ UNCHANGED guarded

\* The controller deletes a mounted workspace, a tenant does, or a tenant's
\* workspace goes with everything in it.
Unmount(S) ==
    /\ mounted' = mounted \ S
    /\ UNCHANGED guarded

Release(k) ==
    /\ k \notin mounted
    /\ guarded' = guarded \ {k}
    /\ UNCHANGED mounted

Next ==
    \/ \E k \in Keys : Guard(k) \/ Mount(k) \/ Release(k)
    \/ \E S \in SUBSET Keys : Unmount(S)

Spec == Init /\ [][Next]_<<guarded, mounted>>

=============================================================================
