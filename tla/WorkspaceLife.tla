---------------------------- MODULE WorkspaceLife ----------------------------
(***************************************************************************)
(* What may happen to a consumer workspace, whatever the setups, the HTTP   *)
(* handlers and the tenants do: the Headlamp synchronisation and the        *)
(* kubeconfig handler (internal/provisioner/headlamp.go, kubeconfig.go)     *)
(* rely on a mark that stays and on deletions that are final.  They do not  *)
(* rely on the token: it may be there before the mark, and not after it.   *)
(***************************************************************************)
CONSTANT Names  \* workspace names

VARIABLE life   \* life[n]: the workspace n, marked for scoped credentials or not,
                \* and whether its service account has a token

Absent == [state |-> "absent", marked |-> FALSE, token |-> FALSE]

Init == life = [n \in Names |-> Absent]

Create(n) ==
    /\ life[n].state = "absent"
    /\ life' = [life EXCEPT ![n].state = "live"]

Turn(n) ==
    /\ life[n].state # "absent"
    /\ life' = [life EXCEPT ![n].token = ~@]

Mark(n) ==
    /\ life[n].state # "absent"
    /\ life' = [life EXCEPT ![n].marked = TRUE]

Delete(n) ==
    /\ life[n].state = "live"
    /\ life' = [life EXCEPT ![n].state = "terminating"]

Purge(n) ==
    /\ life[n].state = "terminating"
    /\ life' = [life EXCEPT ![n] = Absent]

Next == \E n \in Names : Create(n) \/ Turn(n) \/ Mark(n) \/ Delete(n) \/ Purge(n)

Spec == Init /\ [][Next]_life

=============================================================================
