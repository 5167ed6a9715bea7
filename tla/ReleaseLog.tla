----------------------------- MODULE ReleaseLog -----------------------------
(***************************************************************************)
(* What the releases component promises: every environment owns a log of   *)
(* snapshots that only grows, one release at a time, until the environment *)
(* is deleted with everything it owns.  Version n is the n-th element, so  *)
(* versions start at 1, leave no gap, and are never reused or rewritten.   *)
(* There is no operation that edits or removes one release (main.go: an    *)
(* update is always denied, a delete only follows the environment).        *)
(***************************************************************************)
EXTENDS Naturals, Sequences

CONSTANTS Envs, Snapshots

VARIABLE log    \* live environment -> sequence of snapshots

TypeOK == log \in [DOMAIN log -> Seq(Snapshots)] /\ DOMAIN log \subseteq Envs

(* Publish, rollback and promote all append one release to one environment. *)
Release(e) ==
    /\ e \in DOMAIN log
    /\ \E s \in Snapshots : log' = [log EXCEPT ![e] = Append(@, s)]

(* Deleting environments, or the whole project that owns them. *)
Drop(gone) ==
    /\ gone # {}
    /\ log' = [e \in DOMAIN log \ gone |-> log[e]]

Next == \/ \E e \in Envs : Release(e)
        \/ \E gone \in SUBSET Envs : Drop(gone)

(* A deployment may start on a database that already holds releases. *)
Spec == TypeOK /\ [][Next]_log
=============================================================================
