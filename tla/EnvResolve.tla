----------------------------- MODULE EnvResolve -----------------------------
(***************************************************************************)
(* Environment slug resolution of the admin routes (envresolve/resolve.go) *)
(* and of the SDK routes (ingest/keyenv.go).                               *)
(*                                                                         *)
(* A slug is unique inside one project, but several projects may own the   *)
(* same slug, so a slug alone may be ambiguous and a ?project= qualifier   *)
(* selects one of the candidates.                                          *)
(***************************************************************************)
EXTENDS Naturals, FiniteSets

CONSTANTS
    Envs,        \* record ids of environments
    SlugOf,      \* environment -> slug
    ProjectOf,   \* environment -> project
    AnyProject   \* the absent ?project= qualifier

Slugs == {SlugOf[e] : e \in Envs}
Projects == {ProjectOf[e] : e \in Envs}
Qualifiers == Projects \union {AnyProject}

(* main.go keeps (project, slug) unique on every environment write. *)
ASSUME EnvsAssumption ==
    /\ AnyProject \notin Projects
    /\ \A d, e \in Envs :
         (SlugOf[d] = SlugOf[e] /\ ProjectOf[d] = ProjectOf[e]) => d = e

(* findEnvsBySlug: every live environment row with the slug. *)
Candidates(live, slug) == {e \in live : SlugOf[e] = slug}

(* The candidates a qualifier leaves; without one, all of them. *)
Qualified(live, slug, project) ==
    {e \in Candidates(live, slug) : project \in {AnyProject, ProjectOf[e]}}

(* Resolve with PickIndex: no row is 404, several rows without a qualifier *)
(* are 400, and a row is never silently picked among several.              *)
ResolveStatus(live, slug, project) ==
    LET rows == Qualified(live, slug, project)
    IN  IF rows = {} THEN 404 ELSE IF Cardinality(rows) > 1 THEN 400 ELSE 200
=============================================================================
