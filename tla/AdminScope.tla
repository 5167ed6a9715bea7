----------------------------- MODULE AdminScope -----------------------------
(***************************************************************************)
(* The admin page finds its way: which project and environment are         *)
(* selected, which view is shown, and which lists are loaded for them      *)
(* (scope.js, router.js, the scope part of core.js and the scope bar of    *)
(* boot.js).                                                               *)
(*                                                                         *)
(* Every list is loaded in the background.  Some answers are compared with *)
(* the scope they were asked in, some are not; answers come in any order,  *)
(* late, or not at all.  A function of the page is an operator from a page *)
(* to a page; an action is a click or an answer.                           *)
(***************************************************************************)
EXTENDS Integers, FiniteSets, Functions

CONSTANTS
    Seed,        \* the server's records at first: projects, and envs with project and slug
    LastEnv,     \* the environment selected when the page was left
    NewProject,  \* the id of a project created here
    NewEnvs,     \* ids of environments created here
    Activity,    \* environment -> day -> events of that day
    Today,       \* the current day, which is not over
    None,        \* nothing selected
    MaxMoves     \* bound: clicks, switches, reloads and failures

VARIABLE scope

(* Slugs are numbers, ordered as the list orders them. *)
Production == 2
homeSinceWhitelist == {2, 7}   \* ranges in days
DefaultSince == 7

Home == [view |-> "home", id |-> None]
Detail(p) == [view |-> "detail", id |-> p]

FreshPage(server, stored, hash, moves) ==
    [server |-> server, stored |-> stored, hash |-> hash, moves |-> moves,
     projects |-> {}, envs |-> <<>>, projectId |-> None, envId |-> None, slug |-> Production,
     since |-> DefaultSince, view |-> "home", nav |-> None, releases |-> None,
     home |-> <<>>, daily |-> <<>>, missed |-> {}, net |-> {}, routing |-> FALSE, dialog |-> FALSE]

(* A request, or a change on its way to the server.  It is fresh as long   *)
(* as the scope generation is the one it was sent in.                      *)
Request(what, s) ==
    [what |-> what, fresh |-> TRUE, project |-> None, id |-> None, slug |-> None,
     since |-> None, then |-> "", pre |-> None,
     server |-> IF what \in {"projects", "envs", "home", "series"} THEN s.server ELSE None]

Send(m, s) == [s EXCEPT !.net = @ \union {m}]
EnvsOf(server, p) == {e \in DOMAIN server.envs : server.envs[e].project = p}
Drop(f, x) == Restrict(f, DOMAIN f \ {x})
Put(f, x, v) == [y \in DOMAIN f \union {x} |-> IF y = x THEN v ELSE f[y]]

-----------------------------------------------------------------------------
(* core.js *)

bumpScopeGen(s) == [s EXCEPT !.net = {[m EXCEPT !.fresh = FALSE] : m \in @}]

scopeStale(m) == ~m.fresh

selectedEnv(s) == IF s.envId \in DOMAIN s.envs THEN s.envs[s.envId] ELSE None

envSlug(s) == IF selectedEnv(s) # None THEN selectedEnv(s).slug ELSE s.slug

loadPersistedScope(s) ==
    [s EXCEPT !.projectId = s.stored.project, !.envId = s.stored.env,
              !.since = IF s.stored.since = None THEN @ ELSE s.stored.since]

persistScope(s) ==
    [s EXCEPT !.stored = [project |-> s.projectId, env |-> s.envId, since |-> s.since]]

-----------------------------------------------------------------------------
DailyAverage(p, since, average) ==
    LET envs == EnvsOf(Seed, p)
        days == {d \in (Today - since + 1)..(Today - 1) : \E e \in envs : d \in DOMAIN Activity[e]}
        events == SumFunction([ed \in {x \in envs \X days : x[2] \in DOMAIN Activity[x[1]]} |-> Activity[ed[1]][ed[2]]])
        n == Cardinality(days)
    IN IF n = 0 THEN average = 0
       ELSE 2 * n * average <= 2 * events + n /\ 2 * events + n < 2 * n * (average + 1)

(* The cards of the home view: points of several environments, by day. *)

homeMergePoints(list) ==
    [d \in UNION {DOMAIN Activity[e] : e \in list} |->
        SumFunction([e \in {x \in list : d \in DOMAIN Activity[x]} |-> Activity[e][d]])]

homeTrimPartialDay(points) == Restrict(points, DOMAIN points \ {Today})

homePointsTotals(points) == SumFunction(points)

homeDailyAverage(points) ==
    LET n == Cardinality(DOMAIN points)
    IN IF n = 0 THEN 0 ELSE (2 * homePointsTotals(points) + n) \div (2 * n)

getHomeSince(s) == IF s.since \in homeSinceWhitelist THEN s.since ELSE DefaultSince

setHomeSince(s, v) ==
    IF v \in homeSinceWhitelist THEN persistScope([s EXCEPT !.since = v]) ELSE s

(* A failing environment counts for nothing. *)
Average(server, p, since, answered) ==
    LET points == homeMergePoints(EnvsOf(server, p) \intersect answered)
        range == {d \in DOMAIN points : d > Today - since}
    IN homeDailyAverage(homeTrimPartialDay(Restrict(points, range)))

(* Live keys are those of environments the first answer knew. *)
Tally(server, projects) ==
    [p \in projects |-> [envs |-> Cardinality(EnvsOf(server, p)), keys |-> Cardinality(EnvsOf(server, p))]]

-----------------------------------------------------------------------------
(* router.js: views *)

projectById(s, p) == p \in s.projects

(* Links of the sidebar go to the selected project. *)
syncSidebar(s) ==
    [s EXCEPT !.nav = IF s.projectId # None /\ s.view \in {"detail", "settings", "logs"}
                      THEN s.projectId ELSE None]

showView(s, name) == syncSidebar([s EXCEPT !.view = name])

loadHomeStats(s) == Send(Request("home", s), s)

(* A card without numbers yet shows zeros. *)
renderProjectCards(s) ==
    [p \in s.projects |->
        [tally |-> IF p \in DOMAIN s.home THEN s.home[p] ELSE [envs |-> 0, keys |-> 0],
         daily |-> IF p \in DOMAIN s.daily THEN s.daily[p] ELSE 0]]

showHome(s) == loadHomeStats(showView(bumpScopeGen(s), "home"))

clearStaleAllScope(s) ==
    IF s.view = "home" /\ s.projectId # None
    THEN persistScope([s EXCEPT !.projectId = None, !.envId = None]) ELSE s

showSettings(s) == showView(clearStaleAllScope(s), "settings")
showLogs(s) == showView(clearStaleAllScope(s), "logs")

renderDetailHeader(s) == syncSidebar(s)

-----------------------------------------------------------------------------
(* scope.js: lists *)

defaultEnvId(envs) ==
    IF \E e \in DOMAIN envs : envs[e].slug = Production
    THEN CHOOSE e \in DOMAIN envs : envs[e].slug = Production
    ELSE IF envs = <<>> THEN None
    ELSE CHOOSE e \in DOMAIN envs : \A f \in DOMAIN envs : envs[e].slug <= envs[f].slug

(* Without rows the selection stays for the list that is on its way. *)
renderProjectEnv(s) ==
    LET t == [s EXCEPT !.envId = IF s.envs # <<>> /\ @ \notin DOMAIN s.envs
                                 THEN defaultEnvId(s.envs) ELSE @]
    IN [t EXCEPT !.slug = envSlug(t)]

loadReleases(s) == Send(Request("releases", s), s)

(* What the caller of loadEnvs does when the list is there.  Keys and       *)
(* statistics are asked for, and dropped, as the releases are; flags, rules *)
(* and experiments are in module PublishFlow.                               *)
AfterEnvs(s, then) ==
    CASE then = "detail" -> loadReleases(renderDetailHeader(s))
      [] then \in {"home", "deleted"} -> loadReleases(s)
      [] OTHER -> s

loadEnvs(s, then) ==
    IF s.projectId = None
    THEN AfterEnvs(renderProjectEnv([s EXCEPT !.envs = <<>>, !.envId = None]), then)
    ELSE Send([Request("envs", s) EXCEPT !.project = s.projectId, !.then = then], s)

loadProjects(s, then, id, pre) ==
    Send([Request("projects", s) EXCEPT !.then = then, !.id = id, !.pre = pre], s)

loadDetailScope(s) == loadEnvs(bumpScopeGen(s), "detail")

SetHash(s, h) == [s EXCEPT !.routing = @ \/ s.hash # h, !.hash = h]

openProject(s, p) ==
    LET t == persistScope([s EXCEPT !.projectId = p])
    IN IF ~projectById(s, p) THEN showHome(s)
       ELSE loadDetailScope(renderDetailHeader(showView(SetHash(t, Detail(p)), "detail")))

parseHash(s) == s.hash

route(s) ==
    LET r == parseHash(s)
    IN CASE r.view = "settings" -> showSettings(s)
         [] r.view = "logs" -> showLogs(s)
         [] r.view = "detail" /\ projectById(s, r.id) ->
              IF s.view = "detail" /\ s.projectId = r.id
              THEN renderDetailHeader(showView(s, "detail")) ELSE openProject(s, r.id)
         [] OTHER -> showHome(s)

(* The button, and the start of every page. *)
refreshAll(s) ==
    loadProjects(loadPersistedScope(bumpScopeGen(s)), "refresh", None,
                 IF s.view = "detail" /\ s.projectId # None
                 THEN [id |-> s.projectId, hash |-> s.hash] ELSE None)

-----------------------------------------------------------------------------
(* Answers.  The data is the server's at any moment since the request. *)

Guarded == {"releases", "home", "series"}

(* Answers for a scope that was left change nothing, whenever they come.   *)
Left(s) == {m \in s.net : m.what \in Guarded /\ scopeStale(m)}

Answer(m, s) == [s EXCEPT !.net = (@ \ {m}) \ Left(s)]

(* The same project is loaded again in place; another one by the router. *)
AfterRefresh(s, pre) ==
    LET t == route(renderProjectEnv(s))
    IN IF t.view = "detail"
       THEN IF pre # None /\ t.projectId = pre.id /\ t.hash = pre.hash THEN loadDetailScope(t) ELSE t
       ELSE loadEnvs(loadHomeStats(t), "home")

ProjectsLoaded(s, m, data) ==
    LET gone == s.projectId \notin data.projects
        t == persistScope([s EXCEPT !.projects = data.projects, !.missed = @ \ {"projects"},
                                    !.projectId = IF gone THEN None ELSE @,
                                    !.envId = IF gone /\ s.projectId # None THEN None ELSE @])
    IN CASE m.then = "refresh" -> AfterRefresh(t, m.pre)
         [] m.then = "created" ->
              loadEnvs(SetHash(loadHomeStats(persistScope([t EXCEPT !.projectId = m.id])),
                               Detail(m.id)), "created")
         [] m.then = "deleted" -> loadHomeStats(t)

(* The environments of the project they were asked for. *)
EnvsLoaded(s, m, data) ==
    LET envs == Restrict(data.envs, EnvsOf(data, m.project))
        kept == IF s.envId \in DOMAIN envs THEN s.envId ELSE defaultEnvId(envs)
        t == [s EXCEPT !.envs = envs, !.envId = kept, !.missed = @ \ {"envs"}]
    IN AfterEnvs(renderProjectEnv(persistScope([t EXCEPT !.slug = envSlug(t)])), m.then)

ReleasesLoaded(s) == [s EXCEPT !.releases = s.envId, !.missed = @ \ {"releases"}]

HomeStatsLoaded(s, m, data) ==
    Send([Request("series", s) EXCEPT !.since = getHomeSince(s)],
         [s EXCEPT !.home = Tally(data, s.projects), !.missed = @ \ {"home"}])

loadHomeSeries(s, m, answered) ==
    [s EXCEPT !.daily = [p \in s.projects |-> Average(m.server, p, m.since, answered)],
              !.missed = IF answered = DOMAIN m.server.envs THEN @ \ {"series"} ELSE @ \union {"series"}]

Loaded ==
    \E m \in scope.net : \E data \in IF m.server = None THEN {None} ELSE {m.server, scope.server} :
        LET s == Answer(m, scope)
        IN /\ m.what \in Guarded => ~scopeStale(m)
           /\ \/ m.what = "projects" /\ scope' = ProjectsLoaded(s, m, data)
              \/ m.what = "envs" /\ scope' = EnvsLoaded(s, m, data)
              \/ m.what = "releases" /\ scope' = ReleasesLoaded(s)
              \/ m.what = "home" /\ scope' = HomeStatsLoaded(s, m, data)
              \/ m.what = "series" /\ scope' = loadHomeSeries(s, m, DOMAIN m.server.envs)

Counted(s) == s.moves < MaxMoves
Move(s) == [s EXCEPT !.moves = @ + 1]

(* A failing list shows an error line or what it showed before.            *)
LoadFailed ==
    /\ Counted(scope)
    /\ \E m \in scope.net :
          LET s == Move(Answer(m, scope))
              t == [s EXCEPT !.missed = @ \union {m.what}]
          IN \/ /\ m.what = "series" /\ ~scopeStale(m)
                /\ \E e \in DOMAIN m.server.envs : scope' = loadHomeSeries(s, m, DOMAIN m.server.envs \ {e})
             \/ m.what \in (Guarded \union {"projects", "envs"}) \ {"series"} /\ scope' = t

-----------------------------------------------------------------------------
(* Clicks. *)

Click(after) == Counted(scope) /\ scope' = Move(after)

(* A link, a card or the address bar. *)
Navigate ==
    \E h \in {Home, [view |-> "settings", id |-> None], [view |-> "logs", id |-> None]}
              \union {Detail(p) : p \in Seed.projects} :
        h # scope.hash /\ Click(SetHash(scope, h))

hashchange == scope.routing /\ scope' = route([scope EXCEPT !.routing = FALSE])

allProjectsClick ==
    LET s == renderProjectEnv(persistScope([scope EXCEPT !.projectId = None, !.envId = None, !.envs = <<>>]))
    IN scope.view # "home" /\ Click(showHome(SetHash(s, Home)))

refreshClick == Click(refreshAll(scope))

homeSinceChange ==
    \E v \in homeSinceWhitelist \ {scope.since} :
        scope.view = "home" /\ Click(showHome(setHomeSince(scope, v)))

envSelectChange ==
    \E e \in DOMAIN scope.envs \ {scope.envId} :
        LET s == [scope EXCEPT !.envId = e, !.slug = scope.envs[e].slug]
        IN /\ scope.view = "detail"
           /\ Click(loadReleases(bumpScopeGen(persistScope(s))))

(* A reload, or the login: everything but the store and the address is     *)
(* forgotten.                                                              *)
boot(server, stored, hash, moves) == refreshAll(FreshPage(server, stored, hash, moves))
Reload ==
    /\ Counted(scope)
    /\ scope' = boot(scope.server, scope.stored, scope.hash, scope.moves + 1)

-----------------------------------------------------------------------------
(* Changes: each is a request, and the page follows when it is confirmed. *)

Change(what, id, slug) ==
    Click(Send([Request(what, scope) EXCEPT !.id = id, !.slug = slug, !.project = scope.projectId], scope))

openProjectDialog == scope.view = "home" /\ ~scope.dialog /\ Click([scope EXCEPT !.dialog = TRUE])
closeProjectDialog(s) == [s EXCEPT !.dialog = FALSE]

saveProjectDialog ==
    /\ scope.dialog /\ NewProject \notin scope.server.projects
    /\ scope' = Send([Request("addProject", scope) EXCEPT !.id = NewProject], scope)

createEnv == scope.view = "detail" /\ scope.projectId # None /\ Change("addEnv", None, 1)

renameEnv ==
    /\ scope.view = "detail" /\ selectedEnv(scope) # None
    /\ \E slug \in {1, 3} \ {envSlug(scope)} : Change("renameEnv", scope.envId, slug)

deleteEnv ==
    /\ scope.view = "detail" /\ scope.envId # None
    /\ Cardinality(DOMAIN scope.envs) > 1
    /\ Change("deleteEnv", scope.envId, None)

deleteProject == scope.view = "detail" /\ scope.projectId # None /\ Change("deleteProject", scope.projectId, None)

(* The server: slugs are unique in a project; a project takes its          *)
(* environments with it.                                                   *)
FreeSlug(server, p, slug) == \A e \in EnvsOf(server, p) : server.envs[e].slug # slug
Applies(m, server) ==
    CASE m.what = "addProject" -> m.id \notin server.projects
      [] m.what \in {"addFirstEnv", "addEnv"} ->
           /\ m.project \in server.projects /\ FreeSlug(server, m.project, m.slug)
           /\ NewEnvs \ DOMAIN server.envs # {}
      [] m.what = "renameEnv" ->
           m.id \in DOMAIN server.envs /\ FreeSlug(server, server.envs[m.id].project, m.slug)
      [] m.what = "deleteEnv" -> m.id \in DOMAIN server.envs
      [] m.what = "deleteProject" -> m.id \in server.projects

Applied(m, server) ==
    CASE m.what = "addProject" -> [server EXCEPT !.projects = @ \union {m.id}]
      [] m.what \in {"addFirstEnv", "addEnv"} ->
           [server EXCEPT !.envs = Put(@, CHOOSE e \in NewEnvs : e \notin DOMAIN server.envs,
                                       [project |-> m.project, slug |-> m.slug])]
      [] m.what = "renameEnv" -> [server EXCEPT !.envs[m.id].slug = m.slug]
      [] m.what = "deleteEnv" -> [server EXCEPT !.envs = Drop(@, m.id)]
      [] m.what = "deleteProject" ->
           [projects |-> server.projects \ {m.id},
            envs |-> Restrict(server.envs, DOMAIN server.envs \ EnvsOf(server, m.id))]

ProjectCreated(s, m) ==
    Send([Request("addFirstEnv", s) EXCEPT !.id = m.id, !.project = m.id, !.slug = Production], s)
FirstEnvCreated(s, m) == loadProjects(closeProjectDialog(s), "created", m.id, None)

EnvRenamed(s, m) ==
    LET t == [s EXCEPT !.envs = IF m.id \in DOMAIN @ THEN [@ EXCEPT ![m.id].slug = m.slug] ELSE @,
                       !.slug = IF s.envId = m.id THEN m.slug ELSE @]
    IN loadReleases(renderProjectEnv(persistScope(t)))

EnvDeleted(s, m) ==
    loadEnvs(persistScope([s EXCEPT !.envs = Drop(@, m.id),
                                    !.envId = IF @ = m.id THEN None ELSE @]), "deleted")

ProjectDeleted(s, m) ==
    LET mine == s.projectId = m.id
        t == persistScope([s EXCEPT !.projects = @ \ {m.id},
                                    !.projectId = IF mine THEN None ELSE @,
                                    !.envId = IF mine THEN None ELSE @,
                                    !.envs = IF mine THEN <<>> ELSE @])
    IN loadProjects(showHome(SetHash(t, Home)), "deleted", None, None)

Changes == {"addProject", "addFirstEnv", "addEnv", "renameEnv", "deleteEnv", "deleteProject"}

Confirmed ==
    \E m \in scope.net :
        LET s == [Answer(m, scope) EXCEPT !.server = Applied(m, @)]
        IN /\ m.what \in Changes /\ Applies(m, scope.server)
           /\ scope' = CASE m.what = "addProject" -> ProjectCreated(s, m)
                         [] m.what = "addFirstEnv" -> FirstEnvCreated(s, m)
                         [] m.what = "addEnv" -> loadEnvs(s, "")
                         [] m.what = "renameEnv" -> EnvRenamed(s, m)
                         [] m.what = "deleteEnv" -> EnvDeleted(s, m)
                         [] m.what = "deleteProject" -> ProjectDeleted(s, m)

(* Refused, or the answer is lost: the page stays as it is. *)
NotConfirmed ==
    \E m \in scope.net :
        LET s == Answer(m, scope)
        IN /\ m.what \in Changes
           /\ \/ ~Applies(m, s.server) /\ scope' = s
              \/ Counted(s) /\ scope' = Move(s)
              \/ /\ Counted(s) /\ Applies(m, s.server)
                 /\ scope' = Move([s EXCEPT !.server = Applied(m, @)])

-----------------------------------------------------------------------------
Init ==
    \E hash \in {Home, Detail(Seed.envs[LastEnv].project)} :
        scope = boot(Seed, [project |-> Seed.envs[LastEnv].project, env |-> LastEnv, since |-> None], hash, 0)

Next ==
    \/ Loaded \/ LoadFailed
    \/ Navigate \/ hashchange \/ allProjectsClick \/ refreshClick \/ homeSinceChange
    \/ envSelectChange \/ Reload
    \/ openProjectDialog \/ saveProjectDialog
    \/ createEnv \/ renameEnv \/ deleteEnv \/ deleteProject
    \/ Confirmed \/ NotConfirmed

Spec == Init /\ [][Next]_scope

-----------------------------------------------------------------------------
AtRest(s) == s.net = Left(s) /\ ~s.routing

(* Whatever the order of the answers, a page at rest is of one piece: the  *)
(* selected environment is one of the menu, whatever project the menu is   *)
(* of (see ScopeSelected), and a reload would come back to the selection.  *)
(* As long as no project or environment was created (which loads fewer     *)
(* lists), the sidebar and the address lead to the selected project and    *)
(* the releases are those of the selected environment.                     *)
OneScope ==
    LET s == scope
        created == NewEnvs \intersect DOMAIN s.server.envs # {}
    IN AtRest(s) =>
         /\ s.stored.project = s.projectId
         /\ s.projectId # None =>
              /\ s.stored.env = s.envId
              /\ s.view = "detail" /\ s.envs # <<>> /\ "envs" \notin s.missed => s.envId \in DOMAIN s.envs
         /\ ~created =>
              /\ s.nav = syncSidebar(s).nav
              /\ s.hash.view = "detail" /\ s.hash.id \in s.projects =>
                    s.view = "detail" /\ s.projectId = s.hash.id
              /\ s.view = "detail" /\ s.missed = {} => s.releases = s.envId

(* The cards of the home view count what is there, over the chosen range:  *)
(* the average is that of all events of the project's environments on the  *)
(* days that are over; a change that is confirmed while the cards are      *)
(* loading is not on them.                                                 *)
HomeCounts ==
    LET s == scope
        cards == renderProjectCards(s)
    IN AtRest(s) /\ s.view = "home" /\ s.missed = {} /\ s.server = Seed =>
         \A p \in s.projects :
            /\ cards[p].tally.envs = Cardinality(EnvsOf(s.server, p))
            /\ DailyAverage(p, s.since, cards[p].daily)

(* A slow answer for one project never paints over another: what a page at *)
(* rest lists belongs to the selected project (core.js:261-265).  It does  *)
(* not hold for the list of environments (README, disagreements), so no    *)
(* run checks it.                                                          *)
ScopeSelected ==
    LET s == scope
    IN AtRest(s) /\ s.view = "detail" /\ s.missed = {} =>
         \A e \in DOMAIN s.envs : s.envs[e].project = s.projectId
=============================================================================
